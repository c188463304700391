SPECIFICATION Spec
CONSTANTS
  r1 = r1  x = x  y = y  obj = obj  num = num
  c1 = c1  c2 = c2  site1 = site1  site2 = site2  b1 = b1  b2 = b2  b3 = b3
  Unset = Unset
  Root = {r1}
  FsRoot = {}
  Name = {x, y}
  Value = {obj, num}
  AllocFree <- NoValue
  Finalizable <- MCFinalizable
  Seed <- NoSeed
  InitBuiltins <- NoBuiltins
  Code = {c1, c2}
  LocalNames <- SecondOnlyX
  CellNames <- XCell
  Site = {}
  SiteName <- LoadX
  ModuleSite = {}
  Bit = {x, y}
  Mask <- OwnBits
  MaxVersion = 4
  MaxFrames = 2
  EpochLimit = 2
INVARIANT ResolutionSound
PROPERTIES OneMapping MovesAreInvisible
