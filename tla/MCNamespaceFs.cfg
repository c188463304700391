SPECIFICATION Spec
CONSTANTS
  r1 = r1  x = x  y = y  obj = obj  num = num
  c1 = c1  c2 = c2  site1 = site1  site2 = site2  b1 = b1  b2 = b2  b3 = b3
  Unset = Unset
  Root = {r1}
  FsRoot = {r1}
  Name = {x, y}
  Value = {obj, num}
  AllocFree <- MCAllocFree
  Finalizable <- MCFinalizable
  Seed <- NoSeed
  InitBuiltins <- MCInitBuiltins
  Code = {c1}
  LocalNames <- OnlyX
  CellNames <- NoCells
  Site = {site1, site2}
  SiteName <- LoadBoth
  ModuleSite = {site1}
  Bit = {b1, b2, b3}
  Mask <- SharedBits
  MaxVersion = 2
  MaxFrames = 2
  EpochLimit = 2
INVARIANTS TypeOK CacheCoherent CopiesAgree
