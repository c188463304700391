SPECIFICATION Spec
CONSTANTS
  None = None
  Key = {a, b, c}
  Objects = {a, b}
  MaxSizes = {None, 0, 1, 2}
  MaxCalls = 6
  MaxDepth = 3
  MaxClears = 1
INVARIANTS ListIsSound ListIsCache
PROPERTIES LruOrder
CHECK_DEADLOCK FALSE
