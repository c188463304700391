SPECIFICATION Spec
CONSTANTS
  str = str  pair = pair  mixed = mixed  obj = obj  oth = oth
  None = None
  Key = {str, pair}
  Hash <- Hashes
  Strings = {str}
  Objects = {}
  Nested = {}
  Tuples = {}
  Same = {}
  Capacities = {1}  FromKeys = {}
  MaxInserts = 6
INVARIANTS ProbeFindsEveryKey
PROPERTIES TableIsEager
CHECK_DEADLOCK FALSE
VIEW WithoutAnswer
