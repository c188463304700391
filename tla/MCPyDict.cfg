SPECIFICATION Spec
CONSTANTS
  str = str  pair = pair  mixed = mixed  obj = obj  oth = oth
  None = None
  Key = {str, pair, mixed, obj, oth}
  Hash <- Hashes
  Strings = {str}
  Objects = {obj, oth}
  Nested = {mixed}
  Tuples = {pair}
  Same <- EqualKeys
  Capacities = {}  FromKeys = {1}
  MaxInserts = 3
INVARIANTS OneEntryPerKey ShadowComplete
PROPERTIES AnswerIsCurrent
CHECK_DEADLOCK FALSE
VIEW WithoutAnswer
