SPECIFICATION Spec
CONSTANTS
    Names = {sys, typing, file, missing}
    Sys = sys
    Typing = typing
    Found = {sys, typing, file}
    Classes = {A}
    Registries = {boot, other, proto}
    Boot = boot
    Protocols = {proto}
    Absent = Absent
    Foreign = Foreign
    MaxObjects = 3
    MaxDepth = 2
    MaxEdits = 3
    MaxAliases = 1
    MaxGen = 3
CHECK_DEADLOCK FALSE
INVARIANTS
    TypeOK
    RegistryCacheSound
    ClassCacheSound
    RegistriesAgree
