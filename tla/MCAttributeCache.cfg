SPECIFICATION Spec
CONSTANTS
    Base = Base  Derived = Derived  Holder = Holder  Descriptor = Descriptor
    o = o  d = d  fun = fun  mem = mem  ncm = ncm
    Unset = Unset
    Inline = Inline
    Class = {Base, Derived, Holder, Descriptor}
    Mro <- MCMro
    Layout <- MCLayout
    Slotted = {Base}
    Receiver = {o}
    Object = {d}
    Value = {fun, mem, ncm, d}
    Kind <- MCKind
    Function = fun
    Shared = fun
    ClassTarget = {Derived}
    Settable <- MCSettable
    Defines <- MCDefines
    Mortal = {Derived}
    InitClass <- MCInitClass
    MaxVersion = 1
    MaxEpoch = 2
INVARIANT HitSound
