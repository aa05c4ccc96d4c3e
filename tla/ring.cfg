SPECIFICATION Spec
CONSTANTS
    T = {a, b}
    Junk = Junk
    N = 4
    MaxCount = 5
INVARIANTS
    TypeOK
    FlagsAgree
PROPERTIES
    ImplementsFifo
