SPECIFICATION Spec
CONSTANTS
    Request = {r1, r2, r3}
    Mixes <- UnmixedAndMixed
    MaxVersion = 3
    MaxFailures = 1
INVARIANTS
    TypeOK
    OneActiveWithinAMix
    LatestSaveWins
PROPERTIES
    RequestsEnd
    ImplementsVersionRegister
CHECK_DEADLOCK FALSE
