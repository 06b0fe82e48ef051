SPECIFICATION Spec
CONSTANTS
    Request = {r1, r2}
    Mixes <- SaveBesideActivate
    MaxVersion = 4
    MaxFailures = 0
INVARIANT
    AtMostOneActive
CHECK_DEADLOCK FALSE
