\* Credential and CRI requests whose transactions interleave.
SPECIFICATION Spec
CONSTANTS
    None = None
    IDs = {alice, bob}
    Nonces = {n1, n2}
    Handlers = {r1, r2}
    Driver = "mysql"
    RHPoolSize = 2
    CAMax = 2
    UserMax <- EnrollTwice
SYMMETRY Symmetry
INVARIANTS HandleIdentifiesCredential CRICoversCredential
CHECK_DEADLOCK FALSE
