\* Credential and CRI requests with one database connection.
SPECIFICATION Spec
CONSTANTS
    None = None
    IDs = {alice}
    Nonces = {n1, n2, n3}
    Handlers = {r1, r2}
    Driver = "sqlite3"
    RHPoolSize = 2
    CAMax = 1
    UserMax <- EnrollOnce
SYMMETRY Symmetry
INVARIANTS TypeOK  HandlesRepeatOnlyAtPoolEnd
CHECK_DEADLOCK FALSE
