\* Every operation, on a table without unique IDs: two requests at a time.
SPECIFICATION Spec
CONSTANTS
    None = None
    admin = admin
    alice = alice
    adminRow = adminRow
    aliceRow = aliceRow
    IDs = {admin, alice}
    Rows = {adminRow, aliceRow, w3}
    Serials = {c1, c2, c3}
    Handlers = {r1, r2}
    Ops = {"enroll", "reenroll", "register", "modify", "delete", "revoke", "revokecert"}
    Driver = "sqlite3"
    CAMax = 2
    MaxRequests = {0}
    Bootstrap <- AdminOnly
    Manages <- AdminManagesAll
    Revokers = {admin}
    ReadsFail = FALSE
SYMMETRY Symmetry
INVARIANT TypeOK
PROPERTIES RevocationIsFinal RevocationIsComplete
CHECK_DEADLOCK FALSE
