\* An enrollment in progress while its identity is revoked.
SPECIFICATION Spec
CONSTANTS
    None = None
    admin = admin
    alice = alice
    adminRow = adminRow
    aliceRow = aliceRow
    IDs = {admin, alice}
    Rows = {adminRow, aliceRow}
    Serials = {c1, c2, c3}
    Handlers = {r1, r2}
    Ops = {"enroll", "revoke"}
    Driver = "postgres"
    CAMax = 2
    MaxRequests = {0}
    Bootstrap <- AdminAndAlice
    Manages <- AdminManagesAll
    Revokers = {admin}
    ReadsFail = FALSE
SYMMETRY Symmetry
PROPERTY RevocationIsPermanent
CHECK_DEADLOCK FALSE
