\* Enrollments against limits of one and two, and registrations of the same name.
SPECIFICATION Spec
CONSTANTS
    None = None
    admin = admin
    alice = alice
    adminRow = adminRow
    aliceRow = aliceRow
    IDs = {admin, alice}
    Rows = {adminRow, aliceRow, w3}
    Serials = {c1, c2, c3, c4}
    Handlers = {r1, r2}
    Ops = {"enroll", "reenroll", "register", "revokecert"}
    Driver = "mysql"
    CAMax = 2
    MaxRequests = {0, 1}
    Bootstrap <- AdminOnly
    Manages <- AdminManagesAll
    Revokers = {admin}
    ReadsFail = TRUE
SYMMETRY Symmetry
INVARIANT EnrollmentBound
PROPERTY QuotaSpec
CHECK_DEADLOCK FALSE
