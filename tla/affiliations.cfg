\* Two requests at a time, every operation, a label that LIKE takes for another.
SPECIFICATION Spec
CONSTANTS
    a = a
    b = b
    admin = admin
    clerk = clerk
    r1 = r1
    r2 = r2
    NoAttr = NoAttr
    Free = Free
    Lost = Lost
    IDs = {admin, clerk}
    Labels = {a, b}
    MaxDepth = 2
    Names <- Requested
    Handlers = {r1, r2}
    Ops = {"add", "remove", "rename", "register", "modify", "enroll"}
    Managers = {admin, clerk}
    Registrars = {admin}
    LoadedAffs <- TwoRoots
    Configured <- AdminOnly
    Folded <- Wildcard
SYMMETRY Symmetry
INVARIANTS TypeOK AttributeAgrees
PROPERTIES TreeSpec OnlyStaleWritesOrphan IdentitiesNeedForce
CHECK_DEADLOCK FALSE
