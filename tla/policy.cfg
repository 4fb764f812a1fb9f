SPECIFICATION Spec
CONSTANTS
    admin = admin
    orgReg = orgReg
    u1 = u1
    u2 = u2
    Parts <- MCParts
    IDs = {admin, orgReg, u1, u2}
    Bootstrap <- MCBootstrap
    Affiliations <- MCAffiliations
    Requests <- MCRequests
    Handlers = {r1, r2}
    MaxWrites = 3
SYMMETRY Symmetry
INVARIANTS
    NoEscalation
    FixedAttributesAgree
PROPERTIES
    NoAuthorityFromNothing
    ModifiesWhatIsAsked
CHECK_DEADLOCK FALSE
