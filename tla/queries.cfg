SPECIFICATION Spec
CONSTANTS
    None = None
    c1 = c1
    c2 = c2
    alice = alice
    bob = bob
    Certs = {c1, c2}
    Owner <- MCOwner
    Expiry <- MCExpiry
    Issued = {c1}
    IDs = {alice, bob}
    UserAff <- MCUserAff
    UserType <- MCUserType
    Handlers = {r1, r2}
    Conns = 1
    ListRequests <- MCListRequests
    CRLRequests <- MCCRLRequests
    Chunks <- MCChunks
    WireSize = 2
    MaxTime = 2
    MaxRequests = 2
    MaxFaults = 1
INVARIANTS
    SuccessMeansComplete
    CRLIsCurrent
PROPERTIES
    RevocationTimeIsFinal
    RequestsEnd
CHECK_DEADLOCK FALSE
