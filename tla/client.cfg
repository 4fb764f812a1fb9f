SPECIFICATION Spec
CONSTANTS
    admin = admin
    peer = peer
    Procs = {1, 2}
    Names = {admin, peer}
    Admin = admin
    Commands <- MCCommands
    CAChain = {"root", "int"}
    MaxEnrollments = 1
    MaxCommands = 2
    MaxFaults = 2
    Absent = Absent
    Empty = Empty
    Mixed = Mixed
INVARIANTS
    CertificateHasKey
    LossesAreFaults
    DirectoryIsComplete
CHECK_DEADLOCK FALSE
