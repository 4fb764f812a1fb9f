SPECIFICATION Spec
CONSTANTS
    s1 = s1
    s2 = s2
    h1 = h1
    h2 = h2
    admin = admin
    bob = bob
    Servers <- MCServers
    Handlers <- MCHandlers
    IDs <- MCIDs
    Bootstrap <- MCBootstrap
    Affiliations <- MCAffiliations
    Configs <- MCConfigs
    MaxFaults = 2
    MaxKeys = 6
    Free = Free
INVARIANTS
    ServedDatabaseIsComplete
    OneDatabase
    RegrantsNothing
    KeyMaterialAgrees
PROPERTY
    Settles
