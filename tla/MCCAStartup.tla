----------------------------- MODULE MCCAStartup -----------------------------
(* The configurations of CAStartup that the run ca_startup checks.         *)
EXTENDS CAStartup

CONSTANTS s1, s2, h1, h2, admin, bob

MCServers == {s1, s2}
MCHandlers == {h1, h2}
MCIDs == {admin, bob}
MCBootstrap == <<admin>>
MCAffiliations == <<"org1">>

NewRow == [level |-> 0, registrar |-> TRUE, attrs |-> FALSE]

\* No database; one of release 1.0, which has no levels; one of release 1.1,
\* which has the three levels that VersionToLevels gives that release.
FreshDB == [tables |-> {}, column |-> FALSE, props |-> [n \in LevelRows |-> NoLevel],
            users |-> [id \in MCIDs |-> <<>>], affs |-> {}, ra |-> FALSE]
OldDB == [FreshDB EXCEPT !.tables = {"users", "affiliations", "certificates"},
                         !.users = [id \in MCIDs |-> <<NewRow>>], !.affs = {"org1"}]
DB11 == [OldDB EXCEPT !.column = TRUE,
                      !.users = [id \in MCIDs |-> <<[NewRow EXCEPT !.level = 1]>>],
                      !.props = [n \in LevelRows |->
                         IF GetLevels(<<1, 1, 0>>)[n] = 1 THEN 1 ELSE NoLevel]]

NoFiles == [f \in FileNames |-> Absent]
GivenFiles == [NoFiles EXCEPT !.key = 1, !.cert = 1]
SharedFiles == [f \in FileNames |-> IF f = "chain" THEN Absent ELSE 1]

GoodCert == [expired |-> FALSE, notYetValid |-> FALSE, usage |-> {"cert sign"}, isCA |-> TRUE,
             keyType |-> "ecdsa", keySize |-> 256]

OneServer == [h \in MCHandlers |-> s1]
TwoServers == [h \in MCHandlers |-> IF h = h1 THEN s1 ELSE s2]

Base == [driver |-> "sqlite3", db |-> FreshDB, host |-> OneServer, version |-> <<1, 2, 0>>,
         intermediate |-> FALSE, ldap |-> FALSE, badLimit |-> FALSE, bootstrapAttrs |-> TRUE,
         given |-> GoodCert, files |-> NoFiles, faults |-> 1]

BadCerts == {[GoodCert EXCEPT !.expired = TRUE], [GoodCert EXCEPT !.notYetValid = TRUE],
             [GoodCert EXCEPT !.usage = {}], [GoodCert EXCEPT !.isCA = FALSE],
             [GoodCert EXCEPT !.keyType = "dsa"],
             [GoodCert EXCEPT !.keyType = "rsa", !.keySize = 1024]}

Single ==
    {Base,
     [Base EXCEPT !.db = OldDB, !.version = <<0>>, !.faults = 2],
     [Base EXCEPT !.driver = "mysql", !.db = OldDB, !.version = <<1, 1>>,
                  !.intermediate = TRUE],
     [Base EXCEPT !.driver = "postgres", !.version = <<0>>, !.bootstrapAttrs = FALSE],
     [Base EXCEPT !.db = DB11, !.faults = 0],
     [Base EXCEPT !.driver = "mysql", !.db = DB11, !.faults = 0],
     [Base EXCEPT !.ldap = TRUE],
     [Base EXCEPT !.badLimit = TRUE],
     [Base EXCEPT !.version = <<1, 3>>]}
    \cup {[Base EXCEPT !.files = GivenFiles, !.given = c] : c \in BadCerts}
    \cup {[Base EXCEPT !.files = [GivenFiles EXCEPT !.key = 2]]}

Cluster ==
    {[Base EXCEPT !.driver = d, !.db = OldDB, !.host = TwoServers, !.files = SharedFiles,
                   !.faults = 0] :
        d \in {"mysql", "postgres"}}
    \cup {[Base EXCEPT !.driver = d, !.version = <<0>>, !.host = TwoServers,
                       !.files = SharedFiles, !.faults = 0] : d \in {"mysql", "postgres"}}

MCConfigs == Single \cup Cluster
=============================================================================
