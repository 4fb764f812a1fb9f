------------------------------ MODULE CAStartup ------------------------------
(***************************************************************************)
(* How a CA comes up: the key files and the certificate, the database with *)
(* its schema, its configured content and the migration of older content,  *)
(* the signer and the Idemix issuer.  The main thread of a server does it   *)
(* once when the process starts.  A database that could not be initialized *)
(* does not stop the server: every request tries again (GetCA), and so do  *)
(* several requests at the same time.  The servers of a cluster share the  *)
(* database.                                                               *)
(*                                                                         *)
(* One action is one statement of the database, one file written or one    *)
(* access to a variable that threads share.  A statement or a write may    *)
(* fail and a process may crash, cfg.faults times in all.                  *)
(***************************************************************************)
EXTENDS Integers, Sequences, FiniteSets

CONSTANTS
    Servers,        \* server processes, each with its own home directory
    Handlers,       \* requests that are processed at a time
    IDs,            \* enrollment IDs
    Bootstrap,      \* sequence of the configured identities (registrars)
    Affiliations,   \* sequence of the configured affiliations
    Configs,        \* the configurations to start from
    MaxFaults,      \* bound on failures and crashes
    MaxKeys,        \* bound on the keys that are ever generated in one home
    Free            \* nobody holds the mutex

AffiliationNames ==
    {Affiliations[i] : i \in DOMAIN Affiliations} \cup UNION {c.db.affs : c \in Configs}

ASSUME StartupConstantsOK ==
    /\ Servers \cap Handlers = {} /\ Free \notin Servers \cup Handlers
    /\ IsFiniteSet(Handlers) /\ IsFiniteSet(IDs)
    /\ Bootstrap \in Seq(IDs) \ {<<>>}
    /\ Affiliations \in Seq(AffiliationNames) \ {<<>>}
    /\ MaxFaults \in Nat /\ MaxKeys \in Nat

VARIABLES
    cfg,       \* the configuration, the same for all servers
    proc,      \* server -> state of its process
    ca,        \* server -> the CA object of the process
    lock,      \* server -> who holds ca.mutex
    ilock,     \* server -> who holds the mutex of the issuer
    th,        \* thread -> where it is and its local variables
    db,        \* the database
    files,     \* server -> the files of its home directory
    keystore,  \* server -> the private keys that BCCSP stores
    faults,    \* the failures still to come
    removed    \* the IDs that lost hf.Registrar.Attributes by a request

vars == <<cfg, proc, ca, lock, ilock, th, db, files, keystore, faults, removed>>

Threads == Servers \cup Handlers      \* the main thread has its server's name
Host(t) == IF t \in Servers THEN t ELSE cfg.host[t]
Clustered == Cardinality({cfg.host[h] : h \in Handlers}) > 1
-----------------------------------------------------------------------------
(* Versions and levels.                                                    *)

LevelNames == <<"identity", "affiliation", "certificate", "credential", "rcinfo", "nonce">>
LevelRows == {LevelNames[i] : i \in DOMAIN LevelNames}
NoLevel == -1                         \* the row is not in the properties table
ServerVersion == <<1, 2, 0>>

\* 0 when the versions are equal, 1 when v2 is later, -1 when it is earlier.
CmpVersion(v1, v2) ==
    LET part(v, i) == IF i > Len(v) THEN 0 ELSE v[i]
        differ == {i \in 1..Len(v1) + Len(v2) : part(v1, i) # part(v2, i)}
        first == CHOOSE i \in differ : \A j \in differ : i <= j
    IN  IF differ = {} THEN 0 ELSE IF part(v1, first) < part(v2, first) THEN 1 ELSE -1

VersionToLevels ==
    << [version |-> <<0>>,       levels |-> [n \in LevelRows |-> 0]],
       [version |-> <<1, 1, 0>>, levels |-> [n \in LevelRows |->
            IF n \in {"identity", "affiliation", "certificate"} THEN 1 ELSE 0]],
       [version |-> <<1, 2, 0>>, levels |-> [n \in LevelRows |-> 1]] >>

\* The levels of the latest release that is not later than version.
GetLevels(version) ==
    LET known == {i \in DOMAIN VersionToLevels :
                    CmpVersion(VersionToLevels[i].version, version) >= 0}
    IN  VersionToLevels[CHOOSE i \in known : \A j \in known : j <= i].levels

ServerLevels == GetLevels(ServerVersion)
-----------------------------------------------------------------------------
(* The CA object, the database and the files.                              *)

None == 0                             \* a nil handle
Handles == 1..6
NoKey == [pub |-> -1, priv |-> -1]

\* Handles tell apart the connections that initDB opens one after the other.
CAObject ==
    [db : Handles \cup {None}, ready : BOOLEAN,         \* ca.db and IsDBInitialized
     registry : Handles \cup {None}, certs : Handles \cup {None},
     signer : Handles \cup {None, -1},                  \* -1: no enrollSigner yet
     issuerDB : Handles \cup {None}, issuerReady : BOOLEAN,
     issuerKey : [pub : Int, priv : Int], revKey : [pub : Int, priv : Int]]

NewCA == [db |-> None, ready |-> FALSE, registry |-> None, certs |-> None, signer |-> -1,
          issuerDB |-> None, issuerReady |-> FALSE, issuerKey |-> NoKey, revKey |-> NoKey]

InUse(c) == {c.db, c.registry, c.certs, c.signer, c.issuerDB}
NewHandle(c) == CHOOSE n \in Handles : n \notin InUse(c)

Absent == -1
Empty == 0                            \* truncated and not written
Keys == 1..MaxKeys
FileNames == {"key", "cert", "chain", "ipk", "isk", "rpriv", "rpub"}
Home == [FileNames -> Keys \cup {Absent, Empty}]
Exists(s, f) == files[s][f] # Absent

UsedKeys(s) == {files[s][f] : f \in FileNames} \cup keystore[s]
NewKey(s) == CHOOSE k \in Keys : k \notin UsedKeys(s)

\* The tables next to properties, in the order of their creation.
DataTables == <<"users", "affiliations", "certificates", "credentials",
                "revocation_authority_info", "nonces">>
AllTables == {DataTables[i] : i \in DOMAIN DataTables}

\* A row of users: its level and whether the attributes hf.Registrar.Roles
\* and hf.Registrar.Attributes are set.
UserRow == [level : {0, 1}, registrar : BOOLEAN, attrs : BOOLEAN]

Database ==
    [tables : SUBSET AllTables, column : BOOLEAN, props : [LevelRows -> {NoLevel, 0, 1}],
     users : [IDs -> Seq(UserRow)], affs : SUBSET AffiliationNames, ra : BOOLEAN]

\* The last step of the thread, its loop and what it read.
Idle == [pc |-> "idle", todo |-> <<>>, snap |-> <<>>, failed |-> FALSE, key |-> 0]

MainPCs == {"config", "keys", "writeChain", "writeCert", "signer"}
DBPCs == {"createTables", "open", "schema", "schemaRest", "accessors", "check", "lookup",
          "insert", "affs", "snapshot", "user", "addAttr", "setLevel", "levels", "finish"}
IssuerPCs == {"issuerKey", "storeIpk", "storeIsk", "revKey", "storeRpriv", "storeRpub",
              "raInfo", "raInsert"}
PCs == MainPCs \cup DBPCs \cup IssuerPCs \cup
       {"idle", "getCA", "getCAReady", "initDB", "initDBReady", "lock", "issuer", "ilock",
        "serving"}

Items == AllTables \cup IDs \cup AffiliationNames \cup LevelRows    \* what loops are over
Thread == [pc : PCs, todo : Seq(Items), snap : Seq([id : IDs, row : UserRow]),
           failed : BOOLEAN, key : Keys \cup {0}]

TypeOK ==
    /\ cfg \in Configs
    /\ proc \in [Servers -> {"down", "starting", "up"}]
    /\ ca \in [Servers -> CAObject]
    /\ lock \in [Servers -> Threads \cup {Free}]
    /\ ilock \in [Servers -> Threads \cup {Free}]
    /\ th \in [Threads -> Thread]
    /\ db \in Database
    /\ files \in [Servers -> Home]
    /\ keystore \in [Servers -> SUBSET Keys]
    /\ faults \in 0..MaxFaults
    /\ removed \subseteq IDs

\* A configuration: the database driver and what the database holds at first,
\* the servers that the requests go to, the version of the configuration file,
\* whether the CA has a parent, uses LDAP, configures an invalid enrollment
\* limit, or is given a key file and a certificate (and what that is like),
\* and how many failures there will be.
Certificate == [expired : BOOLEAN, notYetValid : BOOLEAN, usage : SUBSET {"cert sign", "crl sign"},
                isCA : BOOLEAN, keyType : {"ecdsa", "rsa", "dsa"}, keySize : Nat]

Config == [driver : {"sqlite3", "mysql", "postgres"}, db : Database,
           host : [Handlers -> Servers], version : Seq(Nat), intermediate : BOOLEAN,
           ldap : BOOLEAN, badLimit : BOOLEAN, bootstrapAttrs : BOOLEAN,
           given : Certificate, files : Home, faults : 0..MaxFaults]

\* A database of SQLite is a file in the home of one server.  The files that
\* are there at first belong together: a certificate of an intermediate CA
\* comes with its chain, a secret key with its public key.
ASSUME ConfigsOK ==
    /\ Configs \subseteq Config
    /\ \A c \in Configs :
         /\ c.driver = "sqlite3" => \A g, h \in Handlers : c.host[g] = c.host[h]
         /\ c.intermediate /\ c.files["cert"] # Absent => c.files["chain"] = c.files["cert"]
         /\ c.files["isk"] \in {Absent, c.files["ipk"]}
         /\ c.files["rpub"] \in {Absent, c.files["rpriv"]}

Init ==
    /\ cfg \in Configs
    /\ proc = [s \in Servers |-> "down"]
    /\ ca = [s \in Servers |-> NewCA]
    /\ lock = [s \in Servers |-> Free]
    /\ ilock = [s \in Servers |-> Free]
    /\ th = [t \in Threads |-> Idle]
    /\ db = cfg.db
    /\ files = [s \in Servers |-> cfg.files]
    /\ keystore = [s \in Servers |-> {}]
    /\ faults = cfg.faults
    /\ removed = {}
-----------------------------------------------------------------------------
Goto(t, pc) == th' = [th EXCEPT ![t].pc = pc]
Put(s, f, v) == files' = [files EXCEPT ![s][f] = v]

\* The process of s ends: nothing but the database and the files is left.
Exit(s) ==
    /\ proc' = [proc EXCEPT ![s] = "down"]
    /\ ca' = [ca EXCEPT ![s] = NewCA]
    /\ lock' = [lock EXCEPT ![s] = Free]
    /\ ilock' = [ilock EXCEPT ![s] = Free]
    /\ th' = [t \in Threads |-> IF Host(t) = s THEN Idle ELSE th[t]]

Start(s) ==
    /\ proc[s] = "down"
    /\ \E h \in Handlers : Host(h) = s
    /\ proc' = [proc EXCEPT ![s] = "starting"]
    /\ Goto(s, "config")
    /\ UNCHANGED <<cfg, ca, lock, ilock, db, files, keystore, faults, removed>>

\* initConfig: a configuration file that is newer than the server is refused.
CheckConfigLevels(s) ==
    /\ th[s].pc = "config"
    /\ IF CmpVersion(cfg.version, ServerVersion) = -1
       THEN Exit(s)
       ELSE Goto(s, "keys") /\ UNCHANGED <<proc, ca, lock, ilock>>
    /\ UNCHANGED <<cfg, db, files, keystore, faults, removed>>

ValidCertificate(c) ==
    /\ ~c.expired /\ ~c.notYetValid
    /\ "cert sign" \in c.usage
    /\ c.isCA
    /\ c.keyType # "dsa" /\ (c.keyType = "rsa" => c.keySize >= 2048)

validateMatchingKeys(s) == files[s].cert = files[s].key

\* The checks of a certificate that is given together with a key file.
ValidateCertAndKey(s) ==
    files[s].cert # Empty /\ ValidCertificate(cfg.given) /\ validateMatchingKeys(s)

\* A new key, which BCCSP stores, and a certificate for it: of the CA itself or
\* from the parent of an intermediate CA, whose chain is stored first.
GetCACert(s) ==
    LET k == NewKey(s) IN
    /\ ~(Keys \subseteq UsedKeys(s))
    /\ keystore' = [keystore EXCEPT ![s] = @ \cup {k}]
    /\ th' = [th EXCEPT ![s].key = k,
                        ![s].pc = IF cfg.intermediate THEN "writeChain" ELSE "writeCert"]
    /\ UNCHANGED <<proc, ca, lock, ilock>>

\* A key and a certificate are used when they are there, and made otherwise.
InitKeyMaterial(s) ==
    /\ th[s].pc = "keys"
    /\ LET usable == IF Exists(s, "key") THEN ValidateCertAndKey(s)
                                         ELSE files[s].cert \in keystore[s]
       IN  IF Exists(s, "cert")
           THEN /\ IF usable THEN Goto(s, "initDB") /\ UNCHANGED <<proc, ca, lock, ilock>>
                             ELSE Exit(s)
                /\ UNCHANGED keystore
           ELSE GetCACert(s)
    /\ UNCHANGED <<cfg, db, files, faults, removed>>

WriteChain(s) ==
    /\ th[s].pc = "writeChain"
    /\ Put(s, "chain", th[s].key)
    /\ Goto(s, "writeCert")
    /\ UNCHANGED <<cfg, proc, ca, lock, ilock, db, keystore, faults, removed>>

WriteCert(s) ==
    /\ th[s].pc = "writeCert"
    /\ Put(s, "cert", th[s].key)
    /\ th' = [th EXCEPT ![s] = [Idle EXCEPT !.pc = "initDB"]]
    /\ UNCHANGED <<cfg, proc, ca, lock, ilock, db, keystore, faults, removed>>
-----------------------------------------------------------------------------
(* initDB                                                                  *)

\* ca.db and IsDBInitialized are read one after the other, without the mutex.
\* If ca.db became nil in between the goroutine of the request panics, and
\* net/http ends the request.
InitDB(t) ==
    LET c == ca[Host(t)] IN
    /\ \/ /\ th[t].pc = "initDB"
          /\ Goto(t, IF c.db = None THEN "lock" ELSE "initDBReady")
       \/ /\ th[t].pc = "initDBReady"
          /\ Goto(t, IF c.db = None THEN "idle"
                     ELSE IF c.ready THEN (IF t \in Servers THEN "signer" ELSE "issuer")
                     ELSE "lock")
    /\ UNCHANGED <<cfg, proc, ca, lock, ilock, db, files, keystore, faults, removed>>

\* Variant: an early return that forgets the mutex.
ReturnDBKeepsLock(t, ok) ==
    /\ lock' = IF ok THEN [lock EXCEPT ![Host(t)] = Free] ELSE lock
    /\ th' = [th EXCEPT ![t] = [Idle EXCEPT !.pc =
                IF t \in Servers THEN "signer" ELSE IF ok THEN "issuer" ELSE "idle"]]

\* The mutex is free again; the main thread goes on whatever the outcome is.
ReturnDB(t, ok) ==
    /\ lock' = [lock EXCEPT ![Host(t)] = Free]
    /\ th' = [th EXCEPT ![t] = [Idle EXCEPT !.pc =
                IF t \in Servers THEN "signer" ELSE IF ok THEN "issuer" ELSE "idle"]]

LockDB(t) ==
    LET s == Host(t) IN
    /\ th[t].pc = "lock"
    /\ lock[s] = Free
    /\ IF ca[s].db # None /\ ca[s].ready
       THEN ReturnDB(t, TRUE)
       ELSE /\ lock' = [lock EXCEPT ![s] = t]
            /\ th' = [th EXCEPT ![t].pc = "createTables", ![t].todo = DataTables]
    /\ UNCHANGED <<cfg, proc, ca, ilock, db, files, keystore, faults, removed>>

\* A loop over th[t].todo that goes on at pc, or at next when it is done.
Loop(t, pc, next, items) ==
    th' = [th EXCEPT ![t].todo = IF Len(@) > 1 THEN Tail(@) ELSE items,
                     ![t].pc = IF Len(th[t].todo) > 1 THEN pc ELSE next]

\* CREATE TABLE IF NOT EXISTS: a new users table has the column level.
WithTables(new) ==
    [db EXCEPT !.tables = @ \cup new,
               !.column = @ \/ "users" \in new \ db.tables]

\* All tables in one transaction.
CreateSQLiteTables(t) ==
    /\ th[t].pc = "createTables" /\ cfg.driver = "sqlite3"
    /\ db' = WithTables(AllTables)
    /\ th' = [th EXCEPT ![t].pc = "open", ![t].todo = <<>>]
    /\ UNCHANGED <<cfg, proc, ca, lock, ilock, files, keystore, faults, removed>>

\* One table after the other: what precedes an error stays.
CreatePostgresTables(t) ==
    /\ th[t].pc = "createTables" /\ cfg.driver = "postgres"
    /\ db' = WithTables({Head(th[t].todo)})
    /\ Loop(t, "createTables", "open", <<>>)
    /\ UNCHANGED <<cfg, proc, ca, lock, ilock, files, keystore, faults, removed>>

CreateMySQLTables(t) ==
    /\ th[t].pc = "createTables" /\ cfg.driver = "mysql"
    /\ db' = WithTables({Head(th[t].todo)})
    /\ Loop(t, "createTables", "open", <<>>)
    /\ UNCHANGED <<cfg, proc, ca, lock, ilock, files, keystore, faults, removed>>

\* The properties table and its rows: one INSERT of six rows, which is refused
\* as a whole if one of them exists.  Then the connection is opened.
OpenDB(t) ==
    LET s == Host(t) IN
    /\ th[t].pc = "open"
    /\ db' = [db EXCEPT !.props = IF \A n \in LevelRows : @[n] = NoLevel
                                  THEN [n \in LevelRows |-> 0] ELSE @]
    /\ ca' = [ca EXCEPT ![s].db = NewHandle(ca[s]), ![s].ready = FALSE]
    /\ Goto(t, "schema")
    /\ UNCHANGED <<cfg, proc, lock, ilock, files, keystore, faults, removed>>

\* SQLite cannot alter columns: a table of an older level is copied into a new
\* one in a transaction, and the level of the rows is not copied.  The users
\* come first.  All six levels have to be there.
UpdateSQLiteSchema(t) ==
    /\ th[t].pc = "schema" /\ cfg.driver = "sqlite3"
    /\ \/ /\ \E n \in LevelRows : db.props[n] = NoLevel
          /\ ReturnDB(t, FALSE)
          /\ UNCHANGED db
       \/ /\ \A n \in LevelRows : db.props[n] # NoLevel
          /\ db' = IF db.props["identity"] >= ServerLevels["identity"] THEN db
                   ELSE [db EXCEPT !.column = TRUE, !.users = [id \in IDs |->
                          [i \in DOMAIN @[id] |-> [@[id][i] EXCEPT !.level = 0]]]]
          /\ Goto(t, "schemaRest")
          /\ UNCHANGED lock
    /\ UNCHANGED <<cfg, proc, ca, ilock, files, keystore, faults, removed>>

\* MySQL and PostgreSQL alter the tables; a column that exists is no error.
AlterTables(t) ==
    /\ th[t].pc = "schema" /\ cfg.driver # "sqlite3"
    /\ db' = [db EXCEPT !.column = TRUE]
    /\ Goto(t, "schemaRest")
    /\ UNCHANGED <<cfg, proc, ca, lock, ilock, files, keystore, faults, removed>>

\* The tables of affiliations and certificates, whose level nothing reads.
UpdateSchemaRest(t) ==
    /\ th[t].pc = "schemaRest"
    /\ Goto(t, "accessors")
    /\ UNCHANGED <<cfg, proc, ca, lock, ilock, db, files, keystore, faults, removed>>

\* With LDAP the registry is the LDAP client.
initUserRegistry(c) == IF cfg.ldap THEN c.registry ELSE c.db

\* Variant: the signer keeps the connection of an earlier attempt.
SetAccessorsKeepsSigner(t) ==
    LET s == Host(t) IN
    /\ th[t].pc = "accessors"
    /\ ca' = [ca EXCEPT ![s].certs = ca[s].db,
                        ![s].registry = initUserRegistry(ca[s])]
    /\ Goto(t, IF cfg.ldap THEN "finish" ELSE "check")
    /\ UNCHANGED <<cfg, proc, lock, ilock, db, files, keystore, faults, removed>>

\* The objects that use the database get the new connection.  With LDAP the
\* database needs nothing else.
SetAccessors(t) ==
    LET s == Host(t) IN
    /\ th[t].pc = "accessors"
    /\ ca' = [ca EXCEPT ![s].certs = ca[s].db,
                        ![s].signer = IF @ = -1 THEN @ ELSE ca[s].db,
                        ![s].registry = initUserRegistry(ca[s])]
    /\ Goto(t, IF cfg.ldap THEN "finish" ELSE "check")
    /\ UNCHANGED <<cfg, proc, lock, ilock, db, files, keystore, faults, removed>>

\* checkDBLevels looks for "identity" where the property is "identity.level":
\* it takes every level for 0 and never refuses.
CheckDBLevels(t) ==
    /\ th[t].pc = "check"
    /\ th' = [th EXCEPT ![t].pc = "lookup", ![t].todo = Bootstrap]
    /\ UNCHANGED <<cfg, proc, ca, lock, ilock, db, files, keystore, faults, removed>>

\* addIdentity did not find the identity.  An invalid limit is a fatal error
\* then: the server stops, a request fails.
NotFound(t) ==
    \/ /\ ~cfg.badLimit
       /\ Goto(t, "insert")
       /\ UNCHANGED <<proc, ca, lock, ilock>>
    \/ /\ cfg.badLimit
       /\ IF t \in Servers THEN Exit(t)
                           ELSE ReturnDB(t, FALSE) /\ UNCHANGED <<proc, ca, ilock>>

\* loadUsersTable, addIdentity: is the next identity registered?
LookupUser(t) ==
    LET id == Head(th[t].todo) IN
    /\ th[t].pc = "lookup"
    /\ \/ db.users[id] = <<>> /\ NotFound(t)
       \/ /\ db.users[id] # <<>>
          /\ Loop(t, "lookup", "affs", Affiliations)
          /\ UNCHANGED <<proc, ca, lock, ilock>>
    /\ UNCHANGED <<cfg, db, files, keystore, faults, removed>>

\* loadUsersTable gives up at the first error; initDB notes it and goes on.
GiveUpUsers(t) ==
    th' = [th EXCEPT ![t].failed = TRUE, ![t].pc = "affs", ![t].todo = Affiliations]

\* Only MySQL has a primary key on users.
InsertUser(t) ==
    LET id == Head(th[t].todo)
        row == [level |-> GetLevels(cfg.version)["identity"],
                registrar |-> TRUE, attrs |-> cfg.bootstrapAttrs]
    IN
    /\ th[t].pc = "insert"
    /\ IF cfg.driver = "mysql" /\ db.users[id] # <<>>
       THEN GiveUpUsers(t) /\ UNCHANGED db
       ELSE /\ db' = [db EXCEPT !.users[id] = Append(@, row)]
            /\ Loop(t, "lookup", "affs", Affiliations)
    /\ UNCHANGED <<cfg, proc, ca, lock, ilock, files, keystore, faults, removed>>

\* InsertAffiliation takes an affiliation that exists for inserted.
LoadAffiliation(t) ==
    /\ th[t].pc = "affs"
    /\ db' = [db EXCEPT !.affs = @ \cup {Head(th[t].todo)}]
    /\ Loop(t, "affs", "snapshot", <<>>)
    /\ UNCHANGED <<cfg, proc, ca, lock, ilock, files, keystore, faults, removed>>

\* performMigration: GetUserLessThanLevel reads the rows below the level (one
\* entry for each row), in the order of the table.
GetUserLessThanLevel(t) ==
    LET below == UNION {{<<id, i>> : i \in {j \in DOMAIN db.users[id] :
                                                db.users[id][j].level < 1}} : id \in IDs}
    IN
    /\ th[t].pc = "snapshot" /\ db.column
    /\ \E order \in [1..Cardinality(below) -> below] :
         /\ \A x, y \in DOMAIN order : x # y => order[x] # order[y]
         /\ th' = [th EXCEPT ![t].pc = "user",
                             ![t].snap = [x \in DOMAIN order |->
                                [id |-> order[x][1], row |-> db.users[order[x][1]][order[x][2]]]]]
    /\ UNCHANGED <<cfg, proc, ca, lock, ilock, db, files, keystore, faults, removed>>

\* migrateUserToLevel1: a registrar gets the attribute that is new, if it has none.
LacksAttribute(u) == u.registrar /\ ~u.attrs

\* performMigration decides from what was read.
MigrateUser(t) ==
    LET u == Head(th[t].snap).row IN
    /\ th[t].pc = "user"
    /\ IF th[t].snap = <<>>
       THEN th' = [th EXCEPT ![t].pc = "levels", ![t].todo = LevelNames]
       ELSE Goto(t, IF LacksAttribute(u) THEN "addAttr" ELSE "setLevel")
    /\ UNCHANGED <<cfg, proc, ca, lock, ilock, db, files, keystore, faults, removed>>

\* The rows with the ID of the identity that is being migrated.
RowsToMigrate(t) == db.users[Head(th[t].snap).id]

\* UPDATE users SET ... WHERE id = ?: the statement must affect one row, and
\* MySQL counts only the rows that it changes.
UpdateUser(t, new, next, rest) ==
    LET id == Head(th[t].snap).id
        counted == {i \in DOMAIN new : cfg.driver = "mysql" => new[i] # db.users[id][i]}
    IN
    /\ db' = [db EXCEPT !.users[id] = new]
    /\ th' = IF Cardinality(counted) = 1
             THEN [th EXCEPT ![t].pc = next, ![t].snap = rest]
             ELSE [th EXCEPT ![t].pc = "finish", ![t].failed = TRUE]

\* ModifyAttributes(hf.Registrar.Attributes = *): what was read, with it.
AddAttribute(t) ==
    LET rows == RowsToMigrate(t) IN
    /\ th[t].pc = "addAttr"
    /\ UpdateUser(t, [i \in DOMAIN rows |-> [rows[i] EXCEPT !.attrs = TRUE]],
                  "setLevel", th[t].snap)
    /\ UNCHANGED <<cfg, proc, ca, lock, ilock, files, keystore, faults, removed>>

SetLevel(t) ==
    LET rows == RowsToMigrate(t) IN
    /\ th[t].pc = "setLevel"
    /\ UpdateUser(t, [i \in DOMAIN rows |-> [rows[i] EXCEPT !.level = 1]],
                  "user", Tail(th[t].snap))
    /\ UNCHANGED <<cfg, proc, ca, lock, ilock, files, keystore, faults, removed>>

\* Variant: the level of the identities is not written.
UpdateDBLevelSkips(t) ==
    LET n == Head(th[t].todo) IN
    /\ th[t].pc = "levels"
    /\ db' = [db EXCEPT !.props[n] = IF n = "identity" THEN @ ELSE ServerLevels[n]]
    /\ Loop(t, "levels", "finish", <<>>)
    /\ UNCHANGED <<cfg, proc, ca, lock, ilock, files, keystore, faults, removed>>

\* UpdateDBLevel: one UPDATE for each level; a row that is missing stays so.
UpdateDBLevel(t) ==
    LET n == Head(th[t].todo) IN
    /\ th[t].pc = "levels"
    /\ db' = [db EXCEPT !.props[n] = IF @ = NoLevel THEN @ ELSE ServerLevels[n]]
    /\ Loop(t, "levels", "finish", <<>>)
    /\ UNCHANGED <<cfg, proc, ca, lock, ilock, files, keystore, faults, removed>>

\* Variant: initDB does not look at dbError.
FinishDBIgnoresErrors(t) ==
    LET s == Host(t) IN
    /\ th[t].pc = "finish"
    /\ ca' = [ca EXCEPT ![s].ready = TRUE]
    /\ ReturnDB(t, TRUE)
    /\ UNCHANGED <<cfg, proc, ilock, db, files, keystore, faults, removed>>

FinishDB(t) ==
    LET s == Host(t) IN
    /\ th[t].pc = "finish"
    /\ ca' = [ca EXCEPT ![s].ready = ~th[t].failed]
    /\ ReturnDB(t, ~th[t].failed)
    /\ UNCHANGED <<cfg, proc, ilock, db, files, keystore, faults, removed>>
-----------------------------------------------------------------------------
(* The signer and the Idemix issuer.                                       *)

InitEnrollmentSigner(s) ==
    /\ th[s].pc = "signer"
    /\ ca' = [ca EXCEPT ![s].signer = ca[s].certs]
    /\ Goto(s, "issuer")
    /\ UNCHANGED <<cfg, proc, lock, ilock, db, files, keystore, faults, removed>>

\* The main thread begins to listen; a request goes on to be served.
IssuerDone(t) ==
    /\ proc' = IF t \in Servers THEN [proc EXCEPT ![t] = "up"] ELSE proc
    /\ th' = [th EXCEPT ![t] = [Idle EXCEPT !.pc =
                IF t \in Servers THEN "idle" ELSE "serving"]]

\* The error ends the server at startup.  GetCA drops it and returns no CA:
\* the handler panics.
IssuerFailed(t) ==
    IF t \in Servers THEN Exit(t)
    ELSE /\ ilock' = [ilock EXCEPT ![Host(t)] = Free]
         /\ th' = [th EXCEPT ![t] = Idle]
         /\ UNCHANGED <<proc, ca, lock>>

InitIssuer(t) ==
    /\ th[t].pc = "issuer"
    /\ IF ca[Host(t)].issuerReady THEN IssuerDone(t)
                                  ELSE Goto(t, "ilock") /\ UNCHANGED proc
    /\ UNCHANGED <<cfg, ca, lock, ilock, db, files, keystore, faults, removed>>

\* Without a database that is initialized Init does nothing and succeeds.
LockIssuer(t) ==
    LET s == Host(t) c == ca[s] IN
    /\ th[t].pc = "ilock"
    /\ ilock[s] = Free
    /\ IF c.issuerReady \/ c.db = None \/ ~c.ready
       THEN IssuerDone(t) /\ UNCHANGED <<ca, ilock>>
       ELSE /\ ilock' = [ilock EXCEPT ![s] = t]
            /\ ca' = [ca EXCEPT ![s].issuerDB = c.db]
            /\ Goto(t, "issuerKey")
            /\ UNCHANGED proc
    /\ UNCHANGED <<cfg, lock, db, files, keystore, faults, removed>>

Loadable(s, pub, priv) == Empty \notin {files[s][pub], files[s][priv]}

\* A pair of key files is loaded if both are there and not empty, and made
\* otherwise; loaded is the CA object with them.  Nothing checks that the two
\* belong together.
KeyFiles(t, at, pub, priv, first, next, loaded) ==
    LET s == Host(t) IN
    /\ th[t].pc = at
    /\ \/ /\ Exists(s, pub) /\ Exists(s, priv)
          /\ Loadable(s, pub, priv)
          /\ ca' = [ca EXCEPT ![s] = loaded]
          /\ Goto(t, next)
          /\ UNCHANGED <<proc, lock, ilock>>
       \/ /\ Exists(s, pub) /\ Exists(s, priv)
          /\ ~Loadable(s, pub, priv)
          /\ IssuerFailed(t)
       \/ /\ ~(Exists(s, pub) /\ Exists(s, priv))
          /\ ~(Keys \subseteq UsedKeys(s))
          /\ th' = [th EXCEPT ![t].key = NewKey(s), ![t].pc = first]
          /\ UNCHANGED <<proc, ca, lock, ilock>>
    /\ UNCHANGED <<cfg, db, files, keystore, faults, removed>>

IssuerKeyMaterial(t) ==
    LET s == Host(t) IN
    KeyFiles(t, "issuerKey", "ipk", "isk", "storeIpk", "revKey",
             [ca[s] EXCEPT !.issuerKey = [pub |-> files[s].ipk, priv |-> files[s].isk]])

RevocationKeyMaterial(t) ==
    LET s == Host(t) IN
    KeyFiles(t, "revKey", "rpub", "rpriv", "storeRpriv", "raInfo",
             [ca[s] EXCEPT !.revKey = [pub |-> files[s].rpub, priv |-> files[s].rpriv]])

\* Variant: a public key that is already on disk is left there.
StoreIssuerKeyKeepsPublic(t) ==
    LET s == Host(t) k == th[t].key IN
    /\ \/ /\ th[t].pc = "storeIpk"
          /\ Put(s, "ipk", IF Exists(s, "ipk") THEN files[s].ipk ELSE k)
          /\ Goto(t, "storeIsk") /\ UNCHANGED ca
       \/ /\ th[t].pc = "storeIsk"
          /\ Put(s, "isk", k) /\ Goto(t, "revKey")
          /\ ca' = [ca EXCEPT ![s].issuerKey = [pub |-> k, priv |-> k]]
    /\ UNCHANGED <<cfg, proc, lock, ilock, db, keystore, faults, removed>>

\* Store of the issuer's credential: the public key, then the secret key.
StoreIssuerKey(t) ==
    LET s == Host(t) k == th[t].key IN
    /\ \/ /\ th[t].pc = "storeIpk"
          /\ Put(s, "ipk", k) /\ Goto(t, "storeIsk") /\ UNCHANGED ca
       \/ /\ th[t].pc = "storeIsk"
          /\ Put(s, "isk", k) /\ Goto(t, "revKey")
          /\ ca' = [ca EXCEPT ![s].issuerKey = [pub |-> k, priv |-> k]]
    /\ UNCHANGED <<cfg, proc, lock, ilock, db, keystore, faults, removed>>

\* Store of the revocation key: the private key, then the public key.
StoreRevocationKey(t) ==
    LET s == Host(t) k == th[t].key IN
    /\ \/ /\ th[t].pc = "storeRpriv"
          /\ Put(s, "rpriv", k) /\ Goto(t, "storeRpub") /\ UNCHANGED ca
       \/ /\ th[t].pc = "storeRpub"
          /\ Put(s, "rpub", k) /\ Goto(t, "raInfo")
          /\ ca' = [ca EXCEPT ![s].revKey = [pub |-> k, priv |-> k]]
    /\ UNCHANGED <<cfg, proc, lock, ilock, db, keystore, faults, removed>>

IssuerReady(t) ==
    /\ ca' = [ca EXCEPT ![Host(t)].issuerReady = TRUE]
    /\ ilock' = [ilock EXCEPT ![Host(t)] = Free]
    /\ IssuerDone(t)
    /\ UNCHANGED lock

\* NewRevocationAuthority reads the row of the revocation authority.
GetRAInfo(t) ==
    /\ th[t].pc = "raInfo"
    /\ IF db.ra THEN IssuerReady(t)
                ELSE Goto(t, "raInsert") /\ UNCHANGED <<proc, ca, lock, ilock>>
    /\ UNCHANGED <<cfg, db, files, keystore, faults, removed>>

\* Its epoch is the primary key: the row of another server is not replaced.
AddRAInfo(t) ==
    /\ th[t].pc = "raInsert"
    /\ IF db.ra THEN IssuerFailed(t) ELSE IssuerReady(t)
    /\ db' = [db EXCEPT !.ra = TRUE]
    /\ UNCHANGED <<cfg, files, keystore, faults, removed>>
-----------------------------------------------------------------------------
(* Requests.                                                               *)

Request(h) ==
    /\ proc[Host(h)] = "up" /\ th[h].pc = "idle"
    /\ Goto(h, "getCA")
    /\ UNCHANGED <<cfg, proc, ca, lock, ilock, db, files, keystore, faults, removed>>

\* GetCA reads the two variables like initDB does.
GetCA(h) ==
    LET c == ca[Host(h)] IN
    /\ \/ /\ th[h].pc = "getCA"
          /\ Goto(h, IF c.db = None THEN "initDB" ELSE "getCAReady")
       \/ /\ th[h].pc = "getCAReady"
          /\ Goto(h, IF c.db = None THEN "idle" ELSE IF c.ready THEN "serving" ELSE "initDB")
    /\ UNCHANGED <<cfg, proc, ca, lock, ilock, db, files, keystore, faults, removed>>

\* The request is served: it may take hf.Registrar.Attributes from an
\* identity of the current level.
Serve(h) ==
    /\ th[h].pc = "serving"
    /\ Goto(h, "idle")
    /\ \/ UNCHANGED <<db, removed>>
       \/ \E id \in IDs :
            /\ ~cfg.ldap
            /\ Len(db.users[id]) = 1 /\ db.users[id][1].attrs /\ db.users[id][1].level = 1
            /\ db' = [db EXCEPT !.users[id][1].attrs = FALSE]
            /\ removed' = removed \cup {id}
    /\ UNCHANGED <<cfg, proc, ca, lock, ilock, files, keystore, faults>>
-----------------------------------------------------------------------------
(* Failures.                                                               *)

FileAt == [writeChain |-> "chain", writeCert |-> "cert", storeIpk |-> "ipk",
           storeIsk |-> "isk", storeRpriv |-> "rpriv", storeRpub |-> "rpub"]

\* The step that t is about to take fails: a file stays empty, a statement
\* has no effect.  Before the connection is open ca.db is set to nil; an
\* error of GetUser means that the identity is not registered.
StepFails(t) ==
    LET s == Host(t) pc == th[t].pc IN
    /\ faults > 0 /\ faults' = faults - 1
    /\ files' = IF pc \in DOMAIN FileAt THEN [files EXCEPT ![s][FileAt[pc]] = Empty] ELSE files
    /\ \/ /\ pc = "keys" /\ ~Exists(s, "cert") /\ cfg.intermediate
          /\ Exit(s)
       \/ pc \in {"writeChain", "writeCert"} /\ Exit(s)
       \/ /\ pc \in {"createTables", "open"}
          /\ ca' = [ca EXCEPT ![s].db = None]
          /\ ReturnDB(t, FALSE)
          /\ UNCHANGED <<proc, ilock>>
       \/ /\ pc \in {"schema", "schemaRest", "check"}
          /\ ReturnDB(t, FALSE)
          /\ UNCHANGED <<proc, ca, ilock>>
       \/ pc = "lookup" /\ NotFound(t)
       \/ /\ pc = "insert"
          /\ GiveUpUsers(t)
          /\ UNCHANGED <<proc, ca, lock, ilock>>
       \/ /\ pc = "affs"
          /\ th' = [th EXCEPT ![t].failed = TRUE, ![t].pc = "snapshot", ![t].todo = <<>>]
          /\ UNCHANGED <<proc, ca, lock, ilock>>
       \/ /\ pc \in {"snapshot", "addAttr", "setLevel", "levels"}
          /\ th' = [th EXCEPT ![t].failed = TRUE, ![t].pc = "finish"]
          /\ UNCHANGED <<proc, ca, lock, ilock>>
       \/ pc \in {"storeIpk", "storeIsk", "storeRpriv", "storeRpub", "raInfo", "raInsert"}
          /\ IssuerFailed(t)
    /\ UNCHANGED <<cfg, db, keystore, removed>>

\* A file that a thread is writing may be left empty.
Crash(s) ==
    /\ faults > 0 /\ faults' = faults - 1
    /\ proc[s] # "down"
    /\ Exit(s)
    /\ \/ UNCHANGED files
       \/ \E t \in Threads : /\ Host(t) = s /\ th[t].pc \in DOMAIN FileAt
                             /\ Put(s, FileAt[th[t].pc], Empty)
    /\ UNCHANGED <<cfg, db, keystore, removed>>
-----------------------------------------------------------------------------
Step(t) ==
    \/ InitDB(t) \/ LockDB(t) \/ CreateSQLiteTables(t) \/ CreatePostgresTables(t)
    \/ CreateMySQLTables(t) \/ OpenDB(t) \/ UpdateSQLiteSchema(t) \/ AlterTables(t)
    \/ UpdateSchemaRest(t) \/ SetAccessors(t) \/ CheckDBLevels(t) \/ LookupUser(t)
    \/ InsertUser(t) \/ LoadAffiliation(t) \/ GetUserLessThanLevel(t) \/ MigrateUser(t)
    \/ AddAttribute(t) \/ SetLevel(t) \/ UpdateDBLevel(t) \/ FinishDB(t)
    \/ InitIssuer(t) \/ LockIssuer(t) \/ IssuerKeyMaterial(t) \/ StoreIssuerKey(t)
    \/ RevocationKeyMaterial(t) \/ StoreRevocationKey(t) \/ GetRAInfo(t) \/ AddRAInfo(t)

MainStep(s) ==
    \/ CheckConfigLevels(s) \/ InitKeyMaterial(s) \/ WriteChain(s) \/ WriteCert(s)
    \/ InitEnrollmentSigner(s) \/ Step(s)

HandlerStep(h) == GetCA(h) \/ Serve(h) \/ Step(h)

Next ==
    \/ \E s \in Servers : Start(s) \/ MainStep(s) \/ Crash(s)
    \/ \E h \in Handlers : Request(h) \/ HandlerStep(h)
    \/ \E t \in Threads : StepFails(t)

Safety == Init /\ [][Next]_vars

\* A thread that can go on does.  Strong fairness is for the mutexes alone,
\* every other step stays enabled: sync.Mutex hands itself to a goroutine
\* that waits long enough.  Nobody has to start a server or send a request.
Fairness ==
    /\ \A s \in Servers : SF_vars(MainStep(s))
    /\ \A h \in Handlers : SF_vars(HandlerStep(h))

Spec == Safety /\ Fairness
-----------------------------------------------------------------------------
(* Properties.                                                             *)

\* initDB sets IsDBInitialized only after everything it has to do was done,
\* in whichever attempt, and a request is served only after that: then every
\* configured identity and affiliation is there, the row that GetUser returns
\* for an identity was migrated, and the levels in the properties table are
\* those of the server.
ServedDatabaseIsComplete ==
    \A h \in Handlers : th[h].pc = "serving" /\ ~cfg.ldap =>
        /\ \A i \in DOMAIN Bootstrap : db.users[Bootstrap[i]] # <<>>
        /\ \A i \in DOMAIN Affiliations : Affiliations[i] \in db.affs
        /\ \A id \in IDs : db.users[id] # <<>> => db.users[id][1].level = 1
        /\ db.tables = AllTables
        /\ \A n \in LevelRows : db.props[n] \in {ServerLevels[n], NoLevel}

\* A failed initDB leaves objects behind that hold its connection.  When a
\* request is served the registry, the certificate accessor, the signer and
\* the issuer all use the connection of ca.db.
OneDatabase ==
    \A h \in Handlers : th[h].pc = "serving" =>
        LET c == ca[Host(h)] IN
        /\ c.db # None
        /\ c.certs = c.db /\ c.signer = c.db
        /\ ~cfg.ldap => c.registry = c.db
        /\ c.issuerReady => c.issuerDB = c.db

\* The migration grants hf.Registrar.Attributes to the registrars of older
\* releases once: not again after the attribute was taken away, whatever
\* restarts and repeated migrations come later.  It is not about an identity
\* that addIdentity inserted twice because it ignores an error of GetUser, nor
\* about members of a cluster that migrate while another one serves requests.
RegrantsNothing ==
    ~Clustered => \A id \in removed : Len(db.users[id]) = 1 => ~db.users[id][1].attrs

\* Whatever was written before an error or a crash: a server that accepts
\* requests has the private key of its certificate, an intermediate CA the
\* chain of that certificate, and an issuer that is initialized holds two
\* pairs of keys that belong together and are the ones on disk.
KeyMaterialAgrees ==
    \A s \in Servers : proc[s] = "up" =>
        /\ files[s].cert \in keystore[s] \cup {files[s].key}
        /\ cfg.intermediate => files[s].chain = files[s].cert
        /\ ca[s].issuerReady =>
             /\ ca[s].issuerKey = [pub |-> files[s].ipk, priv |-> files[s].ipk]
             /\ ca[s].revKey = [pub |-> files[s].rpub, priv |-> files[s].rpub]

Busy(h) == th[h].pc # "idle" \/ proc[Host(h)] = "starting"

\* Every request ends and every startup comes to an end, also when initDB or
\* the issuer fail: each of their returns releases the mutex.
Settles == \A h \in Handlers : Busy(h) ~> ~Busy(h)
=============================================================================
