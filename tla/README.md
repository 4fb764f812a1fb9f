# Fabric CA: specifications and proofs

TLA+ specifications of Fabric CA (`src/lib` and the client commands), the TLC runs that check
them on small instances, and TLAPS proofs of the most important results for all instances.

Run a configuration with `tlc -config <run>.cfg <MC module>`, check the proofs with
`tlapm IdentityLifecycleProofs.tla` (likewise the other modules of section 13; `CAStartupProofs`
takes about a quarter of an hour, the others a few minutes).
`PROJECT.json` lists the runs, the mutants (a changed definition that each property must
catch), the source lines behind every definition, the findings, the hazards and the theorems.

## 1. The system

A Fabric CA server answers HTTP requests. Each request runs in a goroutine of its own
(`serverEndpoint.ServeHTTP`) with a request context (`serverRequestContextImpl`) that lives as
long as the request. Handlers share nothing but the database, a few fields of the CA and the
issuer, and the files of the key store. SQLite, MySQL and PostgreSQL are supported; almost
every handler is a sequence of *single* statements, each its own transaction, and what the
handler read with one of them it still uses with the next. This is where the hard behaviour
is: there are hardly any locks, the three databases differ in keys, in isolation and in what
"rows affected" means, and unit tests send one request after the other. A server that cannot
reach its database starts nevertheless and initializes it from the handlers. The client is a
command that keeps its identity in files, which nothing locks.

| Component | State | Operations | What makes it correct | Module |
|---|---|---|---|---|
| Identities and certificates (`serverenroll.go`, `serverrevoke.go`, `serverregister.go`, `serveridentities.go`, `dbaccessor.go`, `certdbaccessor.go`) | tables `users`, `certificates`; request contexts | enroll, reenroll, register, modify, remove, revoke by name, revoke by serial number | a completed revocation is final; a secret is used no more often than its limit; a certificate in use is in the table | `IdentityLifecycle`, `EnrollmentQuota` |
| Idemix issuer (`server/idemix`) | tables for nonces, credentials and the revocation authority; cached CRI; sweeper goroutine | nonce and credential requests, CRI requests, sweeping | a nonce serves one request; a handle identifies one credential; a CRI covers the credential it comes with | `IdemixIssuer` |
| Affiliations (`serveraffiliations.go`, `dbaccessor.go`) | tables `affiliations`, `users`; the SQLite connection | add, remove, rename, list; register and modify as far as they place an identity | removal and renaming act on a whole subtree or not at all; identities follow; a response lists the subtree | `AffiliationNames`, `AffiliationTree`, `Affiliations`, `AffiliationListing` |
| CA initialization and migration (`ca.go`, `dbutil`, `metadata`, `issuer.go`) | key files, schema, levels in `properties`, users, the CA object | startup, lazy initialization by handlers, schema and user migration, issuer initialization | a database that is served is complete; a crash in between is repaired by the next start; everything uses the same database | `CAStartup` |
| Server lifecycle (`server.go`) | listener, CA map, open databases, wait channel | Start, Stop, serving goroutine, generation of CAs and of the TLS certificate | a started server stays up, a failed one leaves nothing, Stop returns and the goroutine ends | `ServerLifecycle` |
| Authorization (`attr`, `serverrequestcontext.go`) | type, affiliation and attributes of identities | checks during registration, modification and removal | nobody grants what they do not have | `RegistrationPolicy` |
| CRL, certificate and identity lists, streaming (`servergencrl.go`, `servercertificates.go`, `serveridentities.go`, `certdbaccessor.go`, `serverendpoint.go`, `streamer`) | connections held, chunks on their way, the decoder of the client | queries with windows, streamed lists, CRLs | a list the client takes for complete is complete; a CRL is current; connections come back | `CertificateQueries` |
| Client library and commands (`client.go`, `identity.go`, `credential`, `cmd/fabric-ca-client`) | configuration, certificate, credential, keys, chain and CRL in files | enroll, reenroll, register, revoke, gencrl, getcainfo, gencsr, identity, lists | a stored certificate has its key; what the server did is lost only by a failure; no file is cut off | `ClientEnrollment` |
| LDAP registry, transaction certificates, server command line, TLS/BCCSP/utilities | – | – | not modelled, see section 15 | – |

Interactions: affiliations, authorization and the Idemix issuer use the `users` table of the
first component (registration reads affiliations, renaming and removal write users, an Idemix
enrollment counts as an enrollment); initialization fills the same tables before a request is
served; `ServerLifecycle` opens and closes the databases that `CAStartup` initializes; the lists
and CRLs read what revocations write; the client talks to all of the handlers. Each module has
the part of the shared state it needs and treats the rest as one step.

## 2. Plan

1. Identities and certificates, Idemix issuer, affiliations: modelled, checked and proved.
2. CA initialization, server lifecycle, client: modelled, checked and proved. Their type invariants
   `TypeOK` are in no configuration: the inductive invariants of the proofs begin with them.
3. Authorization, queries and streaming, the listing of affiliations: modelled, checked and proved.
4. What is left to TLC is liveness (section 13).

## 3. Identities and certificates

`IdentityLifecycle` has the two tables as partial functions (`users` from *places* for rows
rather than from names, because only MySQL makes the name a key), a request context for
each of `Handlers`, the `wallet` of certificates that reached a client, and two history
variables: `granted` (enrollments per row) and `overlap`. Each action is what one handler does
up to and including its next SQL statement; `Abort` is an early return, a failed statement or a lost
connection, which leaves what earlier statements did. Passwords, attributes and certificate
contents are abstracted; `Manages` and `Revokers` stand for the outcome of authorization;
`ReadsFail` lets `GetUser` fail in `registerUserID`, which takes any error for "not registered".
`CAMax` is -1 or positive: the server refuses other configurations or lets nobody in.

A name is *sealed* when its rows are in state -1 (or gone), its certificates are revoked and no
request in progress is *stale*, i.e. passed a check or copied the row earlier.

Run **lifecycle** (all operations, SQLite schema):
- `TypeOK` – includes that a certificate in a wallet is in the table.
- `RevocationIsFinal` – a sealed name stays sealed until it is registered again.
- `RevocationIsComplete` – the two statements of a revocation by name seal the name unless a
  stale request, or a registration of the name, was in progress between them (`overlap`).

Run **quota** (MySQL schema; enroll, reenroll, register, revoke certificates; failing reads):
- `EnrollmentBound` – no secret is used beyond the limit, although several logins may pass the
  check before any of them is counted: the guard of `LoginComplete`'s UPDATE does it.
- `QuotaSpec` – the handlers implement `EnrollmentQuota`, in which a row is an account that is
  opened with a limit and used one enrollment at a time.

Run **unrevoked_by_login** expects a violation of `RevocationIsPermanent`: an enrollment in
progress turns state -1 into 0. Section 14 has three more disagreements of this kind.

Bounds: two names, three rows, three or four certificates, two requests at a time. Every
property is about the interference of one request with a row or certificate another one holds
knowledge of; the proofs below lift the bounds for the passing properties.

## 4. Idemix issuer

`IdemixIssuer` models an initialized issuer: `ra` (the row of the revocation authority),
`nonces`, `creds`, `state` (the enrollment counters), the cached `cri`, the sweeper goroutine and
the request contexts. The transactions of `CheckNonce` and `getNextRevocationHandle` are atomic
for SQLite (one connection) and two steps otherwise, because MySQL and PostgreSQL run at their
default isolation and the SELECT takes no lock. Expiry is an action; the read of a nonce keeps
whether it was live (`NonceAccepted` may also accept one that expires in the instant between the
read and the comparison, which the code, comparing later, would refuse). The routes are disabled
in this version (`server.go` 461-465), the code is not.

Run **idemix_sqlite**: `TypeOK` (the next handle stays in the pool), `NonceUsedOnce`,
`HandlesRepeatOnlyAtPoolEnd`. Three nonces and a pool of two reach the end of the pool.
Run **idemix_mysql**: `HandleIdentifiesCredential` – handles *are* handed out twice here, but
the primary key of `credentials` keeps two credentials in circulation from sharing one;
`CRICoversCredential` – also for a cached CRI.

## 5. Affiliations

`AffiliationNames`: a name is the sequence of its parts. `AffiliationTree` is the promise: a set
of affiliations, the place of every identity and the owners of valid certificates, where a
removal prunes a subtree and a renaming moves one, each in a single step, and a certificate goes to an
identity that existed when its enrollment looked it up (`asking`), which may be gone since. `Affiliations` is the
code on SQLite: every statement needs the one connection (`conn`), what a handler read before
may be stale, a removal is one action (a transaction that only depends on the state it begins
in), a renaming is a transaction of one action per affiliation, in any order except that the
affiliation itself comes last, and `saved` is what a rollback or a restart goes back to. An enrollment looks its
identity up and signs in two steps. `Folded` has the pairs of labels that `LIKE` cannot tell apart, in code and promise:
what is "below" a name is up to the comparison of the database, and that everything below it is treated alike, and at once, is
what `TreeSpec` says. Removal of
affiliations and identities is enabled in the configuration. The column `prekey` is never used
for a decision and is left out.

Run **affiliations** (two requests, two labels of which `LIKE` takes one for the other, as a "_" does, depth two, all
operations, restarts):
- `TypeOK` – includes that the loop of a renaming visits only affiliations that exist.
- `AttributeAgrees` – the attribute `hf.Affiliation` never contradicts the column.
- `TreeSpec` – what is committed implements `AffiliationTree`.
- `OnlyStaleWritesOrphan` – an identity ends up at an affiliation that does not exist only
  through a registration or modification that was under way during a removal or renaming.
- `IdentitiesNeedForce` – without force, or for a caller who is no registrar, a removal or renaming
  changes no identity.

`AffiliationListing` is `getResponse`/`fillAffiliationInfo`: an explicit stack of calls, each
with the length of its slice, over the array they all share. Run **listing** takes every tree of up to
seven affiliations below one name, with and without gaps, in every order of rows:
`ListsEveryAffiliation` (nothing is lost although calls move elements under
their callers) and `ListingEnds`. Fairness: weak fairness of the next-state relation, as one
goroutine runs the code and waits for nobody.

## 6. CA initialization and migration

`CAStartup` has the database (tables, the column `level`, the rows of `properties`, users with the
part of a row the migration touches, affiliations, the row of the revocation authority), the files
and the key store of every server, the fields of the CA object that threads share, the two mutexes,
and for every thread its place and its local variables. A thread is the main thread of a server or
one of the requests. One action is one statement, one file written or one access to a shared
variable: `GetCA` and `initDB` read `ca.db` and `IsDBInitialized` one after the other and without
the mutex, and so does the model. Handles number the connections so that it shows who still uses
an older one. `StepFails` lets the step of a thread fail in the way the code handles it (return,
note the error and go on, take the identity for not registered); `Crash` ends a process and may
leave the file it was writing empty. `cfg` varies the driver, what the database holds at first
(nothing, a database of release 1.0, one of 1.1), the version in the configuration, an intermediate
CA, LDAP, an invalid enrollment limit, given key files with every reason to refuse them, and one
server or a cluster of two that share the database.

Run **ca_startup** (20 configurations, two requests, up to two faults; deadlock is checked):
- `ServedDatabaseIsComplete` – whichever attempt succeeded, and whatever failed before it, a request is
  served only when every configured identity and affiliation, every table, the migrated rows and the
  levels are there.
- `OneDatabase` – registry, certificate accessor, signer and issuer use the connection of `ca.db`,
  although failed attempts leave theirs behind.
- `RegrantsNothing` – the migration does not give `hf.Registrar.Attributes` back after it was taken.
- `KeyMaterialAgrees` – a server that accepts requests has the key of its certificate, the chain of that
  certificate and two pairs of Idemix keys that belong together, whatever a crash left in the files.
- `Settles` – every request and every startup ends. Fairness is strong for each thread, which only matters
  for the mutexes: `sync.Mutex` hands itself over to a goroutine that has waited for a millisecond.

The reads of `isInitialized` and of the flags without a mutex are data races in Go; the model takes
each read and write as one step in the order of the program, which is what the amd64 build does.
`ConfigsOK` says what a configuration may be: the database of SQLite is a file in the home of one
server, and key files that are there from the beginning belong together. A certificate that comes
with a key file is compared with the key in that file (`validateMatchingKeys`).

Two requests are what the mutexes can tell apart (one inside, one waiting or reading without
them); two faults let a repair be interrupted. A key is made only while one of `MaxKeys` is unused;
`MaxKeys` is more than the keys two restarts make, so this guard never stops a run.

## 7. Server lifecycle

`ServerLifecycle` is one `Server` object: the thread that calls `Start`, the one that calls `Stop`,
one goroutine for each listener, `s.listener`, `s.wait`, the sockets that accept connections, the
CAs and their open databases, and a request that may outlive its listener and open the database
again. An error of the database does not keep a CA from being added (ca.go:164-171): `missing` has the CAs without
theirs. The goroutine reads `s.listener` and `s.wait` when it gets there. Configurations vary blocking start,
CA files, generated CAs, broken CAs, equal names and equal certificates, TLS and profiling.
`disturbed` notes that a Stop timed out or failed or that `http.Serve` ended by itself.

Run **server** (11 configurations, two starts, two faults, Stop polls twice instead of ten times;
deadlock is checked):
- `StaysUp` – a server that was started keeps its listener and the databases it could open until Stop is called:
  the goroutine of an earlier Start does not reach them, unless `disturbed`.
- `FailedStartLeavesNothing` – whichever step of Start fails, no listener and no database stays open.
- `DrainedMeansDone` – a Stop that received the message leaves no goroutine, no socket and no database
  behind, and nobody sends on the closed channel.
- `CallsReturn` – Start and Stop return; the goroutine ends after Stop. Weak fairness of the three
  threads and of the request, none of which waits for anything but what is modelled.

Two starts are what it takes for a goroutine to meet the listener of another Start; the number of polls
only changes how long a goroutine must be delayed before Stop gives up.

## 8. Authorization

`RegistrationPolicy` has the rules of `attr/attribute.go` and of the request context as operators: a
name of an attribute is a path of `Parts`, a value the set of the elements of its list, a row a type, an
affiliation and the *list* of attributes, since the list may have a name twice and the code
sometimes takes the first and sometimes the last one. `getNewAttributes` is its loop, as a recursive
function over the attributes asked for. Two assumptions are about the configuration file
(`PolicyConstantsOK`, `ConfigurationAgrees`): its attributes are a map, so that each is there once, and
where it sets `hf.Type` or `hf.Affiliation` it does not contradict its own columns; `addIdentity` stores
them unchecked, so for a configuration that does, `FixedAttributesAgree` fails in the initial state. A request keeps the caller's row as it was
read after authentication; registration and modification read, check and write in separate steps;
a modification writes the row it read. `power` is a history variable: the configured identities
from which the authority in a row comes.

Run **policy** (two requests at a time, four identities, three writes, 35 requests, among them every kind
that has to be refused):
- `NoEscalation` – along any chain of registrations and modifications, of requests in progress at the same
  time and of names that are removed and registered again, the type, affiliation, roles and attributes of
  an identity stay within what its sources were configured with.
- `NoAuthorityFromNothing` – what nobody has any more, in a row or in a request, nobody gets again.
- `FixedAttributesAgree` – `hf.Type` and `hf.Affiliation`, which go into certificates, say what the row says.
- `ModifiesWhatIsAsked` – elements of the list are updated and removed in place, with the result asked for.

Three writes make a registrar, let it act and take its authority back, in any order, while another
request is in progress.

## 9. Queries, revocation lists and streaming

`CertificateQueries` has the certificates with the time of their revocation, the identities, the
connections of the pool, the requests, the tokens on their way to a client and its decoder. A list
keeps its connection while it is sent; `WriteRow` flushes full chunks; `ServeHTTP` appends errors to
whatever was written, also to an array that was left open. `StreamJSONArray` and the functions it
calls are a stack machine over tokens; how many tokens one read gets does not matter to it, so the loop
over them is a recursive function (of sets with one element, which TLC evaluates without repeating
itself). Time 0 is the zero time of Go, so that no certificate expires at 0 and no window begins before it
(`QueryConstantsOK`). The chunk size is what the environment says: 0, 1, 2 or
no number; with chunks of 1 a row can fail after others were sent. Revocations by name and by serial number are two statements each; a CRL is one query.

Run **queries** (one connection as on SQLite, two requests, one fault, room for two tokens before a write
blocks):
- `SuccessMeansComplete` – a client that reports success has every row, once and in order, wherever the
  handler, the endpoint or the connection failed. Exception in the property: the database ends the
  rows early, which nobody looks at.
- `CRLIsCurrent` – a CRL has every certificate whose revocation was complete when the request came and those
  the request itself revoked, and no good one. Whether it may list expired certificates is a question on which the
  documents disagree: users-guide.rst:1548 says "expired and unexpired", as the query does and as the property
  takes it; the comments at api/client.go:120 and :185 say "unexpired" (section 14).
- `RevocationTimeIsFinal` – the time of a revocation changes only when a request that revokes the certificate
  by its number had looked it up while it was good and another revocation overtook it: by number, by name or
  with the removal of the identity.
- `RequestsEnd` – nobody waits for ever for a connection or for a client, unless a list of identities was
  abandoned with its connection (`Leaked`). Strong fairness of the server's requests: they compete
  for the pool, which serves in order of arrival; weak fairness of the client, which reads until the end.

One connection makes every wait visible; two requests are enough for one to hold it and one to wait.

## 10. Client

`ClientEnrollment` has the files of one home directory, the keystore, up to two commands at a time
with what they have read, the requests on their way and the server reduced to what a client can
observe: identities with their secrets and counts, certificates, credentials. A file is written in two
steps, so another command may see it empty, and when two commands write a file at the same time the rest of the longer
contents may follow the shorter: such a file is garbled (`Mixed`), `cert.pem` too, since the parser of the certificate
refuses anything behind it (util/csp.go:192). The server issues a certificate or credential for a secret
in one step (`Issue`) and counts the login in another (`LoginComplete`), which refuses when the secret was used up or
the identity removed in between (`refused`); it may fail before, between and after them (`ServerFault`). A command may be killed or lose
its connection at every step (`Fault`), and what it had sent may still be handled. `known` and
`stored` are history: the secrets the operator was told, the certificates that were stored.

Run **client** (14 commands, two of them per behaviour in any order or overlapping, one login per identity, two
faults, a new home directory or one that was set up, an intermediate CA):
- `CertificateHasKey` – a certificate on disk that can be read has its private key, whichever commands were killed.
- `LossesAreFaults` – a certificate that was issued but not stored, or an identity whose secret nobody
  knows, is due to a command that is still at work, to a failure of a command or of the server, or to a login that was
  refused after the certificate was issued, and each loses at most one.
- `DirectoryIsComplete` – commands that overlap leave no file cut off, except for the configuration and the CRL
  (section 14), and next to the certificate file, which may be garbled, there is the chain.

That commands end is not claimed: the client has no timeout, and the server may never answer.

Two commands suffice for every pair of them to overlap at every pair of steps.

## 11. Runs

| Run | Module | Distinct states | Properties |
|---|---|---|---|
| lifecycle | `MCIdentityLifecycle` | 2,984,894 | `TypeOK`, `RevocationIsFinal`, `RevocationIsComplete` |
| quota | `MCIdentityLifecycle` | 361,286 | `EnrollmentBound`, `QuotaSpec` (refinement) |
| unrevoked_by_login | `MCIdentityLifecycle` | violation expected | `RevocationIsPermanent` |
| idemix_sqlite | `MCIdemixIssuer` | 124,656 | `TypeOK`, `NonceUsedOnce`, `HandlesRepeatOnlyAtPoolEnd` |
| idemix_mysql | `MCIdemixIssuer` | 1,530,926 | `HandleIdentifiesCredential`, `CRICoversCredential` |
| affiliations | `MCAffiliations` | 2,885,731 | `TypeOK`, `AttributeAgrees`, `TreeSpec` (refinement), `OnlyStaleWritesOrphan`, `IdentitiesNeedForce` |
| listing | `MCAffiliationListing` | 154,499 | `ListsEveryAffiliation`, `ListingEnds` (liveness) |
| ca_startup | `MCCAStartup` | 144,419 | section 6; `Settles` is liveness |
| server | `MCServerLifecycle` | 186,575 | section 7; `CallsReturn` is liveness |
| policy | `MCRegistrationPolicy` | 246,342 | section 8 |
| queries | `MCCertificateQueries` | 209,539 | section 9; `RequestsEnd` is liveness |
| client | `MCClientEnrollment` | 287,217 | section 10 |

## 12. Deadlock

`ca_startup` and `server` check for deadlock. The other configurations say `CHECK_DEADLOCK FALSE`:
certificates, rows, nonces, names, writes, requests and commands are bounded by the constants, and
when they are used up, or a response is built, nothing more happens.

## 13. Proofs

All theorems hold for every number of identities, rows, certificates, nonces, servers, commands,
faults and concurrent requests, from the named assumptions on the constants (the `ASSUME`s of the
modules, which TLC evaluates in every run). Some have a hypothesis of their own, stated with them below.
An invariant of a run is seldom inductive; what was added, and why, is the point of each entry.

`IdentityLifecycleProofs`
- `TypeCorrect`: `TypeInv` adds to `TypeOK` what each point of a request knows (the certificate
  at "complete" and "reply" is in the table, the target is set where it is used).
- `RevocationFinal`: `Sealed(u)` is kept by every action except a registration. Three lemmas, one
  per conjunct: rows stay revoked (only `UpdateUser` and `LoginComplete` write `state` to
  something else, and both need a stale context), certificates stay revoked (only `Sign` adds a good one,
  and needs a stale context), and no context becomes stale (`Login` refuses -1, authentication
  refuses revoked certificates, a modification that reads -1 writes -1).
- `RevocationCompletes`: `OverlapInv` says that between the two statements of a revocation
  outside `overlap` all rows of the name are revoked and nobody is stale; then the second
  statement seals. The history variable is what makes this inductive.

The same module, for the setting `QuotaSetting` (unique names and no modification, revocation by name or
removal; section 14 tells how these break the limit):
- `QuotaInv`: the state column equals the number of grants, and the limit a login read is still that of the
  only row of its name. It gives `QuotaBound` and, step by step, `QuotaRefinement`.

`IdemixIssuerProofs` (every driver unless `Atomic` is assumed)
- `IdemixTypeCorrect`, `CRICovers`: the epoch and the end of the pool never change, so that every
  CRI ever computed covers the whole pool.
- `HandleIdentifies`: `OwnersInv` – a request past `InsertCredential` is the only one that holds its
  handle, and the row is its own – for any interleaving of the transactions.
- `NonceServesOnce`, assuming `Atomic` (one connection, as with SQLite): `NonceInv` – a nonce that a request
  has read was removed in the same step, at most one request holds it as live, and nobody does after it was
  accepted. Without `Atomic` two transactions may both read it.
- `HandlesAreFresh`, assuming `Atomic`: `HandleInv` – every handle handed out is below the next one, or is
  the last of the pool.

`AffiliationsProofs`
- `AffiliationsTypeCorrect`, `AttributesAgree`: `Inv` – also the rows that a handler carries and those
  a rollback brings back agree with themselves; whoever renames holds the connection, and the names in its
  loop still exist.
- `OrphansAreStaleWrites`, `ForceIsNeeded` (action properties): while a renaming is in progress it has
  made no orphan that was none before (`OrphansInv`), and without force it has written no identity
  (`UnforcedInv`). Both are about the state that a rollback goes back to.
- `ImplementsTree`, for every set `Folded` of labels that `LIKE` takes for the same: `RenamingInv` relates, in the middle of the loop, tables and saved tables: what was done so far
  is moved, in tables and identities, the rest is where it was, and no two affiliations end up
  at one name. So a COMMIT is one step of `AffiliationTree`, and the loop none.

`ServerLifecycleProofs`
- `LifecycleTypeCorrect`, `StaysUpUntilStop`, `FailedStartReleases`, `DrainedLeavesNothing`:
  `LifecycleInv` says, as long as nothing has `disturbed` the server, that the goroutine of the last
  Start is the only one that serves, that the only socket is that of `s.listener`, how far Stop has come with
  it, and that a Start that finds databases open repeats one that opened exactly those. That last
  part is what a Start after a failed one relies on.

`ClientEnrollmentProofs` (`MarksOK`: no file content is taken for the mark of an empty or missing file)
- `ClientTypeCorrect`, `CertificateAlwaysHasKey`: `ClientInv` – a command has its number to itself, one
  message at most is on its way for it, and the certificates in messages, replies and plans
  have the key that the command put into the keystore before it asked.
- `LossesOnlyByFaults`: `AccountInv` – what the server did for a command is on its way to it, in what it is going
  to write, stored, or lost; the lost ones belong to commands that run or to dead ones, of which there are
  no more than faults and refused logins. The property compares cardinalities, the invariant gives the injection.
- `DirectoryStaysComplete`, assuming `"root" \in CAChain` (a chain has its root): a file that is empty
  while no command was killed is being written by one that runs, and the roots follow the certificate.

`RegistrationPolicyProofs`. An induction over a list is done by a least counterexample (`LeastNat` from the
well-foundedness of `<`, then `InductionTo` with a *set* of positions, which the provers can instantiate
where they cannot instantiate a predicate).
- Lists: what `getNewAttributes` makes of a list, position by position (`IsFold`, `IsUpdated`, `Traced`): each
  entry of the result is an old one in its order or a requested one, for each name the last request counts, and
  a name that was there once is there at most once.
- `NobodyEscalates`, `RowsAgree`: `PolicyInv` – every row of the table, *and every row that a request keeps*, be
  it that of its caller or one it is going to write, comes entry by entry from the configured identities in
  its `power` (`RowFrom`), and has its fixed attributes at most once, saying what the columns say (`FixedOnce`).
  "At most once" is needed because a modification updates the first entry and readers take the last one.
  `PolicyTypes` comes with it.
- `AuthorityFromNothing`, `ModifiesAsAsked` (action properties): the former for the rows in the table and those
  in requests together (`AllRows`), which is why a stale row counts as somebody having the authority; the
  latter from the facts about lists and from what a request remembers (`c.row = ModifiedRow(c.old, req)`).

`CertificateQueriesProofs`
- `ListsAreCurrent`, `RevocationTimes`: `CRLInv` – what a request noted as revoked when it came is revoked in the
  table, what it is going to report is what it has revoked, and nothing that is revoked becomes good again
  (`RevokeInvGrows`), also while users are removed and certificates issued.
- The decoder: `Reads(c, s)` is what the tokens `s` make of the client `c`. It exists and is unique (`ReadsAll`),
  reading `s \o t` is reading `s`, then `t` (`ReadsConcat`), and a client that stopped stays as it is (`ReadsStopped`).
  From this and one lemma per kind of frame follows what each part of a response does: the header leaves the
  decoder in the array (`ListOpens`), a row adds one element (`RowRead`), the end of a list and the trailer give
  success (`ListRead`), and errors in an array that was left open, or without an array, give an error
  (`BrokenRead`, `RefusalRead`).
- `SuccessIsComplete`: `ListsInv` says where the decoder *will be* when it has read all that is on its way and then
  what is not flushed yet: in the array with exactly the rows written so far, or failed. This does not change when
  the client reads, when a chunk is flushed or when the client gives up, so that no case distinction over the
  places where a response is cut into chunks and reads is needed.

`ListsAll`, also in `AffiliationsProofs`, is about `AffiliationListing`, for rows that are any sequence of names
(`Results \subseteq Seq(Seq(Labels))`). `ListingInv`: a slice is no longer
than that of the caller; every slice still has all rows that are not listed (`SlicesInv`: `append` moves elements
down and removes no other than the one that is being listed); and what is listed has its children listed unless
its call goes on (`ChildrenInv`). When the first call has returned, a missing row with the fewest parts would have a
parent that is listed.

`CAStartupProofs`. `TypeInv` has what each step finds in its own variables
(`StartupTypeCorrect`: no loop takes the head of an empty list). One lemma for each action says how its
thread moves and what else it changes; the rest uses these instead of the actions. Four layers build upon it:
- *Control*: where a thread is tells which mutex it holds, whether its CA is ready, and which objects hold the
  connection of `ca.db`. No step of another thread writes them meanwhile (`Respects`). It gives
  `StartupOneDatabase`.
- *Keys*: what each file holds between the writes of a pair, for the thread that writes it, under the mutex of
  the issuer or alone while the server starts. It gives `StartupKeyMaterialAgrees`; `ConfigsOK` is where it begins.
- *Content*: what initDB has done up to its place, in tables, identities, affiliations, migration and levels, is
  done, or is left in its own loop or list, or its attempt has failed. No step of any server undoes it (`Grows`);
  the one exception, the copy of the users table on SQLite, is made by the only thread inside initDB, because
  SQLite has one server and initDB a mutex (`Alone`). It gives `StartupServedDatabaseIsComplete`,
  also for clusters that migrate at the same time.
- *Grants*: an identity that lost the attribute has the current level, is not on the list of a migration, and the
  level of the table is not lowered again. It gives `StartupRegrantsNothing`.

Only model-checked: liveness (`ListingEnds`, `Settles`, `CallsReturn`, `RequestsEnd`), which is
out of the prover's reach. Every safety property of a passing run has a theorem.

## 14. Observations that are not runs

Met while modelling, reachable in the modules, described here so that nobody takes the passing
properties to exclude them.

Disagreements with the documentation that TLC shows when the named property is added to a
configuration:
- `EnrollmentBound` in `quota.cfg` with "modify" in `Ops`: a modification writes back the state it read, so that a
  secret can be used once more (users-guide.rst:486 promises to limit the uses).
- `RevocationCanBeRetried` in `lifecycle.cfg` with `Driver = "mysql"`: MySQL reports no affected row the second time, so a
  revocation that failed between its statements cannot be completed (users-guide.rst:1467).
- `OneRowPerIdentity` in `quota.cfg` with `Driver = "postgres"`: two registrations of one name look it up before either
  inserts it (serverregister.go:170-175), and both succeed, each with a secret of its own; of the three databases only
  MySQL has a key for the users table. clientconfig.rst:121 says: "Unique name of the identity".
- `IdemixEnrollmentBound` in `idemix_sqlite.cfg` with `CAMax = 1` and `UserMax <- EnrollTwice`: `Login` lowers the limit of
  the object it was called on to the CA's, `LoginComplete` runs on one that `GetCaller` fetched anew
  (server/idemix/enroll.go:152), so that two overlapping enrollments are both counted although the CA allows one
  (serverconfig.rst:125: "Maximum number of times a password/secret can be reused for enrollment"). A modification may
  set a limit above the CA's (serveridentities.go:463).
- `RemovesOnlyBelow` in `affiliations.cfg` with `Names <- RequestedBoth` and `Folded <- CaseOnly` (or as it is): `LIKE` ignores
  case on SQLite, and "_" in a pattern stands for any character, so that the removal of an affiliation takes those below
  another one away (users-guide.rst:1367: "affiliations are case sensitive").
- `CRLIsUnexpired` (a PROPERTY) in `queries.cfg`: a CRL without limits lists certificates that have expired, which the
  comments at api/client.go:120 ("contains all unexpired revoked certificates") and :185 exclude and
  users-guide.rst:1548 ("expired and unexpired") announces. `CRLIsCurrent` sides with the latter.
- `ConnectionIsReturned` in `affiliations.cfg`: a name taken by an affiliation that was not checked makes
  `MustExec` panic (dbaccessor.go:824); the transaction stays open and the server hangs. One request at a time is
  enough.
- `ListsOnce` in `listing.cfg`: an affiliation is listed twice when a call moved it within the array its caller
  still reads (serveraffiliations.go:474).

Identities, Idemix, affiliations:
- A request that authenticated before a revocation still gets a certificate after it, with
  status good (`RevocationIsComplete` excludes it through `overlap`); likewise after a removal, also of an affiliation.
- When two registrations of one name have both succeeded, `LoginComplete` affects two rows
  and every enrollment fails.
- A modification with maxenrollments -2 ("use the CA's setting", users-guide.rst:1794) stores 0,
  which `Login` refuses.
- Interleaved transactions of `CheckNonce` (MySQL) accept a nonce twice; PostgreSQL rejects its
  DELETE, whose `?` is not rebound, and the commit fails; `sweep` binds no value and removes
  nothing.
- At the end of the pool the UPDATE names the next epoch, which no row has: the last handle is handed out
  for ever and storing the credential fails.
- A renaming does not create the parents of the new name, and the response for a subtree with a
  gap is an error ("multiple root affiliations found") although the change was committed.

CA initialization:
- `addIdentity` ignores an error of `GetUser` (ca.go:818): on SQLite and PostgreSQL the bootstrap identity is
  inserted a second time; in a fresh cluster on PostgreSQL two servers may both insert it.
- `checkDBLevels` looks for "identity" where the property is named "identity.level" and never refuses
  a database of a newer release.
- An SQLite database with the three level rows of release 1.1 only is never initialized: every
  request fails, and ends.
- If the issuer cannot be initialized from a handler, `GetCA` returns neither a CA nor an error
  (serverrequestcontext.go:221) and the handler panics; the next request no longer tries.
- Members of a cluster that migrate write what they read before another one served requests;
  `RegrantsNothing` excludes it through `Clustered`.
- With version 0 in the configuration the configured identities are registered at level 0 and migrated.
- A certificate whose key is in the key store is not validated, only one that is given with a key file.
- A certificate or key file that a crash left empty makes every later start fail until it is removed.

Server lifecycle:
- A server with `cacount` cannot be started a second time: the generated files are then configured files.
- Nothing closes the profiling port: the second Start with profiling fails.
- After a Stop that timed out, or when `http.Serve` ended by itself, the goroutine left behind may close the
  listener and the databases of a later Start, or panic sending on a closed channel (`disturbed`). `StaysUp` excuses it.
- A blocking Start that a Stop overtook returns nil with the databases open.

Authorization:
- `hf.Registrar.Attributes=hf.Revoker` together with `hf.Revoker=""` passes the check that a reserved attribute
  is possessed. `DelegateRoles` within `Roles` is only checked when `DelegateRoles` is requested.
- A list with a name twice is stored as it is; a modification changes the first entry while the last one counts.
- A modification in progress undoes a demotion that came in between, and a request is judged by the row of its
  caller as read after authentication.

Queries and streaming:
- The list of identities of all types below an affiliation always fails (the query lacks its arguments).
- `getIDs` has no deferred `Close`: a list that is abandoned keeps its connection, the only one on SQLite.
- `rows.Err` is never looked at: rows that end early look like a complete list. A chunk size of 0 panics.
- CRL windows exclude both ends, the windows of lists include them.

Client:
- Two enrollments at the same time may leave the configuration empty or garbled; a garbled one stops all later
  commands. Two that store certificates of different lengths at the same time may leave a `cert.pem` that cannot be
  parsed. Certificates for TLS and for enrollment share the file `cert.pem`.
- The server stores a certificate before it completes the login (serverenroll.go:73-80): when the login is refused then,
  because another enrollment used the secret meanwhile, there is a good certificate that its client never received.
- The client has no timeout: a command waits for a server that does not answer until it is killed.
- A lost answer to `register` loses the secret; repeating the command only says that the identity exists. A lost
  answer to `enroll` costs one of the enrollments.
- `revoke --gencrl` overwrites the CRL file with an empty one when no certificate was newly revoked, because the
  server then sends no CRL; users-guide.rst:1528 says the CRL contains all revoked certificates. An older answer may
  overwrite a newer CRL.
- `gencsr` in a new home directory stores the default URL, which later commands use.
- The issuer's public key is never stored (the call is commented out), so an Idemix enrollment fails after the
  nonce unless the operator has put the key there.
- The certificate file is read twice, for the certificate and for its key, so that a request may be signed with
  the key of another certificate; the server refuses it.

## 15. Not modelled

LDAP (a second registry that only reads a directory outside the server; `CAStartup` has the branch that
uses it), transaction certificates (key derivation and encryption without shared state), the server's command
line (flags and configuration files), TLS, BCCSP and the utilities (configuration and cryptography). Within
modelled components: passwords, the contents of certificates and messages, the parsing of times,
the verification of certificate chains, the proofs of knowledge of Idemix, and the streamed list of all
affiliations. `PROJECT.json` lists per component what is left out.
