-------------------------- MODULE IdentityLifecycle --------------------------
(***************************************************************************)
(* The identities and certificates of one CA while its HTTP handlers run   *)
(* concurrently.  The state that outlives a request is in two tables:      *)
(* users (one row per registration) and certificates (one row per signed   *)
(* certificate).  Every handler is a sequence of single statements against *)
(* them; only the removal of an identity is a transaction.  A handler      *)
(* keeps what it read (its request context) between two statements, and    *)
(* any statement of any other handler may come in between.                 *)
(*                                                                         *)
(* Authorization (type, affiliation, attributes) is fixed here: Manages    *)
(* and Revokers stand for what the attributes of the identities grant.     *)
(***************************************************************************)
EXTENDS Integers, FiniteSets

CONSTANTS
    IDs,          \* enrollment IDs
    Rows,         \* places for rows in the users table (bounds its size)
    Serials,      \* serial numbers the signer can draw (bounds the certificates)
    Handlers,     \* requests the server processes at a time
    Ops,          \* the kinds of request that clients send
    Driver,       \* "sqlite3", "postgres" or "mysql"
    CAMax,        \* registry.maxenrollments of the CA
    MaxRequests,  \* max_enrollments values that requests carry
    Bootstrap,    \* row -> enrollment ID of the configured identities
    Manages,      \* pairs <<caller, id>>: CanManageUser and canRegister succeed
    Revokers,     \* enrollment IDs whose attribute hf.Revoker is true
    ReadsFail,    \* TRUE: a read may fail although the statement after it succeeds
    None          \* "no value" in a request context

TokenOps == {"reenroll", "register", "modify", "delete", "revoke", "revokecert"}

ASSUME ConstantsOK ==
    /\ Ops \subseteq TokenOps \cup {"enroll"}
    /\ Driver \in {"sqlite3", "postgres", "mysql"}
    /\ CAMax \in Int /\ (CAMax = -1 \/ CAMax > 0)
    /\ MaxRequests \subseteq Int
    /\ DOMAIN Bootstrap \subseteq Rows
    /\ Bootstrap \in [DOMAIN Bootstrap -> IDs]
    /\ \A v, w \in DOMAIN Bootstrap : Bootstrap[v] = Bootstrap[w] => v = w
    /\ Manages \subseteq IDs \X IDs
    /\ Revokers \subseteq IDs
    /\ ReadsFail \in BOOLEAN
    /\ None \notin IDs \cup Serials

VARIABLES
    users,     \* the users table: a partial function from Rows to UserRecord
    certs,     \* the certificates table: a partial function from Serials
    h,         \* the request context of every handler
    wallet,    \* certificates that reached the client that asked for them
    granted,   \* history: enrollments granted with the secret of a row
    overlap    \* history: see TrackOverlap

vars == <<users, certs, h, wallet, granted, overlap>>

-----------------------------------------------------------------------------
(* Records.                                                                *)

UserRecord == [id : IDs, state : {n \in Int : n >= -1}, max : Int]
CertRecord == [id : IDs, status : {"good", "revoked"}]

PCs == {"idle", "caller", "sign", "complete", "reply", "lookup", "revokeUser",
        "revokeCerts", "revokeCert", "update", "delete", "insert"}

RequestContext ==
    [pc     : PCs,
     op     : TokenOps \cup {"enroll", "none"},
     caller : IDs \cup {None},         \* ctx.enrollmentID
     target : IDs \cup {None},         \* the identity the request acts on
     cert   : Serials \cup {None},     \* the certificate the handler works with
     state  : {n \in Int : n >= -1},   \* the state column as a modification read it
     max    : Int]                     \* the max_enrollments it works with

Idle == [pc |-> "idle", op |-> "none", caller |-> None, target |-> None,
         cert |-> None, state |-> 0, max |-> 0]

Insert(f, k, v) == [x \in DOMAIN f \cup {k} |-> IF x = k THEN v ELSE f[x]]

RowsOf(u) == {w \in DOMAIN users : users[w].id = u}
CertsOf(u) == {s \in DOMAIN certs : certs[s].id = u}
Registered(u) == RowsOf(u) # {}

IsSingle(S) == \E x \in S : S = {x}

-----------------------------------------------------------------------------
(* Limits on the number of enrollments.                                    *)

\* Login replaces the identity's limit by the CA's when that is stricter.
EffectiveMax(m) ==
    IF CAMax # -1 /\ (m > CAMax \/ m = -1) THEN CAMax ELSE m

LoginIgnoringRevocation(row) ==
    /\ row.max # 0
    /\ EffectiveMax(row.max) = -1 \/ row.state < EffectiveMax(row.max)

\* The checks of Login, the password being right.
Login(row) ==
    /\ row.max # 0
    /\ row.state # -1
    /\ EffectiveMax(row.max) = -1 \/ row.state < EffectiveMax(row.max)

\* The limit a registration asks for is refused when it exceeds the CA's.
MaxAccepted(m) ==
    /\ m >= -1
    /\ CAMax # -1 => m # -1 /\ m <= CAMax

getMaxEnrollments(m) == IF m = 0 THEN CAMax ELSE m

\* What a modification request makes of the limit in the row it read.
ModifiedMax(current, m) ==
    IF m = -2 THEN 0 ELSE IF m = 0 THEN current ELSE m

-----------------------------------------------------------------------------
(* Requests that overlap a revocation.                                     *)

\* A request context that can still overturn a revocation of u: it passed a
\* check, or copied the row, before the revocation.
Stale(c, u) ==
    \/ c.op \in {"enroll", "reenroll"} /\ c.pc # "reply" /\ c.caller = u
    \/ c.pc = "update" /\ c.target = u /\ c.state # -1
StaleOrRegistering(c, u) ==
    Stale(c, u) \/ (c.pc = "insert" /\ c.target = u)

\* History: revocations by name that met such a request between their first
\* and their second statement.
TrackOverlap ==
    overlap' = {r \in Handlers :
                  /\ h'[r].pc = "revokeCerts"
                  /\ \/ r \in overlap
                     \/ \E q \in Handlers : StaleOrRegistering(h'[q], h'[r].target)}

-----------------------------------------------------------------------------
(* Authentication.  A request that fails it leaves no trace.               *)

\* Basic authentication: GetUser, then Login on the row it returned.
BasicAuthentication(r) ==
    /\ h[r].pc = "idle"
    /\ "enroll" \in Ops
    /\ \E w \in DOMAIN users :
        /\ Login(users[w])
        /\ h' = [h EXCEPT ![r] =
                   [Idle EXCEPT !.pc = "caller",
                                !.op = "enroll",
                                !.caller = users[w].id,
                                !.max = EffectiveMax(users[w].max)]]
    /\ UNCHANGED <<users, certs, wallet, granted>>
    /\ TrackOverlap

\* Token authentication with a certificate the client received: it must be
\* in the table and not revoked.  The state of its owner is not looked at.
TokenAuthentication(r) ==
    /\ h[r].pc = "idle"
    /\ \E s \in wallet, op \in Ops \cap TokenOps :
        /\ certs[s].status # "revoked"
        /\ h' = [h EXCEPT ![r] = [Idle EXCEPT !.pc = "caller", !.op = op,
                                              !.caller = certs[s].id, !.cert = s]]
    /\ UNCHANGED <<users, certs, wallet, granted>>
    /\ TrackOverlap

\* The reads of the caller's own row: GetCaller, then the attributes for the
\* certificate (GetAttrExtension) or the attribute hf.Revoker.  All that can
\* differ between these reads is whether the row is there.
GetCaller(r) ==
    /\ h[r].pc = "caller"
    /\ Registered(h[r].caller)
    /\ h[r].op \in {"revoke", "revokecert"} => h[r].caller \in Revokers
    /\ h' = [h EXCEPT ![r].pc =
               IF h[r].op \in {"enroll", "reenroll"} THEN "sign" ELSE "lookup"]
    /\ UNCHANGED <<users, certs, wallet, granted>>
    /\ TrackOverlap

-----------------------------------------------------------------------------
(* Enrollment.                                                             *)

SignUnrecorded(r) ==
    /\ h[r].pc = "sign"
    /\ \E s \in Serials \ DOMAIN certs :
        h' = [h EXCEPT ![r] =
                [@ EXCEPT !.pc = IF h[r].op = "enroll" THEN "complete" ELSE "reply",
                          !.cert = s]]
    /\ UNCHANGED <<users, certs, wallet, granted>>
    /\ TrackOverlap

\* The signer stores the certificate in the table before it returns it.
Sign(r) ==
    /\ h[r].pc = "sign"
    /\ \E s \in Serials \ DOMAIN certs :
        /\ certs' = Insert(certs, s, [id |-> h[r].caller, status |-> "good"])
        /\ h' = [h EXCEPT ![r] =
                   [@ EXCEPT !.pc = IF h[r].op = "enroll" THEN "complete" ELSE "reply",
                             !.cert = s]]
    /\ UNCHANGED <<users, wallet, granted>>
    /\ TrackOverlap

LoginCompleteUnguarded(r) ==
    LET hit == RowsOf(h[r].caller)
    IN  /\ h[r].pc = "complete"
        /\ users' = [w \in DOMAIN users |->
                       IF w \in hit THEN [users[w] EXCEPT !.state = @ + 1] ELSE users[w]]
        /\ h' = [h EXCEPT ![r] = IF IsSingle(hit) THEN [@ EXCEPT !.pc = "reply"] ELSE Idle]
        /\ granted' = [w \in Rows |->
                         IF hit = {w} THEN granted[w] + 1 ELSE granted[w]]
        /\ UNCHANGED <<certs, wallet>>
        /\ TrackOverlap

\* UPDATE users SET state = state + 1 WHERE id = caller [AND state < max].
\* The update stays even when the number of rows makes the request fail.
LoginComplete(r) ==
    LET hit == {w \in RowsOf(h[r].caller) :
                  h[r].max = -1 \/ users[w].state < h[r].max}
    IN  /\ h[r].pc = "complete"
        /\ users' = [w \in DOMAIN users |->
                       IF w \in hit THEN [users[w] EXCEPT !.state = @ + 1] ELSE users[w]]
        /\ h' = [h EXCEPT ![r] = IF IsSingle(hit) THEN [@ EXCEPT !.pc = "reply"] ELSE Idle]
        /\ granted' = [w \in Rows |->
                         IF hit = {w} THEN granted[w] + 1 ELSE granted[w]]
        /\ UNCHANGED <<certs, wallet>>
        /\ TrackOverlap

\* The response with the certificate reaches the client.
Respond(r) ==
    /\ h[r].pc = "reply"
    /\ wallet' = wallet \cup {h[r].cert}
    /\ h' = [h EXCEPT ![r] = Idle]
    /\ UNCHANGED <<users, certs, granted>>
    /\ TrackOverlap

-----------------------------------------------------------------------------
(* Revocation.                                                             *)

\* Revoke by name: read the identity, check that the caller may manage it.
RevokeLookup(r) ==
    /\ h[r].pc = "lookup" /\ h[r].op = "revoke"
    /\ \E u \in IDs :
        /\ Registered(u)
        /\ u = h[r].caller \/ <<h[r].caller, u>> \in Manages
        /\ h' = [h EXCEPT ![r] = [@ EXCEPT !.pc = "revokeUser", !.target = u]]
    /\ UNCHANGED <<users, certs, wallet, granted>>
    /\ TrackOverlap

\* The rows an UPDATE of the state column to n reports as affected: MySQL
\* reports the rows that changed, the other drivers the rows that matched.
Affected(hit, n) ==
    IF Driver = "mysql" THEN {w \in hit : users[w].state # n} ELSE hit

\* UPDATE users SET state = -1; anything but one affected row ends the request.
RevokeUser(r) ==
    LET hit == RowsOf(h[r].target)
    IN  /\ h[r].pc = "revokeUser"
        /\ users' = [w \in DOMAIN users |->
                       IF w \in hit THEN [users[w] EXCEPT !.state = -1] ELSE users[w]]
        /\ h' = [h EXCEPT ![r] = IF IsSingle(Affected(hit, -1))
                                 THEN [@ EXCEPT !.pc = "revokeCerts"] ELSE Idle]
        /\ UNCHANGED <<certs, wallet, granted>>
        /\ TrackOverlap

Revoked(c) == [c EXCEPT !.status = "revoked"]

CertsRevokedFor(u) ==
    [s \in DOMAIN certs |-> IF s \in CertsOf(u) THEN Revoked(certs[s]) ELSE certs[s]]

RevokeOneCertificate(r) ==
    /\ h[r].pc = "revokeCerts"
    /\ \/ CertsOf(h[r].target) = {} /\ certs' = certs
       \/ \E s \in CertsOf(h[r].target) : certs' = [certs EXCEPT ![s] = Revoked(@)]
    /\ h' = [h EXCEPT ![r] = Idle]
    /\ UNCHANGED <<users, wallet, granted>>
    /\ TrackOverlap

\* The second statement of a revocation by name: all certificates of the
\* identity.  (The SELECT before it only fills the response.)
RevokeCertificatesByID(r) ==
    /\ h[r].pc = "revokeCerts"
    /\ certs' = CertsRevokedFor(h[r].target)
    /\ h' = [h EXCEPT ![r] = Idle]
    /\ UNCHANGED <<users, wallet, granted>>
    /\ TrackOverlap

\* Revoke by serial number: the certificate is not revoked yet, its owner is
\* registered and managed by the caller, unless it is the caller's own.
RevokeCertLookup(r) ==
    /\ h[r].pc = "lookup" /\ h[r].op = "revokecert"
    /\ \E s \in DOMAIN certs :
        /\ certs[s].status # "revoked"
        /\ Registered(certs[s].id)
        /\ s = h[r].cert \/ <<h[r].caller, certs[s].id>> \in Manages
        /\ h' = [h EXCEPT ![r] = [@ EXCEPT !.pc = "revokeCert", !.cert = s]]
    /\ UNCHANGED <<users, certs, wallet, granted>>
    /\ TrackOverlap

RevokeCertificate(r) ==
    /\ h[r].pc = "revokeCert"
    /\ certs' = [certs EXCEPT ![h[r].cert] = Revoked(@)]
    /\ h' = [h EXCEPT ![r] = Idle]
    /\ UNCHANGED <<users, wallet, granted>>
    /\ TrackOverlap

-----------------------------------------------------------------------------
(* Registration, modification and removal of identities.                   *)

\* registerUserID: the limit is acceptable and GetUser returned an error,
\* which is taken to mean that no row has the name yet.
RegisterLookup(r) ==
    /\ h[r].pc = "lookup" /\ h[r].op = "register"
    /\ \E u \in IDs, m \in MaxRequests :
        /\ <<h[r].caller, u>> \in Manages
        /\ MaxAccepted(m)
        /\ ~Registered(u) \/ ReadsFail
        /\ h' = [h EXCEPT ![r] = [@ EXCEPT !.pc = "insert", !.target = u,
                                           !.max = getMaxEnrollments(m)]]
    /\ UNCHANGED <<users, certs, wallet, granted>>
    /\ TrackOverlap

\* Only the MySQL schema makes the id a primary key.
InsertUser(r) ==
    /\ h[r].pc = "insert"
    /\ Driver = "mysql" => ~Registered(h[r].target)
    /\ \E w \in Rows \ DOMAIN users :
        users' = Insert(users, w, [id |-> h[r].target, state |-> 0, max |-> h[r].max])
    /\ h' = [h EXCEPT ![r] = Idle]
    /\ UNCHANGED <<certs, wallet, granted>>
    /\ TrackOverlap

\* The PUT handler copies the whole row, state included, into its request.
ModifyLookup(r) ==
    /\ h[r].pc = "lookup" /\ h[r].op = "modify"
    /\ \E w \in DOMAIN users, m \in MaxRequests :
        /\ <<h[r].caller, users[w].id>> \in Manages
        /\ h' = [h EXCEPT ![r] = [@ EXCEPT !.pc = "update", !.target = users[w].id,
                                           !.state = users[w].state,
                                           !.max = ModifiedMax(users[w].max, m)]]
    /\ UNCHANGED <<users, certs, wallet, granted>>
    /\ TrackOverlap

\* UPDATE users SET every column WHERE id = target.
UpdateUser(r) ==
    /\ h[r].pc = "update"
    /\ users' = [w \in DOMAIN users |->
                   IF w \in RowsOf(h[r].target)
                   THEN [users[w] EXCEPT !.state = h[r].state, !.max = h[r].max]
                   ELSE users[w]]
    /\ h' = [h EXCEPT ![r] = Idle]
    /\ UNCHANGED <<certs, wallet, granted>>
    /\ TrackOverlap

\* A caller may remove itself only with "force", which it may always give.
DeleteLookup(r) ==
    /\ h[r].pc = "lookup" /\ h[r].op = "delete"
    /\ \E u \in IDs :
        /\ Registered(u)
        /\ <<h[r].caller, u>> \in Manages
        /\ h' = [h EXCEPT ![r] = [@ EXCEPT !.pc = "delete", !.target = u]]
    /\ UNCHANGED <<users, certs, wallet, granted>>
    /\ TrackOverlap

\* One transaction: the rows go and the certificates are revoked, or neither.
DeleteUser(r) ==
    /\ h[r].pc = "delete"
    /\ Registered(h[r].target)
    /\ users' = [w \in DOMAIN users \ RowsOf(h[r].target) |-> users[w]]
    /\ certs' = CertsRevokedFor(h[r].target)
    /\ granted' = [w \in Rows |-> IF w \in RowsOf(h[r].target) THEN 0 ELSE granted[w]]
    /\ h' = [h EXCEPT ![r] = Idle]
    /\ UNCHANGED wallet
    /\ TrackOverlap

-----------------------------------------------------------------------------
\* The handler returns an error: a check on what it read fails, a statement
\* fails (with none of its effect), or the connection or the server goes
\* down.  What earlier statements did stays.
Abort(r) ==
    /\ h[r].pc # "idle"
    /\ h' = [h EXCEPT ![r] = Idle]
    /\ UNCHANGED <<users, certs, wallet, granted>>
    /\ TrackOverlap

\* A fresh database: the configured identities, none of them enrolled.
Init ==
    /\ users = [w \in DOMAIN Bootstrap |->
                  [id |-> Bootstrap[w], state |-> 0, max |-> getMaxEnrollments(0)]]
    /\ certs = [s \in {} |-> None]
    /\ h = [r \in Handlers |-> Idle]
    /\ wallet = {}
    /\ granted = [w \in Rows |-> 0]
    /\ overlap = {}

Next == \E r \in Handlers :
    \/ BasicAuthentication(r)
    \/ TokenAuthentication(r)
    \/ GetCaller(r)
    \/ Sign(r)
    \/ LoginComplete(r)
    \/ Respond(r)
    \/ RevokeLookup(r)
    \/ RevokeUser(r)
    \/ RevokeCertificatesByID(r)
    \/ RevokeCertLookup(r)
    \/ RevokeCertificate(r)
    \/ RegisterLookup(r)
    \/ InsertUser(r)
    \/ ModifyLookup(r)
    \/ UpdateUser(r)
    \/ DeleteLookup(r)
    \/ DeleteUser(r)
    \/ Abort(r)

Spec == Init /\ [][Next]_vars

-----------------------------------------------------------------------------
(* Properties.                                                             *)

\* Type correctness.  It includes that a client never holds a certificate
\* that is missing from the certificates table: InsertCertificate precedes
\* the response, so every certificate in use can be found and revoked.
TypeOK ==
    /\ DOMAIN users \subseteq Rows
    /\ users \in [DOMAIN users -> UserRecord]
    /\ DOMAIN certs \subseteq Serials
    /\ certs \in [DOMAIN certs -> CertRecord]
    /\ h \in [Handlers -> RequestContext]
    /\ wallet \subseteq DOMAIN certs
    /\ granted \in [Rows -> Nat]
    /\ overlap \subseteq Handlers

\* u is out of business: its rows are revoked (or gone), so are all its
\* certificates, and no request in progress holds older knowledge of it.
Sealed(u) ==
    /\ \A w \in RowsOf(u) : users[w].state = -1
    /\ \A s \in CertsOf(u) : certs[s].status = "revoked"
    /\ \A q \in Handlers : ~Stale(h[q], u)

\* Nothing but a new registration brings a sealed identity back: whatever
\* enrollments, re-enrollments, modifications, removals and revocations run
\* concurrently, it stays revoked and gets no certificate (Login refuses
\* state -1, TokenAuthentication a revoked certificate, UpdateUser writes
\* back the -1 it read).
RevocationIsFinal ==
    [][\A u \in IDs :
         Sealed(u) => \/ Sealed(u)'
                      \/ \E w \in DOMAIN users' \ DOMAIN users : users'[w].id = u]_vars

\* The two statements of a revocation by name (Revoke, then
\* RevokeCertificatesByID) seal the identity although they are not one
\* transaction, unless a stale request or a registration of the same name
\* was in progress between them.
RevocationIsComplete ==
    [][\A r \in Handlers \ overlap, u \in IDs :
         RevokeCertificatesByID(r) /\ h[r].target = u => Sealed(u)']_vars

\* LoginComplete never lets an identity use its secret more often than its
\* limit, as lowered by the CA's, although Login checked an older state.
EnrollmentBound ==
    \A w \in DOMAIN users :
        LET m == EffectiveMax(users[w].max)
        IN  m = -1 \/ granted[w] <= m

\* clientconfig.rst, "Unique name of the identity": registerUserID refuses a
\* name that is taken.  The look-up and the insertion are statements of their
\* own, and the users table has a key with MySQL only.
OneRowPerIdentity ==
    \A v, w \in DOMAIN users : users[v].id = users[w].id => v = w

\* Logins, registrations and re-enrollments implement the abstract quota: a
\* row of the users table is an account, an enrollment answered with a
\* certificate is one use of it.
Quota == INSTANCE EnrollmentQuota WITH
    Accounts <- Rows,
    limit <- [w \in DOMAIN users |-> EffectiveMax(users[w].max)],
    used <- [w \in DOMAIN users |-> granted[w]]
QuotaSpec == Quota!Spec

\* A revoked identity stays revoked as long as its row exists (the state -1
\* that Revoke writes; there is no operation to reinstate an identity).
RevocationIsPermanent ==
    [][\A w \in DOMAIN users \cap DOMAIN users' :
         users[w].state = -1 => users'[w].state = -1]_vars

\* users-guide.rst: "Revoking an identity will revoke all the certificates
\* owned by the identity".  The revocation of an identity that still owns a
\* valid certificate gets from its first statement to the second one, also
\* when the identity itself is revoked already because an earlier request
\* failed between the two.
RevocationCanBeRetried ==
    [][\A r \in Handlers :
         /\ RevokeUser(r)
         /\ IsSingle(RowsOf(h[r].target))
         /\ \E s \in CertsOf(h[r].target) : certs[s].status = "good"
         => h'[r].pc = "revokeCerts"]_vars
=============================================================================
