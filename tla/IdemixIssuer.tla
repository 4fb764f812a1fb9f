---------------------------- MODULE IdemixIssuer ----------------------------
(***************************************************************************)
(* The Idemix issuer of a CA: the nonce manager, the revocation authority  *)
(* and the two-message enrollment for an Idemix credential, with requests  *)
(* running concurrently against one database.  The first message fetches a *)
(* nonce; the second one presents it and gets a credential with a fresh    *)
(* revocation handle and the credential revocation information (CRI).      *)
(*                                                                         *)
(* The transactions around the nonce and the handle are a SELECT and an    *)
(* UPDATE or DELETE.  With SQLite there is one connection, so they are     *)
(* atomic; MySQL and PostgreSQL run at their default isolation level, so   *)
(* that another transaction may commit between the two statements.         *)
(*                                                                         *)
(* No code path sets the status of a credential to "revoked" and no code   *)
(* path changes the epoch; both are nevertheless read where the code does. *)
(***************************************************************************)
EXTENDS Integers

CONSTANTS
    IDs,         \* enrollment IDs, all registered
    Nonces,      \* nonces the random source can draw (bounds the enrollments)
    Handlers,    \* requests the server processes at a time
    Driver,      \* "sqlite3", "postgres" or "mysql"
    RHPoolSize,  \* idemix.rhpoolsize
    CAMax,       \* registry.maxenrollments of the CA
    UserMax,     \* max_enrollments of each identity
    None

ASSUME IdemixConstantsOK ==
    /\ Driver \in {"sqlite3", "postgres", "mysql"}
    /\ RHPoolSize \in Nat \ {0}
    /\ CAMax \in Int /\ (CAMax = -1 \/ CAMax > 0)
    /\ UserMax \in [IDs -> Int]
    /\ None \notin IDs \cup Nonces \cup Int

VARIABLES
    ra,        \* the row of revocation_authority_info
    nonces,    \* what became of each nonce
    creds,     \* the credentials table: revocation handle -> owner
    state,     \* the state column of each identity
    cri,       \* ra.currentCRI, in the memory of the server
    sweeper,   \* the goroutine of startNonceSweeper
    h,         \* the request context of every handler
    accepted,  \* history: how often each nonce was accepted
    handed,    \* history: how often each handle was handed out
    issued     \* history: the credentials that reached their owners

db == <<ra, nonces, creds, state>>
history == <<accepted, handed, issued>>
vars == <<db, cri, sweeper, h, history>>

-----------------------------------------------------------------------------
(* Records.                                                                *)

RAInfo == [epoch : Nat, next : Nat, last : Nat]
CRI == [epoch : Nat, handles : SUBSET Nat]

PCs == {"idle", "body", "nonce", "removeNonce", "check", "handle", "updateHandle",
        "store", "readInfo", "cri", "complete", "reply"}

RequestContext ==
    [pc     : PCs,
     op     : {"credential", "cri", "none"},
     basic  : BOOLEAN,                \* Ctx.IsBasicAuth()
     caller : IDs \cup {None},        \* Ctx.GetCaller()
     nonce  : Nonces \cup {None},
     live   : BOOLEAN,                \* the nonce record read has not expired
     info   : RAInfo,                 \* RevocationAuthorityInfo as read
     handle : Nat,
     cri    : CRI]

NoInfo == [epoch |-> 0, next |-> 0, last |-> 0]
NoCRI == [epoch |-> 0, handles |-> {}]

Idle == [pc |-> "idle", op |-> "none", basic |-> FALSE, caller |-> None,
         nonce |-> None, live |-> FALSE, info |-> NoInfo, handle |-> 0, cri |-> NoCRI]

Atomic == Driver = "sqlite3"

\* Login lowers the limit to the CA's.
EffectiveMax(m) ==
    IF CAMax # -1 /\ (m > CAMax \/ m = -1) THEN CAMax ELSE m

Go(r, pc) == h' = [h EXCEPT ![r] = [@ EXCEPT !.pc = pc]]

-----------------------------------------------------------------------------
(* Requests.                                                               *)

\* /idemix/credential or /idemix/cri arrives.  Basic authentication (only
\* the former) runs Login; a token is of an X.509 certificate or, with the
\* caller left unset, of an Idemix credential that its ID owns.
Authenticate(r) ==
    /\ h[r].pc = "idle"
    /\ \E u \in IDs, basic \in BOOLEAN, op \in {"credential", "cri"}, c \in IDs \cup {None} :
        /\ basic => /\ op = "credential" /\ c = u
                    /\ UserMax[u] # 0
                    /\ LET m == EffectiveMax(UserMax[u]) IN m = -1 \/ state[u] < m
        /\ c = None => \E n \in DOMAIN creds : creds[n] = u
        /\ c # None => c = u
        /\ h' = [h EXCEPT ![r] =
                   [Idle EXCEPT !.pc = IF op = "cri" THEN "readInfo" ELSE "body",
                                !.op = op, !.basic = basic, !.caller = c]]
    /\ UNCHANGED <<db, cri, sweeper, history>>

\* An empty credential request: GetNonce stores a nonce and returns it.
GetNonce(r) ==
    /\ h[r].pc = "body"
    /\ \E n \in Nonces :
        /\ nonces[n] = "new"
        /\ nonces' = [nonces EXCEPT ![n] = "live"]
    /\ h' = [h EXCEPT ![r] = Idle]
    /\ UNCHANGED <<ra, creds, state, cri, sweeper, history>>

\* A credential request for a nonce that was handed out; GetCaller fails for
\* a caller that authenticated with an Idemix credential.
GetCaller(r) ==
    /\ h[r].pc = "body"
    /\ h[r].caller # None
    /\ \E n \in Nonces :
        /\ nonces[n] # "new"
        /\ h' = [h EXCEPT ![r] = [@ EXCEPT !.pc = "nonce", !.nonce = n]]
    /\ UNCHANGED <<db, cri, sweeper, history>>

-----------------------------------------------------------------------------
(* The nonce.                                                              *)

CheckNonceKeeping(r) ==
    LET n == h[r].nonce
    IN  /\ h[r].pc = "nonce" /\ Atomic
        /\ nonces[n] \in {"live", "expired"}
        /\ h' = [h EXCEPT ![r] = [@ EXCEPT !.pc = "check", !.live = (nonces[n] = "live")]]
        /\ UNCHANGED <<db, cri, sweeper, history>>

\* CheckNonce with SQLite: the nonce is read and removed.
CheckNonce(r) ==
    LET n == h[r].nonce
    IN  /\ h[r].pc = "nonce" /\ Atomic
        /\ nonces[n] \in {"live", "expired"}
        /\ nonces' = [nonces EXCEPT ![n] = "removed"]
        /\ h' = [h EXCEPT ![r] = [@ EXCEPT !.pc = "check", !.live = (nonces[n] = "live")]]
        /\ UNCHANGED <<ra, creds, state, cri, sweeper, history>>

\* CheckNonce elsewhere: SELECT ...
SelectNonce(r) ==
    LET n == h[r].nonce
    IN  /\ h[r].pc = "nonce" /\ ~Atomic
        /\ nonces[n] \in {"live", "expired"}
        /\ h' = [h EXCEPT ![r] = [@ EXCEPT !.pc = "removeNonce", !.live = (nonces[n] = "live")]]
        /\ UNCHANGED <<db, cri, sweeper, history>>

\* ... and DELETE.  How many rows it removed is only logged.  PostgreSQL
\* rejects the statement, whose "?" is not rebound; its error is only logged,
\* but then the COMMIT fails.
RemoveNonce(r) ==
    /\ h[r].pc = "removeNonce"
    /\ IF Driver = "postgres"
       THEN h' = [h EXCEPT ![r] = Idle] /\ UNCHANGED nonces
       ELSE Go(r, "check") /\ nonces' = [nonces EXCEPT ![h[r].nonce] = "removed"]
    /\ UNCHANGED <<ra, creds, state, cri, sweeper, history>>

\* After the transaction: the nonce must not have expired.  (The checks of
\* the credential request follow; a request that fails them is an Abort.)
NonceAccepted(r) ==
    /\ h[r].pc = "check"
    /\ h[r].live
    /\ accepted' = [accepted EXCEPT ![h[r].nonce] = @ + 1]
    /\ Go(r, "handle")
    /\ UNCHANGED <<db, cri, sweeper, handed, issued>>

\* Time passes.
NonceExpires(n) ==
    /\ nonces[n] = "live"
    /\ nonces' = [nonces EXCEPT ![n] = "expired"]
    /\ UNCHANGED <<ra, creds, state, cri, sweeper, h, history>>

\* The ticker of the sweeper fires.
SweeperTick ==
    /\ sweeper = "waiting"
    /\ sweeper' = "sweeping"
    /\ UNCHANGED <<db, cri, h, history>>

\* NamedExec finds no named parameter in RemoveExpiredNonces and so binds
\* nothing to its "?": NULL for SQLite, which no expiry is less than, and a
\* syntax error for the others, which sweep logs.
Sweep ==
    /\ sweeper = "sweeping"
    /\ sweeper' = "waiting"
    /\ UNCHANGED <<db, cri, h, history>>

-----------------------------------------------------------------------------
(* The revocation handle.                                                  *)

HandleUpdatedPastPool(i) == [ra EXCEPT !.next = i.next + 1]

\* The row after the UPDATE of getNextRevocationHandleTx that read i.  At the
\* end of the pool the statement looks for the row of the next epoch, and
\* "SET next_handle = ? AND lasthandle_in_pool = ?" assigns a truth value.
HandleUpdated(i) ==
    IF i.next = i.last
    THEN IF ra.epoch = i.epoch + 1
         THEN [ra EXCEPT !.next = IF ra.last = i.last + RHPoolSize THEN 1 ELSE 0]
         ELSE ra
    ELSE IF ra.epoch = i.epoch THEN [ra EXCEPT !.next = i.next + 1] ELSE ra

HandOut(n) == handed' = [m \in DOMAIN handed \cup {n} |->
                 (IF m \in DOMAIN handed THEN handed[m] ELSE 0) + (IF m = n THEN 1 ELSE 0)]

GetSameRevocationHandle(r) ==
    /\ h[r].pc = "handle" /\ Atomic
    /\ h' = [h EXCEPT ![r] = [@ EXCEPT !.pc = "store", !.handle = ra.next]]
    /\ HandOut(ra.next)
    /\ UNCHANGED <<ra, nonces, creds, state, cri, sweeper, accepted, issued>>

\* GetNewRevocationHandle with SQLite.
GetNewRevocationHandle(r) ==
    /\ h[r].pc = "handle" /\ Atomic
    /\ ra' = HandleUpdated(ra)
    /\ h' = [h EXCEPT ![r] = [@ EXCEPT !.pc = "store", !.handle = ra.next]]
    /\ HandOut(ra.next)
    /\ UNCHANGED <<nonces, creds, state, cri, sweeper, accepted, issued>>

\* GetNewRevocationHandle elsewhere: SELECT, without a lock on the row ...
SelectRAInfo(r) ==
    /\ h[r].pc = "handle" /\ ~Atomic
    /\ h' = [h EXCEPT ![r] = [@ EXCEPT !.pc = "updateHandle", !.info = ra]]
    /\ UNCHANGED <<db, cri, sweeper, history>>

\* ... and UPDATE with the values computed from what was read.
UpdateNextHandle(r) ==
    /\ h[r].pc = "updateHandle"
    /\ ra' = HandleUpdated(h[r].info)
    /\ h' = [h EXCEPT ![r] = [@ EXCEPT !.pc = "store", !.handle = h[r].info.next]]
    /\ HandOut(h[r].info.next)
    /\ UNCHANGED <<nonces, creds, state, cri, sweeper, accepted, issued>>

-----------------------------------------------------------------------------
(* The credential and the CRI.                                             *)

InsertCredentialReplacing(r) ==
    /\ h[r].pc = "store"
    /\ creds' = [n \in DOMAIN creds \cup {h[r].handle} |->
                   IF n = h[r].handle THEN h[r].caller ELSE creds[n]]
    /\ Go(r, "readInfo")
    /\ UNCHANGED <<ra, nonces, state, cri, sweeper, history>>

\* The handle is the primary key of the table.
InsertCredential(r) ==
    /\ h[r].pc = "store"
    /\ h[r].handle \notin DOMAIN creds
    /\ creds' = [n \in DOMAIN creds \cup {h[r].handle} |->
                   IF n = h[r].handle THEN h[r].caller ELSE creds[n]]
    /\ Go(r, "readInfo")
    /\ UNCHANGED <<ra, nonces, state, cri, sweeper, history>>

\* CreateCRI reads the revocation authority info ...
ReadRAInfo(r) ==
    /\ h[r].pc = "readInfo"
    /\ h' = [h EXCEPT ![r] = [@ EXCEPT !.pc = "cri", !.info = ra]]
    /\ UNCHANGED <<db, cri, sweeper, history>>

UnRevokedHandlesBeforeLast(i) == 1 .. i.last - 1

\* getUnRevokedHandles: the whole pool, no credential being revoked.
getUnRevokedHandles(i) == 1 .. i.last

\* ... and returns the CRI it has for the epoch, or a new one.  There is no
\* lock on currentCRI.
CreateCRI(r) ==
    LET i == h[r].info
        c == IF cri # NoCRI /\ cri.epoch = i.epoch THEN cri
             ELSE [epoch |-> i.epoch, handles |-> getUnRevokedHandles(i)]
    IN  /\ h[r].pc = "cri"
        /\ cri' = c
        /\ h' = [h EXCEPT ![r] =
                   [@ EXCEPT !.pc = IF h[r].op = "credential" /\ h[r].basic
                                    THEN "complete" ELSE "reply",
                             !.cri = c]]
        /\ UNCHANGED <<db, sweeper, history>>

\* LoginComplete on the caller, whose limit is the one in its row: it is
\* another object than the one in which Login lowered the limit.
LoginComplete(r) ==
    LET u == h[r].caller
    IN  /\ h[r].pc = "complete"
        /\ UserMax[u] = -1 \/ state[u] < UserMax[u]
        /\ state' = [state EXCEPT ![u] = @ + 1]
        /\ Go(r, "reply")
        /\ UNCHANGED <<ra, nonces, creds, cri, sweeper, history>>

\* The response with the credential, or the CRI alone.
Respond(r) ==
    /\ h[r].pc = "reply"
    /\ issued' = IF h[r].op = "credential"
                 THEN issued \cup {[owner |-> h[r].caller, handle |-> h[r].handle,
                                    nonce |-> h[r].nonce, cri |-> h[r].cri]}
                 ELSE issued
    /\ h' = [h EXCEPT ![r] = Idle]
    /\ UNCHANGED <<db, cri, sweeper, accepted, handed>>

\* A check or a statement fails: the handler returns an error.
Abort(r) ==
    /\ h[r].pc # "idle"
    /\ h' = [h EXCEPT ![r] = Idle]
    /\ UNCHANGED <<db, cri, sweeper, history>>

\* The server stops and starts again: NewRevocationAuthority finds its row.
Restart ==
    /\ cri' = NoCRI
    /\ h' = [r \in Handlers |-> Idle]
    /\ sweeper' = "waiting"
    /\ UNCHANGED <<db, history>>

-----------------------------------------------------------------------------
\* NewRevocationAuthority on an empty table.
Init ==
    /\ ra = [epoch |-> 1, next |-> 1, last |-> RHPoolSize]
    /\ nonces = [n \in Nonces |-> "new"]
    /\ creds = [n \in {} |-> None]
    /\ state = [u \in IDs |-> 0]
    /\ cri = NoCRI
    /\ sweeper = "waiting"
    /\ h = [r \in Handlers |-> Idle]
    /\ accepted = [n \in Nonces |-> 0]
    /\ handed = [n \in {} |-> 0]
    /\ issued = {}

Next ==
    \/ \E r \in Handlers :
        \/ Authenticate(r) \/ GetNonce(r) \/ GetCaller(r)
        \/ CheckNonce(r) \/ SelectNonce(r) \/ RemoveNonce(r) \/ NonceAccepted(r)
        \/ GetNewRevocationHandle(r) \/ SelectRAInfo(r) \/ UpdateNextHandle(r)
        \/ InsertCredential(r) \/ ReadRAInfo(r) \/ CreateCRI(r)
        \/ LoginComplete(r) \/ Respond(r) \/ Abort(r)
    \/ \E n \in Nonces : NonceExpires(n)
    \/ SweeperTick
    \/ Sweep
    \/ Restart

Spec == Init /\ [][Next]_vars

-----------------------------------------------------------------------------
(* Properties.                                                             *)

\* Type correctness.  The next handle stays within the pool, also when two
\* transactions of getNextRevocationHandleTx interleave.
TypeOK ==
    /\ ra \in RAInfo /\ ra.next \in 1 .. ra.last
    /\ nonces \in [Nonces -> {"new", "live", "expired", "removed"}]
    /\ DOMAIN creds \subseteq 1 .. ra.last
    /\ creds \in [DOMAIN creds -> IDs]
    /\ state \in [IDs -> Nat]
    /\ cri \in CRI
    /\ sweeper \in {"waiting", "sweeping"}
    /\ h \in [Handlers -> RequestContext]
    /\ accepted \in [Nonces -> Nat]
    /\ handed \in [DOMAIN handed -> Nat]

\* CheckNonce: "checks if the specified nonce is valid (is in DB and has not
\* expired) and the nonce is removed from DB", so that however many requests
\* present a nonce at the same time, it serves one credential request.
NonceUsedOnce == \A n \in Nonces : accepted[n] <= 1

\* A credential that reached its owner is in the credentials table under its
\* handle, and no other credential in circulation has that handle, whatever
\* handles the revocation authority gave to concurrent requests: so revoking
\* a handle can only ever hit the credential it was meant for.
HandleIdentifiesCredential ==
    \A c \in issued :
        /\ c.handle \in DOMAIN creds /\ creds[c.handle] = c.owner
        /\ \A d \in issued : d.handle = c.handle => d = c

\* CreateCRI: the CRI that comes with a credential covers its handle, even
\* when it was created for an earlier credential and cached since.
CRICoversCredential == \A c \in issued : c.handle \in c.cri.handles

\* Idemix enrollments with a secret count against the limit of the identity, as
\* Login lowers it to the CA's (serverconfig.rst, maxenrollments: "Maximum number
\* of times a password/secret can be reused for enrollment").
IdemixEnrollmentBound ==
    \A u \in IDs :
        LET m == EffectiveMax(UserMax[u]) IN m = -1 \/ state[u] <= m

\* GetNewRevocationHandle "returns new revocation handle": with one database
\* connection every handle is handed out once, until the pool is exhausted,
\* from when on everybody gets its last handle.
HandlesRepeatOnlyAtPoolEnd == \A n \in DOMAIN handed : handed[n] > 1 => n = ra.last
=============================================================================
