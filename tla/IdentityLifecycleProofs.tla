----------------------- MODULE IdentityLifecycleProofs -----------------------
(***************************************************************************)
(* Proofs of the properties of IdentityLifecycle for any numbers of        *)
(* identities, rows, certificates and concurrent requests.                 *)
(***************************************************************************)
EXTENDS IdentityLifecycle, TLAPS

(* What a request context holds at each point of its handler.              *)
ContextOK ==
    \A r \in Handlers :
        /\ h[r].pc = "idle" => h[r] = Idle
        /\ h[r].pc # "idle" => h[r].caller \in IDs
        /\ h[r].pc = "sign" => h[r].op \in {"enroll", "reenroll"}
        /\ h[r].pc = "complete" => h[r].op = "enroll"
        /\ h[r].pc \in {"revokeUser", "revokeCerts", "update", "delete", "insert"}
              => h[r].target \in IDs
        /\ h[r].pc \in {"complete", "reply", "revokeCert"} => h[r].cert \in DOMAIN certs

TypeInv == TypeOK /\ ContextOK

-----------------------------------------------------------------------------
(* The limits handlers compute are integers.                               *)
LEMMA MaxTypes ==
    ASSUME NEW m \in Int, NEW n \in Int
    PROVE  /\ EffectiveMax(m) \in Int
           /\ getMaxEnrollments(m) \in Int
           /\ ModifiedMax(n, m) \in Int
BY ConstantsOK DEF ConstantsOK, EffectiveMax, getMaxEnrollments, ModifiedMax

(* A handler with nothing to do.                                           *)
LEMMA IdleType == Idle \in RequestContext
BY DEF Idle, RequestContext, PCs

(* Type correctness is inductive together with ContextOK.                  *)
LEMMA TypeInvInit == Init => TypeInv
<1> SUFFICES ASSUME Init PROVE TypeInv
  OBVIOUS
<1>1. getMaxEnrollments(0) \in Int
  BY MaxTypes
<1>2. /\ DOMAIN users \subseteq Rows
      /\ users \in [DOMAIN users -> UserRecord]
  BY <1>1, ConstantsOK DEF Init, ConstantsOK, UserRecord
<1>3. QED
  BY <1>2, IdleType DEF Init, TypeInv, TypeOK, ContextOK, CertRecord, Idle

LEMMA TypeInvStep == TypeInv /\ [Next]_vars => TypeInv'
<1> SUFFICES ASSUME TypeInv, [Next]_vars PROVE TypeInv'
  OBVIOUS
<1> USE DEF TypeInv
<1>1. CASE UNCHANGED vars
  BY <1>1 DEF vars, TypeOK, ContextOK
<1>a. ASSUME NEW r \in Handlers, BasicAuthentication(r) PROVE TypeInv'
  <2> PICK w \in DOMAIN users :
        h' = [h EXCEPT ![r] = [Idle EXCEPT !.pc = "caller", !.op = "enroll",
                                           !.caller = users[w].id,
                                           !.max = EffectiveMax(users[w].max)]]
    BY <1>a DEF BasicAuthentication
  <2>1. EffectiveMax(users[w].max) \in Int /\ users[w].id \in IDs
    BY MaxTypes DEF TypeOK, UserRecord
  <2>2. h' \in [Handlers -> RequestContext]
    <3>1. [Idle EXCEPT !.pc = "caller", !.op = "enroll", !.caller = users[w].id,
                       !.max = EffectiveMax(users[w].max)] \in RequestContext
      BY <2>1, IdleType DEF RequestContext, PCs
    <3>2. QED
      BY <3>1 DEF TypeOK
  <2>3. ContextOK'
    BY <1>a, <2>1 DEF BasicAuthentication, ContextOK, Idle, TypeOK, RequestContext
  <2>4. QED
    BY <1>a, <2>2, <2>3 DEF BasicAuthentication, TypeOK, TrackOverlap
<1>b. ASSUME NEW r \in Handlers, TokenAuthentication(r) PROVE TypeInv'
  <2> PICK s \in wallet, op \in Ops \cap TokenOps :
        h' = [h EXCEPT ![r] = [Idle EXCEPT !.pc = "caller", !.op = op,
                                           !.caller = certs[s].id, !.cert = s]]
    BY <1>b DEF TokenAuthentication
  <2>1. certs[s].id \in IDs /\ s \in Serials
    BY DEF TypeOK, CertRecord
  <2>2. h' \in [Handlers -> RequestContext]
    <3>1. [Idle EXCEPT !.pc = "caller", !.op = op, !.caller = certs[s].id,
                       !.cert = s] \in RequestContext
      BY <2>1, IdleType DEF RequestContext, PCs
    <3>2. QED
      BY <3>1 DEF TypeOK
  <2>3. ContextOK'
    BY <1>b, <2>1 DEF TokenAuthentication, ContextOK, Idle, TypeOK, RequestContext
  <2>4. QED
    BY <1>b, <2>2, <2>3 DEF TokenAuthentication, TypeOK, TrackOverlap
<1>c. ASSUME NEW r \in Handlers, GetCaller(r) PROVE TypeInv'
  <2>1. h' \in [Handlers -> RequestContext]
    BY <1>c DEF GetCaller, TypeOK, RequestContext, PCs
  <2>2. ContextOK'
    BY <1>c DEF GetCaller, ContextOK, TypeOK, RequestContext
  <2>3. QED
    BY <1>c, <2>1, <2>2 DEF GetCaller, TypeOK, TrackOverlap
<1>d. ASSUME NEW r \in Handlers, Sign(r) PROVE TypeInv'
  <2> DEFINE row == [id |-> h[r].caller, status |-> "good"]
  <2> PICK s \in Serials \ DOMAIN certs :
        /\ certs' = Insert(certs, s, row)
        /\ h' = [h EXCEPT ![r] =
                   [h[r] EXCEPT !.pc = IF h[r].op = "enroll" THEN "complete" ELSE "reply",
                                !.cert = s]]
    BY <1>d DEF Sign
  <2>1. row \in CertRecord
    BY <1>d DEF Sign, ContextOK, CertRecord
  <2> HIDE DEF row
  <2>2. /\ DOMAIN certs' = DOMAIN certs \cup {s}
        /\ certs' \in [DOMAIN certs' -> CertRecord]
    BY <2>1 DEF TypeOK, Insert
  <2>3. h' \in [Handlers -> RequestContext]
    <3>1. [h[r] EXCEPT !.pc = IF h[r].op = "enroll" THEN "complete" ELSE "reply",
                       !.cert = s] \in RequestContext
      BY DEF TypeOK, RequestContext, PCs
    <3>2. QED
      BY <3>1 DEF TypeOK
  <2>4. ContextOK'
    BY <1>d, <2>2 DEF Sign, ContextOK, TypeOK, RequestContext
  <2>5. QED
    BY <1>d, <2>2, <2>3, <2>4 DEF Sign, TypeOK, TrackOverlap
<1>e. ASSUME NEW r \in Handlers, LoginComplete(r) PROVE TypeInv'
  <2>1. DOMAIN users' = DOMAIN users /\ users' \in [DOMAIN users' -> UserRecord]
    BY <1>e DEF LoginComplete, TypeOK, UserRecord
  <2>2. h' \in [Handlers -> RequestContext]
    BY <1>e DEF LoginComplete, TypeOK, RequestContext, PCs, Idle
  <2>3. ContextOK'
    BY <1>e DEF LoginComplete, ContextOK, TypeOK, RequestContext, Idle
  <2>4. granted' \in [Rows -> Nat]
    BY <1>e DEF LoginComplete, TypeOK
  <2>5. QED
    BY <1>e, <2>1, <2>2, <2>3, <2>4 DEF LoginComplete, TypeOK, TrackOverlap
<1>f. ASSUME NEW r \in Handlers, Respond(r) PROVE TypeInv'
  BY <1>f DEF Respond, TypeOK, ContextOK, TrackOverlap, RequestContext, PCs, Idle
<1>g. ASSUME NEW r \in Handlers, RevokeLookup(r) PROVE TypeInv'
  <2> PICK u \in IDs : h' = [h EXCEPT ![r] = [h[r] EXCEPT !.pc = "revokeUser", !.target = u]]
    BY <1>g DEF RevokeLookup
  <2>1. [h[r] EXCEPT !.pc = "revokeUser", !.target = u] \in RequestContext
    BY DEF TypeOK, RequestContext, PCs
  <2>2. h' \in [Handlers -> RequestContext]
    BY <2>1 DEF TypeOK
  <2>3. ContextOK'
    BY <1>g DEF RevokeLookup, ContextOK, TypeOK, RequestContext
  <2>4. QED
    BY <1>g, <2>2, <2>3 DEF RevokeLookup, TypeOK, TrackOverlap
<1>h. ASSUME NEW r \in Handlers, RevokeUser(r) PROVE TypeInv'
  <2>1. DOMAIN users' = DOMAIN users /\ users' \in [DOMAIN users' -> UserRecord]
    BY <1>h DEF RevokeUser, TypeOK, UserRecord
  <2>2. h' \in [Handlers -> RequestContext]
    BY <1>h DEF RevokeUser, TypeOK, RequestContext, PCs, Idle
  <2>3. ContextOK'
    BY <1>h DEF RevokeUser, ContextOK, TypeOK, RequestContext, Idle
  <2>4. QED
    BY <1>h, <2>1, <2>2, <2>3 DEF RevokeUser, TypeOK, TrackOverlap
<1>i. ASSUME NEW r \in Handlers, RevokeCertificatesByID(r) PROVE TypeInv'
  <2>1. DOMAIN certs' = DOMAIN certs /\ certs' \in [DOMAIN certs' -> CertRecord]
    BY <1>i DEF RevokeCertificatesByID, CertsRevokedFor, Revoked, TypeOK, CertRecord
  <2>2. QED
    BY <1>i, <2>1
    DEF RevokeCertificatesByID, TypeOK, ContextOK, TrackOverlap, RequestContext, PCs, Idle
<1>j. ASSUME NEW r \in Handlers, RevokeCertLookup(r) PROVE TypeInv'
  <2> PICK s \in DOMAIN certs : h' = [h EXCEPT ![r] = [h[r] EXCEPT !.pc = "revokeCert", !.cert = s]]
    BY <1>j DEF RevokeCertLookup
  <2>1. [h[r] EXCEPT !.pc = "revokeCert", !.cert = s] \in RequestContext
    BY DEF TypeOK, RequestContext, PCs
  <2>2. h' \in [Handlers -> RequestContext]
    BY <2>1 DEF TypeOK
  <2>3. ContextOK'
    BY <1>j DEF RevokeCertLookup, ContextOK, TypeOK, RequestContext
  <2>4. QED
    BY <1>j, <2>2, <2>3 DEF RevokeCertLookup, TypeOK, TrackOverlap
<1>k. ASSUME NEW r \in Handlers, RevokeCertificate(r) PROVE TypeInv'
  <2>1. DOMAIN certs' = DOMAIN certs /\ certs' \in [DOMAIN certs' -> CertRecord]
    BY <1>k DEF RevokeCertificate, Revoked, TypeOK, CertRecord
  <2>2. QED
    BY <1>k, <2>1
    DEF RevokeCertificate, TypeOK, ContextOK, TrackOverlap, RequestContext, PCs, Idle
<1>l. ASSUME NEW r \in Handlers, RegisterLookup(r) PROVE TypeInv'
  <2> PICK u \in IDs, m \in MaxRequests :
        h' = [h EXCEPT ![r] = [h[r] EXCEPT !.pc = "insert", !.target = u,
                                           !.max = getMaxEnrollments(m)]]
    BY <1>l DEF RegisterLookup
  <2>1. getMaxEnrollments(m) \in Int
    BY MaxTypes, ConstantsOK DEF ConstantsOK
  <2>2. h' \in [Handlers -> RequestContext]
    <3>1. [h[r] EXCEPT !.pc = "insert", !.target = u,
                       !.max = getMaxEnrollments(m)] \in RequestContext
      BY <2>1 DEF TypeOK, RequestContext, PCs
    <3>2. QED
      BY <3>1 DEF TypeOK
  <2>3. ContextOK'
    BY <1>l DEF RegisterLookup, ContextOK, TypeOK, RequestContext
  <2>4. QED
    BY <1>l, <2>2, <2>3 DEF RegisterLookup, TypeOK, TrackOverlap
<1>m. ASSUME NEW r \in Handlers, InsertUser(r) PROVE TypeInv'
  <2> DEFINE row == [id |-> h[r].target, state |-> 0, max |-> h[r].max]
  <2> PICK w \in Rows \ DOMAIN users : users' = Insert(users, w, row)
    BY <1>m DEF InsertUser
  <2>1. row \in UserRecord
    BY <1>m DEF InsertUser, TypeOK, ContextOK, UserRecord, RequestContext
  <2> HIDE DEF row
  <2>2. /\ DOMAIN users' = DOMAIN users \cup {w}
        /\ users' \in [DOMAIN users' -> UserRecord]
    BY <2>1 DEF TypeOK, Insert
  <2>3. QED
    BY <1>m, <2>2
    DEF InsertUser, TypeOK, ContextOK, TrackOverlap, RequestContext, PCs, Idle
<1>n. ASSUME NEW r \in Handlers, ModifyLookup(r) PROVE TypeInv'
  <2> PICK w \in DOMAIN users, m \in MaxRequests :
        h' = [h EXCEPT ![r] = [h[r] EXCEPT !.pc = "update", !.target = users[w].id,
                                           !.state = users[w].state,
                                           !.max = ModifiedMax(users[w].max, m)]]
    BY <1>n DEF ModifyLookup
  <2>1. /\ users[w].id \in IDs
        /\ users[w].state \in {n \in Int : n >= -1}
        /\ users[w].max \in Int
    BY DEF TypeOK, UserRecord
  <2>2. ModifiedMax(users[w].max, m) \in Int
    BY <2>1, MaxTypes, ConstantsOK DEF ConstantsOK
  <2>3. h' \in [Handlers -> RequestContext]
    <3>1. [h[r] EXCEPT !.pc = "update", !.target = users[w].id,
                       !.state = users[w].state,
                       !.max = ModifiedMax(users[w].max, m)] \in RequestContext
      BY <2>1, <2>2 DEF TypeOK, RequestContext, PCs
    <3>2. QED
      BY <3>1 DEF TypeOK
  <2>4. ContextOK'
    BY <1>n, <2>1 DEF ModifyLookup, ContextOK, TypeOK, RequestContext
  <2>5. QED
    BY <1>n, <2>3, <2>4 DEF ModifyLookup, TypeOK, TrackOverlap
<1>o. ASSUME NEW r \in Handlers, UpdateUser(r) PROVE TypeInv'
  <2>1. h[r].state \in {n \in Int : n >= -1} /\ h[r].max \in Int
    BY DEF TypeOK, RequestContext
  <2>2. DOMAIN users' = DOMAIN users /\ users' \in [DOMAIN users' -> UserRecord]
    BY <1>o, <2>1 DEF UpdateUser, TypeOK, UserRecord
  <2>3. h' \in [Handlers -> RequestContext]
    BY <1>o, IdleType DEF UpdateUser, TypeOK
  <2>4. ContextOK'
    BY <1>o DEF UpdateUser, TypeOK, ContextOK, Idle
  <2>5. QED
    BY <1>o, <2>2, <2>3, <2>4 DEF UpdateUser, TypeOK, TrackOverlap
<1>p. ASSUME NEW r \in Handlers, DeleteLookup(r) PROVE TypeInv'
  <2> PICK u \in IDs : h' = [h EXCEPT ![r] = [h[r] EXCEPT !.pc = "delete", !.target = u]]
    BY <1>p DEF DeleteLookup
  <2>1. [h[r] EXCEPT !.pc = "delete", !.target = u] \in RequestContext
    BY DEF TypeOK, RequestContext, PCs
  <2>2. h' \in [Handlers -> RequestContext]
    BY <2>1 DEF TypeOK
  <2>3. ContextOK'
    BY <1>p DEF DeleteLookup, ContextOK, TypeOK, RequestContext
  <2>4. QED
    BY <1>p, <2>2, <2>3 DEF DeleteLookup, TypeOK, TrackOverlap
<1>q. ASSUME NEW r \in Handlers, DeleteUser(r) PROVE TypeInv'
  <2>1. DOMAIN certs' = DOMAIN certs /\ certs' \in [DOMAIN certs' -> CertRecord]
    BY <1>q DEF DeleteUser, CertsRevokedFor, Revoked, TypeOK, CertRecord
  <2>2. DOMAIN users' \subseteq DOMAIN users /\ users' \in [DOMAIN users' -> UserRecord]
    BY <1>q DEF DeleteUser, TypeOK
  <2>3. granted' \in [Rows -> Nat]
    BY <1>q DEF DeleteUser, TypeOK
  <2>4. QED
    BY <1>q, <2>1, <2>2, <2>3
    DEF DeleteUser, TypeOK, ContextOK, TrackOverlap, RequestContext, PCs, Idle
<1>r. ASSUME NEW r \in Handlers, Abort(r) PROVE TypeInv'
  BY <1>r DEF Abort, TypeOK, ContextOK, TrackOverlap, RequestContext, PCs, Idle
<1>z. QED
  BY <1>1, <1>a, <1>b, <1>c, <1>d, <1>e, <1>f, <1>g, <1>h, <1>i, <1>j, <1>k, <1>l,
     <1>m, <1>n, <1>o, <1>p, <1>q, <1>r DEF Next

(* Every state of the specification is type correct.                       *)
THEOREM TypeCorrect == Spec => []TypeOK
<1>1. Init => TypeInv
  BY TypeInvInit
<1>2. TypeInv /\ [Next]_vars => TypeInv'
  BY TypeInvStep
<1>3. TypeInv => TypeOK
  BY DEF TypeInv
<1>4. QED
  BY <1>1, <1>2, <1>3, PTL DEF Spec

-----------------------------------------------------------------------------
(* Revocation.  The three parts of Sealed(u), each with what keeps it.     *)

RowsRevoked(u) == \A w \in RowsOf(u) : users[w].state = -1
CertsRevoked(u) == \A s \in CertsOf(u) : certs[s].status = "revoked"
NoneStale(u) == \A q \in Handlers : ~Stale(h[q], u)

(* u gets a row from a registration that was in progress.                  *)
RegisteredAnew(u) ==
    /\ \E w \in DOMAIN users' \ DOMAIN users : users'[w].id = u
    /\ \E q \in Handlers : h[q].pc = "insert" /\ h[q].target = u

(* A finished handler is not stale, and a step changes one context only.   *)
LEMMA NoneStaleFrame ==
    ASSUME TypeInv, NEW u, NoneStale(u), NEW r \in Handlers, NEW c,
           h' = [h EXCEPT ![r] = c], ~Stale(c, u)
    PROVE  NoneStale(u)'
BY DEF NoneStale, TypeInv, TypeOK

LEMMA IdleNotStale == ASSUME NEW u PROVE ~Stale(Idle, u)
BY DEF Stale, Idle

(* The rows of u stay revoked while nobody is stale on it, unless it is    *)
(* registered anew.                                                        *)
LEMMA RowsStayRevoked ==
    ASSUME TypeInv, Next, NEW u \in IDs, RowsRevoked(u), NoneStale(u)
    PROVE  RowsRevoked(u)' \/ RegisteredAnew(u)
<1> PICK r \in Handlers : Next!(r)
  BY DEF Next
<1> USE DEF RowsRevoked, RowsOf
<1>1. CASE users' = users
  BY <1>1
<1>2. CASE LoginComplete(r)
  <2>1. h[r].caller # u
    BY <1>2 DEF LoginComplete, NoneStale, Stale, TypeInv, ContextOK
  <2>2. QED
    BY <1>2, <2>1 DEF LoginComplete
<1>3. CASE RevokeUser(r)
  BY <1>3 DEF RevokeUser, TypeInv, TypeOK, UserRecord
<1>4. CASE InsertUser(r)
  BY <1>4 DEF InsertUser, Insert, RegisteredAnew
<1>5. CASE UpdateUser(r)
  <2>1. h[r].target = u => h[r].state = -1
    BY <1>5 DEF UpdateUser, NoneStale, Stale
  <2>2. QED
    BY <1>5, <2>1 DEF UpdateUser, TypeInv, TypeOK, UserRecord
<1>6. CASE DeleteUser(r)
  BY <1>6 DEF DeleteUser
<1>7. QED
  BY <1>1, <1>2, <1>3, <1>4, <1>5, <1>6
  DEF BasicAuthentication, TokenAuthentication, GetCaller, Sign, Respond, RevokeLookup,
      RevokeCertificatesByID, RevokeCertLookup, RevokeCertificate, RegisterLookup,
      ModifyLookup, DeleteLookup, Abort

(* Only a stale enrollment adds a certificate of u.                        *)
LEMMA CertsStayRevoked ==
    ASSUME TypeInv, Next, NEW u \in IDs, CertsRevoked(u), NoneStale(u)
    PROVE  CertsRevoked(u)'
<1> PICK r \in Handlers : Next!(r)
  BY DEF Next
<1> USE DEF CertsRevoked, CertsOf
<1>1. CASE certs' = certs
  BY <1>1
<1>2. CASE Sign(r)
  <2>1. h[r].caller # u
    BY <1>2 DEF Sign, NoneStale, Stale, TypeInv, ContextOK
  <2> DEFINE row == [id |-> h[r].caller, status |-> "good"]
  <2> PICK s \in Serials \ DOMAIN certs : certs' = Insert(certs, s, row)
    BY <1>2 DEF Sign
  <2>2. row.id # u
    BY <2>1
  <2> HIDE DEF row
  <2>3. QED
    BY <2>2 DEF Insert
<1>3. CASE RevokeCertificatesByID(r)
  BY <1>3 DEF RevokeCertificatesByID, CertsRevokedFor, Revoked, TypeInv, TypeOK, CertRecord
<1>4. CASE RevokeCertificate(r)
  <2>1. h[r].cert \in DOMAIN certs
    BY <1>4 DEF RevokeCertificate, TypeInv, ContextOK
  <2>2. QED
    BY <1>4, <2>1 DEF RevokeCertificate, Revoked, TypeInv, TypeOK, CertRecord
<1>5. CASE DeleteUser(r)
  BY <1>5 DEF DeleteUser, CertsRevokedFor, Revoked, TypeInv, TypeOK, CertRecord
<1>6. QED
  BY <1>1, <1>2, <1>3, <1>4, <1>5
  DEF BasicAuthentication, TokenAuthentication, GetCaller, LoginComplete, Respond,
      RevokeLookup, RevokeUser, RevokeCertLookup, RegisterLookup, InsertUser, ModifyLookup,
      UpdateUser, DeleteLookup, Abort

(* Nobody becomes stale on an identity whose rows and certificates are     *)
(* revoked: a new request fails its check, or copies the state -1.         *)
LEMMA NoneBecomesStale ==
    ASSUME TypeInv, Next, NEW u \in IDs, RowsRevoked(u), CertsRevoked(u), NoneStale(u)
    PROVE  NoneStale(u)'
<1> PICK r \in Handlers : Next!(r)
  BY DEF Next
<1>1. CASE h' = [h EXCEPT ![r] = Idle]
  BY <1>1, NoneStaleFrame, IdleNotStale
<1>2. CASE BasicAuthentication(r)
  <2> PICK w \in DOMAIN users :
        /\ Login(users[w])
        /\ h' = [h EXCEPT ![r] = [Idle EXCEPT !.pc = "caller", !.op = "enroll",
                                           !.caller = users[w].id,
                                           !.max = EffectiveMax(users[w].max)]]
    BY <1>2 DEF BasicAuthentication
  <2>1. users[w].id # u
    BY DEF RowsRevoked, RowsOf, Login
  <2>2. ~Stale([Idle EXCEPT !.pc = "caller", !.op = "enroll", !.caller = users[w].id,
                            !.max = EffectiveMax(users[w].max)], u)
    BY <2>1 DEF Stale, Idle
  <2>3. QED
    BY <2>2, NoneStaleFrame
<1>3. CASE TokenAuthentication(r)
  <2> PICK s \in wallet, op \in Ops \cap TokenOps :
        /\ certs[s].status # "revoked"
        /\ h' = [h EXCEPT ![r] = [Idle EXCEPT !.pc = "caller", !.op = op,
                                           !.caller = certs[s].id, !.cert = s]]
    BY <1>3 DEF TokenAuthentication
  <2>1. certs[s].id # u
    BY DEF CertsRevoked, CertsOf, TypeInv, TypeOK
  <2>2. ~Stale([Idle EXCEPT !.pc = "caller", !.op = op, !.caller = certs[s].id,
                            !.cert = s], u)
    BY <2>1 DEF Stale, Idle
  <2>3. QED
    BY <2>2, NoneStaleFrame
<1>4. CASE GetCaller(r)
  <2>1. h[r] \in RequestContext /\ ~Stale(h[r], u) /\ h[r].pc = "caller"
    BY <1>4 DEF GetCaller, NoneStale, TypeInv, TypeOK
  <2>2. QED
    BY <1>4, <2>1 DEF GetCaller, NoneStale, Stale, RequestContext, TypeInv, TypeOK
<1>5. CASE Sign(r)
  <2>1. h[r].caller # u /\ h[r] \in RequestContext
    BY <1>5 DEF Sign, NoneStale, Stale, TypeInv, ContextOK, TypeOK
  <2> PICK s \in Serials \ DOMAIN certs :
        h' = [h EXCEPT ![r] =
                [h[r] EXCEPT !.pc = IF h[r].op = "enroll" THEN "complete" ELSE "reply",
                             !.cert = s]]
    BY <1>5 DEF Sign
  <2>2. ~Stale([h[r] EXCEPT !.pc = IF h[r].op = "enroll" THEN "complete" ELSE "reply",
                            !.cert = s], u)
    BY <2>1 DEF Stale, RequestContext
  <2>3. QED
    BY <2>2, NoneStaleFrame
<1>6. CASE LoginComplete(r)
  BY <1>6 DEF LoginComplete, NoneStale, Stale, Idle, RequestContext, TypeInv, TypeOK
<1>7. CASE RevokeLookup(r) \/ DeleteLookup(r)
  BY <1>7 DEF RevokeLookup, DeleteLookup, NoneStale, Stale, RequestContext, TypeInv, TypeOK
<1>8. CASE RevokeUser(r)
  BY <1>8 DEF RevokeUser, NoneStale, Stale, Idle, RequestContext, TypeInv, TypeOK
<1>9. CASE RevokeCertLookup(r)
  BY <1>9 DEF RevokeCertLookup, NoneStale, Stale, RequestContext, TypeInv, TypeOK
<1>10. CASE RegisterLookup(r)
  BY <1>10 DEF RegisterLookup, NoneStale, Stale, RequestContext, TypeInv, TypeOK
<1>11. CASE ModifyLookup(r)
  <2> PICK w \in DOMAIN users, m \in MaxRequests :
        h' = [h EXCEPT ![r] = [h[r] EXCEPT !.pc = "update", !.target = users[w].id,
                                           !.state = users[w].state,
                                           !.max = ModifiedMax(users[w].max, m)]]
    BY <1>11 DEF ModifyLookup
  <2>1. users[w].id = u => users[w].state = -1
    BY DEF RowsRevoked, RowsOf
  <2>2. h[r].op = "modify" /\ h[r] \in RequestContext
    BY <1>11 DEF ModifyLookup, TypeInv, TypeOK
  <2>3. ~Stale([h[r] EXCEPT !.pc = "update", !.target = users[w].id,
                            !.state = users[w].state,
                            !.max = ModifiedMax(users[w].max, m)], u)
    BY <2>1, <2>2 DEF Stale, RequestContext
  <2>4. QED
    BY <2>3, NoneStaleFrame
<1>12. QED
  BY <1>1, <1>2, <1>3, <1>4, <1>5, <1>6, <1>7, <1>8, <1>9, <1>10, <1>11
  DEF Respond, RevokeCertificatesByID, RevokeCertificate, InsertUser, UpdateUser,
      DeleteUser, Abort

(* The action of RevocationIsFinal.                                        *)
LEMMA SealedStep ==
    ASSUME TypeInv, [Next]_vars, NEW u \in IDs, Sealed(u)
    PROVE  \/ Sealed(u)'
           \/ \E w \in DOMAIN users' \ DOMAIN users : users'[w].id = u
<1>0. RowsRevoked(u) /\ CertsRevoked(u) /\ NoneStale(u)
  BY DEF Sealed, RowsRevoked, CertsRevoked, NoneStale
<1>1. CASE UNCHANGED vars
  BY <1>1 DEF vars, Sealed, RowsOf, CertsOf, Stale
<1>2. CASE Next
  <2>1. RowsRevoked(u)' \/ RegisteredAnew(u)
    BY <1>0, <1>2, RowsStayRevoked
  <2>2. CertsRevoked(u)'
    BY <1>0, <1>2, CertsStayRevoked
  <2>3. NoneStale(u)'
    BY <1>0, <1>2, NoneBecomesStale
  <2>4. QED
    BY <2>1, <2>2, <2>3 DEF Sealed, RowsRevoked, CertsRevoked, NoneStale, RegisteredAnew
<1>3. QED
  BY <1>1, <1>2

(* A sealed identity (rows and certificates revoked, no stale request)     *)
(* stays sealed until it is registered again: of any number of concurrent  *)
(* enroll, reenroll, modify, revoke and remove requests none revives it.   *)
THEOREM RevocationFinal == Spec => RevocationIsFinal
<1>1. Init => TypeInv
  BY TypeInvInit
<1>2. TypeInv /\ [Next]_vars => TypeInv'
  BY TypeInvStep
<1>3. TypeInv /\ [Next]_vars
        => [\A u \in IDs :
              Sealed(u) => \/ Sealed(u)'
                           \/ \E w \in DOMAIN users' \ DOMAIN users : users'[w].id = u]_vars
  BY SealedStep
<1>4. QED
  BY <1>1, <1>2, <1>3, PTL DEF Spec, RevocationIsFinal

-----------------------------------------------------------------------------
(* Revocation by name.  Between its two statements the rows of the target  *)
(* stay revoked, unless the history variable has recorded an overlap.      *)
OverlapInv ==
    \A r \in Handlers \ overlap :
        h[r].pc = "revokeCerts" =>
            /\ RowsRevoked(h[r].target)
            /\ \A q \in Handlers : ~StaleOrRegistering(h[q], h[r].target)

(* Only RevokeUser brings a handler to the second statement.               *)
LEMMA BeforeRevokeCerts ==
    ASSUME TypeInv, Next, NEW r \in Handlers, h'[r].pc = "revokeCerts"
    PROVE  h'[r] = h[r] \/ RevokeUser(r)
<1> PICK q \in Handlers : Next!(q)
  BY DEF Next
<1>1. CASE q # r
  BY <1>1
  DEF BasicAuthentication, TokenAuthentication, GetCaller, Sign, LoginComplete, Respond,
      RevokeLookup, RevokeUser, RevokeCertificatesByID, RevokeCertLookup,
      RevokeCertificate, RegisterLookup, InsertUser, ModifyLookup, UpdateUser,
      DeleteLookup, DeleteUser, Abort, TypeInv, TypeOK
<1>2. CASE q = r
  <2> USE <1>2 DEF TypeInv, TypeOK, RequestContext, Idle
  <2>1. CASE BasicAuthentication(r)
    BY <2>1 DEF BasicAuthentication
  <2>2. CASE TokenAuthentication(r)
    BY <2>2 DEF TokenAuthentication
  <2>3. CASE GetCaller(r) \/ LoginComplete(r)
    BY <2>3 DEF GetCaller, LoginComplete
  <2>8. CASE Sign(r)
    BY <2>8 DEF Sign
  <2>4. CASE RevokeLookup(r) \/ RevokeCertLookup(r) \/ RegisterLookup(r) \/ DeleteLookup(r)
    BY <2>4 DEF RevokeLookup, RevokeCertLookup, RegisterLookup, DeleteLookup
  <2>5. CASE ModifyLookup(r)
    BY <2>5 DEF ModifyLookup
  <2>6. CASE h' = [h EXCEPT ![r] = Idle]
    BY <2>6
  <2>7. QED
    BY <2>1, <2>2, <2>3, <2>4, <2>5, <2>6, <2>8
    DEF Respond, RevokeCertificatesByID, RevokeCertificate, InsertUser, UpdateUser,
        DeleteUser, Abort
<1>3. QED
  BY <1>1, <1>2

LEMMA OverlapTracked == Next => TrackOverlap
BY DEF Next, BasicAuthentication, TokenAuthentication, GetCaller, Sign, LoginComplete,
       Respond, RevokeLookup, RevokeUser, RevokeCertificatesByID, RevokeCertLookup,
       RevokeCertificate, RegisterLookup, InsertUser, ModifyLookup, UpdateUser,
       DeleteLookup, DeleteUser, Abort

LEMMA OverlapInvStep == TypeInv /\ OverlapInv /\ [Next]_vars => OverlapInv'
<1> SUFFICES ASSUME TypeInv, OverlapInv, [Next]_vars PROVE OverlapInv'
  OBVIOUS
<1>1. CASE UNCHANGED vars
  BY <1>1 DEF vars, OverlapInv, RowsRevoked, RowsOf, StaleOrRegistering, Stale
<1>2. CASE Next
  <2> SUFFICES ASSUME NEW r \in Handlers, r \notin overlap', h'[r].pc = "revokeCerts"
               PROVE  /\ RowsRevoked(h[r].target)'
                      /\ \A q \in Handlers : ~StaleOrRegistering(h'[q], h'[r].target)
    BY DEF OverlapInv, StaleOrRegistering, Stale
  <2>1. /\ r \notin overlap
        /\ \A q \in Handlers : ~StaleOrRegistering(h'[q], h'[r].target)
    BY <1>2, OverlapTracked DEF TrackOverlap
  <2>2. CASE h'[r] = h[r]
    <3>0. h[r].target \in IDs
      BY <2>2 DEF TypeInv, ContextOK
    <3> PICK u \in IDs : u = h[r].target
      BY <3>0
    <3>1. RowsRevoked(u) /\ \A q \in Handlers : ~StaleOrRegistering(h[q], u)
      BY <2>1, <2>2 DEF OverlapInv
    <3>2. NoneStale(u) /\ ~RegisteredAnew(u)
      BY <3>1 DEF NoneStale, StaleOrRegistering, RegisteredAnew
    <3>3. RowsRevoked(u)'
      BY <1>2, <3>1, <3>2, RowsStayRevoked
    <3>4. QED
      BY <2>1, <2>2, <3>3 DEF RowsRevoked, RowsOf
  <2>3. CASE RevokeUser(r)
    <3>1. h'[r].target = h[r].target
      BY <2>3 DEF RevokeUser, TypeInv, TypeOK, RequestContext, Idle
    <3>2. RowsRevoked(h[r].target)'
      <4>1. /\ DOMAIN users' = DOMAIN users
            /\ \A w \in DOMAIN users :
                 /\ users'[w].id = users[w].id
                 /\ users[w].id = h[r].target => users'[w].state = -1
        BY <2>3 DEF RevokeUser, RowsOf, TypeInv, TypeOK, UserRecord
      <4>2. QED
        BY <3>1, <4>1 DEF RowsRevoked, RowsOf
    <3>3. QED
      BY <2>1, <3>2
  <2>4. QED
    BY <1>2, <2>2, <2>3, BeforeRevokeCerts
<1>3. QED
  BY <1>1, <1>2

(* The second statement seals the identity.                                *)
LEMMA RevocationSeals ==
    ASSUME TypeInv, OverlapInv, NEW r \in Handlers \ overlap, NEW u \in IDs,
           RevokeCertificatesByID(r), h[r].target = u
    PROVE  Sealed(u)'
<1>1. RowsRevoked(u) /\ NoneStale(u)
  BY DEF RevokeCertificatesByID, OverlapInv, StaleOrRegistering, NoneStale
<1>2. users' = users /\ certs' = CertsRevokedFor(u) /\ h' = [h EXCEPT ![r] = Idle]
  BY DEF RevokeCertificatesByID
<1>3. RowsRevoked(u)'
  BY <1>1, <1>2 DEF RowsRevoked, RowsOf
<1>4. CertsRevoked(u)'
  BY <1>2 DEF CertsRevoked, CertsOf, CertsRevokedFor, Revoked, TypeInv, TypeOK, CertRecord
<1>5. NoneStale(u)'
  BY <1>1, <1>2, NoneStaleFrame, IdleNotStale
<1>6. QED
  BY <1>3, <1>4, <1>5 DEF Sealed, RowsRevoked, CertsRevoked, NoneStale

(* The two statements of a revocation by name seal the identity, with any  *)
(* number of other requests running, unless one that was stale on the      *)
(* identity, or registered it, overlapped them.                            *)
THEOREM RevocationCompletes == Spec => RevocationIsComplete
<1>1. Init => TypeInv /\ OverlapInv
  BY TypeInvInit DEF Init, OverlapInv, Idle
<1>2. TypeInv /\ OverlapInv /\ [Next]_vars => (TypeInv /\ OverlapInv)'
  BY TypeInvStep, OverlapInvStep
<1>3. TypeInv /\ OverlapInv /\ [Next]_vars
        => [\A r \in Handlers \ overlap, u \in IDs :
              RevokeCertificatesByID(r) /\ h[r].target = u => Sealed(u)']_vars
  BY RevocationSeals
<1>4. QED
  BY <1>1, <1>2, <1>3, PTL DEF Spec, RevocationIsComplete

-----------------------------------------------------------------------------
(* The limit on enrollments for any numbers of identities and concurrent   *)
(* requests, where the id is a primary key (MySQL) and the requests enroll,*)
(* reenroll, register and revoke certificates.  Modifications, revocations *)
(* by name and removals break the limit (see the README and the run        *)
(* unrevoked_by_login), so they are excluded.                              *)


QuotaSetting ==
    /\ Driver = "mysql"
    /\ Ops \subseteq {"enroll", "reenroll", "register", "revokecert"}

(* What Login found out about the caller stays true until LoginComplete:   *)
(* the row is the only one of its name and its limit does not change.      *)
LoginCurrent ==
    \A r \in Handlers :
        h[r].op = "enroll" =>
            \E w \in DOMAIN users :
                /\ users[w].id = h[r].caller
                /\ EffectiveMax(users[w].max) = h[r].max

(* The state column counts the enrollments.                                *)
StateCounts ==
    \A w \in Rows : granted[w] = IF w \in DOMAIN users THEN users[w].state ELSE 0

OpsInUse ==
    \A r \in Handlers :
        /\ h[r].op \in Ops \cup {"none"}
        /\ h[r].pc \notin {"revokeUser", "revokeCerts", "update", "delete"}

(* A registration passed MaxAccepted.                                      *)
InsertAccepted == \A r \in Handlers : h[r].pc = "insert" => h[r].max >= -1

QuotaInv ==
    /\ TypeInv
    /\ OneRowPerIdentity
    /\ LoginCurrent
    /\ StateCounts
    /\ OpsInUse
    /\ InsertAccepted
    /\ EnrollmentBound

-----------------------------------------------------------------------------
(* The initial limit is positive or absent.                                *)
LEMMA QuotaInvInit == Init => QuotaInv
<1> SUFFICES ASSUME Init PROVE QuotaInv
  OBVIOUS
<1>1. TypeInv
  BY TypeInvInit
<1>2. OneRowPerIdentity
  BY ConstantsOK DEF Init, OneRowPerIdentity, ConstantsOK
<1>3. LoginCurrent /\ OpsInUse /\ InsertAccepted
  BY DEF Init, LoginCurrent, OpsInUse, InsertAccepted, Idle
<1>4. StateCounts
  BY DEF Init, StateCounts
<1>5. EnrollmentBound
  BY ConstantsOK DEF Init, EnrollmentBound, EffectiveMax, getMaxEnrollments, ConstantsOK
<1>6. QED
  BY <1>1, <1>2, <1>3, <1>4, <1>5 DEF QuotaInv

(* The requests of the setting change the users table in two ways.         *)
LEMMA UsersSteps ==
    ASSUME QuotaSetting, QuotaInv, Next
    PROVE  \/ UNCHANGED <<users, granted>>
           \/ \E r \in Handlers : LoginComplete(r) \/ InsertUser(r)
<1> PICK r \in Handlers : Next!(r)
  BY DEF Next
<1>1. ~(RevokeUser(r) \/ UpdateUser(r) \/ DeleteUser(r))
  BY DEF QuotaInv, OpsInUse, RevokeUser, UpdateUser, DeleteUser
<1>2. QED
  BY <1>1 DEF BasicAuthentication, TokenAuthentication, GetCaller, Sign, Respond,
      RevokeLookup, RevokeCertificatesByID, RevokeCertLookup, RevokeCertificate,
      RegisterLookup, ModifyLookup, DeleteLookup, Abort

(* A successful LoginComplete counts one enrollment of the caller's row,   *)
(* which was below its limit.                                              *)
LEMMA LoginCompleteCounts ==
    ASSUME QuotaInv, NEW r \in Handlers, LoginComplete(r)
    PROVE  \/ UNCHANGED <<users, granted>>
           \/ \E w \in DOMAIN users :
                /\ \/ EffectiveMax(users[w].max) = -1
                   \/ granted[w] < EffectiveMax(users[w].max)
                /\ users' = [users EXCEPT ![w] = [users[w] EXCEPT !.state = users[w].state + 1]]
                /\ granted' = [granted EXCEPT ![w] = @ + 1]
<1> DEFINE hit == {w \in RowsOf(h[r].caller) :
                     h[r].max = -1 \/ users[w].state < h[r].max}
<1>1. /\ users' = [w \in DOMAIN users |->
                     IF w \in hit THEN [users[w] EXCEPT !.state = @ + 1] ELSE users[w]]
      /\ granted' = [w \in Rows |-> IF hit = {w} THEN granted[w] + 1 ELSE granted[w]]
  BY DEF LoginComplete
<1>2. /\ users \in [DOMAIN users -> UserRecord] /\ DOMAIN users \subseteq Rows
      /\ granted \in [Rows -> Nat]
  BY DEF QuotaInv, TypeInv, TypeOK
<1>3. PICK v \in DOMAIN users :
        users[v].id = h[r].caller /\ EffectiveMax(users[v].max) = h[r].max
  BY DEF LoginComplete, QuotaInv, TypeInv, ContextOK, LoginCurrent
<1>4. RowsOf(h[r].caller) = {v}
  BY <1>3 DEF RowsOf, QuotaInv, OneRowPerIdentity
<1>5. CASE hit = {}
  BY <1>1, <1>2, <1>5
<1>6. CASE hit = {v}
  <2>1. \/ EffectiveMax(users[v].max) = -1
        \/ granted[v] < EffectiveMax(users[v].max)
    <3>1. h[r].max = -1 \/ users[v].state < h[r].max
      BY <1>6
    <3>2. granted[v] = users[v].state
      BY <1>2 DEF QuotaInv, StateCounts
    <3>3. QED
      BY <1>3, <3>1, <3>2
  <2> HIDE DEF hit
  <2>2. users' = [users EXCEPT ![v] = [users[v] EXCEPT !.state = users[v].state + 1]]
    BY <1>1, <1>2, <1>6
  <2>3. granted' = [granted EXCEPT ![v] = @ + 1]
    BY <1>1, <1>2, <1>6
  <2>4. QED
    BY <2>1, <2>2, <2>3
<1>7. QED
  BY <1>4, <1>5, <1>6

(* A registration adds a row with an unused secret under a new name.       *)
LEMMA InsertUserOpens ==
    ASSUME QuotaSetting, QuotaInv, NEW r \in Handlers, InsertUser(r)
    PROVE  \E w \in Rows \ DOMAIN users :
             /\ users' = Insert(users, w, [id |-> h[r].target, state |-> 0, max |-> h[r].max])
             /\ granted' = granted /\ granted[w] = 0
             /\ ~Registered(h[r].target)
             /\ h[r].max \in Int /\ h[r].max >= -1
<1>1. h[r].max \in Int /\ h[r].max >= -1
  BY DEF QuotaInv, TypeInv, TypeOK, RequestContext, InsertAccepted, InsertUser
<1>2. \A w \in Rows \ DOMAIN users : granted[w] = 0
  BY DEF QuotaInv, StateCounts
<1>3. QED
  BY <1>1, <1>2 DEF InsertUser, QuotaSetting

-----------------------------------------------------------------------------
(* The parts of QuotaInv that speak about the table, and that a row keeps  *)
(* its name and its limit.                                                 *)
TableKept ==
    /\ OneRowPerIdentity' /\ StateCounts' /\ EnrollmentBound'
    /\ \A v \in DOMAIN users :
         /\ v \in DOMAIN users'
         /\ users'[v].id = users[v].id /\ users'[v].max = users[v].max

LEMMA TableStep ==
    ASSUME QuotaSetting, QuotaInv, Next
    PROVE  TableKept
<1> USE DEF QuotaInv, TypeInv, TableKept
<1>1. CASE UNCHANGED <<users, granted>>
  BY <1>1 DEF OneRowPerIdentity, StateCounts, EnrollmentBound
<1>2. ASSUME NEW r \in Handlers, LoginComplete(r), NEW w \in DOMAIN users,
             \/ EffectiveMax(users[w].max) = -1
             \/ granted[w] < EffectiveMax(users[w].max),
             users' = [users EXCEPT ![w] = [users[w] EXCEPT !.state = users[w].state + 1]],
             granted' = [granted EXCEPT ![w] = @ + 1]
      PROVE  TableKept
  <2>1. /\ users \in [DOMAIN users -> UserRecord] /\ DOMAIN users \subseteq Rows
        /\ granted \in [Rows -> Nat]
    BY DEF TypeOK
  <2>2. /\ DOMAIN users' = DOMAIN users
        /\ \A v \in DOMAIN users :
             /\ users'[v].id = users[v].id /\ users'[v].max = users[v].max
             /\ users'[v].state = IF v = w THEN users[v].state + 1 ELSE users[v].state
    BY <1>2, <2>1 DEF UserRecord
  <2>3. OneRowPerIdentity'
    BY <2>2 DEF OneRowPerIdentity
  <2>4. StateCounts'
    BY <1>2, <2>1, <2>2 DEF StateCounts
  <2>5. EnrollmentBound'
    <3> SUFFICES ASSUME NEW v \in DOMAIN users
                 PROVE  \/ EffectiveMax(users[v].max) = -1
                        \/ granted'[v] <= EffectiveMax(users[v].max)
      BY <2>2 DEF EnrollmentBound, EffectiveMax
    <3>1. EffectiveMax(users[v].max) \in Int /\ granted[v] \in Nat
      BY <2>1, MaxTypes DEF UserRecord
    <3>2. QED
      BY <1>2, <2>1, <3>1 DEF EnrollmentBound
  <2>6. QED
    BY <2>2, <2>3, <2>4, <2>5
<1>3. ASSUME NEW r \in Handlers, InsertUser(r) PROVE TableKept
  <2> DEFINE row == [id |-> h[r].target, state |-> 0, max |-> h[r].max]
  <2> PICK w \in Rows \ DOMAIN users :
        /\ users' = Insert(users, w, row)
        /\ granted' = granted /\ granted[w] = 0
        /\ ~Registered(h[r].target)
        /\ h[r].max \in Int /\ h[r].max >= -1
    BY <1>3, InsertUserOpens
  <2>1. row.id = h[r].target /\ row.state = 0 /\ row.max = h[r].max
    OBVIOUS
  <2> HIDE DEF row
  <2>2. DOMAIN users' = DOMAIN users \cup {w} /\ users'[w] = row
        /\ \A v \in DOMAIN users : users'[v] = users[v]
    BY DEF Insert
  <2>3. OneRowPerIdentity'
    BY <2>1, <2>2 DEF OneRowPerIdentity, Registered, RowsOf
  <2>4. StateCounts'
    BY <2>1, <2>2 DEF StateCounts
  <2>5. EnrollmentBound'
    <3>1. EffectiveMax(row.max) = -1 \/ 0 <= EffectiveMax(row.max)
      BY <2>1, ConstantsOK DEF EffectiveMax, ConstantsOK
    <3>2. QED
      BY <2>2, <3>1 DEF EnrollmentBound, EffectiveMax
  <2>6. QED
    BY <2>2, <2>3, <2>4, <2>5
<1>4. QED
  BY <1>1, <1>2, <1>3, UsersSteps, LoginCompleteCounts

-----------------------------------------------------------------------------
(* The parts of QuotaInv that speak about the request contexts.            *)
ContextCurrent(c) ==
    /\ c.op = "enroll" =>
         \E w \in DOMAIN users : /\ users[w].id = c.caller
                                 /\ EffectiveMax(users[w].max) = c.max
    /\ c.op \in Ops \cup {"none"}
    /\ c.pc \notin {"revokeUser", "revokeCerts", "update", "delete"}
    /\ c.pc = "insert" => c.max >= -1

LEMMA ContextsFrame ==
    ASSUME QuotaInv, TableKept, NEW r \in Handlers, NEW c,
           h' = [h EXCEPT ![r] = c], ContextCurrent(c)
    PROVE  LoginCurrent' /\ OpsInUse' /\ InsertAccepted'
<1>1. \A q \in Handlers : ContextCurrent(h[q])
  BY DEF QuotaInv, LoginCurrent, OpsInUse, InsertAccepted, ContextCurrent
<1>2. \A q \in Handlers : ContextCurrent(h'[q])
  BY <1>1 DEF QuotaInv, TypeInv, TypeOK
<1>3. \A q \in Handlers : h'[q].op = "enroll" =>
         \E w \in DOMAIN users : /\ users[w].id = h'[q].caller
                                 /\ EffectiveMax(users[w].max) = h'[q].max
  BY <1>2 DEF ContextCurrent
<1>4. LoginCurrent'
  BY <1>3 DEF LoginCurrent, TableKept, EffectiveMax
<1>5. QED
  BY <1>2, <1>4 DEF OpsInUse, InsertAccepted, ContextCurrent

LEMMA ContextsStep ==
    ASSUME QuotaSetting, QuotaInv, Next, TableKept
    PROVE  LoginCurrent' /\ OpsInUse' /\ InsertAccepted'
<1> PICK r \in Handlers : Next!(r)
  BY DEF Next
<1>0. ContextCurrent(h[r]) /\ h[r] \in RequestContext
  BY DEF QuotaInv, LoginCurrent, OpsInUse, InsertAccepted, ContextCurrent, TypeInv, TypeOK
<1>1. CASE h' = [h EXCEPT ![r] = Idle]
  <2>1. ContextCurrent(Idle)
    BY DEF ContextCurrent, Idle
  <2>2. QED
    BY <1>1, <2>1, ContextsFrame
<1>2. CASE BasicAuthentication(r)
  <2> PICK w \in DOMAIN users :
        h' = [h EXCEPT ![r] = [Idle EXCEPT !.pc = "caller", !.op = "enroll",
                                           !.caller = users[w].id,
                                           !.max = EffectiveMax(users[w].max)]]
    BY <1>2 DEF BasicAuthentication
  <2>1. ContextCurrent([Idle EXCEPT !.pc = "caller", !.op = "enroll",
                                    !.caller = users[w].id,
                                    !.max = EffectiveMax(users[w].max)])
    BY <1>2 DEF BasicAuthentication, ContextCurrent, Idle
  <2>2. QED
    BY <2>1, ContextsFrame
<1>3. CASE TokenAuthentication(r)
  <2> PICK s \in wallet, op \in Ops \cap TokenOps :
        h' = [h EXCEPT ![r] = [Idle EXCEPT !.pc = "caller", !.op = op,
                                           !.caller = certs[s].id, !.cert = s]]
    BY <1>3 DEF TokenAuthentication
  <2>1. ContextCurrent([Idle EXCEPT !.pc = "caller", !.op = op,
                                    !.caller = certs[s].id, !.cert = s])
    BY DEF ContextCurrent, Idle, TokenOps
  <2>2. QED
    BY <2>1, ContextsFrame
<1>4. CASE GetCaller(r)
  <2> DEFINE c == [h[r] EXCEPT !.pc = IF h[r].op \in {"enroll", "reenroll"}
                                      THEN "sign" ELSE "lookup"]
  <2>1. h' = [h EXCEPT ![r] = c]
    BY <1>4 DEF GetCaller, QuotaInv, TypeInv, TypeOK
  <2>2. ContextCurrent(c)
    BY <1>0 DEF ContextCurrent, RequestContext
  <2>3. QED
    BY <2>1, <2>2, ContextsFrame
<1>5. CASE Sign(r)
  <2> DEFINE p == IF h[r].op = "enroll" THEN "complete" ELSE "reply"
  <2> PICK s \in Serials \ DOMAIN certs :
        h' = [h EXCEPT ![r] = [h[r] EXCEPT !.pc = p, !.cert = s]]
    BY <1>5 DEF Sign
  <2>1. ContextCurrent([h[r] EXCEPT !.pc = p, !.cert = s])
    BY <1>0 DEF ContextCurrent, RequestContext
  <2>2. QED
    BY <2>1, ContextsFrame
<1>6. CASE LoginComplete(r)
  <2>1. ContextCurrent([h[r] EXCEPT !.pc = "reply"])
    BY <1>0 DEF ContextCurrent, RequestContext
  <2>2. h' = [h EXCEPT ![r] = [h[r] EXCEPT !.pc = "reply"]] \/ h' = [h EXCEPT ![r] = Idle]
    BY <1>6 DEF LoginComplete
  <2>3. QED
    BY <1>1, <2>1, <2>2, ContextsFrame
<1>7. CASE RevokeLookup(r) \/ ModifyLookup(r) \/ DeleteLookup(r)
  BY <1>0, <1>7 DEF QuotaSetting, RevokeLookup, ModifyLookup, DeleteLookup, ContextCurrent
<1>8. CASE RevokeUser(r)
  BY <1>0, <1>8 DEF RevokeUser, ContextCurrent
<1>9. CASE RevokeCertLookup(r)
  <2> PICK s \in DOMAIN certs :
        h' = [h EXCEPT ![r] = [h[r] EXCEPT !.pc = "revokeCert", !.cert = s]]
    BY <1>9 DEF RevokeCertLookup
  <2>1. ContextCurrent([h[r] EXCEPT !.pc = "revokeCert", !.cert = s])
    BY <1>0 DEF ContextCurrent, RequestContext
  <2>2. QED
    BY <2>1, ContextsFrame
<1>10. CASE RegisterLookup(r)
  <2> PICK u \in IDs, m \in MaxRequests :
        /\ MaxAccepted(m)
        /\ h' = [h EXCEPT ![r] = [h[r] EXCEPT !.pc = "insert", !.target = u,
                                              !.max = getMaxEnrollments(m)]]
    BY <1>10 DEF RegisterLookup
  <2>1. getMaxEnrollments(m) \in Int /\ getMaxEnrollments(m) >= -1
    BY ConstantsOK DEF MaxAccepted, getMaxEnrollments, ConstantsOK
  <2>2. h[r].op = "register"
    BY <1>10 DEF RegisterLookup
  <2>3. ContextCurrent([h[r] EXCEPT !.pc = "insert", !.target = u,
                                    !.max = getMaxEnrollments(m)])
    BY <1>0, <2>1, <2>2 DEF ContextCurrent, RequestContext
  <2>4. QED
    BY <2>3, ContextsFrame
<1>11. QED
  BY <1>1, <1>2, <1>3, <1>4, <1>5, <1>6, <1>7, <1>8, <1>9, <1>10
  DEF Respond, RevokeCertificatesByID, RevokeCertificate, InsertUser, UpdateUser,
      DeleteUser, Abort

LEMMA QuotaInvStep ==
    ASSUME QuotaSetting PROVE QuotaInv /\ [Next]_vars => QuotaInv'
<1> SUFFICES ASSUME QuotaInv, [Next]_vars PROVE QuotaInv'
  OBVIOUS
<1>1. TypeInv'
  BY TypeInvStep DEF QuotaInv
<1>2. CASE UNCHANGED vars
  BY <1>1, <1>2
  DEF vars, QuotaInv, OneRowPerIdentity, LoginCurrent, StateCounts, OpsInUse,
      InsertAccepted, EnrollmentBound
<1>3. CASE Next
  <2>1. TableKept
    BY <1>3, TableStep
  <2>2. LoginCurrent' /\ OpsInUse' /\ InsertAccepted'
    BY <1>3, <2>1, ContextsStep
  <2>3. QED
    BY <1>1, <2>1, <2>2 DEF QuotaInv, TableKept
<1>4. QED
  BY <1>2, <1>3

(* LoginComplete, not Login, keeps the limit: with any number of           *)
(* concurrent enrollments no secret is used more often than its limit.     *)
THEOREM QuotaBound ==
    ASSUME QuotaSetting PROVE Spec => []EnrollmentBound
<1>1. Init => QuotaInv
  BY QuotaInvInit
<1>2. QuotaInv /\ [Next]_vars => QuotaInv'
  BY QuotaInvStep
<1>3. QuotaInv => EnrollmentBound
  BY DEF QuotaInv
<1>4. QED
  BY <1>1, <1>2, <1>3, PTL DEF Spec

-----------------------------------------------------------------------------
(* Refinement of EnrollmentQuota.                                          *)
LEMMA QuotaRefinesInit == Init => Quota!Init
<1> SUFFICES ASSUME Init PROVE Quota!Init
  OBVIOUS
<1>1. TypeInv
  BY TypeInvInit
<1>2. \A w \in DOMAIN users : EffectiveMax(users[w].max) \in Int
  BY <1>1, MaxTypes DEF TypeInv, TypeOK, UserRecord
<1>3. \A w \in DOMAIN users : granted[w] = 0
  BY <1>1 DEF Init, TypeInv, TypeOK
<1>4. QED
  BY <1>2, <1>3 DEF Quota!Init

(* The two variables of the abstract specification.                        *)
AbstractLimit == [w \in DOMAIN users |-> EffectiveMax(users[w].max)]
AbstractUsed == [w \in DOMAIN users |-> granted[w]]

LEMMA QuotaRefinesUse ==
    ASSUME QuotaInv, NEW w \in DOMAIN users,
           \/ EffectiveMax(users[w].max) = -1
           \/ granted[w] < EffectiveMax(users[w].max),
           users' = [users EXCEPT ![w] = [users[w] EXCEPT !.state = users[w].state + 1]],
           granted' = [granted EXCEPT ![w] = @ + 1]
    PROVE  Quota!Use(w)
<1>1. /\ users \in [DOMAIN users -> UserRecord] /\ DOMAIN users \subseteq Rows
      /\ granted \in [Rows -> Nat]
  BY DEF QuotaInv, TypeInv, TypeOK
<1>2. /\ DOMAIN users' = DOMAIN users
      /\ \A v \in DOMAIN users : users'[v].max = users[v].max
  BY <1>1 DEF UserRecord
<1>3. AbstractLimit' = AbstractLimit
  BY <1>2 DEF AbstractLimit, EffectiveMax
<1>4. AbstractUsed' = [AbstractUsed EXCEPT ![w] = @ + 1]
  BY <1>1, <1>2 DEF AbstractUsed
<1>5. QED
  BY <1>3, <1>4 DEF Quota!Use, AbstractLimit, AbstractUsed

LEMMA QuotaRefinesOpen ==
    ASSUME QuotaInv, NEW w \in Rows \ DOMAIN users, NEW row,
           users' = Insert(users, w, row), row.max \in Int,
           granted' = granted, granted[w] = 0
    PROVE  Quota!Open(w)
<1>1. /\ DOMAIN users' = DOMAIN users \cup {w} /\ users'[w] = row
      /\ \A v \in DOMAIN users : users'[v] = users[v]
  BY DEF Insert
<1>2. EffectiveMax(row.max) \in Int
  BY MaxTypes
<1>3. AbstractLimit' = [x \in DOMAIN users \cup {w} |->
                          IF x = w THEN EffectiveMax(row.max) ELSE AbstractLimit[x]]
  BY <1>1 DEF AbstractLimit, EffectiveMax
<1>4. AbstractUsed' = [x \in DOMAIN users \cup {w} |-> IF x = w THEN 0 ELSE AbstractUsed[x]]
  BY <1>1 DEF AbstractUsed
<1>5. DOMAIN AbstractLimit = DOMAIN users /\ DOMAIN AbstractLimit' = DOMAIN users \cup {w}
  BY <1>3 DEF AbstractLimit
<1>6. AbstractLimit'[w] = EffectiveMax(row.max)
  BY <1>3
<1>7. /\ w \in DOMAIN AbstractLimit' \ DOMAIN AbstractLimit
      /\ AbstractLimit'[w] \in Int
      /\ AbstractLimit' = [x \in DOMAIN AbstractLimit \cup {w} |->
                             IF x = w THEN AbstractLimit'[w] ELSE AbstractLimit[x]]
      /\ AbstractUsed' = [x \in DOMAIN AbstractLimit \cup {w} |->
                            IF x = w THEN 0 ELSE AbstractUsed[x]]
  BY <1>2, <1>3, <1>4, <1>5, <1>6
<1>8. QED
  BY <1>7 DEF Quota!Open, AbstractLimit, AbstractUsed

LEMMA QuotaRefinesStep ==
    ASSUME QuotaSetting
    PROVE  QuotaInv /\ [Next]_vars => [Quota!Next]_<<AbstractLimit, AbstractUsed>>
<1> SUFFICES ASSUME QuotaInv, [Next]_vars
             PROVE  Quota!Next \/ UNCHANGED <<AbstractLimit, AbstractUsed>>
  OBVIOUS
<1>1. CASE UNCHANGED <<users, granted>>
  BY <1>1 DEF AbstractLimit, AbstractUsed, EffectiveMax
<1>2. ASSUME NEW r \in Handlers, LoginComplete(r)
      PROVE  Quota!Next \/ UNCHANGED <<users, granted>>
  BY <1>2, LoginCompleteCounts, QuotaRefinesUse DEF Quota!Next, QuotaInv, TypeInv, TypeOK
<1>3. ASSUME NEW r \in Handlers, InsertUser(r) PROVE Quota!Next
  <2> DEFINE row == [id |-> h[r].target, state |-> 0, max |-> h[r].max]
  <2> PICK w \in Rows \ DOMAIN users :
        /\ users' = Insert(users, w, row)
        /\ granted' = granted /\ granted[w] = 0
        /\ h[r].max \in Int
    BY <1>3, InsertUserOpens
  <2>1. row.max \in Int
    OBVIOUS
  <2> HIDE DEF row
  <2>2. Quota!Open(w)
    BY <2>1, QuotaRefinesOpen
  <2>3. QED
    BY <2>2 DEF Quota!Next
<1>4. QED
  BY <1>1, <1>2, <1>3, UsersSteps DEF vars

(* Enrollment under concurrency implements the abstract quota: accounts    *)
(* are opened by registrations, and used only below their limit.           *)
THEOREM QuotaRefinement ==
    ASSUME QuotaSetting PROVE Spec => QuotaSpec
<1>1. Init => QuotaInv /\ Quota!Init
  BY QuotaInvInit, QuotaRefinesInit
<1>2. QuotaInv /\ [Next]_vars => QuotaInv'
  BY QuotaInvStep
<1>3. QuotaInv /\ [Next]_vars => [Quota!Next]_<<AbstractLimit, AbstractUsed>>
  BY QuotaRefinesStep
<1>4. QED
  BY <1>1, <1>2, <1>3, PTL DEF Spec, QuotaSpec, Quota!Spec, AbstractLimit, AbstractUsed
==============================================================================
