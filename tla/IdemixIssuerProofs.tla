------------------------- MODULE IdemixIssuerProofs -------------------------
(***************************************************************************)
(* Proofs for the Idemix issuer, for every driver, any size of the handle  *)
(* pool and any number of concurrent requests.                             *)
(***************************************************************************)
EXTENDS IdemixIssuer, TLAPS

(* The row of the revocation authority as any transaction can read it: the *)
(* epoch and the pool are those of the first initialisation.               *)
PoolInfo == {i \in RAInfo : /\ i.epoch = 1 /\ i.last = RHPoolSize
                            /\ i.next \in 1 .. RHPoolSize}

FullCRI == [epoch |-> 1, handles |-> 1 .. RHPoolSize]

(* What a handler knows at each point of its request.                      *)
ContextOK(c) ==
    /\ c \in RequestContext
    /\ c.pc \in {"body", "nonce", "removeNonce", "check", "handle", "updateHandle",
                 "store", "complete"}
          => c.op = "credential"
    /\ c.op = "credential" /\ c.pc \notin {"idle", "body"}
          => c.caller \in IDs /\ c.nonce \in Nonces
    /\ c.op = "credential" /\ c.pc \in {"store", "readInfo", "cri", "complete", "reply"}
          => c.handle \in 1 .. RHPoolSize
    /\ c.pc \in {"updateHandle", "cri"} => c.info \in PoolInfo
    /\ c.pc \in {"complete", "reply"} => c.cri = FullCRI

ContextsOK ==
    /\ h \in [Handlers -> RequestContext]
    /\ \A r \in Handlers : ContextOK(h[r])

TablesOK ==
    /\ ra \in PoolInfo
    /\ nonces \in [Nonces -> {"new", "live", "expired", "removed"}]
    /\ DOMAIN creds \subseteq 1 .. RHPoolSize
    /\ creds \in [DOMAIN creds -> IDs]
    /\ state \in [IDs -> Nat]
    /\ cri \in {NoCRI, FullCRI}
    /\ sweeper \in {"waiting", "sweeping"}
    /\ accepted \in [Nonces -> Nat]
    /\ handed \in [DOMAIN handed -> Nat]

IssuedOK == \A c \in issued : c.handle \in 1 .. RHPoolSize /\ c.cri = FullCRI

TypeInv == ContextsOK /\ TablesOK /\ IssuedOK

-----------------------------------------------------------------------------
LEMMA ConstantTypes ==
    /\ RHPoolSize \in Nat \ {0}
    /\ NoInfo \in RAInfo /\ NoCRI \in CRI /\ FullCRI \in CRI
    /\ PoolInfo \subseteq RAInfo
BY IdemixConstantsOK DEF IdemixConstantsOK, NoInfo, NoCRI, FullCRI, RAInfo, CRI, PoolInfo

(* A finished request.                                                     *)
LEMMA IdleOK == ContextOK(Idle)
BY ConstantTypes DEF ContextOK, Idle, RequestContext, PCs

(* A step changes one request context.                                     *)
LEMMA ContextsFrame ==
    ASSUME ContextsOK, NEW r \in Handlers, NEW c, ContextOK(c), h' = [h EXCEPT ![r] = c]
    PROVE  ContextsOK'
BY DEF ContextsOK, ContextOK

(* The pool does not grow and the next handle stays in it.                 *)
LEMMA HandleUpdatedType ==
    ASSUME ra \in PoolInfo, NEW i \in PoolInfo
    PROVE  HandleUpdated(i) \in PoolInfo
<1>1. RHPoolSize \in Nat \ {0}
  BY ConstantTypes
<1>2. CASE i.next = i.last
  BY <1>1, <1>2 DEF HandleUpdated, PoolInfo, RAInfo
<1>3. CASE i.next # i.last
  <2>1. i.next + 1 \in 1 .. RHPoolSize
    BY <1>1, <1>3 DEF PoolInfo, RAInfo
  <2>2. HandleUpdated(i) = [ra EXCEPT !.next = i.next + 1]
    BY <1>3 DEF HandleUpdated, PoolInfo
  <2>3. QED
    BY <2>1, <2>2 DEF PoolInfo, RAInfo
<1>4. QED
  BY <1>2, <1>3

LEMMA TypeInvInit == Init => TypeInv
<1> SUFFICES ASSUME Init PROVE TypeInv
  OBVIOUS
<1>1. ContextsOK
  BY IdleOK DEF Init, ContextsOK, ContextOK
<1>2. ra \in PoolInfo
  BY ConstantTypes DEF Init, PoolInfo, RAInfo
<1>3. TablesOK
  BY <1>2, ConstantTypes DEF Init, TablesOK
<1>4. QED
  BY <1>1, <1>3 DEF TypeInv, IssuedOK, Init

LEMMA TypeInvStep == TypeInv /\ [Next]_vars => TypeInv'
<1> SUFFICES ASSUME TypeInv, [Next]_vars PROVE TypeInv'
  OBVIOUS
<1> USE DEF TypeInv
<1>0. \A r \in Handlers : ContextOK(h[r]) /\ h[r] \in RequestContext
  BY DEF ContextsOK
<1>1. CASE UNCHANGED vars
  BY <1>1 DEF vars, db, history, ContextsOK, ContextOK, TablesOK, IssuedOK
<1>a. ASSUME NEW r \in Handlers, Authenticate(r) PROVE TypeInv'
  <2> PICK basic \in BOOLEAN, op \in {"credential", "cri"}, c \in IDs \cup {None} :
        /\ basic => op = "credential"
        /\ h' = [h EXCEPT ![r] =
                   [Idle EXCEPT !.pc = IF op = "cri" THEN "readInfo" ELSE "body",
                                !.op = op, !.basic = basic, !.caller = c]]
    BY <1>a DEF Authenticate
  <2>1. ContextOK([Idle EXCEPT !.pc = IF op = "cri" THEN "readInfo" ELSE "body",
                               !.op = op, !.basic = basic, !.caller = c])
    BY ConstantTypes DEF ContextOK, Idle, RequestContext, PCs
  <2>2. QED
    BY <1>a, <2>1, ContextsFrame DEF Authenticate, db, history, TablesOK, IssuedOK
<1>b. ASSUME NEW r \in Handlers, GetNonce(r) PROVE TypeInv'
  <2>1. ContextsOK'
    BY <1>b, IdleOK, ContextsFrame DEF GetNonce
  <2>2. QED
    BY <1>b, <2>1 DEF GetNonce, history, TablesOK, IssuedOK
<1>c. ASSUME NEW r \in Handlers, GetCaller(r) PROVE TypeInv'
  <2> PICK n \in Nonces : h' = [h EXCEPT ![r] = [h[r] EXCEPT !.pc = "nonce", !.nonce = n]]
    BY <1>c DEF GetCaller
  <2>1. h[r].op = "credential" /\ h[r].caller \in IDs
    BY <1>0, <1>c DEF GetCaller, ContextOK, RequestContext
  <2>2. ContextOK([h[r] EXCEPT !.pc = "nonce", !.nonce = n])
    BY <1>0, <2>1 DEF ContextOK, RequestContext, PCs
  <2>3. QED
    BY <1>c, <2>2, ContextsFrame DEF GetCaller, db, history, TablesOK, IssuedOK
<1>d. ASSUME NEW r \in Handlers, CheckNonce(r) PROVE TypeInv'
  <2>1. ContextOK([h[r] EXCEPT !.pc = "check", !.live = (nonces[h[r].nonce] = "live")])
    BY <1>0, <1>d DEF CheckNonce, ContextOK, RequestContext, PCs
  <2>2. ContextsOK'
    BY <1>d, <2>1, ContextsFrame DEF CheckNonce, Go
  <2>3. QED
    BY <1>d, <2>2 DEF CheckNonce, db, history, TablesOK, IssuedOK
<1>e. ASSUME NEW r \in Handlers, SelectNonce(r) PROVE TypeInv'
  <2>1. ContextOK([h[r] EXCEPT !.pc = "removeNonce", !.live = (nonces[h[r].nonce] = "live")])
    BY <1>0, <1>e DEF SelectNonce, ContextOK, RequestContext, PCs
  <2>2. ContextsOK'
    BY <1>e, <2>1, ContextsFrame DEF SelectNonce, Go
  <2>3. QED
    BY <1>e, <2>2 DEF SelectNonce, db, history, TablesOK, IssuedOK
<1>f. ASSUME NEW r \in Handlers, RemoveNonce(r) PROVE TypeInv'
  <2>1. ContextOK([h[r] EXCEPT !.pc = "check"])
    BY <1>0, <1>f DEF RemoveNonce, ContextOK, RequestContext, PCs
  <2>2. ContextsOK'
    BY <1>f, <2>1, IdleOK, ContextsFrame DEF RemoveNonce, Go
  <2>3. QED
    BY <1>f, <2>2 DEF RemoveNonce, history, TablesOK, IssuedOK
<1>g. ASSUME NEW r \in Handlers, NonceAccepted(r) PROVE TypeInv'
  <2>1. ContextOK([h[r] EXCEPT !.pc = "handle"])
    BY <1>0, <1>g DEF NonceAccepted, ContextOK, RequestContext, PCs
  <2>2. ContextsOK'
    BY <1>g, <2>1, ContextsFrame DEF NonceAccepted, Go
  <2>3. accepted' \in [Nonces -> Nat]
    <3>1. h[r].nonce \in Nonces
      BY <1>0, <1>g DEF NonceAccepted, ContextOK
    <3>2. QED
      BY <1>g, <3>1 DEF NonceAccepted, TablesOK
  <2>4. QED
    BY <1>g, <2>2, <2>3 DEF NonceAccepted, db, TablesOK, IssuedOK
<1>h. ASSUME NEW r \in Handlers, GetNewRevocationHandle(r) PROVE TypeInv'
  <2>1. ra \in PoolInfo /\ ra.next \in 1 .. RHPoolSize /\ ra' \in PoolInfo
    BY <1>h, HandleUpdatedType DEF GetNewRevocationHandle, TablesOK, PoolInfo
  <2>2. ContextOK([h[r] EXCEPT !.pc = "store", !.handle = ra.next])
    <3>1. h[r].pc = "handle" /\ ra.next \in Nat
      BY <1>h, <2>1, ConstantTypes DEF GetNewRevocationHandle
    <3>2. QED
      BY <1>0, <2>1, <3>1 DEF ContextOK, RequestContext, PCs
  <2>3. ContextsOK'
    BY <1>h, <2>2, ContextsFrame DEF GetNewRevocationHandle
  <2>4. handed' \in [DOMAIN handed' -> Nat]
    BY <1>h DEF GetNewRevocationHandle, HandOut, TablesOK
  <2>5. QED
    BY <1>h, <2>1, <2>3, <2>4 DEF GetNewRevocationHandle, TablesOK, IssuedOK
<1>i. ASSUME NEW r \in Handlers, SelectRAInfo(r) PROVE TypeInv'
  <2>1. ContextOK([h[r] EXCEPT !.pc = "updateHandle", !.info = ra])
    BY <1>0, <1>i, ConstantTypes DEF SelectRAInfo, ContextOK, RequestContext, PCs, TablesOK
  <2>2. ContextsOK'
    BY <1>i, <2>1, ContextsFrame DEF SelectRAInfo, Go
  <2>3. QED
    BY <1>i, <2>2 DEF SelectRAInfo, db, history, TablesOK, IssuedOK
<1>j. ASSUME NEW r \in Handlers, UpdateNextHandle(r) PROVE TypeInv'
  <2>1. h[r].info \in PoolInfo /\ h[r].info.next \in 1 .. RHPoolSize /\ ra' \in PoolInfo
    BY <1>0, <1>j, HandleUpdatedType DEF UpdateNextHandle, TablesOK, PoolInfo, ContextOK
  <2>2. ContextOK([h[r] EXCEPT !.pc = "store", !.handle = h[r].info.next])
    <3>1. h[r].pc = "updateHandle" /\ h[r].info.next \in Nat
      BY <1>j, <2>1, ConstantTypes DEF UpdateNextHandle
    <3>2. QED
      BY <1>0, <2>1, <3>1 DEF ContextOK, RequestContext, PCs
  <2>3. ContextsOK'
    BY <1>j, <2>2, ContextsFrame DEF UpdateNextHandle
  <2>4. handed' \in [DOMAIN handed' -> Nat]
    BY <1>j DEF UpdateNextHandle, HandOut, TablesOK
  <2>5. QED
    BY <1>j, <2>1, <2>3, <2>4 DEF UpdateNextHandle, TablesOK, IssuedOK
<1>k. ASSUME NEW r \in Handlers, InsertCredential(r) PROVE TypeInv'
  <2>1. ContextOK([h[r] EXCEPT !.pc = "readInfo"])
    BY <1>0, <1>k DEF InsertCredential, ContextOK, RequestContext, PCs
  <2>2. ContextsOK'
    BY <1>k, <2>1, ContextsFrame DEF InsertCredential, Go
  <2>3. h[r].caller \in IDs /\ h[r].handle \in 1 .. RHPoolSize
    BY <1>0, <1>k DEF InsertCredential, ContextOK
  <2>4. DOMAIN creds' \subseteq 1 .. RHPoolSize /\ creds' \in [DOMAIN creds' -> IDs]
    BY <1>k, <2>3 DEF InsertCredential, TablesOK
  <2>5. QED
    BY <1>k, <2>2, <2>4 DEF InsertCredential, history, TablesOK, IssuedOK
<1>l. ASSUME NEW r \in Handlers, ReadRAInfo(r) PROVE TypeInv'
  <2>1. ContextOK([h[r] EXCEPT !.pc = "cri", !.info = ra])
    BY <1>0, <1>l, ConstantTypes DEF ReadRAInfo, ContextOK, RequestContext, PCs, TablesOK
  <2>2. ContextsOK'
    BY <1>l, <2>1, ContextsFrame DEF ReadRAInfo, Go
  <2>3. QED
    BY <1>l, <2>2 DEF ReadRAInfo, db, history, TablesOK, IssuedOK
<1>m. ASSUME NEW r \in Handlers, CreateCRI(r) PROVE TypeInv'
  <2> DEFINE p == IF h[r].op = "credential" /\ h[r].basic THEN "complete" ELSE "reply"
  <2>1. h[r].info \in PoolInfo
    BY <1>0, <1>m DEF CreateCRI, ContextOK
  <2>2. [epoch |-> h[r].info.epoch, handles |-> getUnRevokedHandles(h[r].info)] = FullCRI
    BY <2>1 DEF PoolInfo, FullCRI, getUnRevokedHandles
  <2>3. cri' = FullCRI /\ h' = [h EXCEPT ![r] = [h[r] EXCEPT !.pc = p, !.cri = cri']]
    BY <1>m, <2>2 DEF CreateCRI, TablesOK
  <2>4. ContextOK([h[r] EXCEPT !.pc = p, !.cri = FullCRI])
    BY <1>0, <1>m, ConstantTypes DEF CreateCRI, ContextOK, RequestContext, PCs
  <2>5. ContextsOK'
    BY <2>3, <2>4, ContextsFrame
  <2>6. QED
    BY <1>m, <2>3, <2>5 DEF CreateCRI, db, history, TablesOK, IssuedOK
<1>n. ASSUME NEW r \in Handlers, LoginComplete(r) PROVE TypeInv'
  <2>1. ContextOK([h[r] EXCEPT !.pc = "reply"])
    BY <1>0, <1>n DEF LoginComplete, ContextOK, RequestContext, PCs
  <2>2. ContextsOK'
    BY <1>n, <2>1, ContextsFrame DEF LoginComplete, Go
  <2>3. state' \in [IDs -> Nat]
    <3>1. h[r].caller \in IDs
      BY <1>0, <1>n DEF LoginComplete, ContextOK
    <3>2. QED
      BY <1>n, <3>1 DEF LoginComplete, TablesOK
  <2>4. QED
    BY <1>n, <2>2, <2>3 DEF LoginComplete, history, TablesOK, IssuedOK
<1>o. ASSUME NEW r \in Handlers, Respond(r) PROVE TypeInv'
  <2>1. ContextsOK'
    BY <1>o, IdleOK, ContextsFrame DEF Respond
  <2>2. IssuedOK'
    BY <1>0, <1>o DEF Respond, IssuedOK, ContextOK
  <2>3. QED
    BY <1>o, <2>1, <2>2 DEF Respond, db, TablesOK
<1>p. ASSUME NEW r \in Handlers, Abort(r) PROVE TypeInv'
  <2>1. ContextsOK'
    BY <1>p, IdleOK, ContextsFrame DEF Abort
  <2>2. QED
    BY <1>p, <2>1 DEF Abort, db, history, TablesOK, IssuedOK
<1>q. ASSUME NEW n \in Nonces, NonceExpires(n) PROVE TypeInv'
  BY <1>q DEF NonceExpires, history, TablesOK, IssuedOK, ContextsOK, ContextOK
<1>r. CASE SweeperTick \/ Sweep
  BY <1>r DEF SweeperTick, Sweep, db, history, TablesOK, IssuedOK, ContextsOK, ContextOK
<1>s. CASE Restart
  <2>1. ContextsOK'
    BY <1>s, IdleOK DEF Restart, ContextsOK, ContextOK
  <2>2. QED
    BY <1>s, <2>1 DEF Restart, db, history, TablesOK, IssuedOK
<1>z. QED
  BY <1>1, <1>a, <1>b, <1>c, <1>d, <1>e, <1>f, <1>g, <1>h, <1>i, <1>j, <1>k, <1>l,
     <1>m, <1>n, <1>o, <1>p, <1>q, <1>r, <1>s DEF Next

(* Every state of the issuer is type correct.                              *)
THEOREM IdemixTypeCorrect == Spec => []TypeOK
<1>1. Init => TypeInv
  BY TypeInvInit
<1>2. TypeInv /\ [Next]_vars => TypeInv'
  BY TypeInvStep
<1>3. TypeInv => TypeOK
  BY ConstantTypes DEF TypeInv, ContextsOK, TablesOK, TypeOK, PoolInfo
<1>4. QED
  BY <1>1, <1>2, <1>3, PTL DEF Spec

(* A cached CRI covers every handle of the pool, and every handle comes    *)
(* from the pool, so a credential is covered by the CRI it comes with.     *)
THEOREM CRICovers == Spec => []CRICoversCredential
<1>1. Init => TypeInv
  BY TypeInvInit
<1>2. TypeInv /\ [Next]_vars => TypeInv'
  BY TypeInvStep
<1>3. TypeInv => CRICoversCredential
  <2>1. FullCRI.handles = 1 .. RHPoolSize
    BY DEF FullCRI
  <2>2. QED
    BY <2>1 DEF TypeInv, IssuedOK, CRICoversCredential
<1>4. QED
  BY <1>1, <1>2, <1>3, PTL DEF Spec

-----------------------------------------------------------------------------
(* A request past InsertCredential owns its handle.                        *)
Owns(r) == h[r].op = "credential" /\ h[r].pc \in {"readInfo", "cri", "complete", "reply"}

OwnersInv ==
    /\ \A r \in Handlers : Owns(r) => /\ h[r].handle \in DOMAIN creds
                                      /\ creds[h[r].handle] = h[r].caller
    /\ \A r, q \in Handlers : Owns(r) /\ Owns(q) /\ h[r].handle = h[q].handle => r = q
    /\ \A r \in Handlers, c \in issued : Owns(r) => c.handle # h[r].handle
    /\ HandleIdentifiesCredential

(* A step that leaves the table and the history alone and gives nobody a   *)
(* handle.                                                                 *)
LEMMA OwnersFrame ==
    ASSUME OwnersInv, UNCHANGED <<creds, issued>>,
           \A r \in Handlers : Owns(r)' => /\ Owns(r)
                                         /\ h'[r].handle = h[r].handle
                                         /\ h'[r].caller = h[r].caller
    PROVE  OwnersInv'
BY DEF OwnersInv, HandleIdentifiesCredential

LEMMA OwnersStep == TypeInv /\ OwnersInv /\ [Next]_vars => OwnersInv'
<1> SUFFICES ASSUME TypeInv, OwnersInv, [Next]_vars PROVE OwnersInv'
  OBVIOUS
<1>0. h \in [Handlers -> RequestContext]
  BY DEF TypeInv, ContextsOK
<1>1. CASE UNCHANGED <<h, creds, issued>>
  BY <1>1 DEF OwnersInv, Owns, HandleIdentifiesCredential
<1>2. ASSUME NEW r \in Handlers, h' = [h EXCEPT ![r] = Idle], UNCHANGED <<creds, issued>>
      PROVE  OwnersInv'
  <2>1. h'[r].op = "none" /\ \A q \in Handlers \ {r} : h'[q] = h[q]
    BY <1>0, <1>2 DEF Idle
  <2>2. \A q \in Handlers : Owns(q)' => h'[q] = h[q]
    BY <2>1 DEF Owns
  <2>3. QED
    BY <1>2, <2>2, OwnersFrame DEF Owns
<1>a. ASSUME NEW r \in Handlers, Authenticate(r) PROVE OwnersInv'
  <2>1. PICK op \in {"credential", "cri"}, basic \in BOOLEAN, c \in IDs \cup {None} :
          h' = [h EXCEPT ![r] =
                  [Idle EXCEPT !.pc = IF op = "cri" THEN "readInfo" ELSE "body",
                               !.op = op, !.basic = basic, !.caller = c]]
    BY <1>a DEF Authenticate
  <2>2. h'[r].op = op /\ h'[r].pc = IF op = "cri" THEN "readInfo" ELSE "body"
    BY <1>0, <2>1 DEF Idle
  <2>3. \A q \in Handlers \ {r} : h'[q] = h[q]
    BY <1>0, <2>1
  <2>4. \A q \in Handlers : Owns(q)' => h'[q] = h[q]
    BY <2>2, <2>3 DEF Owns
  <2>5. UNCHANGED <<creds, issued>>
    BY <1>a DEF Authenticate, db, history
  <2>6. QED
    BY <2>4, <2>5, OwnersFrame DEF Owns
<1>3. ASSUME NEW r \in Handlers, InsertCredential(r) PROVE OwnersInv'
  <2>1. /\ h'[r].op = h[r].op /\ h'[r].handle = h[r].handle /\ h'[r].caller = h[r].caller
        /\ \A q \in Handlers \ {r} : h'[q] = h[q]
        /\ DOMAIN h' = Handlers
    BY <1>0, <1>3 DEF InsertCredential, Go, RequestContext
  <2>2. /\ h[r].handle \notin DOMAIN creds
        /\ DOMAIN creds' = DOMAIN creds \cup {h[r].handle}
        /\ creds'[h[r].handle] = h[r].caller
        /\ \A n \in DOMAIN creds : creds'[n] = creds[n]
        /\ issued' = issued
    BY <1>3 DEF InsertCredential, history
  <2>3. \A q \in Handlers \ {r} : Owns(q)' => Owns(q) /\ h[q].handle \in DOMAIN creds
    BY <2>1 DEF OwnersInv, Owns
  <2>4. \A c \in issued : c.handle \in DOMAIN creds
    BY DEF OwnersInv, HandleIdentifiesCredential
  <2>5. HandleIdentifiesCredential'
    BY <2>2, <2>4 DEF OwnersInv, HandleIdentifiesCredential
  <2>6. \A q \in Handlers : Owns(q)' => /\ h'[q].handle \in DOMAIN creds'
                                        /\ creds'[h'[q].handle] = h'[q].caller
    BY <2>1, <2>2, <2>3 DEF OwnersInv
  <2>7. \A p, q \in Handlers : Owns(p)' /\ Owns(q)' /\ h'[p].handle = h'[q].handle => p = q
    BY <2>1, <2>2, <2>3 DEF OwnersInv
  <2>8. \A q \in Handlers, c \in issued' : Owns(q)' => c.handle # h'[q].handle
    BY <2>1, <2>2, <2>3, <2>4 DEF OwnersInv
  <2>9. QED
    BY <2>5, <2>6, <2>7, <2>8 DEF OwnersInv
<1>4. ASSUME NEW r \in Handlers, Respond(r) PROVE OwnersInv'
  <2>1. CASE h[r].op # "credential"
    <3>1. h' = [h EXCEPT ![r] = Idle] /\ UNCHANGED <<creds, issued>>
      BY <1>4, <2>1 DEF Respond, db
    <3>2. QED
      BY <3>1, <1>2
  <2>2. CASE h[r].op = "credential"
    <3> DEFINE new == [owner |-> h[r].caller, handle |-> h[r].handle,
                       nonce |-> h[r].nonce, cri |-> h[r].cri]
    <3>1. issued' = issued \cup {new} /\ creds' = creds /\ Owns(r)
      BY <1>4, <2>2 DEF Respond, db, Owns
    <3>2. new.owner = h[r].caller /\ new.handle = h[r].handle
      OBVIOUS
    <3> HIDE DEF new
    <3>3. \A q \in Handlers : Owns(q)' => q # r /\ Owns(q) /\ h'[q] = h[q]
      BY <1>0, <1>4 DEF Respond, Owns, Idle
    <3>4. HandleIdentifiesCredential'
      BY <3>1, <3>2 DEF OwnersInv, HandleIdentifiesCredential
    <3>5. \A q \in Handlers, c \in issued' : Owns(q)' => c.handle # h'[q].handle
      BY <3>1, <3>2, <3>3 DEF OwnersInv
    <3>6. QED
      BY <3>1, <3>3, <3>4, <3>5 DEF OwnersInv
  <2>3. QED
    BY <2>1, <2>2
<1>5. CASE Restart
  <2>1. \A q \in Handlers : ~Owns(q)'
    BY <1>5 DEF Restart, Owns, Idle
  <2>2. UNCHANGED <<creds, issued>>
    BY <1>5 DEF Restart, db, history
  <2>3. QED
    BY <2>1, <2>2, OwnersFrame
<1>6. ASSUME NEW r \in Handlers,
             \/ GetCaller(r) \/ CheckNonce(r) \/ SelectNonce(r) \/ RemoveNonce(r)
             \/ NonceAccepted(r) \/ GetNewRevocationHandle(r) \/ SelectRAInfo(r)
             \/ UpdateNextHandle(r)
      PROVE  OwnersInv'
  <2>1. UNCHANGED <<creds, issued>>
    BY <1>6 DEF GetCaller, CheckNonce, SelectNonce, RemoveNonce, NonceAccepted,
                GetNewRevocationHandle, SelectRAInfo, UpdateNextHandle, db, history
  <2>2. \A q \in Handlers : Owns(q)' => h'[q] = h[q]
    <3>1. \A q \in Handlers \ {r} : h'[q] = h[q]
      BY <1>0, <1>6 DEF GetCaller, CheckNonce, SelectNonce, RemoveNonce, NonceAccepted,
                GetNewRevocationHandle, SelectRAInfo, UpdateNextHandle, Go
    <3>2. h'[r].pc \in {"nonce", "check", "removeNonce", "handle", "store", "updateHandle", "idle"}
      <4>1. CASE GetCaller(r)
        <5>1. PICK n \in Nonces : h' = [h EXCEPT ![r] = [@ EXCEPT !.pc = "nonce", !.nonce = n]]
          BY <4>1 DEF GetCaller
        <5>2. QED
          BY <1>0, <5>1 DEF RequestContext
      <4>2. CASE CheckNonce(r)
        BY <1>0, <4>2 DEF CheckNonce, RequestContext
      <4>3. CASE SelectNonce(r)
        BY <1>0, <4>3 DEF SelectNonce, RequestContext
      <4>4. CASE RemoveNonce(r)
        BY <1>0, <4>4 DEF RemoveNonce, Go, Idle, RequestContext
      <4>5. CASE NonceAccepted(r)
        BY <1>0, <4>5 DEF NonceAccepted, Go, RequestContext
      <4>6. CASE GetNewRevocationHandle(r)
        BY <1>0, <4>6 DEF GetNewRevocationHandle, RequestContext
      <4>7. CASE SelectRAInfo(r)
        BY <1>0, <4>7 DEF SelectRAInfo, RequestContext
      <4>8. CASE UpdateNextHandle(r)
        BY <1>0, <4>8 DEF UpdateNextHandle, RequestContext
      <4>9. QED
        BY <1>6, <4>1, <4>2, <4>3, <4>4, <4>5, <4>6, <4>7, <4>8
    <3>3. QED
      BY <3>1, <3>2 DEF Owns
  <2>3. QED
    BY <2>1, <2>2, OwnersFrame DEF Owns
<1>7. ASSUME NEW r \in Handlers, ReadRAInfo(r) \/ CreateCRI(r) \/ LoginComplete(r)
      PROVE  OwnersInv'
  <2>1. UNCHANGED <<creds, issued>>
    BY <1>7 DEF ReadRAInfo, CreateCRI, LoginComplete, db, history
  <2>2. \A q \in Handlers \ {r} : h'[q] = h[q]
    BY <1>0, <1>7 DEF ReadRAInfo, CreateCRI, LoginComplete, Go
  <2>3. /\ h'[r].op = h[r].op /\ h'[r].handle = h[r].handle /\ h'[r].caller = h[r].caller
        /\ h[r].pc \in {"readInfo", "cri", "complete"}
    <3>1. CASE ReadRAInfo(r)
      BY <1>0, <3>1 DEF ReadRAInfo, RequestContext
    <3>2. CASE CreateCRI(r)
      <4>1. PICK pc, c : h' = [h EXCEPT ![r] = [@ EXCEPT !.pc = pc, !.cri = c]]
        <5> DEFINE pc == IF h[r].op = "credential" /\ h[r].basic THEN "complete" ELSE "reply"
        <5>1. pc \in PCs
          BY DEF PCs
        <5>2. QED
          BY <3>2, <5>1 DEF CreateCRI
      <4>2. h[r].pc = "cri"
        BY <3>2 DEF CreateCRI
      <4>3. QED
        BY <1>0, <4>1, <4>2 DEF RequestContext
    <3>3. CASE LoginComplete(r)
      BY <1>0, <3>3 DEF LoginComplete, Go, RequestContext
    <3>4. QED
      BY <1>7, <3>1, <3>2, <3>3
  <2>4. QED
    BY <2>1, <2>2, <2>3, OwnersFrame DEF Owns
<1>8. ASSUME NEW r \in Handlers, GetNonce(r) \/ Abort(r) PROVE OwnersInv'
  <2>1. h' = [h EXCEPT ![r] = Idle] /\ UNCHANGED <<creds, issued>>
    BY <1>8 DEF GetNonce, Abort, db, history
  <2>2. QED
    BY <2>1, <1>2
<1>9. CASE (\E n \in Nonces : NonceExpires(n)) \/ SweeperTick \/ Sweep \/ UNCHANGED vars
  <2>1. UNCHANGED <<h, creds, issued>>
    BY <1>9 DEF NonceExpires, SweeperTick, Sweep, vars, db, history
  <2>2. QED
    BY <2>1, <1>1
<1>10. QED
  BY <1>a, <1>3, <1>4, <1>5, <1>6, <1>7, <1>8, <1>9 DEF Next

(* However transactions interleave, and although handles are handed out    *)
(* twice, every credential in circulation is recorded under a handle of    *)
(* its own: the primary key of InsertCredential, before the response.      *)
THEOREM HandleIdentifies == Spec => []HandleIdentifiesCredential
<1>1. Init => TypeInv /\ OwnersInv
  <2>1. Init => OwnersInv
    BY DEF Init, OwnersInv, Owns, Idle, HandleIdentifiesCredential
  <2>2. QED
    BY <2>1, TypeInvInit
<1>2. TypeInv /\ OwnersInv /\ [Next]_vars => (TypeInv /\ OwnersInv)'
  BY TypeInvStep, OwnersStep
<1>3. OwnersInv => HandleIdentifiesCredential
  BY DEF OwnersInv
<1>4. QED
  BY <1>1, <1>2, <1>3, PTL DEF Spec

-----------------------------------------------------------------------------
(* With one database connection no request is ever between the two         *)
(* statements of a transaction.                                            *)
Sequential == \A r \in Handlers : h[r].pc \notin {"removeNonce", "updateHandle"}

(* A step that accepts no nonce, hands out no handle and completes no      *)
(* login.  Only a removal takes a nonce out of the table, for good.        *)
Quiet ==
    /\ UNCHANGED <<ra, state, accepted, handed>>
    /\ \A n \in Nonces : nonces[n] = "removed" => nonces'[n] = "removed"
    /\ \A q \in Handlers : h'[q].pc \in {"check", "removeNonce", "updateHandle"} => h'[q] = h[q]

LEMMA QuietReturn ==
    ASSUME h \in [Handlers -> RequestContext], NEW r \in Handlers, NEW c,
           c.pc \notin {"check", "removeNonce", "updateHandle"},
           h' = [h EXCEPT ![r] = c], UNCHANGED <<ra, state, nonces, accepted, handed>>
    PROVE  Quiet
BY DEF Quiet

(* The steps that are not quiet.                                           *)
LEMMA SequentialSteps ==
    ASSUME Atomic, TypeInv, Sequential, [Next]_vars
    PROVE  \/ Quiet
           \/ \E r \in Handlers : \/ CheckNonce(r) \/ NonceAccepted(r)
                                  \/ GetNewRevocationHandle(r) \/ LoginComplete(r)
<1>0. /\ h \in [Handlers -> RequestContext]
      /\ nonces \in [Nonces -> {"new", "live", "expired", "removed"}]
  BY DEF TypeInv, ContextsOK, TablesOK
<1>1. CASE UNCHANGED vars
  BY <1>1 DEF vars, db, history, Quiet
<1>2. ASSUME NEW r \in Handlers, Authenticate(r) PROVE Quiet
  <2> PICK basic \in BOOLEAN, op \in {"credential", "cri"}, c \in IDs \cup {None} :
        h' = [h EXCEPT ![r] =
                   [Idle EXCEPT !.pc = IF op = "cri" THEN "readInfo" ELSE "body",
                                !.op = op, !.basic = basic, !.caller = c]]
    BY <1>2 DEF Authenticate
  <2> DEFINE c1 == [Idle EXCEPT !.pc = IF op = "cri" THEN "readInfo" ELSE "body",
                                !.op = op, !.basic = basic, !.caller = c]
  <2>1. c1.pc \in {"readInfo", "body"}
    BY DEF Idle
  <2>2. UNCHANGED <<ra, state, nonces, accepted, handed>>
    BY <1>2 DEF Authenticate, db, history
  <2>3. h' = [h EXCEPT ![r] = c1]
    OBVIOUS
  <2> HIDE DEF c1
  <2>4. QED
    BY <1>0, <2>1, <2>2, <2>3, QuietReturn
<1>3. ASSUME NEW r \in Handlers, GetNonce(r) PROVE Quiet
  <2>1. PICK n \in Nonces : nonces[n] = "new" /\ nonces' = [nonces EXCEPT ![n] = "live"]
    BY <1>3 DEF GetNonce
  <2>2. h'[r].pc = "idle" /\ \A q \in Handlers \ {r} : h'[q] = h[q]
    BY <1>0, <1>3 DEF GetNonce, Idle
  <2>3. \A m \in Nonces : nonces[m] = "removed" => nonces'[m] = "removed"
    BY <1>0, <2>1
  <2>4. QED
    BY <1>3, <2>2, <2>3 DEF GetNonce, history, Quiet
<1>4. ASSUME NEW r \in Handlers, GetCaller(r) PROVE Quiet
  <2>1. PICK n \in Nonces : h' = [h EXCEPT ![r] = [h[r] EXCEPT !.pc = "nonce", !.nonce = n]]
    BY <1>4 DEF GetCaller
  <2>2. [h[r] EXCEPT !.pc = "nonce", !.nonce = n].pc = "nonce"
    BY <1>0 DEF RequestContext
  <2>3. QED
    BY <1>0, <1>4, <2>1, <2>2, QuietReturn DEF GetCaller, db, history
<1>5. ASSUME NEW r \in Handlers, InsertCredential(r) PROVE Quiet
  <2>1. [h[r] EXCEPT !.pc = "readInfo"].pc = "readInfo"
    BY <1>0 DEF RequestContext
  <2>2. QED
    BY <1>0, <1>5, <2>1, QuietReturn DEF InsertCredential, Go, history
<1>6. ASSUME NEW r \in Handlers, ReadRAInfo(r) PROVE Quiet
  <2>1. [h[r] EXCEPT !.pc = "cri", !.info = ra].pc = "cri"
    BY <1>0 DEF RequestContext
  <2>2. QED
    BY <1>0, <1>6, <2>1, QuietReturn DEF ReadRAInfo, db, history
<1>7. ASSUME NEW r \in Handlers, CreateCRI(r) PROVE Quiet
  <2> DEFINE p == IF h[r].op = "credential" /\ h[r].basic THEN "complete" ELSE "reply"
  <2>1. PICK c : h' = [h EXCEPT ![r] = [h[r] EXCEPT !.pc = p, !.cri = c]]
    BY <1>7 DEF CreateCRI
  <2>2. [h[r] EXCEPT !.pc = p, !.cri = c].pc = p /\ p \in {"complete", "reply"}
    BY <1>0 DEF RequestContext
  <2>3. UNCHANGED <<ra, state, nonces, accepted, handed>>
    BY <1>7 DEF CreateCRI, db, history
  <2> HIDE DEF p
  <2>4. QED
    BY <1>0, <2>1, <2>2, <2>3, QuietReturn
<1>8. ASSUME NEW r \in Handlers, Respond(r) \/ Abort(r) PROVE Quiet
  <2>1. h' = [h EXCEPT ![r] = Idle] /\ UNCHANGED <<ra, state, nonces, accepted, handed>>
    BY <1>8 DEF Respond, Abort, db, history
  <2>2. QED
    BY <1>0, <2>1, QuietReturn DEF Idle
<1>9. ASSUME NEW n \in Nonces, NonceExpires(n) PROVE Quiet
  BY <1>0, <1>9 DEF NonceExpires, history, Quiet
<1>10. CASE SweeperTick \/ Sweep
  BY <1>10 DEF SweeperTick, Sweep, db, history, Quiet
<1>11. CASE Restart
  <2>1. \A q \in Handlers : h'[q].pc = "idle"
    BY <1>11 DEF Restart, Idle
  <2>2. QED
    BY <1>11, <2>1 DEF Restart, db, history, Quiet
<1>12. \A r \in Handlers :
         ~(SelectNonce(r) \/ RemoveNonce(r) \/ SelectRAInfo(r) \/ UpdateNextHandle(r))
  BY DEF Sequential, SelectNonce, RemoveNonce, SelectRAInfo, UpdateNextHandle
<1>13. QED
  BY <1>1, <1>2, <1>3, <1>4, <1>5, <1>6, <1>7, <1>8, <1>9, <1>10, <1>11, <1>12 DEF Next

-----------------------------------------------------------------------------
(* A nonce that a request has read is removed, and while it waits to be    *)
(* accepted it belongs to one request and has not been accepted before.    *)
Pending(r) == h[r].pc = "check" /\ h[r].live

NonceInv ==
    /\ Sequential
    /\ \A r \in Handlers : h[r].pc = "check" => nonces[h[r].nonce] = "removed"
    /\ \A r \in Handlers : Pending(r) => accepted[h[r].nonce] = 0
    /\ \A r, q \in Handlers : Pending(r) /\ Pending(q) /\ h[r].nonce = h[q].nonce => r = q
    /\ \A n \in Nonces : \/ accepted[n] = 0
                         \/ accepted[n] = 1 /\ nonces[n] = "removed"

LEMMA NonceStep ==
    ASSUME Atomic, TypeInv, NonceInv, [Next]_vars
    PROVE  NonceInv'
<1>0. /\ h \in [Handlers -> RequestContext] /\ accepted \in [Nonces -> Nat]
      /\ nonces \in [Nonces -> {"new", "live", "expired", "removed"}]
      /\ \A q \in Handlers : h[q].pc \in {"nonce", "check"} => h[q].nonce \in Nonces
  BY DEF TypeInv, ContextsOK, TablesOK, ContextOK
<1>1. CASE Quiet
  <2>1. \A q \in Handlers : h'[q].pc \in {"check", "removeNonce", "updateHandle"} => h'[q] = h[q]
    BY <1>1 DEF Quiet
  <2>2. \A q \in Handlers : Pending(q)' => Pending(q) /\ h'[q] = h[q]
    BY <2>1 DEF Pending
  <2>3. Sequential'
    BY <2>1 DEF NonceInv, Sequential
  <2>4. QED
    BY <1>0, <1>1, <2>1, <2>2, <2>3 DEF NonceInv, Quiet
<1>2. ASSUME NEW r \in Handlers, CheckNonce(r) PROVE NonceInv'
  <2>1. /\ h[r].nonce \in Nonces /\ nonces[h[r].nonce] # "removed"
        /\ nonces' = [nonces EXCEPT ![h[r].nonce] = "removed"] /\ accepted' = accepted
    BY <1>0, <1>2 DEF CheckNonce, history
  <2>2. h'[r].pc = "check" /\ h'[r].nonce = h[r].nonce /\ \A q \in Handlers \ {r} : h'[q] = h[q]
    BY <1>0, <1>2 DEF CheckNonce, RequestContext
  <2>3. Sequential'
    BY <2>2 DEF NonceInv, Sequential
  <2>4. \A q \in Handlers : h'[q].pc = "check" => nonces'[h'[q].nonce] = "removed"
    BY <1>0, <2>1, <2>2 DEF NonceInv
  <2>5. \A q \in Handlers \ {r} : Pending(q)' => Pending(q) /\ h[q].nonce # h[r].nonce
    BY <2>1, <2>2 DEF NonceInv, Pending
  <2>6. \A q \in Handlers : Pending(q)' => accepted'[h'[q].nonce] = 0
    BY <2>1, <2>2, <2>5 DEF NonceInv
  <2>7. \A p, q \in Handlers : Pending(p)' /\ Pending(q)' /\ h'[p].nonce = h'[q].nonce => p = q
    BY <2>2, <2>5 DEF NonceInv
  <2>8. \A n \in Nonces : accepted'[n] = 0 \/ (accepted'[n] = 1 /\ nonces'[n] = "removed")
    <3>1. \A n \in Nonces : nonces[n] = "removed" => nonces'[n] = "removed"
      BY <1>0, <2>1
    <3>2. \A n \in Nonces : accepted[n] = 0 \/ (accepted[n] = 1 /\ nonces[n] = "removed")
      BY DEF NonceInv
    <3>3. QED
      BY <2>1, <3>1, <3>2
  <2>9. QED
    BY <2>3, <2>4, <2>6, <2>7, <2>8 DEF NonceInv
<1>3. ASSUME NEW r \in Handlers, NonceAccepted(r) PROVE NonceInv'
  <2>1. /\ h[r].nonce \in Nonces /\ Pending(r) /\ nonces' = nonces
        /\ accepted' = [accepted EXCEPT ![h[r].nonce] = accepted[h[r].nonce] + 1]
    BY <1>0, <1>3 DEF NonceAccepted, Pending, db
  <2>2. accepted[h[r].nonce] = 0 /\ nonces[h[r].nonce] = "removed"
    BY <2>1 DEF NonceInv, Pending
  <2>3. h'[r].pc = "handle" /\ \A q \in Handlers \ {r} : h'[q] = h[q]
    BY <1>0, <1>3 DEF NonceAccepted, Go, RequestContext
  <2>4. Sequential'
    BY <2>3 DEF NonceInv, Sequential
  <2>5. \A q \in Handlers : h'[q].pc = "check" => q # r /\ h'[q] = h[q]
    BY <2>3
  <2>6. \A q \in Handlers : Pending(q)' => Pending(q) /\ h'[q] = h[q] /\ h[q].nonce # h[r].nonce
    BY <2>1, <2>5 DEF NonceInv, Pending
  <2>7. \A n \in Nonces : n # h[r].nonce => accepted'[n] = accepted[n]
    BY <1>0, <2>1
  <2>8. accepted'[h[r].nonce] = 1
    BY <1>0, <2>1, <2>2
  <2>9. \A q \in Handlers : Pending(q)' => accepted'[h'[q].nonce] = 0
    BY <1>0, <2>6, <2>7 DEF NonceInv, Pending
  <2>10. QED
    BY <2>1, <2>2, <2>4, <2>5, <2>6, <2>7, <2>8, <2>9 DEF NonceInv
<1>4. ASSUME NEW r \in Handlers, GetNewRevocationHandle(r) \/ LoginComplete(r) PROVE NonceInv'
  <2>1. /\ h'[r].pc \in {"store", "reply"} /\ \A q \in Handlers \ {r} : h'[q] = h[q]
        /\ UNCHANGED <<nonces, accepted>>
    <3>1. CASE GetNewRevocationHandle(r)
      BY <1>0, <3>1 DEF GetNewRevocationHandle, RequestContext
    <3>2. CASE LoginComplete(r)
      BY <1>0, <3>2 DEF LoginComplete, Go, history, RequestContext
    <3>3. QED
      BY <1>4, <3>1, <3>2
  <2>2. \A q \in Handlers : h'[q].pc \in {"check", "removeNonce", "updateHandle"} => h'[q] = h[q]
    BY <2>1
  <2>3. \A q \in Handlers : Pending(q)' => Pending(q) /\ h'[q] = h[q]
    BY <2>2 DEF Pending
  <2>4. Sequential'
    BY <2>2 DEF NonceInv, Sequential
  <2>5. QED
    BY <2>1, <2>2, <2>3, <2>4 DEF NonceInv
<1>5. QED
  BY <1>1, <1>2, <1>3, <1>4, SequentialSteps DEF NonceInv

LEMMA NonceInit == Init => NonceInv
<1> SUFFICES ASSUME Init PROVE NonceInv
  OBVIOUS
<1>1. \A r \in Handlers : h[r].pc = "idle"
  BY DEF Init, Idle
<1>2. QED
  BY <1>1 DEF Init, NonceInv, Sequential, Pending

(* With one database connection, however many requests present a nonce,    *)
(* CheckNonce accepts it for one of them.                                  *)
THEOREM NonceServesOnce ==
    ASSUME Atomic
    PROVE  Spec => []NonceUsedOnce
<1>1. Init => TypeInv /\ NonceInv
  BY TypeInvInit, NonceInit
<1>2. TypeInv /\ NonceInv /\ [Next]_vars => (TypeInv /\ NonceInv)'
  BY TypeInvStep, NonceStep
<1>3. NonceInv => NonceUsedOnce
  BY DEF NonceInv, NonceUsedOnce
<1>4. QED
  BY <1>1, <1>2, <1>3, PTL DEF Spec

-----------------------------------------------------------------------------
(* The handles below the next one were handed out once; the next one was   *)
(* not, unless it is the last of the pool.                                 *)
HandleInv ==
    /\ Sequential
    /\ \A n \in DOMAIN handed : n \in 1 .. RHPoolSize /\ n <= ra.next
    /\ \A n \in DOMAIN handed : n # RHPoolSize => handed[n] <= 1
    /\ ra.next \in DOMAIN handed => ra.next = RHPoolSize

(* What HandOut does to the history.                                       *)
LEMMA HandOutEffect ==
    ASSUME handed \in [DOMAIN handed -> Nat], NEW n, HandOut(n)
    PROVE  /\ DOMAIN handed' = DOMAIN handed \cup {n}
           /\ \A m \in DOMAIN handed : m # n => handed'[m] = handed[m]
           /\ n \notin DOMAIN handed => handed'[n] = 1
<1>1. DOMAIN handed' = DOMAIN handed \cup {n}
  BY DEF HandOut
<1>2. ASSUME NEW m \in DOMAIN handed, m # n PROVE handed'[m] = handed[m]
  <2>1. handed'[m] = handed[m] + 0
    BY <1>2 DEF HandOut
  <2>2. handed[m] \in Nat
    OBVIOUS
  <2>3. QED
    BY <2>1, <2>2
<1>3. ASSUME n \notin DOMAIN handed PROVE handed'[n] = 1
  <2>1. handed'[n] = 0 + 1
    BY <1>3 DEF HandOut
  <2>2. QED
    BY <2>1
<1>4. QED
  BY <1>1, <1>2, <1>3

LEMMA HandleStep ==
    ASSUME Atomic, TypeInv, HandleInv, [Next]_vars
    PROVE  HandleInv'
<1>0. /\ h \in [Handlers -> RequestContext] /\ handed \in [DOMAIN handed -> Nat]
      /\ RHPoolSize \in Nat \ {0} /\ ra \in PoolInfo
  BY ConstantTypes DEF TypeInv, ContextsOK, TablesOK
<1>1. CASE Quiet
  <2>1. Sequential'
    BY <1>1 DEF Quiet, HandleInv, Sequential
  <2>2. QED
    BY <1>1, <2>1 DEF Quiet, HandleInv
<1>2. ASSUME NEW r \in Handlers, CheckNonce(r) \/ NonceAccepted(r) \/ LoginComplete(r)
      PROVE  HandleInv'
  <2>1. /\ h'[r].pc \in {"check", "handle", "reply"} /\ \A q \in Handlers \ {r} : h'[q] = h[q]
        /\ UNCHANGED <<ra, handed>>
    <3>1. CASE CheckNonce(r)
      BY <1>0, <3>1 DEF CheckNonce, RequestContext, history
    <3>2. CASE NonceAccepted(r)
      BY <1>0, <3>2 DEF NonceAccepted, Go, db, RequestContext
    <3>3. CASE LoginComplete(r)
      BY <1>0, <3>3 DEF LoginComplete, Go, history, RequestContext
    <3>4. QED
      BY <1>2, <3>1, <3>2, <3>3
  <2>2. Sequential'
    BY <2>1 DEF HandleInv, Sequential
  <2>3. QED
    BY <2>1, <2>2 DEF HandleInv
<1>3. ASSUME NEW r \in Handlers, GetNewRevocationHandle(r) PROVE HandleInv'
  <2>1. h'[r].pc = "store" /\ \A q \in Handlers \ {r} : h'[q] = h[q]
    BY <1>0, <1>3 DEF GetNewRevocationHandle, RequestContext
  <2>2. Sequential'
    BY <2>1 DEF HandleInv, Sequential
  <2>3. PICK n : n = ra.next
    OBVIOUS
  <2>4. /\ n \in 1 .. RHPoolSize /\ n \in Nat
        /\ ra'.next = IF n = RHPoolSize THEN n ELSE n + 1
    <3>1. n \in 1 .. RHPoolSize /\ n \in Nat /\ ra.last = RHPoolSize /\ ra.epoch = 1
      BY <1>0, <2>3 DEF PoolInfo
    <3>2. ra' = IF n = RHPoolSize THEN ra ELSE [ra EXCEPT !.next = n + 1]
      BY <1>3, <2>3, <3>1 DEF GetNewRevocationHandle, HandleUpdated
    <3>3. QED
      BY <1>0, <2>3, <3>1, <3>2 DEF PoolInfo, RAInfo
  <2>5. /\ DOMAIN handed' = DOMAIN handed \cup {n}
        /\ \A m \in DOMAIN handed : m # n => handed'[m] = handed[m]
        /\ n \notin DOMAIN handed => handed'[n] = 1
    <3>1. HandOut(n)
      BY <1>3, <2>3 DEF GetNewRevocationHandle
    <3>2. QED
      BY <1>0, <3>1, HandOutEffect
  <2>6. n # RHPoolSize => n \notin DOMAIN handed
    BY <2>3 DEF HandleInv
  <2>7. ASSUME NEW m \in DOMAIN handed'
        PROVE  /\ m \in 1 .. RHPoolSize /\ m <= ra'.next
               /\ m # RHPoolSize => handed'[m] <= 1
    <3>1. m \in 1 .. RHPoolSize /\ m <= n
      BY <2>3, <2>4, <2>5 DEF HandleInv
    <3>2. m <= ra'.next
      BY <1>0, <2>4, <3>1
    <3>3. CASE m # n
      BY <2>5, <3>1, <3>2, <3>3 DEF HandleInv
    <3>4. CASE m = n
      BY <2>5, <2>6, <3>1, <3>2, <3>4
    <3>5. QED
      BY <3>3, <3>4
  <2>8. ASSUME ra'.next \in DOMAIN handed' PROVE ra'.next = RHPoolSize
    <3>1. CASE n = RHPoolSize
      BY <2>4, <3>1
    <3>2. CASE n # RHPoolSize
      <4>1. n + 1 \in DOMAIN handed /\ ra'.next = n + 1
        BY <2>4, <2>5, <2>8, <3>2
      <4>2. n + 1 <= n
        BY <2>3, <4>1 DEF HandleInv
      <4>3. QED
        BY <2>4, <4>2
    <3>3. QED
      BY <3>1, <3>2
  <2>9. QED
    BY <2>2, <2>7, <2>8 DEF HandleInv
<1>4. QED
  BY <1>1, <1>2, <1>3, SequentialSteps DEF HandleInv

(* With one database connection a revocation handle is handed out twice    *)
(* only when the pool is exhausted, whatever its size.                     *)
THEOREM HandlesAreFresh ==
    ASSUME Atomic
    PROVE  Spec => []HandlesRepeatOnlyAtPoolEnd
<1>1. Init => TypeInv /\ HandleInv
  <2>1. Init => Sequential
    BY DEF Init, Idle, Sequential
  <2>2. Init => HandleInv
    BY <2>1 DEF Init, HandleInv
  <2>3. QED
    BY <2>2, TypeInvInit
<1>2. TypeInv /\ HandleInv /\ [Next]_vars => (TypeInv /\ HandleInv)'
  BY TypeInvStep, HandleStep
<1>3. TypeInv /\ HandleInv => HandlesRepeatOnlyAtPoolEnd
  <2> SUFFICES ASSUME TypeInv, HandleInv, NEW n \in DOMAIN handed, handed[n] > 1
               PROVE  n = ra.last
    BY DEF HandlesRepeatOnlyAtPoolEnd
  <2>1. ra.last = RHPoolSize /\ handed[n] \in Nat
    BY DEF TypeInv, TablesOK, PoolInfo
  <2>2. QED
    BY <2>1 DEF HandleInv
<1>4. QED
  BY <1>1, <1>2, <1>3, PTL DEF Spec
=============================================================================
