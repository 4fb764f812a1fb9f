--------------------------- MODULE CAStartupProofs ---------------------------
(***************************************************************************)
(* Proofs about CAStartup, for any number of servers, requests, identities *)
(* and failures: what a request meets when it is served, which connection  *)
(* it uses, what a repeated migration grants, and which keys belong        *)
(* together.                                                               *)
(*                                                                         *)
(* The inductive invariant has five layers, each proved from those before. *)
(*   Types     with one lemma for each action: the step keeps the types,   *)
(*             how its thread moves and what else changes.                 *)
(*   Control   where a thread is tells which mutex it holds, whether the   *)
(*             database of its CA is initialized and which objects hold    *)
(*             the connection of ca.db.                                    *)
(*   Keys      the files that a thread is writing and has written.         *)
(*   Content   what initDB has done so far is still there, although the    *)
(*             servers of a cluster work on the database at the same time. *)
(*   Grants    an attribute that was taken away is not on the list of a    *)
(*             migration.                                                  *)
(***************************************************************************)
EXTENDS CAStartup, FiniteSetTheorems, SequenceTheorems, WellFoundedInduction, TLAPS

BootstrapIDs == {Bootstrap[i] : i \in DOMAIN Bootstrap}
AffiliationsOfConfig == {Affiliations[i] : i \in DOMAIN Affiliations}
-----------------------------------------------------------------------------
(* What the steps of a thread find in its own variables.                   *)

Writes == {"writeChain", "writeCert", "storeIpk", "storeIsk", "storeRpriv", "storeRpub"}

LocalsOK(x) ==
    /\ x.pc = "createTables" => x.todo \in Seq(AllTables) \ {<<>>}
    /\ x.pc \in {"lookup", "insert"} => x.todo \in Seq(BootstrapIDs) \ {<<>>}
    /\ x.pc = "affs" => x.todo \in Seq(AffiliationsOfConfig) \ {<<>>}
    /\ x.pc = "levels" => x.todo \in Seq(LevelRows) \ {<<>>}
    /\ x.pc \in {"addAttr", "setLevel"} => x.snap # <<>>
    /\ x.pc \in Writes => x.key \in Keys

TypeInv == TypeOK /\ \A t \in Threads : LocalsOK(th[t])

HasLevels == \A n \in LevelRows : db.props[n] # NoLevel
-----------------------------------------------------------------------------
(* Constants, versions and sequences.                                      *)

LEMMA MinNat == ASSUME NEW S \in SUBSET Nat, S # {}
                PROVE  \E m \in S : \A n \in S : m <= n
<1>1. PICK m \in S : \A n \in S : ~(<<n, m>> \in OpToRel(<, Nat))
  BY NatLessThanWellFounded, WFMin
<1>2. \A n \in S : ~(n < m)
  BY <1>1 DEF OpToRel
<1>3. QED
  BY <1>2

LEMMA Rows ==
    /\ LevelRows = {"identity", "affiliation", "certificate", "credential", "rcinfo", "nonce"}
    /\ LevelNames \in Seq(LevelRows) \ {<<>>}
    /\ \A n \in LevelRows : \E i \in DOMAIN LevelNames : LevelNames[i] = n
  BY DEF LevelRows, LevelNames

LEMMA Tables ==
    /\ DataTables \in Seq(AllTables) \ {<<>>}
    /\ \A n \in AllTables : \E i \in DOMAIN DataTables : DataTables[i] = n
  BY DEF AllTables, DataTables

LEMMA CmpZero == ASSUME NEW v \in Seq(Nat) PROVE CmpVersion(<<0>>, v) >= 0
<1> DEFINE part(w, i) == IF i > Len(w) THEN 0 ELSE w[i]
           differ == {i \in 1..Len(<<0>>) + Len(v) : part(<<0>>, i) # part(v, i)}
           first == CHOOSE i \in differ : \A j \in differ : i <= j
<1>1. CASE differ = {}
  BY <1>1 DEF CmpVersion
<1>2. CASE differ # {}
  <2>1. differ \in SUBSET Nat
    OBVIOUS
  <2>2. first \in differ
    BY <1>2, <2>1, MinNat
  <2>3. part(<<0>>, first) < part(v, first)
    <3>1. first \in 1..1 + Len(v) /\ part(<<0>>, first) # part(v, first)
      BY <2>2
    <3> HIDE DEF first, differ
    <3>2. QED
      BY <3>1
  <2>4. QED
    BY <1>2, <2>3 DEF CmpVersion
<1>3. QED
  BY <1>1, <1>2

LEMMA LevelsType == ASSUME NEW v \in Seq(Nat) PROVE GetLevels(v) \in [LevelRows -> {0, 1}]
<1> DEFINE known == {i \in DOMAIN VersionToLevels :
                        CmpVersion(VersionToLevels[i].version, v) >= 0}
           last == CHOOSE i \in known : \A j \in known : j <= i
<1>1. DOMAIN VersionToLevels = 1..3 /\ VersionToLevels[1].version = <<0>>
  BY DEF VersionToLevels
<1>2. 1 \in known
  BY <1>1, CmpZero
<1>3. known \subseteq 1..3
  BY <1>1
<1>4. \E i \in known : \A j \in known : j <= i
  <2> HIDE DEF known
  <2>1. QED
    BY <1>2, <1>3
<1>5. last \in 1..3
  <2> HIDE DEF known
  <2>1. QED
    BY <1>3, <1>4
<1>6. \A i \in 1..3 : VersionToLevels[i].levels \in [LevelRows -> {0, 1}]
  BY DEF VersionToLevels
<1>7. QED
  BY <1>5, <1>6 DEF GetLevels

LEMMA ServerLevelsType == ServerLevels \in [LevelRows -> {0, 1}]
<1>1. ServerVersion \in Seq(Nat)
  BY DEF ServerVersion
<1>2. QED
  BY <1>1, LevelsType DEF ServerLevels

LEMMA TailSeq == ASSUME NEW S, NEW q \in Seq(S), q # <<>>
                 PROVE  /\ Head(q) \in S /\ Head(q) = q[1] /\ Len(q) \in Nat \ {0}
                        /\ Len(q) > 1 => Tail(q) \in Seq(S) \ {<<>>}
                        /\ Tail(q) \in Seq(S) /\ Len(Tail(q)) = Len(q) - 1
                        /\ \A j \in 2..Len(q) : Tail(q)[j - 1] = q[j]
<1>1. Len(q) \in Nat \ {0} /\ Head(q) \in S /\ Head(q) = q[1]
  OBVIOUS
<1>2. Len(Tail(q)) = Len(q) - 1
  OBVIOUS
<1>t. Tail(q) \in Seq(S)
  OBVIOUS
<1>3. \A j \in 2..Len(q) : Tail(q)[j - 1] = q[j]
  OBVIOUS
<1>4. Len(q) > 1 => Tail(q) # <<>>
  <2> DEFINE r == Tail(q)
  <2>1. Len(<<>>) = 0
    BY EmptySeq
  <2>2. r = <<>> => Len(r) = 0
    <3> HIDE DEF r
    <3>1. QED
      BY <2>1, Zenon
  <2>3. QED
    BY <1>1, <1>2, <2>2
<1>5. QED
  BY <1>1, <1>2, <1>t, <1>3, <1>4

\* What is left of a loop after its first element.
LEMMA TailLeft == ASSUME NEW S, NEW q \in Seq(S), q # <<>>, NEW j \in DOMAIN q, q[j] # Head(q)
                  PROVE  Len(q) > 1 /\ \E i \in DOMAIN Tail(q) : Tail(q)[i] = q[j]
<1>1. j \in 2..Len(q)
  OBVIOUS
<1>2. Tail(q)[j - 1] = q[j] /\ j - 1 \in DOMAIN Tail(q)
  BY <1>1
<1>3. QED
  BY <1>1, <1>2

LEMMA Constants ==
    /\ BootstrapIDs \subseteq IDs /\ Bootstrap \in Seq(BootstrapIDs) \ {<<>>}
    /\ AffiliationsOfConfig \subseteq AffiliationNames
    /\ Affiliations \in Seq(AffiliationsOfConfig) \ {<<>>}
    /\ AffiliationsOfConfig \subseteq AffiliationNames
    /\ Keys \subseteq Int /\ Absent \notin Keys /\ Empty \notin Keys
  BY StartupConstantsOK DEF BootstrapIDs, AffiliationsOfConfig, AffiliationNames, Keys,
     Absent, Empty

LEMMA ItemSets ==
    /\ AllTables \subseteq Items /\ BootstrapIDs \subseteq Items /\ LevelRows \subseteq Items
    /\ AffiliationsOfConfig \subseteq Items
    /\ <<>> \in Seq(Items) /\ Affiliations \in Seq(Items) /\ Bootstrap \in Seq(Items)
    /\ DataTables \in Seq(Items) /\ LevelNames \in Seq(Items)
<1>1. /\ AllTables \subseteq Items /\ BootstrapIDs \subseteq Items /\ LevelRows \subseteq Items
      /\ AffiliationsOfConfig \subseteq Items
  BY Constants DEF Items
<1>2. <<>> \in Seq(Items)
  OBVIOUS
<1>3. Affiliations \in Seq(Items) /\ Bootstrap \in Seq(Items)
  BY <1>1, Constants
<1>4. DataTables \in Seq(AllTables) /\ LevelNames \in Seq(LevelRows)
  BY Rows, Tables
<1>5. DataTables \in Seq(Items)
  BY <1>1, <1>4
<1>6. LevelNames \in Seq(Items)
  BY <1>1, <1>4
<1>7. QED
  BY <1>1, <1>2, <1>3, <1>5, <1>6

LEMMA NewKeyType == ASSUME NEW s, ~(Keys \subseteq UsedKeys(s)) PROVE NewKey(s) \in Keys
  BY DEF NewKey

LEMMA NewHandleType == ASSUME NEW c \in CAObject PROVE NewHandle(c) \in Handles
<1>1. SUFFICES ASSUME Handles \subseteq InUse(c) PROVE FALSE
  BY DEF NewHandle
<1>2. 1 \in InUse(c) /\ 2 \in InUse(c) /\ 3 \in InUse(c) /\ 4 \in InUse(c) /\ 5 \in InUse(c)
      /\ 6 \in InUse(c)
  BY <1>1 DEF Handles
<1>3. QED
  BY <1>2 DEF InUse

\* Where a thread runs: the servers have their own threads.
LEMMA HostType == ASSUME TypeOK, NEW t \in Threads
                  PROVE  Host(t) \in Servers /\ (t \in Servers => Host(t) = t)
  BY ConfigsOK DEF TypeOK, Host, Threads, Config

-----------------------------------------------------------------------------
(* Types.                                                                  *)

ThreadsTyped == th \in [Threads -> Thread] /\ \A t \in Threads : LocalsOK(th[t])

ControlTyped ==
    /\ proc \in [Servers -> {"down", "starting", "up"}]
    /\ ca \in [Servers -> CAObject]
    /\ lock \in [Servers -> Threads \cup {Free}]
    /\ ilock \in [Servers -> Threads \cup {Free}]
    /\ ThreadsTyped

DataTyped ==
    /\ db \in Database /\ files \in [Servers -> Home] /\ keystore \in [Servers -> SUBSET Keys]
    /\ faults \in 0..MaxFaults /\ removed \subseteq IDs

LEMMA TypeParts == TypeInv <=> (cfg \in Configs /\ ControlTyped /\ DataTyped)
  BY DEF TypeInv, TypeOK, ControlTyped, DataTyped, ThreadsTyped

LEMMA IdleType == Idle \in Thread /\ LocalsOK(Idle) /\ NewCA \in CAObject
<1>1. Idle \in Thread
  BY DEF Idle, Thread, PCs
<1>2. LocalsOK(Idle)
  BY DEF Idle, LocalsOK, Writes
<1>3. NewCA \in CAObject
  BY DEF NewCA, CAObject, None, NoKey
<1>4. QED
  BY <1>1, <1>2, <1>3

LEMMA MoveType ==
    ASSUME ThreadsTyped, NEW t \in Threads, NEW x \in Thread, LocalsOK(x),
           th' = [th EXCEPT ![t] = x]
    PROVE  ThreadsTyped'
  BY DEF ThreadsTyped

\* The places where a thread needs nothing of its loop or its key.
Plain == PCs \ ({"createTables", "lookup", "insert", "affs", "levels", "addAttr", "setLevel"}
                \cup Writes)

LEMMA GotoType ==
    ASSUME ThreadsTyped, NEW t \in Threads, NEW pc \in PCs, Goto(t, pc),
           pc \in Plain \/ LocalsOK([th[t] EXCEPT !.pc = pc])
    PROVE  /\ th' = [th EXCEPT ![t] = [th[t] EXCEPT !.pc = pc]]
           /\ ThreadsTyped'
<1> DEFINE x == [th[t] EXCEPT !.pc = pc]
<1>1. th[t] \in Thread
  BY DEF ThreadsTyped
<1>2. x \in Thread /\ x.pc = pc
  BY <1>1 DEF Thread
<1>3. LocalsOK(x)
  <2>1. CASE pc \in Plain
    BY <1>2, <2>1 DEF LocalsOK, Plain
  <2>2. QED
    BY <2>1
<1>4. th' = [th EXCEPT ![t] = x]
  BY DEF Goto
<1>5. QED
  BY <1>2, <1>3, <1>4, MoveType

LEMMA ResetType ==
    ASSUME ThreadsTyped, NEW t \in Threads, NEW pc \in Plain,
           th' = [th EXCEPT ![t] = [Idle EXCEPT !.pc = pc]]
    PROVE  ThreadsTyped'
<1> DEFINE x == [Idle EXCEPT !.pc = pc]
<1>1. x \in Thread /\ x.pc = pc
  BY IdleType DEF Thread, Plain
<1>2. LocalsOK(x)
  BY <1>1 DEF LocalsOK, Plain
<1>3. QED
  BY <1>1, <1>2, MoveType

LEMMA ExitType ==
    ASSUME cfg \in Configs, ControlTyped, NEW s \in Servers, Exit(s)
    PROVE  ControlTyped'
<1>1. ThreadsTyped'
  BY IdleType DEF ControlTyped, ThreadsTyped, Exit
<1>2. QED
  BY <1>1, IdleType DEF ControlTyped, Exit

LEMMA ReturnType ==
    ASSUME TypeInv, NEW t \in Threads, NEW ok \in BOOLEAN, ReturnDB(t, ok)
    PROVE  /\ ThreadsTyped' /\ lock' \in [Servers -> Threads \cup {Free}]
<1>1. ThreadsTyped
  BY TypeParts DEF ControlTyped
<1>2. (IF t \in Servers THEN "signer" ELSE IF ok THEN "issuer" ELSE "idle") \in Plain
  BY DEF Plain, PCs, MainPCs, Writes
<1>3. ThreadsTyped'
  BY <1>1, <1>2, ResetType DEF ReturnDB
<1>4. QED
  BY <1>3, HostType DEF TypeInv, TypeOK, ReturnDB

\* A loop stays at its place, or goes on at the next one with its own items.
LEMMA LoopType ==
    ASSUME TypeInv, NEW t \in Threads, NEW pc \in PCs, NEW next \in PCs, NEW items,
           NEW S, th[t].todo \in Seq(S) \ {<<>>}, Loop(t, pc, next, items),
           S \subseteq Items,
           items \in Seq(Items)
    PROVE  \E x \in Thread :
               /\ th' = [th EXCEPT ![t] = x]
               /\ x.snap = th[t].snap /\ x.failed = th[t].failed /\ x.key = th[t].key
               /\ \/ x.pc = pc /\ x.todo = Tail(th[t].todo) /\ x.todo \in Seq(S) \ {<<>>}
                     /\ Len(th[t].todo) > 1
                  \/ x.pc = next /\ x.todo = items /\ Len(th[t].todo) = 1
<1> DEFINE q == th[t].todo
           x == [th[t] EXCEPT !.todo = IF Len(q) > 1 THEN Tail(q) ELSE items,
                              !.pc = IF Len(q) > 1 THEN pc ELSE next]
<1>1. th \in [Threads -> Thread]
  BY DEF TypeInv, TypeOK
<1>2. th' = [th EXCEPT ![t] = x]
  BY <1>1 DEF Loop, Thread
<1>3. /\ q \in Seq(S) /\ q # <<>> /\ Len(q) \in Nat \ {0}
      /\ Len(q) > 1 => Tail(q) \in Seq(S) \ {<<>>}
  BY TailSeq
<1>4. Len(q) > 1 => Tail(q) \in Seq(Items)
  BY <1>1, <1>3, TailSeq DEF Thread
<1>5. x \in Thread
  BY <1>1, <1>4 DEF Thread
<1>6. /\ x.snap = th[t].snap /\ x.failed = th[t].failed /\ x.key = th[t].key
      /\ x.todo = IF Len(q) > 1 THEN Tail(q) ELSE items
      /\ x.pc = IF Len(q) > 1 THEN pc ELSE next
  BY <1>1 DEF Thread
<1>7. \/ x.pc = pc /\ x.todo = Tail(q) /\ x.todo \in Seq(S) \ {<<>>} /\ Len(q) > 1
      \/ x.pc = next /\ x.todo = items /\ Len(q) = 1
  <2> HIDE DEF x, q
  <2>1. CASE Len(q) > 1
    <3>1. x.todo = Tail(q) /\ x.pc = pc
      BY <1>6, <2>1
    <3>2. QED
      BY <1>3, <2>1, <3>1
  <2>2. CASE ~(Len(q) > 1)
    <3>1. x.todo = items /\ x.pc = next
      BY <1>6, <2>2
    <3>2. Len(q) = 1
      <4> DEFINE n == Len(q)
      <4>1. n \in Nat \ {0} /\ ~(n > 1)
        BY <1>3, <2>2
      <4> HIDE DEF n
      <4>2. n = 1
        BY <4>1
      <4>3. QED
        BY <4>2 DEF n
    <3>3. QED
      BY <3>1, <3>2
  <2>3. QED
    BY <2>1, <2>2
<1>8. WITNESS x \in Thread
<1>9. QED
  BY <1>2, <1>6, <1>7

\* The step moves thread t, which is x then, and no other thread.
Moves(t, x) == x \in Thread /\ LocalsOK(x) /\ th' = [th EXCEPT ![t] = x]
At(x, pc) == [x EXCEPT !.pc = pc]

LEMMA MovesGoto ==
    ASSUME TypeInv, NEW t \in Threads, NEW pc \in PCs, Goto(t, pc),
           pc \in Plain \/ LocalsOK(At(th[t], pc))
    PROVE  Moves(t, At(th[t], pc)) /\ ThreadsTyped'
<1>1. ThreadsTyped
  BY TypeParts DEF ControlTyped
<1>2. At(th[t], pc) \in Thread /\ At(th[t], pc).pc = pc
  BY <1>1 DEF ThreadsTyped, Thread, At
<1>3. LocalsOK(At(th[t], pc))
  BY <1>2 DEF LocalsOK, Plain
<1>4. QED
  BY <1>1, <1>2, <1>3, GotoType DEF Moves, At

\* Only variables of threads change: all types are kept if theirs are.
LEMMA SameData ==
    ASSUME TypeInv, ControlTyped',
           UNCHANGED <<cfg, db, files, keystore, faults, removed>>
    PROVE  TypeInv'
  BY TypeParts DEF DataTyped, ControlTyped, ThreadsTyped, TypeInv, TypeOK

LEMMA SameControl ==
    ASSUME TypeInv, ThreadsTyped', UNCHANGED <<proc, ca, lock, ilock>>
    PROVE  ControlTyped'
  BY TypeParts DEF ControlTyped

LEMMA TypeInitDB ==
    ASSUME TypeInv, NEW t \in Threads, InitDB(t)
    PROVE  /\ TypeInv' /\ UNCHANGED <<cfg, proc, ca, lock, ilock, db, files, keystore, removed>>
           /\ \/ th[t].pc = "initDB" /\ Moves(t, At(th[t], "lock"))
              \/ th[t].pc = "initDB" /\ Moves(t, At(th[t], "initDBReady"))
              \/ th[t].pc = "initDBReady" /\ Moves(t, At(th[t], "idle"))
              \/ th[t].pc = "initDBReady" /\ Moves(t, At(th[t], "lock"))
              \/ /\ th[t].pc = "initDBReady" /\ ca[Host(t)].ready
                 /\ Moves(t, At(th[t], IF t \in Servers THEN "signer" ELSE "issuer"))
<1>1. {"lock", "initDBReady", "idle", "signer", "issuer"} \subseteq Plain \cap PCs
  BY DEF Plain, PCs, MainPCs, Writes
<1>2. PICK pc \in {"lock", "initDBReady", "idle", "signer", "issuer"} :
          /\ Goto(t, pc)
          /\ \/ th[t].pc = "initDB" /\ pc \in {"lock", "initDBReady"}
             \/ th[t].pc = "initDBReady" /\ pc \in {"idle", "lock"}
             \/ /\ th[t].pc = "initDBReady" /\ ca[Host(t)].ready
                /\ pc = IF t \in Servers THEN "signer" ELSE "issuer"
  BY DEF InitDB
<1>3. Moves(t, At(th[t], pc)) /\ ThreadsTyped'
  BY <1>1, <1>2, MovesGoto
<1>4. UNCHANGED <<cfg, proc, ca, lock, ilock, db, files, keystore, faults, removed>>
  BY DEF InitDB
<1>5. QED
  BY <1>2, <1>3, <1>4, SameData, SameControl

LEMMA TypeGetCA ==
    ASSUME TypeInv, NEW t \in Handlers, GetCA(t)
    PROVE  /\ TypeInv' /\ UNCHANGED <<cfg, proc, ca, lock, ilock, db, files, keystore, removed>>
           /\ \/ th[t].pc = "getCA" /\ Moves(t, At(th[t], "initDB"))
              \/ th[t].pc = "getCA" /\ Moves(t, At(th[t], "getCAReady"))
              \/ th[t].pc = "getCAReady" /\ Moves(t, At(th[t], "idle"))
              \/ th[t].pc = "getCAReady" /\ Moves(t, At(th[t], "initDB"))
              \/ th[t].pc = "getCAReady" /\ ca[Host(t)].ready /\ Moves(t, At(th[t], "serving"))
<1>1. {"initDB", "getCAReady", "idle", "serving"} \subseteq Plain \cap PCs /\ t \in Threads
  BY DEF Plain, PCs, Writes, Threads
<1>2. PICK pc \in {"initDB", "getCAReady", "idle", "serving"} :
          /\ Goto(t, pc)
          /\ \/ th[t].pc = "getCA" /\ pc \in {"initDB", "getCAReady"}
             \/ th[t].pc = "getCAReady" /\ pc \in {"idle", "initDB"}
             \/ th[t].pc = "getCAReady" /\ ca[Host(t)].ready /\ pc = "serving"
  BY DEF GetCA
<1>3. Moves(t, At(th[t], pc)) /\ ThreadsTyped'
  BY <1>1, <1>2, MovesGoto
<1>4. UNCHANGED <<cfg, proc, ca, lock, ilock, db, files, keystore, faults, removed>>
  BY DEF GetCA
<1>5. QED
  BY <1>2, <1>3, <1>4, SameData, SameControl

LEMMA TypeRequest ==
    ASSUME TypeInv, NEW t \in Handlers, Request(t)
    PROVE  /\ TypeInv' /\ UNCHANGED <<cfg, proc, ca, lock, ilock, db, files, keystore, removed>>
           /\ proc[Host(t)] = "up" /\ th[t].pc = "idle" /\ Moves(t, At(th[t], "getCA"))
<1>1. "getCA" \in Plain \cap PCs /\ t \in Threads
  BY DEF Plain, PCs, Writes, Threads
<1>2. Moves(t, At(th[t], "getCA")) /\ ThreadsTyped'
  BY <1>1, MovesGoto DEF Request
<1>3. QED
  BY <1>2, SameData, SameControl DEF Request

LEMMA TypeStart ==
    ASSUME TypeInv, NEW s \in Servers, Start(s)
    PROVE  /\ TypeInv' /\ UNCHANGED <<cfg, ca, lock, ilock, db, files, keystore, removed>>
           /\ proc[s] = "down" /\ (\E h \in Handlers : Host(h) = s)
           /\ proc' = [proc EXCEPT ![s] = "starting"] /\ Moves(s, At(th[s], "config"))
<1>1. "config" \in Plain \cap PCs /\ s \in Threads
  BY DEF Plain, PCs, MainPCs, Writes, Threads
<1>2. Moves(s, At(th[s], "config")) /\ ThreadsTyped'
  BY <1>1, MovesGoto DEF Start
<1>3. ControlTyped'
  BY <1>2, TypeParts DEF ControlTyped, Start
<1>4. QED
  BY <1>2, <1>3, SameData DEF Start

LEMMA TypeSigner ==
    ASSUME TypeInv, NEW s \in Servers, InitEnrollmentSigner(s)
    PROVE  /\ TypeInv' /\ UNCHANGED <<cfg, proc, lock, ilock, db, files, keystore, removed>>
           /\ th[s].pc = "signer" /\ Moves(s, At(th[s], "issuer"))
           /\ ca' = [ca EXCEPT ![s] = [ca[s] EXCEPT !.signer = ca[s].certs]]
<1>1. "issuer" \in Plain \cap PCs /\ s \in Threads
  BY DEF Plain, PCs, MainPCs, Writes, Threads
<1>2. Moves(s, At(th[s], "issuer")) /\ ThreadsTyped'
  BY <1>1, MovesGoto DEF InitEnrollmentSigner
<1>3. ca' = [ca EXCEPT ![s] = [ca[s] EXCEPT !.signer = ca[s].certs]]
  BY TypeParts DEF InitEnrollmentSigner, ControlTyped
<1>4. ca' \in [Servers -> CAObject]
  <2>1. ca[s] \in CAObject
    BY TypeParts DEF ControlTyped
  <2>2. [ca[s] EXCEPT !.signer = ca[s].certs] \in CAObject
    BY <2>1 DEF CAObject
  <2>3. QED
    BY <1>3, <2>2, TypeParts DEF ControlTyped
<1>5. ControlTyped'
  BY <1>2, <1>4, TypeParts DEF ControlTyped, InitEnrollmentSigner
<1>6. QED
  BY <1>2, <1>3, <1>5, SameData DEF InitEnrollmentSigner

LEMMA TypeExit ==
    ASSUME TypeInv, NEW s \in Servers, Exit(s), DataTyped', UNCHANGED cfg
    PROVE  TypeInv'
<1>1. ControlTyped'
  BY ExitType, TypeParts
<1>2. QED
  BY <1>1, TypeParts DEF TypeInv, TypeOK, ControlTyped, DataTyped, ThreadsTyped

LEMMA TypeConfig ==
    ASSUME TypeInv, NEW s \in Servers, CheckConfigLevels(s)
    PROVE  /\ TypeInv' /\ UNCHANGED <<cfg, db, files, keystore, removed>>
           /\ th[s].pc = "config"
           /\ Exit(s) \/ (Moves(s, At(th[s], "keys")) /\ UNCHANGED <<proc, ca, lock, ilock>>)
<1>1. "keys" \in Plain \cap PCs /\ s \in Threads
  BY DEF Plain, PCs, MainPCs, Writes, Threads
<1>2. UNCHANGED <<cfg, db, files, keystore, faults, removed>>
  BY DEF CheckConfigLevels
<1>3. DataTyped'
  BY <1>2, TypeParts DEF DataTyped
<1>4. CASE Exit(s)
  BY <1>2, <1>3, <1>4, TypeExit DEF CheckConfigLevels
<1>5. CASE Goto(s, "keys") /\ UNCHANGED <<proc, ca, lock, ilock>>
  <2>1. Moves(s, At(th[s], "keys")) /\ ThreadsTyped'
    BY <1>1, <1>5, MovesGoto
  <2>2. QED
    BY <1>2, <1>5, <2>1, SameData, SameControl DEF CheckConfigLevels
<1>6. QED
  BY <1>4, <1>5 DEF CheckConfigLevels

LEMMA PutType ==
    ASSUME TypeInv, NEW s \in Servers, NEW f \in FileNames, NEW v \in Keys \cup {Absent, Empty},
           Put(s, f, v)
    PROVE  /\ files' = [files EXCEPT ![s] = [files[s] EXCEPT ![f] = v]]
           /\ files' \in [Servers -> Home]
<1>1. files \in [Servers -> Home]
  BY TypeParts DEF DataTyped
<1>2. files' = [files EXCEPT ![s] = [files[s] EXCEPT ![f] = v]]
  BY <1>1 DEF Put
<1>3. [files[s] EXCEPT ![f] = v] \in Home
  BY <1>1 DEF Home
<1>4. QED
  BY <1>1, <1>2, <1>3

LEMMA TypeKeyMaterial ==
    ASSUME TypeInv, NEW s \in Servers, InitKeyMaterial(s)
    PROVE  /\ TypeInv' /\ UNCHANGED <<cfg, db, files, removed>> /\ th[s].pc = "keys"
           /\ \/ Exit(s) /\ UNCHANGED keystore
              \/ /\ files[s]["cert"] \notin {Absent, Empty}
                 /\ files[s]["cert"] \in keystore[s] \cup {files[s]["key"]}
                 /\ Moves(s, At(th[s], "initDB"))
                 /\ UNCHANGED <<keystore, proc, ca, lock, ilock>>
              \/ /\ files[s]["cert"] = Absent
                 /\ \E k \in Keys :
                      /\ keystore' = [keystore EXCEPT ![s] = @ \cup {k}]
                      /\ Moves(s, [th[s] EXCEPT !.key = k, !.pc =
                                    IF cfg.intermediate THEN "writeChain" ELSE "writeCert"])
                 /\ UNCHANGED <<proc, ca, lock, ilock>>
<1>1. "initDB" \in Plain \cap PCs /\ s \in Threads
  BY DEF Plain, PCs, MainPCs, Writes, Threads
<1>2. UNCHANGED <<cfg, db, files, faults, removed>> /\ th[s].pc = "keys"
  BY DEF InitKeyMaterial
<1>3. keystore[s] \subseteq Keys /\ files[s] \in Home /\ keystore \in [Servers -> SUBSET Keys]
  BY TypeParts DEF DataTyped
<1>4. CASE Exit(s) /\ UNCHANGED keystore
  <2>1. DataTyped'
    BY <1>2, <1>4, TypeParts DEF DataTyped
  <2>2. QED
    BY <1>2, <1>4, <2>1, TypeExit
<1>5. CASE /\ Exists(s, "cert")
           /\ IF Exists(s, "key") THEN ValidateCertAndKey(s) ELSE files[s].cert \in keystore[s]
           /\ Goto(s, "initDB") /\ UNCHANGED <<keystore, proc, ca, lock, ilock>>
  <2>1. Moves(s, At(th[s], "initDB")) /\ ThreadsTyped'
    BY <1>1, <1>5, MovesGoto
  <2>2. /\ files[s]["cert"] \notin {Absent, Empty}
        /\ files[s]["cert"] \in keystore[s] \cup {files[s]["key"]}
    BY <1>3, <1>5, Constants DEF Exists, ValidateCertAndKey, validateMatchingKeys
  <2>3. QED
    BY <1>2, <1>5, <2>1, <2>2, SameData, SameControl
<1>6. CASE ~Exists(s, "cert") /\ GetCACert(s)
  <2> DEFINE k == NewKey(s)
             pc == IF cfg.intermediate THEN "writeChain" ELSE "writeCert"
             x == [th[s] EXCEPT !.key = k, !.pc = pc]
  <2>1. k \in Keys
    BY <1>6, NewKeyType DEF GetCACert
  <2>2. keystore' = [keystore EXCEPT ![s] = @ \cup {k}] /\ UNCHANGED <<proc, ca, lock, ilock>>
    BY <1>6 DEF GetCACert
  <2>3. th[s] \in Thread /\ th \in [Threads -> Thread]
    BY <1>1, TypeParts DEF ControlTyped, ThreadsTyped
  <2>4. th' = [th EXCEPT ![s] = x]
    BY <1>1, <1>6, <2>3 DEF GetCACert, Thread
  <2>5. x \in Thread /\ x.key = k /\ x.pc = pc
    <3>1. pc \in PCs
      BY DEF PCs, MainPCs
    <3> HIDE DEF k, pc
    <3>2. QED
      BY <2>1, <2>3, <3>1 DEF Thread
  <2>6. LocalsOK(x)
    <3>1. x.pc \in {"writeChain", "writeCert"}
      BY <2>5
    <3> HIDE DEF x
    <3>2. QED
      BY <2>1, <2>5, <3>1 DEF LocalsOK
  <2>7. Moves(s, x)
    BY <2>4, <2>5, <2>6 DEF Moves
  <2>8. ThreadsTyped'
    BY <1>1, <2>4, <2>5, <2>6, MoveType, TypeParts DEF ControlTyped
  <2>9. DataTyped'
    BY <1>2, <1>3, <2>1, <2>2, TypeParts DEF DataTyped
  <2>10. TypeInv'
    BY <1>2, <2>2, <2>8, <2>9, SameControl, TypeParts DEF TypeInv, TypeOK, ControlTyped,
       DataTyped, ThreadsTyped
  <2>11. files[s]["cert"] = Absent
    BY <1>6 DEF Exists
  <2>12. QED
    BY <1>2, <2>1, <2>2, <2>7, <2>10, <2>11
<1>7. QED
  BY <1>4, <1>5, <1>6 DEF InitKeyMaterial

LEMMA TypeWriteChain ==
    ASSUME TypeInv, NEW s \in Servers, WriteChain(s)
    PROVE  /\ TypeInv' /\ UNCHANGED <<cfg, proc, ca, lock, ilock, db, keystore, removed>>
           /\ th[s].pc = "writeChain" /\ Moves(s, At(th[s], "writeCert"))
           /\ files' = [files EXCEPT ![s] = [files[s] EXCEPT !["chain"] = th[s].key]]
<1>1. s \in Threads /\ "writeCert" \in PCs /\ th[s].pc = "writeChain" /\ "chain" \in FileNames
  BY DEF PCs, MainPCs, Threads, WriteChain, FileNames
<1>2. th[s] \in Thread /\ LocalsOK(th[s])
  BY <1>1, TypeParts DEF ControlTyped, ThreadsTyped
<1>3. th[s].key \in Keys
  BY <1>1, <1>2 DEF LocalsOK, Writes
<1>4. LocalsOK(At(th[s], "writeCert"))
  BY <1>2, <1>3 DEF LocalsOK, At, Thread
<1>5. Moves(s, At(th[s], "writeCert")) /\ ThreadsTyped'
  BY <1>1, <1>4, MovesGoto DEF WriteChain
<1>6. /\ files' = [files EXCEPT ![s] = [files[s] EXCEPT !["chain"] = th[s].key]]
      /\ files' \in [Servers -> Home]
  BY <1>1, <1>3, PutType DEF WriteChain
<1>7. UNCHANGED <<cfg, proc, ca, lock, ilock, db, keystore, faults, removed>>
  BY DEF WriteChain
<1>8. TypeInv'
  BY <1>5, <1>6, <1>7, SameControl, TypeParts DEF TypeInv, TypeOK, ControlTyped,
       DataTyped, ThreadsTyped
<1>9. QED
  BY <1>1, <1>5, <1>6, <1>7, <1>8

LEMMA TypeWriteCert ==
    ASSUME TypeInv, NEW s \in Servers, WriteCert(s)
    PROVE  /\ TypeInv' /\ UNCHANGED <<cfg, proc, ca, lock, ilock, db, keystore, removed>>
           /\ th[s].pc = "writeCert" /\ Moves(s, At(Idle, "initDB"))
           /\ files' = [files EXCEPT ![s] = [files[s] EXCEPT !["cert"] = th[s].key]]
<1>1. s \in Threads /\ "initDB" \in Plain /\ th[s].pc = "writeCert" /\ "cert" \in FileNames
  BY DEF Plain, PCs, MainPCs, Writes, Threads, WriteCert, FileNames
<1>2. th[s] \in Thread /\ LocalsOK(th[s]) /\ ThreadsTyped
  BY <1>1, TypeParts DEF ControlTyped, ThreadsTyped
<1>3. th[s].key \in Keys
  BY <1>1, <1>2 DEF LocalsOK, Writes
<1>4. ThreadsTyped' /\ th' = [th EXCEPT ![s] = At(Idle, "initDB")]
  BY <1>1, <1>2, ResetType DEF WriteCert, At
<1>5. Moves(s, At(Idle, "initDB"))
  BY <1>1, <1>2, <1>4 DEF Moves, ThreadsTyped
<1>6. /\ files' = [files EXCEPT ![s] = [files[s] EXCEPT !["cert"] = th[s].key]]
      /\ files' \in [Servers -> Home]
  BY <1>1, <1>3, PutType DEF WriteCert
<1>7. UNCHANGED <<cfg, proc, ca, lock, ilock, db, keystore, faults, removed>>
  BY DEF WriteCert
<1>8. TypeInv'
  BY <1>4, <1>6, <1>7, SameControl, TypeParts DEF TypeInv, TypeOK, ControlTyped,
       DataTyped, ThreadsTyped
<1>9. QED
  BY <1>1, <1>5, <1>6, <1>7, <1>8

\* Where initDB returns to.
After(t, ok) == IF t \in Servers THEN "signer" ELSE IF ok THEN "issuer" ELSE "idle"

LEMMA MovesReturn ==
    ASSUME TypeInv, NEW t \in Threads, NEW ok \in BOOLEAN, ReturnDB(t, ok)
    PROVE  /\ Moves(t, At(Idle, After(t, ok))) /\ ThreadsTyped'
           /\ lock' = [lock EXCEPT ![Host(t)] = Free]
           /\ lock' \in [Servers -> Threads \cup {Free}]
<1>1. ThreadsTyped' /\ lock' \in [Servers -> Threads \cup {Free}]
  BY ReturnType
<1>2. th \in [Threads -> Thread]
  BY TypeParts DEF ControlTyped, ThreadsTyped
<1>3. th' = [th EXCEPT ![t] = At(Idle, After(t, ok))] /\ lock' = [lock EXCEPT ![Host(t)] = Free]
  BY DEF ReturnDB, At, After
<1>4. QED
  BY <1>1, <1>2, <1>3 DEF Moves, ThreadsTyped

\* A thread with other local variables.
LEMMA MovesTo ==
    ASSUME TypeInv, NEW t \in Threads, NEW x \in Thread, LocalsOK(x), th' = [th EXCEPT ![t] = x]
    PROVE  Moves(t, x) /\ ThreadsTyped'
  BY MoveType, TypeParts DEF Moves, ControlTyped

LEMMA TypeLockDB ==
    ASSUME TypeInv, NEW t \in Threads, LockDB(t)
    PROVE  /\ TypeInv' /\ UNCHANGED <<cfg, proc, ca, ilock, db, files, keystore, removed>>
           /\ th[t].pc = "lock" /\ lock[Host(t)] = Free
           /\ \/ /\ ca[Host(t)].ready /\ Moves(t, At(Idle, After(t, TRUE)))
                 /\ lock' = [lock EXCEPT ![Host(t)] = Free]
              \/ /\ ca[Host(t)].db = None \/ ~ca[Host(t)].ready
                 /\ Moves(t, [th[t] EXCEPT !.pc = "createTables", !.todo = DataTables])
                 /\ lock' = [lock EXCEPT ![Host(t)] = t]
<1>1. UNCHANGED <<cfg, proc, ca, ilock, db, files, keystore, faults, removed>>
  BY DEF LockDB
<1>2. th[t].pc = "lock" /\ lock[Host(t)] = Free
  BY DEF LockDB
<1>3. CASE ca[Host(t)].ready /\ ReturnDB(t, TRUE)
  <2>1. /\ Moves(t, At(Idle, After(t, TRUE))) /\ ThreadsTyped'
        /\ lock' = [lock EXCEPT ![Host(t)] = Free]
        /\ lock' \in [Servers -> Threads \cup {Free}]
    BY <1>3, MovesReturn
  <2>2. ControlTyped'
    BY <1>1, <2>1, TypeParts DEF ControlTyped
  <2>3. QED
    BY <1>1, <1>2, <1>3, <2>1, <2>2, SameData
<1>4. CASE /\ ca[Host(t)].db = None \/ ~ca[Host(t)].ready
           /\ lock' = [lock EXCEPT ![Host(t)] = t]
           /\ th' = [th EXCEPT ![t].pc = "createTables", ![t].todo = DataTables]
  <2> DEFINE x == [th[t] EXCEPT !.pc = "createTables", !.todo = DataTables]
  <2>1. th \in [Threads -> Thread]
    BY TypeParts DEF ControlTyped, ThreadsTyped
  <2>2. DataTables \in Seq(Items)
    BY ItemSets
  <2>3. th' = [th EXCEPT ![t] = x] /\ x.pc = "createTables" /\ x.todo = DataTables
    BY <1>4, <2>1 DEF Thread
  <2>4. x \in Thread
    BY <2>1, <2>2 DEF Thread, PCs, DBPCs
  <2>5. LocalsOK(x)
    <3> HIDE DEF x
    <3>1. QED
      BY <2>3, Tables DEF LocalsOK, Writes
  <2>6. Moves(t, x) /\ ThreadsTyped'
    BY <2>3, <2>4, <2>5, MovesTo
  <2>7. ControlTyped'
    BY <1>1, <1>4, <2>6, TypeParts, HostType DEF ControlTyped
  <2>8. QED
    BY <1>1, <1>2, <1>4, <2>6, <2>7, SameData
<1>5. QED
  BY <1>3, <1>4 DEF LockDB

\* All that initDB does to the content of the database, for one thread.
DBChange(t, x, d) ==
    /\ TypeInv' /\ UNCHANGED <<cfg, proc, ca, lock, ilock, files, keystore, removed>>
    /\ Moves(t, x) /\ db' = d

LEMMA TypeDBChange ==
    ASSUME TypeInv, NEW t \in Threads, NEW x \in Thread, LocalsOK(x), th' = [th EXCEPT ![t] = x],
           db' \in Database, UNCHANGED <<cfg, proc, ca, lock, ilock, files, keystore, faults, removed>>
    PROVE  DBChange(t, x, db')
<1>1. Moves(t, x) /\ ThreadsTyped'
  BY MovesTo
<1>2. TypeInv'
  BY <1>1, SameControl, TypeParts DEF TypeInv, TypeOK, ControlTyped, DataTyped, ThreadsTyped
<1>3. QED
  BY <1>1, <1>2 DEF DBChange

LEMMA WithTablesType ==
    ASSUME TypeInv, NEW new \in SUBSET AllTables
    PROVE  /\ WithTables(new) \in Database
           /\ WithTables(new).tables = db.tables \cup new
           /\ WithTables(new).props = db.props /\ WithTables(new).users = db.users
           /\ WithTables(new).affs = db.affs
  BY TypeParts DEF DataTyped, Database, WithTables

LEMMA TypeSQLiteTables ==
    ASSUME TypeInv, NEW t \in Threads, CreateSQLiteTables(t)
    PROVE  /\ th[t].pc = "createTables"
           /\ DBChange(t, [th[t] EXCEPT !.pc = "open", !.todo = <<>>], WithTables(AllTables))
<1> DEFINE x == [th[t] EXCEPT !.pc = "open", !.todo = <<>>]
<1>1. th \in [Threads -> Thread]
  BY TypeParts DEF ControlTyped, ThreadsTyped
<1>2. th' = [th EXCEPT ![t] = x] /\ x.pc = "open"
  BY <1>1 DEF Thread, CreateSQLiteTables
<1>3. x \in Thread
  BY <1>1, ItemSets DEF Thread, PCs, DBPCs
<1>4. LocalsOK(x)
  BY <1>2 DEF LocalsOK, Writes
<1>5. db' = WithTables(AllTables) /\ db' \in Database
  BY WithTablesType DEF CreateSQLiteTables
<1>6. UNCHANGED <<cfg, proc, ca, lock, ilock, files, keystore, faults, removed>>
  BY DEF CreateSQLiteTables
<1>7. DBChange(t, x, db')
  BY <1>2, <1>3, <1>4, <1>5, <1>6, TypeDBChange
<1>8. QED
  BY <1>5, <1>7 DEF CreateSQLiteTables

\* A step of a loop over q: the thread goes on with the rest, or behind it.
Loops(t, x, pc, next, items) ==
    /\ x \in Thread
    /\ x.snap = th[t].snap /\ x.failed = th[t].failed
    /\ \/ x.pc = pc /\ x.todo = Tail(th[t].todo) /\ Len(th[t].todo) > 1
       \/ x.pc = next /\ x.todo = items /\ Len(th[t].todo) = 1

LEMMA TypeTables ==
    ASSUME TypeInv, NEW t \in Threads, CreatePostgresTables(t) \/ CreateMySQLTables(t)
    PROVE  /\ th[t].pc = "createTables"
           /\ \E x : /\ Loops(t, x, "createTables", "open", <<>>)
                     /\ DBChange(t, x, WithTables({Head(th[t].todo)}))
<1>1. th[t].pc = "createTables" /\ LocalsOK(th[t])
  BY TypeParts DEF CreatePostgresTables, CreateMySQLTables, ControlTyped, ThreadsTyped
<1>2. th[t].todo \in Seq(AllTables) \ {<<>>}
  BY <1>1 DEF LocalsOK
<1>3. Loop(t, "createTables", "open", <<>>) /\ "createTables" \in PCs /\ "open" \in PCs
  BY DEF CreatePostgresTables, CreateMySQLTables, PCs, DBPCs
<1>i. AllTables \subseteq Items /\ <<>> \in Seq(Items)
  BY ItemSets
<1>4. PICK x \in Thread :
          /\ th' = [th EXCEPT ![t] = x]
          /\ x.snap = th[t].snap /\ x.failed = th[t].failed /\ x.key = th[t].key
          /\ \/ x.pc = "createTables" /\ x.todo = Tail(th[t].todo)
                /\ x.todo \in Seq(AllTables) \ {<<>>} /\ Len(th[t].todo) > 1
             \/ x.pc = "open" /\ x.todo = <<>> /\ Len(th[t].todo) = 1
  BY <1>2, <1>3, <1>i, LoopType
<1>5. LocalsOK(x)
  BY <1>4 DEF LocalsOK, Writes
<1>6. Head(th[t].todo) \in AllTables
  BY <1>2, TailSeq
<1>7. db' = WithTables({Head(th[t].todo)}) /\ db' \in Database
  BY <1>6, WithTablesType DEF CreatePostgresTables, CreateMySQLTables
<1>8. UNCHANGED <<cfg, proc, ca, lock, ilock, files, keystore, faults, removed>>
  BY DEF CreatePostgresTables, CreateMySQLTables
<1>9. DBChange(t, x, db')
  BY <1>4, <1>5, <1>7, <1>8, TypeDBChange
<1>10. QED
  BY <1>1, <1>4, <1>7, <1>9 DEF Loops

LEMMA SetCAType ==
    ASSUME TypeInv, NEW s \in Servers, NEW c \in CAObject, ca' = [ca EXCEPT ![s] = c],
           ThreadsTyped', DataTyped',
           cfg' = cfg, proc' \in [Servers -> {"down", "starting", "up"}],
           lock' \in [Servers -> Threads \cup {Free}], ilock' \in [Servers -> Threads \cup {Free}]
    PROVE  TypeInv'
  BY TypeParts DEF TypeInv, TypeOK, ControlTyped, DataTyped, ThreadsTyped

LEMMA TypeOpenDB ==
    ASSUME TypeInv, NEW t \in Threads, OpenDB(t)
    PROVE  /\ TypeInv' /\ UNCHANGED <<cfg, proc, lock, ilock, files, keystore, removed>>
           /\ th[t].pc = "open" /\ Moves(t, At(th[t], "schema"))
           /\ \E n \in Handles :
                ca' = [ca EXCEPT ![Host(t)] = [ca[Host(t)] EXCEPT !.db = n, !.ready = FALSE]]
           /\ db' = [db EXCEPT !.props = IF \A n \in LevelRows : @[n] = NoLevel
                                         THEN [n \in LevelRows |-> 0] ELSE @]
<1> DEFINE s == Host(t)
           n == NewHandle(ca[s])
           c == [ca[s] EXCEPT !.db = n, !.ready = FALSE]
<1>1. s \in Servers /\ ca[s] \in CAObject /\ ca \in [Servers -> CAObject]
  BY HostType, TypeParts DEF TypeInv, ControlTyped
<1>2. n \in Handles
  BY <1>1, NewHandleType
<1>3. ca' = [ca EXCEPT ![s] = c]
  BY <1>1 DEF OpenDB, CAObject
<1>4. c \in CAObject
  <2> HIDE DEF n
  <2>1. QED
    BY <1>1, <1>2 DEF CAObject
<1>5. "schema" \in Plain \cap PCs
  BY DEF Plain, PCs, DBPCs, Writes
<1>6. Moves(t, At(th[t], "schema")) /\ ThreadsTyped'
  BY <1>5, MovesGoto DEF OpenDB
<1>7. db' = [db EXCEPT !.props = IF \A m \in LevelRows : @[m] = NoLevel
                                 THEN [m \in LevelRows |-> 0] ELSE @]
  BY DEF OpenDB
<1>8. db' \in Database
  BY <1>7, TypeParts DEF DataTyped, Database
<1>9. UNCHANGED <<cfg, proc, lock, ilock, files, keystore, faults, removed>>
  BY DEF OpenDB
<1>10. DataTyped'
  BY <1>8, <1>9, TypeParts DEF DataTyped
<1>11. TypeInv'
  BY <1>1, <1>3, <1>4, <1>6, <1>9, <1>10, SetCAType, TypeParts DEF ControlTyped
<1>12. QED
  BY <1>2, <1>3, <1>6, <1>7, <1>9, <1>11 DEF OpenDB

\* Sequences as functions.
LEMMA SeqOfFunction ==
    ASSUME NEW S, NEW n \in Nat, NEW f \in [1..n -> S]
    PROVE  f \in Seq(S) /\ Len(f) = n /\ DOMAIN f = 1..n
  OBVIOUS

LEMMA UserRows ==
    ASSUME TypeInv, NEW id \in IDs
    PROVE  /\ db.users[id] \in Seq(UserRow) /\ Len(db.users[id]) \in Nat
           /\ DOMAIN db.users[id] = 1..Len(db.users[id])
           /\ \A i \in DOMAIN db.users[id] : db.users[id][i] \in UserRow
           /\ db.users[id] # <<>> => 1 \in DOMAIN db.users[id]
  BY TypeParts DEF DataTyped, Database

\* The rows of an identity with the same change in all of them.
LEMMA MapRows ==
    ASSUME TypeInv, NEW id \in IDs, NEW new, DOMAIN new = DOMAIN db.users[id],
           new = [i \in DOMAIN new |-> new[i]],
           \A i \in DOMAIN new : new[i] \in UserRow
    PROVE  /\ new \in Seq(UserRow) /\ Len(new) = Len(db.users[id])
           /\ new # <<>> <=> db.users[id] # <<>>
<1> DEFINE n == Len(db.users[id])
<1>1. n \in Nat /\ DOMAIN new = 1..n /\ db.users[id] \in Seq(UserRow)
  BY UserRows
<1>2. new \in [1..n -> UserRow]
  BY <1>1
<1>3. new \in Seq(UserRow) /\ Len(new) = n
  <2> HIDE DEF n
  <2>1. QED
    BY <1>1, <1>2, SeqOfFunction
<1>4. \A q \in Seq(UserRow) : q # <<>> <=> Len(q) # 0
  OBVIOUS
<1>5. QED
  BY <1>1, <1>3, <1>4

LEMMA LevelZero ==
    ASSUME TypeInv, NEW d,
           d = [db EXCEPT !.column = TRUE, !.users = [id \in IDs |->
                          [i \in DOMAIN @[id] |-> [@[id][i] EXCEPT !.level = 0]]]]
    PROVE  /\ d \in Database /\ d.tables = db.tables /\ d.props = db.props /\ d.affs = db.affs
           /\ \A id \in IDs : Len(d.users[id]) = Len(db.users[id])
           /\ \A id \in IDs : d.users[id] # <<>> <=> db.users[id] # <<>>
<1>1. db \in Database
  BY TypeParts DEF DataTyped
<1> DEFINE new(id) == [i \in DOMAIN db.users[id] |-> [db.users[id][i] EXCEPT !.level = 0]]
<1>2. d = [db EXCEPT !.column = TRUE, !.users = [id \in IDs |-> new(id)]]
  BY <1>1 DEF Database
<1>3. ASSUME NEW id \in IDs
      PROVE  /\ new(id) \in Seq(UserRow) /\ Len(new(id)) = Len(db.users[id])
             /\ new(id) # <<>> <=> db.users[id] # <<>>
  <2>1. \A i \in DOMAIN new(id) : new(id)[i] \in UserRow
    BY <1>3, UserRows DEF UserRow
  <2>2. QED
    BY <1>3, <2>1, MapRows
<1> DEFINE u == [id \in IDs |-> new(id)]
<1>4. u \in [IDs -> Seq(UserRow)] /\ \A id \in IDs : u[id] = new(id)
  <2> HIDE DEF new
  <2>1. QED
    BY <1>3
<1>5. /\ d \in Database /\ d.tables = db.tables /\ d.props = db.props /\ d.affs = db.affs
      /\ d.users = u
  <2> HIDE DEF u
  <2>1. d = [db EXCEPT !.column = TRUE, !.users = u]
    BY <1>2 DEF u
  <2>2. QED
    BY <1>1, <1>4, <2>1 DEF Database
<1> HIDE DEF new, u
<1>6. QED
  BY <1>3, <1>4, <1>5

\* initDB returns an error and leaves the CA object as it is.
GivesUp(t) ==
    /\ TypeInv' /\ UNCHANGED <<cfg, proc, ca, ilock, db, keystore, removed>>
    /\ Moves(t, At(Idle, After(t, FALSE))) /\ lock' = [lock EXCEPT ![Host(t)] = Free]

LEMMA TypeGivesUp ==
    ASSUME TypeInv, NEW t \in Threads, ReturnDB(t, FALSE), DataTyped',
           UNCHANGED <<cfg, proc, ca, ilock, db, keystore, removed>>
    PROVE  GivesUp(t)
<1>1. /\ Moves(t, At(Idle, After(t, FALSE))) /\ ThreadsTyped'
      /\ lock' = [lock EXCEPT ![Host(t)] = Free]
      /\ lock' \in [Servers -> Threads \cup {Free}]
  BY MovesReturn
<1>2. TypeInv'
  BY <1>1, TypeParts DEF TypeInv, TypeOK, ControlTyped, DataTyped, ThreadsTyped
<1>3. QED
  BY <1>1, <1>2 DEF GivesUp

LEMMA TypeGotoChange ==
    ASSUME TypeInv, NEW t \in Threads, NEW pc \in Plain, Goto(t, pc), db' \in Database,
           UNCHANGED <<cfg, proc, ca, lock, ilock, files, keystore, faults, removed>>
    PROVE  DBChange(t, At(th[t], pc), db')
<1>1. pc \in PCs
  BY DEF Plain
<1>2. Moves(t, At(th[t], pc)) /\ ThreadsTyped'
  BY <1>1, MovesGoto
<1>3. QED
  BY <1>2, TypeDBChange DEF Moves

LEMMA TypeSQLiteSchema ==
    ASSUME TypeInv, NEW t \in Threads, UpdateSQLiteSchema(t)
    PROVE  /\ th[t].pc = "schema" /\ cfg.driver = "sqlite3"
           /\ \/ GivesUp(t) /\ files' = files
              \/ /\ HasLevels /\ DBChange(t, At(th[t], "schemaRest"), db')
                 /\ db'.tables = db.tables /\ db'.props = db.props /\ db'.affs = db.affs
                 /\ \A id \in IDs : Len(db'.users[id]) = Len(db.users[id])
                 /\ \A id \in IDs : db'.users[id] # <<>> <=> db.users[id] # <<>>
                 /\ db.props["identity"] >= ServerLevels["identity"] => db' = db
<1>1. th[t].pc = "schema" /\ cfg.driver = "sqlite3" /\ db \in Database
  BY TypeParts DEF UpdateSQLiteSchema, DataTyped
<1>2. CASE ReturnDB(t, FALSE) /\ UNCHANGED db
  <2>1. UNCHANGED <<cfg, proc, ca, ilock, db, files, keystore, faults, removed>>
    BY <1>2 DEF UpdateSQLiteSchema
  <2>2. DataTyped'
    BY <2>1, TypeParts DEF DataTyped
  <2>3. QED
    BY <1>1, <1>2, <2>1, <2>2, TypeGivesUp
<1>3. CASE /\ HasLevels
           /\ db' = IF db.props["identity"] >= ServerLevels["identity"] THEN db
                    ELSE [db EXCEPT !.column = TRUE, !.users = [id \in IDs |->
                            [i \in DOMAIN @[id] |-> [@[id][i] EXCEPT !.level = 0]]]]
           /\ Goto(t, "schemaRest") /\ UNCHANGED lock
  <2>1. UNCHANGED <<cfg, proc, ca, lock, ilock, files, keystore, faults, removed>>
    BY <1>3 DEF UpdateSQLiteSchema
  <2>2. /\ db' \in Database /\ db'.tables = db.tables /\ db'.props = db.props
        /\ db'.affs = db.affs
        /\ \A id \in IDs : Len(db'.users[id]) = Len(db.users[id])
        /\ \A id \in IDs : db'.users[id] # <<>> <=> db.users[id] # <<>>
        /\ db.props["identity"] >= ServerLevels["identity"] => db' = db
    <3>1. CASE db.props["identity"] >= ServerLevels["identity"]
      BY <1>1, <1>3, <3>1
    <3>2. CASE ~(db.props["identity"] >= ServerLevels["identity"])
      BY <1>3, <3>2, LevelZero
    <3>3. QED
      BY <3>1, <3>2
  <2>3. "schemaRest" \in Plain
    BY DEF Plain, PCs, DBPCs, Writes
  <2>4. DBChange(t, At(th[t], "schemaRest"), db')
    BY <1>3, <2>1, <2>2, <2>3, TypeGotoChange
  <2>5. QED
    BY <1>1, <1>3, <2>2, <2>4
<1>4. QED
  BY <1>2, <1>3 DEF UpdateSQLiteSchema, HasLevels

LEMMA TypeAlterTables ==
    ASSUME TypeInv, NEW t \in Threads, AlterTables(t)
    PROVE  /\ th[t].pc = "schema" /\ cfg.driver # "sqlite3"
           /\ DBChange(t, At(th[t], "schemaRest"), [db EXCEPT !.column = TRUE])
<1>1. [db EXCEPT !.column = TRUE] \in Database
  BY TypeParts DEF DataTyped, Database
<1>2. "schemaRest" \in Plain
  BY DEF Plain, PCs, DBPCs, Writes
<1>3. QED
  BY <1>1, <1>2, TypeGotoChange DEF AlterTables

LEMMA TypeSchemaRest ==
    ASSUME TypeInv, NEW t \in Threads, UpdateSchemaRest(t)
    PROVE  th[t].pc = "schemaRest" /\ DBChange(t, At(th[t], "accessors"), db)
<1>1. db' \in Database /\ db' = db
  BY TypeParts DEF DataTyped, UpdateSchemaRest
<1>2. "accessors" \in Plain
  BY DEF Plain, PCs, DBPCs, Writes
<1>3. DBChange(t, At(th[t], "accessors"), db')
  BY <1>1, <1>2, TypeGotoChange DEF UpdateSchemaRest
<1>4. QED
  BY <1>1, <1>3 DEF UpdateSchemaRest

LEMMA TypeAccessors ==
    ASSUME TypeInv, NEW t \in Threads, SetAccessors(t)
    PROVE  /\ TypeInv' /\ UNCHANGED <<cfg, proc, lock, ilock, db, files, keystore, removed>>
           /\ th[t].pc = "accessors"
           /\ Moves(t, At(th[t], IF cfg.ldap THEN "finish" ELSE "check"))
           /\ LET c == ca[Host(t)] IN
              ca' = [ca EXCEPT ![Host(t)] = [c EXCEPT !.certs = c.db,
                                               !.signer = IF @ = -1 THEN @ ELSE c.db,
                                               !.registry = IF cfg.ldap THEN @ ELSE c.db]]
<1> DEFINE s == Host(t)
           c == ca[s]
           pc == IF cfg.ldap THEN "finish" ELSE "check"
           e == [c EXCEPT !.certs = c.db, !.signer = IF @ = -1 THEN @ ELSE c.db,
                          !.registry = IF cfg.ldap THEN @ ELSE c.db]
<1>1. s \in Servers /\ c \in CAObject /\ ca \in [Servers -> CAObject]
  BY HostType, TypeParts DEF TypeInv, ControlTyped
<1>2. ca' = [ca EXCEPT ![s] = e]
  BY <1>1 DEF SetAccessors, CAObject, initUserRegistry
<1>3. e \in CAObject
  BY <1>1 DEF CAObject
<1>4. pc \in Plain \cap PCs
  BY DEF Plain, PCs, DBPCs, Writes
<1>5. Moves(t, At(th[t], pc)) /\ ThreadsTyped'
  BY <1>4, MovesGoto DEF SetAccessors
<1>6. UNCHANGED <<cfg, proc, lock, ilock, db, files, keystore, faults, removed>>
  BY DEF SetAccessors
<1>7. DataTyped'
  BY <1>6, TypeParts DEF DataTyped
<1>8. TypeInv'
  BY <1>1, <1>2, <1>3, <1>5, <1>6, <1>7, SetCAType, TypeParts DEF ControlTyped
<1>9. QED
  BY <1>2, <1>5, <1>6, <1>8 DEF SetAccessors

LEMMA TypeCheck ==
    ASSUME TypeInv, NEW t \in Threads, CheckDBLevels(t)
    PROVE  /\ th[t].pc = "check"
           /\ DBChange(t, [th[t] EXCEPT !.pc = "lookup", !.todo = Bootstrap], db)
<1> DEFINE x == [th[t] EXCEPT !.pc = "lookup", !.todo = Bootstrap]
<1>1. th \in [Threads -> Thread] /\ db' \in Database /\ db' = db
  BY TypeParts DEF ControlTyped, ThreadsTyped, CheckDBLevels, DataTyped
<1>2. th' = [th EXCEPT ![t] = x] /\ x.pc = "lookup" /\ x.todo = Bootstrap
  BY <1>1 DEF Thread, CheckDBLevels
<1>3. x \in Thread
  BY <1>1, ItemSets DEF Thread, PCs, DBPCs
<1>4. LocalsOK(x)
  <2> HIDE DEF x
  <2>1. QED
    BY <1>2, Constants DEF LocalsOK, Writes
<1>5. DBChange(t, x, db')
  BY <1>1, <1>2, <1>3, <1>4, TypeDBChange DEF CheckDBLevels
<1>6. QED
  BY <1>1, <1>5 DEF CheckDBLevels

\* What NotFound does, for a step that leaves the database alone.
LEMMA TypeNotFound ==
    ASSUME TypeInv, NEW t \in Threads, th[t].pc = "lookup", NotFound(t), DataTyped',
           UNCHANGED <<cfg, db, files, keystore, removed>>
    PROVE  /\ TypeInv'
           /\ \/ GivesUp(t) /\ t \notin Servers
              \/ t \in Servers /\ Exit(t)
              \/ /\ UNCHANGED <<cfg, proc, ca, lock, ilock, files, keystore, removed>>
                 /\ Moves(t, At(th[t], "insert")) /\ db' = db
<1>1. CASE Goto(t, "insert") /\ UNCHANGED <<proc, ca, lock, ilock>>
  <2>1. th[t] \in Thread /\ LocalsOK(th[t])
    BY TypeParts DEF ControlTyped, ThreadsTyped
  <2>2. LocalsOK(At(th[t], "insert")) /\ "insert" \in PCs
    BY <2>1 DEF LocalsOK, At, Thread, Writes, PCs, DBPCs
  <2>3. Moves(t, At(th[t], "insert")) /\ ThreadsTyped'
    BY <1>1, <2>2, MovesGoto
  <2>4. TypeInv'
    BY <1>1, <2>3, SameControl, TypeParts DEF TypeInv, TypeOK, ControlTyped, DataTyped, ThreadsTyped
  <2>5. QED
    BY <1>1, <2>3, <2>4
<1>2. CASE t \in Servers /\ Exit(t)
  BY <1>2, TypeExit
<1>3. CASE t \notin Servers /\ ReturnDB(t, FALSE) /\ UNCHANGED <<proc, ca, ilock>>
  BY <1>3, TypeGivesUp DEF GivesUp
<1>4. QED
  BY <1>1, <1>2, <1>3 DEF NotFound

LEMMA TypeLookup ==
    ASSUME TypeInv, NEW t \in Threads, LookupUser(t)
    PROVE  /\ th[t].pc = "lookup" /\ TypeInv' /\ UNCHANGED <<cfg, db, files, keystore, removed>>
           /\ \/ GivesUp(t) /\ t \notin Servers
              \/ t \in Servers /\ Exit(t)
              \/ DBChange(t, At(th[t], "insert"), db)
              \/ /\ db.users[Head(th[t].todo)] # <<>>
                 /\ \E x : /\ Loops(t, x, "lookup", "affs", Affiliations)
                           /\ DBChange(t, x, db)
<1>1. th[t].pc = "lookup" /\ UNCHANGED <<cfg, db, files, keystore, faults, removed>>
  BY DEF LookupUser
<1>2. DataTyped' /\ db' \in Database
  BY <1>1, TypeParts DEF DataTyped
<1>3. CASE NotFound(t)
  BY <1>1, <1>2, <1>3, TypeNotFound DEF DBChange
<1>4. CASE /\ db.users[Head(th[t].todo)] # <<>> /\ Loop(t, "lookup", "affs", Affiliations)
           /\ UNCHANGED <<proc, ca, lock, ilock>>
  <2>1. th[t].todo \in Seq(BootstrapIDs) \ {<<>>}
    BY <1>1, TypeParts DEF ControlTyped, ThreadsTyped, LocalsOK
  <2>2. "lookup" \in PCs /\ "affs" \in PCs
    BY DEF PCs, DBPCs
  <2>3. BootstrapIDs \subseteq Items /\ Affiliations \in Seq(Items)
    BY ItemSets
  <2>4. PICK x \in Thread :
          /\ th' = [th EXCEPT ![t] = x]
          /\ x.snap = th[t].snap /\ x.failed = th[t].failed /\ x.key = th[t].key
          /\ \/ x.pc = "lookup" /\ x.todo = Tail(th[t].todo)
                /\ x.todo \in Seq(BootstrapIDs) \ {<<>>} /\ Len(th[t].todo) > 1
             \/ x.pc = "affs" /\ x.todo = Affiliations /\ Len(th[t].todo) = 1
    BY <1>4, <2>1, <2>2, <2>3, LoopType
  <2>5. LocalsOK(x)
    BY <2>4, Constants DEF LocalsOK, Writes
  <2>6. DBChange(t, x, db')
    BY <1>1, <1>2, <1>4, <2>4, <2>5, TypeDBChange
  <2>7. QED
    BY <1>1, <1>4, <2>4, <2>6 DEF Loops, DBChange
<1>5. QED
  BY <1>3, <1>4 DEF LookupUser

LEMMA TypeGiveUpUsers ==
    ASSUME TypeInv, NEW t \in Threads, GiveUpUsers(t)
    PROVE  /\ Moves(t, [th[t] EXCEPT !.failed = TRUE, !.pc = "affs", !.todo = Affiliations])
           /\ ThreadsTyped'
<1> DEFINE x == [th[t] EXCEPT !.failed = TRUE, !.pc = "affs", !.todo = Affiliations]
<1>1. th \in [Threads -> Thread]
  BY TypeParts DEF ControlTyped, ThreadsTyped
<1>2. th' = [th EXCEPT ![t] = x] /\ x.pc = "affs" /\ x.todo = Affiliations
  BY <1>1 DEF Thread, GiveUpUsers
<1>3. x \in Thread
  BY <1>1, ItemSets DEF Thread, PCs, DBPCs
<1>4. LocalsOK(x)
  <2> HIDE DEF x
  <2>1. QED
    BY <1>2, Constants DEF LocalsOK, Writes
<1>5. QED
  BY <1>2, <1>3, <1>4, MovesTo

LEMMA TypeInsert ==
    ASSUME TypeInv, NEW t \in Threads, InsertUser(t)
    PROVE  /\ th[t].pc = "insert"
           /\ \/ DBChange(t, [th[t] EXCEPT !.failed = TRUE, !.pc = "affs", !.todo = Affiliations],
                          db)
              \/ /\ \E x : Loops(t, x, "lookup", "affs", Affiliations) /\ DBChange(t, x, db')
                 /\ Head(th[t].todo) \in BootstrapIDs
                 /\ \E row \in UserRow :
                      db' = [db EXCEPT !.users[Head(th[t].todo)] = Append(@, row)]
<1> DEFINE id == Head(th[t].todo)
           row == [level |-> GetLevels(cfg.version)["identity"],
                   registrar |-> TRUE, attrs |-> cfg.bootstrapAttrs]
<1>1. th[t].pc = "insert" /\ UNCHANGED <<cfg, proc, ca, lock, ilock, files, keystore, faults, removed>>
  BY DEF InsertUser
<1>2. th[t].todo \in Seq(BootstrapIDs) \ {<<>>}
  BY <1>1, TypeParts DEF ControlTyped, ThreadsTyped, LocalsOK
<1>3. id \in BootstrapIDs /\ id \in IDs
  BY <1>2, TailSeq, Constants
<1>4. row \in UserRow
  <2>1. cfg.version \in Seq(Nat) /\ cfg.bootstrapAttrs \in BOOLEAN
    BY TypeParts, ConfigsOK DEF Config
  <2>2. "identity" \in LevelRows
    BY Rows
  <2>3. QED
    BY <2>1, <2>2, LevelsType DEF UserRow
<1>5. CASE GiveUpUsers(t) /\ UNCHANGED db
  <2>1. Moves(t, [th[t] EXCEPT !.failed = TRUE, !.pc = "affs", !.todo = Affiliations])
    BY <1>5, TypeGiveUpUsers
  <2>2. db' \in Database /\ db' = db
    BY <1>5, TypeParts DEF DataTyped
  <2>3. QED
    BY <1>1, <2>1, <2>2, TypeDBChange DEF Moves
<1>6. CASE /\ db' = [db EXCEPT !.users[id] = Append(@, row)]
           /\ Loop(t, "lookup", "affs", Affiliations)
  <2>2. "lookup" \in PCs /\ "affs" \in PCs
    BY DEF PCs, DBPCs
  <2>3. BootstrapIDs \subseteq Items /\ Affiliations \in Seq(Items)
    BY ItemSets
  <2>4. PICK x \in Thread :
          /\ th' = [th EXCEPT ![t] = x]
          /\ x.snap = th[t].snap /\ x.failed = th[t].failed /\ x.key = th[t].key
          /\ \/ x.pc = "lookup" /\ x.todo = Tail(th[t].todo)
                /\ x.todo \in Seq(BootstrapIDs) \ {<<>>} /\ Len(th[t].todo) > 1
             \/ x.pc = "affs" /\ x.todo = Affiliations /\ Len(th[t].todo) = 1
    BY <1>2, <1>6, <2>2, <2>3, LoopType
  <2>5. LocalsOK(x)
    BY <2>4, Constants DEF LocalsOK, Writes
  <2>6. db' \in Database
    <3>1. Append(db.users[id], row) \in Seq(UserRow)
      BY <1>3, <1>4, UserRows
    <3> HIDE DEF id, row
    <3>2. QED
      BY <1>3, <1>6, <3>1, TypeParts DEF DataTyped, Database
  <2>7. DBChange(t, x, db')
    BY <1>1, <2>4, <2>5, <2>6, TypeDBChange
  <2>8. QED
    BY <1>1, <1>3, <1>4, <1>6, <2>4, <2>7 DEF Loops
<1>7. QED
  BY <1>5, <1>6 DEF InsertUser

LEMMA TypeAffiliation ==
    ASSUME TypeInv, NEW t \in Threads, LoadAffiliation(t)
    PROVE  /\ th[t].pc = "affs" /\ db' = [db EXCEPT !.affs = @ \cup {Head(th[t].todo)}]
           /\ \E x : Loops(t, x, "affs", "snapshot", <<>>) /\ DBChange(t, x, db')
<1>1. /\ th[t].pc = "affs" /\ db' = [db EXCEPT !.affs = @ \cup {Head(th[t].todo)}]
      /\ UNCHANGED <<cfg, proc, ca, lock, ilock, files, keystore, faults, removed>>
  BY DEF LoadAffiliation
<1>2. th[t].todo \in Seq(AffiliationsOfConfig) \ {<<>>}
  BY <1>1, TypeParts DEF ControlTyped, ThreadsTyped, LocalsOK
<1>3. Loop(t, "affs", "snapshot", <<>>) /\ "affs" \in PCs /\ "snapshot" \in PCs
  BY DEF LoadAffiliation, PCs, DBPCs
<1>4. AffiliationsOfConfig \subseteq Items /\ <<>> \in Seq(Items)
  BY ItemSets
<1>5. PICK x \in Thread :
          /\ th' = [th EXCEPT ![t] = x]
          /\ x.snap = th[t].snap /\ x.failed = th[t].failed /\ x.key = th[t].key
          /\ \/ x.pc = "affs" /\ x.todo = Tail(th[t].todo)
                /\ x.todo \in Seq(AffiliationsOfConfig) \ {<<>>} /\ Len(th[t].todo) > 1
             \/ x.pc = "snapshot" /\ x.todo = <<>> /\ Len(th[t].todo) = 1
  BY <1>2, <1>3, <1>4, LoopType
<1>6. LocalsOK(x)
  BY <1>5 DEF LocalsOK, Writes
<1>7. Head(th[t].todo) \in AffiliationNames
  BY <1>2, TailSeq, Constants
<1>8. db' \in Database
  BY <1>1, <1>7, TypeParts DEF DataTyped, Database
<1>9. DBChange(t, x, db')
  BY <1>1, <1>5, <1>6, <1>8, TypeDBChange
<1>10. QED
  BY <1>1, <1>5, <1>9 DEF Loops

\* The rows of users that GetUserLessThanLevel returns.
RowsOf(id) == {<<id, i>> : i \in {j \in DOMAIN db.users[id] : db.users[id][j].level < 1}}
Below == UNION {RowsOf(id) : id \in IDs}

LEMMA BelowFinite == ASSUME TypeInv PROVE IsFiniteSet(Below)
<1>1. ASSUME NEW id \in IDs PROVE IsFiniteSet(RowsOf(id))
  <2> DEFINE n == Len(db.users[id])
             D == {j \in DOMAIN db.users[id] : db.users[id][j].level < 1}
             f == [i \in D |-> <<id, i>>]
  <2>1. n \in Nat /\ D \in SUBSET (1..n)
    BY <1>1, UserRows
  <2>2. IsFiniteSet(D)
    <3> HIDE DEF n, D
    <3>1. 1 \in Int /\ n \in Int
      BY <2>1
    <3>2. IsFiniteSet(1..n)
      BY <3>1, FS_Interval
    <3>3. QED
      BY <2>1, <3>2, FS_Subset
  <2>3. f \in Surjection(D, RowsOf(id))
    BY DEF Surjection, RowsOf
  <2>4. QED
    BY <2>2, <2>3, FS_Surjection
<1>2. IsFiniteSet({RowsOf(id) : id \in IDs})
  <2> DEFINE T == {RowsOf(id) : id \in IDs}
             f == [id \in IDs |-> RowsOf(id)]
  <2>1. f \in Surjection(IDs, T)
    BY DEF Surjection
  <2>2. QED
    BY <2>1, FS_Surjection, StartupConstantsOK
<1>3. \A T \in {RowsOf(id) : id \in IDs} : IsFiniteSet(T)
  BY <1>1
<1>4. QED
  BY <1>2, <1>3, FS_UNION DEF Below

LEMMA TypeSnapshot ==
    ASSUME TypeInv, NEW t \in Threads, GetUserLessThanLevel(t)
    PROVE  /\ th[t].pc = "snapshot"
           /\ \E snap \in Seq([id : IDs, row : UserRow]) :
                /\ DBChange(t, [th[t] EXCEPT !.pc = "user", !.snap = snap], db)
                /\ \A id \in IDs : \A i \in DOMAIN db.users[id] :
                     db.users[id][i].level < 1 => \E j \in DOMAIN snap : snap[j].id = id
                /\ \A j \in DOMAIN snap : \E i \in DOMAIN db.users[snap[j].id] :
                     db.users[snap[j].id][i].level < 1
<1> DEFINE n == Cardinality(Below)
<1>1. /\ th[t].pc = "snapshot"
      /\ UNCHANGED <<cfg, proc, ca, lock, ilock, db, files, keystore, faults, removed>>
  BY DEF GetUserLessThanLevel
<1>2. PICK order \in [1..n -> Below] :
         /\ \A x, y \in DOMAIN order : x # y => order[x] # order[y]
         /\ th' = [th EXCEPT ![t].pc = "user", ![t].snap = [x \in DOMAIN order |->
                    [id |-> order[x][1], row |-> db.users[order[x][1]][order[x][2]]]]]
  BY DEF GetUserLessThanLevel, Below, RowsOf
<1> DEFINE snap == [x \in DOMAIN order |->
                      [id |-> order[x][1], row |-> db.users[order[x][1]][order[x][2]]]]
           z == [th[t] EXCEPT !.pc = "user", !.snap = snap]
<1>3. n \in Nat
  BY BelowFinite, FS_CardinalityType
<1>4. order \in Surjection(1..n, Below)
  <2>1. order \in Injection(1..n, Below)
    BY <1>2 DEF Injection, IsInjective
  <2>2. Cardinality(1..n) = n
    BY <1>3, FS_Interval
  <2>3. QED
    BY <2>1, <2>2, FS_Injection, BelowFinite
<1>5. \A b \in Below : /\ b[1] \in IDs /\ b[2] \in DOMAIN db.users[b[1]]
                       /\ db.users[b[1]][b[2]].level < 1
  BY DEF Below, RowsOf
<1>6. \A id \in IDs : \A i \in DOMAIN db.users[id] :
          db.users[id][i].level < 1 => <<id, i>> \in Below
  BY DEF Below, RowsOf
<1> HIDE DEF n
<1>7. \A j \in 1..n : /\ order[j] \in Below /\ snap[j].id = order[j][1]
                      /\ snap[j].row = db.users[order[j][1]][order[j][2]]
                      /\ snap[j] \in [id : IDs, row : UserRow]
  BY <1>2, <1>5, UserRows
<1>8. DOMAIN snap = 1..n /\ snap \in [1..n -> [id : IDs, row : UserRow]]
  BY <1>2, <1>7
<1>9. snap \in Seq([id : IDs, row : UserRow])
  <2> HIDE DEF snap
  <2>1. QED
    BY <1>3, <1>8, SeqOfFunction
<1>10. \A id \in IDs : \A i \in DOMAIN db.users[id] :
           db.users[id][i].level < 1 => \E j \in DOMAIN snap : snap[j].id = id
  <2>1. SUFFICES ASSUME NEW id \in IDs, NEW i \in DOMAIN db.users[id],
                        db.users[id][i].level < 1
                 PROVE  \E j \in DOMAIN snap : snap[j].id = id
    OBVIOUS
  <2>2. PICK j \in 1..n : order[j] = <<id, i>>
    BY <1>4, <1>6, <2>1 DEF Surjection
  <2>3. snap[j].id = id
    BY <1>7, <2>2
  <2>4. QED
    BY <1>8, <2>3
<1>11. \A j \in DOMAIN snap : \E i \in DOMAIN db.users[snap[j].id] :
           db.users[snap[j].id][i].level < 1
  BY <1>5, <1>7, <1>8
<1>12. th \in [Threads -> Thread] /\ db' \in Database /\ db' = db
  BY <1>1, TypeParts DEF ControlTyped, ThreadsTyped, DataTyped
<1> HIDE DEF snap
<1>13. th' = [th EXCEPT ![t] = z] /\ z.pc = "user"
  BY <1>2, <1>12 DEF Thread, snap
<1>14. z \in Thread
  BY <1>9, <1>12 DEF Thread, PCs, DBPCs
<1>15. LocalsOK(z)
  BY <1>13 DEF LocalsOK, Writes
<1>16. DBChange(t, z, db')
  BY <1>1, <1>12, <1>13, <1>14, <1>15, TypeDBChange
<1>17. QED
  BY <1>1, <1>9, <1>10, <1>11, <1>12, <1>16

LEMMA TypeMigrate ==
    ASSUME TypeInv, NEW t \in Threads, MigrateUser(t)
    PROVE  /\ th[t].pc = "user"
           /\ \/ /\ th[t].snap = <<>>
                 /\ DBChange(t, [th[t] EXCEPT !.pc = "levels", !.todo = LevelNames], db)
              \/ DBChange(t, At(th[t], "addAttr"), db)
              \/ DBChange(t, At(th[t], "setLevel"), db)
<1>1. /\ th[t].pc = "user"
      /\ UNCHANGED <<cfg, proc, ca, lock, ilock, db, files, keystore, faults, removed>>
  BY DEF MigrateUser
<1>2. th \in [Threads -> Thread] /\ db' \in Database /\ db' = db
  BY <1>1, TypeParts DEF ControlTyped, ThreadsTyped, DataTyped
<1>3. CASE /\ th[t].snap = <<>>
           /\ th' = [th EXCEPT ![t].pc = "levels", ![t].todo = LevelNames]
  <2> DEFINE x == [th[t] EXCEPT !.pc = "levels", !.todo = LevelNames]
  <2>1. th' = [th EXCEPT ![t] = x] /\ x.pc = "levels" /\ x.todo = LevelNames
    BY <1>2, <1>3 DEF Thread
  <2>2. x \in Thread
    BY <1>2, ItemSets DEF Thread, PCs, DBPCs
  <2>3. LocalsOK(x)
    <3> HIDE DEF x
    <3>1. QED
      BY <2>1, Rows DEF LocalsOK, Writes
  <2>4. DBChange(t, x, db')
    <3> HIDE DEF x
    <3>1. QED
      BY <1>1, <1>2, <2>1, <2>2, <2>3, TypeDBChange
  <2>5. QED
    BY <1>1, <1>2, <1>3, <2>4
<1>4. ASSUME NEW pc \in {"addAttr", "setLevel"}, th[t].snap # <<>>, Goto(t, pc)
      PROVE  DBChange(t, At(th[t], pc), db)
  <2>1. LocalsOK(At(th[t], pc)) /\ pc \in PCs
    BY <1>2, <1>4 DEF LocalsOK, At, Thread, Writes, PCs, DBPCs
  <2>2. Moves(t, At(th[t], pc))
    BY <1>4, <2>1, MovesGoto
  <2>3. QED
    BY <1>1, <1>2, <2>2, TypeDBChange DEF Moves
<1>5. QED
  BY <1>1, <1>3, <1>4 DEF MigrateUser

LEMMA TypeUpdateUser ==
    ASSUME TypeInv, NEW t \in Threads, th[t].snap # <<>>,
           NEW new, DOMAIN new = DOMAIN db.users[Head(th[t].snap).id],
           new = [i \in DOMAIN new |-> new[i]], \A i \in DOMAIN new : new[i] \in UserRow,
           NEW rest \in Seq([id : IDs, row : UserRow]), NEW next \in {"setLevel", "user"},
           next = "setLevel" => rest # <<>>,
           UpdateUser(t, new, next, rest),
           UNCHANGED <<cfg, proc, ca, lock, ilock, files, keystore, faults, removed>>
    PROVE  /\ Head(th[t].snap).id \in IDs
           /\ db' = [db EXCEPT !.users[Head(th[t].snap).id] = new]
           /\ \/ DBChange(t, [th[t] EXCEPT !.pc = next, !.snap = rest], db')
              \/ DBChange(t, [th[t] EXCEPT !.pc = "finish", !.failed = TRUE], db')
<1> DEFINE id == Head(th[t].snap).id
           y == [th[t] EXCEPT !.pc = next, !.snap = rest]
           z == [th[t] EXCEPT !.pc = "finish", !.failed = TRUE]
<1>1. th \in [Threads -> Thread] /\ th[t] \in Thread
  BY TypeParts DEF ControlTyped, ThreadsTyped
<1>2. id \in IDs
  <2>1. th[t].snap \in Seq([id : IDs, row : UserRow])
    BY <1>1 DEF Thread
  <2>2. Head(th[t].snap) \in [id : IDs, row : UserRow]
    BY <2>1, TailSeq
  <2>3. QED
    BY <2>2
<1>3. new \in Seq(UserRow)
  BY <1>2, MapRows
<1>4. db' = [db EXCEPT !.users[id] = new]
  BY DEF UpdateUser
<1>5. db' \in Database
  <2> HIDE DEF id
  <2>1. QED
    BY <1>2, <1>3, <1>4, TypeParts DEF DataTyped, Database
<1>6. (th' = [th EXCEPT ![t] = y]) \/ (th' = [th EXCEPT ![t] = z])
  <2>1. CASE th' = [th EXCEPT ![t].pc = next, ![t].snap = rest]
    BY <1>1, <2>1 DEF Thread
  <2>2. CASE th' = [th EXCEPT ![t].pc = "finish", ![t].failed = TRUE]
    BY <1>1, <2>2 DEF Thread
  <2>3. QED
    BY <2>1, <2>2 DEF UpdateUser
<1>7. y \in Thread /\ y.pc = next /\ y.snap = rest
  BY <1>1 DEF Thread, PCs, DBPCs
<1>8. z \in Thread /\ z.pc = "finish"
  BY <1>1 DEF Thread, PCs, DBPCs
<1>9. LocalsOK(y) /\ LocalsOK(z)
  <2> HIDE DEF y, z
  <2>1. QED
    BY <1>7, <1>8 DEF LocalsOK, Writes
<1>10. DBChange(t, y, db') \/ DBChange(t, z, db')
  <2> HIDE DEF y, z
  <2>1. QED
    BY <1>5, <1>6, <1>7, <1>8, <1>9, TypeDBChange
<1>11. QED
  BY <1>2, <1>4, <1>10

\* The rows of the identity at the head of the list get a change.
Rewrites(t, new) ==
    /\ Head(th[t].snap).id \in IDs
    /\ db' = [db EXCEPT !.users[Head(th[t].snap).id] = new]
    /\ DOMAIN new = DOMAIN db.users[Head(th[t].snap).id]
    /\ new \in Seq(UserRow) /\ Len(new) = Len(db.users[Head(th[t].snap).id])

LEMMA TypeAddAttribute ==
    ASSUME TypeInv, NEW t \in Threads, AddAttribute(t)
    PROVE  /\ th[t].pc = "addAttr" /\ th[t].snap # <<>>
           /\ \E new : /\ Rewrites(t, new)
                       /\ \A i \in DOMAIN new :
                            new[i].level = db.users[Head(th[t].snap).id][i].level
           /\ \/ DBChange(t, At(th[t], "setLevel"), db')
              \/ DBChange(t, [th[t] EXCEPT !.pc = "finish", !.failed = TRUE], db')
<1> DEFINE id == Head(th[t].snap).id
           rows == db.users[id]
           new == [i \in DOMAIN rows |-> [rows[i] EXCEPT !.attrs = TRUE]]
<1>1. /\ th[t].pc = "addAttr" /\ UpdateUser(t, new, "setLevel", th[t].snap)
      /\ UNCHANGED <<cfg, proc, ca, lock, ilock, files, keystore, faults, removed>>
  BY DEF AddAttribute, RowsToMigrate
<1>2. th[t] \in Thread /\ th[t].snap # <<>>
  BY <1>1, TypeParts DEF ControlTyped, ThreadsTyped, LocalsOK
<1>3. th[t].snap \in Seq([id : IDs, row : UserRow])
  BY <1>2 DEF Thread
<1>4. id \in IDs
  <2>1. Head(th[t].snap) \in [id : IDs, row : UserRow]
    BY <1>2, <1>3, TailSeq
  <2>2. QED
    BY <2>1
<1>5. \A i \in DOMAIN new : new[i] \in UserRow /\ new[i].level = rows[i].level
  <2> HIDE DEF id
  <2>1. SUFFICES ASSUME NEW i \in DOMAIN rows
                 PROVE  new[i] \in UserRow /\ new[i].level = rows[i].level
    OBVIOUS
  <2>2. rows[i] \in UserRow
    BY <1>4, UserRows
  <2>3. QED
    BY <2>2 DEF UserRow
<1>6. DOMAIN new = DOMAIN rows /\ new = [i \in DOMAIN new |-> new[i]]
  OBVIOUS
<1> HIDE DEF new
<1>7. /\ db' = [db EXCEPT !.users[id] = new]
      /\ \/ DBChange(t, [th[t] EXCEPT !.pc = "setLevel", !.snap = th[t].snap], db')
         \/ DBChange(t, [th[t] EXCEPT !.pc = "finish", !.failed = TRUE], db')
  BY <1>1, <1>2, <1>3, <1>5, <1>6, TypeUpdateUser
<1>8. [th[t] EXCEPT !.pc = "setLevel", !.snap = th[t].snap] = At(th[t], "setLevel")
  BY <1>2 DEF Thread, At
<1>9. new \in Seq(UserRow) /\ Len(new) = Len(rows)
  BY <1>4, <1>5, <1>6, MapRows
<1>10. Rewrites(t, new)
  BY <1>4, <1>6, <1>7, <1>9 DEF Rewrites
<1>11. QED
  BY <1>1, <1>2, <1>5, <1>7, <1>8, <1>10

LEMMA TypeSetLevel ==
    ASSUME TypeInv, NEW t \in Threads, SetLevel(t)
    PROVE  /\ th[t].pc = "setLevel" /\ th[t].snap # <<>>
           /\ \E new : /\ Rewrites(t, new)
                       /\ \A i \in DOMAIN new : new[i].level = 1
           /\ \/ DBChange(t, [th[t] EXCEPT !.pc = "user", !.snap = Tail(th[t].snap)], db')
              \/ DBChange(t, [th[t] EXCEPT !.pc = "finish", !.failed = TRUE], db')
<1> DEFINE id == Head(th[t].snap).id
           rows == db.users[id]
           new == [i \in DOMAIN rows |-> [rows[i] EXCEPT !.level = 1]]
<1>1. /\ th[t].pc = "setLevel" /\ UpdateUser(t, new, "user", Tail(th[t].snap))
      /\ UNCHANGED <<cfg, proc, ca, lock, ilock, files, keystore, faults, removed>>
  BY DEF SetLevel, RowsToMigrate
<1>2. th[t] \in Thread /\ th[t].snap # <<>>
  BY <1>1, TypeParts DEF ControlTyped, ThreadsTyped, LocalsOK
<1>3. th[t].snap \in Seq([id : IDs, row : UserRow])
  BY <1>2 DEF Thread
<1>4. id \in IDs /\ Tail(th[t].snap) \in Seq([id : IDs, row : UserRow])
  <2>1. /\ Head(th[t].snap) \in [id : IDs, row : UserRow]
        /\ Tail(th[t].snap) \in Seq([id : IDs, row : UserRow])
    BY <1>2, <1>3, TailSeq
  <2>2. QED
    BY <2>1
<1>5. \A i \in DOMAIN new : new[i] \in UserRow /\ new[i].level = 1
  <2> HIDE DEF id
  <2>1. QED
    BY <1>4, UserRows DEF UserRow
<1>6. DOMAIN new = DOMAIN rows /\ new = [i \in DOMAIN new |-> new[i]]
  OBVIOUS
<1> HIDE DEF new
<1>7. /\ db' = [db EXCEPT !.users[id] = new]
      /\ \/ DBChange(t, [th[t] EXCEPT !.pc = "user", !.snap = Tail(th[t].snap)], db')
         \/ DBChange(t, [th[t] EXCEPT !.pc = "finish", !.failed = TRUE], db')
  BY <1>1, <1>2, <1>4, <1>5, <1>6, TypeUpdateUser
<1>9. new \in Seq(UserRow) /\ Len(new) = Len(rows)
  BY <1>4, <1>5, <1>6, MapRows
<1>10. Rewrites(t, new)
  BY <1>4, <1>6, <1>7, <1>9 DEF Rewrites
<1>11. QED
  BY <1>1, <1>2, <1>5, <1>7, <1>10

LEMMA TypeLevels ==
    ASSUME TypeInv, NEW t \in Threads, UpdateDBLevel(t)
    PROVE  /\ th[t].pc = "levels" /\ Head(th[t].todo) \in LevelRows
           /\ db' = [db EXCEPT !.props[Head(th[t].todo)] =
                                IF @ = NoLevel THEN @ ELSE ServerLevels[Head(th[t].todo)]]
           /\ \E x : Loops(t, x, "levels", "finish", <<>>) /\ DBChange(t, x, db')
<1> DEFINE n == Head(th[t].todo)
<1>1. /\ th[t].pc = "levels"
      /\ db' = [db EXCEPT !.props[n] = IF @ = NoLevel THEN @ ELSE ServerLevels[n]]
      /\ UNCHANGED <<cfg, proc, ca, lock, ilock, files, keystore, faults, removed>>
  BY DEF UpdateDBLevel
<1>2. th[t].todo \in Seq(LevelRows) \ {<<>>}
  BY <1>1, TypeParts DEF ControlTyped, ThreadsTyped, LocalsOK
<1>3. Loop(t, "levels", "finish", <<>>) /\ "levels" \in PCs /\ "finish" \in PCs
  BY DEF UpdateDBLevel, PCs, DBPCs
<1>4. LevelRows \subseteq Items /\ <<>> \in Seq(Items)
  BY ItemSets
<1>5. PICK x \in Thread :
          /\ th' = [th EXCEPT ![t] = x]
          /\ x.snap = th[t].snap /\ x.failed = th[t].failed /\ x.key = th[t].key
          /\ \/ x.pc = "levels" /\ x.todo = Tail(th[t].todo)
                /\ x.todo \in Seq(LevelRows) \ {<<>>} /\ Len(th[t].todo) > 1
             \/ x.pc = "finish" /\ x.todo = <<>> /\ Len(th[t].todo) = 1
  BY <1>2, <1>3, <1>4, LoopType
<1>6. LocalsOK(x)
  BY <1>5 DEF LocalsOK, Writes
<1>7. n \in LevelRows
  BY <1>2, TailSeq
<1>8. db' \in Database
  <2>1. ServerLevels[n] \in {0, 1}
    BY <1>7, ServerLevelsType
  <2> HIDE DEF n
  <2>2. QED
    BY <1>1, <1>7, <2>1, TypeParts DEF DataTyped, Database
<1>9. DBChange(t, x, db')
  BY <1>1, <1>5, <1>6, <1>8, TypeDBChange
<1>10. QED
  BY <1>1, <1>5, <1>7, <1>9 DEF Loops

LEMMA TypeFinish ==
    ASSUME TypeInv, NEW t \in Threads, FinishDB(t)
    PROVE  /\ TypeInv' /\ UNCHANGED <<cfg, proc, ilock, db, files, keystore, removed>>
           /\ th[t].pc = "finish" /\ Moves(t, At(Idle, After(t, ~th[t].failed)))
           /\ lock' = [lock EXCEPT ![Host(t)] = Free]
           /\ ca' = [ca EXCEPT ![Host(t)] = [ca[Host(t)] EXCEPT !.ready = ~th[t].failed]]
<1> DEFINE s == Host(t)
           c == [ca[s] EXCEPT !.ready = ~th[t].failed]
<1>1. s \in Servers /\ ca[s] \in CAObject /\ ca \in [Servers -> CAObject]
  BY HostType, TypeParts DEF TypeInv, ControlTyped
<1>2. th[t].failed \in BOOLEAN
  BY TypeParts DEF ControlTyped, ThreadsTyped, Thread
<1>3. ca' = [ca EXCEPT ![s] = c]
  BY <1>1 DEF FinishDB, CAObject
<1>4. c \in CAObject
  BY <1>1, <1>2 DEF CAObject
<1>5. /\ Moves(t, At(Idle, After(t, ~th[t].failed))) /\ ThreadsTyped'
      /\ lock' = [lock EXCEPT ![Host(t)] = Free]
      /\ lock' \in [Servers -> Threads \cup {Free}]
  BY <1>2, MovesReturn DEF FinishDB
<1>6. UNCHANGED <<cfg, proc, ilock, db, files, keystore, faults, removed>>
  BY DEF FinishDB
<1>7. DataTyped'
  BY <1>6, TypeParts DEF DataTyped
<1>8. TypeInv'
  BY <1>1, <1>3, <1>4, <1>5, <1>6, <1>7, SetCAType, TypeParts DEF ControlTyped
<1>9. QED
  BY <1>3, <1>5, <1>6, <1>8 DEF FinishDB

\* The issuer is there, or is not needed yet.
Passes(t) ==
    /\ Moves(t, At(Idle, IF t \in Servers THEN "idle" ELSE "serving"))
    /\ proc' = IF t \in Servers THEN [proc EXCEPT ![t] = "up"] ELSE proc

LEMMA MovesDone ==
    ASSUME TypeInv, NEW t \in Threads, IssuerDone(t)
    PROVE  /\ Passes(t) /\ ThreadsTyped' /\ proc' \in [Servers -> {"down", "starting", "up"}]
<1> DEFINE pc == IF t \in Servers THEN "idle" ELSE "serving"
<1>1. pc \in Plain
  BY DEF Plain, PCs, Writes
<1>2. th \in [Threads -> Thread] /\ ThreadsTyped
  BY TypeParts DEF ControlTyped, ThreadsTyped
<1>3. th' = [th EXCEPT ![t] = At(Idle, pc)] /\ ThreadsTyped'
  BY <1>1, <1>2, ResetType DEF IssuerDone, At
<1>4. Moves(t, At(Idle, pc))
  BY <1>2, <1>3 DEF Moves, ThreadsTyped
<1>5. QED
  BY <1>3, <1>4, TypeParts DEF IssuerDone, Passes, ControlTyped

LEMMA TypeInitIssuer ==
    ASSUME TypeInv, NEW t \in Threads, InitIssuer(t)
    PROVE  /\ TypeInv' /\ UNCHANGED <<cfg, ca, lock, ilock, db, files, keystore, removed>>
           /\ th[t].pc = "issuer"
           /\ Passes(t) \/ (Moves(t, At(th[t], "ilock")) /\ UNCHANGED proc)
<1>1. UNCHANGED <<cfg, ca, lock, ilock, db, files, keystore, faults, removed>>
  BY DEF InitIssuer
<1>2. CASE IssuerDone(t)
  <2>1. Passes(t) /\ ThreadsTyped' /\ proc' \in [Servers -> {"down", "starting", "up"}]
    BY <1>2, MovesDone
  <2>2. ControlTyped'
    BY <1>1, <2>1, TypeParts DEF ControlTyped
  <2>3. QED
    BY <1>1, <2>1, <2>2, SameData DEF InitIssuer
<1>3. CASE Goto(t, "ilock") /\ UNCHANGED proc
  <2>1. "ilock" \in Plain \cap PCs
    BY DEF Plain, PCs, Writes
  <2>2. Moves(t, At(th[t], "ilock")) /\ ThreadsTyped'
    BY <1>3, <2>1, MovesGoto
  <2>3. QED
    BY <1>1, <1>3, <2>2, SameData, SameControl DEF InitIssuer
<1>4. QED
  BY <1>2, <1>3 DEF InitIssuer

LEMMA TypeLockIssuer ==
    ASSUME TypeInv, NEW t \in Threads, LockIssuer(t)
    PROVE  /\ TypeInv' /\ UNCHANGED <<cfg, lock, db, files, keystore, removed>>
           /\ th[t].pc = "ilock" /\ ilock[Host(t)] = Free
           /\ \/ Passes(t) /\ UNCHANGED <<ca, ilock>>
              \/ /\ ~ca[Host(t)].issuerReady /\ ca[Host(t)].ready
                 /\ Moves(t, At(th[t], "issuerKey")) /\ UNCHANGED proc
                 /\ ilock' = [ilock EXCEPT ![Host(t)] = t]
                 /\ ca' = [ca EXCEPT ![Host(t)] =
                             [ca[Host(t)] EXCEPT !.issuerDB = ca[Host(t)].db]]
<1>1. /\ UNCHANGED <<cfg, lock, db, files, keystore, faults, removed>>
      /\ th[t].pc = "ilock" /\ ilock[Host(t)] = Free
  BY DEF LockIssuer
<1>2. DataTyped'
  BY <1>1, TypeParts DEF DataTyped
<1>3. CASE IssuerDone(t) /\ UNCHANGED <<ca, ilock>>
  <2>1. Passes(t) /\ ThreadsTyped' /\ proc' \in [Servers -> {"down", "starting", "up"}]
    BY <1>3, MovesDone
  <2>2. ControlTyped'
    BY <1>1, <1>3, <2>1, TypeParts DEF ControlTyped
  <2>3. QED
    BY <1>1, <1>3, <2>1, <2>2, SameData
<1>4. CASE /\ ~ca[Host(t)].issuerReady /\ ca[Host(t)].ready
           /\ ilock' = [ilock EXCEPT ![Host(t)] = t]
           /\ ca' = [ca EXCEPT ![Host(t)].issuerDB = ca[Host(t)].db]
           /\ Goto(t, "issuerKey") /\ UNCHANGED proc
  <2> DEFINE s == Host(t)
             c == [ca[s] EXCEPT !.issuerDB = ca[s].db]
  <2>1. s \in Servers /\ ca[s] \in CAObject /\ ca \in [Servers -> CAObject]
    BY HostType, TypeParts DEF TypeInv, ControlTyped
  <2>2. ca' = [ca EXCEPT ![s] = c]
    BY <1>4, <2>1 DEF CAObject
  <2>3. c \in CAObject
    BY <2>1 DEF CAObject
  <2>4. "issuerKey" \in Plain \cap PCs
    BY DEF Plain, PCs, IssuerPCs, Writes
  <2>5. Moves(t, At(th[t], "issuerKey")) /\ ThreadsTyped'
    BY <1>4, <2>4, MovesGoto
  <2>6. TypeInv'
    BY <1>1, <1>2, <1>4, <2>1, <2>2, <2>3, <2>5, SetCAType, TypeParts DEF ControlTyped
  <2>7. QED
    BY <1>1, <1>4, <2>2, <2>5, <2>6
<1>5. QED
  BY <1>3, <1>4 DEF LockIssuer

\* The issuer of a request could not be initialized.
Drops(t) ==
    /\ t \notin Servers /\ Moves(t, Idle) /\ UNCHANGED <<proc, ca, lock>>
    /\ ilock' = [ilock EXCEPT ![Host(t)] = Free]

LEMMA TypeIssuerFailed ==
    ASSUME TypeInv, NEW t \in Threads, IssuerFailed(t), DataTyped', UNCHANGED cfg
    PROVE  TypeInv' /\ ((t \in Servers /\ Exit(t)) \/ Drops(t))
<1>1. CASE t \in Servers /\ Exit(t)
  BY <1>1, TypeExit
<1>2. CASE /\ t \notin Servers /\ ilock' = [ilock EXCEPT ![Host(t)] = Free]
           /\ th' = [th EXCEPT ![t] = Idle] /\ UNCHANGED <<proc, ca, lock>>
  <2>1. Moves(t, Idle) /\ ThreadsTyped'
    BY <1>2, IdleType, MovesTo
  <2>2. ControlTyped'
    BY <1>2, <2>1, TypeParts, HostType DEF ControlTyped
  <2>3. TypeInv'
    BY <2>2, TypeParts DEF TypeInv, TypeOK, ControlTyped, DataTyped, ThreadsTyped
  <2>4. QED
    BY <1>2, <2>1, <2>3 DEF Drops
<1>3. QED
  BY <1>1, <1>2 DEF IssuerFailed

LEMMA TypeKeyFiles ==
    ASSUME TypeInv, NEW t \in Threads, NEW at, NEW pub \in FileNames, NEW priv \in FileNames,
           NEW first \in {"storeIpk", "storeRpriv"}, NEW next \in {"revKey", "raInfo"},
           NEW loaded \in CAObject,
           KeyFiles(t, at, pub, priv, first, next, loaded)
    PROVE  /\ TypeInv' /\ UNCHANGED <<cfg, db, files, keystore, removed>> /\ th[t].pc = at
           /\ \/ /\ files[Host(t)][pub] \notin {Absent, Empty}
                 /\ files[Host(t)][priv] \notin {Absent, Empty}
                 /\ ca' = [ca EXCEPT ![Host(t)] = loaded]
                 /\ Moves(t, At(th[t], next)) /\ UNCHANGED <<proc, lock, ilock>>
              \/ (t \in Servers /\ Exit(t)) \/ Drops(t)
              \/ /\ Absent \in {files[Host(t)][pub], files[Host(t)][priv]}
                 /\ \E k \in Keys : Moves(t, [th[t] EXCEPT !.key = k, !.pc = first])
                 /\ UNCHANGED <<proc, ca, lock, ilock>>
<1> DEFINE s == Host(t)
<1>1. UNCHANGED <<cfg, db, files, keystore, faults, removed>> /\ th[t].pc = at
  BY DEF KeyFiles
<1>2. DataTyped'
  BY <1>1, TypeParts DEF DataTyped
<1>3. s \in Servers
  BY HostType DEF TypeInv
<1>4. CASE /\ Exists(s, pub) /\ Exists(s, priv) /\ Loadable(s, pub, priv)
           /\ ca' = [ca EXCEPT ![s] = loaded] /\ Goto(t, next) /\ UNCHANGED <<proc, lock, ilock>>
  <2>1. next \in Plain \cap PCs
    BY DEF Plain, PCs, IssuerPCs, Writes
  <2>2. Moves(t, At(th[t], next)) /\ ThreadsTyped'
    BY <1>4, <2>1, MovesGoto
  <2>3. TypeInv'
    BY <1>1, <1>2, <1>3, <1>4, <2>2, SetCAType, TypeParts DEF ControlTyped
  <2>4. QED
    BY <1>1, <1>4, <2>2, <2>3 DEF Exists, Loadable
<1>5. CASE IssuerFailed(t)
  BY <1>1, <1>2, <1>5, TypeIssuerFailed
<1>6. CASE /\ ~(Exists(s, pub) /\ Exists(s, priv)) /\ ~(Keys \subseteq UsedKeys(s))
           /\ th' = [th EXCEPT ![t].key = NewKey(s), ![t].pc = first]
           /\ UNCHANGED <<proc, ca, lock, ilock>>
  <2> DEFINE k == NewKey(s)
             x == [th[t] EXCEPT !.key = k, !.pc = first]
  <2>1. k \in Keys
    BY <1>6, NewKeyType
  <2>2. th \in [Threads -> Thread] /\ first \in PCs
    BY TypeParts DEF ControlTyped, ThreadsTyped, PCs, IssuerPCs
  <2>3. th' = [th EXCEPT ![t] = x] /\ x.pc = first /\ x.key = k
    BY <1>6, <2>2 DEF Thread
  <2>4. x \in Thread
    <3> HIDE DEF k
    <3>1. QED
      BY <2>1, <2>2 DEF Thread
  <2>5. LocalsOK(x)
    <3> HIDE DEF x, k
    <3>1. QED
      BY <2>1, <2>3 DEF LocalsOK
  <2>6. Moves(t, x) /\ ThreadsTyped'
    BY <2>3, <2>4, <2>5, MovesTo
  <2>7. TypeInv'
    BY <1>1, <1>6, <2>6, SameControl, SameData
  <2>8. QED
    BY <1>1, <1>6, <2>1, <2>6, <2>7 DEF Exists
<1>7. QED
  BY <1>4, <1>5, <1>6 DEF KeyFiles

IssuerLoaded(c, f) == [c EXCEPT !.issuerKey = [pub |-> f["ipk"], priv |-> f["isk"]]]
RevLoaded(c, f) == [c EXCEPT !.revKey = [pub |-> f["rpub"], priv |-> f["rpriv"]]]

LEMMA LoadedType ==
    ASSUME TypeInv, NEW s \in Servers
    PROVE  IssuerLoaded(ca[s], files[s]) \in CAObject /\ RevLoaded(ca[s], files[s]) \in CAObject
<1>1. ca[s] \in CAObject /\ files[s] \in Home
  BY TypeParts DEF ControlTyped, DataTyped
<1>2. \A n \in FileNames : files[s][n] \in Int
  <2>1. \A n \in FileNames : files[s][n] \in Keys \cup {Absent, Empty}
    BY <1>1 DEF Home
  <2>2. Keys \subseteq Int
    BY DEF Keys
  <2>3. Absent \in Int /\ Empty \in Int
    BY DEF Absent, Empty
  <2>4. QED
    BY <2>1, <2>2, <2>3
<1>3. {"ipk", "isk", "rpub", "rpriv"} \subseteq FileNames
  BY DEF FileNames
<1>4. QED
  BY <1>1, <1>2, <1>3 DEF IssuerLoaded, RevLoaded, CAObject

LEMMA TypeStoreIssuer ==
    ASSUME TypeInv, NEW t \in Threads, StoreIssuerKey(t)
    PROVE  LET s == Host(t) k == th[t].key IN
           /\ TypeInv' /\ UNCHANGED <<cfg, proc, lock, ilock, db, keystore, removed>> /\ k \in Keys
           /\ \/ /\ th[t].pc = "storeIpk" /\ Moves(t, At(th[t], "storeIsk")) /\ UNCHANGED ca
                 /\ files' = [files EXCEPT ![s] = [files[s] EXCEPT !["ipk"] = k]]
              \/ /\ th[t].pc = "storeIsk" /\ Moves(t, At(th[t], "revKey"))
                 /\ files' = [files EXCEPT ![s] = [files[s] EXCEPT !["isk"] = k]]
                 /\ ca' = [ca EXCEPT ![s] = [ca[s] EXCEPT !.issuerKey = [pub |-> k, priv |-> k]]]
<1> DEFINE s == Host(t)
           k == th[t].key
           c == [ca[s] EXCEPT !.issuerKey = [pub |-> k, priv |-> k]]
<1>1. UNCHANGED <<cfg, proc, lock, ilock, db, keystore, faults, removed>>
  BY DEF StoreIssuerKey
<1>2. s \in Servers /\ ca[s] \in CAObject /\ ca \in [Servers -> CAObject] /\ th[t] \in Thread
  BY HostType, TypeParts DEF TypeInv, ControlTyped, ThreadsTyped
<1>3. th[t].pc \in {"storeIpk", "storeIsk"}
  BY DEF StoreIssuerKey
<1>4. k \in Keys /\ k \in Int
  BY <1>3, TypeParts, Constants DEF ControlTyped, ThreadsTyped, LocalsOK, Writes
<1>5. c \in CAObject
  <2> HIDE DEF k
  <2>1. QED
    BY <1>2, <1>4 DEF CAObject
<1>6. CASE th[t].pc = "storeIpk" /\ Put(s, "ipk", k) /\ Goto(t, "storeIsk") /\ UNCHANGED ca
  <2>1. LocalsOK(At(th[t], "storeIsk")) /\ "storeIsk" \in PCs /\ "ipk" \in FileNames
    BY <1>2, <1>4 DEF LocalsOK, At, Thread, PCs, IssuerPCs, FileNames
  <2>2. Moves(t, At(th[t], "storeIsk")) /\ ThreadsTyped'
    BY <1>6, <2>1, MovesGoto
  <2>3. /\ files' = [files EXCEPT ![s] = [files[s] EXCEPT !["ipk"] = k]]
        /\ files' \in [Servers -> Home]
    BY <1>2, <1>4, <1>6, <2>1, PutType
  <2>4. TypeInv'
    BY <1>1, <1>6, <2>2, <2>3, SameControl, TypeParts DEF TypeInv, TypeOK, ControlTyped,
       DataTyped, ThreadsTyped
  <2>5. QED
    BY <1>1, <1>4, <1>6, <2>2, <2>3, <2>4
<1>7. CASE /\ th[t].pc = "storeIsk" /\ Put(s, "isk", k) /\ Goto(t, "revKey")
           /\ ca' = [ca EXCEPT ![s].issuerKey = [pub |-> k, priv |-> k]]
  <2>1. "revKey" \in Plain \cap PCs /\ "isk" \in FileNames
    BY DEF Plain, PCs, IssuerPCs, Writes, FileNames
  <2>2. Moves(t, At(th[t], "revKey")) /\ ThreadsTyped'
    BY <1>7, <2>1, MovesGoto
  <2>3. /\ files' = [files EXCEPT ![s] = [files[s] EXCEPT !["isk"] = k]]
        /\ files' \in [Servers -> Home]
    BY <1>2, <1>4, <1>7, <2>1, PutType
  <2>4. ca' = [ca EXCEPT ![s] = c]
    BY <1>2, <1>7 DEF CAObject
  <2>5. DataTyped'
    BY <1>1, <2>3, TypeParts DEF DataTyped
  <2>6. TypeInv'
    BY <1>1, <1>2, <1>5, <2>2, <2>4, <2>5, SetCAType, TypeParts DEF ControlTyped
  <2>7. QED
    BY <1>1, <1>4, <1>7, <2>2, <2>3, <2>4, <2>6
<1>8. QED
  BY <1>6, <1>7 DEF StoreIssuerKey

LEMMA TypeStoreRevocation ==
    ASSUME TypeInv, NEW t \in Threads, StoreRevocationKey(t)
    PROVE  LET s == Host(t) k == th[t].key IN
           /\ TypeInv' /\ UNCHANGED <<cfg, proc, lock, ilock, db, keystore, removed>> /\ k \in Keys
           /\ \/ /\ th[t].pc = "storeRpriv" /\ Moves(t, At(th[t], "storeRpub")) /\ UNCHANGED ca
                 /\ files' = [files EXCEPT ![s] = [files[s] EXCEPT !["rpriv"] = k]]
              \/ /\ th[t].pc = "storeRpub" /\ Moves(t, At(th[t], "raInfo"))
                 /\ files' = [files EXCEPT ![s] = [files[s] EXCEPT !["rpub"] = k]]
                 /\ ca' = [ca EXCEPT ![s] = [ca[s] EXCEPT !.revKey = [pub |-> k, priv |-> k]]]
<1> DEFINE s == Host(t)
           k == th[t].key
           c == [ca[s] EXCEPT !.revKey = [pub |-> k, priv |-> k]]
<1>1. UNCHANGED <<cfg, proc, lock, ilock, db, keystore, faults, removed>>
  BY DEF StoreRevocationKey
<1>2. s \in Servers /\ ca[s] \in CAObject /\ ca \in [Servers -> CAObject] /\ th[t] \in Thread
  BY HostType, TypeParts DEF TypeInv, ControlTyped, ThreadsTyped
<1>3. th[t].pc \in {"storeRpriv", "storeRpub"}
  BY DEF StoreRevocationKey
<1>4. k \in Keys /\ k \in Int
  BY <1>3, TypeParts, Constants DEF ControlTyped, ThreadsTyped, LocalsOK, Writes
<1>5. c \in CAObject
  <2> HIDE DEF k
  <2>1. QED
    BY <1>2, <1>4 DEF CAObject
<1>6. CASE th[t].pc = "storeRpriv" /\ Put(s, "rpriv", k) /\ Goto(t, "storeRpub") /\ UNCHANGED ca
  <2>1. LocalsOK(At(th[t], "storeRpub")) /\ "storeRpub" \in PCs /\ "rpriv" \in FileNames
    BY <1>2, <1>4 DEF LocalsOK, At, Thread, PCs, IssuerPCs, FileNames
  <2>2. Moves(t, At(th[t], "storeRpub")) /\ ThreadsTyped'
    BY <1>6, <2>1, MovesGoto
  <2>3. /\ files' = [files EXCEPT ![s] = [files[s] EXCEPT !["rpriv"] = k]]
        /\ files' \in [Servers -> Home]
    BY <1>2, <1>4, <1>6, <2>1, PutType
  <2>4. TypeInv'
    BY <1>1, <1>6, <2>2, <2>3, SameControl, TypeParts DEF TypeInv, TypeOK, ControlTyped,
       DataTyped, ThreadsTyped
  <2>5. QED
    BY <1>1, <1>4, <1>6, <2>2, <2>3, <2>4
<1>7. CASE /\ th[t].pc = "storeRpub" /\ Put(s, "rpub", k) /\ Goto(t, "raInfo")
           /\ ca' = [ca EXCEPT ![s].revKey = [pub |-> k, priv |-> k]]
  <2>1. "raInfo" \in Plain \cap PCs /\ "rpub" \in FileNames
    BY DEF Plain, PCs, IssuerPCs, Writes, FileNames
  <2>2. Moves(t, At(th[t], "raInfo")) /\ ThreadsTyped'
    BY <1>7, <2>1, MovesGoto
  <2>3. /\ files' = [files EXCEPT ![s] = [files[s] EXCEPT !["rpub"] = k]]
        /\ files' \in [Servers -> Home]
    BY <1>2, <1>4, <1>7, <2>1, PutType
  <2>4. ca' = [ca EXCEPT ![s] = c]
    BY <1>2, <1>7 DEF CAObject
  <2>5. DataTyped'
    BY <1>1, <2>3, TypeParts DEF DataTyped
  <2>6. TypeInv'
    BY <1>1, <1>2, <1>5, <2>2, <2>4, <2>5, SetCAType, TypeParts DEF ControlTyped
  <2>7. QED
    BY <1>1, <1>4, <1>7, <2>2, <2>3, <2>4, <2>6
<1>8. QED
  BY <1>6, <1>7 DEF StoreRevocationKey

\* The issuer of Host(t) is initialized.
Readies(t) ==
    /\ Passes(t) /\ UNCHANGED lock
    /\ ca' = [ca EXCEPT ![Host(t)] = [ca[Host(t)] EXCEPT !.issuerReady = TRUE]]
    /\ ilock' = [ilock EXCEPT ![Host(t)] = Free]

LEMMA TypeIssuerReady ==
    ASSUME TypeInv, NEW t \in Threads, IssuerReady(t), DataTyped', UNCHANGED cfg
    PROVE  TypeInv' /\ Readies(t)
<1> DEFINE s == Host(t)
           c == [ca[s] EXCEPT !.issuerReady = TRUE]
<1>1. s \in Servers /\ ca[s] \in CAObject /\ ca \in [Servers -> CAObject]
  BY HostType, TypeParts DEF TypeInv, ControlTyped
<1>2. Passes(t) /\ ThreadsTyped' /\ proc' \in [Servers -> {"down", "starting", "up"}]
  BY MovesDone DEF IssuerReady
<1>3. ca' = [ca EXCEPT ![s] = c]
  BY <1>1 DEF IssuerReady, CAObject
<1>4. c \in CAObject
  BY <1>1 DEF CAObject
<1>5. UNCHANGED lock /\ ilock' = [ilock EXCEPT ![s] = Free]
  BY DEF IssuerReady
<1>6. ilock' \in [Servers -> Threads \cup {Free}] /\ lock' \in [Servers -> Threads \cup {Free}]
  BY <1>5, TypeParts DEF ControlTyped
<1>7. TypeInv'
  BY <1>1, <1>2, <1>3, <1>4, <1>6, SetCAType
<1>8. QED
  BY <1>2, <1>3, <1>5, <1>7 DEF Readies

LEMMA TypeGetRAInfo ==
    ASSUME TypeInv, NEW t \in Threads, GetRAInfo(t)
    PROVE  /\ TypeInv' /\ UNCHANGED <<cfg, db, files, keystore, removed>> /\ th[t].pc = "raInfo"
           /\ \/ Readies(t)
              \/ Moves(t, At(th[t], "raInsert")) /\ UNCHANGED <<proc, ca, lock, ilock>>
<1>1. UNCHANGED <<cfg, db, files, keystore, faults, removed>> /\ th[t].pc = "raInfo"
  BY DEF GetRAInfo
<1>2. DataTyped'
  BY <1>1, TypeParts DEF DataTyped
<1>3. CASE IssuerReady(t)
  BY <1>1, <1>2, <1>3, TypeIssuerReady
<1>4. CASE Goto(t, "raInsert") /\ UNCHANGED <<proc, ca, lock, ilock>>
  <2>1. "raInsert" \in Plain \cap PCs
    BY DEF Plain, PCs, IssuerPCs, Writes
  <2>2. Moves(t, At(th[t], "raInsert")) /\ ThreadsTyped'
    BY <1>4, <2>1, MovesGoto
  <2>3. QED
    BY <1>1, <1>4, <2>2, SameData, SameControl
<1>5. QED
  BY <1>3, <1>4 DEF GetRAInfo

LEMMA TypeAddRAInfo ==
    ASSUME TypeInv, NEW t \in Threads, AddRAInfo(t)
    PROVE  /\ TypeInv' /\ UNCHANGED <<cfg, files, keystore, removed>> /\ th[t].pc = "raInsert"
           /\ db' = [db EXCEPT !.ra = TRUE]
           /\ Readies(t) \/ (t \in Servers /\ Exit(t)) \/ Drops(t)
<1>1. /\ UNCHANGED <<cfg, files, keystore, faults, removed>> /\ th[t].pc = "raInsert"
      /\ db' = [db EXCEPT !.ra = TRUE]
  BY DEF AddRAInfo
<1>2. DataTyped'
  BY <1>1, TypeParts DEF DataTyped, Database
<1>3. CASE IssuerReady(t)
  BY <1>1, <1>2, <1>3, TypeIssuerReady
<1>4. CASE IssuerFailed(t)
  BY <1>1, <1>2, <1>4, TypeIssuerFailed
<1>5. QED
  BY <1>3, <1>4 DEF AddRAInfo

LEMMA TypeServe ==
    ASSUME TypeInv, NEW t \in Handlers, Serve(t)
    PROVE  /\ TypeInv' /\ UNCHANGED <<cfg, proc, ca, lock, ilock, files, keystore>>
           /\ th[t].pc = "serving" /\ Moves(t, At(th[t], "idle"))
           /\ \/ UNCHANGED <<db, removed>>
              \/ \E id \in IDs :
                   /\ ~cfg.ldap
                   /\ Len(db.users[id]) = 1 /\ db.users[id][1].level = 1
                   /\ \E row \in UserRow :
                        /\ row.level = 1 /\ ~row.attrs
                        /\ db' = [db EXCEPT !.users[id] = <<row>>]
                   /\ removed' = removed \cup {id}
<1>1. "idle" \in Plain \cap PCs /\ t \in Threads
  BY DEF Plain, PCs, Writes, Threads
<1>2. Moves(t, At(th[t], "idle")) /\ ThreadsTyped'
  BY <1>1, MovesGoto DEF Serve
<1>3. UNCHANGED <<cfg, proc, ca, lock, ilock, files, keystore, faults>> /\ th[t].pc = "serving"
  BY DEF Serve
<1>4. CASE UNCHANGED <<db, removed>>
  BY <1>2, <1>3, <1>4, SameData, SameControl
<1>5. ASSUME NEW id \in IDs, ~cfg.ldap, Len(db.users[id]) = 1, db.users[id][1].level = 1,
             db' = [db EXCEPT !.users[id][1].attrs = FALSE], removed' = removed \cup {id}
      PROVE  /\ TypeInv'
             /\ \E row \in UserRow : /\ row.level = 1 /\ ~row.attrs
                                     /\ db' = [db EXCEPT !.users[id] = <<row>>]
  <2> DEFINE q == db.users[id]
             row == [q[1] EXCEPT !.attrs = FALSE]
  <2>1. q \in Seq(UserRow) /\ q[1] \in UserRow /\ db \in Database
    BY <1>5, UserRows, TypeParts DEF DataTyped
  <2>2. row \in UserRow /\ row.level = 1 /\ ~row.attrs
    BY <1>5, <2>1 DEF UserRow
  <2>3. db' = [db EXCEPT !.users[id] = [q EXCEPT ![1] = row]]
    BY <1>5, <2>1 DEF Database
  <2> HIDE DEF row
  <2>4. [q EXCEPT ![1] = row] = <<row>>
    BY <1>5, <2>1, <2>2
  <2>5. db' = [db EXCEPT !.users[id] = <<row>>]
    BY <2>3, <2>4
  <2>6. DataTyped'
    <3>1. <<row>> \in Seq(UserRow)
      BY <2>2
    <3> DEFINE one == <<row>>
    <3>2. db' = [db EXCEPT !.users[id] = one] /\ one \in Seq(UserRow)
      BY <2>5, <3>1
    <3> HIDE DEF one
    <3>i. id \in IDs
      BY <1>5
    <3>3. db' \in Database
      BY <2>1, <3>i, <3>2 DEF Database
    <3>4. QED
      BY <1>3, <1>5, <3>3, TypeParts DEF DataTyped
  <2>7. TypeInv'
    BY <1>2, <1>3, <2>6, SameControl, TypeParts DEF TypeInv, TypeOK, ControlTyped,
       DataTyped, ThreadsTyped
  <2>8. QED
    BY <2>2, <2>5, <2>7
<1>6. QED
  BY <1>2, <1>3, <1>4, <1>5 DEF Serve

LEMMA FileAtIs ==
    /\ DOMAIN FileAt = Writes
    /\ FileAt["writeChain"] = "chain" /\ FileAt["writeCert"] = "cert"
    /\ FileAt["storeIpk"] = "ipk" /\ FileAt["storeIsk"] = "isk"
    /\ FileAt["storeRpriv"] = "rpriv" /\ FileAt["storeRpub"] = "rpub"
    /\ \A pc \in Writes : FileAt[pc] \in FileNames
  BY DEF FileAt, Writes, FileNames

\* The file that thread t is writing is left empty.
Empties(t) ==
    files' = [files EXCEPT ![Host(t)] = [files[Host(t)] EXCEPT ![FileAt[th[t].pc]] = Empty]]

\* The connection could not be opened.
Closes(t) ==
    /\ Moves(t, At(Idle, After(t, FALSE))) /\ lock' = [lock EXCEPT ![Host(t)] = Free]
    /\ UNCHANGED <<proc, ilock>>
    /\ ca' = [ca EXCEPT ![Host(t)] = [ca[Host(t)] EXCEPT !.db = None]]

LEMMA EmptiesType ==
    ASSUME TypeInv, NEW t \in Threads, th[t].pc \in Writes, Empties(t)
    PROVE  files' \in [Servers -> Home]
<1>1. files \in [Servers -> Home] /\ Host(t) \in Servers
  BY HostType, TypeParts DEF TypeInv, DataTyped
<1>2. [files[Host(t)] EXCEPT ![FileAt[th[t].pc]] = Empty] \in Home
  BY <1>1, FileAtIs DEF Home
<1>3. QED
  BY <1>1, <1>2 DEF Empties

LEMMA TypeFails ==
    ASSUME TypeInv, NEW t \in Threads, StepFails(t)
    PROVE  LET pc == th[t].pc IN
           /\ TypeInv' /\ UNCHANGED <<cfg, db, keystore, removed>>
           /\ IF pc \in Writes THEN Empties(t) ELSE UNCHANGED files
           /\ \/ pc \in {"keys", "writeChain", "writeCert"} /\ Exit(Host(t))
              \/ pc \in {"createTables", "open"} /\ Closes(t)
              \/ pc \in {"schema", "schemaRest", "check", "lookup"} /\ GivesUp(t)
              \/ pc = "lookup" /\ t \in Servers /\ Exit(t)
              \/ pc = "lookup" /\ DBChange(t, At(th[t], "insert"), db)
              \/ /\ pc = "insert"
                 /\ DBChange(t, [th[t] EXCEPT !.failed = TRUE, !.pc = "affs",
                                              !.todo = Affiliations], db)
              \/ /\ pc = "affs"
                 /\ DBChange(t, [th[t] EXCEPT !.failed = TRUE, !.pc = "snapshot",
                                              !.todo = <<>>], db)
              \/ /\ pc \in {"snapshot", "addAttr", "setLevel", "levels"}
                 /\ DBChange(t, [th[t] EXCEPT !.failed = TRUE, !.pc = "finish"], db)
              \/ pc \in IssuerPCs /\ ((t \in Servers /\ Exit(t)) \/ Drops(t))
<1> DEFINE s == Host(t)
           pc == th[t].pc
<1>1. UNCHANGED <<cfg, db, keystore, removed>>
  BY DEF StepFails
<1>2. IF pc \in Writes THEN Empties(t) ELSE UNCHANGED files
  <2>1. files \in [Servers -> Home] /\ s \in Servers
    BY HostType, TypeParts DEF TypeInv, DataTyped
  <2>2. files' = IF pc \in Writes THEN [files EXCEPT ![s][FileAt[pc]] = Empty] ELSE files
    BY FileAtIs DEF StepFails
  <2>3. QED
    BY <2>1, <2>2 DEF Empties
<1>3. DataTyped'
  <2>1. files' \in [Servers -> Home]
    BY <1>2, EmptiesType, TypeParts DEF DataTyped
  <2>2. faults' \in 0..MaxFaults
    BY TypeParts, StartupConstantsOK DEF DataTyped, StepFails
  <2>3. QED
    BY <1>1, <2>1, <2>2, TypeParts DEF DataTyped
<1>4. s \in Servers /\ ca \in [Servers -> CAObject] /\ th \in [Threads -> Thread]
  BY HostType, TypeParts DEF TypeInv, ControlTyped, ThreadsTyped
<1>5. ASSUME NEW x \in Thread, LocalsOK(x), th' = [th EXCEPT ![t] = x],
             UNCHANGED <<proc, ca, lock, ilock>>, pc \notin Writes
      PROVE  TypeInv' /\ DBChange(t, x, db)
  <2>1. Moves(t, x) /\ ThreadsTyped'
    BY <1>5, MovesTo
  <2>2. TypeInv'
    BY <1>1, <1>3, <1>5, <2>1, SameControl, TypeParts DEF TypeInv, TypeOK, ControlTyped,
       DataTyped, ThreadsTyped
  <2>3. QED
    BY <1>1, <1>2, <1>5, <2>1, <2>2 DEF DBChange
<1>6. CASE pc \in {"keys", "writeChain", "writeCert"} /\ Exit(s)
  BY <1>1, <1>2, <1>3, <1>4, <1>6, TypeExit
<1>7. CASE /\ pc \in {"createTables", "open"} /\ ca' = [ca EXCEPT ![s].db = None]
           /\ ReturnDB(t, FALSE) /\ UNCHANGED <<proc, ilock>>
  <2> DEFINE c == [ca[s] EXCEPT !.db = None]
  <2>1. ca' = [ca EXCEPT ![s] = c]
    BY <1>4, <1>7 DEF CAObject
  <2>2. c \in CAObject
    BY <1>4 DEF CAObject
  <2>3. /\ Moves(t, At(Idle, After(t, FALSE))) /\ ThreadsTyped'
        /\ lock' = [lock EXCEPT ![Host(t)] = Free]
        /\ lock' \in [Servers -> Threads \cup {Free}]
    BY <1>7, MovesReturn
  <2>4. TypeInv'
    BY <1>1, <1>3, <1>4, <1>7, <2>1, <2>2, <2>3, SetCAType, TypeParts DEF ControlTyped
  <2>5. Closes(t)
    BY <1>7, <2>1, <2>3 DEF Closes
  <2>6. QED
    BY <1>1, <1>2, <1>7, <2>4, <2>5
<1>8. CASE /\ pc \in {"schema", "schemaRest", "check"}
           /\ ReturnDB(t, FALSE) /\ UNCHANGED <<proc, ca, ilock>>
  <2>1. GivesUp(t)
    BY <1>1, <1>3, <1>8, TypeGivesUp
  <2>2. QED
    BY <1>1, <1>2, <1>8, <2>1 DEF GivesUp
<1>9. CASE pc = "lookup" /\ NotFound(t)
  <2>1. UNCHANGED files
    BY <1>2, <1>9 DEF Writes
  <2>2. QED
    BY <1>1, <1>2, <1>3, <1>9, <2>1, TypeNotFound DEF DBChange
<1>10. CASE pc = "insert" /\ GiveUpUsers(t) /\ UNCHANGED <<proc, ca, lock, ilock>>
  <2>1. Moves(t, [th[t] EXCEPT !.failed = TRUE, !.pc = "affs", !.todo = Affiliations])
    BY <1>10, TypeGiveUpUsers
  <2>2. pc \notin Writes
    BY <1>10 DEF Writes
  <2>3. QED
    BY <1>1, <1>2, <1>5, <1>10, <2>1, <2>2 DEF Moves
<1>11. CASE /\ pc = "affs" /\ UNCHANGED <<proc, ca, lock, ilock>>
            /\ th' = [th EXCEPT ![t].failed = TRUE, ![t].pc = "snapshot", ![t].todo = <<>>]
  <2> DEFINE x == [th[t] EXCEPT !.failed = TRUE, !.pc = "snapshot", !.todo = <<>>]
  <2>1. th' = [th EXCEPT ![t] = x] /\ x.pc = "snapshot"
    BY <1>4, <1>11 DEF Thread
  <2>2. x \in Thread
    BY <1>4, ItemSets DEF Thread, PCs, DBPCs
  <2>3. LocalsOK(x) /\ pc \notin Writes
    BY <1>11, <2>1 DEF LocalsOK, Writes
  <2>4. TypeInv' /\ DBChange(t, x, db)
    BY <1>5, <1>11, <2>1, <2>2, <2>3
  <2>5. QED
    BY <1>1, <1>2, <1>11, <2>4
<1>12. CASE /\ pc \in {"snapshot", "addAttr", "setLevel", "levels"}
            /\ UNCHANGED <<proc, ca, lock, ilock>>
            /\ th' = [th EXCEPT ![t].failed = TRUE, ![t].pc = "finish"]
  <2> DEFINE x == [th[t] EXCEPT !.failed = TRUE, !.pc = "finish"]
  <2>1. th' = [th EXCEPT ![t] = x] /\ x.pc = "finish"
    BY <1>4, <1>12 DEF Thread
  <2>2. x \in Thread
    BY <1>4 DEF Thread, PCs, DBPCs
  <2>3. LocalsOK(x) /\ pc \notin Writes
    BY <1>12, <2>1 DEF LocalsOK, Writes
  <2>4. TypeInv' /\ DBChange(t, x, db)
    BY <1>5, <1>12, <2>1, <2>2, <2>3
  <2>5. QED
    BY <1>1, <1>2, <1>12, <2>4
<1>13. CASE /\ pc \in {"storeIpk", "storeIsk", "storeRpriv", "storeRpub", "raInfo", "raInsert"}
            /\ IssuerFailed(t)
  <2>1. pc \in IssuerPCs
    BY <1>13 DEF IssuerPCs
  <2>2. QED
    BY <1>1, <1>2, <1>3, <1>13, <2>1, TypeIssuerFailed
<1>14. QED
  BY <1>6, <1>7, <1>8, <1>9, <1>10, <1>11, <1>12, <1>13 DEF StepFails

LEMMA TypeCrash ==
    ASSUME TypeInv, NEW s \in Servers, Crash(s)
    PROVE  /\ TypeInv' /\ UNCHANGED <<cfg, db, keystore, removed>> /\ Exit(s)
           /\ \/ UNCHANGED files
              \/ \E t \in Threads : Host(t) = s /\ th[t].pc \in Writes /\ Empties(t)
<1>1. UNCHANGED <<cfg, db, keystore, removed>> /\ Exit(s)
  BY DEF Crash
<1>2. \/ UNCHANGED files
      \/ \E t \in Threads : Host(t) = s /\ th[t].pc \in Writes /\ Empties(t)
  <2>1. ASSUME NEW t \in Threads, Host(t) = s, th[t].pc \in Writes,
               Put(s, FileAt[th[t].pc], Empty)
        PROVE  Empties(t)
    BY <2>1, PutType, FileAtIs DEF Empties
  <2>2. QED
    BY <2>1, FileAtIs DEF Crash
<1>3. files' \in [Servers -> Home]
  BY <1>2, EmptiesType, TypeParts DEF DataTyped
<1>4. faults' \in 0..MaxFaults
  BY TypeParts, StartupConstantsOK DEF DataTyped, Crash
<1>5. DataTyped'
  BY <1>1, <1>3, <1>4, TypeParts DEF DataTyped
<1>6. QED
  BY <1>1, <1>2, <1>5, TypeExit

LEMMA TypeIssuerKey ==
    ASSUME TypeInv, NEW t \in Threads, IssuerKeyMaterial(t)
    PROVE  LET s == Host(t) IN
           /\ TypeInv' /\ UNCHANGED <<cfg, db, files, keystore, removed>> /\ th[t].pc = "issuerKey"
           /\ \/ /\ files[s]["ipk"] \notin {Absent, Empty} /\ files[s]["isk"] \notin {Absent, Empty}
                 /\ ca' = [ca EXCEPT ![s] = IssuerLoaded(ca[s], files[s])]
                 /\ Moves(t, At(th[t], "revKey")) /\ UNCHANGED <<proc, lock, ilock>>
              \/ (t \in Servers /\ Exit(t)) \/ Drops(t)
              \/ /\ Absent \in {files[s]["ipk"], files[s]["isk"]}
                 /\ \E k \in Keys : Moves(t, [th[t] EXCEPT !.key = k, !.pc = "storeIpk"])
                 /\ UNCHANGED <<proc, ca, lock, ilock>>
<1> DEFINE c == IssuerLoaded(ca[Host(t)], files[Host(t)])
<1>1. c \in CAObject
  BY HostType, LoadedType DEF TypeInv
<1>2. KeyFiles(t, "issuerKey", "ipk", "isk", "storeIpk", "revKey", c)
  BY DEF IssuerKeyMaterial, IssuerLoaded
<1>3. "ipk" \in FileNames /\ "isk" \in FileNames
  BY DEF FileNames
<1> HIDE DEF c
<1>4. QED
  BY <1>1, <1>2, <1>3, TypeKeyFiles DEF c

LEMMA TypeRevocationKey ==
    ASSUME TypeInv, NEW t \in Threads, RevocationKeyMaterial(t)
    PROVE  LET s == Host(t) IN
           /\ TypeInv' /\ UNCHANGED <<cfg, db, files, keystore, removed>> /\ th[t].pc = "revKey"
           /\ \/ /\ files[s]["rpub"] \notin {Absent, Empty} /\ files[s]["rpriv"] \notin {Absent, Empty}
                 /\ ca' = [ca EXCEPT ![s] = RevLoaded(ca[s], files[s])]
                 /\ Moves(t, At(th[t], "raInfo")) /\ UNCHANGED <<proc, lock, ilock>>
              \/ (t \in Servers /\ Exit(t)) \/ Drops(t)
              \/ /\ Absent \in {files[s]["rpub"], files[s]["rpriv"]}
                 /\ \E k \in Keys : Moves(t, [th[t] EXCEPT !.key = k, !.pc = "storeRpriv"])
                 /\ UNCHANGED <<proc, ca, lock, ilock>>
<1> DEFINE c == RevLoaded(ca[Host(t)], files[Host(t)])
<1>1. c \in CAObject
  BY HostType, LoadedType DEF TypeInv
<1>2. KeyFiles(t, "revKey", "rpub", "rpriv", "storeRpriv", "raInfo", c)
  BY DEF RevocationKeyMaterial, RevLoaded
<1>3. "rpub" \in FileNames /\ "rpriv" \in FileNames
  BY DEF FileNames
<1> HIDE DEF c
<1>4. QED
  BY <1>1, <1>2, <1>3, TypeKeyFiles DEF c

LEMMA TypeInit == Init => TypeInv
<1>1. SUFFICES ASSUME Init PROVE TypeInv
  OBVIOUS
<1>2. /\ cfg \in Config /\ cfg \in Configs /\ db = cfg.db /\ faults = cfg.faults
      /\ files = [s \in Servers |-> cfg.files] /\ keystore = [s \in Servers |-> {}]
      /\ removed = {}
  BY <1>1, ConfigsOK DEF Init
<1>3. cfg.db \in Database /\ cfg.faults \in 0..MaxFaults /\ cfg.files \in Home
  BY <1>2 DEF Config
<1>4. DataTyped
  BY <1>2, <1>3 DEF DataTyped
<1>5. ThreadsTyped
  BY <1>1, IdleType DEF ThreadsTyped, Init
<1>6. ControlTyped
  BY <1>1, <1>5, IdleType DEF Init, ControlTyped
<1>7. QED
  BY <1>2, <1>4, <1>6, TypeParts

LEMMA TypeOfStep == ASSUME TypeInv, NEW t \in Threads, Step(t) PROVE TypeInv'
<1>1. CASE \/ InitDB(t) \/ LockDB(t) \/ CreateSQLiteTables(t) \/ CreatePostgresTables(t)
           \/ CreateMySQLTables(t) \/ OpenDB(t)
  BY <1>1, TypeInitDB, TypeLockDB, TypeSQLiteTables, TypeTables, TypeOpenDB DEF DBChange
<1>2. CASE \/ UpdateSQLiteSchema(t) \/ AlterTables(t) \/ UpdateSchemaRest(t) \/ SetAccessors(t)
           \/ CheckDBLevels(t) \/ LookupUser(t) \/ InsertUser(t)
  BY <1>2, TypeSQLiteSchema, TypeAlterTables, TypeSchemaRest, TypeAccessors, TypeCheck,
     TypeLookup, TypeInsert DEF DBChange, GivesUp
<1>3. CASE \/ LoadAffiliation(t) \/ GetUserLessThanLevel(t) \/ MigrateUser(t) \/ AddAttribute(t)
           \/ SetLevel(t) \/ UpdateDBLevel(t) \/ FinishDB(t)
  BY <1>3, TypeAffiliation, TypeSnapshot, TypeMigrate, TypeAddAttribute, TypeSetLevel,
     TypeLevels, TypeFinish DEF DBChange
<1>4. CASE \/ InitIssuer(t) \/ LockIssuer(t) \/ IssuerKeyMaterial(t) \/ StoreIssuerKey(t)
           \/ RevocationKeyMaterial(t) \/ StoreRevocationKey(t) \/ GetRAInfo(t) \/ AddRAInfo(t)
  BY <1>4, TypeInitIssuer, TypeLockIssuer, TypeIssuerKey, TypeStoreIssuer, TypeRevocationKey,
     TypeStoreRevocation, TypeGetRAInfo, TypeAddRAInfo
<1>5. QED
  BY <1>1, <1>2, <1>3, <1>4 DEF Step

LEMMA TypeNext == ASSUME TypeInv, [Next]_vars PROVE TypeInv'
<1>1. ASSUME NEW s \in Servers, Start(s) \/ MainStep(s) \/ Crash(s) PROVE TypeInv'
  <2>1. s \in Threads
    BY DEF Threads
  <2>2. QED
    BY <1>1, <2>1, TypeStart, TypeConfig, TypeKeyMaterial, TypeWriteChain, TypeWriteCert,
       TypeSigner, TypeOfStep, TypeCrash DEF MainStep
<1>2. ASSUME NEW h \in Handlers, Request(h) \/ HandlerStep(h) PROVE TypeInv'
  <2>1. h \in Threads
    BY DEF Threads
  <2>2. QED
    BY <1>2, <2>1, TypeRequest, TypeGetCA, TypeServe, TypeOfStep DEF HandlerStep
<1>3. ASSUME NEW t \in Threads, StepFails(t) PROVE TypeInv'
  BY <1>3, TypeFails
<1>4. CASE UNCHANGED vars
  BY <1>4 DEF vars, TypeInv, TypeOK, LocalsOK
<1>5. QED
  BY <1>1, <1>2, <1>3, <1>4 DEF Next

\* Every variable keeps its type, and the fields of a thread and of the CA
\* object theirs: the loops of initDB never take the head of an empty list, and
\* no attempt runs out of connections to tell apart.
THEOREM StartupTypeCorrect == Spec => []TypeOK
<1>1. TypeInv => TypeOK
  BY DEF TypeInv
<1>2. QED
  BY <1>1, TypeInit, TypeNext, PTL DEF Spec, Safety

-----------------------------------------------------------------------------
(* Control.                                                                *)

Opened == DBPCs \ {"createTables", "open"}
Loading == Opened \ {"schema", "schemaRest", "accessors"}

\* Every object that uses the database uses the connection of ca.db.
Wired(c) ==
    /\ c.db # None /\ c.certs = c.db
    /\ ~cfg.ldap => c.registry = c.db
    /\ c.signer \in {-1, c.db}

PlaceOK(t) ==
    /\ th[t].pc # "idle" => proc[Host(t)] = IF t \in Servers THEN "starting" ELSE "up"
    /\ th[t].pc \in MainPCs => t \in Servers
    /\ th[t].pc \in {"getCA", "getCAReady", "serving"} => t \in Handlers

ThreadOK(t) ==
    LET pc == th[t].pc s == Host(t) c == ca[s] IN
    /\ pc \in DBPCs => lock[s] = t /\ ~c.ready
    /\ pc \in Opened => c.db # None
    /\ pc \in Loading => Wired(c)
    /\ pc \in IssuerPCs => /\ ilock[s] = t /\ c.ready
                           /\ ~c.issuerReady /\ c.issuerDB = c.db
    /\ pc \in {"issuer", "ilock"} /\ t \in Handlers => c.ready
    /\ pc = "serving" => c.ready
    /\ pc \in {"issuer", "ilock"} \cup IssuerPCs /\ t \in Servers => c.signer # -1

CAOK(s) ==
    LET c == ca[s] IN
    /\ c.ready => Wired(c)
    /\ c.issuerReady => c.ready /\ c.issuerDB = c.db
    /\ proc[s] = "up" => c.signer # -1
    /\ proc[s] = "down" => ~c.ready
    /\ proc[s] # "down" => \E h \in Handlers : Host(h) = s

Control ==
    /\ \A t \in Threads : PlaceOK(t) /\ ThreadOK(t)
    /\ \A s \in Servers : CAOK(s)
-----------------------------------------------------------------------------
(* Keys.                                                                   *)

HomeOK(s) ==
    LET f == files[s] IN
    /\ cfg.intermediate /\ f["cert"] \notin {Absent, Empty} => f["chain"] = f["cert"]
    /\ f["isk"] # Absent => f["ipk"] # Absent
    /\ f["isk"] \notin {Absent, Empty} => f["isk"] = f["ipk"]
    /\ f["rpub"] # Absent => f["rpriv"] # Absent
    /\ f["rpub"] \notin {Absent, Empty} => f["rpub"] = f["rpriv"]

CertUsable(s) ==
    /\ files[s]["cert"] \notin {Absent, Empty}
    /\ files[s]["cert"] \in keystore[s] \cup {files[s]["key"]}

IssuerKeyOK(s) == ca[s].issuerKey = [pub |-> files[s]["ipk"], priv |-> files[s]["ipk"]]
RevKeyOK(s) == ca[s].revKey = [pub |-> files[s]["rpub"], priv |-> files[s]["rpub"]]

BeforeCert == {"idle", "config", "keys", "writeChain", "writeCert"}

KeysOK(t) ==
    LET pc == th[t].pc s == Host(t) f == files[s] k == th[t].key IN
    /\ pc \in {"writeChain", "writeCert"} => f["cert"] = Absent /\ k \in keystore[s]
    /\ pc = "writeCert" /\ cfg.intermediate => f["chain"] = k
    /\ pc \notin BeforeCert /\ t \in Servers => CertUsable(s)
    /\ pc \in {"storeIpk", "storeIsk"} => f["isk"] = Absent
    /\ pc = "storeIsk" => f["ipk"] = k
    /\ pc \in {"storeRpriv", "storeRpub"} => f["rpub"] = Absent
    /\ pc = "storeRpub" => f["rpriv"] = k
    /\ pc \in {"revKey", "storeRpriv", "storeRpub", "raInfo", "raInsert"} => IssuerKeyOK(s)
    /\ pc \in {"raInfo", "raInsert"} => RevKeyOK(s)

KeyInv ==
    /\ \A t \in Threads : KeysOK(t)
    /\ \A s \in Servers :
         /\ HomeOK(s)
         /\ proc[s] = "up" => CertUsable(s)
         /\ ca[s].issuerReady => IssuerKeyOK(s) /\ RevKeyOK(s)
-----------------------------------------------------------------------------
(* Content.                                                                *)

HasLevel == \E n \in LevelRows : db.props[n] # NoLevel
LevelDone(n) == db.props[n] \in {ServerLevels[n], NoLevel}
Migrated(id) == db.users[id] # <<>> => db.users[id][1].level = 1

HasUsers == \A id \in BootstrapIDs : db.users[id] # <<>>
HasAffiliations == AffiliationsOfConfig \subseteq db.affs

Left(x, e) == \E j \in DOMAIN x.todo : x.todo[j] = e
Listed(x, id) == \E j \in DOMAIN x.snap : x.snap[j].id = id

Migrating == {"user", "addAttr", "setLevel"}
AfterUsers == {"affs", "snapshot", "levels", "finish"} \cup Migrating
AfterAffiliations == AfterUsers \ {"affs"}

SchemaOK(x) ==
    /\ x.pc = "createTables" => \A n \in AllTables : n \in db.tables \/ Left(x, n)
    /\ x.pc \in DBPCs \ {"createTables"} => db.tables = AllTables
    /\ x.pc \in Opened => HasLevel
    /\ x.pc \in Opened \ {"schema"} /\ cfg.driver = "sqlite3" => HasLevels

LoadOK(x) ==
    ~x.failed /\ ~cfg.ldap =>
        /\ x.pc \in {"lookup", "insert"} =>
             \A id \in BootstrapIDs : db.users[id] # <<>> \/ Left(x, id)
        /\ x.pc \in AfterUsers => HasUsers
        /\ x.pc = "affs" => \A a \in AffiliationsOfConfig : a \in db.affs \/ Left(x, a)
        /\ x.pc \in AfterAffiliations => HasAffiliations

MigrationOK(x) ==
    ~x.failed /\ ~cfg.ldap =>
        /\ x.pc \in Migrating => \A id \in IDs : Migrated(id) \/ Listed(x, id)
        /\ x.pc \in {"levels", "finish"} => \A id \in IDs : Migrated(id)
        /\ x.pc = "levels" => \A n \in LevelRows : LevelDone(n) \/ Left(x, n)
        /\ x.pc = "finish" => \A n \in LevelRows : LevelDone(n)

Complete ==
    /\ HasUsers /\ HasAffiliations
    /\ \A id \in IDs : Migrated(id)
    /\ \A n \in LevelRows : LevelDone(n)

ContentInv ==
    /\ \A t \in Threads : SchemaOK(th[t]) /\ LoadOK(th[t]) /\ MigrationOK(th[t])
    /\ \A s \in Servers : ca[s].ready =>
         /\ db.tables = AllTables /\ HasLevel
         /\ cfg.driver = "sqlite3" => HasLevels
         /\ ~cfg.ldap => Complete
-----------------------------------------------------------------------------
(* Grants.                                                                 *)

GrantInv ==
    ~Clustered =>
        /\ \A id \in removed :
             /\ db.users[id] # <<>>
             /\ Len(db.users[id]) = 1 =>
                  db.users[id][1].level = 1 /\ ~db.users[id][1].attrs
        /\ removed # {} /\ cfg.driver = "sqlite3" =>
             db.props["identity"] = ServerLevels["identity"]
        /\ \A t \in Threads : th[t].pc \in Migrating =>
             \A j \in DOMAIN th[t].snap :
                 th[t].snap[j].id \in removed => Len(db.users[th[t].snap[j].id]) # 1
-----------------------------------------------------------------------------
(* Control.                                                                *)

\* What a step of t may do to what other threads rely on: it takes or returns
\* a mutex only if no other thread holds it, changes the connections only
\* under the mutex of the CA (or alone, while the server starts), and the
\* issuer only under the mutex of the issuer.
Respects(t) ==
    LET s == Host(t) c == ca[s] d == ca'[s] IN
    /\ cfg' = cfg
    /\ th[t].pc # "idle"
    /\ \A u \in Threads : u # t => th'[u] = th[u]
    /\ \A r \in Servers : r # s =>
         proc'[r] = proc[r] /\ ca'[r] = ca[r] /\ lock'[r] = lock[r] /\ ilock'[r] = ilock[r]
    /\ t \in Servers \/ proc'[s] = proc[s]
    /\ lock'[s] = lock[s] \/ lock[s] \in {t, Free}
    /\ ilock'[s] = ilock[s] \/ ilock[s] \in {t, Free}
    /\ \/ t \in Servers \/ th[t].pc \in DBPCs
       \/ d.db = c.db /\ d.ready = c.ready /\ d.certs = c.certs /\ d.registry = c.registry
          /\ d.signer = c.signer
    /\ \/ t \in Servers \/ th[t].pc \in DBPCs \/ ilock[s] \in {t, Free}
       \/ d.issuerReady = c.issuerReady /\ d.issuerDB = c.issuerDB

\* Two threads of the same process that are busy are both requests.
LEMMA BothHandlers ==
    ASSUME TypeInv, Control, NEW t \in Threads, NEW u \in Threads, t # u, Host(t) = Host(u),
           th[t].pc # "idle", th[u].pc # "idle"
    PROVE  t \notin Servers /\ u \notin Servers
<1>1. PlaceOK(t) /\ PlaceOK(u)
  BY DEF Control
<1>2. t \in Servers => Host(t) = t
  BY HostType DEF TypeInv
<1>3. u \in Servers => Host(u) = u
  BY HostType DEF TypeInv
<1>4. QED
  BY <1>1, <1>2, <1>3 DEF PlaceOK

LEMMA HostKept == ASSUME cfg' = cfg, NEW t \in Threads PROVE Host(t)' = Host(t)
  BY DEF Host

LEMMA OtherThreads ==
    ASSUME TypeInv, Control, NEW t \in Threads, Respects(t), NEW u \in Threads, u # t
    PROVE  PlaceOK(u)' /\ ThreadOK(u)'
<1> DEFINE s == Host(u)
<1>1. th'[u] = th[u] /\ Host(u)' = s /\ s \in Servers /\ PlaceOK(u) /\ ThreadOK(u) /\ ThreadOK(t)
  BY HostKept, HostType DEF TypeInv, Control, Respects
<1>2. CASE s # Host(t)
  <2>1. proc'[s] = proc[s] /\ ca'[s] = ca[s] /\ lock'[s] = lock[s] /\ ilock'[s] = ilock[s]
    BY <1>1, <1>2 DEF Respects
  <2>2. cfg' = cfg
    BY DEF Respects
  <2> HIDE DEF s
  <2>3. PlaceOK(u)'
    BY <1>1, <2>1 DEF PlaceOK, s
  <2>4. ThreadOK(u)'
    BY <1>1, <2>1, <2>2 DEF ThreadOK, s, Wired
  <2>5. QED
    BY <2>3, <2>4
<1>3. CASE th[u].pc = "idle"
  BY <1>1, <1>3 DEF PlaceOK, ThreadOK, DBPCs, Opened, Loading, IssuerPCs, MainPCs
<1>4. CASE s = Host(t) /\ th[u].pc # "idle"
  <2>1. t \notin Servers /\ u \notin Servers
    BY <1>4, BothHandlers DEF Respects
  <2>2. PlaceOK(u)'
    BY <1>1, <1>4, <2>1 DEF PlaceOK, Respects
  <2>3. Free \notin Threads
    BY StartupConstantsOK DEF Threads
  <2>4. CASE th[t].pc \in DBPCs
    <3>1. lock[s] = t /\ ~ca[s].ready
      BY <1>1, <1>4, <2>4 DEF ThreadOK
    <3>2. th[u].pc \notin DBPCs \cup IssuerPCs \cup {"issuer", "ilock", "serving"}
      BY <1>1, <2>1, <3>1 DEF ThreadOK, Threads
    <3>3. QED
      BY <1>1, <2>1, <2>2, <3>2 DEF ThreadOK, Opened, Loading
  <2>5. CASE th[t].pc \notin DBPCs
    <3> DEFINE c == ca[s]
               d == ca'[s]
    <3>1. /\ d.db = c.db /\ d.ready = c.ready /\ d.certs = c.certs /\ d.registry = c.registry
          /\ d.signer = c.signer
      BY <1>4, <2>1, <2>5 DEF Respects
    <3>2. \/ ilock[s] \in {t, Free} /\ th[u].pc \notin IssuerPCs
          \/ d.issuerReady = c.issuerReady /\ d.issuerDB = c.issuerDB
      BY <1>1, <1>4, <2>1, <2>3, <2>5 DEF Respects, ThreadOK
    <3>3. th[u].pc \in DBPCs => lock'[s] = u
      BY <1>1, <1>4, <2>3 DEF Respects, ThreadOK
    <3>4. th[u].pc \in IssuerPCs => ilock'[s] = u
      BY <1>1, <1>4, <2>3 DEF Respects, ThreadOK
    <3>5. cfg' = cfg
      BY DEF Respects
    <3> HIDE DEF s
    <3>6. ThreadOK(u)'
      BY <1>1, <2>1, <3>1, <3>2, <3>3, <3>4, <3>5 DEF ThreadOK, s, Wired
    <3>7. QED
      BY <2>2, <3>6
  <2>6. QED
    BY <2>4, <2>5
<1>5. QED
  BY <1>2, <1>3, <1>4

LEMMA ControlFrame ==
    ASSUME TypeInv, Control, NEW t \in Threads, Respects(t), NEW s, s = Host(t),
           PlaceOK(t)', ThreadOK(t)', CAOK(s)'
    PROVE  Control'
<1>1. \A u \in Threads : PlaceOK(u)' /\ ThreadOK(u)'
  BY OtherThreads
<1>2. ASSUME NEW r \in Servers, r # s PROVE CAOK(r)'
  <2>1. ca'[r] = ca[r] /\ proc'[r] = proc[r] /\ cfg' = cfg /\ CAOK(r)
    BY <1>2 DEF Respects, Control
  <2>2. \A h \in Handlers : Host(h)' = Host(h)
    BY <2>1, HostKept DEF Threads
  <2>3. QED
    BY <2>1, <2>2 DEF CAOK, Wired
<1>3. QED
  BY <1>1, <1>2 DEF Control

LEMMA Typed ==
    ASSUME TypeInv, NEW t \in Threads
    PROVE  /\ Host(t) \in Servers /\ (t \in Servers => Host(t) = t)
           /\ th \in [Threads -> Thread] /\ th[t] \in Thread /\ LocalsOK(th[t])
           /\ proc \in [Servers -> {"down", "starting", "up"}]
           /\ ca \in [Servers -> CAObject] /\ ca[Host(t)] \in CAObject
           /\ lock \in [Servers -> Threads \cup {Free}]
           /\ ilock \in [Servers -> Threads \cup {Free}]
  BY HostType, TypeParts DEF TypeInv, ControlTyped, ThreadsTyped

LEMMA Moved ==
    ASSUME TypeInv, NEW t \in Threads, NEW x, Moves(t, x)
    PROVE  th'[t] = x /\ \A u \in Threads : u # t => th'[u] = th[u]
  BY TypeParts DEF ControlTyped, ThreadsTyped, Moves

LEMMA AtIs ==
    ASSUME NEW x \in Thread, NEW pc
    PROVE  /\ At(x, pc).pc = pc /\ At(x, pc).todo = x.todo /\ At(x, pc).snap = x.snap
           /\ At(x, pc).failed = x.failed /\ At(x, pc).key = x.key
  BY DEF At, Thread

LEMMA IdleIs ==
    ASSUME NEW pc
    PROVE  /\ At(Idle, pc).pc = pc /\ At(Idle, pc).todo = <<>> /\ At(Idle, pc).snap = <<>>
           /\ At(Idle, pc).failed = FALSE /\ At(Idle, pc).key = 0
  BY DEF At, Idle

\* The step changes no variable that the invariant of the control flow is about,
\* but the place of t.
Quiet == UNCHANGED <<cfg, proc, ca, lock, ilock>>

LEMMA ControlQuiet ==
    ASSUME TypeInv, Control, NEW t \in Threads, NEW x, Moves(t, x), Quiet,
           PlaceOK(t)', ThreadOK(t)'
    PROVE  Control'
<1>1. ASSUME NEW u \in Threads, u # t PROVE PlaceOK(u)' /\ ThreadOK(u)'
  <2>1. th'[u] = th[u] /\ Host(u)' = Host(u) /\ PlaceOK(u) /\ ThreadOK(u)
    BY <1>1, Moved, HostKept DEF Control, Quiet
  <2>2. QED
    BY <2>1 DEF Quiet, PlaceOK, ThreadOK, Wired
<1>2. ASSUME NEW r \in Servers PROVE CAOK(r)'
  <2>1. CAOK(r) /\ \A h \in Handlers : Host(h)' = Host(h)
    BY HostKept DEF Control, Threads, Quiet
  <2>2. QED
    BY <2>1 DEF CAOK, Wired, Quiet
<1>3. QED
  BY <1>1, <1>2 DEF Control

\* Places where nothing is known of the CA object.
Neutral == {"idle", "getCA", "getCAReady", "initDB", "initDBReady", "lock"} \cup MainPCs

LEMMA NeutralOK ==
    ASSUME NEW t \in Threads, th'[t].pc \in Neutral
    PROVE  ThreadOK(t)'
  BY DEF Neutral, ThreadOK, MainPCs, DBPCs, Opened, Loading, IssuerPCs

LEMMA PlaceKept ==
    ASSUME TypeInv, Control, NEW t \in Threads, cfg' = cfg, th[t].pc # "idle",
           proc'[Host(t)] = proc[Host(t)],
           th'[t].pc \in MainPCs => t \in Servers,
           th'[t].pc \in {"getCA", "getCAReady", "serving"} => t \in Handlers
    PROVE  PlaceOK(t)'
  BY HostKept DEF Control, PlaceOK

LEMMA ControlNeutral ==
    ASSUME TypeInv, Control, NEW t \in Threads, NEW x, Moves(t, x), Quiet, th[t].pc # "idle",
           x.pc \in Neutral, x.pc \in MainPCs => t \in Servers,
           x.pc \in {"getCA", "getCAReady"} => t \in Handlers
    PROVE  Control'
<1>1. th'[t].pc = x.pc /\ cfg' = cfg /\ proc' = proc
  BY Moved DEF Quiet
<1>2. x.pc # "serving"
  BY DEF Neutral, MainPCs
<1>3. ThreadOK(t)' /\ PlaceOK(t)'
  BY <1>1, <1>2, NeutralOK, PlaceKept
<1>4. QED
  BY <1>3, ControlQuiet

\* A step from one place of initDB to another one.
LEMMA ControlInDB ==
    ASSUME TypeInv, Control, NEW t \in Threads, NEW x, Moves(t, x), Quiet,
           th[t].pc \in DBPCs, x.pc \in DBPCs, x.pc \in Opened => th[t].pc \in Opened,
           x.pc \in Loading => th[t].pc \in Loading
    PROVE  Control'
<1>1. th'[t].pc = x.pc /\ cfg' = cfg /\ proc' = proc /\ Host(t)' = Host(t)
  BY Moved, HostKept DEF Quiet
<1>2. th[t].pc # "idle" /\ x.pc \notin MainPCs \cup {"getCA", "getCAReady", "serving"}
  BY DEF DBPCs, MainPCs
<1>3. PlaceOK(t)'
  BY <1>1, <1>2, PlaceKept
<1>4. x.pc \notin IssuerPCs \cup {"issuer", "ilock", "serving"}
  BY DEF DBPCs, IssuerPCs
<1>5. ThreadOK(t)
  BY DEF Control
<1>6. ThreadOK(t)'
  BY <1>1, <1>4, <1>5 DEF ThreadOK, Quiet, Wired
<1>7. QED
  BY <1>3, <1>6, ControlQuiet

LEMMA ControlDBChange ==
    ASSUME TypeInv, Control, NEW t \in Threads, NEW x, NEW d, DBChange(t, x, d),
           th[t].pc \in DBPCs, x.pc \in DBPCs, x.pc \in Opened => th[t].pc \in Opened,
           x.pc \in Loading => th[t].pc \in Loading
    PROVE  Control'
  BY ControlInDB DEF DBChange, Quiet

\* initDB has finished, in this or in another thread.
LEMMA ControlQuietReady ==
    ASSUME TypeInv, Control, NEW t \in Threads, NEW x, Moves(t, x), Quiet, th[t].pc # "idle",
           ca[Host(t)].ready, t \in Handlers /\ x.pc \in {"issuer", "serving"}
    PROVE  Control'
<1>1. th'[t].pc = x.pc /\ cfg' = cfg /\ proc' = proc /\ Host(t)' = Host(t)
  BY Moved, HostKept DEF Quiet
<1>2. PlaceOK(t)'
  BY <1>1, PlaceKept DEF MainPCs
<1>3. t \notin Servers
  BY StartupConstantsOK
<1>4. ThreadOK(t)'
  BY <1>1, <1>3 DEF ThreadOK, DBPCs, Opened, Loading, IssuerPCs, Quiet
<1>5. QED
  BY <1>2, <1>4, ControlQuiet

LEMMA ControlInitDB == ASSUME TypeInv, Control, NEW t \in Threads, InitDB(t) PROVE Control'
<1>1. Quiet /\ th[t] \in Thread
  BY TypeInitDB, Typed DEF Quiet
<1>2. \A pc : At(th[t], pc).pc = pc
  BY <1>1, AtIs
<1>3. ASSUME NEW pc \in {"idle", "lock", "initDBReady", "signer"}, Moves(t, At(th[t], pc)),
             th[t].pc # "idle", pc = "signer" => t \in Servers
      PROVE  Control'
  BY <1>1, <1>2, <1>3, ControlNeutral DEF Neutral, MainPCs
<1>4. ASSUME Moves(t, At(th[t], "issuer")), th[t].pc # "idle", t \notin Servers, ca[Host(t)].ready
      PROVE  Control'
  BY <1>1, <1>2, <1>4, ControlQuietReady DEF Threads
<1>5. QED
  BY <1>3, <1>4, TypeInitDB

LEMMA ControlGetCA == ASSUME TypeInv, Control, NEW t \in Handlers, GetCA(t) PROVE Control'
<1>0. t \in Threads
  BY DEF Threads
<1>1. Quiet /\ th[t] \in Thread
  BY <1>0, TypeGetCA, Typed DEF Quiet
<1>2. \A pc : At(th[t], pc).pc = pc
  BY <1>1, AtIs
<1>3. ASSUME NEW pc \in {"idle", "initDB", "getCAReady"}, Moves(t, At(th[t], pc)), th[t].pc # "idle"
      PROVE  Control'
  BY <1>0, <1>1, <1>2, <1>3, ControlNeutral DEF Neutral, MainPCs
<1>4. ASSUME Moves(t, At(th[t], "serving")), th[t].pc # "idle", ca[Host(t)].ready PROVE Control'
  BY <1>0, <1>1, <1>2, <1>4, ControlQuietReady
<1>5. QED
  BY <1>3, <1>4, TypeGetCA

LEMMA ControlRequest == ASSUME TypeInv, Control, NEW t \in Handlers, Request(t) PROVE Control'
<1>0. t \in Threads /\ t \notin Servers
  BY StartupConstantsOK DEF Threads
<1>1. Quiet /\ th[t] \in Thread /\ Moves(t, At(th[t], "getCA")) /\ proc[Host(t)] = "up"
  BY <1>0, TypeRequest, Typed DEF Quiet
<1>2. th'[t].pc = "getCA" /\ Host(t)' = Host(t) /\ proc' = proc
  BY <1>0, <1>1, AtIs, Moved, HostKept DEF Quiet
<1>3. PlaceOK(t)'
  BY <1>0, <1>1, <1>2 DEF PlaceOK, MainPCs
<1>4. ThreadOK(t)'
  BY <1>0, <1>2, NeutralOK DEF Neutral
<1>5. QED
  BY <1>0, <1>1, <1>3, <1>4, ControlQuiet

LEMMA ControlServe == ASSUME TypeInv, Control, NEW t \in Handlers, Serve(t) PROVE Control'
<1>0. t \in Threads
  BY DEF Threads
<1>1. Quiet /\ th[t] \in Thread /\ Moves(t, At(th[t], "idle")) /\ th[t].pc = "serving"
  BY <1>0, TypeServe, Typed DEF Quiet
<1>2. At(th[t], "idle").pc = "idle"
  BY <1>1, AtIs
<1>3. QED
  BY <1>0, <1>1, <1>2, ControlNeutral DEF Neutral, MainPCs

LEMMA ControlExit == ASSUME TypeInv, Control, NEW s \in Servers, Exit(s), cfg' = cfg PROVE Control'
<1>1. \A t \in Threads : Host(t)' = Host(t)
  BY HostKept
<1>2. ASSUME NEW t \in Threads PROVE PlaceOK(t)' /\ ThreadOK(t)'
  <2>1. CASE Host(t) = s
    <3>1. th'[t] = Idle /\ Idle.pc = "idle"
      BY <2>1 DEF Exit, Idle
    <3>2. QED
      BY <3>1, NeutralOK DEF PlaceOK, MainPCs, Neutral
  <2>2. CASE Host(t) # s
    <3> DEFINE r == Host(t)
    <3>1. /\ th'[t] = th[t] /\ proc'[r] = proc[r] /\ ca'[r] = ca[r] /\ lock'[r] = lock[r]
          /\ ilock'[r] = ilock[r] /\ Host(t)' = r
      BY <1>1, <2>2, Typed DEF Exit
    <3>2. PlaceOK(t) /\ ThreadOK(t)
      BY DEF Control
    <3>3. QED
      BY <3>1, <3>2 DEF PlaceOK, ThreadOK, Wired
  <2>3. QED
    BY <2>1, <2>2
<1>3. ASSUME NEW r \in Servers PROVE CAOK(r)'
  <2>1. CAOK(r) /\ \A h \in Handlers : Host(h)' = Host(h)
    BY <1>1 DEF Control, Threads
  <2>2. ca \in [Servers -> CAObject] /\ proc \in [Servers -> {"down", "starting", "up"}]
    BY TypeParts DEF ControlTyped
  <2>3. CASE r = s
    BY <2>2, <2>3 DEF Exit, CAOK, NewCA
  <2>4. CASE r # s
    <3>1. ca'[r] = ca[r] /\ proc'[r] = proc[r]
      BY <2>2, <2>4 DEF Exit
    <3>2. QED
      BY <2>1, <3>1 DEF CAOK, Wired
  <2>5. QED
    BY <2>3, <2>4
<1>4. QED
  BY <1>2, <1>3 DEF Control

LEMMA ControlStart == ASSUME TypeInv, Control, NEW s \in Servers, Start(s) PROVE Control'
<1>0. s \in Threads /\ Host(s) = s
  BY HostType DEF Threads, TypeInv
<1>1. /\ UNCHANGED <<cfg, ca, lock, ilock>> /\ proc[s] = "down"
      /\ (\E h \in Handlers : Host(h) = s)
      /\ proc' = [proc EXCEPT ![s] = "starting"] /\ Moves(s, At(th[s], "config"))
  BY TypeStart
<1>2. /\ th'[s].pc = "config" /\ (\A u \in Threads : u # s => th'[u] = th[u])
      /\ (\A u \in Threads : Host(u)' = Host(u))
  BY <1>0, <1>1, AtIs, Moved, HostKept, Typed
<1>3. proc'[s] = "starting" /\ \A r \in Servers : r # s => proc'[r] = proc[r]
  BY <1>0, <1>1, Typed
<1>4. ASSUME NEW u \in Threads PROVE PlaceOK(u)' /\ ThreadOK(u)'
  <2>1. PlaceOK(u) /\ ThreadOK(u) /\ Host(u) \in Servers /\ (u \in Servers => Host(u) = u)
    BY Typed DEF Control
  <2>2. CASE u = s
    BY <1>0, <1>2, <1>3, <2>2, NeutralOK DEF Neutral, MainPCs, PlaceOK
  <2>3. CASE u # s /\ Host(u) = s
    <3>1. th[u].pc = "idle"
      BY <1>1, <2>1, <2>3 DEF PlaceOK
    <3>2. QED
      BY <1>2, <2>3, <3>1, NeutralOK DEF Neutral, MainPCs, PlaceOK
  <2>4. CASE Host(u) # s
    BY <1>0, <1>1, <1>2, <1>3, <2>1, <2>4 DEF PlaceOK, ThreadOK, Wired
  <2>5. QED
    BY <2>2, <2>3, <2>4
<1>5. ASSUME NEW r \in Servers PROVE CAOK(r)'
  <2>1. CAOK(r) /\ \A h \in Handlers : Host(h)' = Host(h)
    BY <1>2 DEF Control, Threads
  <2>2. QED
    BY <1>1, <1>3, <2>1 DEF CAOK, Wired
<1>6. QED
  BY <1>4, <1>5 DEF Control

LEMMA ControlSigner ==
    ASSUME TypeInv, Control, NEW s \in Servers, InitEnrollmentSigner(s)
    PROVE  Control'
<1> DEFINE c == ca[s]
           d == [c EXCEPT !.signer = c.certs]
<1>0. s \in Threads /\ Host(s) = s
  BY HostType DEF Threads, TypeInv
<1>1. /\ UNCHANGED <<cfg, proc, lock, ilock>> /\ th[s].pc = "signer"
      /\ Moves(s, At(th[s], "issuer")) /\ ca' = [ca EXCEPT ![s] = d]
  BY TypeSigner
<1>2. /\ th'[s].pc = "issuer" /\ (\A u \in Threads : u # s => th'[u] = th[u])
      /\ (\A u \in Threads : Host(u)' = Host(u))
  BY <1>0, <1>1, AtIs, Moved, HostKept, Typed
<1>3. ca'[s] = d /\ c \in CAObject /\ \A r \in Servers : r # s => ca'[r] = ca[r]
  BY <1>0, <1>1, Typed
<1>4. /\ d.db = c.db /\ d.ready = c.ready /\ d.certs = c.certs /\ d.registry = c.registry
      /\ d.signer = c.certs /\ c.certs # -1 /\ d.issuerReady = c.issuerReady
      /\ d.issuerDB = c.issuerDB
  BY <1>3 DEF CAObject, Handles, None
<1> HIDE DEF c, d
<1>5. Respects(s)
  BY <1>0, <1>1, <1>2, <1>3 DEF Respects
<1>6. PlaceOK(s)'
  BY <1>0, <1>1, <1>2, PlaceKept DEF MainPCs
<1>7. ThreadOK(s)'
  BY <1>0, <1>2, <1>3, <1>4, StartupConstantsOK DEF ThreadOK, DBPCs, Opened, Loading, IssuerPCs
<1>8. CAOK(s)'
  <2>1. CAOK(s) /\ \A h \in Handlers : Host(h)' = Host(h)
    BY <1>2 DEF Control, Threads
  <2>2. QED
    BY <1>1, <1>3, <1>4, <2>1 DEF CAOK, Wired, c
<1>9. QED
  BY <1>0, <1>5, <1>6, <1>7, <1>8, ControlFrame

\* The steps of initDB that return: the mutex is free again.
LEMMA ControlReturn ==
    ASSUME TypeInv, Control, NEW t \in Threads, th[t].pc \in DBPCs, NEW ok \in BOOLEAN,
           Moves(t, At(Idle, After(t, ok))), UNCHANGED <<cfg, proc, ilock>>,
           lock' = [lock EXCEPT ![Host(t)] = Free],
           NEW d, ca' = [ca EXCEPT ![Host(t)] = d], d.ready => ok, ok => d.ready,
           d.ready => Wired(d), d.signer = ca[Host(t)].signer,
           d.issuerReady = ca[Host(t)].issuerReady
    PROVE  Control'
<1> SUFFICES ASSUME NEW s, s = Host(t) PROVE Control'
  OBVIOUS
<1> DEFINE c == ca[s]
           pc == After(t, ok)
<1>0. /\ s \in Servers /\ (t \in Servers => s = t) /\ ThreadOK(t) /\ CAOK(s)
      /\ \A h \in Handlers : Host(h)' = Host(h)
  BY Typed, HostKept DEF Control, Threads
<1>1. /\ th'[t].pc = pc /\ (\A u \in Threads : u # t => th'[u] = th[u]) /\ Host(t)' = s
  BY IdleIs, Moved, HostKept
<1>2. /\ ca'[s] = d /\ lock'[s] = Free
      /\ \A r \in Servers : r # s => ca'[r] = ca[r] /\ lock'[r] = lock[r]
  BY <1>0, Typed
<1>3. lock[s] = t /\ ~c.ready /\ th[t].pc # "idle"
  BY <1>0 DEF ThreadOK, DBPCs
<1>4. Respects(t)
  BY <1>1, <1>2, <1>3 DEF Respects
<1>5. /\ pc \in MainPCs => t \in Servers
      /\ pc \in {"getCA", "getCAReady", "serving"} => t \in Handlers
      /\ pc \in Neutral \/ (pc = "issuer" /\ t \notin Servers /\ ok)
  BY DEF After, MainPCs, Neutral
<1>6. PlaceOK(t)'
  <2>1. \/ pc = "signer" /\ t \in Servers
        \/ pc \in {"issuer", "idle"}
    BY DEF After
  <2>2. QED
    BY <1>1, <1>3, <2>1, PlaceKept DEF MainPCs
<1>7. ThreadOK(t)'
  <2>1. CASE pc \in Neutral
    BY <1>1, <2>1, NeutralOK
  <2>2. CASE pc = "issuer" /\ t \notin Servers /\ ok
    BY <1>1, <1>2, <2>2 DEF ThreadOK, DBPCs, Opened, Loading, IssuerPCs
  <2>3. QED
    BY <1>5, <2>1, <2>2
<1>8. CAOK(s)'
  <2>1. ~d.issuerReady
    BY <1>0, <1>3 DEF CAOK
  <2>2. proc[s] # "down"
    BY <1>3 DEF Control, PlaceOK
  <2>3. QED
    BY <1>0, <1>2, <2>1, <2>2 DEF CAOK, Wired
<1>9. QED
  BY <1>1, <1>4, <1>6, <1>7, <1>8, ControlFrame

LEMMA ControlGivesUp ==
    ASSUME TypeInv, Control, NEW t \in Threads, th[t].pc \in DBPCs, GivesUp(t) PROVE Control'
<1>1. /\ ca[Host(t)] \in CAObject /\ ThreadOK(t) /\ Host(t) \in Servers
      /\ ca \in [Servers -> CAObject]
  BY Typed DEF Control
<1>2. ~ca[Host(t)].ready
  BY <1>1 DEF ThreadOK
<1>3. ca' = [ca EXCEPT ![Host(t)] = ca[Host(t)]]
  BY <1>1 DEF GivesUp
<1>4. QED
  BY <1>2, <1>3, ControlReturn DEF GivesUp

LEMMA ControlCloses ==
    ASSUME TypeInv, Control, NEW t \in Threads, th[t].pc \in DBPCs, Closes(t), cfg' = cfg
    PROVE  Control'
<1> DEFINE d == [ca[Host(t)] EXCEPT !.db = None]
<1>1. ca[Host(t)] \in CAObject /\ ThreadOK(t)
  BY Typed DEF Control
<1>2. /\ d.ready = ca[Host(t)].ready /\ d.signer = ca[Host(t)].signer
      /\ d.issuerReady = ca[Host(t)].issuerReady /\ ~d.ready
  BY <1>1 DEF ThreadOK, CAObject
<1> HIDE DEF d
<1>3. ca' = [ca EXCEPT ![Host(t)] = d]
  BY DEF Closes, d
<1>4. QED
  BY <1>2, <1>3, ControlReturn DEF Closes

LEMMA ControlFinish ==
    ASSUME TypeInv, Control, NEW t \in Threads, FinishDB(t) PROVE Control'
<1> DEFINE c == ca[Host(t)]
           d == [c EXCEPT !.ready = ~th[t].failed]
<1>0. c \in CAObject /\ ThreadOK(t) /\ th[t] \in Thread
  BY Typed DEF Control
<1>1. th[t].failed \in BOOLEAN
  BY <1>0 DEF Thread
<1>2. /\ UNCHANGED <<cfg, proc, ilock>> /\ th[t].pc = "finish"
      /\ Moves(t, At(Idle, After(t, ~th[t].failed)))
      /\ lock' = [lock EXCEPT ![Host(t)] = Free] /\ ca' = [ca EXCEPT ![Host(t)] = d]
  BY TypeFinish
<1>3. /\ d.ready = ~th[t].failed /\ d.signer = c.signer /\ d.db = c.db /\ d.certs = c.certs
      /\ d.registry = c.registry /\ d.issuerReady = c.issuerReady
  BY <1>0 DEF CAObject
<1>4. Wired(c) /\ th[t].pc \in DBPCs
  BY <1>0, <1>2 DEF ThreadOK, Loading, Opened, DBPCs
<1> HIDE DEF d
<1>5. Wired(d)
  BY <1>3, <1>4 DEF Wired
<1>6. QED
  BY <1>1, <1>2, <1>3, <1>4, <1>5, ControlReturn

LEMMA ControlLockDB == ASSUME TypeInv, Control, NEW t \in Threads, LockDB(t) PROVE Control'
<1> SUFFICES ASSUME NEW s, s = Host(t) PROVE Control'
  OBVIOUS
<1>0. /\ s \in Servers /\ CAOK(s) /\ \A h \in Handlers : Host(h)' = Host(h)
  BY Typed, HostKept, TypeLockDB DEF Control, Threads
<1>1. /\ UNCHANGED <<cfg, proc, ca, ilock>> /\ th[t].pc = "lock" /\ lock[s] = Free
  BY TypeLockDB
<1>2. CASE /\ ca[s].ready /\ Moves(t, At(Idle, After(t, TRUE)))
           /\ lock' = [lock EXCEPT ![s] = Free]
  <2>1. lock' = lock
    BY <1>0, <1>1, <1>2, Typed
  <2>2. At(Idle, After(t, TRUE)).pc = IF t \in Servers THEN "signer" ELSE "issuer"
    BY IdleIs DEF After
  <2>3. Quiet /\ th[t].pc # "idle" /\ (t \notin Servers => t \in Handlers)
    BY <1>1, <2>1 DEF Quiet, Threads
  <2>4. QED
    BY <1>2, <2>2, <2>3, ControlNeutral, ControlQuietReady DEF Neutral, MainPCs
<1>3. CASE /\ ca[s].db = None \/ ~ca[s].ready
           /\ Moves(t, [th[t] EXCEPT !.pc = "createTables", !.todo = DataTables])
           /\ lock' = [lock EXCEPT ![s] = t]
  <2>1. ~ca[s].ready
    BY <1>0, <1>3 DEF CAOK, Wired
  <2>2. /\ th'[t].pc = "createTables" /\ (\A u \in Threads : u # t => th'[u] = th[u])
        /\ Host(t)' = s
    <3> DEFINE x == [th[t] EXCEPT !.pc = "createTables", !.todo = DataTables]
    <3>1. x.pc = "createTables"
      BY Typed DEF Thread
    <3>2. Moves(t, x)
      BY <1>3
    <3> HIDE DEF x
    <3>3. QED
      BY <1>1, <3>1, <3>2, Moved, HostKept
  <2>3. lock'[s] = t /\ \A r \in Servers : r # s => lock'[r] = lock[r]
    BY <1>0, <1>3, Typed
  <2>4. Respects(t)
    BY <1>1, <2>2, <2>3 DEF Respects
  <2>5. PlaceOK(t)'
    BY <1>1, <2>2, PlaceKept DEF MainPCs
  <2>6. ThreadOK(t)'
    BY <1>1, <2>1, <2>2, <2>3 DEF ThreadOK, DBPCs, Opened, Loading, IssuerPCs
  <2>7. CAOK(s)'
    BY <1>0, <1>1 DEF CAOK, Wired
  <2>8. QED
    BY <2>4, <2>5, <2>6, <2>7, ControlFrame
<1>4. QED
  BY <1>2, <1>3, TypeLockDB

\* The steps of initDB that change the CA object.
LEMMA ControlSetCA ==
    ASSUME TypeInv, Control, NEW t \in Threads, NEW x, Moves(t, x),
           UNCHANGED <<cfg, proc, lock, ilock>>, th[t].pc \in DBPCs, x.pc \in Opened,
           NEW d, ca' = [ca EXCEPT ![Host(t)] = d], ~d.ready, d.db # None,
           x.pc \in Loading => Wired(d), ca[Host(t)].signer # -1 => d.signer # -1,
           d.issuerReady = ca[Host(t)].issuerReady
    PROVE  Control'
<1> SUFFICES ASSUME NEW s, s = Host(t) PROVE Control'
  OBVIOUS
<1> DEFINE c == ca[s]
<1>0. /\ s \in Servers /\ (t \in Servers => s = t) /\ ThreadOK(t) /\ CAOK(s)
      /\ \A h \in Handlers : Host(h)' = Host(h)
  BY Typed, HostKept DEF Control, Threads
<1>1. /\ th'[t].pc = x.pc /\ (\A u \in Threads : u # t => th'[u] = th[u]) /\ Host(t)' = s
  BY Moved, HostKept
<1>2. ca'[s] = d /\ \A r \in Servers : r # s => ca'[r] = ca[r]
  BY <1>0, Typed
<1>3. lock[s] = t /\ ~c.ready /\ th[t].pc # "idle"
  BY <1>0 DEF ThreadOK, DBPCs
<1>4. Respects(t)
  BY <1>1, <1>2, <1>3 DEF Respects
<1>5. x.pc \notin MainPCs \cup IssuerPCs \cup {"issuer", "ilock", "getCA", "getCAReady", "serving"}
  BY DEF Opened, DBPCs, MainPCs, IssuerPCs
<1>6. PlaceOK(t)'
  BY <1>1, <1>3, <1>5, PlaceKept
<1>7. ThreadOK(t)'
  BY <1>1, <1>2, <1>3, <1>5 DEF ThreadOK, Wired
<1>8. CAOK(s)'
  BY <1>0, <1>2, <1>3 DEF CAOK
<1>9. QED
  BY <1>4, <1>6, <1>7, <1>8, ControlFrame

LEMMA ControlOpenDB == ASSUME TypeInv, Control, NEW t \in Threads, OpenDB(t) PROVE Control'
<1>1. PICK n \in Handles :
        ca' = [ca EXCEPT ![Host(t)] = [ca[Host(t)] EXCEPT !.db = n, !.ready = FALSE]]
  BY TypeOpenDB
<1> DEFINE d == [ca[Host(t)] EXCEPT !.db = n, !.ready = FALSE]
<1>2. ca[Host(t)] \in CAObject /\ th[t] \in Thread
  BY Typed
<1>3. /\ d.db # None /\ ~d.ready /\ d.signer = ca[Host(t)].signer
      /\ d.issuerReady = ca[Host(t)].issuerReady
  BY <1>2 DEF CAObject, Handles, None
<1>4. At(th[t], "schema").pc = "schema"
  BY <1>2, AtIs
<1> HIDE DEF d
<1>5. ca' = [ca EXCEPT ![Host(t)] = d]
  BY <1>1 DEF d
<1>6. "open" \in DBPCs /\ "schema" \in Opened /\ "schema" \notin Loading
  BY DEF DBPCs, Opened, Loading
<1>7. QED
  <2>1. UNCHANGED <<cfg, proc, lock, ilock>> /\ th[t].pc = "open" /\ Moves(t, At(th[t], "schema"))
    BY TypeOpenDB
  <2>2. QED
    BY <1>3, <1>4, <1>5, <1>6, <2>1, ControlSetCA

LEMMA ControlAccessors == ASSUME TypeInv, Control, NEW t \in Threads, SetAccessors(t) PROVE Control'
<1> DEFINE c == ca[Host(t)]
           d == [c EXCEPT !.certs = c.db, !.signer = IF @ = -1 THEN @ ELSE c.db,
                          !.registry = IF cfg.ldap THEN @ ELSE c.db]
           pc == IF cfg.ldap THEN "finish" ELSE "check"
<1>1. /\ UNCHANGED <<cfg, proc, lock, ilock>> /\ th[t].pc = "accessors"
      /\ Moves(t, At(th[t], pc)) /\ ca' = [ca EXCEPT ![Host(t)] = d]
  BY TypeAccessors
<1>2. c \in CAObject /\ th[t] \in Thread /\ ThreadOK(t)
  BY Typed DEF Control
<1>3. /\ d.db = c.db /\ d.ready = c.ready /\ d.certs = c.db
      /\ d.signer = (IF c.signer = -1 THEN c.signer ELSE c.db)
      /\ d.registry = (IF cfg.ldap THEN c.registry ELSE c.db)
      /\ d.issuerReady = c.issuerReady /\ c.db # -1
  BY <1>2 DEF CAObject, Handles, None
<1>4. "accessors" \in DBPCs \cap Opened /\ pc \in Opened
  BY DEF DBPCs, Opened
<1>5. c.db # None /\ ~c.ready
  BY <1>1, <1>2, <1>4 DEF ThreadOK
<1> HIDE DEF d, c
<1>6. Wired(d)
  BY <1>3, <1>5 DEF Wired
<1>7. At(th[t], pc).pc = pc
  BY <1>2, AtIs
<1> HIDE DEF pc
<1>8. QED
  BY <1>1, <1>3, <1>4, <1>5, <1>6, <1>7, ControlSetCA DEF c

\* The steps of the issuer's initialization that leave the connections alone.
LEMMA ControlIssuer ==
    ASSUME TypeInv, Control, NEW t \in Threads, NEW x, Moves(t, x),
           UNCHANGED <<cfg, proc, lock, ilock>>, th[t].pc \in IssuerPCs, x.pc \in IssuerPCs,
           NEW d, ca' = [ca EXCEPT ![Host(t)] = d],
           d.db = ca[Host(t)].db, d.ready = ca[Host(t)].ready, d.certs = ca[Host(t)].certs,
           d.registry = ca[Host(t)].registry, d.signer = ca[Host(t)].signer,
           d.issuerReady = ca[Host(t)].issuerReady, d.issuerDB = ca[Host(t)].issuerDB
    PROVE  Control'
<1> SUFFICES ASSUME NEW s, s = Host(t) PROVE Control'
  OBVIOUS
<1>0. /\ s \in Servers /\ (t \in Servers => s = t) /\ ThreadOK(t) /\ CAOK(s)
      /\ \A h \in Handlers : Host(h)' = Host(h)
  BY Typed, HostKept DEF Control, Threads
<1>1. /\ th'[t].pc = x.pc /\ (\A u \in Threads : u # t => th'[u] = th[u]) /\ Host(t)' = s
  BY Moved, HostKept
<1>2. ca'[s] = d /\ \A r \in Servers : r # s => ca'[r] = ca[r]
  BY <1>0, Typed
<1>3. th[t].pc # "idle" /\ x.pc \notin MainPCs \cup DBPCs \cup {"getCA", "getCAReady", "serving"}
  BY DEF IssuerPCs, MainPCs, DBPCs
<1>4. Respects(t)
  BY <1>1, <1>2, <1>3 DEF Respects
<1>5. PlaceOK(t)'
  BY <1>1, <1>3, PlaceKept
<1>6. ThreadOK(t)'
  BY <1>0, <1>1, <1>2, <1>3 DEF ThreadOK, Opened, Loading
<1>7. CAOK(s)'
  BY <1>0, <1>2 DEF CAOK, Wired
<1>8. QED
  BY <1>4, <1>5, <1>6, <1>7, ControlFrame

\* Steps between places of the issuer's initialization that change no object.
LEMMA ControlIssuerGoto ==
    ASSUME TypeInv, Control, NEW t \in Threads, NEW x, Moves(t, x), Quiet,
           th[t].pc \in IssuerPCs, x.pc \in IssuerPCs
    PROVE  Control'
<1>1. ca' = [ca EXCEPT ![Host(t)] = ca[Host(t)]]
  BY Typed DEF Quiet
<1>2. QED
  BY <1>1, ControlIssuer DEF Quiet

LEMMA ControlDrops ==
    ASSUME TypeInv, Control, NEW t \in Threads, th[t].pc \in IssuerPCs, Drops(t), cfg' = cfg
    PROVE  Control'
<1> SUFFICES ASSUME NEW s, s = Host(t) PROVE Control'
  OBVIOUS
<1>0. /\ s \in Servers /\ (t \in Servers => s = t) /\ ThreadOK(t) /\ CAOK(s)
      /\ \A h \in Handlers : Host(h)' = Host(h)
  BY Typed, HostKept DEF Control, Threads
<1>1. /\ th'[t].pc = "idle" /\ (\A u \in Threads : u # t => th'[u] = th[u]) /\ Host(t)' = s
  BY Moved, HostKept DEF Drops, Idle
<1>2. /\ UNCHANGED <<proc, ca, lock>> /\ \A r \in Servers : r # s => ilock'[r] = ilock[r]
  BY <1>0, Typed DEF Drops
<1>3. th[t].pc # "idle"
  BY DEF IssuerPCs
<1>4. ilock[s] = t
  BY <1>0 DEF ThreadOK
<1>5. Respects(t)
  BY <1>1, <1>2, <1>3, <1>4 DEF Respects
<1>6. PlaceOK(t)' /\ ThreadOK(t)'
  BY <1>1, NeutralOK DEF PlaceOK, MainPCs, Neutral
<1>7. CAOK(s)'
  BY <1>0, <1>2 DEF CAOK, Wired
<1>8. QED
  BY <1>5, <1>6, <1>7, ControlFrame

\* The server listens now, or the request is served.
LEMMA ControlPasses ==
    ASSUME TypeInv, Control, NEW t \in Threads, Passes(t), UNCHANGED <<cfg, lock>>,
           th[t].pc \in {"issuer", "ilock"} \cup IssuerPCs,
           \/ UNCHANGED <<ca, ilock>>
           \/ /\ th[t].pc \in IssuerPCs /\ ilock' = [ilock EXCEPT ![Host(t)] = Free]
              /\ ca' = [ca EXCEPT ![Host(t)] = [ca[Host(t)] EXCEPT !.issuerReady = TRUE]]
    PROVE  Control'
<1> SUFFICES ASSUME NEW s, s = Host(t) PROVE Control'
  OBVIOUS
<1> DEFINE c == ca[s]
           e == [c EXCEPT !.issuerReady = TRUE]
           pc == IF t \in Servers THEN "idle" ELSE "serving"
<1>0. /\ s \in Servers /\ (t \in Servers => s = t) /\ ThreadOK(t) /\ CAOK(s) /\ PlaceOK(t)
      /\ \A h \in Handlers : Host(h)' = Host(h)
  BY Typed, HostKept DEF Control, Threads
<1>1. /\ th'[t].pc = pc /\ (\A u \in Threads : u # t => th'[u] = th[u]) /\ Host(t)' = s
  BY Moved, HostKept, IdleIs DEF Passes
<1>2. /\ proc'[s] = (IF t \in Servers THEN "up" ELSE proc[s])
      /\ \A r \in Servers : r # s => proc'[r] = proc[r]
  BY <1>0, Typed DEF Passes
<1>3. /\ \A r \in Servers : r # s => ca'[r] = ca[r] /\ ilock'[r] = ilock[r]
      /\ (ca'[s] = c /\ ilock' = ilock) \/ (th[t].pc \in IssuerPCs /\ ca'[s] = e)
  BY <1>0, Typed
<1>4. /\ e.db = c.db /\ e.ready = c.ready /\ e.certs = c.certs /\ e.registry = c.registry
      /\ e.signer = c.signer /\ e.issuerDB = c.issuerDB
  BY Typed DEF CAObject
<1> HIDE DEF e
<1>5. th[t].pc # "idle" /\ th[t].pc \notin DBPCs
  BY DEF IssuerPCs, DBPCs
<1>6. th[t].pc \in IssuerPCs => ilock[s] = t /\ c.ready /\ c.issuerDB = c.db
  BY <1>0 DEF ThreadOK
<1>7. /\ t \notin Servers => c.ready
      /\ t \in Servers => c.signer # -1
  BY <1>0 DEF ThreadOK, Threads
<1>8. Respects(t)
  BY <1>1, <1>2, <1>3, <1>4, <1>5, <1>6 DEF Respects
<1>9. ca'[s].ready = c.ready
  BY <1>3, <1>4
<1>10. PlaceOK(t)'
  BY <1>0, <1>1, <1>2, <1>5 DEF PlaceOK, MainPCs, Threads
<1>11. ThreadOK(t)'
  BY <1>1, <1>7, <1>9 DEF ThreadOK, DBPCs, Opened, Loading, IssuerPCs
<1>12. CAOK(s)'
  <2>1. CASE ca'[s] = c
    BY <1>0, <1>2, <1>5, <1>7, <2>1 DEF CAOK, Wired, PlaceOK
  <2>2. CASE th[t].pc \in IssuerPCs /\ ca'[s] = e
    BY <1>0, <1>2, <1>4, <1>5, <1>6, <1>7, <2>2 DEF CAOK, Wired, PlaceOK
  <2>3. QED
    BY <1>3, <2>1, <2>2
<1>13. QED
  BY <1>8, <1>10, <1>11, <1>12, ControlFrame

LEMMA ControlReadies ==
    ASSUME TypeInv, Control, NEW t \in Threads, th[t].pc \in IssuerPCs, Readies(t), cfg' = cfg
    PROVE  Control'
  BY ControlPasses DEF Readies

LEMMA ControlLockIssuer ==
    ASSUME TypeInv, Control, NEW t \in Threads, LockIssuer(t) PROVE Control'
<1> SUFFICES ASSUME NEW s, s = Host(t) PROVE Control'
  OBVIOUS
<1> DEFINE c == ca[s]
           d == [c EXCEPT !.issuerDB = c.db]
<1>0. UNCHANGED <<cfg, lock>> /\ th[t].pc = "ilock" /\ ilock[s] = Free
  BY TypeLockIssuer
<1>1. CASE Passes(t) /\ UNCHANGED <<ca, ilock>>
  BY <1>0, <1>1, ControlPasses
<1>2. CASE /\ ~c.issuerReady /\ c.ready /\ Moves(t, At(th[t], "issuerKey")) /\ UNCHANGED proc
           /\ ilock' = [ilock EXCEPT ![s] = t] /\ ca' = [ca EXCEPT ![s] = d]
  <2>0. /\ s \in Servers /\ (t \in Servers => s = t) /\ ThreadOK(t) /\ CAOK(s)
        /\ \A h \in Handlers : Host(h)' = Host(h)
    BY <1>0, Typed, HostKept DEF Control, Threads
  <2>1. /\ th'[t].pc = "issuerKey" /\ (\A u \in Threads : u # t => th'[u] = th[u])
        /\ Host(t)' = s
    BY <1>0, <1>2, Moved, HostKept, AtIs, Typed
  <2>2. /\ ca'[s] = d /\ ilock'[s] = t
        /\ \A r \in Servers : r # s => ca'[r] = ca[r] /\ ilock'[r] = ilock[r]
    BY <1>2, <2>0, Typed
  <2>3. /\ d.db = c.db /\ d.ready = c.ready /\ d.certs = c.certs /\ d.registry = c.registry
        /\ d.signer = c.signer /\ d.issuerDB = c.db /\ d.issuerReady = c.issuerReady
    BY Typed DEF CAObject
  <2> HIDE DEF d
  <2>4. Respects(t)
    BY <1>0, <1>2, <2>1, <2>2, <2>3 DEF Respects
  <2>5. PlaceOK(t)'
    BY <1>0, <1>2, <2>1, PlaceKept DEF MainPCs
  <2>6. ThreadOK(t)'
    <3>1. t \in Servers => c.signer # -1
      BY <1>0, <2>0 DEF ThreadOK
    <3>2. th'[t].pc \notin DBPCs \cup Opened \cup Loading
      BY <2>1 DEF DBPCs, Opened, Loading
    <3>3. c.ready /\ ~c.issuerReady
      BY <1>2
    <3>4. th'[t].pc = "issuerKey" /\ Host(t)' = s /\ ca'[s] = d /\ ilock'[s] = t
      BY <2>1, <2>2
    <3> HIDE DEF c
    <3>5. QED
      BY <2>3, <3>1, <3>2, <3>3, <3>4 DEF ThreadOK
  <2>7. CAOK(s)'
    BY <1>0, <1>2, <2>0, <2>2, <2>3 DEF CAOK, Wired
  <2>8. QED
    BY <2>4, <2>5, <2>6, <2>7, ControlFrame
<1>3. QED
  BY <1>1, <1>2, TypeLockIssuer

LEMMA ControlInitIssuer ==
    ASSUME TypeInv, Control, NEW t \in Threads, InitIssuer(t) PROVE Control'
<1>1. UNCHANGED <<cfg, ca, lock, ilock>> /\ th[t].pc = "issuer"
  BY TypeInitIssuer
<1>2. CASE Passes(t)
  BY <1>1, <1>2, ControlPasses
<1>3. CASE Moves(t, At(th[t], "ilock")) /\ UNCHANGED proc
  <2>1. th'[t].pc = "ilock" /\ Host(t)' = Host(t) /\ ThreadOK(t)
    BY <1>1, <1>3, Moved, HostKept, AtIs, Typed DEF Control
  <2>2. PlaceOK(t)'
    BY <1>1, <1>3, <2>1, PlaceKept DEF MainPCs
  <2>3. ThreadOK(t)'
    BY <1>1, <2>1 DEF ThreadOK, DBPCs, Opened, Loading, IssuerPCs
  <2>4. QED
    BY <1>1, <1>3, <2>2, <2>3, ControlQuiet DEF Quiet
<1>4. QED
  BY <1>2, <1>3, TypeInitIssuer

\* Either way of initializing a pair of keys of the issuer.
LEMMA ControlKeyFiles ==
    ASSUME TypeInv, Control, NEW t \in Threads,
           IssuerKeyMaterial(t) \/ RevocationKeyMaterial(t)
           \/ StoreIssuerKey(t) \/ StoreRevocationKey(t)
    PROVE  Control'
<1> DEFINE s == Host(t)
<1>0. ca[s] \in CAObject /\ th[t] \in Thread /\ cfg' = cfg /\ (t \in Servers => s = t)
  BY Typed, TypeIssuerKey, TypeRevocationKey, TypeStoreIssuer, TypeStoreRevocation
<1>1. th[t].pc \in IssuerPCs
  BY TypeIssuerKey, TypeRevocationKey, TypeStoreIssuer, TypeStoreRevocation DEF IssuerPCs
<1>2. ASSUME NEW key, NEW pc \in {"revKey", "raInfo"}, Moves(t, At(th[t], pc)),
             UNCHANGED <<proc, lock, ilock>>,
             \/ ca' = [ca EXCEPT ![s] = [ca[s] EXCEPT !.issuerKey = key]]
             \/ ca' = [ca EXCEPT ![s] = [ca[s] EXCEPT !.revKey = key]]
      PROVE  Control'
  <2>1. PICK d : /\ ca' = [ca EXCEPT ![s] = d]
                 /\ d.db = ca[s].db /\ d.ready = ca[s].ready /\ d.certs = ca[s].certs
                 /\ d.registry = ca[s].registry /\ d.signer = ca[s].signer
                 /\ d.issuerReady = ca[s].issuerReady /\ d.issuerDB = ca[s].issuerDB
    <3>1. CASE ca' = [ca EXCEPT ![s] = [ca[s] EXCEPT !.issuerKey = key]]
      <4> WITNESS [ca[s] EXCEPT !.issuerKey = key]
      <4>1. QED
        BY <1>0, <3>1 DEF CAObject
    <3>2. CASE ca' = [ca EXCEPT ![s] = [ca[s] EXCEPT !.revKey = key]]
      <4> WITNESS [ca[s] EXCEPT !.revKey = key]
      <4>1. QED
        BY <1>0, <3>2 DEF CAObject
    <3>3. QED
      BY <1>2, <3>1, <3>2
  <2>2. At(th[t], pc).pc = pc /\ pc \in IssuerPCs
    BY <1>0, AtIs DEF IssuerPCs
  <2>3. QED
    BY <1>0, <1>1, <1>2, <2>1, <2>2, ControlIssuer
<1>3. ASSUME NEW k, NEW pc \in {"storeIpk", "storeRpriv"},
             Moves(t, [th[t] EXCEPT !.key = k, !.pc = pc]), UNCHANGED <<proc, ca, lock, ilock>>
      PROVE  Control'
  <2> DEFINE x == [th[t] EXCEPT !.key = k, !.pc = pc]
  <2>1. x.pc = pc /\ pc \in IssuerPCs
    BY <1>0 DEF Thread, IssuerPCs
  <2>2. Moves(t, x) /\ Quiet
    BY <1>0, <1>3 DEF Quiet
  <2> HIDE DEF x
  <2>3. QED
    BY <1>1, <2>1, <2>2, ControlIssuerGoto
<1>4. ASSUME NEW pc \in {"storeIsk", "storeRpub"}, Moves(t, At(th[t], pc)),
             UNCHANGED <<proc, ca, lock, ilock>>
      PROVE  Control'
  <2>1. At(th[t], pc).pc = pc /\ pc \in IssuerPCs /\ Quiet
    BY <1>0, <1>4, AtIs DEF IssuerPCs, Quiet
  <2>2. QED
    BY <1>1, <1>4, <2>1, ControlIssuerGoto
<1>5. CASE (t \in Servers /\ Exit(t)) \/ Drops(t)
  BY <1>0, <1>1, <1>5, ControlExit, ControlDrops
<1>6. CASE IssuerKeyMaterial(t)
  BY <1>2, <1>3, <1>5, <1>6, TypeIssuerKey DEF IssuerLoaded
<1>7. CASE RevocationKeyMaterial(t)
  BY <1>2, <1>3, <1>5, <1>7, TypeRevocationKey DEF RevLoaded
<1>8. CASE StoreIssuerKey(t)
  BY <1>2, <1>4, <1>8, TypeStoreIssuer
<1>9. CASE StoreRevocationKey(t)
  BY <1>2, <1>4, <1>9, TypeStoreRevocation
<1>10. QED
  BY <1>6, <1>7, <1>8, <1>9

LEMMA ControlRAInfo ==
    ASSUME TypeInv, Control, NEW t \in Threads, GetRAInfo(t) \/ AddRAInfo(t) PROVE Control'
<1>1. th[t].pc \in IssuerPCs /\ cfg' = cfg /\ th[t] \in Thread
  BY TypeGetRAInfo, TypeAddRAInfo, Typed DEF IssuerPCs
<1>2. ASSUME Moves(t, At(th[t], "raInsert")), UNCHANGED <<proc, ca, lock, ilock>> PROVE Control'
  <2>1. At(th[t], "raInsert").pc = "raInsert" /\ "raInsert" \in IssuerPCs /\ Quiet
    BY <1>1, <1>2, AtIs DEF IssuerPCs, Quiet
  <2>2. QED
    BY <1>1, <1>2, <2>1, ControlIssuerGoto
<1>3. CASE Readies(t) \/ (t \in Servers /\ Exit(t)) \/ Drops(t)
  BY <1>1, <1>3, ControlReadies, ControlExit, ControlDrops
<1>4. QED
  BY <1>2, <1>3, TypeGetRAInfo, TypeAddRAInfo

\* The steps of initDB that work on the database.
LEMMA ControlTables ==
    ASSUME TypeInv, Control, NEW t \in Threads,
           CreateSQLiteTables(t) \/ CreatePostgresTables(t) \/ CreateMySQLTables(t)
    PROVE  Control'
<1>1. th[t].pc = "createTables" /\ th[t] \in Thread
  BY TypeSQLiteTables, TypeTables, Typed
<1>2. PICK x : (\E d : DBChange(t, x, d)) /\ x.pc \in {"createTables", "open"}
  <2>1. CASE CreateSQLiteTables(t)
    <3> DEFINE x == [th[t] EXCEPT !.pc = "open", !.todo = <<>>]
    <3>1. x.pc = "open"
      BY <1>1 DEF Thread
    <3>2. DBChange(t, x, WithTables(AllTables))
      BY <2>1, TypeSQLiteTables
    <3> HIDE DEF x
    <3>3. QED
      BY <3>1, <3>2
  <2>2. CASE CreatePostgresTables(t) \/ CreateMySQLTables(t)
    BY <2>2, TypeTables DEF Loops
  <2>3. QED
    BY <2>1, <2>2
<1>3. th[t].pc \in DBPCs /\ x.pc \in DBPCs /\ x.pc \notin Opened /\ x.pc \notin Loading
  BY <1>1, <1>2 DEF DBPCs, Opened, Loading
<1>4. QED
  BY <1>2, <1>3, ControlDBChange

LEMMA ControlSchema ==
    ASSUME TypeInv, Control, NEW t \in Threads,
           UpdateSQLiteSchema(t) \/ AlterTables(t) \/ UpdateSchemaRest(t)
    PROVE  Control'
<1>1. th[t].pc \in {"schema", "schemaRest"} /\ th[t] \in Thread
  BY TypeSQLiteSchema, TypeAlterTables, TypeSchemaRest, Typed
<1>2. \/ GivesUp(t)
      \/ \E pc \in {"schemaRest", "accessors"} : \E d : DBChange(t, At(th[t], pc), d)
  BY TypeSQLiteSchema, TypeAlterTables, TypeSchemaRest
<1>3. th[t].pc \in DBPCs \cap Opened
  BY <1>1 DEF DBPCs, Opened
<1>4. ASSUME NEW pc \in {"schemaRest", "accessors"}, NEW d, DBChange(t, At(th[t], pc), d)
      PROVE  Control'
  <2>1. At(th[t], pc).pc = pc /\ pc \in DBPCs /\ pc \notin Loading
    BY <1>1, AtIs DEF DBPCs, Loading
  <2>2. QED
    BY <1>3, <1>4, <2>1, ControlDBChange
<1>5. QED
  BY <1>2, <1>3, <1>4, ControlGivesUp

\* The places of initDB from which it loads and migrates the content.
LEMMA ControlLoading ==
    ASSUME TypeInv, Control, NEW t \in Threads, NEW x, NEW d, DBChange(t, x, d),
           th[t].pc \in Loading, x.pc \in Loading
    PROVE  Control'
<1>1. Loading \subseteq Opened /\ Opened \subseteq DBPCs
  BY DEF Loading, Opened
<1>2. QED
  BY <1>1, ControlDBChange

LEMMA ControlLoad ==
    ASSUME TypeInv, Control, NEW t \in Threads,
           CheckDBLevels(t) \/ LookupUser(t) \/ InsertUser(t) \/ LoadAffiliation(t)
    PROVE  Control'
<1>0. th[t] \in Thread /\ cfg' = cfg
  BY Typed DEF CheckDBLevels, LookupUser, InsertUser, LoadAffiliation
<1>1. th[t].pc \in Loading /\ th[t].pc \in DBPCs
  BY TypeCheck, TypeLookup, TypeInsert, TypeAffiliation DEF Loading, Opened, DBPCs
<1>2. {"lookup", "insert", "affs", "snapshot"} \subseteq Loading
  BY DEF Loading, Opened, DBPCs
<1>3. ASSUME NEW x, NEW d, DBChange(t, x, d), x.pc \in {"lookup", "insert", "affs", "snapshot"}
      PROVE  Control'
  BY <1>1, <1>2, <1>3, ControlLoading
<1>4. CASE CheckDBLevels(t)
  <2> DEFINE x == [th[t] EXCEPT !.pc = "lookup", !.todo = Bootstrap]
  <2>1. x.pc = "lookup" /\ DBChange(t, x, db)
    BY <1>0, <1>4, TypeCheck DEF Thread
  <2> HIDE DEF x
  <2>2. QED
    BY <1>3, <2>1
<1>5. CASE LookupUser(t)
  <2>1. At(th[t], "insert").pc = "insert"
    BY <1>0, AtIs
  <2>2. (\E x : Loops(t, x, "lookup", "affs", Affiliations) /\ DBChange(t, x, db)) => Control'
    BY <1>3 DEF Loops
  <2>3. t \in Servers /\ Exit(t) => Control'
    BY <1>0, ControlExit
  <2>4. QED
    BY <1>1, <1>3, <1>5, <2>1, <2>2, <2>3, TypeLookup, ControlGivesUp
<1>6. CASE InsertUser(t)
  <2> DEFINE x == [th[t] EXCEPT !.failed = TRUE, !.pc = "affs", !.todo = Affiliations]
  <2>1. x.pc = "affs"
    BY <1>0 DEF Thread
  <2>2. \/ DBChange(t, x, db)
        \/ \E y : Loops(t, y, "lookup", "affs", Affiliations) /\ DBChange(t, y, db')
    BY <1>6, TypeInsert
  <2> HIDE DEF x
  <2>3. QED
    BY <1>3, <2>1, <2>2 DEF Loops
<1>7. CASE LoadAffiliation(t)
  BY <1>3, <1>7, TypeAffiliation DEF Loops
<1>8. QED
  BY <1>4, <1>5, <1>6, <1>7

LEMMA ControlMigration ==
    ASSUME TypeInv, Control, NEW t \in Threads,
           GetUserLessThanLevel(t) \/ MigrateUser(t) \/ AddAttribute(t) \/ SetLevel(t)
           \/ UpdateDBLevel(t)
    PROVE  Control'
<1>0. th[t] \in Thread
  BY Typed
<1>1. th[t].pc \in Loading
  BY TypeSnapshot, TypeMigrate, TypeAddAttribute, TypeSetLevel, TypeLevels
  DEF Loading, Opened, DBPCs
<1>2. {"user", "addAttr", "setLevel", "levels", "finish"} \subseteq Loading
  BY DEF Loading, Opened, DBPCs
<1>3. ASSUME NEW x, NEW d, DBChange(t, x, d),
             x.pc \in {"user", "addAttr", "setLevel", "levels", "finish"}
      PROVE  Control'
  BY <1>1, <1>2, <1>3, ControlLoading
<1>4. ASSUME NEW pc \in {"addAttr", "setLevel"}, NEW d, DBChange(t, At(th[t], pc), d)
      PROVE  Control'
  BY <1>0, <1>3, <1>4, AtIs
<1>5. ASSUME NEW d, DBChange(t, [th[t] EXCEPT !.pc = "finish", !.failed = TRUE], d) PROVE Control'
  <2>1. [th[t] EXCEPT !.pc = "finish", !.failed = TRUE].pc = "finish"
    BY <1>0 DEF Thread
  <2>2. QED
    BY <1>3, <1>5, <2>1
<1>6. ASSUME NEW d, NEW snap, DBChange(t, [th[t] EXCEPT !.pc = "user", !.snap = snap], d)
      PROVE  Control'
  <2>1. [th[t] EXCEPT !.pc = "user", !.snap = snap].pc = "user"
    BY <1>0 DEF Thread
  <2>2. QED
    BY <1>3, <1>6, <2>1
<1>7. ASSUME DBChange(t, [th[t] EXCEPT !.pc = "levels", !.todo = LevelNames], db) PROVE Control'
  <2>1. [th[t] EXCEPT !.pc = "levels", !.todo = LevelNames].pc = "levels"
    BY <1>0 DEF Thread
  <2>2. QED
    BY <1>3, <1>7, <2>1
<1>8. CASE GetUserLessThanLevel(t)
  BY <1>6, <1>8, TypeSnapshot
<1>9. CASE MigrateUser(t)
  BY <1>4, <1>7, <1>9, TypeMigrate
<1>10. CASE AddAttribute(t)
  BY <1>4, <1>5, <1>10, TypeAddAttribute
<1>11. CASE SetLevel(t)
  BY <1>5, <1>6, <1>11, TypeSetLevel
<1>12. CASE UpdateDBLevel(t)
  BY <1>3, <1>12, TypeLevels DEF Loops
<1>13. QED
  BY <1>8, <1>9, <1>10, <1>11, <1>12

LEMMA ControlMain ==
    ASSUME TypeInv, Control, NEW s \in Servers,
           CheckConfigLevels(s) \/ InitKeyMaterial(s) \/ WriteChain(s) \/ WriteCert(s)
    PROVE  Control'
<1>0. s \in Threads /\ th[s] \in Thread /\ cfg' = cfg
  BY Typed DEF Threads, CheckConfigLevels, InitKeyMaterial, WriteChain, WriteCert
<1>1. ASSUME NEW x, Moves(s, x), UNCHANGED <<proc, ca, lock, ilock>>, th[s].pc \in MainPCs,
             x.pc \in {"keys", "initDB", "writeChain", "writeCert"}
      PROVE  Control'
  <2>1. th[s].pc # "idle" /\ x.pc \in Neutral /\ x.pc \notin {"getCA", "getCAReady"}
    BY <1>1 DEF MainPCs, Neutral
  <2>2. QED
    BY <1>0, <1>1, <2>1, ControlNeutral DEF Quiet
<1>2. ASSUME NEW pc, Moves(s, At(th[s], pc)), UNCHANGED <<proc, ca, lock, ilock>>,
             th[s].pc \in MainPCs, pc \in {"keys", "initDB", "writeCert"}
      PROVE  Control'
  BY <1>0, <1>1, <1>2, AtIs
<1>3. {"config", "keys", "writeChain", "writeCert"} \subseteq MainPCs
  BY DEF MainPCs
<1>4. Exit(s) => Control'
  BY <1>0, ControlExit
<1>5. CASE CheckConfigLevels(s)
  BY <1>2, <1>3, <1>4, <1>5, TypeConfig
<1>6. CASE InitKeyMaterial(s)
  <2>1. ASSUME NEW k \in Keys, UNCHANGED <<proc, ca, lock, ilock>>, th[s].pc = "keys",
               Moves(s, [th[s] EXCEPT !.key = k, !.pc =
                           IF cfg.intermediate THEN "writeChain" ELSE "writeCert"])
        PROVE  Control'
    <3> DEFINE x == [th[s] EXCEPT !.key = k, !.pc =
                       IF cfg.intermediate THEN "writeChain" ELSE "writeCert"]
    <3>1. x.pc \in {"writeChain", "writeCert"}
      BY <1>0 DEF Thread
    <3>2. Moves(s, x)
      BY <2>1
    <3> HIDE DEF x
    <3>3. QED
      BY <1>1, <1>3, <2>1, <3>1, <3>2
  <2>2. QED
    BY <1>2, <1>3, <1>4, <1>6, <2>1, TypeKeyMaterial
<1>7. CASE WriteChain(s)
  BY <1>2, <1>3, <1>7, TypeWriteChain
<1>8. CASE WriteCert(s)
  <2>1. At(Idle, "initDB").pc = "initDB"
    BY IdleIs
  <2>2. QED
    BY <1>1, <1>3, <1>8, <2>1, TypeWriteCert
<1>9. QED
  BY <1>5, <1>6, <1>7, <1>8

LEMMA ControlFails == ASSUME TypeInv, Control, NEW t \in Threads, StepFails(t) PROVE Control'
<1> DEFINE pc == th[t].pc
<1>0. th[t] \in Thread /\ cfg' = cfg /\ Host(t) \in Servers
  BY Typed DEF StepFails
<1>1. {"createTables", "open", "schema", "schemaRest", "check", "lookup"} \subseteq DBPCs
  BY DEF DBPCs
<1>2. {"lookup", "insert", "affs", "snapshot", "addAttr", "setLevel", "levels", "finish"}
        \subseteq Loading
  BY DEF Loading, Opened, DBPCs
<1>3. Exit(Host(t)) => Control'
  BY <1>0, ControlExit
<1>4. pc \in {"createTables", "open"} /\ Closes(t) => Control'
  BY <1>0, <1>1, ControlCloses
<1>5. pc \in {"schema", "schemaRest", "check", "lookup"} /\ GivesUp(t) => Control'
  BY <1>1, ControlGivesUp
<1>6. t \in Servers /\ Exit(t) => Control'
  BY <1>0, ControlExit
<1>7. ASSUME NEW x, NEW d, DBChange(t, x, d), pc \in Loading, x.pc \in Loading PROVE Control'
  BY <1>7, ControlLoading
<1>8. pc = "lookup" /\ DBChange(t, At(th[t], "insert"), db) => Control'
  BY <1>0, <1>2, <1>7, AtIs
<1>9. ASSUME pc = "insert", DBChange(t, [th[t] EXCEPT !.failed = TRUE, !.pc = "affs",
                                               !.todo = Affiliations], db)
      PROVE  Control'
  <2>1. [th[t] EXCEPT !.failed = TRUE, !.pc = "affs", !.todo = Affiliations].pc = "affs"
    BY <1>0 DEF Thread
  <2>2. QED
    BY <1>2, <1>7, <1>9, <2>1
<1>10. ASSUME pc = "affs", DBChange(t, [th[t] EXCEPT !.failed = TRUE, !.pc = "snapshot",
                                               !.todo = <<>>], db)
      PROVE  Control'
  <2>1. [th[t] EXCEPT !.failed = TRUE, !.pc = "snapshot", !.todo = <<>>].pc = "snapshot"
    BY <1>0 DEF Thread
  <2>2. QED
    BY <1>2, <1>7, <1>10, <2>1
<1>11. ASSUME pc \in {"snapshot", "addAttr", "setLevel", "levels"},
              DBChange(t, [th[t] EXCEPT !.failed = TRUE, !.pc = "finish"], db)
       PROVE  Control'
  <2>1. [th[t] EXCEPT !.failed = TRUE, !.pc = "finish"].pc = "finish"
    BY <1>0 DEF Thread
  <2>2. QED
    BY <1>2, <1>7, <1>11, <2>1
<1>12. pc \in IssuerPCs /\ Drops(t) => Control'
  BY <1>0, ControlDrops
<1>13. QED
  BY <1>3, <1>4, <1>5, <1>6, <1>8, <1>9, <1>10, <1>11, <1>12, TypeFails

LEMMA ControlInit == Init => Control
<1>1. SUFFICES ASSUME Init PROVE Control
  OBVIOUS
<1>2. ASSUME NEW t \in Threads PROVE PlaceOK(t) /\ ThreadOK(t)
  <2>1. th[t].pc = "idle"
    BY <1>1 DEF Init, Idle
  <2>2. QED
    BY <2>1 DEF PlaceOK, ThreadOK, MainPCs, DBPCs, Opened, Loading, IssuerPCs
<1>3. ASSUME NEW s \in Servers PROVE CAOK(s)
  BY <1>1 DEF Init, CAOK, NewCA
<1>4. QED
  BY <1>2, <1>3 DEF Control

LEMMA ControlStep == ASSUME TypeInv, Control, NEW t \in Threads, Step(t) PROVE Control'
<1>1. CASE \/ InitDB(t) \/ LockDB(t) \/ CreateSQLiteTables(t) \/ CreatePostgresTables(t)
           \/ CreateMySQLTables(t) \/ OpenDB(t)
  BY <1>1, ControlInitDB, ControlLockDB, ControlTables, ControlOpenDB
<1>2. CASE \/ UpdateSQLiteSchema(t) \/ AlterTables(t) \/ UpdateSchemaRest(t) \/ SetAccessors(t)
           \/ CheckDBLevels(t) \/ LookupUser(t) \/ InsertUser(t)
  BY <1>2, ControlSchema, ControlAccessors, ControlLoad
<1>3. CASE \/ LoadAffiliation(t) \/ GetUserLessThanLevel(t) \/ MigrateUser(t) \/ AddAttribute(t)
           \/ SetLevel(t) \/ UpdateDBLevel(t) \/ FinishDB(t)
  BY <1>3, ControlLoad, ControlMigration, ControlFinish
<1>4. CASE \/ InitIssuer(t) \/ LockIssuer(t) \/ IssuerKeyMaterial(t) \/ StoreIssuerKey(t)
           \/ RevocationKeyMaterial(t) \/ StoreRevocationKey(t) \/ GetRAInfo(t) \/ AddRAInfo(t)
  BY <1>4, ControlInitIssuer, ControlLockIssuer, ControlKeyFiles, ControlRAInfo
<1>5. QED
  BY <1>1, <1>2, <1>3, <1>4 DEF Step

LEMMA ControlNext == ASSUME TypeInv, Control, [Next]_vars PROVE Control'
<1>1. ASSUME NEW s \in Servers, Start(s) \/ MainStep(s) \/ Crash(s) PROVE Control'
  <2>1. s \in Threads
    BY DEF Threads
  <2>2. Crash(s) => Control'
    BY ControlExit, TypeCrash
  <2>3. QED
    BY <1>1, <2>1, <2>2, ControlStart, ControlMain, ControlSigner, ControlStep DEF MainStep
<1>2. ASSUME NEW h \in Handlers, Request(h) \/ HandlerStep(h) PROVE Control'
  <2>1. h \in Threads
    BY DEF Threads
  <2>2. QED
    BY <1>2, <2>1, ControlRequest, ControlGetCA, ControlServe, ControlStep DEF HandlerStep
<1>3. ASSUME NEW t \in Threads, StepFails(t) PROVE Control'
  BY <1>3, ControlFails
<1>4. CASE UNCHANGED vars
  BY <1>4 DEF vars, Control, PlaceOK, ThreadOK, CAOK, Wired, Host
<1>5. QED
  BY <1>1, <1>2, <1>3, <1>4 DEF Next

LEMMA ControlHolds == Spec => [](TypeInv /\ Control)
  BY TypeInit, TypeNext, ControlInit, ControlNext, PTL DEF Spec, Safety

\* A request is served with the connection of ca.db everywhere: in the
\* registry, the certificate accessor, the signer and the issuer, whatever
\* attempts of initDB failed before and whatever other requests are doing.
THEOREM StartupOneDatabase == Spec => []OneDatabase
<1>1. ASSUME TypeInv, Control, NEW h \in Handlers, th[h].pc = "serving"
      PROVE  LET c == ca[Host(h)] IN
             /\ c.db # None
             /\ c.certs = c.db /\ c.signer = c.db
             /\ ~cfg.ldap => c.registry = c.db
             /\ c.issuerReady => c.issuerDB = c.db
  <2>1. h \in Threads /\ h \notin Servers
    BY StartupConstantsOK DEF Threads
  <2>2. ThreadOK(h) /\ PlaceOK(h) /\ CAOK(Host(h))
    BY <1>1, <2>1, Typed DEF Control
  <2>3. ca[Host(h)].ready /\ proc[Host(h)] = "up"
    BY <1>1, <2>1, <2>2 DEF ThreadOK, PlaceOK
  <2>4. QED
    BY <2>2, <2>3 DEF CAOK, Wired
<1>2. TypeInv /\ Control => OneDatabase
  BY <1>1 DEF OneDatabase
<1>3. QED
  BY <1>2, ControlHolds, PTL
-----------------------------------------------------------------------------
(* Keys.                                                                   *)

\* The places where a thread relies on files or keys of its own.
KeyPCs == {"writeChain", "writeCert", "storeIpk", "storeIsk", "revKey", "storeRpriv", "storeRpub",
           "raInfo", "raInsert"}

LEMMA KeysElsewhere ==
    ASSUME NEW t \in Threads, th[t].pc \notin KeyPCs, th[t].pc \in BeforeCert \/ t \notin Servers
    PROVE  KeysOK(t)
  BY DEF KeysOK, KeyPCs

LEMMA HomeType ==
    ASSUME TypeInv, NEW s \in Servers
    PROVE  /\ files \in [Servers -> Home] /\ files[s] \in Home /\ keystore[s] \subseteq Keys
           /\ keystore \in [Servers -> SUBSET Keys]
           /\ \A f \in FileNames : files[s][f] \in Keys \cup {Absent, Empty}
           /\ \A f \in FileNames : \A v : [files[s] EXCEPT ![f] = v][f] = v
           /\ \A f, g \in FileNames : f # g => \A v : [files[s] EXCEPT ![f] = v][g] = files[s][g]
  BY TypeParts DEF DataTyped, Home

LEMMA Names == FileNames = {"key", "cert", "chain", "ipk", "isk", "rpriv", "rpub"}
  BY DEF FileNames

\* The step changes no file and no key.
Keeps ==
    /\ UNCHANGED <<cfg, files, keystore>>
    /\ \A r \in Servers : ca'[r].issuerKey = ca[r].issuerKey /\ ca'[r].revKey = ca[r].revKey

LEMMA KeysKept ==
    ASSUME TypeInv, Control, KeyInv, NEW t \in Threads, NEW x, Moves(t, x), Keeps,
           \A r \in Servers : proc'[r] = "up" => proc[r] = "up" \/ CertUsable(r),
           \A r \in Servers : ca'[r].issuerReady =>
                ca[r].issuerReady \/ (IssuerKeyOK(r) /\ RevKeyOK(r)),
           KeysOK(t)'
    PROVE  KeyInv'
<1>1. ASSUME NEW u \in Threads, u # t PROVE KeysOK(u)'
  <2>1. th'[u] = th[u] /\ Host(u)' = Host(u) /\ KeysOK(u) /\ Host(u) \in Servers
    BY <1>1, Moved, HostKept, Typed DEF KeyInv, Keeps
  <2>2. QED
    BY <2>1 DEF Keeps, KeysOK, CertUsable, IssuerKeyOK, RevKeyOK
<1>2. ASSUME NEW s \in Servers
      PROVE  (HomeOK(s) /\ (proc[s] = "up" => CertUsable(s))
               /\ (ca[s].issuerReady => IssuerKeyOK(s) /\ RevKeyOK(s)))'
  <2>1. /\ HomeOK(s) /\ (proc[s] = "up" => CertUsable(s))
        /\ (ca[s].issuerReady => IssuerKeyOK(s) /\ RevKeyOK(s))
    BY DEF KeyInv
  <2>2. HomeOK(s)'
    BY <2>1 DEF HomeOK, Keeps
  <2>3. proc'[s] = "up" => CertUsable(s)'
    BY <2>1 DEF CertUsable, Keeps
  <2>4. ca'[s].issuerReady => IssuerKeyOK(s)' /\ RevKeyOK(s)'
    BY <2>1 DEF IssuerKeyOK, RevKeyOK, Keeps
  <2>5. QED
    BY <2>2, <2>3, <2>4
<1>3. QED
  BY <1>1, <1>2 DEF KeyInv

\* A step to a place that is not about keys.
LEMMA KeysPlain ==
    ASSUME TypeInv, Control, KeyInv, NEW t \in Threads, NEW x, Moves(t, x), Keeps,
           \A r \in Servers : proc'[r] = "up" => proc[r] = "up" \/ CertUsable(r),
           \A r \in Servers : ca'[r].issuerReady => ca[r].issuerReady,
           x.pc \notin KeyPCs, t \in Servers /\ x.pc \notin BeforeCert => th[t].pc \notin BeforeCert
    PROVE  KeyInv'
<1>1. th'[t].pc = x.pc /\ Host(t)' = Host(t) /\ KeysOK(t)
  BY Moved, HostKept DEF Keeps, KeyInv
<1>2. KeysOK(t)'
  <2>1. CASE x.pc \in BeforeCert \/ t \notin Servers
    BY <1>1, <2>1, KeysElsewhere DEF KeysOK, KeyPCs
  <2>2. CASE x.pc \notin BeforeCert /\ t \in Servers
    <3>1. CertUsable(Host(t))
      BY <1>1, <2>2 DEF KeysOK
    <3>2. QED
      BY <1>1, <2>2, <3>1 DEF KeysOK, KeyPCs, CertUsable, Keeps
  <2>3. QED
    BY <2>1, <2>2
<1>3. QED
  BY <1>2, KeysKept

\* The same for a step that does not change the process or the CA object.
LEMMA KeysQuiet ==
    ASSUME TypeInv, Control, KeyInv, NEW t \in Threads, NEW x, Moves(t, x),
           UNCHANGED <<cfg, proc, ca, files, keystore>>,
           x.pc \notin KeyPCs, t \in Servers /\ x.pc \notin BeforeCert => th[t].pc \notin BeforeCert
    PROVE  KeyInv'
  BY KeysPlain DEF Keeps

\* A step of initDB that stays in initDB.
LEMMA KeysDBChange ==
    ASSUME TypeInv, Control, KeyInv, NEW t \in Threads, NEW x, NEW d, DBChange(t, x, d),
           th[t].pc \in DBPCs, x.pc \in DBPCs
    PROVE  KeyInv'
<1>1. x.pc \notin KeyPCs /\ th[t].pc \notin BeforeCert
  BY DEF DBPCs, KeyPCs, BeforeCert
<1>2. QED
  BY <1>1, KeysQuiet DEF DBChange

LEMMA KeysReturn ==
    ASSUME TypeInv, Control, KeyInv, NEW t \in Threads, th[t].pc \in DBPCs, NEW ok \in BOOLEAN,
           Moves(t, At(Idle, After(t, ok))), UNCHANGED <<cfg, proc, files, keystore>>,
           NEW d, ca' = [ca EXCEPT ![Host(t)] = d], d.issuerKey = ca[Host(t)].issuerKey,
           d.revKey = ca[Host(t)].revKey, d.issuerReady = ca[Host(t)].issuerReady
    PROVE  KeyInv'
<1>1. At(Idle, After(t, ok)).pc = After(t, ok)
  BY IdleIs
<1>2. After(t, ok) \notin KeyPCs /\ th[t].pc \notin BeforeCert
  BY DEF DBPCs, KeyPCs, BeforeCert, After
<1>3. \A r \in Servers : ca'[r].issuerKey = ca[r].issuerKey /\ ca'[r].revKey = ca[r].revKey
                         /\ ca'[r].issuerReady = ca[r].issuerReady
  BY Typed
<1>4. QED
  BY <1>1, <1>2, <1>3, KeysPlain DEF Keeps

LEMMA KeysGivesUp ==
    ASSUME TypeInv, Control, KeyInv, NEW t \in Threads, th[t].pc \in DBPCs, GivesUp(t),
           files' = files
    PROVE  KeyInv'
<1>1. ca' = [ca EXCEPT ![Host(t)] = ca[Host(t)]]
  BY Typed DEF GivesUp
<1>2. QED
  BY <1>1, KeysReturn DEF GivesUp

\* A step of the main thread, which is alone in its process.
LEMMA KeysMain ==
    ASSUME TypeInv, Control, KeyInv, NEW s \in Servers, th[s].pc \in MainPCs, NEW x, Moves(s, x),
           UNCHANGED <<cfg, proc, ca>>, HomeOK(s)', KeysOK(s)',
           files'[s]["ipk"] = files[s]["ipk"], files'[s]["rpub"] = files[s]["rpub"],
           \A r \in Servers : r # s => files'[r] = files[r] /\ keystore'[r] = keystore[r]
    PROVE  KeyInv'
<1>0. s \in Threads /\ Host(s) = s /\ proc[s] = "starting"
  <2>1. s \in Threads /\ th[s].pc # "idle"
    BY DEF Threads, MainPCs
  <2>2. QED
    BY <2>1, Typed DEF Control, PlaceOK
<1>1. ASSUME NEW u \in Threads, u # s PROVE KeysOK(u)'
  <2>1. th'[u] = th[u] /\ Host(u)' = Host(u) /\ KeysOK(u) /\ Host(u) \in Servers /\ PlaceOK(u)
        /\ (u \in Servers => Host(u) = u)
    BY <1>0, <1>1, Moved, HostKept, Typed DEF KeyInv, Control
  <2>2. CASE Host(u) = s
    <3>1. th[u].pc = "idle"
      BY <1>0, <1>1, <2>1, <2>2 DEF PlaceOK
    <3>2. QED
      BY <2>1, <3>1 DEF KeysOK, BeforeCert
  <2>3. CASE Host(u) # s
    <3> DEFINE r == Host(u)
    <3>1. files'[r] = files[r] /\ keystore'[r] = keystore[r]
      BY <2>1, <2>3
    <3>2. QED
      BY <2>1, <3>1 DEF KeysOK, CertUsable, IssuerKeyOK, RevKeyOK
  <2>4. QED
    BY <2>2, <2>3
<1>2. ASSUME NEW r \in Servers
      PROVE  (HomeOK(r) /\ (proc[r] = "up" => CertUsable(r))
               /\ (ca[r].issuerReady => IssuerKeyOK(r) /\ RevKeyOK(r)))'
  <2>1. /\ HomeOK(r) /\ (proc[r] = "up" => CertUsable(r))
        /\ (ca[r].issuerReady => IssuerKeyOK(r) /\ RevKeyOK(r))
    BY DEF KeyInv
  <2>2. CASE r = s
    BY <1>0, <2>1, <2>2 DEF IssuerKeyOK, RevKeyOK
  <2>3. CASE r # s
    BY <2>1, <2>3 DEF HomeOK, CertUsable, IssuerKeyOK, RevKeyOK
  <2>4. QED
    BY <2>2, <2>3
<1>3. QED
  BY <1>1, <1>2 DEF KeyInv

\* A step of the thread that initializes the issuer: it holds the mutex.
LEMMA KeysIssuer ==
    ASSUME TypeInv, Control, KeyInv, NEW t \in Threads, th[t].pc \in IssuerPCs,
           NEW s, s = Host(t), NEW x, Moves(t, x), UNCHANGED <<cfg, proc, keystore>>,
           HomeOK(s)', KeysOK(t)', ~ca'[s].issuerReady,
           files'[s]["cert"] = files[s]["cert"], files'[s]["key"] = files[s]["key"],
           \A r \in Servers : r # s => files'[r] = files[r] /\ ca'[r] = ca[r]
    PROVE  KeyInv'
<1>0. s \in Servers /\ ilock[s] = t /\ th[t].pc # "idle"
  BY Typed DEF Control, ThreadOK, IssuerPCs
<1>1. ASSUME NEW u \in Threads, u # t PROVE KeysOK(u)'
  <2>1. th'[u] = th[u] /\ Host(u)' = Host(u) /\ KeysOK(u) /\ Host(u) \in Servers /\ PlaceOK(u)
        /\ ThreadOK(u)
    BY <1>1, Moved, HostKept, Typed DEF KeyInv, Control
  <2>2. CASE Host(u) = s
    <3>1. th[u].pc \in IssuerPCs => FALSE
      BY <1>0, <1>1, <2>1, <2>2 DEF ThreadOK
    <3>2. th[u].pc # "idle" => u \notin Servers
      BY <1>0, <1>1, <2>2, BothHandlers
    <3>3. u \notin Servers => th[u].pc \notin {"writeChain", "writeCert"}
      BY <2>1 DEF PlaceOK, MainPCs
    <3>4. th[u].pc \notin KeyPCs /\ (th[u].pc \in BeforeCert \/ u \notin Servers)
      BY <3>1, <3>2, <3>3 DEF KeyPCs, IssuerPCs, BeforeCert
    <3>5. QED
      BY <2>1, <3>4 DEF KeysOK, KeyPCs
  <2>3. CASE Host(u) # s
    <3> DEFINE r == Host(u)
    <3>1. files'[r] = files[r] /\ keystore'[r] = keystore[r] /\ ca'[r] = ca[r]
      BY <2>1, <2>3
    <3>2. QED
      BY <2>1, <3>1 DEF KeysOK, CertUsable, IssuerKeyOK, RevKeyOK
  <2>4. QED
    BY <2>2, <2>3
<1>2. ASSUME NEW r \in Servers
      PROVE  (HomeOK(r) /\ (proc[r] = "up" => CertUsable(r))
               /\ (ca[r].issuerReady => IssuerKeyOK(r) /\ RevKeyOK(r)))'
  <2>1. /\ HomeOK(r) /\ (proc[r] = "up" => CertUsable(r))
        /\ (ca[r].issuerReady => IssuerKeyOK(r) /\ RevKeyOK(r))
    BY DEF KeyInv
  <2>2. CASE r = s
    BY <1>0, <2>1, <2>2 DEF CertUsable
  <2>3. CASE r # s
    BY <2>1, <2>3 DEF HomeOK, CertUsable, IssuerKeyOK, RevKeyOK
  <2>4. QED
    BY <2>2, <2>3
<1>3. QED
  BY <1>1, <1>2 DEF KeyInv

\* A file that is left empty: its partner is absent, or is the public one.
LEMMA EmptiedHome ==
    ASSUME TypeInv, KeyInv, NEW t \in Threads, th[t].pc \in Writes, Empties(t), cfg' = cfg,
           NEW s, s = Host(t)
    PROVE  /\ HomeOK(s)' /\ \A r \in Servers : r # s => files'[r] = files[r]
           /\ \A f \in FileNames : f # FileAt[th[t].pc] => files'[s][f] = files[s][f]
<1> DEFINE f == files[s]
           pc == th[t].pc
           e == files'[s]
<1>1. s \in Servers /\ KeysOK(t) /\ HomeOK(s) /\ LocalsOK(th[t])
  BY Typed DEF KeyInv
<1>2. FileAt[pc] \in FileNames
  BY FileAtIs
<1>3. /\ e[FileAt[pc]] = Empty /\ \A g \in FileNames : g # FileAt[pc] => e[g] = f[g]
      /\ \A r \in Servers : r # s => files'[r] = files[r]
  <2> DEFINE g == FileAt[pc]
  <2>1. files' = [files EXCEPT ![s] = [f EXCEPT ![g] = Empty]]
    BY DEF Empties
  <2>2. files \in [Servers -> Home] /\ f \in [FileNames -> Keys \cup {Absent, Empty}]
    BY <1>1, HomeType DEF Home
  <2>3. g \in FileNames
    BY <1>2
  <2> HIDE DEF g, f
  <2>4. e = [f EXCEPT ![g] = Empty] /\ \A r \in Servers : r # s => files'[r] = files[r]
    BY <1>1, <2>1, <2>2
  <2> HIDE DEF e
  <2>5. e[g] = Empty /\ \A h \in FileNames : h # g => e[h] = f[h]
    BY <2>2, <2>3, <2>4
  <2>6. QED
    BY <2>4, <2>5 DEF g
<1>4. th[t].key \notin {Absent, Empty}
  BY <1>1, Constants DEF LocalsOK
<1> HIDE DEF f, e
<1>5. HomeOK(s)'
  <2>1. CASE pc = "writeChain"
    BY <1>1, <1>3, <2>1, FileAtIs, Names DEF HomeOK, KeysOK, f, e
  <2>2. CASE pc = "writeCert"
    BY <1>1, <1>3, <2>2, FileAtIs, Names DEF HomeOK, KeysOK, f, e
  <2>3. CASE pc = "storeIpk"
    BY <1>1, <1>3, <2>3, FileAtIs, Names DEF HomeOK, KeysOK, f, e
  <2>4. CASE pc = "storeIsk"
    BY <1>1, <1>3, <1>4, <2>4, FileAtIs, Names DEF HomeOK, KeysOK, f, e
  <2>5. CASE pc = "storeRpriv"
    BY <1>1, <1>3, <2>5, FileAtIs, Names DEF HomeOK, KeysOK, f, e
  <2>6. CASE pc = "storeRpub"
    BY <1>1, <1>3, <1>4, <2>6, FileAtIs, Names DEF HomeOK, KeysOK, f, e
  <2>7. QED
    BY <2>1, <2>2, <2>3, <2>4, <2>5, <2>6 DEF Writes
<1>6. QED
  BY <1>3, <1>5 DEF f, e

LEMMA KeysExit ==
    ASSUME TypeInv, KeyInv, NEW s \in Servers, Exit(s), UNCHANGED <<cfg, keystore>>,
           HomeOK(s)', \A r \in Servers : r # s => files'[r] = files[r]
    PROVE  KeyInv'
<1>1. ASSUME NEW t \in Threads PROVE KeysOK(t)'
  <2>1. Host(t)' = Host(t) /\ KeysOK(t) /\ Host(t) \in Servers
    BY HostKept, Typed DEF KeyInv
  <2>2. CASE Host(t) = s
    <3>1. th'[t] = Idle /\ Idle.pc = "idle"
      BY <2>2 DEF Exit, Idle
    <3>2. QED
      BY <2>1, <3>1 DEF KeysOK, BeforeCert
  <2>3. CASE Host(t) # s
    <3> DEFINE r == Host(t)
    <3>1. /\ th'[t] = th[t] /\ ca'[r] = ca[r] /\ files'[r] = files[r]
      BY <2>1, <2>3, Typed DEF Exit
    <3>2. QED
      BY <2>1, <3>1 DEF KeysOK, CertUsable, IssuerKeyOK, RevKeyOK
  <2>4. QED
    BY <2>2, <2>3
<1>2. ASSUME NEW r \in Servers
      PROVE  (HomeOK(r) /\ (proc[r] = "up" => CertUsable(r))
               /\ (ca[r].issuerReady => IssuerKeyOK(r) /\ RevKeyOK(r)))'
  <2>1. /\ HomeOK(r) /\ (proc[r] = "up" => CertUsable(r))
        /\ (ca[r].issuerReady => IssuerKeyOK(r) /\ RevKeyOK(r))
    BY DEF KeyInv
  <2>2. ca \in [Servers -> CAObject] /\ proc \in [Servers -> {"down", "starting", "up"}]
    BY TypeParts DEF ControlTyped
  <2>3. CASE r = s
    BY <2>2, <2>3 DEF Exit, NewCA
  <2>4. CASE r # s
    <3>1. ca'[r] = ca[r] /\ proc'[r] = proc[r]
      BY <2>2, <2>4 DEF Exit
    <3>2. QED
      BY <2>1, <2>4, <3>1 DEF HomeOK, CertUsable, IssuerKeyOK, RevKeyOK
  <2>5. QED
    BY <2>3, <2>4
<1>3. QED
  BY <1>1, <1>2 DEF KeyInv

LEMMA KeysExitQuiet ==
    ASSUME TypeInv, KeyInv, NEW s \in Servers, Exit(s), UNCHANGED <<cfg, keystore, files>>
    PROVE  KeyInv'
<1>1. HomeOK(s)'
  BY DEF KeyInv, HomeOK
<1>2. QED
  BY <1>1, KeysExit

LEMMA KeysCrash == ASSUME TypeInv, KeyInv, NEW s \in Servers, Crash(s) PROVE KeyInv'
<1>1. UNCHANGED <<cfg, keystore>> /\ Exit(s)
  BY TypeCrash
<1>2. CASE UNCHANGED files
  BY <1>1, <1>2, KeysExitQuiet
<1>3. ASSUME NEW t \in Threads, Host(t) = s, th[t].pc \in Writes, Empties(t) PROVE KeyInv'
  BY <1>1, <1>3, EmptiedHome, KeysExit
<1>4. QED
  BY <1>2, <1>3, TypeCrash

LEMMA KeysWrites ==
    ASSUME TypeInv, Control, KeyInv, NEW s \in Servers, InitKeyMaterial(s) PROVE KeyInv'
<1>0. /\ s \in Threads /\ Host(s) = s /\ th[s] \in Thread /\ HomeOK(s) /\ Host(s)' = s
      /\ UNCHANGED <<cfg, files>> /\ th[s].pc = "keys" /\ th[s].pc \in MainPCs
  BY Typed, TypeKeyMaterial, HostKept DEF Threads, KeyInv, MainPCs
<1>1. CASE Exit(s) /\ UNCHANGED keystore
  BY <1>0, <1>1, KeysExitQuiet
<1>2. HomeOK(s)'
  BY <1>0 DEF HomeOK
<1>3. CASE /\ files[s]["cert"] \notin {Absent, Empty}
           /\ files[s]["cert"] \in keystore[s] \cup {files[s]["key"]}
           /\ Moves(s, At(th[s], "initDB"))
           /\ UNCHANGED <<keystore, proc, ca, lock, ilock>>
  <2>1. th'[s].pc = "initDB"
    BY <1>0, <1>3, Moved, AtIs
  <2>2. CertUsable(s)'
    BY <1>0, <1>3 DEF CertUsable
  <2>3. KeysOK(s)'
    BY <1>0, <2>1, <2>2 DEF KeysOK
  <2>4. QED
    BY <1>0, <1>2, <1>3, <2>3, KeysMain
<1>4. ASSUME files[s]["cert"] = Absent, NEW k \in Keys,
             keystore' = [keystore EXCEPT ![s] = @ \cup {k}],
             Moves(s, [th[s] EXCEPT !.key = k, !.pc =
                         IF cfg.intermediate THEN "writeChain" ELSE "writeCert"]),
             UNCHANGED <<proc, ca, lock, ilock>>
      PROVE  KeyInv'
  <2> DEFINE x == [th[s] EXCEPT !.key = k, !.pc =
                     IF cfg.intermediate THEN "writeChain" ELSE "writeCert"]
  <2>1. x.key = k /\ x.pc = IF cfg.intermediate THEN "writeChain" ELSE "writeCert"
    BY <1>0 DEF Thread
  <2>2. Moves(s, x)
    BY <1>4
  <2> HIDE DEF x
  <2>3. th'[s] = x
    BY <1>0, <2>2, Moved
  <2>4. k \in keystore'[s] /\ \A r \in Servers : r # s => keystore'[r] = keystore[r]
    BY <1>4, HomeType
  <2>5. KeysOK(s)'
    BY <1>0, <1>4, <2>1, <2>3, <2>4 DEF KeysOK, BeforeCert
  <2>6. QED
    BY <1>0, <1>2, <1>4, <2>2, <2>4, <2>5, KeysMain
<1>5. QED
  BY <1>1, <1>3, <1>4, TypeKeyMaterial

\* One file of s is written.
Wrote(s, f, v) == files' = [files EXCEPT ![s] = [files[s] EXCEPT ![f] = v]]

LEMMA Written ==
    ASSUME TypeInv, NEW s \in Servers, NEW f \in FileNames, NEW v, Wrote(s, f, v)
    PROVE  /\ files'[s][f] = v /\ \A g \in FileNames : g # f => files'[s][g] = files[s][g]
           /\ \A r \in Servers : r # s => files'[r] = files[r]
<1> DEFINE h == files[s]
           e == [h EXCEPT ![f] = v]
<1>1. files \in [Servers -> Home] /\ h \in [FileNames -> Keys \cup {Absent, Empty}]
  BY HomeType DEF Home
<1>2. files'[s] = e /\ \A r \in Servers : r # s => files'[r] = files[r]
  BY <1>1 DEF Wrote
<1>3. e[f] = v /\ \A g \in FileNames : g # f => e[g] = h[g]
  BY <1>1
<1>4. QED
  BY <1>2, <1>3

LEMMA KeysWriteChain ==
    ASSUME TypeInv, Control, KeyInv, NEW s \in Servers, WriteChain(s) PROVE KeyInv'
<1>0. /\ s \in Threads /\ Host(s) = s /\ th[s] \in Thread /\ HomeOK(s) /\ KeysOK(s)
      /\ UNCHANGED <<cfg, proc, ca, keystore>> /\ th[s].pc = "writeChain" /\ th[s].pc \in MainPCs
      /\ Moves(s, At(th[s], "writeCert")) /\ Host(s)' = s
  BY Typed, TypeWriteChain, HostKept DEF Threads, KeyInv, MainPCs
<1>1. /\ files'[s]["chain"] = th[s].key
      /\ \A g \in FileNames : g # "chain" => files'[s][g] = files[s][g]
      /\ \A r \in Servers : r # s => files'[r] = files[r]
  <2>1. Wrote(s, "chain", th[s].key)
    BY TypeWriteChain DEF Wrote
  <2>2. "chain" \in FileNames
    BY Names
  <2>3. QED
    BY <2>1, <2>2, Written
<1>2. th'[s].pc = "writeCert" /\ th'[s].key = th[s].key
  BY <1>0, Moved, AtIs
<1>3. files[s]["cert"] = Absent /\ th[s].key \in keystore[s]
  BY <1>0 DEF KeysOK
<1>4. HomeOK(s)'
  BY <1>0, <1>1, <1>3, Names DEF HomeOK
<1>5. KeysOK(s)'
  BY <1>0, <1>1, <1>2, <1>3, Names DEF KeysOK, BeforeCert
<1>6. files'[s]["ipk"] = files[s]["ipk"] /\ files'[s]["rpub"] = files[s]["rpub"]
  BY <1>1, Names
<1>7. QED
  BY <1>0, <1>1, <1>4, <1>5, <1>6, KeysMain

LEMMA KeysWriteCert ==
    ASSUME TypeInv, Control, KeyInv, NEW s \in Servers, WriteCert(s) PROVE KeyInv'
<1>0. /\ s \in Threads /\ Host(s) = s /\ th[s] \in Thread /\ HomeOK(s) /\ KeysOK(s)
      /\ UNCHANGED <<cfg, proc, ca, keystore>> /\ th[s].pc = "writeCert" /\ th[s].pc \in MainPCs
      /\ Moves(s, At(Idle, "initDB")) /\ Host(s)' = s
  BY Typed, TypeWriteCert, HostKept DEF Threads, KeyInv, MainPCs
<1>1. /\ files'[s]["cert"] = th[s].key
      /\ \A g \in FileNames : g # "cert" => files'[s][g] = files[s][g]
      /\ \A r \in Servers : r # s => files'[r] = files[r]
  <2>1. Wrote(s, "cert", th[s].key)
    BY TypeWriteCert DEF Wrote
  <2>2. "cert" \in FileNames
    BY Names
  <2>3. QED
    BY <2>1, <2>2, Written
<1>2. th'[s].pc = "initDB"
  BY <1>0, Moved, IdleIs
<1>3. /\ th[s].key \in keystore[s] /\ th[s].key \notin {Absent, Empty}
      /\ cfg.intermediate => files[s]["chain"] = th[s].key
  BY <1>0, HomeType, Constants DEF KeysOK
<1>4. HomeOK(s)'
  BY <1>0, <1>1, <1>3, Names DEF HomeOK
<1>5. CertUsable(s)'
  BY <1>0, <1>1, <1>3 DEF CertUsable
<1>6. KeysOK(s)'
  BY <1>0, <1>2, <1>5 DEF KeysOK
<1>7. files'[s]["ipk"] = files[s]["ipk"] /\ files'[s]["rpub"] = files[s]["rpub"]
  BY <1>1, Names
<1>8. QED
  BY <1>0, <1>1, <1>4, <1>6, <1>7, KeysMain

LEMMA KeysDrops ==
    ASSUME TypeInv, Control, KeyInv, NEW t \in Threads, th[t].pc \in IssuerPCs, Drops(t),
           UNCHANGED <<cfg, keystore>>,
           IF th[t].pc \in Writes THEN Empties(t) ELSE UNCHANGED files
    PROVE  KeyInv'
<1> SUFFICES ASSUME NEW s, s = Host(t) PROVE KeyInv'
  OBVIOUS
<1>0. s \in Servers /\ ThreadOK(t) /\ HomeOK(s) /\ Host(t)' = s
  BY Typed, HostKept DEF Control, KeyInv
<1>1. /\ Moves(t, Idle) /\ UNCHANGED <<proc, ca>> /\ t \notin Servers /\ ~ca[s].issuerReady
  BY <1>0 DEF Drops, ThreadOK
<1>2. KeysOK(t)'
  <2>1. th'[t].pc = "idle"
    BY <1>1, Moved DEF Idle
  <2>2. QED
    BY <1>0, <2>1 DEF KeysOK, BeforeCert
<1>3. CASE th[t].pc \in Writes
  <2>1. FileAt[th[t].pc] \in {"ipk", "isk", "rpriv", "rpub"}
    BY <1>3, FileAtIs DEF IssuerPCs, Writes
  <2>2. QED
    BY <1>0, <1>1, <1>2, <1>3, <2>1, EmptiedHome, KeysIssuer, Names
<1>4. CASE th[t].pc \notin Writes
  <2>1. UNCHANGED files
    BY <1>4
  <2>2. HomeOK(s)'
    BY <1>0, <2>1 DEF HomeOK
  <2>3. QED
    BY <1>0, <1>1, <1>2, <2>1, <2>2, KeysIssuer
<1>5. QED
  BY <1>3, <1>4

\* What a thread that initializes the issuer knows and keeps.
LEMMA IssuerThread ==
    ASSUME TypeInv, Control, KeyInv, NEW t \in Threads, th[t].pc \in IssuerPCs
    PROVE  /\ Host(t) \in Servers /\ KeysOK(t) /\ HomeOK(Host(t)) /\ ~ca[Host(t)].issuerReady
           /\ t \in Servers => CertUsable(Host(t))
           /\ ca \in [Servers -> CAObject] /\ ca[Host(t)] \in CAObject /\ th[t] \in Thread
<1>1. th[t].pc \notin BeforeCert
  BY DEF IssuerPCs, BeforeCert
<1>2. KeysOK(t) /\ ThreadOK(t)
  BY DEF KeyInv, Control
<1>3. QED
  BY <1>1, <1>2, Typed DEF KeyInv, KeysOK, ThreadOK

LEMMA KeysLoadIssuer ==
    ASSUME TypeInv, Control, KeyInv, NEW t \in Threads, IssuerKeyMaterial(t) PROVE KeyInv'
<1> SUFFICES ASSUME NEW s, s = Host(t) PROVE KeyInv'
  OBVIOUS
<1>0. /\ UNCHANGED <<cfg, files, keystore>> /\ th[t].pc = "issuerKey" /\ Host(t)' = s
      /\ th[t].pc \in IssuerPCs /\ th[t].pc \notin Writes
  BY TypeIssuerKey, HostKept DEF IssuerPCs, Writes
<1>1. /\ s \in Servers /\ KeysOK(t) /\ HomeOK(s) /\ ~ca[s].issuerReady
      /\ t \in Servers => CertUsable(s)
      /\ ca \in [Servers -> CAObject] /\ ca[s] \in CAObject /\ th[t] \in Thread
  BY <1>0, IssuerThread
<1>2. HomeOK(s)' /\ (t \in Servers => CertUsable(s)')
  BY <1>0, <1>1 DEF HomeOK, CertUsable
<1>3. CASE /\ files[s]["ipk"] \notin {Absent, Empty} /\ files[s]["isk"] \notin {Absent, Empty}
           /\ ca' = [ca EXCEPT ![s] = IssuerLoaded(ca[s], files[s])]
           /\ Moves(t, At(th[t], "revKey")) /\ UNCHANGED <<proc, lock, ilock>>
  <2> DEFINE d == IssuerLoaded(ca[s], files[s])
  <2>1. /\ d.issuerReady = ca[s].issuerReady
        /\ d.issuerKey = [pub |-> files[s]["ipk"], priv |-> files[s]["isk"]]
    BY <1>1 DEF IssuerLoaded, CAObject
  <2>2. ca' = [ca EXCEPT ![s] = d]
    BY <1>3
  <2> HIDE DEF d
  <2>3. ca'[s] = d /\ \A r \in Servers : r # s => ca'[r] = ca[r]
    BY <1>1, <2>2
  <2>4. files[s]["isk"] = files[s]["ipk"]
    BY <1>1, <1>3 DEF HomeOK
  <2>5. IssuerKeyOK(s)'
    BY <1>0, <2>1, <2>3, <2>4 DEF IssuerKeyOK
  <2>6. th'[t].pc = "revKey"
    BY <1>1, <1>3, Moved, AtIs
  <2>7. KeysOK(t)'
    BY <1>0, <1>2, <2>5, <2>6 DEF KeysOK
  <2>8. QED
    BY <1>0, <1>1, <1>2, <1>3, <2>1, <2>3, <2>7, KeysIssuer
<1>4. CASE (t \in Servers /\ Exit(t)) \/ Drops(t)
  BY <1>0, <1>4, KeysExitQuiet, KeysDrops
<1>5. ASSUME Absent \in {files[s]["ipk"], files[s]["isk"]}, NEW k \in Keys,
             Moves(t, [th[t] EXCEPT !.key = k, !.pc = "storeIpk"]),
             UNCHANGED <<proc, ca, lock, ilock>>
      PROVE  KeyInv'
  <2> DEFINE x == [th[t] EXCEPT !.key = k, !.pc = "storeIpk"]
  <2>1. x.pc = "storeIpk" /\ Moves(t, x)
    BY <1>1, <1>5 DEF Thread
  <2> HIDE DEF x
  <2>2. th'[t].pc = "storeIpk"
    BY <2>1, Moved
  <2>3. files[s]["isk"] = Absent
    BY <1>1, <1>5 DEF HomeOK
  <2>4. KeysOK(t)'
    BY <1>0, <1>2, <2>2, <2>3 DEF KeysOK
  <2>5. QED
    BY <1>0, <1>1, <1>2, <1>5, <2>1, <2>4, KeysIssuer
<1>6. QED
  BY <1>3, <1>4, <1>5, TypeIssuerKey

LEMMA KeysLoadRevocation ==
    ASSUME TypeInv, Control, KeyInv, NEW t \in Threads, RevocationKeyMaterial(t) PROVE KeyInv'
<1> SUFFICES ASSUME NEW s, s = Host(t) PROVE KeyInv'
  OBVIOUS
<1>0. /\ UNCHANGED <<cfg, files, keystore>> /\ th[t].pc = "revKey" /\ Host(t)' = s
      /\ th[t].pc \in IssuerPCs /\ th[t].pc \notin Writes
  BY TypeRevocationKey, HostKept DEF IssuerPCs, Writes
<1>1. /\ s \in Servers /\ KeysOK(t) /\ HomeOK(s) /\ ~ca[s].issuerReady
      /\ t \in Servers => CertUsable(s)
      /\ ca \in [Servers -> CAObject] /\ ca[s] \in CAObject /\ th[t] \in Thread
  BY <1>0, IssuerThread
<1>2. HomeOK(s)' /\ (t \in Servers => CertUsable(s)') /\ IssuerKeyOK(s)
  BY <1>0, <1>1 DEF HomeOK, CertUsable, KeysOK
<1>3. CASE /\ files[s]["rpub"] \notin {Absent, Empty} /\ files[s]["rpriv"] \notin {Absent, Empty}
           /\ ca' = [ca EXCEPT ![s] = RevLoaded(ca[s], files[s])]
           /\ Moves(t, At(th[t], "raInfo")) /\ UNCHANGED <<proc, lock, ilock>>
  <2> DEFINE d == RevLoaded(ca[s], files[s])
  <2>1. /\ d.issuerReady = ca[s].issuerReady /\ d.issuerKey = ca[s].issuerKey
        /\ d.revKey = [pub |-> files[s]["rpub"], priv |-> files[s]["rpriv"]]
    BY <1>1 DEF RevLoaded, CAObject
  <2>2. ca' = [ca EXCEPT ![s] = d]
    BY <1>3
  <2> HIDE DEF d
  <2>3. ca'[s] = d /\ \A r \in Servers : r # s => ca'[r] = ca[r]
    BY <1>1, <2>2
  <2>4. files[s]["rpriv"] = files[s]["rpub"]
    BY <1>1, <1>3 DEF HomeOK
  <2>5. IssuerKeyOK(s)' /\ RevKeyOK(s)'
    BY <1>0, <1>2, <2>1, <2>3, <2>4 DEF IssuerKeyOK, RevKeyOK
  <2>6. th'[t].pc = "raInfo"
    BY <1>1, <1>3, Moved, AtIs
  <2>7. KeysOK(t)'
    BY <1>0, <1>2, <2>5, <2>6 DEF KeysOK
  <2>8. QED
    BY <1>0, <1>1, <1>2, <1>3, <2>1, <2>3, <2>7, KeysIssuer
<1>4. CASE (t \in Servers /\ Exit(t)) \/ Drops(t)
  BY <1>0, <1>4, KeysExitQuiet, KeysDrops
<1>5. ASSUME Absent \in {files[s]["rpub"], files[s]["rpriv"]}, NEW k \in Keys,
             Moves(t, [th[t] EXCEPT !.key = k, !.pc = "storeRpriv"]),
             UNCHANGED <<proc, ca, lock, ilock>>
      PROVE  KeyInv'
  <2> DEFINE x == [th[t] EXCEPT !.key = k, !.pc = "storeRpriv"]
  <2>1. x.pc = "storeRpriv" /\ Moves(t, x)
    BY <1>1, <1>5 DEF Thread
  <2> HIDE DEF x
  <2>2. th'[t].pc = "storeRpriv"
    BY <2>1, Moved
  <2>3. files[s]["rpub"] = Absent
    BY <1>1, <1>5 DEF HomeOK
  <2>4. IssuerKeyOK(s)'
    BY <1>0, <1>2, <1>5 DEF IssuerKeyOK
  <2>5. KeysOK(t)'
    BY <1>0, <1>2, <2>2, <2>3, <2>4 DEF KeysOK
  <2>6. QED
    BY <1>0, <1>1, <1>2, <1>5, <2>1, <2>5, KeysIssuer
<1>6. QED
  BY <1>3, <1>4, <1>5, TypeRevocationKey

LEMMA KeysStoreIssuer ==
    ASSUME TypeInv, Control, KeyInv, NEW t \in Threads, StoreIssuerKey(t) PROVE KeyInv'
<1> SUFFICES ASSUME NEW s, s = Host(t), NEW k, k = th[t].key PROVE KeyInv'
  OBVIOUS
<1>0. /\ UNCHANGED <<cfg, proc, keystore>> /\ Host(t)' = s /\ k \notin {Absent, Empty}
      /\ th[t].pc \in IssuerPCs
  BY TypeStoreIssuer, HostKept, Constants DEF IssuerPCs
<1>1. /\ s \in Servers /\ KeysOK(t) /\ HomeOK(s) /\ ~ca[s].issuerReady
      /\ t \in Servers => CertUsable(s)
      /\ ca \in [Servers -> CAObject] /\ ca[s] \in CAObject /\ th[t] \in Thread
  BY <1>0, IssuerThread
<1>2. CASE /\ th[t].pc = "storeIpk" /\ Moves(t, At(th[t], "storeIsk")) /\ UNCHANGED ca
           /\ files' = [files EXCEPT ![s] = [files[s] EXCEPT !["ipk"] = k]]
  <2>1. /\ files'[s]["ipk"] = k /\ \A g \in FileNames : g # "ipk" => files'[s][g] = files[s][g]
        /\ \A r \in Servers : r # s => files'[r] = files[r]
    <3>1. Wrote(s, "ipk", k) /\ s \in Servers
      BY <1>1, <1>2 DEF Wrote
    <3>2. "ipk" \in FileNames
      BY Names
    <3>3. QED
      BY <3>1, <3>2, Written
  <2>2. th'[t].pc = "storeIsk" /\ th'[t].key = k
    BY <1>1, <1>2, Moved, AtIs
  <2>3. files[s]["isk"] = Absent
    BY <1>1, <1>2 DEF KeysOK
  <2>4. HomeOK(s)' /\ (t \in Servers => CertUsable(s)')
    BY <1>0, <1>1, <2>1, <2>3, Names DEF HomeOK, CertUsable
  <2>5. KeysOK(t)'
    BY <1>0, <2>1, <2>2, <2>3, <2>4, Names DEF KeysOK
  <2>6. QED
    BY <1>0, <1>1, <1>2, <2>1, <2>4, <2>5, KeysIssuer, Names
<1>3. CASE /\ th[t].pc = "storeIsk" /\ Moves(t, At(th[t], "revKey"))
           /\ files' = [files EXCEPT ![s] = [files[s] EXCEPT !["isk"] = k]]
           /\ ca' = [ca EXCEPT ![s] = [ca[s] EXCEPT !.issuerKey = [pub |-> k, priv |-> k]]]
  <2>1. /\ files'[s]["isk"] = k /\ \A g \in FileNames : g # "isk" => files'[s][g] = files[s][g]
        /\ \A r \in Servers : r # s => files'[r] = files[r]
    <3>1. Wrote(s, "isk", k) /\ s \in Servers
      BY <1>1, <1>3 DEF Wrote
    <3>2. "isk" \in FileNames
      BY Names
    <3>3. QED
      BY <3>1, <3>2, Written
  <2>2. th'[t].pc = "revKey"
    BY <1>1, <1>3, Moved, AtIs
  <2>3. files[s]["ipk"] = k
    BY <1>1, <1>3 DEF KeysOK
  <2>4. HomeOK(s)' /\ (t \in Servers => CertUsable(s)')
    BY <1>0, <1>1, <2>1, <2>3, Names DEF HomeOK, CertUsable
  <2>5. /\ ca'[s].issuerReady = ca[s].issuerReady /\ ca'[s].issuerKey = [pub |-> k, priv |-> k]
        /\ \A r \in Servers : r # s => ca'[r] = ca[r]
    BY <1>1, <1>3 DEF CAObject
  <2>6. IssuerKeyOK(s)'
    BY <2>1, <2>3, <2>5, Names DEF IssuerKeyOK
  <2>7. KeysOK(t)'
    BY <1>0, <2>2, <2>4, <2>6 DEF KeysOK
  <2>8. QED
    BY <1>0, <1>1, <1>3, <2>1, <2>4, <2>5, <2>7, KeysIssuer, Names
<1>4. QED
  BY <1>2, <1>3, TypeStoreIssuer

LEMMA KeysStoreRevocation ==
    ASSUME TypeInv, Control, KeyInv, NEW t \in Threads, StoreRevocationKey(t) PROVE KeyInv'
<1> SUFFICES ASSUME NEW s, s = Host(t), NEW k, k = th[t].key PROVE KeyInv'
  OBVIOUS
<1>0. /\ UNCHANGED <<cfg, proc, keystore>> /\ Host(t)' = s /\ k \notin {Absent, Empty}
      /\ th[t].pc \in IssuerPCs /\ th[t].pc \in {"storeRpriv", "storeRpub"}
  BY TypeStoreRevocation, HostKept, Constants DEF IssuerPCs
<1>1. /\ s \in Servers /\ KeysOK(t) /\ HomeOK(s) /\ ~ca[s].issuerReady
      /\ t \in Servers => CertUsable(s)
      /\ ca \in [Servers -> CAObject] /\ ca[s] \in CAObject /\ th[t] \in Thread
  BY <1>0, IssuerThread
<1>r. files[s]["rpub"] = Absent /\ IssuerKeyOK(s)
  BY <1>0, <1>1 DEF KeysOK
<1>2. CASE /\ th[t].pc = "storeRpriv" /\ Moves(t, At(th[t], "storeRpub")) /\ UNCHANGED ca
           /\ files' = [files EXCEPT ![s] = [files[s] EXCEPT !["rpriv"] = k]]
  <2>1. /\ files'[s]["rpriv"] = k /\ \A g \in FileNames : g # "rpriv" => files'[s][g] = files[s][g]
        /\ \A r \in Servers : r # s => files'[r] = files[r]
    <3>1. Wrote(s, "rpriv", k) /\ s \in Servers
      BY <1>1, <1>2 DEF Wrote
    <3>2. "rpriv" \in FileNames
      BY Names
    <3>3. QED
      BY <3>1, <3>2, Written
  <2>2. th'[t].pc = "storeRpub" /\ th'[t].key = k
    BY <1>1, <1>2, Moved, AtIs
  <2>4. HomeOK(s)' /\ (t \in Servers => CertUsable(s)')
    BY <1>0, <1>1, <1>r, <2>1, Names DEF HomeOK, CertUsable
  <2>5. IssuerKeyOK(s)'
    BY <1>2, <1>r, <2>1, Names DEF IssuerKeyOK
  <2>6. KeysOK(t)'
    BY <1>0, <1>r, <2>1, <2>2, <2>4, <2>5, Names DEF KeysOK
  <2>7. QED
    BY <1>0, <1>1, <1>2, <2>1, <2>4, <2>6, KeysIssuer, Names
<1>3. CASE /\ th[t].pc = "storeRpub" /\ Moves(t, At(th[t], "raInfo"))
           /\ files' = [files EXCEPT ![s] = [files[s] EXCEPT !["rpub"] = k]]
           /\ ca' = [ca EXCEPT ![s] = [ca[s] EXCEPT !.revKey = [pub |-> k, priv |-> k]]]
  <2>1. /\ files'[s]["rpub"] = k /\ \A g \in FileNames : g # "rpub" => files'[s][g] = files[s][g]
        /\ \A r \in Servers : r # s => files'[r] = files[r]
    <3>1. Wrote(s, "rpub", k) /\ s \in Servers
      BY <1>1, <1>3 DEF Wrote
    <3>2. "rpub" \in FileNames
      BY Names
    <3>3. QED
      BY <3>1, <3>2, Written
  <2>2. th'[t].pc = "raInfo"
    BY <1>1, <1>3, Moved, AtIs
  <2>3. files[s]["rpriv"] = k
    BY <1>1, <1>3 DEF KeysOK
  <2>4. HomeOK(s)' /\ (t \in Servers => CertUsable(s)')
    BY <1>0, <1>1, <2>1, <2>3, Names DEF HomeOK, CertUsable
  <2>5. /\ ca'[s].issuerReady = ca[s].issuerReady /\ ca'[s].revKey = [pub |-> k, priv |-> k]
        /\ ca'[s].issuerKey = ca[s].issuerKey
        /\ \A r \in Servers : r # s => ca'[r] = ca[r]
    BY <1>1, <1>3 DEF CAObject
  <2>6. IssuerKeyOK(s)' /\ RevKeyOK(s)'
    BY <1>r, <2>1, <2>5, Names DEF IssuerKeyOK, RevKeyOK
  <2>7. KeysOK(t)'
    BY <1>0, <2>2, <2>4, <2>6 DEF KeysOK
  <2>8. QED
    BY <1>0, <1>1, <1>3, <2>1, <2>4, <2>5, <2>7, KeysIssuer, Names
<1>4. QED
  BY <1>2, <1>3, TypeStoreRevocation

\* The server listens now: its certificate is usable.
LEMMA KeysPasses ==
    ASSUME TypeInv, Control, KeyInv, NEW t \in Threads, Passes(t),
           UNCHANGED <<cfg, files, keystore>>, th[t].pc \in {"issuer", "ilock"} \cup IssuerPCs,
           \/ UNCHANGED ca
           \/ /\ th[t].pc \in {"raInfo", "raInsert"}
              /\ ca' = [ca EXCEPT ![Host(t)] = [ca[Host(t)] EXCEPT !.issuerReady = TRUE]]
    PROVE  KeyInv'
<1> SUFFICES ASSUME NEW s, s = Host(t) PROVE KeyInv'
  OBVIOUS
<1>0. /\ s \in Servers /\ (t \in Servers => s = t) /\ KeysOK(t) /\ ca[s] \in CAObject
      /\ ca \in [Servers -> CAObject] /\ Host(t)' = s
  BY Typed, HostKept DEF KeyInv
<1>1. th[t].pc \notin BeforeCert
  BY DEF IssuerPCs, BeforeCert
<1>2. \A r \in Servers : proc'[r] = "up" => proc[r] = "up" \/ CertUsable(r)
  <2>1. t \in Servers => CertUsable(t)
    BY <1>0, <1>1 DEF KeysOK
  <2>2. QED
    BY <1>0, <2>1, Typed DEF Passes
<1>3. Keeps
  BY <1>0 DEF Keeps, CAObject
<1>4. \A r \in Servers : ca'[r].issuerReady => ca[r].issuerReady \/ (IssuerKeyOK(r) /\ RevKeyOK(r))
  <2>1. th[t].pc \in {"raInfo", "raInsert"} => IssuerKeyOK(s) /\ RevKeyOK(s)
    BY <1>0 DEF KeysOK
  <2>2. QED
    BY <1>0, <2>1
<1>5. PICK x : Moves(t, x) /\ x.pc = IF t \in Servers THEN "idle" ELSE "serving"
  BY IdleIs DEF Passes
<1>6. th'[t].pc = x.pc
  BY <1>5, Moved
<1>7. KeysOK(t)'
  BY <1>0, <1>5, <1>6 DEF KeysOK, BeforeCert
<1>8. QED
  BY <1>2, <1>3, <1>4, <1>5, <1>7, KeysKept

LEMMA KeysIssuerSteps ==
    ASSUME TypeInv, Control, KeyInv, NEW t \in Threads,
           InitIssuer(t) \/ LockIssuer(t) \/ GetRAInfo(t) \/ AddRAInfo(t)
    PROVE  KeyInv'
<1> SUFFICES ASSUME NEW s, s = Host(t) PROVE KeyInv'
  OBVIOUS
<1>0. /\ s \in Servers /\ ca \in [Servers -> CAObject] /\ ca[s] \in CAObject /\ th[t] \in Thread
      /\ UNCHANGED <<cfg, files, keystore>> /\ KeysOK(t)
  BY Typed, TypeInitIssuer, TypeLockIssuer, TypeGetRAInfo, TypeAddRAInfo DEF KeyInv
<1>1. CASE InitIssuer(t)
  <2>1. UNCHANGED <<cfg, ca, files, keystore>> /\ th[t].pc = "issuer"
    BY <1>1, TypeInitIssuer
  <2>2. CASE Passes(t)
    BY <2>1, <2>2, KeysPasses
  <2>3. CASE Moves(t, At(th[t], "ilock")) /\ UNCHANGED proc
    <3>1. At(th[t], "ilock").pc = "ilock" /\ "ilock" \notin KeyPCs /\ "issuer" \notin BeforeCert
      BY <1>0, AtIs DEF KeyPCs, BeforeCert
    <3>2. QED
      BY <2>1, <2>3, <3>1, KeysQuiet
  <2>4. QED
    BY <1>1, <2>2, <2>3, TypeInitIssuer
<1>2. CASE LockIssuer(t)
  <2>1. UNCHANGED <<cfg, files, keystore>> /\ th[t].pc = "ilock"
    BY <1>2, TypeLockIssuer
  <2>2. CASE Passes(t) /\ UNCHANGED ca
    BY <2>1, <2>2, KeysPasses
  <2>3. CASE /\ Moves(t, At(th[t], "issuerKey")) /\ UNCHANGED proc
             /\ ca' = [ca EXCEPT ![s] = [ca[s] EXCEPT !.issuerDB = ca[s].db]]
    <3>1. /\ At(th[t], "issuerKey").pc = "issuerKey" /\ "issuerKey" \notin KeyPCs
          /\ "ilock" \notin BeforeCert
      BY <1>0, AtIs DEF KeyPCs, BeforeCert
    <3>2. \A r \in Servers : /\ ca'[r].issuerKey = ca[r].issuerKey /\ ca'[r].revKey = ca[r].revKey
                             /\ ca'[r].issuerReady = ca[r].issuerReady
      BY <1>0, <2>3 DEF CAObject
    <3>3. Keeps
      BY <2>1, <3>2 DEF Keeps
    <3>4. QED
      BY <2>1, <2>3, <3>1, <3>2, <3>3, KeysPlain
  <2>4. QED
    BY <1>2, <2>2, <2>3, TypeLockIssuer
<1>3. CASE GetRAInfo(t) \/ AddRAInfo(t)
  <2>1. th[t].pc \in {"raInfo", "raInsert"} /\ th[t].pc \in IssuerPCs /\ th[t].pc \notin Writes
    BY <1>3, TypeGetRAInfo, TypeAddRAInfo DEF IssuerPCs, Writes
  <2>2. CASE Readies(t)
    BY <1>0, <2>1, <2>2, KeysPasses DEF Readies
  <2>3. CASE (t \in Servers /\ Exit(t)) \/ Drops(t)
    BY <1>0, <2>1, <2>3, KeysExitQuiet, KeysDrops
  <2>4. CASE Moves(t, At(th[t], "raInsert")) /\ UNCHANGED <<proc, ca, lock, ilock>>
    <3>1. th'[t].pc = "raInsert" /\ Host(t)' = s
      BY <1>0, <2>4, Moved, AtIs, HostKept
    <3>2. IssuerKeyOK(s) /\ RevKeyOK(s) /\ (t \in Servers => CertUsable(s))
      BY <1>0, <2>1 DEF KeysOK, BeforeCert
    <3>3. IssuerKeyOK(s)' /\ RevKeyOK(s)' /\ (t \in Servers => CertUsable(s)')
      BY <1>0, <2>4, <3>2 DEF IssuerKeyOK, RevKeyOK, CertUsable
    <3>4. KeysOK(t)'
      BY <3>1, <3>3 DEF KeysOK
    <3>5. QED
      BY <1>0, <2>4, <3>4, KeysKept DEF Keeps
  <2>5. QED
    BY <1>3, <2>2, <2>3, <2>4, TypeGetRAInfo, TypeAddRAInfo
<1>4. QED
  BY <1>1, <1>2, <1>3

\* The steps of initDB.
LEMMA KeysInitDB ==
    ASSUME TypeInv, Control, KeyInv, NEW t \in Threads, InitDB(t) \/ LockDB(t) PROVE KeyInv'
<1>0. th[t] \in Thread /\ UNCHANGED <<cfg, proc, ca, files, keystore>>
  BY Typed, TypeInitDB, TypeLockDB
<1>1. ASSUME NEW x, Moves(t, x), th[t].pc \in {"initDB", "initDBReady", "lock"},
             x.pc \in {"idle", "lock", "initDBReady", "signer", "issuer", "createTables"}
      PROVE  KeyInv'
  <2>1. x.pc \notin KeyPCs /\ th[t].pc \notin BeforeCert
    BY <1>1 DEF KeyPCs, BeforeCert
  <2>2. QED
    BY <1>0, <1>1, <2>1, KeysQuiet
<1>2. ASSUME NEW pc, Moves(t, At(th[t], pc)), th[t].pc \in {"initDB", "initDBReady", "lock"},
             pc \in {"idle", "lock", "initDBReady", "signer", "issuer"}
      PROVE  KeyInv'
  BY <1>0, <1>1, <1>2, AtIs
<1>3. CASE InitDB(t)
  <2>1. (IF t \in Servers THEN "signer" ELSE "issuer") \in {"signer", "issuer"}
    OBVIOUS
  <2>2. QED
    BY <1>2, <1>3, <2>1, TypeInitDB
<1>4. CASE LockDB(t)
  <2>1. th[t].pc = "lock"
    BY <1>4, TypeLockDB
  <2>2. CASE Moves(t, At(Idle, After(t, TRUE)))
    <3>1. At(Idle, After(t, TRUE)).pc \in {"signer", "issuer"}
      BY IdleIs DEF After
    <3>2. QED
      BY <1>1, <2>1, <2>2, <3>1
  <2>3. CASE Moves(t, [th[t] EXCEPT !.pc = "createTables", !.todo = DataTables])
    <3>1. [th[t] EXCEPT !.pc = "createTables", !.todo = DataTables].pc = "createTables"
      BY <1>0 DEF Thread
    <3>2. QED
      BY <1>1, <2>1, <2>3, <3>1
  <2>4. QED
    BY <1>4, <2>2, <2>3, TypeLockDB
<1>5. QED
  BY <1>3, <1>4

LEMMA KeysSetCA ==
    ASSUME TypeInv, Control, KeyInv, NEW t \in Threads, OpenDB(t) \/ SetAccessors(t) \/ FinishDB(t)
    PROVE  KeyInv'
<1> DEFINE s == Host(t)
<1>0. /\ th[t] \in Thread /\ ca \in [Servers -> CAObject] /\ ca[s] \in CAObject /\ s \in Servers
      /\ UNCHANGED <<cfg, proc, files, keystore>>
  BY Typed, TypeOpenDB, TypeAccessors, TypeFinish
<1>1. ASSUME NEW x, NEW d, Moves(t, x), ca' = [ca EXCEPT ![s] = d],
             d.issuerKey = ca[s].issuerKey, d.revKey = ca[s].revKey,
             d.issuerReady = ca[s].issuerReady,
             th[t].pc \in DBPCs, x.pc \in DBPCs \cup {"signer", "issuer", "idle"}
      PROVE  KeyInv'
  <2>1. x.pc \notin KeyPCs /\ th[t].pc \notin BeforeCert
    BY <1>1 DEF KeyPCs, BeforeCert, DBPCs
  <2>2. \A r \in Servers : ca'[r].issuerKey = ca[r].issuerKey /\ ca'[r].revKey = ca[r].revKey
                           /\ ca'[r].issuerReady = ca[r].issuerReady
    BY <1>0, <1>1
  <2>3. QED
    BY <1>0, <1>1, <2>1, <2>2, KeysPlain DEF Keeps
<1>2. CASE OpenDB(t)
  <2>1. PICK n \in Handles : ca' = [ca EXCEPT ![s] = [ca[s] EXCEPT !.db = n, !.ready = FALSE]]
    BY <1>2, TypeOpenDB
  <2> DEFINE d == [ca[s] EXCEPT !.db = n, !.ready = FALSE]
  <2>2. /\ d.issuerKey = ca[s].issuerKey /\ d.revKey = ca[s].revKey
        /\ d.issuerReady = ca[s].issuerReady
    BY <1>0 DEF CAObject
  <2>3. /\ th[t].pc = "open" /\ Moves(t, At(th[t], "schema"))
        /\ At(th[t], "schema").pc = "schema" /\ {"open", "schema"} \subseteq DBPCs
    BY <1>0, <1>2, TypeOpenDB, AtIs DEF DBPCs
  <2> HIDE DEF d
  <2>4. ca' = [ca EXCEPT ![s] = d]
    BY <2>1 DEF d
  <2>5. QED
    BY <1>1, <2>2, <2>3, <2>4
<1>3. CASE SetAccessors(t)
  <2> DEFINE c == ca[s]
             d == [c EXCEPT !.certs = c.db, !.signer = IF @ = -1 THEN @ ELSE c.db,
                            !.registry = IF cfg.ldap THEN @ ELSE c.db]
             pc == IF cfg.ldap THEN "finish" ELSE "check"
  <2>1. ca' = [ca EXCEPT ![s] = d]
    BY <1>3, TypeAccessors
  <2>2. /\ d.issuerKey = ca[s].issuerKey /\ d.revKey = ca[s].revKey
        /\ d.issuerReady = ca[s].issuerReady
    BY <1>0 DEF CAObject
  <2>3. /\ th[t].pc = "accessors" /\ Moves(t, At(th[t], pc))
        /\ At(th[t], pc).pc = pc /\ {"accessors", pc} \subseteq DBPCs
    BY <1>0, <1>3, TypeAccessors, AtIs DEF DBPCs
  <2> HIDE DEF d, c, pc
  <2>4. QED
    BY <1>1, <2>1, <2>2, <2>3
<1>4. CASE FinishDB(t)
  <2> DEFINE d == [ca[s] EXCEPT !.ready = ~th[t].failed]
             pc == After(t, ~th[t].failed)
  <2>1. ca' = [ca EXCEPT ![s] = d]
    BY <1>4, TypeFinish
  <2>2. /\ d.issuerKey = ca[s].issuerKey /\ d.revKey = ca[s].revKey
        /\ d.issuerReady = ca[s].issuerReady
    BY <1>0 DEF CAObject
  <2>3. /\ th[t].pc = "finish" /\ Moves(t, At(Idle, pc)) /\ At(Idle, pc).pc = pc
        /\ "finish" \in DBPCs /\ pc \in {"signer", "issuer", "idle"}
    BY <1>0, <1>4, TypeFinish, IdleIs DEF DBPCs, After
  <2> HIDE DEF d, pc
  <2>4. QED
    BY <1>1, <2>1, <2>2, <2>3
<1>5. QED
  BY <1>2, <1>3, <1>4

\* The steps of initDB that work on the content of the database, or return.
Content(t) ==
    \/ CreateSQLiteTables(t) \/ CreatePostgresTables(t) \/ CreateMySQLTables(t)
    \/ UpdateSQLiteSchema(t) \/ AlterTables(t) \/ UpdateSchemaRest(t) \/ CheckDBLevels(t)
    \/ LookupUser(t) \/ InsertUser(t) \/ LoadAffiliation(t) \/ GetUserLessThanLevel(t)
    \/ MigrateUser(t) \/ AddAttribute(t) \/ SetLevel(t) \/ UpdateDBLevel(t)

LEMMA ContentSteps ==
    ASSUME TypeInv, NEW t \in Threads, Content(t)
    PROVE  /\ th[t].pc \in DBPCs /\ UNCHANGED <<cfg, files, keystore>>
           /\ \/ \E x, d : DBChange(t, x, d) /\ x.pc \in DBPCs
              \/ GivesUp(t)
              \/ t \in Servers /\ Exit(t)
<1> DEFINE Goal == /\ th[t].pc \in DBPCs /\ UNCHANGED <<cfg, files, keystore>>
                   /\ \/ \E x, d : DBChange(t, x, d) /\ x.pc \in DBPCs
                      \/ GivesUp(t)
                      \/ t \in Servers /\ Exit(t)
<1>0. th[t] \in Thread /\ \A pc : At(th[t], pc).pc = pc
  BY Typed, AtIs
<1>1. ASSUME NEW x, NEW d, DBChange(t, x, d), x.pc \in DBPCs, th[t].pc \in DBPCs PROVE Goal
  BY <1>1 DEF DBChange
<1>2. ASSUME NEW pc \in DBPCs, NEW d, DBChange(t, At(th[t], pc), d), th[t].pc \in DBPCs PROVE Goal
  BY <1>0, <1>1, <1>2
<1>3. ASSUME NEW pc \in DBPCs, NEW q, NEW d, th[t].pc \in DBPCs,
             DBChange(t, [th[t] EXCEPT !.pc = pc, !.todo = q], d)
      PROVE  Goal
  <2>1. [th[t] EXCEPT !.pc = pc, !.todo = q].pc = pc
    BY <1>0 DEF Thread
  <2> HIDE DEF Goal
  <2>2. QED
    BY <1>1, <1>3, <2>1
<1>4. ASSUME NEW pc \in DBPCs, NEW q, NEW d, th[t].pc \in DBPCs,
             DBChange(t, [th[t] EXCEPT !.pc = pc, !.snap = q], d)
      PROVE  Goal
  <2>1. [th[t] EXCEPT !.pc = pc, !.snap = q].pc = pc
    BY <1>0 DEF Thread
  <2> HIDE DEF Goal
  <2>2. QED
    BY <1>1, <1>4, <2>1
<1>5. ASSUME NEW d, th[t].pc \in DBPCs, "finish" \in DBPCs,
             DBChange(t, [th[t] EXCEPT !.pc = "finish", !.failed = TRUE], d)
      PROVE  Goal
  <2>1. [th[t] EXCEPT !.pc = "finish", !.failed = TRUE].pc = "finish"
    BY <1>0 DEF Thread
  <2> HIDE DEF Goal
  <2>2. QED
    BY <1>1, <1>5, <2>1
<1>6. ASSUME NEW pc \in DBPCs, NEW q, NEW d, th[t].pc \in DBPCs,
             DBChange(t, [th[t] EXCEPT !.failed = TRUE, !.pc = pc, !.todo = q], d)
      PROVE  Goal
  <2>1. [th[t] EXCEPT !.failed = TRUE, !.pc = pc, !.todo = q].pc = pc
    BY <1>0 DEF Thread
  <2> HIDE DEF Goal
  <2>2. QED
    BY <1>1, <1>6, <2>1
<1>7. ASSUME NEW x, NEW pc \in DBPCs, NEW next \in DBPCs, NEW q, NEW d, th[t].pc \in DBPCs,
             Loops(t, x, pc, next, q), DBChange(t, x, d)
      PROVE  Goal
  <2>1. x.pc \in DBPCs
    BY <1>7 DEF Loops
  <2> HIDE DEF Goal
  <2>2. QED
    BY <1>1, <1>7, <2>1
<1>8. /\ {"createTables", "open", "schema", "schemaRest", "accessors", "check"} \subseteq DBPCs
      /\ {"lookup", "insert", "affs", "snapshot", "user", "addAttr", "setLevel", "levels",
          "finish"} \subseteq DBPCs
  BY DEF DBPCs
<1>9. CASE CreateSQLiteTables(t) \/ CreatePostgresTables(t) \/ CreateMySQLTables(t)
  <2> HIDE DEF Goal
  <2>1. Goal
    BY <1>3, <1>7, <1>8, <1>9, TypeSQLiteTables, TypeTables
  <2>2. QED
    BY <2>1 DEF Goal
<1>10. CASE UpdateSQLiteSchema(t) \/ AlterTables(t) \/ UpdateSchemaRest(t)
  <2>1. UNCHANGED <<cfg, files, keystore>>
    BY <1>10, TypeSQLiteSchema, TypeAlterTables, TypeSchemaRest DEF DBChange, GivesUp
  <2>2. QED
    BY <1>0, <1>8, <1>10, <2>1, TypeSQLiteSchema, TypeAlterTables, TypeSchemaRest
<1>11. CASE CheckDBLevels(t) \/ LoadAffiliation(t)
  <2> HIDE DEF Goal
  <2>1. Goal
    BY <1>3, <1>7, <1>8, <1>11, TypeCheck, TypeAffiliation
  <2>2. QED
    BY <2>1 DEF Goal
<1>12. CASE LookupUser(t)
  BY <1>0, <1>8, <1>12, TypeLookup DEF Loops
<1>13. CASE InsertUser(t)
  <2> HIDE DEF Goal
  <2>1. Goal
    BY <1>6, <1>7, <1>8, <1>13, TypeInsert
  <2>2. QED
    BY <2>1 DEF Goal
<1>14. CASE GetUserLessThanLevel(t)
  <2> HIDE DEF Goal
  <2>1. Goal
    BY <1>4, <1>8, <1>14, TypeSnapshot
  <2>2. QED
    BY <2>1 DEF Goal
<1>15. CASE MigrateUser(t)
  <2> HIDE DEF Goal
  <2>1. Goal
    BY <1>2, <1>3, <1>8, <1>15, TypeMigrate
  <2>2. QED
    BY <2>1 DEF Goal
<1>16. CASE AddAttribute(t) \/ SetLevel(t)
  <2> HIDE DEF Goal
  <2>1. Goal
    BY <1>2, <1>4, <1>5, <1>8, <1>16, TypeAddAttribute, TypeSetLevel
  <2>2. QED
    BY <2>1 DEF Goal
<1>17. CASE UpdateDBLevel(t)
  <2> HIDE DEF Goal
  <2>1. Goal
    BY <1>7, <1>8, <1>17, TypeLevels
  <2>2. QED
    BY <2>1 DEF Goal
<1>18. QED
  BY <1>9, <1>10, <1>11, <1>12, <1>13, <1>14, <1>15, <1>16, <1>17 DEF Content

LEMMA KeysContent ==
    ASSUME TypeInv, Control, KeyInv, NEW t \in Threads, Content(t) PROVE KeyInv'
  BY ContentSteps, KeysDBChange, KeysGivesUp, KeysExitQuiet

LEMMA KeysFails ==
    ASSUME TypeInv, Control, KeyInv, NEW t \in Threads, StepFails(t) PROVE KeyInv'
<1> DEFINE pc == th[t].pc
<1>0. /\ th[t] \in Thread /\ UNCHANGED <<cfg, keystore>> /\ Host(t) \in Servers
      /\ (t \in Servers => Host(t) = t) /\ ca \in [Servers -> CAObject]
      /\ ca[Host(t)] \in CAObject
      /\ IF pc \in Writes THEN Empties(t) ELSE UNCHANGED files
  BY Typed, TypeFails
<1>1. Exit(Host(t)) => KeyInv'
  <2>1. CASE pc \in Writes
    BY <1>0, <2>1, EmptiedHome, KeysExit
  <2>2. CASE pc \notin Writes
    BY <1>0, <2>2, KeysExitQuiet
  <2>3. QED
    BY <2>1, <2>2
<1>2. pc \in DBPCs => UNCHANGED files
  BY <1>0 DEF DBPCs, Writes
<1>3. pc \in {"createTables", "open"} /\ Closes(t) => KeyInv'
  <2> DEFINE d == [ca[Host(t)] EXCEPT !.db = None]
  <2>1. /\ d.issuerKey = ca[Host(t)].issuerKey /\ d.revKey = ca[Host(t)].revKey
        /\ d.issuerReady = ca[Host(t)].issuerReady
    BY <1>0 DEF CAObject
  <2>2. {"createTables", "open"} \subseteq DBPCs
    BY DEF DBPCs
  <2>3. Closes(t) => ca' = [ca EXCEPT ![Host(t)] = d]
    BY DEF Closes
  <2> HIDE DEF d
  <2>4. QED
    BY <1>0, <1>2, <2>1, <2>2, <2>3, KeysReturn DEF Closes
<1>4. pc \in {"schema", "schemaRest", "check", "lookup"} /\ GivesUp(t) => KeyInv'
  <2>1. {"schema", "schemaRest", "check", "lookup"} \subseteq DBPCs
    BY DEF DBPCs
  <2>2. QED
    BY <1>2, <2>1, KeysGivesUp
<1>5. ASSUME NEW x, NEW d, DBChange(t, x, d), pc \in DBPCs, x.pc \in DBPCs PROVE KeyInv'
  BY <1>5, KeysDBChange
<1>6. {"lookup", "insert", "affs", "snapshot", "addAttr", "setLevel", "levels", "finish"}
        \subseteq DBPCs
  BY DEF DBPCs
<1>7. pc = "lookup" /\ DBChange(t, At(th[t], "insert"), db) => KeyInv'
  BY <1>0, <1>5, <1>6, AtIs
<1>8. ASSUME pc = "insert", DBChange(t, [th[t] EXCEPT !.failed = TRUE, !.pc = "affs",
                                               !.todo = Affiliations], db)
      PROVE  KeyInv'
  <2>1. [th[t] EXCEPT !.failed = TRUE, !.pc = "affs", !.todo = Affiliations].pc = "affs"
    BY <1>0 DEF Thread
  <2>2. QED
    BY <1>5, <1>6, <1>8, <2>1
<1>9. ASSUME pc = "affs", DBChange(t, [th[t] EXCEPT !.failed = TRUE, !.pc = "snapshot",
                                              !.todo = <<>>], db)
      PROVE  KeyInv'
  <2>1. [th[t] EXCEPT !.failed = TRUE, !.pc = "snapshot", !.todo = <<>>].pc = "snapshot"
    BY <1>0 DEF Thread
  <2>2. QED
    BY <1>5, <1>6, <1>9, <2>1
<1>10. ASSUME pc \in {"snapshot", "addAttr", "setLevel", "levels"},
              DBChange(t, [th[t] EXCEPT !.failed = TRUE, !.pc = "finish"], db)
       PROVE  KeyInv'
  <2>1. [th[t] EXCEPT !.failed = TRUE, !.pc = "finish"].pc = "finish"
    BY <1>0 DEF Thread
  <2>2. QED
    BY <1>5, <1>6, <1>10, <2>1
<1>11. pc \in IssuerPCs /\ Drops(t) => KeyInv'
  BY <1>0, KeysDrops
<1>12. t \in Servers /\ Exit(t) => KeyInv'
  BY <1>0, <1>1
<1>13. QED
  BY <1>1, <1>3, <1>4, <1>7, <1>8, <1>9, <1>10, <1>11, <1>12, TypeFails

LEMMA KeysRequests ==
    ASSUME TypeInv, Control, KeyInv, NEW t \in Handlers, Request(t) \/ GetCA(t) \/ Serve(t)
    PROVE  KeyInv'
<1>0. t \in Threads /\ t \notin Servers /\ th[t] \in Thread
  BY StartupConstantsOK, Typed DEF Threads
<1>1. UNCHANGED <<cfg, proc, ca, files, keystore>>
  BY TypeRequest, TypeGetCA, TypeServe
<1>2. \E pc \in {"getCA", "initDB", "getCAReady", "idle", "serving"} : Moves(t, At(th[t], pc))
  BY TypeRequest, TypeGetCA, TypeServe
<1>3. ASSUME NEW pc \in {"getCA", "initDB", "getCAReady", "idle", "serving"}, Moves(t, At(th[t], pc))
      PROVE  KeyInv'
  <2>1. At(th[t], pc).pc = pc /\ pc \notin KeyPCs
    BY <1>0, AtIs DEF KeyPCs
  <2>2. QED
    BY <1>0, <1>1, <1>3, <2>1, KeysQuiet
<1>4. QED
  BY <1>2, <1>3

LEMMA KeysStarts ==
    ASSUME TypeInv, Control, KeyInv, NEW s \in Servers,
           Start(s) \/ CheckConfigLevels(s) \/ InitEnrollmentSigner(s)
    PROVE  KeyInv'
<1>0. /\ s \in Threads /\ Host(s) = s /\ th[s] \in Thread /\ UNCHANGED <<cfg, files, keystore>>
      /\ ca \in [Servers -> CAObject] /\ ca[s] \in CAObject
      /\ proc \in [Servers -> {"down", "starting", "up"}]
  BY Typed, TypeStart, TypeConfig, TypeSigner DEF Threads
<1>1. CASE Start(s)
  <2>1. At(th[s], "config").pc = "config" /\ "config" \notin KeyPCs /\ "config" \in BeforeCert
    BY <1>0, AtIs DEF KeyPCs, BeforeCert
  <2>2. UNCHANGED ca /\ \A r \in Servers : proc'[r] = "up" => proc[r] = "up"
    BY <1>0, <1>1, TypeStart
  <2>3. QED
    BY <1>0, <1>1, <2>1, <2>2, TypeStart, KeysPlain DEF Keeps
<1>2. CASE CheckConfigLevels(s)
  <2>1. At(th[s], "keys").pc = "keys" /\ "keys" \notin KeyPCs /\ "keys" \in BeforeCert
    BY <1>0, AtIs DEF KeyPCs, BeforeCert
  <2>2. QED
    BY <1>0, <1>2, <2>1, TypeConfig, KeysQuiet, KeysExitQuiet
<1>3. CASE InitEnrollmentSigner(s)
  <2>1. At(th[s], "issuer").pc = "issuer" /\ "issuer" \notin KeyPCs /\ "signer" \notin BeforeCert
    BY <1>0, AtIs DEF KeyPCs, BeforeCert
  <2>2. /\ UNCHANGED proc /\ Moves(s, At(th[s], "issuer")) /\ th[s].pc = "signer"
        /\ ca' = [ca EXCEPT ![s] = [ca[s] EXCEPT !.signer = ca[s].certs]]
    BY <1>3, TypeSigner
  <2>3. \A r \in Servers : /\ ca'[r].issuerKey = ca[r].issuerKey /\ ca'[r].revKey = ca[r].revKey
                           /\ ca'[r].issuerReady = ca[r].issuerReady
    BY <1>0, <2>2 DEF CAObject
  <2>4. QED
    BY <1>0, <2>1, <2>2, <2>3, KeysPlain DEF Keeps
<1>4. QED
  BY <1>1, <1>2, <1>3

LEMMA KeysInit == Init => KeyInv
<1>1. SUFFICES ASSUME Init PROVE KeyInv
  OBVIOUS
<1>2. ASSUME NEW t \in Threads PROVE KeysOK(t)
  <2>1. th[t].pc = "idle"
    BY <1>1 DEF Init, Idle
  <2>2. QED
    BY <2>1 DEF KeysOK, BeforeCert
<1>3. ASSUME NEW s \in Servers PROVE HomeOK(s)
  BY <1>1, ConfigsOK DEF Init, HomeOK
<1>4. QED
  BY <1>1, <1>2, <1>3 DEF KeyInv, Init, NewCA

LEMMA KeysNext == ASSUME TypeInv, Control, KeyInv, [Next]_vars PROVE KeyInv'
<1>1. ASSUME NEW t \in Threads, Step(t) PROVE KeyInv'
  <2>1. CASE Content(t)
    BY <2>1, KeysContent
  <2>2. CASE InitDB(t) \/ LockDB(t) \/ OpenDB(t) \/ SetAccessors(t) \/ FinishDB(t)
    BY <2>2, KeysInitDB, KeysSetCA
  <2>3. CASE \/ InitIssuer(t) \/ LockIssuer(t) \/ IssuerKeyMaterial(t) \/ StoreIssuerKey(t)
             \/ RevocationKeyMaterial(t) \/ StoreRevocationKey(t) \/ GetRAInfo(t) \/ AddRAInfo(t)
    BY <2>3, KeysIssuerSteps, KeysLoadIssuer, KeysStoreIssuer, KeysLoadRevocation,
       KeysStoreRevocation
  <2>4. QED
    BY <1>1, <2>1, <2>2, <2>3 DEF Step, Content
<1>2. ASSUME NEW s \in Servers, Start(s) \/ MainStep(s) \/ Crash(s) PROVE KeyInv'
  <2>1. s \in Threads
    BY DEF Threads
  <2>2. QED
    BY <1>1, <1>2, <2>1, KeysStarts, KeysWrites, KeysWriteChain, KeysWriteCert, KeysCrash
    DEF MainStep
<1>3. ASSUME NEW h \in Handlers, Request(h) \/ HandlerStep(h) PROVE KeyInv'
  <2>1. h \in Threads
    BY DEF Threads
  <2>2. QED
    BY <1>1, <1>3, <2>1, KeysRequests DEF HandlerStep
<1>4. ASSUME NEW t \in Threads, StepFails(t) PROVE KeyInv'
  BY <1>4, KeysFails
<1>5. CASE UNCHANGED vars
  BY <1>5 DEF vars, KeyInv, KeysOK, HomeOK, CertUsable, IssuerKeyOK, RevKeyOK, Host
<1>6. QED
  BY <1>2, <1>3, <1>4, <1>5 DEF Next

\* Whatever writes failed and wherever the process crashed: a server that
\* accepts requests has the private key of its certificate and the chain of
\* it, and an issuer that is initialized holds matching keys, those on disk.
THEOREM StartupKeyMaterialAgrees == Spec => []KeyMaterialAgrees
<1>1. TypeInv /\ KeyInv => KeyMaterialAgrees
  <2>1. SUFFICES ASSUME TypeInv, KeyInv, NEW s \in Servers, proc[s] = "up"
                 PROVE  /\ files[s].cert \in keystore[s] \cup {files[s].key}
                        /\ cfg.intermediate => files[s].chain = files[s].cert
                        /\ ca[s].issuerReady =>
                             /\ ca[s].issuerKey = [pub |-> files[s].ipk, priv |-> files[s].ipk]
                             /\ ca[s].revKey = [pub |-> files[s].rpub, priv |-> files[s].rpub]
    BY DEF KeyMaterialAgrees
  <2>2. CertUsable(s) /\ HomeOK(s) /\ (ca[s].issuerReady => IssuerKeyOK(s) /\ RevKeyOK(s))
    BY <2>1 DEF KeyInv
  <2>3. QED
    BY <2>2 DEF CertUsable, HomeOK, IssuerKeyOK, RevKeyOK
<1>2. Spec => [](TypeInv /\ KeyInv)
  BY TypeInit, TypeNext, ControlInit, ControlNext, KeysInit, KeysNext, PTL DEF Spec, Safety
<1>3. QED
  BY <1>1, <1>2, PTL
-----------------------------------------------------------------------------
(* Content.                                                                *)

\* What every step does to the database, but the copy of the users table that
\* SQLite makes: nothing that initDB has done is undone.  A first row of an
\* identity is inserted only if the identity is configured.
Grows ==
    /\ cfg' = cfg
    /\ db.tables \subseteq db'.tables /\ db.affs \subseteq db'.affs
    /\ \A n \in LevelRows : db.props[n] # NoLevel => db'.props[n] # NoLevel
    /\ HasLevel => \A n \in LevelRows : LevelDone(n) => LevelDone(n)'
    /\ \A id \in IDs : db.users[id] # <<>> => db'.users[id] # <<>>
    /\ \A id \in IDs : db.users[id] = <<>> /\ id \notin BootstrapIDs => db'.users[id] = <<>>
    /\ \A id \in IDs : db.users[id] # <<>> /\ db.users[id][1].level = 1 =>
                         db'.users[id][1].level = 1

ThreadContent(x) == SchemaOK(x) /\ LoadOK(x) /\ MigrationOK(x)

ReadyContent ==
    /\ db.tables = AllTables /\ HasLevel
    /\ cfg.driver = "sqlite3" => HasLevels
    /\ ~cfg.ldap => Complete

LEMMA TablesType == ASSUME TypeInv' PROVE db'.tables \subseteq AllTables
  BY DEF TypeInv, TypeOK, Database

LEMMA ContentParts ==
    ContentInv <=> /\ \A t \in Threads : ThreadContent(th[t])
                   /\ \A s \in Servers : ca[s].ready => ReadyContent
  BY DEF ContentInv, ThreadContent, ReadyContent

LEMMA OutsideDB == ASSUME NEW x, x.pc \notin DBPCs PROVE ThreadContent(x)'
<1>1. /\ x.pc \notin {"createTables"} \cup Opened \cup {"lookup", "insert", "affs"} \cup AfterUsers
      /\ x.pc \notin AfterAffiliations \cup Migrating \cup {"levels", "finish"}
  BY DEF DBPCs, Opened, AfterUsers, AfterAffiliations, Migrating
<1>2. SchemaOK(x)'
  BY <1>1 DEF SchemaOK
<1>3. LoadOK(x)'
  BY <1>1 DEF LoadOK
<1>4. MigrationOK(x)'
  BY <1>1 DEF MigrationOK
<1>5. QED
  BY <1>2, <1>3, <1>4 DEF ThreadContent

LEMMA LevelGrows ==
    ASSUME Grows
    PROVE  (HasLevel => HasLevel') /\ (HasLevels => HasLevels')
  BY DEF Grows, HasLevel, HasLevels

LEMMA UsersGrow ==
    ASSUME TypeInv, TypeInv', Grows
    PROVE  /\ HasUsers => HasUsers'
           /\ HasUsers => \A id \in IDs : Migrated(id) => Migrated(id)'
           /\ HasAffiliations => HasAffiliations'
<1>1. HasUsers => HasUsers'
  BY Constants DEF Grows, HasUsers
<1>2. ASSUME HasUsers, NEW id \in IDs, Migrated(id) PROVE Migrated(id)'
  <2>1. CASE db.users[id] = <<>>
    <3>1. id \notin BootstrapIDs
      BY <1>2, <2>1 DEF HasUsers
    <3>2. QED
      BY <2>1, <3>1 DEF Grows, Migrated
  <2>2. CASE db.users[id] # <<>>
    BY <1>2, <2>2 DEF Grows, Migrated
  <2>3. QED
    BY <2>1, <2>2
<1>3. HasAffiliations => HasAffiliations'
  BY DEF Grows, HasAffiliations
<1>4. QED
  BY <1>1, <1>2, <1>3

LEMMA ReadyGrows == ASSUME TypeInv, TypeInv', Grows, ReadyContent PROVE ReadyContent'
<1>1. db'.tables = AllTables
  BY TablesType DEF Grows, ReadyContent
<1>2. HasLevel' /\ (HasLevels => HasLevels') /\ cfg' = cfg
  BY LevelGrows DEF ReadyContent, Grows
<1>3. Complete => Complete'
  BY UsersGrow DEF ReadyContent, Complete, Grows
<1>4. QED
  BY <1>1, <1>2, <1>3 DEF ReadyContent

LEMMA SchemaGrows ==
    ASSUME TypeInv, TypeInv', Grows, NEW x, SchemaOK(x) PROVE SchemaOK(x)'
<1>1. /\ x.pc = "createTables" => \A n \in AllTables : n \in db'.tables \/ Left(x, n)
  BY DEF SchemaOK, Grows
<1>2. x.pc \in DBPCs \ {"createTables"} => db'.tables = AllTables
  BY TablesType DEF SchemaOK, Grows
<1>3. QED
  BY <1>1, <1>2, LevelGrows DEF SchemaOK, Grows

LEMMA LoadGrows ==
    ASSUME TypeInv, TypeInv', Grows, NEW x, LoadOK(x) PROVE LoadOK(x)'
<1>1. SUFFICES ASSUME ~x.failed, ~cfg.ldap
               PROVE  /\ x.pc \in {"lookup", "insert"} =>
                           \A id \in BootstrapIDs : db'.users[id] # <<>> \/ Left(x, id)
                      /\ x.pc \in AfterUsers => HasUsers'
                      /\ x.pc = "affs" => \A a \in AffiliationsOfConfig : a \in db'.affs \/ Left(x, a)
                      /\ x.pc \in AfterAffiliations => HasAffiliations'
  BY DEF LoadOK, Grows
<1>2. x.pc \in {"lookup", "insert"} =>
        \A id \in BootstrapIDs : db'.users[id] # <<>> \/ Left(x, id)
  BY <1>1, Constants DEF LoadOK, Grows
<1>3. x.pc = "affs" => \A a \in AffiliationsOfConfig : a \in db'.affs \/ Left(x, a)
  BY <1>1 DEF LoadOK, Grows
<1>4. QED
  BY <1>1, <1>2, <1>3, UsersGrow DEF LoadOK

LEMMA MigrationGrows ==
    ASSUME TypeInv, TypeInv', Grows, NEW x, SchemaOK(x), LoadOK(x), MigrationOK(x)
    PROVE  MigrationOK(x)'
<1>1. SUFFICES ASSUME ~x.failed, ~cfg.ldap
               PROVE  /\ x.pc \in Migrating => \A id \in IDs : Migrated(id)' \/ Listed(x, id)
                      /\ x.pc \in {"levels", "finish"} => \A id \in IDs : Migrated(id)'
                      /\ x.pc = "levels" => \A n \in LevelRows : LevelDone(n)' \/ Left(x, n)
                      /\ x.pc = "finish" => \A n \in LevelRows : LevelDone(n)'
  BY DEF MigrationOK, Grows
<1>2. x.pc \in Migrating \cup {"levels", "finish"} => HasUsers
  BY <1>1 DEF LoadOK, AfterUsers, Migrating
<1>3. x.pc \in {"levels", "finish"} => HasLevel
  BY DEF SchemaOK, Opened, DBPCs
<1>4. x.pc \in Migrating => \A id \in IDs : Migrated(id)' \/ Listed(x, id)
  BY <1>1, <1>2, UsersGrow DEF MigrationOK
<1>5. x.pc \in {"levels", "finish"} => \A id \in IDs : Migrated(id)'
  BY <1>1, <1>2, UsersGrow DEF MigrationOK
<1>6. x.pc = "levels" => \A n \in LevelRows : LevelDone(n)' \/ Left(x, n)
  BY <1>1, <1>3 DEF MigrationOK, Grows
<1>7. x.pc = "finish" => \A n \in LevelRows : LevelDone(n)'
  BY <1>1, <1>3 DEF MigrationOK, Grows
<1>8. QED
  BY <1>4, <1>5, <1>6, <1>7

LEMMA ThreadGrows ==
    ASSUME TypeInv, TypeInv', Grows, NEW x, ThreadContent(x) PROVE ThreadContent(x)'
  BY SchemaGrows, LoadGrows, MigrationGrows DEF ThreadContent

\* A step of t: what the other threads have done so far stays done.
LEMMA ContentFrame ==
    ASSUME TypeInv, TypeInv', ContentInv, Grows, NEW t \in Threads, NEW x, Moves(t, x),
           ThreadContent(x)',
           \A s \in Servers : ca'[s].ready => ca[s].ready \/ ReadyContent
    PROVE  ContentInv'
<1>1. ASSUME NEW u \in Threads PROVE ThreadContent(th[u])'
  <2>1. CASE u = t
    <3>1. th'[u] = x
      BY <2>1, Moved
    <3>2. QED
      BY <3>1 DEF ThreadContent, SchemaOK, LoadOK, MigrationOK, Left, Listed
  <2>2. CASE u # t
    <3>1. th'[u] = th[u] /\ ThreadContent(th[u])
      BY <2>2, Moved, ContentParts
    <3>2. PICK y : y = th[u]
      OBVIOUS
    <3>3. ThreadContent(y)'
      BY <3>1, <3>2, ThreadGrows
    <3>4. QED
      BY <3>1, <3>2, <3>3 DEF ThreadContent, SchemaOK, LoadOK, MigrationOK, Left, Listed
  <2>3. QED
    BY <2>1, <2>2
<1>2. ASSUME NEW s \in Servers, ca'[s].ready PROVE ReadyContent'
  BY <1>2, ReadyGrows, ContentParts
<1>3. QED
  BY <1>1, <1>2 DEF ContentInv, ThreadContent, ReadyContent
-----------------------------------------------------------------------------
(* Steps outside initDB, and those that leave it without success.          *)

Outside ==
    /\ \A u \in Threads : th'[u] = th[u] \/ th'[u].pc \notin DBPCs
    /\ \A s \in Servers : ca'[s].ready => ca[s].ready

Elsewhere ==
    /\ TypeInv' /\ Outside /\ UNCHANGED <<cfg, removed>>
    /\ db' = db \/ db' = [db EXCEPT !.ra = TRUE]

LEMMA OutsideMove ==
    ASSUME TypeInv, NEW t \in Threads, NEW x, Moves(t, x), x.pc \notin DBPCs,
           \A s \in Servers : ca'[s].ready => ca[s].ready
    PROVE  Outside
  BY Moved DEF Outside

LEMMA OutsideGoto ==
    ASSUME TypeInv, NEW t \in Threads, NEW pc, Moves(t, At(th[t], pc)), pc \notin DBPCs,
           \A s \in Servers : ca'[s].ready => ca[s].ready
    PROVE  Outside
<1>1. At(th[t], pc).pc = pc
  BY Typed, AtIs
<1>2. QED
  BY <1>1, OutsideMove

LEMMA OutsideExit == ASSUME TypeInv, NEW s \in Servers, Exit(s) PROVE Outside
<1>1. \A u \in Threads : th'[u] = th[u] \/ th'[u].pc = "idle"
  BY DEF Exit, Idle
<1>2. "idle" \notin DBPCs
  BY DEF DBPCs
<1>3. \A r \in Servers : ca'[r].ready => ca[r].ready
  BY TypeParts DEF Exit, NewCA, ControlTyped
<1>4. QED
  BY <1>1, <1>2, <1>3 DEF Outside

LEMMA OutsideReturn ==
    ASSUME TypeInv, NEW t \in Threads, NEW ok, Moves(t, At(Idle, After(t, ok))),
           \A s \in Servers : ca'[s].ready => ca[s].ready
    PROVE  Outside
<1>1. At(Idle, After(t, ok)).pc = After(t, ok)
  BY IdleIs
<1>2. After(t, ok) \notin DBPCs
  BY DEF After, DBPCs
<1>3. QED
  BY <1>1, <1>2, OutsideMove

LEMMA OutsideGivesUp == ASSUME TypeInv, NEW t \in Threads, GivesUp(t) PROVE Elsewhere
  BY OutsideReturn DEF GivesUp, Elsewhere

LEMMA OutsideCloses == ASSUME TypeInv, NEW t \in Threads, Closes(t) PROVE Outside
<1>1. \A s \in Servers : ca'[s].ready => ca[s].ready
  BY Typed DEF Closes, CAObject
<1>2. QED
  BY <1>1, OutsideReturn DEF Closes

LEMMA OutsidePasses ==
    ASSUME TypeInv, NEW t \in Threads, Passes(t), \A s \in Servers : ca'[s].ready => ca[s].ready
    PROVE  Outside
<1> DEFINE x == At(Idle, IF t \in Servers THEN "idle" ELSE "serving")
<1>1. x.pc \in {"idle", "serving"} /\ Moves(t, x)
  BY IdleIs DEF Passes
<1>2. x.pc \notin DBPCs
  BY <1>1 DEF DBPCs
<1> HIDE DEF x
<1>3. QED
  BY <1>1, <1>2, OutsideMove

LEMMA OutsideReadies == ASSUME TypeInv, NEW t \in Threads, Readies(t) PROVE Outside
<1>1. \A s \in Servers : ca'[s].ready => ca[s].ready
  BY Typed DEF Readies, CAObject
<1>2. QED
  BY <1>1, OutsidePasses DEF Readies

LEMMA OutsideDrops == ASSUME TypeInv, NEW t \in Threads, Drops(t) PROVE Outside
<1>1. Idle.pc \notin DBPCs
  BY DEF Idle, DBPCs
<1>2. QED
  BY <1>1, OutsideMove DEF Drops

\* A thread gets a key and goes on to write it.
LEMMA OutsideKey ==
    ASSUME TypeInv, NEW t \in Threads, NEW k, NEW pc, pc \notin DBPCs,
           Moves(t, [th[t] EXCEPT !.key = k, !.pc = pc]), ca' = ca
    PROVE  Outside
<1>1. [th[t] EXCEPT !.key = k, !.pc = pc].pc = pc
  BY Typed DEF Thread
<1>2. QED
  BY <1>1, OutsideMove

\* The places that are not in initDB.
LEMMA NotInDB ==
    /\ \A pc \in {"idle", "getCA", "getCAReady", "initDB", "initDBReady", "lock", "issuer",
                  "ilock", "serving"} : pc \notin DBPCs
    /\ \A pc \in MainPCs \cup IssuerPCs : pc \notin DBPCs
  BY DEF DBPCs, MainPCs, IssuerPCs

LEMMA RequestsElsewhere ==
    ASSUME TypeInv, NEW t \in Handlers, Request(t) \/ GetCA(t) PROVE Elsewhere
<1>0. t \in Threads
  BY DEF Threads
<1>1. UNCHANGED <<cfg, ca, db, removed>> /\ TypeInv'
  BY TypeRequest, TypeGetCA
<1>2. \E pc \in {"getCA", "initDB", "getCAReady", "idle", "serving"} : Moves(t, At(th[t], pc))
  BY TypeRequest, TypeGetCA
<1>3. Outside
  BY <1>0, <1>1, <1>2, NotInDB, OutsideGoto
<1>4. QED
  BY <1>1, <1>3 DEF Elsewhere

LEMMA StartsElsewhere ==
    ASSUME TypeInv, NEW s \in Servers, Start(s) \/ CheckConfigLevels(s) \/ InitEnrollmentSigner(s)
    PROVE  Elsewhere
<1>0. s \in Threads
  BY DEF Threads
<1>1. UNCHANGED <<cfg, db, removed>> /\ TypeInv'
  BY TypeStart, TypeConfig, TypeSigner
<1>2. CASE Start(s)
  <2>1. "config" \notin DBPCs
    BY DEF DBPCs
  <2>2. Outside
    BY <1>0, <1>2, <2>1, TypeStart, OutsideGoto
  <2>3. QED
    BY <1>1, <2>2 DEF Elsewhere
<1>3. CASE CheckConfigLevels(s)
  <2>1. "keys" \notin DBPCs
    BY DEF DBPCs
  <2>2. Outside
    BY <1>0, <1>3, <2>1, TypeConfig, OutsideGoto, OutsideExit
  <2>3. QED
    BY <1>1, <2>2 DEF Elsewhere
<1>4. CASE InitEnrollmentSigner(s)
  <2>1. \A r \in Servers : ca'[r].ready => ca[r].ready
    <3>1. ca \in [Servers -> CAObject] /\ ca[s] \in CAObject
      BY TypeParts DEF ControlTyped
    <3>2. [ca[s] EXCEPT !.signer = ca[s].certs].ready = ca[s].ready
      BY <3>1 DEF CAObject
    <3>3. ca' = [ca EXCEPT ![s] = [ca[s] EXCEPT !.signer = ca[s].certs]]
      BY <1>4, TypeSigner
    <3>4. QED
      BY <3>1, <3>2, <3>3
  <2>2. Outside
    BY <1>0, <1>4, <2>1, TypeSigner, NotInDB, OutsideGoto
  <2>3. QED
    BY <1>1, <2>2 DEF Elsewhere
<1>5. QED
  BY <1>2, <1>3, <1>4

LEMMA WritesElsewhere ==
    ASSUME TypeInv, NEW s \in Servers, InitKeyMaterial(s) \/ WriteChain(s) \/ WriteCert(s)
    PROVE  Elsewhere
<1>0. s \in Threads /\ "writeCert" \notin DBPCs /\ "writeChain" \notin DBPCs
  BY DEF Threads, DBPCs
<1>1. UNCHANGED <<cfg, db, removed>> /\ TypeInv'
  BY TypeKeyMaterial, TypeWriteChain, TypeWriteCert
<1>2. CASE InitKeyMaterial(s)
  <2>1. ASSUME NEW k, Moves(s, [th[s] EXCEPT !.key = k, !.pc =
                                  IF cfg.intermediate THEN "writeChain" ELSE "writeCert"]),
               ca' = ca
        PROVE  Outside
    BY <1>0, <2>1, OutsideKey
  <2>2. Outside
    BY <1>0, <1>2, <2>1, TypeKeyMaterial, NotInDB, OutsideGoto, OutsideExit
  <2>3. QED
    BY <1>1, <2>2 DEF Elsewhere
<1>3. CASE WriteChain(s)
  <2>1. Outside
    BY <1>0, <1>3, TypeWriteChain, OutsideGoto
  <2>2. QED
    BY <1>1, <2>1 DEF Elsewhere
<1>4. CASE WriteCert(s)
  <2>1. At(Idle, "initDB").pc \notin DBPCs
    BY IdleIs, NotInDB
  <2>2. Outside
    BY <1>0, <1>4, <2>1, TypeWriteCert, OutsideMove
  <2>3. QED
    BY <1>1, <2>2 DEF Elsewhere
<1>5. QED
  BY <1>2, <1>3, <1>4

\* The CA object of t gets another issuer.
LEMMA IssuerKeepsReady ==
    ASSUME TypeInv, NEW t \in Threads, NEW c, ca' = [ca EXCEPT ![Host(t)] = c],
           c.ready = ca[Host(t)].ready
    PROVE  \A s \in Servers : ca'[s].ready => ca[s].ready
  BY Typed

LEMMA IssuerElsewhere ==
    ASSUME TypeInv, NEW t \in Threads,
           \/ InitIssuer(t) \/ LockIssuer(t) \/ IssuerKeyMaterial(t) \/ StoreIssuerKey(t)
           \/ RevocationKeyMaterial(t) \/ StoreRevocationKey(t) \/ GetRAInfo(t) \/ AddRAInfo(t)
    PROVE  Elsewhere
<1> DEFINE s == Host(t)
           k == th[t].key
<1>0. ca[s] \in CAObject
  BY Typed
<1>1. /\ TypeInv' /\ UNCHANGED <<cfg, removed>>
      /\ db' = db \/ db' = [db EXCEPT !.ra = TRUE]
  BY TypeInitIssuer, TypeLockIssuer, TypeIssuerKey, TypeStoreIssuer, TypeRevocationKey,
     TypeStoreRevocation, TypeGetRAInfo, TypeAddRAInfo
<1>2. \A pc \in IssuerPCs \cup {"ilock"} : pc \notin DBPCs
  BY NotInDB
<1>3. {"issuerKey", "storeIpk", "storeIsk", "revKey", "storeRpriv", "storeRpub",
       "raInfo", "raInsert"} \subseteq IssuerPCs
  BY DEF IssuerPCs
<1>4. CASE InitIssuer(t)
  BY <1>2, <1>4, TypeInitIssuer, OutsidePasses, OutsideGoto DEF Elsewhere
<1>5. CASE LockIssuer(t)
  <2>1. CASE Passes(t) /\ UNCHANGED ca
    BY <1>1, <2>1, OutsidePasses DEF Elsewhere
  <2>2. CASE /\ Moves(t, At(th[t], "issuerKey"))
             /\ ca' = [ca EXCEPT ![s] = [ca[s] EXCEPT !.issuerDB = ca[s].db]]
    <3>1. [ca[s] EXCEPT !.issuerDB = ca[s].db].ready = ca[s].ready
      BY <1>0 DEF CAObject
    <3>2. \A r \in Servers : ca'[r].ready => ca[r].ready
      BY <2>2, <3>1, IssuerKeepsReady
    <3>3. QED
      BY <1>1, <1>2, <1>3, <2>2, <3>2, OutsideGoto DEF Elsewhere
  <2>3. QED
    BY <1>5, <2>1, <2>2, TypeLockIssuer
<1>6. CASE IssuerKeyMaterial(t)
  <2>1. IssuerLoaded(ca[s], files[s]).ready = ca[s].ready
    BY <1>0 DEF CAObject, IssuerLoaded
  <2>2. ca' = [ca EXCEPT ![s] = IssuerLoaded(ca[s], files[s])] =>
          \A r \in Servers : ca'[r].ready => ca[r].ready
    BY <2>1, IssuerKeepsReady
  <2>3. Outside
    BY <1>2, <1>3, <1>6, <2>2, TypeIssuerKey, OutsideGoto, OutsideExit, OutsideDrops, OutsideKey
  <2>4. QED
    BY <1>1, <2>3 DEF Elsewhere
<1>7. CASE RevocationKeyMaterial(t)
  <2>1. RevLoaded(ca[s], files[s]).ready = ca[s].ready
    BY <1>0 DEF CAObject, RevLoaded
  <2>2. ca' = [ca EXCEPT ![s] = RevLoaded(ca[s], files[s])] =>
          \A r \in Servers : ca'[r].ready => ca[r].ready
    BY <2>1, IssuerKeepsReady
  <2>3. Outside
    BY <1>2, <1>3, <1>7, <2>2, TypeRevocationKey, OutsideGoto, OutsideExit, OutsideDrops,
       OutsideKey
  <2>4. QED
    BY <1>1, <2>3 DEF Elsewhere
<1>8. CASE StoreIssuerKey(t)
  <2>1. [ca[s] EXCEPT !.issuerKey = [pub |-> k, priv |-> k]].ready = ca[s].ready
    BY <1>0 DEF CAObject
  <2>2. ca' = [ca EXCEPT ![s] = [ca[s] EXCEPT !.issuerKey = [pub |-> k, priv |-> k]]] =>
          \A r \in Servers : ca'[r].ready => ca[r].ready
    BY <2>1, IssuerKeepsReady
  <2>3. Outside
    BY <1>2, <1>3, <1>8, <2>2, TypeStoreIssuer, OutsideGoto
  <2>4. QED
    BY <1>1, <2>3 DEF Elsewhere
<1>9. CASE StoreRevocationKey(t)
  <2>1. [ca[s] EXCEPT !.revKey = [pub |-> k, priv |-> k]].ready = ca[s].ready
    BY <1>0 DEF CAObject
  <2>2. ca' = [ca EXCEPT ![s] = [ca[s] EXCEPT !.revKey = [pub |-> k, priv |-> k]]] =>
          \A r \in Servers : ca'[r].ready => ca[r].ready
    BY <2>1, IssuerKeepsReady
  <2>3. Outside
    BY <1>2, <1>3, <1>9, <2>2, TypeStoreRevocation, OutsideGoto
  <2>4. QED
    BY <1>1, <2>3 DEF Elsewhere
<1>10. CASE GetRAInfo(t) \/ AddRAInfo(t)
  <2>1. Outside
    BY <1>2, <1>3, <1>10, TypeGetRAInfo, TypeAddRAInfo, OutsideGoto, OutsideExit, OutsideDrops,
       OutsideReadies
  <2>2. QED
    BY <1>1, <2>1 DEF Elsewhere
<1>11. QED
  BY <1>4, <1>5, <1>6, <1>7, <1>8, <1>9, <1>10

LEMMA CrashElsewhere == ASSUME TypeInv, NEW s \in Servers, Crash(s) PROVE Elsewhere
  BY TypeCrash, OutsideExit DEF Elsewhere

LEMMA InitDBElsewhere == ASSUME TypeInv, NEW t \in Threads, InitDB(t) PROVE Elsewhere
<1>1. TypeInv' /\ UNCHANGED <<cfg, ca, db, removed>>
  BY TypeInitDB
<1>2. \E pc \in {"lock", "initDBReady", "idle", "signer", "issuer"} : Moves(t, At(th[t], pc))
  BY TypeInitDB
<1>3. \A pc \in {"lock", "initDBReady", "idle", "signer", "issuer"} : pc \notin DBPCs
  BY DEF DBPCs
<1>4. Outside
  BY <1>1, <1>2, <1>3, OutsideGoto
<1>5. QED
  BY <1>1, <1>4 DEF Elsewhere
-----------------------------------------------------------------------------
(* Content: the steps.                                                     *)

LEMMA SameGrows == ASSUME cfg' = cfg, db' = db PROVE Grows
  BY DEF Grows, LevelDone

\* Other columns of the database.
LEMMA OtherGrows ==
    ASSUME TypeInv, cfg' = cfg, db'.tables = db.tables, db'.affs = db.affs,
           db'.props = db.props, db'.users = db.users
    PROVE  Grows
  BY DEF Grows, LevelDone

LEMMA ContentElsewhere == ASSUME TypeInv, ContentInv, Elsewhere PROVE ContentInv'
<1>0. TypeInv' /\ db \in Database
  BY TypeParts DEF Elsewhere, DataTyped
<1>1. /\ db'.tables = db.tables /\ db'.affs = db.affs
      /\ db'.props = db.props /\ db'.users = db.users
  BY <1>0 DEF Elsewhere, Database
<1>2. Grows
  BY <1>1, OtherGrows DEF Elsewhere
<1>3. ASSUME NEW u \in Threads PROVE ThreadContent(th[u])'
  <2>1. PICK y : y = th'[u]
    OBVIOUS
  <2>2. ThreadContent(y)'
    <3>1. CASE y.pc \notin DBPCs
      BY <3>1, OutsideDB
    <3>2. CASE th'[u] = th[u]
      BY <1>0, <1>2, <2>1, <3>2, ThreadGrows, ContentParts
    <3>3. QED
      BY <2>1, <3>1, <3>2 DEF Elsewhere, Outside
  <2>3. QED
    BY <2>1, <2>2 DEF ThreadContent, SchemaOK, LoadOK, MigrationOK, Left, Listed
<1>4. ASSUME NEW s \in Servers, ca'[s].ready PROVE ReadyContent'
  BY <1>0, <1>2, <1>4, ReadyGrows, ContentParts DEF Elsewhere, Outside
<1>5. QED
  BY <1>3, <1>4 DEF ContentInv, ThreadContent, ReadyContent

\* Before loadUsersTable, and after an error, nothing is claimed of what the
\* attempt loads.
Early == {"createTables", "open", "schema", "schemaRest", "accessors", "check"}

LEMMA EarlyOK ==
    ASSUME NEW x, x.pc \in Early \/ x.failed
    PROVE  LoadOK(x)' /\ MigrationOK(x)'
<1>1. CASE x.failed
  BY <1>1 DEF LoadOK, MigrationOK
<1>2. CASE x.pc \in Early
  <2>1. /\ x.pc \notin {"lookup", "insert", "affs"} \cup AfterUsers \cup AfterAffiliations
        /\ x.pc \notin Migrating \cup {"levels", "finish"}
    BY <1>2 DEF Early, AfterUsers, AfterAffiliations, Migrating
  <2>2. QED
    BY <2>1 DEF LoadOK, MigrationOK
<1>3. QED
  BY <1>1, <1>2

\* Once the tables are there, and with SQLite the levels, they stay.
LEMMA SchemaStep ==
    ASSUME TypeInv, TypeInv', Grows, NEW x, NEW y, SchemaOK(y),
           y.pc \in DBPCs \ {"createTables"}, x.pc \in DBPCs \ {"createTables"},
           x.pc \in Opened => y.pc \in Opened,
           x.pc \in Opened \ {"schema"} => y.pc \in Opened \ {"schema"}
    PROVE  SchemaOK(x)'
<1>1. db'.tables = AllTables
  BY TablesType DEF SchemaOK, Grows
<1>2. x.pc \in Opened => HasLevel'
  BY LevelGrows DEF SchemaOK
<1>3. x.pc \in Opened \ {"schema"} /\ cfg'.driver = "sqlite3" => HasLevels'
  BY LevelGrows DEF SchemaOK, Grows
<1>4. QED
  BY <1>1, <1>2, <1>3 DEF SchemaOK

\* A step of the loop takes the first item, which it has dealt with.
LEMMA LoopLeft ==
    ASSUME NEW t \in Threads, NEW S, th[t].todo \in Seq(S) \ {<<>>}, NEW x, NEW pc, NEW next,
           NEW items, Loops(t, x, pc, next, items), NEW e, Left(th[t], e), e # Head(th[t].todo)
    PROVE  x.pc = pc /\ Left(x, e)
<1> DEFINE q == th[t].todo
<1>1. PICK j \in DOMAIN q : q[j] = e
  BY DEF Left
<1>2. Len(q) > 1 /\ \E i \in DOMAIN Tail(q) : Tail(q)[i] = q[j]
  BY <1>1, TailLeft
<1>3. q \in Seq(S)
  OBVIOUS
<1> HIDE DEF q
<1>4. ~(Len(q) = 1)
  BY <1>2
<1>5. x.pc = pc /\ x.todo = Tail(q)
  BY <1>4 DEF Loops, q
<1>6. QED
  BY <1>1, <1>2, <1>5 DEF Left

\* A step that changes the database and no CA object.
LEMMA ContentChange ==
    ASSUME TypeInv, ContentInv, NEW t \in Threads, NEW x, NEW d, DBChange(t, x, d), Grows,
           SchemaOK(x)', LoadOK(x)', MigrationOK(x)'
    PROVE  ContentInv'
<1>1. TypeInv' /\ Moves(t, x) /\ ca' = ca
  BY DEF DBChange
<1>2. ThreadContent(x)'
  BY DEF ThreadContent
<1>3. QED
  BY <1>1, <1>2, ContentFrame

LEMMA ContentLockDB ==
    ASSUME TypeInv, ContentInv, NEW t \in Threads, LockDB(t) PROVE ContentInv'
<1>0. TypeInv' /\ UNCHANGED <<cfg, ca, db, removed>> /\ th[t] \in Thread
  BY TypeLockDB, Typed
<1>1. CASE Moves(t, At(Idle, After(t, TRUE)))
  <2>1. Outside
    BY <1>0, <1>1, OutsideReturn
  <2>2. QED
    BY <1>0, <2>1, ContentElsewhere DEF Elsewhere
<1>2. CASE Moves(t, [th[t] EXCEPT !.pc = "createTables", !.todo = DataTables])
  <2>1. PICK x : x = [th[t] EXCEPT !.pc = "createTables", !.todo = DataTables]
    OBVIOUS
  <2>2. x.pc = "createTables" /\ x.todo = DataTables
    BY <1>0, <2>1 DEF Thread
  <2>3. \A n \in AllTables : Left(x, n)
    BY <2>2 DEF AllTables, Left
  <2>4. SchemaOK(x)'
    BY <2>2, <2>3 DEF SchemaOK, Opened
  <2>5. ThreadContent(x)'
    BY <2>2, <2>4, EarlyOK DEF ThreadContent, Early
  <2>6. QED
    BY <1>0, <1>2, <2>1, <2>5, SameGrows, ContentFrame
<1>3. QED
  BY <1>1, <1>2, TypeLockDB

LEMMA TablesGrow ==
    ASSUME TypeInv, NEW t \in Threads, NEW x, NEW new \in SUBSET AllTables,
           DBChange(t, x, WithTables(new))
    PROVE  Grows /\ TypeInv' /\ db'.tables = db.tables \cup new
<1>1. /\ db'.tables = db.tables \cup new /\ db'.props = db.props /\ db'.users = db.users
      /\ db'.affs = db.affs /\ cfg' = cfg /\ TypeInv'
  BY WithTablesType DEF DBChange
<1>2. QED
  BY <1>1 DEF Grows, LevelDone

LEMMA ContentSQLiteTables ==
    ASSUME TypeInv, ContentInv, NEW t \in Threads, CreateSQLiteTables(t) PROVE ContentInv'
<1>1. PICK x : x = [th[t] EXCEPT !.pc = "open", !.todo = <<>>]
  OBVIOUS
<1>2. x.pc = "open" /\ DBChange(t, x, WithTables(AllTables))
  BY <1>1, TypeSQLiteTables, Typed DEF Thread
<1>3. Grows /\ TypeInv' /\ db'.tables = AllTables
  BY <1>2, TablesGrow, TablesType
<1>4. SchemaOK(x)'
  BY <1>2, <1>3 DEF SchemaOK, Opened
<1>5. LoadOK(x)' /\ MigrationOK(x)'
  BY <1>2, EarlyOK DEF Early
<1>6. QED
  BY <1>2, <1>3, <1>4, <1>5, ContentChange

LEMMA ContentTables ==
    ASSUME TypeInv, ContentInv, NEW t \in Threads, CreatePostgresTables(t) \/ CreateMySQLTables(t)
    PROVE  ContentInv'
<1> DEFINE n == Head(th[t].todo)
<1>0. th[t].pc = "createTables" /\ th[t].todo \in Seq(AllTables) \ {<<>>}
  BY TypeTables, Typed DEF LocalsOK
<1>1. n \in AllTables
  BY <1>0, TailSeq
<1>2. PICK x : Loops(t, x, "createTables", "open", <<>>) /\ DBChange(t, x, WithTables({n}))
  BY TypeTables
<1>3. Grows /\ TypeInv' /\ db'.tables = db.tables \cup {n}
  BY <1>1, <1>2, TablesGrow
<1>4. SchemaOK(th[t])
  BY ContentParts DEF ThreadContent
<1>5. x.pc \in {"createTables", "open"}
  BY <1>2 DEF Loops
<1>6. ASSUME NEW m \in AllTables PROVE m \in db'.tables \/ (x.pc = "createTables" /\ Left(x, m))
  <2>1. m \in db.tables \/ Left(th[t], m)
    BY <1>0, <1>4 DEF SchemaOK
  <2> HIDE DEF n
  <2>2. CASE m = n \/ m \in db.tables
    BY <1>3, <2>2
  <2>3. CASE m # n /\ Left(th[t], m)
    BY <1>0, <1>2, <2>3, LoopLeft DEF n
  <2>4. QED
    BY <2>1, <2>2, <2>3
<1>7. SchemaOK(x)'
  <2>1. x.pc = "open" => db'.tables = AllTables
    BY <1>3, <1>6, TablesType
  <2>2. x.pc \notin Opened
    BY <1>5 DEF Opened
  <2>3. QED
    BY <1>5, <1>6, <2>1, <2>2 DEF SchemaOK
<1>8. LoadOK(x)' /\ MigrationOK(x)'
  BY <1>5, EarlyOK DEF Early
<1>9. QED
  BY <1>2, <1>3, <1>7, <1>8, ContentChange

LEMMA ContentOpenDB ==
    ASSUME TypeInv, ContentInv, NEW t \in Threads, OpenDB(t) PROVE ContentInv'
<1> DEFINE p == IF \A n \in LevelRows : db.props[n] = NoLevel THEN [n \in LevelRows |-> 0]
                                                             ELSE db.props
<1>0. /\ TypeInv' /\ cfg' = cfg /\ th[t].pc = "open" /\ Moves(t, At(th[t], "schema"))
      /\ db \in Database /\ th[t] \in Thread
  BY TypeOpenDB, TypeParts, Typed DEF DataTyped
<1>1. db' = [db EXCEPT !.props = p]
  BY TypeOpenDB
<1>2. /\ db'.tables = db.tables /\ db'.users = db.users /\ db'.affs = db.affs
      /\ db'.props = p
  <2> HIDE DEF p
  <2>1. QED
    BY <1>0, <1>1 DEF Database
<1>3. LevelRows # {} /\ 0 # NoLevel
  BY Rows DEF NoLevel
<1>4. Grows /\ HasLevel'
  <2>1. CASE \A n \in LevelRows : db.props[n] = NoLevel
    <3>1. \A n \in LevelRows : db'.props[n] = 0
      BY <1>2, <2>1
    <3>2. ~HasLevel
      BY <2>1 DEF HasLevel
    <3>3. HasLevel'
      BY <1>3, <3>1 DEF HasLevel
    <3>4. QED
      BY <1>0, <1>2, <2>1, <3>2, <3>3 DEF Grows
  <2>2. CASE ~(\A n \in LevelRows : db.props[n] = NoLevel)
    <3>1. db'.props = db.props
      BY <1>2, <2>2
    <3>2. HasLevel'
      BY <2>2, <3>1 DEF HasLevel
    <3>3. QED
      BY <1>0, <1>2, <3>1, <3>2, OtherGrows
  <2>3. QED
    BY <2>1, <2>2
<1>5. PICK x : x = At(th[t], "schema")
  OBVIOUS
<1>6. x.pc = "schema"
  BY <1>0, <1>5, AtIs
<1>7. db'.tables = AllTables
  BY <1>0, <1>2, ContentParts DEF ThreadContent, SchemaOK, DBPCs
<1>8. SchemaOK(x)'
  BY <1>4, <1>6, <1>7 DEF SchemaOK
<1>9. ThreadContent(x)'
  BY <1>6, <1>8, EarlyOK DEF ThreadContent, Early
<1>10. \A s \in Servers : ca'[s].ready => ca[s].ready
  <2>1. PICK n : ca' = [ca EXCEPT ![Host(t)] = [ca[Host(t)] EXCEPT !.db = n, !.ready = FALSE]]
    BY TypeOpenDB
  <2>2. [ca[Host(t)] EXCEPT !.db = n, !.ready = FALSE].ready = FALSE
    BY Typed DEF CAObject
  <2>3. ca \in [Servers -> CAObject] /\ Host(t) \in Servers
    BY Typed
  <2>4. QED
    BY <2>1, <2>2, <2>3
<1>11. QED
  BY <1>0, <1>4, <1>5, <1>9, <1>10, ContentFrame

\* If all requests go to one server, a thread in initDB is alone there and no
\* CA object is ready.
OneHost == \A g, h \in Handlers : Host(g) = Host(h)

LEMMA Alone ==
    ASSUME TypeInv, Control, OneHost, NEW t \in Threads, th[t].pc \in DBPCs
    PROVE  /\ \A u \in Threads : u # t => th[u].pc \notin DBPCs
           /\ \A s \in Servers : ~ca[s].ready
<1>1. \A g, h \in Handlers : Host(g) = Host(h)
  BY DEF OneHost
<1>2. ASSUME NEW s \in Servers, proc[s] # "down" PROVE \A h \in Handlers : Host(h) = s
  BY <1>1, <1>2 DEF Control, CAOK
<1>3. ASSUME NEW u \in Threads, th[u].pc \in DBPCs
      PROVE  /\ Host(u) \in Servers /\ proc[Host(u)] # "down"
             /\ lock[Host(u)] = u /\ ~ca[Host(u)].ready
  <2>1. th[u].pc # "idle"
    BY <1>3 DEF DBPCs
  <2>2. QED
    BY <1>3, <2>1, Typed DEF Control, PlaceOK, ThreadOK
<1>4. PICK g \in Handlers : TRUE
  BY <1>3 DEF Control, CAOK
<1>5. \A u \in Threads : th[u].pc \in DBPCs => Host(u) = Host(g)
  BY <1>2, <1>3, <1>4
<1>6. ASSUME NEW s \in Servers, ca[s].ready PROVE FALSE
  <2>1. proc[s] # "down"
    BY <1>6 DEF Control, CAOK
  <2>2. s = Host(t)
    BY <1>2, <1>4, <1>5, <2>1
  <2>3. QED
    BY <1>3, <1>6, <2>2
<1>7. QED
  BY <1>3, <1>5, <1>6

LEMMA SQLiteOneHost == ASSUME TypeInv, cfg.driver = "sqlite3" PROVE OneHost
  BY ConfigsOK, StartupConstantsOK DEF TypeInv, TypeOK, Host, OneHost

LEMMA ContentSQLiteSchema ==
    ASSUME TypeInv, Control, ContentInv, NEW t \in Threads, UpdateSQLiteSchema(t)
    PROVE  ContentInv'
<1>1. CASE GivesUp(t)
  BY <1>1, OutsideGivesUp, ContentElsewhere
<1>2. CASE /\ HasLevels /\ DBChange(t, At(th[t], "schemaRest"), db')
           /\ db'.tables = db.tables /\ db'.props = db.props
  <2>0. th[t].pc = "schema" /\ th[t].pc \in DBPCs /\ cfg.driver = "sqlite3"
    BY TypeSQLiteSchema DEF DBPCs
  <2>1. /\ \A u \in Threads : u # t => th[u].pc \notin DBPCs
        /\ \A s \in Servers : ~ca[s].ready
    BY <2>0, SQLiteOneHost, Alone
  <2>2. /\ TypeInv' /\ Moves(t, At(th[t], "schemaRest")) /\ ca' = ca
    BY <1>2 DEF DBChange
  <2>3. PICK x : x = At(th[t], "schemaRest")
    OBVIOUS
  <2>4. x.pc = "schemaRest"
    BY <2>3, Typed, AtIs
  <2>5. db.tables = AllTables /\ HasLevel
    BY <2>0, ContentParts DEF ThreadContent, SchemaOK, Opened
  <2>6. SchemaOK(x)'
    BY <1>2, <2>4, <2>5 DEF SchemaOK, HasLevel, HasLevels
  <2>7. ThreadContent(x)'
    BY <2>4, <2>6, EarlyOK DEF ThreadContent, Early
  <2>8. ASSUME NEW u \in Threads PROVE ThreadContent(th[u])'
    <3>1. PICK y : y = th'[u]
      OBVIOUS
    <3>2. y = x \/ y.pc \notin DBPCs
      BY <2>1, <2>2, <2>3, <3>1, Moved
    <3>3. ThreadContent(y)'
      BY <2>7, <3>2, OutsideDB
    <3>4. QED
      BY <3>1, <3>3 DEF ThreadContent, SchemaOK, LoadOK, MigrationOK, Left, Listed
  <2>9. QED
    BY <2>1, <2>2, <2>8 DEF ContentInv, ThreadContent
<1>3. QED
  BY <1>1, <1>2, TypeSQLiteSchema

LEMMA ContentSchemaSteps ==
    ASSUME TypeInv, Control, ContentInv, NEW t \in Threads, AlterTables(t) \/ UpdateSchemaRest(t)
    PROVE  ContentInv'
<1>0. SchemaOK(th[t]) /\ th[t] \in Thread /\ db \in Database
  BY ContentParts, TypeParts, Typed DEF ThreadContent, DataTyped
<1>1. PICK pc \in {"schemaRest", "accessors"} :
        /\ DBChange(t, At(th[t], pc), db')
        /\ th[t].pc \in {"schema", "schemaRest"}
        /\ th[t].pc = "schema" => cfg.driver # "sqlite3"
        /\ db' = db \/ db' = [db EXCEPT !.column = TRUE]
  BY TypeAlterTables, TypeSchemaRest DEF DBChange
<1>2. PICK x : x = At(th[t], pc)
  OBVIOUS
<1>3. x.pc = pc /\ TypeInv' /\ cfg' = cfg
  BY <1>0, <1>1, <1>2, AtIs DEF DBChange
<1>4. /\ db'.tables = db.tables /\ db'.users = db.users /\ db'.affs = db.affs
      /\ db'.props = db.props
  BY <1>0, <1>1 DEF Database
<1>5. Grows
  BY <1>3, <1>4, OtherGrows
<1>6. SchemaOK(x)'
  <2>1. db.tables = AllTables /\ HasLevel /\ (cfg.driver = "sqlite3" => HasLevels)
    BY <1>0, <1>1 DEF SchemaOK, Opened, DBPCs
  <2>2. QED
    BY <1>3, <1>4, <2>1 DEF SchemaOK, HasLevel, HasLevels
<1>7. LoadOK(x)' /\ MigrationOK(x)'
  BY <1>3, EarlyOK DEF Early
<1>8. QED
  BY <1>1, <1>2, <1>5, <1>6, <1>7, ContentChange

LEMMA LDAPContent == ASSUME NEW x, cfg'.ldap PROVE LoadOK(x)' /\ MigrationOK(x)'
  BY DEF LoadOK, MigrationOK

LEMMA ContentAccessors ==
    ASSUME TypeInv, ContentInv, NEW t \in Threads, SetAccessors(t) PROVE ContentInv'
<1>0. /\ SchemaOK(th[t]) /\ th[t] \in Thread /\ TypeInv' /\ UNCHANGED <<cfg, db>>
      /\ th[t].pc = "accessors"
  BY ContentParts, Typed, TypeAccessors DEF ThreadContent
<1>1. PICK x : x = At(th[t], IF cfg.ldap THEN "finish" ELSE "check")
  OBVIOUS
<1>2. x.pc = IF cfg.ldap THEN "finish" ELSE "check"
  BY <1>0, <1>1, AtIs
<1>3. Grows
  BY <1>0, SameGrows
<1>4. SchemaOK(x)'
  <2>1. PICK y : y = th[t]
    OBVIOUS
  <2>2. QED
    BY <1>0, <1>2, <1>3, <2>1, SchemaStep DEF Opened, DBPCs
<1>5. LoadOK(x)' /\ MigrationOK(x)'
  BY <1>0, <1>2, EarlyOK, LDAPContent DEF Early
<1>6. \A s \in Servers : ca'[s].ready => ca[s].ready
  <2>1. PICK c : /\ ca' = [ca EXCEPT ![Host(t)] = c]
                 /\ c = [ca[Host(t)] EXCEPT !.certs = ca[Host(t)].db,
                           !.signer = IF @ = -1 THEN @ ELSE ca[Host(t)].db,
                           !.registry = IF cfg.ldap THEN @ ELSE ca[Host(t)].db]
    BY TypeAccessors
  <2>2. c.ready = ca[Host(t)].ready
    BY <2>1, Typed DEF CAObject
  <2>3. QED
    BY <2>1, <2>2, IssuerKeepsReady
<1>7. Moves(t, x)
  BY <1>1, TypeAccessors
<1>8. QED
  BY <1>0, <1>3, <1>4, <1>5, <1>6, <1>7, ContentFrame DEF ThreadContent

LEMMA ContentCheck ==
    ASSUME TypeInv, ContentInv, NEW t \in Threads, CheckDBLevels(t) PROVE ContentInv'
<1>0. SchemaOK(th[t]) /\ th[t] \in Thread /\ th[t].pc = "check"
  BY ContentParts, Typed, TypeCheck DEF ThreadContent
<1>1. PICK x : x = [th[t] EXCEPT !.pc = "lookup", !.todo = Bootstrap]
  OBVIOUS
<1>2. x.pc = "lookup" /\ x.todo = Bootstrap /\ DBChange(t, x, db)
  BY <1>0, <1>1, TypeCheck DEF Thread
<1>3. Grows /\ TypeInv'
  BY <1>2, SameGrows DEF DBChange
<1>4. SchemaOK(x)'
  BY <1>0, <1>2, <1>3, SchemaStep DEF Opened, DBPCs
<1>5. \A id \in BootstrapIDs : Left(x, id)
  BY <1>2 DEF BootstrapIDs, Left
<1>6. LoadOK(x)' /\ MigrationOK(x)'
  BY <1>2, <1>5 DEF LoadOK, MigrationOK, AfterUsers, AfterAffiliations, Migrating
<1>7. QED
  BY <1>2, <1>3, <1>4, <1>6, ContentChange

LEMMA UsersChange ==
    ASSUME TypeInv, NEW id \in IDs, NEW q \in Seq(UserRow), db' = [db EXCEPT !.users[id] = q]
    PROVE  /\ db'.tables = db.tables /\ db'.affs = db.affs /\ db'.props = db.props
           /\ db'.users[id] = q /\ \A i \in IDs : i # id => db'.users[i] = db.users[i]
  BY TypeParts DEF DataTyped, Database

\* The rows of an identity that is registered, or configured, change.
LEMMA UserGrows ==
    ASSUME TypeInv, NEW id \in IDs, NEW q \in Seq(UserRow), db' = [db EXCEPT !.users[id] = q],
           cfg' = cfg,
           db.users[id] # <<>> => q # <<>> /\ (db.users[id][1].level = 1 => q[1].level = 1),
           db.users[id] = <<>> => id \in BootstrapIDs \/ q = <<>>
    PROVE  Grows
<1>1. /\ db'.tables = db.tables /\ db'.affs = db.affs /\ db'.props = db.props
      /\ db'.users[id] = q /\ \A i \in IDs : i # id => db'.users[i] = db.users[i]
  BY UsersChange
<1>2. ASSUME NEW i \in IDs
      PROVE  /\ db.users[i] # <<>> => db'.users[i] # <<>>
             /\ db.users[i] = <<>> /\ i \notin BootstrapIDs => db'.users[i] = <<>>
             /\ db.users[i] # <<>> /\ db.users[i][1].level = 1 => db'.users[i][1].level = 1
  BY <1>1
<1>3. QED
  BY <1>1, <1>2 DEF Grows, LevelDone

\* loadUsersTable has found or inserted the identity at the head of its list.
LEMMA UsersLoop ==
    ASSUME TypeInv, TypeInv', ContentInv, Grows, NEW t \in Threads,
           th[t].pc \in {"lookup", "insert"}, NEW x, Loops(t, x, "lookup", "affs", Affiliations),
           db'.users[Head(th[t].todo)] # <<>>
    PROVE  SchemaOK(x)' /\ LoadOK(x)' /\ MigrationOK(x)'
<1> DEFINE h == Head(th[t].todo)
<1>0. /\ SchemaOK(th[t]) /\ LoadOK(th[t]) /\ th[t].todo \in Seq(BootstrapIDs) \ {<<>>}
      /\ x.failed = th[t].failed /\ x.pc \in {"lookup", "affs"} /\ cfg' = cfg
      /\ x.pc = "affs" => x.todo = Affiliations
  BY ContentParts, Typed DEF ThreadContent, LocalsOK, Loops, Grows
<1>1. SchemaOK(x)'
  BY <1>0, SchemaStep DEF Opened, DBPCs
<1>2. x.pc \notin AfterAffiliations \cup Migrating \cup {"levels", "finish"}
  BY <1>0 DEF AfterAffiliations, AfterUsers, Migrating
<1>3. MigrationOK(x)'
  BY <1>2 DEF MigrationOK
<1>4. ASSUME ~x.failed, ~cfg.ldap, NEW id \in BootstrapIDs
      PROVE  db'.users[id] # <<>> \/ (x.pc = "lookup" /\ Left(x, id))
  <2>1. db.users[id] # <<>> \/ Left(th[t], id)
    BY <1>0, <1>4 DEF LoadOK
  <2>2. CASE db.users[id] # <<>>
    BY <2>2, Constants DEF Grows
  <2>3. CASE id = h
    BY <2>3
  <2>4. CASE id # h /\ Left(th[t], id)
    BY <1>0, <2>4, LoopLeft
  <2>5. QED
    BY <2>1, <2>2, <2>3, <2>4
<1>5. x.pc = "affs" => \A a \in AffiliationsOfConfig : Left(x, a)
  BY <1>0 DEF AffiliationsOfConfig, Left
<1>6. ~x.failed /\ ~cfg.ldap /\ x.pc = "affs" => HasUsers'
  BY <1>4 DEF HasUsers
<1>7. x.pc \in AfterUsers => x.pc = "affs"
  BY <1>0 DEF AfterUsers, Migrating
<1>8. LoadOK(x)'
  BY <1>0, <1>2, <1>4, <1>5, <1>6, <1>7 DEF LoadOK
<1>9. QED
  BY <1>1, <1>3, <1>8

LEMMA ContentGoesOn ==
    ASSUME TypeInv, ContentInv, NEW t \in Threads, th[t].pc = "lookup",
           DBChange(t, At(th[t], "insert"), db)
    PROVE  ContentInv'
<1>0. SchemaOK(th[t]) /\ LoadOK(th[t]) /\ th[t] \in Thread
  BY ContentParts, Typed DEF ThreadContent
<1>1. PICK x : x = At(th[t], "insert")
  OBVIOUS
<1>2. x.pc = "insert" /\ x.todo = th[t].todo /\ x.failed = th[t].failed /\ DBChange(t, x, db)
  BY <1>0, <1>1, AtIs
<1>3. Grows /\ TypeInv' /\ cfg' = cfg /\ db' = db
  BY <1>2, SameGrows DEF DBChange
<1>4. SchemaOK(x)'
  BY <1>0, <1>2, <1>3, SchemaStep DEF Opened, DBPCs
<1>5. \A id : Left(th[t], id) => Left(x, id)
  BY <1>2 DEF Left
<1>6. x.pc \notin AfterUsers \cup AfterAffiliations \cup Migrating \cup {"levels", "finish", "affs"}
  BY <1>2 DEF AfterAffiliations, AfterUsers, Migrating
<1>7. MigrationOK(x)'
  BY <1>6 DEF MigrationOK
<1>8. LoadOK(x)'
  BY <1>0, <1>2, <1>3, <1>5, <1>6 DEF LoadOK
<1>9. QED
  BY <1>2, <1>3, <1>4, <1>7, <1>8, ContentChange

LEMMA ContentLookup ==
    ASSUME TypeInv, ContentInv, NEW t \in Threads, LookupUser(t) PROVE ContentInv'
<1>0. th[t].pc = "lookup" /\ TypeInv' /\ UNCHANGED <<cfg, db, removed>>
  BY TypeLookup
<1>1. GivesUp(t) => ContentInv'
  BY OutsideGivesUp, ContentElsewhere
<1>2. t \in Servers /\ Exit(t) => ContentInv'
  BY <1>0, OutsideExit, ContentElsewhere DEF Elsewhere
<1>3. DBChange(t, At(th[t], "insert"), db) => ContentInv'
  BY <1>0, ContentGoesOn
<1>4. ASSUME NEW x, db.users[Head(th[t].todo)] # <<>>, DBChange(t, x, db),
             Loops(t, x, "lookup", "affs", Affiliations)
      PROVE  ContentInv'
  BY <1>0, <1>4, SameGrows, UsersLoop, ContentChange
<1>5. QED
  BY <1>1, <1>2, <1>3, <1>4, TypeLookup

\* After an error nothing is claimed but what concerns the schema.
LEMMA ContentFailed ==
    ASSUME TypeInv, ContentInv, NEW t \in Threads, NEW x, NEW d, DBChange(t, x, d), Grows,
           x.failed, x.pc \in Loading, th[t].pc \in Loading
    PROVE  ContentInv'
<1>1. SchemaOK(th[t]) /\ TypeInv'
  BY ContentParts DEF ThreadContent, DBChange
<1>2. SchemaOK(x)'
  BY <1>1, SchemaStep DEF Loading, Opened, DBPCs
<1>3. QED
  BY <1>2, EarlyOK, ContentChange

LEMMA ContentInsert ==
    ASSUME TypeInv, ContentInv, NEW t \in Threads, InsertUser(t) PROVE ContentInv'
<1> DEFINE id == Head(th[t].todo)
<1>0. th[t].pc = "insert" /\ th[t] \in Thread
  BY TypeInsert, Typed
<1>1. ASSUME DBChange(t, [th[t] EXCEPT !.failed = TRUE, !.pc = "affs", !.todo = Affiliations], db)
      PROVE  ContentInv'
  <2>1. PICK x : x = [th[t] EXCEPT !.failed = TRUE, !.pc = "affs", !.todo = Affiliations]
    OBVIOUS
  <2>2. x.failed /\ x.pc = "affs"
    BY <1>0, <2>1 DEF Thread
  <2>3. Grows
    BY <1>1, SameGrows DEF DBChange
  <2>4. QED
    BY <1>0, <1>1, <2>1, <2>2, <2>3, ContentFailed DEF Loading, Opened, DBPCs
<1>2. ASSUME NEW x, Loops(t, x, "lookup", "affs", Affiliations), DBChange(t, x, db'),
             id \in BootstrapIDs, NEW row \in UserRow,
             db' = [db EXCEPT !.users[id] = Append(@, row)]
      PROVE  ContentInv'
  <2>0. id \in IDs /\ cfg' = cfg /\ TypeInv'
    BY <1>2, Constants DEF DBChange
  <2>1. db.users \in [IDs -> Seq(UserRow)] /\ db.users[id] \in Seq(UserRow)
    BY <2>0, TypeParts DEF DataTyped, Database
  <2>2. PICK q : q = Append(db.users[id], row)
    OBVIOUS
  <2>3. /\ q \in Seq(UserRow) /\ q # <<>>
        /\ db.users[id] # <<>> => q[1] = db.users[id][1]
    BY <2>1, <2>2
  <2>4. db' = [db EXCEPT !.users[id] = q]
    BY <1>2, <2>2
  <2>5. db'.users[id] = q
    BY <2>0, <2>3, <2>4, UsersChange
  <2>6. Grows
    BY <1>2, <2>0, <2>3, <2>4, UserGrows
  <2>7. SchemaOK(x)' /\ LoadOK(x)' /\ MigrationOK(x)'
    BY <1>0, <1>2, <2>0, <2>3, <2>5, <2>6, UsersLoop
  <2>8. QED
    BY <1>2, <2>6, <2>7, ContentChange
<1>3. QED
  BY <1>1, <1>2, TypeInsert

LEMMA ContentAffiliation ==
    ASSUME TypeInv, ContentInv, NEW t \in Threads, LoadAffiliation(t) PROVE ContentInv'
<1> DEFINE h == Head(th[t].todo)
<1>0. /\ th[t].pc = "affs" /\ db' = [db EXCEPT !.affs = @ \cup {h}]
      /\ SchemaOK(th[t]) /\ LoadOK(th[t]) /\ db \in Database
      /\ th[t].todo \in Seq(AffiliationsOfConfig) \ {<<>>}
  BY TypeAffiliation, ContentParts, TypeParts, Typed DEF ThreadContent, DataTyped, LocalsOK
<1>1. PICK x : Loops(t, x, "affs", "snapshot", <<>>) /\ DBChange(t, x, db')
  BY TypeAffiliation
<1>2. x.failed = th[t].failed /\ x.pc \in {"affs", "snapshot"} /\ cfg' = cfg /\ TypeInv'
  BY <1>1 DEF Loops, DBChange
<1>3. /\ db'.tables = db.tables /\ db'.affs = db.affs \cup {h}
      /\ db'.props = db.props /\ db'.users = db.users
  BY <1>0 DEF Database
<1>4. Grows
  BY <1>2, <1>3 DEF Grows, LevelDone
<1>5. SchemaOK(x)'
  BY <1>0, <1>2, <1>4, SchemaStep DEF Opened, DBPCs
<1>6. x.pc \notin Migrating \cup {"levels", "finish", "lookup", "insert"}
  BY <1>2 DEF Migrating
<1>7. MigrationOK(x)'
  BY <1>6 DEF MigrationOK
<1>8. ASSUME ~x.failed, ~cfg.ldap, NEW a \in AffiliationsOfConfig
      PROVE  a \in db'.affs \/ (x.pc = "affs" /\ Left(x, a))
  <2>1. a \in db.affs \/ Left(th[t], a)
    BY <1>0, <1>2, <1>8 DEF LoadOK
  <2> HIDE DEF h
  <2>2. CASE a \in db.affs \/ a = h
    BY <1>3, <2>2
  <2>3. CASE a # h /\ Left(th[t], a)
    BY <1>0, <1>1, <2>3, LoopLeft DEF h
  <2>4. QED
    BY <2>1, <2>2, <2>3
<1>9. ~x.failed /\ ~cfg.ldap => HasUsers'
  BY <1>0, <1>2, <1>4, UsersGrow DEF LoadOK, AfterUsers
<1>10. ~x.failed /\ ~cfg.ldap /\ x.pc = "snapshot" => HasAffiliations'
  BY <1>8 DEF HasAffiliations
<1>11. x.pc \in AfterAffiliations => x.pc = "snapshot"
  BY <1>2 DEF AfterAffiliations
<1>12. LoadOK(x)'
  BY <1>2, <1>6, <1>8, <1>9, <1>10, <1>11 DEF LoadOK
<1>13. QED
  BY <1>1, <1>4, <1>5, <1>7, <1>12, ContentChange

\* The users and affiliations that the attempt has loaded stay.
LEMMA LoadStep ==
    ASSUME TypeInv, TypeInv', Grows, NEW x, NEW y, LoadOK(y), x.failed = y.failed,
           y.pc \in AfterAffiliations, x.pc \in AfterAffiliations
    PROVE  LoadOK(x)'
<1>1. y.pc \in AfterUsers /\ x.pc \notin {"lookup", "insert", "affs"}
  BY DEF AfterAffiliations, AfterUsers, Migrating
<1>2. ~x.failed /\ ~cfg'.ldap => HasUsers' /\ HasAffiliations'
  BY <1>1, UsersGrow DEF LoadOK, Grows
<1>3. QED
  BY <1>1, <1>2 DEF LoadOK

LEMMA ContentSnapshot ==
    ASSUME TypeInv, ContentInv, NEW t \in Threads, GetUserLessThanLevel(t) PROVE ContentInv'
<1>0. /\ SchemaOK(th[t]) /\ LoadOK(th[t]) /\ th[t] \in Thread /\ th[t].pc = "snapshot"
      /\ db.users \in [IDs -> Seq(UserRow)]
  BY ContentParts, Typed, TypeSnapshot, TypeParts DEF ThreadContent, DataTyped, Database
<1>1. PICK snap \in Seq([id : IDs, row : UserRow]) :
        /\ DBChange(t, [th[t] EXCEPT !.pc = "user", !.snap = snap], db)
        /\ \A id \in IDs : \A i \in DOMAIN db.users[id] :
             db.users[id][i].level < 1 => \E j \in DOMAIN snap : snap[j].id = id
  BY TypeSnapshot
<1>2. PICK x : x = [th[t] EXCEPT !.pc = "user", !.snap = snap]
  OBVIOUS
<1>3. x.pc = "user" /\ x.snap = snap /\ x.failed = th[t].failed /\ DBChange(t, x, db)
  BY <1>0, <1>1, <1>2 DEF Thread
<1>4. Grows /\ TypeInv' /\ db' = db
  BY <1>3, SameGrows DEF DBChange
<1>5. SchemaOK(x)'
  BY <1>0, <1>3, <1>4, SchemaStep DEF Opened, DBPCs
<1>6. LoadOK(x)'
  BY <1>0, <1>3, <1>4, LoadStep DEF AfterAffiliations, AfterUsers, Migrating
<1>7. ASSUME NEW id \in IDs PROVE Migrated(id)' \/ Listed(x, id)
  <2>1. db.users[id] \in Seq(UserRow)
    BY <1>0
  <2>2. CASE db.users[id] = <<>>
    BY <1>4, <2>2 DEF Migrated
  <2>3. CASE db.users[id] # <<>>
    <3>1. 1 \in DOMAIN db.users[id] /\ db.users[id][1] \in UserRow
      BY <2>1, <2>3
    <3>2. db.users[id][1].level = 1 \/ db.users[id][1].level < 1
      BY <3>1 DEF UserRow
    <3>3. QED
      BY <1>1, <1>3, <1>4, <3>1, <3>2 DEF Migrated, Listed
  <2>4. QED
    BY <2>2, <2>3
<1>8. MigrationOK(x)'
  BY <1>3, <1>7 DEF MigrationOK
<1>9. QED
  BY <1>3, <1>4, <1>5, <1>6, <1>8, ContentChange

LEMMA ContentMigrate ==
    ASSUME TypeInv, ContentInv, NEW t \in Threads, MigrateUser(t) PROVE ContentInv'
<1>0. /\ SchemaOK(th[t]) /\ LoadOK(th[t]) /\ MigrationOK(th[t]) /\ th[t] \in Thread
      /\ th[t].pc = "user" /\ th[t].pc \in Migrating
  BY ContentParts, Typed, TypeMigrate DEF ThreadContent, Migrating
<1>1. ASSUME th[t].snap = <<>>,
             DBChange(t, [th[t] EXCEPT !.pc = "levels", !.todo = LevelNames], db)
      PROVE  ContentInv'
  <2>1. PICK x : x = [th[t] EXCEPT !.pc = "levels", !.todo = LevelNames]
    OBVIOUS
  <2>2. x.pc = "levels" /\ x.todo = LevelNames /\ x.failed = th[t].failed /\ DBChange(t, x, db)
    BY <1>0, <1>1, <2>1 DEF Thread
  <2>3. Grows /\ TypeInv' /\ db' = db /\ cfg' = cfg
    BY <2>2, SameGrows DEF DBChange
  <2>4. SchemaOK(x)'
    BY <1>0, <2>2, <2>3, SchemaStep DEF Opened, DBPCs
  <2>5. LoadOK(x)'
    BY <1>0, <2>2, <2>3, LoadStep DEF AfterAffiliations, AfterUsers, Migrating
  <2>6. \A id : ~Listed(th[t], id)
    BY <1>1 DEF Listed
  <2>7. ~x.failed /\ ~cfg.ldap => \A id \in IDs : Migrated(id)'
    BY <1>0, <2>2, <2>3, <2>6 DEF MigrationOK, Migrated
  <2>8. \A n \in LevelRows : Left(x, n)
    BY <2>2 DEF LevelRows, Left
  <2>9. MigrationOK(x)'
    BY <2>2, <2>3, <2>7, <2>8 DEF MigrationOK, Migrating
  <2>10. QED
    BY <2>2, <2>3, <2>4, <2>5, <2>9, ContentChange
<1>2. ASSUME NEW pc \in {"addAttr", "setLevel"}, DBChange(t, At(th[t], pc), db)
      PROVE  ContentInv'
  <2>1. PICK x : x = At(th[t], pc)
    OBVIOUS
  <2>2. x.pc = pc /\ x.snap = th[t].snap /\ x.failed = th[t].failed /\ DBChange(t, x, db)
    BY <1>0, <1>2, <2>1, AtIs
  <2>3. Grows /\ TypeInv' /\ db' = db /\ cfg' = cfg
    BY <2>2, SameGrows DEF DBChange
  <2>4. SchemaOK(x)'
    BY <1>0, <2>2, <2>3, SchemaStep DEF Opened, DBPCs
  <2>5. LoadOK(x)'
    BY <1>0, <2>2, <2>3, LoadStep DEF AfterAffiliations, AfterUsers, Migrating
  <2>6. ~x.failed /\ ~cfg.ldap => \A id \in IDs : Migrated(id)' \/ Listed(x, id)
    BY <1>0, <2>2, <2>3 DEF MigrationOK, Migrated, Listed
  <2>7. MigrationOK(x)'
    BY <2>2, <2>3, <2>6 DEF MigrationOK
  <2>8. QED
    BY <2>2, <2>3, <2>4, <2>5, <2>7, ContentChange
<1>3. QED
  BY <1>1, <1>2, TypeMigrate

\* An UPDATE that keeps or raises the levels of the rows of an identity.
LEMMA RewritesGrow ==
    ASSUME TypeInv, TypeInv', cfg' = cfg, NEW t \in Threads, NEW new, Rewrites(t, new),
           \A i \in DOMAIN new : new[i].level = 1 \/
                                 new[i].level = db.users[Head(th[t].snap).id][i].level
    PROVE  Grows /\ db'.users[Head(th[t].snap).id] = new
<1> DEFINE id == Head(th[t].snap).id
<1>1. /\ id \in IDs /\ new \in Seq(UserRow) /\ db' = [db EXCEPT !.users[id] = new]
      /\ Len(new) = Len(db.users[id]) /\ DOMAIN new = DOMAIN db.users[id]
  BY DEF Rewrites
<1>2. db.users[id] \in Seq(UserRow)
  BY <1>1, TypeParts DEF DataTyped, Database
<1> HIDE DEF id
<1>3. db.users[id] = <<>> <=> new = <<>>
  BY <1>1, <1>2
<1>4. new # <<>> => 1 \in DOMAIN new
  BY <1>1
<1>5. new # <<>> => new[1].level = 1 \/ new[1].level = db.users[id][1].level
  BY <1>4 DEF id
<1>6. Grows
  BY <1>1, <1>3, <1>5, UserGrows
<1>7. db'.users[id] = new
  BY <1>1, UsersChange
<1>8. QED
  BY <1>6, <1>7 DEF id

LEMMA FailedMigration ==
    ASSUME TypeInv, ContentInv, Grows, NEW t \in Threads, th[t].pc \in Loading, NEW d,
           \/ DBChange(t, [th[t] EXCEPT !.pc = "finish", !.failed = TRUE], d)
           \/ DBChange(t, [th[t] EXCEPT !.failed = TRUE, !.pc = "finish"], d)
    PROVE  ContentInv'
<1>1. PICK x : /\ DBChange(t, x, d)
               /\ \/ x = [th[t] EXCEPT !.pc = "finish", !.failed = TRUE]
                  \/ x = [th[t] EXCEPT !.failed = TRUE, !.pc = "finish"]
  OBVIOUS
<1>2. x.failed /\ x.pc = "finish"
  BY <1>1, Typed DEF Thread
<1>3. QED
  BY <1>1, <1>2, ContentFailed DEF Loading, Opened, DBPCs

LEMMA ContentAddAttribute ==
    ASSUME TypeInv, ContentInv, NEW t \in Threads, AddAttribute(t) PROVE ContentInv'
<1>0. /\ SchemaOK(th[t]) /\ LoadOK(th[t]) /\ MigrationOK(th[t]) /\ th[t] \in Thread
      /\ th[t].pc = "addAttr" /\ th[t].pc \in Migrating /\ th[t].pc \in Loading
  BY ContentParts, Typed, TypeAddAttribute DEF ThreadContent, Migrating, Loading, Opened, DBPCs
<1>1. TypeInv' /\ cfg' = cfg
  BY TypeAddAttribute DEF DBChange
<1>2. Grows
  BY <1>1, TypeAddAttribute, RewritesGrow
<1>3. ASSUME DBChange(t, At(th[t], "setLevel"), db') PROVE ContentInv'
  <2>1. PICK x : x = At(th[t], "setLevel")
    OBVIOUS
  <2>2. x.pc = "setLevel" /\ x.snap = th[t].snap /\ x.failed = th[t].failed
    BY <1>0, <2>1, AtIs
  <2>3. SchemaOK(x)'
    BY <1>0, <1>1, <1>2, <2>2, SchemaStep DEF Opened, DBPCs
  <2>4. LoadOK(x)'
    BY <1>0, <1>1, <1>2, <2>2, LoadStep DEF AfterAffiliations, AfterUsers, Migrating
  <2>5. ~x.failed /\ ~cfg.ldap => HasUsers
    BY <1>0, <2>2 DEF LoadOK, AfterUsers
  <2>6. ~x.failed /\ ~cfg.ldap => \A id \in IDs : Migrated(id)' \/ Listed(x, id)
    BY <1>0, <1>1, <1>2, <2>2, <2>5, UsersGrow DEF MigrationOK, Listed
  <2>7. MigrationOK(x)'
    BY <1>1, <2>2, <2>6 DEF MigrationOK
  <2>8. QED
    BY <1>2, <1>3, <2>1, <2>3, <2>4, <2>7, ContentChange
<1>4. QED
  BY <1>0, <1>2, <1>3, TypeAddAttribute, FailedMigration

LEMMA ContentSetLevel ==
    ASSUME TypeInv, ContentInv, NEW t \in Threads, SetLevel(t) PROVE ContentInv'
<1>h. PICK h : h = Head(th[t].snap).id
  OBVIOUS
<1>0. /\ SchemaOK(th[t]) /\ LoadOK(th[t]) /\ MigrationOK(th[t]) /\ th[t] \in Thread
      /\ th[t].pc = "setLevel" /\ th[t].pc \in Migrating /\ th[t].pc \in Loading
      /\ th[t].snap # <<>> /\ th[t].snap \in Seq([id : IDs, row : UserRow])
  BY ContentParts, Typed, TypeSetLevel
  DEF ThreadContent, Migrating, Loading, Opened, DBPCs, Thread
<1>1. TypeInv' /\ cfg' = cfg
  BY TypeSetLevel DEF DBChange
<1>2. PICK new : Rewrites(t, new) /\ \A i \in DOMAIN new : new[i].level = 1
  BY TypeSetLevel
<1>3. Grows /\ db'.users[h] = new
  BY <1>h, <1>1, <1>2, RewritesGrow
<1>4. Migrated(h)'
  <2>1. new \in Seq(UserRow)
    BY <1>2 DEF Rewrites
  <2>2. new # <<>> => 1 \in DOMAIN new
    BY <2>1
  <2>3. QED
    BY <1>2, <1>3, <2>2 DEF Migrated
<1>5. ASSUME DBChange(t, [th[t] EXCEPT !.pc = "user", !.snap = Tail(th[t].snap)], db')
      PROVE  ContentInv'
  <2>1. PICK x : x = [th[t] EXCEPT !.pc = "user", !.snap = Tail(th[t].snap)]
    OBVIOUS
  <2>2. x.pc = "user" /\ x.snap = Tail(th[t].snap) /\ x.failed = th[t].failed
    BY <1>0, <2>1 DEF Thread
  <2>3. SchemaOK(x)'
    BY <1>0, <1>1, <1>3, <2>2, SchemaStep DEF Opened, DBPCs
  <2>4. LoadOK(x)'
    BY <1>0, <1>1, <1>3, <2>2, LoadStep DEF AfterAffiliations, AfterUsers, Migrating
  <2>5. ~x.failed /\ ~cfg.ldap => HasUsers
    BY <1>0, <2>2 DEF LoadOK, AfterUsers
  <2>6. ASSUME ~x.failed, ~cfg.ldap, NEW id \in IDs PROVE Migrated(id)' \/ Listed(x, id)
    <3>1. Migrated(id) \/ Listed(th[t], id)
      BY <1>0, <2>2, <2>6 DEF MigrationOK
    <3>2. CASE Migrated(id)
      BY <1>1, <1>3, <2>5, <2>6, <3>2, UsersGrow
    <3>3. CASE id = h
      BY <1>4, <3>3
    <3>4. CASE id # h /\ Listed(th[t], id)
      <4>1. PICK j \in DOMAIN th[t].snap : th[t].snap[j].id = id
        BY <3>4 DEF Listed
      <4>2. th[t].snap[j] # Head(th[t].snap)
        BY <1>h, <3>4, <4>1
      <4>3. PICK i \in DOMAIN Tail(th[t].snap) : Tail(th[t].snap)[i] = th[t].snap[j]
        BY <1>0, <4>2, TailLeft
      <4>4. QED
        BY <2>2, <4>1, <4>3 DEF Listed
    <3>5. QED
      BY <3>1, <3>2, <3>3, <3>4
  <2>7. MigrationOK(x)'
    BY <1>1, <2>2, <2>6 DEF MigrationOK
  <2>8. QED
    BY <1>3, <1>5, <2>1, <2>3, <2>4, <2>7, ContentChange
<1>6. QED
  BY <1>0, <1>3, <1>5, TypeSetLevel, FailedMigration

LEMMA ContentLevels ==
    ASSUME TypeInv, ContentInv, NEW t \in Threads, UpdateDBLevel(t) PROVE ContentInv'
<1>h. PICK h : h = Head(th[t].todo)
  OBVIOUS
<1>0. /\ SchemaOK(th[t]) /\ LoadOK(th[t]) /\ MigrationOK(th[t]) /\ th[t].pc = "levels"
      /\ h \in LevelRows /\ db \in Database /\ th[t].todo \in Seq(LevelRows) \ {<<>>}
  BY <1>h, ContentParts, Typed, TypeLevels, TypeParts DEF ThreadContent, DataTyped, LocalsOK
<1>1. db' = [db EXCEPT !.props[h] = IF @ = NoLevel THEN @ ELSE ServerLevels[h]]
  BY <1>h, TypeLevels
<1>2. PICK x : Loops(t, x, "levels", "finish", <<>>) /\ DBChange(t, x, db')
  BY TypeLevels
<1>3. x.failed = th[t].failed /\ x.pc \in {"levels", "finish"} /\ TypeInv' /\ cfg' = cfg
  BY <1>2 DEF Loops, DBChange
<1>4. /\ db'.tables = db.tables /\ db'.users = db.users /\ db'.affs = db.affs
      /\ db'.props[h] = IF db.props[h] = NoLevel THEN NoLevel ELSE ServerLevels[h]
      /\ \A n \in LevelRows : n # h => db'.props[n] = db.props[n]
  BY <1>0, <1>1 DEF Database
<1>5. LevelDone(h)' /\ \A n \in LevelRows : LevelDone(n) => LevelDone(n)'
  BY <1>4 DEF LevelDone
<1>6. ServerLevels[h] # NoLevel
  BY <1>0, ServerLevelsType DEF NoLevel
<1>7. Grows
  BY <1>3, <1>4, <1>5, <1>6 DEF Grows
<1>8. SchemaOK(x)'
  BY <1>0, <1>3, <1>7, SchemaStep DEF Opened, DBPCs
<1>9. LoadOK(x)'
  BY <1>0, <1>3, <1>7, LoadStep DEF AfterAffiliations, AfterUsers, Migrating
<1>10. ASSUME ~x.failed, ~cfg.ldap, NEW n \in LevelRows
       PROVE  LevelDone(n)' \/ (x.pc = "levels" /\ Left(x, n))
  <2>1. LevelDone(n) \/ Left(th[t], n)
    BY <1>0, <1>3, <1>10 DEF MigrationOK
  <2>2. CASE LevelDone(n) \/ n = h
    BY <1>5, <2>2
  <2>3. CASE n # h /\ Left(th[t], n)
    BY <1>h, <1>0, <1>2, <2>3, LoopLeft
  <2>4. QED
    BY <2>1, <2>2, <2>3
<1>11. ~x.failed /\ ~cfg.ldap => \A id \in IDs : Migrated(id)'
  BY <1>0, <1>3, <1>4 DEF MigrationOK, Migrated
<1>12. x.pc \notin Migrating
  BY <1>3 DEF Migrating
<1>13. MigrationOK(x)'
  BY <1>3, <1>10, <1>11, <1>12 DEF MigrationOK
<1>14. QED
  BY <1>2, <1>7, <1>8, <1>9, <1>13, ContentChange

\* IsDBInitialized is set only after everything was done.
LEMMA ContentFinish ==
    ASSUME TypeInv, ContentInv, NEW t \in Threads, FinishDB(t) PROVE ContentInv'
<1>0. /\ SchemaOK(th[t]) /\ LoadOK(th[t]) /\ MigrationOK(th[t]) /\ th[t].pc = "finish"
      /\ TypeInv' /\ UNCHANGED <<cfg, db>>
  BY ContentParts, TypeFinish DEF ThreadContent
<1>1. PICK x : x = At(Idle, After(t, ~th[t].failed))
  OBVIOUS
<1>2. Moves(t, x)
  BY <1>1, TypeFinish
<1>3. ThreadContent(x)'
  <2>1. x.pc = After(t, ~th[t].failed)
    BY <1>1, IdleIs
  <2>2. x.pc \notin DBPCs
    BY <2>1 DEF After, DBPCs
  <2>3. QED
    BY <2>2, OutsideDB
<1>4. ~th[t].failed => ReadyContent
  BY <1>0 DEF SchemaOK, LoadOK, MigrationOK, ReadyContent, Complete, AfterUsers,
     AfterAffiliations, Opened, DBPCs
<1>5. ASSUME NEW s \in Servers, ca'[s].ready PROVE ca[s].ready \/ ReadyContent
  <2>1. PICK c : /\ ca' = [ca EXCEPT ![Host(t)] = c]
                 /\ c = [ca[Host(t)] EXCEPT !.ready = ~th[t].failed]
    BY TypeFinish
  <2>2. c.ready = ~th[t].failed
    BY <2>1, Typed DEF CAObject
  <2>3. QED
    BY <1>4, <1>5, <2>1, <2>2, Typed
<1>6. QED
  BY <1>0, <1>2, <1>3, <1>5, SameGrows, ContentFrame

LEMMA ContentFails ==
    ASSUME TypeInv, ContentInv, NEW t \in Threads, StepFails(t) PROVE ContentInv'
<1> DEFINE pc == th[t].pc
<1>0. /\ TypeInv' /\ UNCHANGED <<cfg, db, removed>> /\ Host(t) \in Servers /\ th[t] \in Thread
      /\ t \in Servers => Host(t) = t
  BY TypeFails, Typed
<1>1. Grows
  BY <1>0, SameGrows
<1>2. Outside => ContentInv'
  BY <1>0, ContentElsewhere DEF Elsewhere
<1>3. Exit(Host(t)) \/ Closes(t) \/ GivesUp(t) \/ Drops(t) => ContentInv'
  BY <1>0, <1>2, OutsideExit, OutsideCloses, OutsideGivesUp, OutsideDrops, ContentElsewhere
<1>4. pc = "lookup" /\ DBChange(t, At(th[t], "insert"), db) => ContentInv'
  BY ContentGoesOn
<1>5. {"lookup", "insert", "affs", "snapshot", "addAttr", "setLevel", "levels", "finish"}
        \subseteq Loading
  BY DEF Loading, Opened, DBPCs
<1>6. ASSUME pc = "insert", DBChange(t, [th[t] EXCEPT !.failed = TRUE, !.pc = "affs",
                                               !.todo = Affiliations], db)
      PROVE  ContentInv'
  <2>1. PICK x : x = [th[t] EXCEPT !.failed = TRUE, !.pc = "affs", !.todo = Affiliations]
    OBVIOUS
  <2>2. x.failed /\ x.pc = "affs"
    BY <1>0, <2>1 DEF Thread
  <2>3. QED
    BY <1>1, <1>5, <1>6, <2>1, <2>2, ContentFailed
<1>7. ASSUME pc = "affs", DBChange(t, [th[t] EXCEPT !.failed = TRUE, !.pc = "snapshot",
                                              !.todo = <<>>], db)
      PROVE  ContentInv'
  <2>1. PICK x : x = [th[t] EXCEPT !.failed = TRUE, !.pc = "snapshot", !.todo = <<>>]
    OBVIOUS
  <2>2. x.failed /\ x.pc = "snapshot"
    BY <1>0, <2>1 DEF Thread
  <2>3. QED
    BY <1>1, <1>5, <1>7, <2>1, <2>2, ContentFailed
<1>8. ASSUME pc \in {"snapshot", "addAttr", "setLevel", "levels"},
             DBChange(t, [th[t] EXCEPT !.failed = TRUE, !.pc = "finish"], db)
      PROVE  ContentInv'
  BY <1>1, <1>5, <1>8, FailedMigration
<1>9. QED
  BY <1>0, <1>3, <1>4, <1>6, <1>7, <1>8, TypeFails

LEMMA ContentServe ==
    ASSUME TypeInv, ContentInv, NEW t \in Handlers, Serve(t) PROVE ContentInv'
<1>0. /\ t \in Threads /\ TypeInv' /\ UNCHANGED <<cfg, ca>> /\ Moves(t, At(th[t], "idle"))
  BY TypeServe DEF Threads
<1>1. Grows
  <2>1. ASSUME NEW id \in IDs, Len(db.users[id]) = 1, NEW row \in UserRow, row.level = 1,
               db' = [db EXCEPT !.users[id] = <<row>>]
        PROVE  Grows
    <3>1. PICK q : q = <<row>>
      OBVIOUS
    <3>2. q \in Seq(UserRow) /\ q # <<>> /\ q[1] = row
      BY <2>1, <3>1
    <3>3. db.users[id] # <<>>
      <4>1. db.users[id] = <<>> => Len(db.users[id]) = 0
        BY Zenon, EmptySeq
      <4>2. QED
        BY <2>1, <4>1
    <3>4. QED
      BY <1>0, <2>1, <3>1, <3>2, <3>3, UserGrows
  <2>2. QED
    BY <1>0, <2>1, TypeServe, SameGrows
<1>2. PICK x : x = At(th[t], "idle")
  OBVIOUS
<1>3. x.pc \notin DBPCs
  BY <1>0, <1>2, Typed, AtIs, NotInDB
<1>4. ThreadContent(x)'
  BY <1>3, OutsideDB
<1>5. QED
  BY <1>0, <1>1, <1>2, <1>4, ContentFrame

LEMMA ContentInit == Init => ContentInv
<1>1. SUFFICES ASSUME Init PROVE ContentInv
  OBVIOUS
<1>2. ASSUME NEW t \in Threads PROVE SchemaOK(th[t]) /\ LoadOK(th[t]) /\ MigrationOK(th[t])
  <2>1. th[t].pc = "idle"
    BY <1>1 DEF Init, Idle
  <2>2. "idle" \notin DBPCs \cup Opened \cup AfterUsers \cup AfterAffiliations \cup Migrating
    BY DEF DBPCs, Opened, AfterUsers, AfterAffiliations, Migrating
  <2>3. QED
    BY <2>1, <2>2 DEF SchemaOK, LoadOK, MigrationOK
<1>3. \A s \in Servers : ~ca[s].ready
  BY <1>1 DEF Init, NewCA
<1>4. QED
  BY <1>2, <1>3 DEF ContentInv

LEMMA ContentNext ==
    ASSUME TypeInv, Control, ContentInv, [Next]_vars PROVE ContentInv'
<1>1. ASSUME NEW t \in Threads, Step(t) PROVE ContentInv'
  <2>1. CASE Content(t)
    BY <2>1, ContentSQLiteTables, ContentTables, ContentSQLiteSchema, ContentSchemaSteps,
       ContentCheck, ContentLookup, ContentInsert, ContentAffiliation, ContentSnapshot,
       ContentMigrate, ContentAddAttribute, ContentSetLevel, ContentLevels
    DEF Content
  <2>2. CASE InitDB(t) \/ LockDB(t) \/ OpenDB(t) \/ SetAccessors(t) \/ FinishDB(t)
    BY <2>2, InitDBElsewhere, ContentElsewhere, ContentLockDB, ContentOpenDB, ContentAccessors,
       ContentFinish
  <2>3. CASE \/ InitIssuer(t) \/ LockIssuer(t) \/ IssuerKeyMaterial(t) \/ StoreIssuerKey(t)
             \/ RevocationKeyMaterial(t) \/ StoreRevocationKey(t) \/ GetRAInfo(t) \/ AddRAInfo(t)
    BY <2>3, IssuerElsewhere, ContentElsewhere
  <2>4. QED
    BY <1>1, <2>1, <2>2, <2>3 DEF Step, Content
<1>2. ASSUME NEW s \in Servers, Start(s) \/ MainStep(s) \/ Crash(s) PROVE ContentInv'
  <2>1. s \in Threads
    BY DEF Threads
  <2>2. QED
    BY <1>1, <1>2, <2>1, StartsElsewhere, WritesElsewhere, CrashElsewhere, ContentElsewhere
    DEF MainStep
<1>3. ASSUME NEW h \in Handlers, Request(h) \/ HandlerStep(h) PROVE ContentInv'
  <2>1. h \in Threads
    BY DEF Threads
  <2>2. QED
    BY <1>1, <1>3, <2>1, RequestsElsewhere, ContentElsewhere, ContentServe DEF HandlerStep
<1>4. ASSUME NEW t \in Threads, StepFails(t) PROVE ContentInv'
  BY <1>4, ContentFails
<1>5. CASE UNCHANGED vars
  BY <1>5 DEF vars, ContentInv, SchemaOK, LoadOK, MigrationOK, Complete, HasLevel, HasLevels,
     LevelDone, Migrated, HasUsers, HasAffiliations, Left, Listed
<1>6. QED
  BY <1>2, <1>3, <1>4, <1>5 DEF Next

\* Whatever attempts to initialize the database failed, in whichever process
\* of the cluster, and whatever the others do to it at the same time: when a
\* request is served initDB has finished, and everything it has to do is done.
THEOREM StartupServedDatabaseIsComplete == Spec => []ServedDatabaseIsComplete
<1>1. TypeInv /\ Control /\ ContentInv => ServedDatabaseIsComplete
  <2>1. SUFFICES ASSUME TypeInv, Control, ContentInv, NEW h \in Handlers,
                        th[h].pc = "serving", ~cfg.ldap
                 PROVE  /\ \A i \in DOMAIN Bootstrap : db.users[Bootstrap[i]] # <<>>
                        /\ \A i \in DOMAIN Affiliations : Affiliations[i] \in db.affs
                        /\ \A id \in IDs : db.users[id] # <<>> => db.users[id][1].level = 1
                        /\ db.tables = AllTables
                        /\ \A n \in LevelRows : db.props[n] \in {ServerLevels[n], NoLevel}
    BY DEF ServedDatabaseIsComplete
  <2>2. h \in Threads /\ Host(h) \in Servers
    BY <2>1, Typed DEF Threads
  <2>3. ca[Host(h)].ready
    BY <2>1, <2>2 DEF Control, ThreadOK
  <2>4. Complete /\ db.tables = AllTables
    BY <2>1, <2>2, <2>3 DEF ContentInv
  <2>5. QED
    BY <2>4 DEF Complete, HasUsers, HasAffiliations, Migrated, LevelDone, BootstrapIDs,
       AffiliationsOfConfig
<1>2. Spec => [](TypeInv /\ Control /\ ContentInv)
  BY TypeInit, TypeNext, ControlInit, ControlNext, ContentInit, ContentNext, PTL DEF Spec, Safety
<1>3. QED
  BY <1>1, <1>2, PTL
-----------------------------------------------------------------------------
(* Grants.                                                                 *)

LEMMA OneServer == ASSUME TypeInv, ~Clustered PROVE OneHost
<1> DEFINE S == {cfg.host[h] : h \in Handlers}
<1>1. IsFiniteSet(S)
  <2> DEFINE f == [h \in Handlers |-> cfg.host[h]]
  <2>1. f \in Surjection(Handlers, S)
    BY DEF Surjection
  <2> HIDE DEF f, S
  <2>2. QED
    BY <2>1, FS_Surjection, StartupConstantsOK
<1>2. ASSUME NEW g \in Handlers, NEW h \in Handlers, cfg.host[g] # cfg.host[h] PROVE FALSE
  <2>1. PICK a, b : a = cfg.host[g] /\ b = cfg.host[h]
    OBVIOUS
  <2>2. {a} \cup {b} \in SUBSET S
    BY <2>1
  <2>3. Cardinality({a} \cup {b}) = 2
    <3>1. IsFiniteSet({a}) /\ Cardinality({a}) = 1
      BY FS_Singleton, Zenon
    <3>2. b \notin {a}
      BY <1>2, <2>1
    <3>3. Cardinality({a} \cup {b}) = Cardinality({a}) + 1
      BY <3>1, <3>2, FS_AddElement, Zenon
    <3>4. QED
      BY <3>1, <3>3
  <2>4. Cardinality(S) \in Nat /\ ~(Cardinality(S) > 1)
    BY <1>1, FS_CardinalityType DEF Clustered
  <2> HIDE DEF S
  <2>5. Cardinality({a} \cup {b}) <= Cardinality(S)
    BY <1>1, <2>2, FS_Subset
  <2>6. QED
    BY <2>3, <2>4, <2>5
<1>3. \A h \in Handlers : Host(h) = cfg.host[h]
  BY StartupConstantsOK DEF Host
<1>4. QED
  BY <1>2, <1>3 DEF OneHost

\* What a step may do to an identity that has lost the attribute: nothing, as
\* long as the identity has one row.
Spares ==
    /\ UNCHANGED <<cfg, removed>>
    /\ \A id \in removed : db.users[id] # <<>> =>
         /\ db'.users[id] # <<>>
         /\ Len(db'.users[id]) = 1 => db'.users[id] = db.users[id]
    /\ db.props["identity"] = ServerLevels["identity"] =>
         db'.props["identity"] = ServerLevels["identity"]

\* The migration of x is not going to touch such an identity.
SnapOK(x) ==
    x.pc \in Migrating =>
        \A j \in DOMAIN x.snap : x.snap[j].id \in removed => Len(db.users[x.snap[j].id]) # 1

LEMMA GrantParts ==
    GrantInv <=> (~Clustered =>
        /\ \A id \in removed :
             /\ db.users[id] # <<>>
             /\ Len(db.users[id]) = 1 =>
                  db.users[id][1].level = 1 /\ ~db.users[id][1].attrs
        /\ removed # {} /\ cfg.driver = "sqlite3" =>
             db.props["identity"] = ServerLevels["identity"]
        /\ \A t \in Threads : SnapOK(th[t]))
  BY DEF GrantInv, SnapOK

LEMMA SnapSpared ==
    ASSUME ~Clustered, GrantInv, Spares, NEW x, SnapOK(x) PROVE SnapOK(x)'
<1>1. ASSUME x.pc \in Migrating, NEW j \in DOMAIN x.snap, x.snap[j].id \in removed
      PROVE  Len(db'.users[x.snap[j].id]) # 1
  BY <1>1 DEF SnapOK, Spares, GrantInv
<1>2. QED
  BY <1>1 DEF SnapOK, Spares

LEMMA GrantFrame ==
    ASSUME GrantInv, Spares,
           \A u \in Threads : th'[u] = th[u] \/ (~Clustered => SnapOK(th'[u]))
    PROVE  GrantInv'
<1>1. Clustered' = Clustered /\ removed' = removed /\ cfg' = cfg
  BY DEF Spares, Clustered
<1>2. SUFFICES ASSUME ~Clustered
               PROVE  /\ \A id \in removed :
                           /\ db'.users[id] # <<>>
                           /\ Len(db'.users[id]) = 1 =>
                                db'.users[id][1].level = 1 /\ ~db'.users[id][1].attrs
                      /\ removed # {} /\ cfg.driver = "sqlite3" =>
                           db'.props["identity"] = ServerLevels["identity"]
                      /\ \A t \in Threads : SnapOK(th[t])'
  BY <1>1 DEF GrantInv, SnapOK
<1>3. \A id \in removed :
        /\ db'.users[id] # <<>>
        /\ Len(db'.users[id]) = 1 => db'.users[id][1].level = 1 /\ ~db'.users[id][1].attrs
  BY <1>2 DEF GrantInv, Spares
<1>4. removed # {} /\ cfg.driver = "sqlite3" =>
        db'.props["identity"] = ServerLevels["identity"]
  BY <1>2 DEF GrantInv, Spares
<1>5. ASSUME NEW t \in Threads PROVE SnapOK(th[t])'
  <2>1. PICK y : y = th'[t]
    OBVIOUS
  <2>2. SnapOK(y)
    BY <1>2, <2>1, GrantParts
  <2>3. SnapOK(y)'
    BY <1>2, <2>2, SnapSpared
  <2>4. QED
    BY <2>1, <2>3 DEF SnapOK
<1>6. QED
  BY <1>3, <1>4, <1>5

LEMMA GrantMove ==
    ASSUME TypeInv, GrantInv, Spares, NEW t \in Threads, NEW x, Moves(t, x),
           ~Clustered => SnapOK(x)
    PROVE  GrantInv'
  BY Moved, GrantFrame

LEMMA NotMigrating == ASSUME NEW x, x.pc \notin Migrating PROVE SnapOK(x)
  BY DEF SnapOK

LEMMA SameSpares ==
    ASSUME UNCHANGED <<cfg, removed>>, db'.users = db.users, db'.props = db.props
    PROVE  Spares
  BY DEF Spares

LEMMA GrantElsewhere == ASSUME TypeInv, GrantInv, Elsewhere PROVE GrantInv'
<1>0. db \in Database
  BY TypeParts DEF DataTyped
<1>1. db'.users = db.users /\ db'.props = db.props
  BY <1>0 DEF Elsewhere, Database
<1>2. Spares
  BY <1>1, SameSpares DEF Elsewhere
<1>3. \A u \in Threads : th'[u] = th[u] \/ SnapOK(th'[u])
  <2>1. Migrating \subseteq DBPCs
    BY DEF Migrating, DBPCs
  <2>2. QED
    BY <2>1, NotMigrating DEF Elsewhere, Outside
<1>4. QED
  BY <1>2, <1>3, GrantFrame

\* A step of initDB before or after the migration, which keeps what the
\* invariant is about.
LEMMA GrantQuiet ==
    ASSUME TypeInv, GrantInv, NEW t \in Threads, NEW x, NEW d, DBChange(t, x, d),
           d.users = db.users, d.props = db.props, x.pc \notin Migrating
    PROVE  GrantInv'
<1>1. Spares
  BY SameSpares DEF DBChange
<1>2. QED
  BY <1>1, NotMigrating, GrantMove DEF DBChange

LEMMA GrantSetup ==
    ASSUME TypeInv, GrantInv, NEW t \in Threads,
           \/ LockDB(t) \/ CreateSQLiteTables(t) \/ CreatePostgresTables(t)
           \/ CreateMySQLTables(t) \/ AlterTables(t) \/ UpdateSchemaRest(t) \/ SetAccessors(t)
           \/ CheckDBLevels(t)
    PROVE  GrantInv'
<1>0. th[t] \in Thread /\ db \in Database /\ \A pc : At(th[t], pc).pc = pc
  BY Typed, TypeParts, AtIs DEF DataTyped
<1>m. \A pc \in {"createTables", "open", "schemaRest", "accessors", "check", "finish", "lookup",
                 "signer", "issuer", "idle"} : pc \notin Migrating
  BY DEF Migrating
<1>x. ASSUME NEW x, Moves(t, x), x.pc \notin Migrating, UNCHANGED <<cfg, db, removed>>
      PROVE  GrantInv'
  BY <1>x, NotMigrating, SameSpares, GrantMove
<1>1. CASE LockDB(t)
  <2>0. UNCHANGED <<cfg, db, removed>>
    BY <1>1, TypeLockDB
  <2>1. [th[t] EXCEPT !.pc = "createTables", !.todo = DataTables].pc = "createTables"
    BY <1>0 DEF Thread
  <2>2. At(Idle, After(t, TRUE)).pc = After(t, TRUE) /\ After(t, TRUE) \in {"signer", "issuer"}
    BY IdleIs DEF After
  <2>3. QED
    BY <1>m, <1>x, <1>1, <2>0, <2>1, <2>2, TypeLockDB
<1>2. CASE CreateSQLiteTables(t)
  <2>1. [th[t] EXCEPT !.pc = "open", !.todo = <<>>].pc = "open"
    BY <1>0 DEF Thread
  <2>2. /\ WithTables(AllTables).users = db.users /\ WithTables(AllTables).props = db.props
    BY WithTablesType
  <2>3. QED
    BY <1>m, <1>2, <2>1, <2>2, TypeSQLiteTables, GrantQuiet
<1>3. CASE CreatePostgresTables(t) \/ CreateMySQLTables(t)
  <2>1. PICK x : /\ Loops(t, x, "createTables", "open", <<>>)
                 /\ DBChange(t, x, WithTables({Head(th[t].todo)}))
    BY <1>3, TypeTables
  <2>2. x.pc \in {"createTables", "open"}
    BY <2>1 DEF Loops
  <2>3. th[t].pc = "createTables" /\ th[t].todo \in Seq(AllTables) \ {<<>>}
    BY <1>3, TypeTables, Typed DEF LocalsOK
  <2>4. Head(th[t].todo) \in AllTables
    BY <2>3, TailSeq
  <2>5. /\ WithTables({Head(th[t].todo)}).users = db.users
        /\ WithTables({Head(th[t].todo)}).props = db.props
    BY <2>4, WithTablesType
  <2>6. QED
    BY <1>m, <2>1, <2>2, <2>5, GrantQuiet
<1>4. CASE AlterTables(t)
  <2>1. PICK d : d = [db EXCEPT !.column = TRUE]
    OBVIOUS
  <2>2. d.users = db.users /\ d.props = db.props
    BY <1>0, <2>1 DEF Database
  <2>3. DBChange(t, At(th[t], "schemaRest"), d)
    BY <1>4, <2>1, TypeAlterTables
  <2>4. At(th[t], "schemaRest").pc \notin Migrating
    BY <1>0, <1>m
  <2>5. QED
    BY <2>2, <2>3, <2>4, GrantQuiet
<1>5. CASE UpdateSchemaRest(t)
  BY <1>0, <1>m, <1>5, TypeSchemaRest, GrantQuiet
<1>6. CASE SetAccessors(t)
  <2>1. PICK pc \in {"finish", "check"} : Moves(t, At(th[t], pc))
    BY <1>6, TypeAccessors
  <2>2. QED
    BY <1>0, <1>m, <1>x, <1>6, <2>1, TypeAccessors
<1>7. CASE CheckDBLevels(t)
  <2>1. [th[t] EXCEPT !.pc = "lookup", !.todo = Bootstrap].pc = "lookup"
    BY <1>0 DEF Thread
  <2>2. QED
    BY <1>m, <1>7, <2>1, TypeCheck, GrantQuiet
<1>8. QED
  BY <1>1, <1>2, <1>3, <1>4, <1>5, <1>6, <1>7

LEMMA Identity == "identity" \in LevelRows /\ ServerLevels["identity"] # NoLevel
<1>1. "identity" \in LevelRows
  BY Rows
<1>2. QED
  BY <1>1, ServerLevelsType DEF NoLevel

\* The levels are set to 0 only when none of them is there.
LEMMA GrantOpenDB == ASSUME TypeInv, GrantInv, NEW t \in Threads, OpenDB(t) PROVE GrantInv'
<1> DEFINE p == IF \A n \in LevelRows : db.props[n] = NoLevel THEN [n \in LevelRows |-> 0]
                                                             ELSE db.props
<1>0. /\ UNCHANGED <<cfg, removed>> /\ Moves(t, At(th[t], "schema"))
      /\ db \in Database /\ th[t] \in Thread
  BY TypeOpenDB, TypeParts, Typed DEF DataTyped
<1>1. db' = [db EXCEPT !.props = p]
  BY TypeOpenDB
<1>2. db'.users = db.users /\ db'.props = p
  <2> HIDE DEF p
  <2>1. QED
    BY <1>0, <1>1 DEF Database
<1>3. db.props["identity"] = ServerLevels["identity"] => db'.props = db.props
  BY <1>2, Identity
<1>4. Spares
  BY <1>0, <1>2, <1>3 DEF Spares
<1>5. At(th[t], "schema").pc \notin Migrating
  BY <1>0, AtIs DEF Migrating
<1>6. QED
  BY <1>0, <1>4, <1>5, NotMigrating, GrantMove

\* The copy of the users table resets the levels only below the current one.
LEMMA GrantSQLiteSchema ==
    ASSUME TypeInv, GrantInv, NEW t \in Threads, UpdateSQLiteSchema(t) PROVE GrantInv'
<1>1. CASE GivesUp(t)
  BY <1>1, OutsideGivesUp, GrantElsewhere
<1>2. CASE /\ DBChange(t, At(th[t], "schemaRest"), db') /\ db'.props = db.props
           /\ db.props["identity"] >= ServerLevels["identity"] => db' = db
  <2>1. At(th[t], "schemaRest").pc \notin Migrating
    BY Typed, AtIs DEF Migrating
  <2>2. cfg.driver = "sqlite3" /\ UNCHANGED <<cfg, removed>>
    BY <1>2, TypeSQLiteSchema DEF DBChange
  <2>3. CASE Clustered
    BY <2>2, <2>3 DEF GrantInv, Clustered
  <2>4. CASE ~Clustered /\ removed # {}
    <3>1. db.props["identity"] = ServerLevels["identity"]
      BY <2>2, <2>4 DEF GrantInv
    <3>2. ServerLevels["identity"] \in Int
      BY ServerLevelsType, Identity
    <3>3. db' = db
      BY <1>2, <3>1, <3>2
    <3>4. QED
      BY <1>2, <2>1, <3>3, GrantQuiet
  <2>5. CASE removed = {}
    <3>1. Spares
      BY <1>2, <2>2, <2>5 DEF Spares
    <3>2. QED
      BY <1>2, <2>1, <3>1, NotMigrating, GrantMove DEF DBChange
  <2>6. QED
    BY <2>3, <2>4, <2>5
<1>3. QED
  BY <1>1, <1>2, TypeSQLiteSchema

LEMMA GrantLookup == ASSUME TypeInv, GrantInv, NEW t \in Threads, LookupUser(t) PROVE GrantInv'
<1>0. TypeInv' /\ UNCHANGED <<cfg, db, removed>> /\ th[t] \in Thread
  BY TypeLookup, Typed
<1>1. GivesUp(t) => GrantInv'
  BY OutsideGivesUp, GrantElsewhere
<1>2. t \in Servers /\ Exit(t) => GrantInv'
  BY <1>0, OutsideExit, GrantElsewhere DEF Elsewhere
<1>3. \A pc \in {"insert", "lookup", "affs"} : pc \notin Migrating
  BY DEF Migrating
<1>4. DBChange(t, At(th[t], "insert"), db) => GrantInv'
  BY <1>0, <1>3, AtIs, GrantQuiet
<1>5. ASSUME NEW x, DBChange(t, x, db), Loops(t, x, "lookup", "affs", Affiliations)
      PROVE  GrantInv'
  <2>1. x.pc \in {"lookup", "affs"}
    BY <1>5 DEF Loops
  <2>2. QED
    BY <1>3, <1>5, <2>1, GrantQuiet
<1>6. QED
  BY <1>1, <1>2, <1>4, <1>5, TypeLookup

\* A second row for an identity that is there.
LEMMA GrantInsert == ASSUME TypeInv, GrantInv, NEW t \in Threads, InsertUser(t) PROVE GrantInv'
<1>h. PICK id : id = Head(th[t].todo)
  OBVIOUS
<1>0. th[t] \in Thread /\ \A pc \in {"lookup", "affs"} : pc \notin Migrating
  BY Typed DEF Migrating
<1>1. ASSUME DBChange(t, [th[t] EXCEPT !.failed = TRUE, !.pc = "affs", !.todo = Affiliations], db)
      PROVE  GrantInv'
  <2>1. [th[t] EXCEPT !.failed = TRUE, !.pc = "affs", !.todo = Affiliations].pc = "affs"
    BY <1>0 DEF Thread
  <2>2. QED
    BY <1>0, <1>1, <2>1, GrantQuiet
<1>2. ASSUME NEW x, Loops(t, x, "lookup", "affs", Affiliations), DBChange(t, x, db'),
             id \in BootstrapIDs, NEW row \in UserRow,
             db' = [db EXCEPT !.users[id] = Append(@, row)]
      PROVE  GrantInv'
  <2>0. id \in IDs /\ UNCHANGED <<cfg, removed>> /\ Moves(t, x) /\ removed \subseteq IDs
    BY <1>2, Constants, TypeParts DEF DBChange, DataTyped
  <2>1. db.users \in [IDs -> Seq(UserRow)] /\ db.users[id] \in Seq(UserRow)
    BY <2>0, TypeParts DEF DataTyped, Database
  <2>2. PICK q : q = Append(db.users[id], row)
    OBVIOUS
  <2>3. q \in Seq(UserRow) /\ q # <<>> /\ (db.users[id] # <<>> => Len(q) # 1)
    BY <2>1, <2>2
  <2>4. db' = [db EXCEPT !.users[id] = q]
    BY <1>2, <2>2
  <2>5. /\ db'.users[id] = q /\ \A i \in IDs : i # id => db'.users[i] = db.users[i]
        /\ db'.props = db.props
    BY <2>0, <2>3, <2>4, UsersChange
  <2>6. Spares
    BY <2>0, <2>3, <2>5 DEF Spares
  <2>7. x.pc \in {"lookup", "affs"}
    BY <1>2 DEF Loops
  <2>8. QED
    BY <1>0, <2>0, <2>6, <2>7, NotMigrating, GrantMove
<1>3. QED
  BY <1>h, <1>1, <1>2, TypeInsert

LEMMA GrantAffiliation ==
    ASSUME TypeInv, GrantInv, NEW t \in Threads, LoadAffiliation(t) PROVE GrantInv'
<1>1. PICK x : Loops(t, x, "affs", "snapshot", <<>>) /\ DBChange(t, x, db')
  BY TypeAffiliation
<1>2. x.pc \notin Migrating
  BY <1>1 DEF Loops, Migrating
<1>3. db'.users = db.users /\ db'.props = db.props
  BY TypeAffiliation, TypeParts DEF DataTyped, Database
<1>4. Spares
  BY <1>1, <1>3, SameSpares DEF DBChange
<1>5. QED
  BY <1>1, <1>2, <1>4, NotMigrating, GrantMove DEF DBChange

\* The row of an identity that lost the attribute has the current level: the
\* migration does not list it.
LEMMA GrantSnapshot ==
    ASSUME TypeInv, GrantInv, NEW t \in Threads, GetUserLessThanLevel(t) PROVE GrantInv'
<1>0. th[t] \in Thread /\ db.users \in [IDs -> Seq(UserRow)]
  BY Typed, TypeParts DEF DataTyped, Database
<1>1. PICK snap \in Seq([id : IDs, row : UserRow]) :
        /\ DBChange(t, [th[t] EXCEPT !.pc = "user", !.snap = snap], db)
        /\ \A j \in DOMAIN snap : \E i \in DOMAIN db.users[snap[j].id] :
             db.users[snap[j].id][i].level < 1
  BY TypeSnapshot
<1>2. PICK x : x = [th[t] EXCEPT !.pc = "user", !.snap = snap]
  OBVIOUS
<1>3. x.snap = snap /\ DBChange(t, x, db)
  BY <1>0, <1>1, <1>2 DEF Thread
<1>4. ASSUME ~Clustered, NEW j \in DOMAIN snap, snap[j].id \in removed, Len(db.users[snap[j].id]) = 1
      PROVE  FALSE
  <2>1. PICK id : id = snap[j].id
    OBVIOUS
  <2>2. db.users[id][1].level = 1
    BY <1>4, <2>1 DEF GrantInv
  <2>3. PICK i \in DOMAIN db.users[id] : db.users[id][i].level < 1
    BY <1>1, <1>4, <2>1
  <2>4. id \in IDs
    BY <1>4, <2>1, TypeParts DEF DataTyped
  <2>5. i = 1
    BY <1>0, <1>4, <2>1, <2>3, <2>4
  <2>6. QED
    BY <2>2, <2>3, <2>5
<1>5. ~Clustered => SnapOK(x)
  BY <1>3, <1>4 DEF SnapOK
<1>6. Spares
  BY <1>3, SameSpares DEF DBChange
<1>7. QED
  BY <1>3, <1>5, <1>6, GrantMove DEF DBChange

LEMMA GrantMigrate ==
    ASSUME TypeInv, GrantInv, NEW t \in Threads, MigrateUser(t) PROVE GrantInv'
<1>0. th[t] \in Thread /\ th[t].pc \in Migrating
  BY Typed, TypeMigrate DEF Migrating
<1>1. ASSUME DBChange(t, [th[t] EXCEPT !.pc = "levels", !.todo = LevelNames], db)
      PROVE  GrantInv'
  <2>1. [th[t] EXCEPT !.pc = "levels", !.todo = LevelNames].pc = "levels"
    BY <1>0 DEF Thread
  <2>2. QED
    BY <1>1, <2>1, GrantQuiet DEF Migrating
<1>2. ASSUME NEW pc, DBChange(t, At(th[t], pc), db) PROVE GrantInv'
  <2>1. At(th[t], pc).snap = th[t].snap
    BY <1>0, AtIs
  <2>2. ~Clustered => SnapOK(At(th[t], pc))
    BY <1>0, <2>1, GrantParts DEF SnapOK
  <2>3. Spares
    BY <1>2, SameSpares DEF DBChange
  <2>4. QED
    BY <1>2, <2>2, <2>3, GrantMove DEF DBChange
<1>3. QED
  BY <1>1, <1>2, TypeMigrate

\* The identity at the head of the list is not one that lost the attribute,
\* or has several rows.
LEMMA GrantRewrites ==
    ASSUME TypeInv, GrantInv, NEW t \in Threads, th[t].pc \in Migrating, th[t].snap # <<>>,
           NEW new, Rewrites(t, new), UNCHANGED <<cfg, removed>>, ~Clustered
    PROVE  Spares
<1>h. PICK id : id = Head(th[t].snap).id
  OBVIOUS
<1>0. /\ th[t] \in Thread /\ th[t].snap \in Seq([id : IDs, row : UserRow])
      /\ db.users \in [IDs -> Seq(UserRow)] /\ removed \subseteq IDs
  BY Typed, TypeParts DEF DataTyped, Database, Thread
<1>1. /\ id \in IDs /\ new \in Seq(UserRow) /\ db' = [db EXCEPT !.users[id] = new]
      /\ Len(new) = Len(db.users[id])
  BY <1>h DEF Rewrites
<1>2. /\ db'.users[id] = new /\ \A i \in IDs : i # id => db'.users[i] = db.users[i]
      /\ db'.props = db.props
  BY <1>1, UsersChange
<1>3. Head(th[t].snap) = th[t].snap[1] /\ 1 \in DOMAIN th[t].snap
  BY <1>0
<1>4. id \in removed => Len(db.users[id]) # 1
  BY <1>h, <1>3 DEF GrantInv
<1>5. db.users[id] # <<>> => new # <<>>
  <2>1. db.users[id] \in Seq(UserRow)
    BY <1>0, <1>1
  <2>2. QED
    BY <1>1, <2>1
<1>6. QED
  BY <1>0, <1>1, <1>2, <1>4, <1>5 DEF Spares

LEMMA GrantUpdates ==
    ASSUME TypeInv, GrantInv, NEW t \in Threads, AddAttribute(t) \/ SetLevel(t) PROVE GrantInv'
<1>0. /\ th[t] \in Thread /\ th[t].pc \in Migrating /\ th[t].snap # <<>>
      /\ th[t].snap \in Seq([id : IDs, row : UserRow])
  BY Typed, TypeAddAttribute, TypeSetLevel DEF Migrating, Thread
<1>1. UNCHANGED <<cfg, removed>> /\ \E new : Rewrites(t, new)
  BY TypeAddAttribute, TypeSetLevel DEF DBChange
<1>2. CASE Clustered
  BY <1>1, <1>2 DEF GrantInv, Clustered
<1>3. CASE ~Clustered
  <2>0. SnapOK(th[t])
    BY <1>3, GrantParts
  <2>1. Spares
    BY <1>0, <1>1, <1>3, GrantRewrites
  <2>2. ASSUME DBChange(t, At(th[t], "setLevel"), db') PROVE GrantInv'
    <3>1. At(th[t], "setLevel").snap = th[t].snap
      BY <1>0, AtIs
    <3>2. SnapOK(At(th[t], "setLevel"))
      BY <1>0, <2>0, <3>1 DEF SnapOK
    <3>3. QED
      BY <2>1, <2>2, <3>2, GrantMove DEF DBChange
  <2>3. ASSUME DBChange(t, [th[t] EXCEPT !.pc = "user", !.snap = Tail(th[t].snap)], db')
        PROVE  GrantInv'
    <3>1. PICK x : x = [th[t] EXCEPT !.pc = "user", !.snap = Tail(th[t].snap)]
      OBVIOUS
    <3>2. x.snap = Tail(th[t].snap)
      BY <1>0, <3>1 DEF Thread
    <3>3. \A i \in DOMAIN Tail(th[t].snap) : \E j \in DOMAIN th[t].snap :
            Tail(th[t].snap)[i] = th[t].snap[j]
      BY <1>0
    <3>4. SnapOK(x)
      BY <1>0, <2>0, <3>2, <3>3 DEF SnapOK
    <3>5. QED
      BY <2>1, <2>3, <3>1, <3>4, GrantMove DEF DBChange
  <2>4. ASSUME DBChange(t, [th[t] EXCEPT !.pc = "finish", !.failed = TRUE], db')
        PROVE  GrantInv'
    <3>1. PICK x : x = [th[t] EXCEPT !.pc = "finish", !.failed = TRUE]
      OBVIOUS
    <3>2. x.pc \notin Migrating
      BY <1>0, <3>1 DEF Thread, Migrating
    <3>3. QED
      BY <2>1, <2>4, <3>1, <3>2, NotMigrating, GrantMove DEF DBChange
  <2>5. QED
    BY <2>2, <2>3, <2>4, TypeAddAttribute, TypeSetLevel
<1>4. QED
  BY <1>2, <1>3

LEMMA GrantLevels == ASSUME TypeInv, GrantInv, NEW t \in Threads, UpdateDBLevel(t) PROVE GrantInv'
<1>h. PICK h : h = Head(th[t].todo)
  OBVIOUS
<1>0. db \in Database /\ h \in LevelRows
  BY <1>h, TypeLevels, TypeParts DEF DataTyped
<1>1. db' = [db EXCEPT !.props[h] = IF @ = NoLevel THEN @ ELSE ServerLevels[h]]
  BY <1>h, TypeLevels
<1>2. PICK x : Loops(t, x, "levels", "finish", <<>>) /\ DBChange(t, x, db')
  BY TypeLevels
<1>3. x.pc \notin Migrating
  BY <1>2 DEF Loops, Migrating
<1>4. /\ db'.users = db.users
      /\ db'.props[h] = IF db.props[h] = NoLevel THEN NoLevel ELSE ServerLevels[h]
      /\ \A n \in LevelRows : n # h => db'.props[n] = db.props[n]
  BY <1>0, <1>1 DEF Database
<1>5. db.props["identity"] = ServerLevels["identity"] =>
        db'.props["identity"] = ServerLevels["identity"]
  BY <1>4, Identity
<1>6. Spares
  BY <1>2, <1>4, <1>5 DEF Spares, DBChange
<1>7. QED
  BY <1>2, <1>3, <1>6, NotMigrating, GrantMove DEF DBChange

LEMMA GrantFinish == ASSUME TypeInv, GrantInv, NEW t \in Threads, FinishDB(t) PROVE GrantInv'
<1>1. PICK x : x = At(Idle, After(t, ~th[t].failed))
  OBVIOUS
<1>2. Moves(t, x) /\ UNCHANGED <<cfg, db, removed>>
  BY <1>1, TypeFinish
<1>3. x.pc \notin Migrating
  <2>1. x.pc = After(t, ~th[t].failed)
    BY <1>1, IdleIs
  <2>2. QED
    BY <2>1 DEF After, Migrating
<1>4. Spares
  BY <1>2, SameSpares
<1>5. QED
  BY <1>2, <1>3, <1>4, NotMigrating, GrantMove

LEMMA GrantFails == ASSUME TypeInv, GrantInv, NEW t \in Threads, StepFails(t) PROVE GrantInv'
<1> DEFINE pc == th[t].pc
<1>0. /\ TypeInv' /\ UNCHANGED <<cfg, db, removed>> /\ Host(t) \in Servers /\ th[t] \in Thread
      /\ t \in Servers => Host(t) = t
  BY TypeFails, Typed
<1>1. Outside => GrantInv'
  BY <1>0, GrantElsewhere DEF Elsewhere
<1>2. Exit(Host(t)) \/ Closes(t) \/ GivesUp(t) \/ Drops(t) => GrantInv'
  BY <1>0, <1>1, OutsideExit, OutsideCloses, OutsideGivesUp, OutsideDrops, GrantElsewhere
<1>3. \A p \in {"insert", "affs", "snapshot", "finish"} : p \notin Migrating
  BY DEF Migrating
<1>4. DBChange(t, At(th[t], "insert"), db) => GrantInv'
  BY <1>0, <1>3, AtIs, GrantQuiet
<1>5. ASSUME NEW x, DBChange(t, x, db), x.pc \in {"affs", "snapshot", "finish"} PROVE GrantInv'
  BY <1>3, <1>5, GrantQuiet
<1>6. /\ [th[t] EXCEPT !.failed = TRUE, !.pc = "affs", !.todo = Affiliations].pc = "affs"
      /\ [th[t] EXCEPT !.failed = TRUE, !.pc = "snapshot", !.todo = <<>>].pc = "snapshot"
      /\ [th[t] EXCEPT !.failed = TRUE, !.pc = "finish"].pc = "finish"
  BY <1>0 DEF Thread
<1>7. QED
  BY <1>0, <1>2, <1>4, <1>5, <1>6, TypeFails

\* An attribute is taken away by a request, and while a request is served no
\* thread of the only server is inside initDB.
LEMMA GrantServe ==
    ASSUME TypeInv, Control, ContentInv, GrantInv, NEW t \in Handlers, Serve(t) PROVE GrantInv'
<1>0. /\ t \in Threads /\ UNCHANGED cfg /\ Moves(t, At(th[t], "idle")) /\ th[t].pc = "serving"
  BY TypeServe DEF Threads
<1>1. Clustered' = Clustered
  BY <1>0 DEF Clustered
<1>2. At(th[t], "idle").pc \notin Migrating
  BY <1>0, Typed, AtIs DEF Migrating
<1>3. CASE UNCHANGED <<db, removed>>
  BY <1>0, <1>2, <1>3, SameSpares, NotMigrating, GrantMove
<1>4. ASSUME ~Clustered, NEW id \in IDs, ~cfg.ldap, NEW row \in UserRow, row.level = 1, ~row.attrs,
             db' = [db EXCEPT !.users[id] = <<row>>], removed' = removed \cup {id}
      PROVE  GrantInv'
  <2>1. Host(t) \in Servers /\ ca[Host(t)].ready
    BY <1>0, Typed DEF Control, ThreadOK
  <2>2. \A u \in Threads : th[u].pc \notin Migrating
    <3>1. \A u \in Threads : th[u].pc \notin DBPCs
      BY <1>4, <2>1, OneServer, Alone
    <3>2. QED
      BY <3>1 DEF DBPCs, Migrating
  <2>3. \A u \in Threads : th'[u].pc \notin Migrating
    BY <1>0, <1>2, <2>2, Moved
  <2>4. PICK q : q = <<row>>
    OBVIOUS
  <2>5. q \in Seq(UserRow) /\ q # <<>> /\ q[1] = row
    BY <1>4, <2>4
  <2>6. /\ db'.props = db.props /\ db'.users[id] = q
        /\ \A i \in IDs : i # id => db'.users[i] = db.users[i]
    BY <1>4, <2>4, <2>5, UsersChange
  <2>7. \A i \in removed' : /\ db'.users[i] # <<>>
                            /\ Len(db'.users[i]) = 1 =>
                                 db'.users[i][1].level = 1 /\ ~db'.users[i][1].attrs
    <3>1. removed \subseteq IDs
      BY TypeParts DEF DataTyped
    <3>2. QED
      BY <1>4, <2>5, <2>6, <3>1 DEF GrantInv
  <2>8. cfg.driver = "sqlite3" => db.props["identity"] = ServerLevels["identity"]
    <3>1. ReadyContent
      BY <2>1, ContentParts
    <3>2. QED
      BY <1>4, <3>1, Identity DEF ReadyContent, Complete, LevelDone, HasLevels
  <2>9. QED
    BY <1>0, <1>1, <2>3, <2>6, <2>7, <2>8 DEF GrantInv
<1>5. CASE Clustered
  BY <1>1, <1>5 DEF GrantInv
<1>6. QED
  BY <1>3, <1>4, <1>5, TypeServe

LEMMA GrantInit == Init => GrantInv
<1>1. SUFFICES ASSUME Init PROVE GrantInv
  OBVIOUS
<1>2. \A t \in Threads : th[t].pc \notin Migrating
  BY <1>1 DEF Init, Idle, Migrating
<1>3. removed = {}
  BY <1>1 DEF Init
<1>4. QED
  BY <1>2, <1>3 DEF GrantInv

LEMMA GrantNext ==
    ASSUME TypeInv, Control, ContentInv, GrantInv, [Next]_vars PROVE GrantInv'
<1>1. ASSUME NEW t \in Threads, Step(t) PROVE GrantInv'
  <2>1. CASE \/ LockDB(t) \/ CreateSQLiteTables(t) \/ CreatePostgresTables(t)
             \/ CreateMySQLTables(t) \/ AlterTables(t) \/ UpdateSchemaRest(t) \/ SetAccessors(t)
             \/ CheckDBLevels(t)
    BY <2>1, GrantSetup
  <2>2. CASE \/ InitDB(t) \/ OpenDB(t) \/ UpdateSQLiteSchema(t) \/ LookupUser(t)
             \/ InsertUser(t) \/ LoadAffiliation(t) \/ GetUserLessThanLevel(t) \/ MigrateUser(t)
             \/ AddAttribute(t) \/ SetLevel(t) \/ UpdateDBLevel(t) \/ FinishDB(t)
    BY <2>2, InitDBElsewhere, GrantElsewhere, GrantOpenDB, GrantSQLiteSchema, GrantLookup,
       GrantInsert, GrantAffiliation, GrantSnapshot, GrantMigrate, GrantUpdates, GrantLevels,
       GrantFinish
  <2>3. CASE \/ InitIssuer(t) \/ LockIssuer(t) \/ IssuerKeyMaterial(t) \/ StoreIssuerKey(t)
             \/ RevocationKeyMaterial(t) \/ StoreRevocationKey(t) \/ GetRAInfo(t) \/ AddRAInfo(t)
    BY <2>3, IssuerElsewhere, GrantElsewhere
  <2>4. QED
    BY <1>1, <2>1, <2>2, <2>3 DEF Step
<1>2. ASSUME NEW s \in Servers, Start(s) \/ MainStep(s) \/ Crash(s) PROVE GrantInv'
  <2>1. s \in Threads
    BY DEF Threads
  <2>2. QED
    BY <1>1, <1>2, <2>1, StartsElsewhere, WritesElsewhere, CrashElsewhere, GrantElsewhere
    DEF MainStep
<1>3. ASSUME NEW h \in Handlers, Request(h) \/ HandlerStep(h) PROVE GrantInv'
  <2>1. h \in Threads
    BY DEF Threads
  <2>2. QED
    BY <1>1, <1>3, <2>1, RequestsElsewhere, GrantElsewhere, GrantServe DEF HandlerStep
<1>4. ASSUME NEW t \in Threads, StepFails(t) PROVE GrantInv'
  BY <1>4, GrantFails
<1>5. CASE UNCHANGED vars
  BY <1>5 DEF vars, GrantInv, Clustered
<1>6. QED
  BY <1>2, <1>3, <1>4, <1>5 DEF Next

\* With one server, whatever restarts, failures and repeated migrations come
\* after a request has taken hf.Registrar.Attributes from an identity: the
\* migration does not grant it again, unless the identity has several rows.
THEOREM StartupRegrantsNothing == Spec => []RegrantsNothing
<1>1. GrantInv => RegrantsNothing
  BY DEF GrantInv, RegrantsNothing
<1>2. Spec => [](TypeInv /\ Control /\ ContentInv /\ GrantInv)
  BY TypeInit, TypeNext, ControlInit, ControlNext, ContentInit, ContentNext, GrantInit, GrantNext,
     PTL DEF Spec, Safety
<1>3. QED
  BY <1>1, <1>2, PTL
=============================================================================
