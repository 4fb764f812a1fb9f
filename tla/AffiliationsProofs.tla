------------------------- MODULE AffiliationsProofs -------------------------
(***************************************************************************)
(* Proofs for the affiliations, for any number of concurrent requests, any *)
(* names and any configured affiliations and identities; and for the       *)
(* listing of affiliations, for any rows in any order.                     *)
(***************************************************************************)
EXTENDS Affiliations, AffiliationListing, SequenceTheorems, NaturalsInduction,
        WellFoundedInduction, TLAPS

-----------------------------------------------------------------------------
(* Names.                                                                  *)

LEMMA PathsAreSequences ==
    /\ MaxDepth \in Nat \ {0}
    /\ Paths = {s \in Seq(Labels) : Len(s) \in 1 .. MaxDepth}
    /\ Root \in Seq(Labels) /\ Root \notin Paths
<1>1. MaxDepth \in Nat \ {0}
  BY AffiliationConstantsOK DEF AffiliationConstantsOK
<1>2. ASSUME NEW s \in Paths PROVE s \in Seq(Labels) /\ Len(s) \in 1 .. MaxDepth
  <2>1. PICK n \in 1 .. MaxDepth : s \in [1 .. n -> Labels]
    BY DEF Paths
  <2>2. n \in Nat /\ s \in Seq(Labels) /\ Len(s) = n
    BY <1>1, <2>1
  <2>3. QED
    BY <2>2
<1>3. ASSUME NEW s \in Seq(Labels), Len(s) \in 1 .. MaxDepth PROVE s \in Paths
  <2>1. s \in [1 .. Len(s) -> Labels]
    OBVIOUS
  <2>2. QED
    BY <1>3, <2>1 DEF Paths
<1>4. Root \in Seq(Labels) /\ Len(Root) = 0
  BY DEF Root
<1>5. QED
  BY <1>1, <1>2, <1>3, <1>4

LEMMA PrefixesArePaths ==
    ASSUME NEW n \in Paths
    PROVE  Prefixes(n) \ {Root} \subseteq Paths
<1>1. n \in Seq(Labels) /\ Len(n) \in 1 .. MaxDepth /\ MaxDepth \in Nat
  BY PathsAreSequences
<1>2. ASSUME NEW l \in 0 .. Len(n), SubSeq(n, 1, l) # Root PROVE SubSeq(n, 1, l) \in Paths
  <2>1. SubSeq(n, 1, l) \in Seq(Labels) /\ Len(SubSeq(n, 1, l)) = l
    BY <1>1
  <2>2. l # 0
    BY <1>2, <2>1 DEF Root
  <2>3. QED
    BY <1>1, <2>1, <2>2, PathsAreSequences
<1>3. QED
  BY <1>2 DEF Prefixes

LEMMA LeastNat == ASSUME NEW S \in SUBSET Nat, S # {}
                  PROVE  \E x \in S : \A y \in S : x <= y
<1>1. PICK m \in S : \A n \in S : ~(<<n, m>> \in OpToRel(<, Nat))
  BY NatLessThanWellFounded, WFMin
<1>2. \A n \in S : ~(n < m)
  BY <1>1 DEF OpToRel
<1>3. QED
  BY <1>2

(* strings.Replace gives a name that consists of labels, wherever in the   *)
(* name the replaced part is.                                              *)
LEMMA RebaseIsPath ==
    ASSUME NEW p \in Paths, NEW old \in Paths, NEW new \in Paths,
           Len(Rebase(p, old, new)) <= MaxDepth
    PROVE  Rebase(p, old, new) \in Paths
<1>1. /\ p \in Seq(Labels) /\ old \in Seq(Labels) /\ new \in Seq(Labels)
      /\ Len(p) \in Nat /\ Len(old) \in Nat \ {0}
      /\ Len(new) \in 1 .. MaxDepth /\ MaxDepth \in Nat
  BY PathsAreSequences
<1>2. CASE old \notin SubSeqs(p)
  BY <1>2 DEF Rebase, ReplaceFirstSubSeq
<1>3. CASE old \in SubSeqs(p)
  <2> DEFINE Ends == {i \in 0 .. Len(p) : old \in SubSeqs(SubSeq(p, 1, i))}
  <2>1. PICK last : /\ last = CHOOSE i \in 0 .. Len(p) :
                                 /\ old \in SubSeqs(SubSeq(p, 1, i))
                                 /\ \A j \in 0 .. i - 1 : old \notin SubSeqs(SubSeq(p, 1, j))
    OBVIOUS
  <2>2. last \in 0 .. Len(p) /\ old \in SubSeqs(SubSeq(p, 1, last))
    <3>1. SubSeq(p, 1, Len(p)) = p
      BY <1>1
    <3>2. Ends \in SUBSET Nat /\ Len(p) \in Ends
      <4>1. old \in SubSeqs(SubSeq(p, 1, Len(p)))
        BY <1>3, <3>1
      <4>2. Len(p) \in 0 .. Len(p) /\ 0 .. Len(p) \subseteq Nat
        BY <1>1
      <4>3. QED
        BY <4>1, <4>2
    <3>3. PICK i \in Ends : \A j \in Ends : i <= j
      BY <3>2, LeastNat
    <3>4. \A j \in 0 .. i - 1 : old \notin SubSeqs(SubSeq(p, 1, j))
      BY <1>1, <3>3
    <3>5. QED
      BY <2>1, <3>3, <3>4
  <2>3. PICK at : at = last - (Len(old) - 1)
    OBVIOUS
  <2>4. Len(old) <= last
    <3>1. SubSeq(p, 1, last) \in Seq(Labels) /\ Len(SubSeq(p, 1, last)) = last
      BY <1>1, <2>2
    <3>2. PICK s : s = SubSeq(p, 1, last)
      OBVIOUS
    <3>3. s \in Seq(Labels) /\ Len(s) = last /\ old \in SubSeqs(s)
      BY <2>2, <3>1, <3>2
    <3>4. PICK i, j \in 0 .. Len(s) : old = SubSeq(s, i + 1, j)
      <4>1. old \in {SubSeq(s, i + 1, j) : i, j \in 0 .. Len(s)}
        BY <3>3 DEF SubSeqs
      <4>2. QED
        BY <4>1
    <3>5. Len(SubSeq(s, i + 1, j)) <= Len(s)
      BY <2>2, <3>3
    <3>6. QED
      BY <3>3, <3>4, <3>5
  <2>5. at \in 1 .. Len(p) /\ at + Len(old) \in Nat \ {0}
    BY <1>1, <2>2, <2>3, <2>4
  <2>6. PICK a, z : a = SubSeq(p, 1, at - 1) /\ z = SubSeq(p, at + Len(old), Len(p))
    OBVIOUS
  <2>7. a \in Seq(Labels) /\ z \in Seq(Labels)
    BY <1>1, <2>5, <2>6
  <2>8. Rebase(p, old, new) = a \o new \o z
    BY <1>3, <2>1, <2>3, <2>6 DEF Rebase, ReplaceFirstSubSeq, IndexFirstSubSeq, ReplaceSubSeqAt
  <2>9. a \o new \o z \in Seq(Labels) /\ Len(a \o new \o z) = Len(a) + Len(new) + Len(z)
    BY <1>1, <2>7
  <2>10. Len(a \o new \o z) \in 1 .. MaxDepth
    BY <1>1, <2>7, <2>8, <2>9
  <2>11. QED
    BY <2>8, <2>9, <2>10, PathsAreSequences
<1>4. QED
  BY <1>2, <1>3

-----------------------------------------------------------------------------
(* The inductive invariant.                                                *)

Agrees(row) == row.attr \in {NoAttr, row.aff}

(* What a handler knows at each point of its request.  Whoever renames has *)
(* checked all the new names; a row to be written agrees with itself.      *)
ContextOK(c) ==
    /\ c \in RequestContext
    /\ c.pc \in {"renameCheck", "begin", "loop", "commit"} => c.name \in Paths /\ c.new \in Paths
    /\ c.pc = "loop" => \A p \in c.todo : Rebase(p, c.name, c.new) \in Paths
    /\ c.pc \in {"insertUser", "sign"} => c.user \in IDs
    /\ Agrees(c.row)

ContextsOK ==
    /\ h \in [Handlers -> RequestContext]
    /\ \A r \in Handlers : ContextOK(h[r])

UsersOK(us) ==
    /\ DOMAIN us \subseteq IDs
    /\ us \in [DOMAIN us -> UserRecord]
    /\ \A u \in DOMAIN us : Agrees(us[u])

TablesOK ==
    /\ affs \subseteq Paths /\ UsersOK(users)
    /\ valid \subseteq IDs
    /\ saved.affs \subseteq Paths /\ UsersOK(saved.users)

(* A renaming holds the connection from BEGIN to COMMIT and adds or        *)
(* removes no identity.                                                    *)
ConnectionOK ==
    /\ conn \in Handlers \cup {Free, Lost}
    /\ conn # Free => DOMAIN saved.users = DOMAIN users
    /\ \A r \in Handlers : h[r].pc \in {"loop", "commit"} <=> conn = r
    /\ \A r \in Handlers : h[r].pc = "loop" => h[r].todo \subseteq affs

Inv == ContextsOK /\ TablesOK /\ ConnectionOK

LEMMA ConstantFacts ==
    /\ Names \subseteq Paths /\ Managers \subseteq IDs
    /\ Ops \subseteq {"add", "remove", "rename", "register", "modify", "enroll"}
    /\ NoAttr \notin Paths \cup {Root}
    /\ Free \notin Handlers /\ Lost \notin Handlers /\ Lost # Free
    /\ NoRow \in UserRecord /\ Agrees(NoRow)
BY AffiliationConstantsOK DEF AffiliationConstantsOK, AllOps, NoRow, UserRecord, Agrees

LEMMA IdleOK == ContextOK(Idle) /\ Idle.pc = "idle"
<1>1. Idle \in RequestContext
  BY ConstantFacts DEF Idle, RequestContext, PCs
<1>2. QED
  BY <1>1, ConstantFacts DEF ContextOK, Idle

LEMMA NoUsersOK == UsersOK(NoUsers) /\ DOMAIN NoUsers = {} /\ Unsaved.users = NoUsers
                   /\ Unsaved.affs = {}
BY DEF UsersOK, NoUsers, Unsaved

LEMMA RowOf ==
    ASSUME NEW p \in Paths \cup {Root}
    PROVE  [aff |-> p, attr |-> p] \in UserRecord /\ Agrees([aff |-> p, attr |-> p])
BY DEF UserRecord, Agrees

(* A step that changes one request context, outside of a transaction.      *)
ContextStep(r, c) ==
    /\ h' = [h EXCEPT ![r] = c]
    /\ UNCHANGED <<affs, users, valid, conn, saved>>
    /\ conn # r
    /\ ContextOK(c) /\ c.pc \notin {"loop", "commit", "sign"}

LEMMA ContextsFrame ==
    ASSUME ContextsOK, NEW r \in Handlers, NEW c, ContextOK(c), h' = [h EXCEPT ![r] = c]
    PROVE  /\ ContextsOK' /\ h'[r] = c
           /\ \A q \in Handlers : q # r => h'[q] = h[q]
BY DEF ContextsOK, ContextOK

LEMMA ContextStepKeeps ==
    ASSUME Inv, NEW r \in Handlers, NEW c, ContextStep(r, c)
    PROVE  Inv'
<1>1. ContextsOK' /\ h'[r] = c /\ \A q \in Handlers : q # r => h'[q] = h[q]
  BY ContextsFrame DEF Inv, ContextStep
<1>2. TablesOK'
  BY DEF Inv, ContextStep, TablesOK
<1>3. ConnectionOK'
  BY <1>1 DEF Inv, ContextStep, ConnectionOK
<1>4. QED
  BY <1>1, <1>2, <1>3 DEF Inv

(* The steps that only read the tables.                                    *)
Looks(r) ==
    \/ Authenticate(r) \/ AddLookup(r) \/ AddParent(r) \/ RemoveLookup(r) \/ RenameLookup(r)
    \/ RenameCheck(r) \/ RegisterLookup(r) \/ ModifyLookup(r) \/ ModifyTarget(r) \/ Abort(r)

LEMMA LooksAreContextSteps ==
    ASSUME Inv, NEW r \in Handlers, Looks(r)
    PROVE  \E c : ContextStep(r, c)
<1>0. /\ h[r] \in RequestContext /\ ContextOK(h[r])
      /\ conn = Free => conn # r
  BY ConstantFacts DEF Inv, ContextsOK
<1>1. CASE Authenticate(r)
  <2>1. PICK u \in DOMAIN users \cap valid, op \in Ops \ {"enroll"} :
           h' = [h EXCEPT ![r] = [Idle EXCEPT !.pc = op, !.scope = users[u].aff,
                                              !.registrar = u \in Registrars]]
    BY <1>1 DEF Authenticate
  <2>2. users[u].aff \in Paths \cup {Root} /\ op \in AllOps
    BY ConstantFacts DEF Inv, TablesOK, UsersOK, UserRecord, AllOps
  <2> DEFINE registers == u \in Registrars
  <2>3. PICK c : c = [Idle EXCEPT !.pc = op, !.scope = users[u].aff, !.registrar = registers]
    OBVIOUS
  <2>4. c \in RequestContext /\ c.pc \in AllOps /\ c.row = NoRow
    <3>1. registers \in BOOLEAN
      OBVIOUS
    <3>2. QED
      BY <2>2, <2>3, <3>1, IdleOK, ConstantFacts DEF Idle, RequestContext, PCs
  <2>5. ContextOK(c)
    BY <2>4, ConstantFacts DEF ContextOK, AllOps
  <2>6. QED
    BY <1>0, <1>1, <2>1, <2>3, <2>4, <2>5 DEF ContextStep, Authenticate, Tables, AllOps
<1>2. CASE AddLookup(r)
  <2>1. PICK n \in Names \ affs, force \in BOOLEAN :
          h' = [h EXCEPT ![r] =
                   [Idle EXCEPT !.pc = IF force \/ Len(n) = 1 THEN "insert" ELSE "addParent",
                                !.name = n,
                                !.todo = IF force THEN Prefixes(n) \ {Root} ELSE {n}]]
    BY <1>2 DEF AddLookup
  <2>2. PICK next, todo : /\ next = IF force \/ Len(n) = 1 THEN "insert" ELSE "addParent"
                          /\ todo = IF force THEN Prefixes(n) \ {Root} ELSE {n}
    OBVIOUS
  <2>3. next \in {"insert", "addParent"} /\ n \in Paths /\ todo \subseteq Paths
    BY <2>2, ConstantFacts, PrefixesArePaths
  <2>4. PICK c : c = [Idle EXCEPT !.pc = next, !.name = n, !.todo = todo]
    OBVIOUS
  <2>5. c \in RequestContext /\ c.pc = next /\ c.row = NoRow
    BY <2>3, <2>4, IdleOK, ConstantFacts DEF Idle, RequestContext, PCs
  <2>6. ContextOK(c)
    BY <2>3, <2>5, ConstantFacts DEF ContextOK
  <2>7. QED
    BY <1>0, <1>2, <2>1, <2>2, <2>3, <2>4, <2>5, <2>6 DEF ContextStep, AddLookup, Tables
<1>3. CASE AddParent(r)
  <2>1. PICK c : c = [h[r] EXCEPT !.pc = "insert"]
    OBVIOUS
  <2>2. c \in RequestContext /\ c.pc = "insert" /\ c.row = h[r].row
    BY <1>0, <2>1 DEF RequestContext, PCs
  <2>3. ContextOK(c)
    BY <1>0, <2>2 DEF ContextOK
  <2>4. QED
    BY <1>0, <1>3, <2>1, <2>2, <2>3 DEF ContextStep, AddParent, Go, Tables
<1>4. CASE RemoveLookup(r)
  <2>1. PICK n \in Names \cap affs, force \in BOOLEAN :
          h' = [h EXCEPT ![r] = [Idle EXCEPT !.pc = "delete", !.name = n, !.force = force,
                                              !.registrar = h[r].registrar]]
    BY <1>4 DEF RemoveLookup
  <2>2. PICK c : c = [Idle EXCEPT !.pc = "delete", !.name = n, !.force = force,
                                  !.registrar = h[r].registrar]
    OBVIOUS
  <2>3. n \in Paths /\ h[r].registrar \in BOOLEAN
    BY <1>0, ConstantFacts DEF RequestContext
  <2>4. c \in RequestContext /\ c.pc = "delete" /\ c.row = NoRow
    BY <2>2, <2>3, IdleOK, ConstantFacts DEF Idle, RequestContext, PCs
  <2>5. ContextOK(c)
    BY <2>4, ConstantFacts DEF ContextOK
  <2>6. QED
    BY <1>0, <1>4, <2>1, <2>2, <2>4, <2>5 DEF ContextStep, RemoveLookup, Tables
<1>5. CASE RenameLookup(r)
  <2>1. PICK old \in Names \cap affs, new \in Names, force \in BOOLEAN :
          h' = [h EXCEPT ![r] = [Idle EXCEPT !.pc = "renameCheck", !.name = old,
                                              !.new = new, !.force = force,
                                              !.registrar = h[r].registrar]]
    BY <1>5 DEF RenameLookup
  <2>2. PICK c : c = [Idle EXCEPT !.pc = "renameCheck", !.name = old, !.new = new,
                                  !.force = force, !.registrar = h[r].registrar]
    OBVIOUS
  <2>3. old \in Paths /\ new \in Paths /\ h[r].registrar \in BOOLEAN
    BY <1>0, ConstantFacts DEF RequestContext
  <2>4. c \in RequestContext /\ c.pc = "renameCheck" /\ c.row = NoRow /\ c.name = old /\ c.new = new
    BY <2>2, <2>3, IdleOK, ConstantFacts DEF Idle, RequestContext, PCs
  <2>5. ContextOK(c)
    BY <2>3, <2>4, ConstantFacts DEF ContextOK
  <2>6. QED
    BY <1>0, <1>5, <2>1, <2>2, <2>4, <2>5 DEF ContextStep, RenameLookup, Tables
<1>6. CASE RenameCheck(r)
  <2>1. PICK c : c = [h[r] EXCEPT !.pc = "begin"]
    OBVIOUS
  <2>2. /\ c \in RequestContext /\ c.pc = "begin" /\ c.row = h[r].row
        /\ c.name = h[r].name /\ c.new = h[r].new
    BY <1>0, <2>1 DEF RequestContext, PCs
  <2>3. ContextOK(c)
    BY <1>0, <1>6, <2>2 DEF ContextOK, RenameCheck
  <2>4. QED
    BY <1>0, <1>6, <2>1, <2>2, <2>3 DEF ContextStep, RenameCheck, Go, Tables
<1>7. CASE RegisterLookup(r)
  <2>1. PICK u \in IDs, p \in Names \cup {Root} :
          h' = [h EXCEPT ![r] = [Idle EXCEPT !.pc = "insertUser", !.user = u,
                                              !.row = [aff |-> p, attr |-> p]]]
    BY <1>7 DEF RegisterLookup
  <2>2. PICK row : row = [aff |-> p, attr |-> p]
    OBVIOUS
  <2>3. row \in UserRecord /\ Agrees(row)
    BY <2>2, RowOf, ConstantFacts
  <2>4. PICK c : c = [Idle EXCEPT !.pc = "insertUser", !.user = u, !.row = row]
    OBVIOUS
  <2>5. c \in RequestContext /\ c.pc = "insertUser" /\ c.row = row /\ c.user = u
    BY <2>3, <2>4, IdleOK DEF Idle, RequestContext, PCs, ContextOK
  <2>6. ContextOK(c)
    BY <2>3, <2>5 DEF ContextOK
  <2>7. QED
    BY <1>0, <1>7, <2>1, <2>2, <2>4, <2>5, <2>6 DEF ContextStep, RegisterLookup, Tables
<1>8. CASE ModifyLookup(r)
  <2>1. PICK u \in DOMAIN users :
          h' = [h EXCEPT ![r] = [h[r] EXCEPT !.pc = "modifyTarget", !.user = u, !.row = users[u]]]
    BY <1>8 DEF ModifyLookup
  <2>2. u \in IDs /\ users[u] \in UserRecord /\ Agrees(users[u])
    BY DEF Inv, TablesOK, UsersOK
  <2>3. PICK c : c = [h[r] EXCEPT !.pc = "modifyTarget", !.user = u, !.row = users[u]]
    OBVIOUS
  <2>4. c \in RequestContext /\ c.pc = "modifyTarget" /\ c.row = users[u]
    BY <1>0, <2>2, <2>3 DEF RequestContext, PCs
  <2>5. ContextOK(c)
    BY <2>2, <2>4 DEF ContextOK
  <2>6. QED
    BY <1>0, <1>8, <2>1, <2>3, <2>4, <2>5 DEF ContextStep, ModifyLookup, Tables
<1>9. CASE ModifyTarget(r)
  <2>1. PICK row \in {h[r].row, NoRow} \cup {[aff |-> p, attr |-> p] : p \in Names \cap affs} :
          h' = [h EXCEPT ![r] = [Idle EXCEPT !.pc = "updateUser",
                                              !.user = h[r].user, !.row = row]]
    BY <1>9 DEF ModifyTarget
  <2>2. row \in UserRecord /\ Agrees(row)
    <3>1. CASE row \in {[aff |-> p, attr |-> p] : p \in Names \cap affs}
      BY <3>1, RowOf, ConstantFacts
    <3>2. CASE row \in {h[r].row, NoRow}
      BY <1>0, <3>2, ConstantFacts DEF RequestContext, ContextOK
    <3>3. QED
      BY <3>1, <3>2
  <2>3. PICK c : c = [Idle EXCEPT !.pc = "updateUser", !.user = h[r].user, !.row = row]
    OBVIOUS
  <2>4. h[r].user \in IDs \cup {NoAttr}
    BY <1>0 DEF RequestContext
  <2>5. c \in RequestContext /\ c.pc = "updateUser" /\ c.row = row
    BY <2>2, <2>3, <2>4, IdleOK DEF Idle, RequestContext, PCs, ContextOK
  <2>6. ContextOK(c)
    BY <2>2, <2>5 DEF ContextOK
  <2>7. QED
    BY <1>0, <1>9, <2>1, <2>3, <2>5, <2>6 DEF ContextStep, ModifyTarget, Tables
<1>10. CASE Abort(r)
  BY <1>10, IdleOK DEF Abort, Finish, ContextStep, Tables
<1>11. QED
  BY <1>1, <1>2, <1>3, <1>4, <1>5, <1>6, <1>7, <1>8, <1>9, <1>10 DEF Looks

(* The steps that write: what each one does to the tables.                 *)
LEMMA InsertAffiliationKeeps ==
    ASSUME Inv, NEW r \in Handlers, InsertAffiliation(r) PROVE Inv'
<1>1. PICK p \in h[r].todo :
        /\ affs' = affs \cup {p}
        /\ h' = [h EXCEPT ![r] = IF h[r].todo = {p} THEN Idle
                                 ELSE [h[r] EXCEPT !.todo = h[r].todo \ {p}]]
  BY DEF InsertAffiliation
<1>2. PICK c : c = IF h[r].todo = {p} THEN Idle ELSE [h[r] EXCEPT !.todo = h[r].todo \ {p}]
  OBVIOUS
<1>3. h[r] \in RequestContext /\ ContextOK(h[r]) /\ h[r].pc = "insert" /\ p \in Paths
  BY DEF Inv, ContextsOK, InsertAffiliation, RequestContext
<1>4. ContextOK(c) /\ c.pc \in {"idle", "insert"}
  <2>1. CASE h[r].todo = {p}
    BY <1>2, <2>1, IdleOK
  <2>2. CASE h[r].todo # {p}
    <3>1. c \in RequestContext /\ c.pc = "insert" /\ c.row = h[r].row
      BY <1>2, <1>3, <2>2 DEF RequestContext
    <3>2. QED
      BY <1>3, <3>1 DEF ContextOK
  <2>3. QED
    BY <2>1, <2>2
<1>5. ContextsOK' /\ h'[r] = c /\ \A q \in Handlers : q # r => h'[q] = h[q]
  BY <1>1, <1>2, <1>4, ContextsFrame DEF Inv
<1>6. TablesOK'
  BY <1>1, <1>3 DEF InsertAffiliation, Inv, TablesOK
<1>7. ConnectionOK'
  BY <1>1, <1>3, <1>4, <1>5, ConstantFacts DEF InsertAffiliation, Inv, ConnectionOK
<1>8. QED
  BY <1>5, <1>6, <1>7 DEF Inv

(* A finished request.                                                     *)
LEMMA FinishKeeps ==
    ASSUME ContextsOK, NEW r \in Handlers, Finish(r)
    PROVE  ContextsOK' /\ h'[r].pc = "idle" /\ \A q \in Handlers : q # r => h'[q] = h[q]
BY IdleOK, ContextsFrame DEF Finish

LEMMA DeleteAffiliationKeeps ==
    ASSUME Inv, NEW r \in Handlers, DeleteAffiliation(r) PROVE Inv'
<1> DEFINE n == h[r].name
           ids == {u \in DOMAIN users : users[u].aff = n \/ Like(n, users[u].aff)}
           sub == {p \in affs : Like(n, p)}
<1>1. /\ users' = [u \in DOMAIN users \ ids |-> users[u]] /\ valid' = valid \ ids
      /\ affs' = affs \ (sub \cup {n}) /\ UNCHANGED <<conn, saved>> /\ conn = Free /\ Finish(r)
  BY DEF DeleteAffiliation
<1> HIDE DEF n, ids, sub
<1>2. ContextsOK' /\ h'[r].pc = "idle" /\ \A q \in Handlers : q # r => h'[q] = h[q]
  BY <1>1, FinishKeeps DEF Inv
<1>3. TablesOK'
  BY <1>1 DEF Inv, TablesOK, UsersOK
<1>4. ConnectionOK'
  BY <1>1, <1>2, ConstantFacts DEF Inv, ConnectionOK
<1>5. QED
  BY <1>2, <1>3, <1>4 DEF Inv

LEMMA BeginRenameKeeps ==
    ASSUME Inv, NEW r \in Handlers, BeginRename(r) PROVE Inv'
<1>1. PICK moving : /\ moving = {h[r].name} \cup {p \in affs : Like(h[r].name, p)}
                    /\ \A p \in moving : Len(Rebase(p, h[r].name, h[r].new)) <= MaxDepth
                    /\ h' = [h EXCEPT ![r] = [h[r] EXCEPT !.pc = "loop", !.todo = moving]]
  BY DEF BeginRename
<1>2. /\ conn = Free /\ conn' = r /\ UNCHANGED <<affs, users, valid>> /\ h[r].name \in affs
      /\ saved'.affs = affs /\ saved'.users = users /\ h[r].pc = "begin"
  BY DEF BeginRename, Tables
<1>3. /\ h[r] \in RequestContext /\ ContextOK(h[r]) /\ affs \subseteq Paths
      /\ moving \subseteq affs
  BY <1>1, <1>2 DEF Inv, ContextsOK, TablesOK
<1>4. PICK c : c = [h[r] EXCEPT !.pc = "loop", !.todo = moving]
  OBVIOUS
<1>5. /\ c \in RequestContext /\ c.pc = "loop" /\ c.row = h[r].row /\ c.todo = moving
      /\ c.name = h[r].name /\ c.new = h[r].new
  BY <1>3, <1>4 DEF RequestContext, PCs
<1>6. ContextOK(c)
  <2>1. h[r].name \in Paths /\ h[r].new \in Paths /\ Agrees(h[r].row)
    BY <1>2, <1>3 DEF ContextOK
  <2>2. \A p \in moving : Rebase(p, h[r].name, h[r].new) \in Paths
    BY <1>1, <1>3, <2>1, RebaseIsPath
  <2>3. QED
    BY <1>5, <2>1, <2>2 DEF ContextOK
<1>7. ContextsOK' /\ h'[r] = c /\ \A q \in Handlers : q # r => h'[q] = h[q]
  BY <1>1, <1>4, <1>6, ContextsFrame DEF Inv
<1>8. TablesOK'
  BY <1>2 DEF Inv, TablesOK
<1>9. ConnectionOK'
  BY <1>2, <1>3, <1>5, <1>7, ConstantFacts DEF Inv, ConnectionOK
<1>10. QED
  BY <1>7, <1>8, <1>9 DEF Inv

(* What one turn of the renaming loop does to the identities.              *)
LEMMA RenameOneUsers ==
    ASSUME Inv, NEW r \in Handlers, NEW p, RenameOne(r, p)
    PROVE  /\ NewPath(r, p) \in Paths /\ p \in affs /\ p \in h[r].todo
           /\ DOMAIN users' = DOMAIN users
           /\ \A u \in DOMAIN users :
                /\ users[u].aff = p => /\ users'[u].aff = NewPath(r, p)
                                       /\ users'[u].attr = NewPath(r, p)
                /\ users[u].aff # p => users'[u] = users[u]
           /\ UsersOK(users')
<1> DEFINE np == NewPath(r, p)
<1>1. np \in Paths /\ p \in affs /\ p \in h[r].todo
  BY DEF RenameOne, NextToRename, Inv, ContextsOK, ContextOK, NewPath, ConnectionOK
<1>2. users' = [u \in DOMAIN users |->
                  IF u \in MembersOf(p) THEN [aff |-> np, attr |-> np] ELSE users[u]]
  BY DEF RenameOne
<1>3. [aff |-> np, attr |-> np] \in UserRecord /\ Agrees([aff |-> np, attr |-> np])
  BY <1>1, RowOf
<1>4. [aff |-> np, attr |-> np].aff = np /\ [aff |-> np, attr |-> np].attr = np
  OBVIOUS
<1> HIDE DEF np
<1>5. DOMAIN users' = DOMAIN users
  BY <1>2
<1>6. \A u \in DOMAIN users :
         /\ users[u].aff = p => users'[u] = [aff |-> np, attr |-> np]
         /\ users[u].aff # p => users'[u] = users[u]
  BY <1>2 DEF MembersOf
<1>7. UsersOK(users')
  BY <1>2, <1>3, <1>5, <1>6 DEF UsersOK, Inv, TablesOK
<1>8. QED
  BY <1>1, <1>4, <1>5, <1>6, <1>7 DEF np

LEMMA RenameOneKeeps ==
    ASSUME Inv, NEW r \in Handlers, NEW p, RenameOne(r, p) PROVE Inv'
<1>1. /\ NewPath(r, p) \in Paths /\ p \in affs /\ p \in h[r].todo
      /\ DOMAIN users' = DOMAIN users /\ UsersOK(users')
  BY RenameOneUsers
<1>2. /\ affs' = (affs \ {p}) \cup {NewPath(r, p)} /\ UNCHANGED <<valid, conn, saved>>
      /\ conn = r /\ h[r].pc = "loop"
  BY DEF RenameOne, NextToRename
<1>3. PICK next \in {"commit", "loop"} :
        h' = [h EXCEPT ![r] = [h[r] EXCEPT !.pc = next, !.todo = h[r].todo \ {p}]]
  <2> DEFINE at == IF h[r].todo = {p} THEN "commit" ELSE "loop"
  <2>1. at \in {"commit", "loop"}
    OBVIOUS
  <2>2. h' = [h EXCEPT ![r] = [h[r] EXCEPT !.pc = at, !.todo = h[r].todo \ {p}]]
    BY DEF RenameOne
  <2>3. QED
    BY <2>1, <2>2
<1>4. PICK c : c = [h[r] EXCEPT !.pc = next, !.todo = h[r].todo \ {p}]
  OBVIOUS
<1>5. h[r] \in RequestContext /\ ContextOK(h[r]) /\ h[r].todo \subseteq affs
  BY <1>2 DEF Inv, ContextsOK, ConnectionOK
<1>6. /\ c \in RequestContext /\ c.pc = next /\ c.row = h[r].row
      /\ c.todo = h[r].todo \ {p} /\ c.name = h[r].name /\ c.new = h[r].new
  BY <1>3, <1>4, <1>5 DEF RequestContext, PCs
<1>7. ContextOK(c)
  BY <1>2, <1>3, <1>5, <1>6 DEF ContextOK
<1>8. ContextsOK' /\ h'[r] = c /\ \A q \in Handlers : q # r => h'[q] = h[q]
  BY <1>3, <1>4, <1>7, ContextsFrame DEF Inv
<1>9. TablesOK'
  BY <1>1, <1>2 DEF Inv, TablesOK
<1>10. ConnectionOK'
  BY <1>1, <1>2, <1>3, <1>5, <1>6, <1>8 DEF Inv, ConnectionOK
<1>11. QED
  BY <1>8, <1>9, <1>10 DEF Inv

(* The ends of a transaction.                                              *)
LEMMA RenamePanicsKeeps ==
    ASSUME Inv, NEW r \in Handlers, NEW p, RenamePanics(r, p) PROVE Inv'
<1>1. /\ conn = r /\ conn' = Lost /\ UNCHANGED <<affs, users, valid, saved>> /\ Finish(r)
  BY DEF RenamePanics, NextToRename, Tables
<1>2. ContextsOK' /\ h'[r].pc = "idle" /\ \A q \in Handlers : q # r => h'[q] = h[q]
  BY <1>1, FinishKeeps DEF Inv
<1>3. TablesOK'
  BY <1>1 DEF Inv, TablesOK
<1>4. ConnectionOK'
  BY <1>1, <1>2, ConstantFacts DEF Inv, ConnectionOK
<1>5. QED
  BY <1>2, <1>3, <1>4 DEF Inv

LEMMA CommitRenameKeeps ==
    ASSUME Inv, NEW r \in Handlers, CommitRename(r) PROVE Inv'
<1>1. /\ conn = r /\ conn' = Free /\ UNCHANGED <<affs, users, valid>> /\ Finish(r)
      /\ saved'.affs = {} /\ saved'.users = NoUsers
  BY NoUsersOK DEF CommitRename, Tables
<1>2. ContextsOK' /\ h'[r].pc = "idle" /\ \A q \in Handlers : q # r => h'[q] = h[q]
  BY <1>1, FinishKeeps DEF Inv
<1>3. TablesOK'
  BY <1>1, NoUsersOK DEF Inv, TablesOK
<1>4. ConnectionOK'
  BY <1>1, <1>2, ConstantFacts DEF Inv, ConnectionOK
<1>5. QED
  BY <1>2, <1>3, <1>4 DEF Inv

LEMMA RollbackKeeps ==
    ASSUME Inv, NEW r \in Handlers, Rollback(r) PROVE Inv'
<1>1. /\ conn = r /\ conn' = Free /\ valid' = valid /\ Finish(r)
      /\ affs' = saved.affs /\ users' = saved.users
      /\ saved'.affs = {} /\ saved'.users = NoUsers
  BY NoUsersOK DEF Rollback
<1>2. ContextsOK' /\ h'[r].pc = "idle" /\ \A q \in Handlers : q # r => h'[q] = h[q]
  BY <1>1, FinishKeeps DEF Inv
<1>3. DOMAIN saved.users = DOMAIN users
  BY <1>1, ConstantFacts DEF Inv, ConnectionOK
<1>4. TablesOK'
  BY <1>1, <1>3, NoUsersOK DEF Inv, TablesOK
<1>5. ConnectionOK'
  BY <1>1, <1>2, ConstantFacts DEF Inv, ConnectionOK
<1>6. QED
  BY <1>2, <1>4, <1>5 DEF Inv

LEMMA RestartKeeps ==
    ASSUME Inv, Restart PROVE Inv'
<1>1. /\ conn' = Free /\ valid' = valid
      /\ h' = [r \in Handlers |-> Idle]
      /\ saved'.affs = {} /\ saved'.users = NoUsers
      /\ affs' \in {affs, saved.affs}
      /\ users' = IF conn = Free THEN users ELSE saved.users
  BY NoUsersOK DEF Restart
<1>2. ContextsOK' /\ \A q \in Handlers : h'[q].pc = "idle"
  BY <1>1, IdleOK DEF ContextsOK, ContextOK
<1>3. UsersOK(users') /\ DOMAIN users' = DOMAIN users
  BY <1>1 DEF Inv, TablesOK, ConnectionOK
<1>4. TablesOK'
  BY <1>1, <1>3, NoUsersOK DEF Inv, TablesOK
<1>5. ConnectionOK'
  BY <1>1, <1>2, ConstantFacts DEF ConnectionOK
<1>6. QED
  BY <1>2, <1>4, <1>5 DEF Inv

(* The writes to the users table.                                          *)
LEMMA InsertUserKeeps ==
    ASSUME Inv, NEW r \in Handlers, InsertUser(r) PROVE Inv'
<1>1. /\ conn = Free /\ UNCHANGED <<affs, valid, conn, saved>> /\ Finish(r)
      /\ users' = [u \in DOMAIN users \cup {h[r].user} |->
                     IF u = h[r].user THEN h[r].row ELSE users[u]]
      /\ h[r].pc = "insertUser"
  BY DEF InsertUser
<1>2. ContextsOK' /\ h'[r].pc = "idle" /\ \A q \in Handlers : q # r => h'[q] = h[q]
  BY <1>1, FinishKeeps DEF Inv
<1>3. h[r].user \in IDs /\ h[r].row \in UserRecord /\ Agrees(h[r].row)
  BY <1>1 DEF Inv, ContextsOK, ContextOK, RequestContext
<1>4. UsersOK(users') /\ DOMAIN users \subseteq DOMAIN users'
  BY <1>1, <1>3 DEF Inv, TablesOK, UsersOK
<1>5. TablesOK'
  BY <1>1, <1>4 DEF Inv, TablesOK
<1>6. ConnectionOK'
  BY <1>1, <1>2, ConstantFacts DEF Inv, ConnectionOK
<1>7. QED
  BY <1>2, <1>5, <1>6 DEF Inv

LEMMA UpdateUserKeeps ==
    ASSUME Inv, NEW r \in Handlers, UpdateUser(r) PROVE Inv'
<1>1. /\ conn = Free /\ UNCHANGED <<affs, valid, conn, saved>> /\ Finish(r)
      /\ users' = [users EXCEPT ![h[r].user] = h[r].row]
  BY DEF UpdateUser
<1>2. ContextsOK' /\ h'[r].pc = "idle" /\ \A q \in Handlers : q # r => h'[q] = h[q]
  BY <1>1, FinishKeeps DEF Inv
<1>3. h[r].row \in UserRecord /\ Agrees(h[r].row)
  BY <1>1 DEF Inv, ContextsOK, ContextOK, RequestContext
<1>4. UsersOK(users') /\ DOMAIN users = DOMAIN users'
  BY <1>1, <1>3 DEF Inv, TablesOK, UsersOK
<1>5. TablesOK'
  BY <1>1, <1>4 DEF Inv, TablesOK
<1>6. ConnectionOK'
  BY <1>1, <1>2, ConstantFacts DEF Inv, ConnectionOK
<1>7. QED
  BY <1>2, <1>5, <1>6 DEF Inv

(* The two steps of an enrollment.                                         *)
LEMMA EnrollLookupKeeps ==
    ASSUME Inv, NEW r \in Handlers, EnrollLookup(r)
    PROVE  /\ Inv' /\ conn = Free /\ UNCHANGED <<affs, users, valid, conn, saved>>
           /\ \E u \in DOMAIN users : \E c :
                h' = [h EXCEPT ![r] = c] /\ ContextOK(c) /\ c.pc = "sign" /\ c.user = u
<1>1. PICK u \in DOMAIN users : h' = [h EXCEPT ![r] = [Idle EXCEPT !.pc = "sign", !.user = u]]
  BY DEF EnrollLookup
<1>2. conn = Free /\ UNCHANGED <<affs, users, valid, conn, saved>>
  BY DEF EnrollLookup, Tables
<1>3. u \in IDs
  BY DEF Inv, TablesOK, UsersOK
<1>4. PICK c : c = [Idle EXCEPT !.pc = "sign", !.user = u]
  OBVIOUS
<1>5. c \in RequestContext /\ c.pc = "sign" /\ c.row = NoRow /\ c.user = u
  BY <1>3, <1>4, IdleOK, ConstantFacts DEF Idle, RequestContext, PCs
<1>6. ContextOK(c)
  BY <1>3, <1>5, ConstantFacts DEF ContextOK
<1>7. ContextsOK' /\ h'[r] = c /\ \A q \in Handlers : q # r => h'[q] = h[q]
  BY <1>1, <1>4, <1>6, ContextsFrame DEF Inv
<1>8. TablesOK'
  BY <1>2 DEF Inv, TablesOK
<1>9. ConnectionOK'
  BY <1>2, <1>5, <1>7, ConstantFacts DEF Inv, ConnectionOK
<1>10. QED
  BY <1>1, <1>2, <1>4, <1>5, <1>6, <1>7, <1>8, <1>9 DEF Inv

LEMMA SignKeeps ==
    ASSUME Inv, NEW r \in Handlers, Sign(r) PROVE Inv'
<1>1. /\ conn = Free /\ UNCHANGED <<affs, users, conn, saved>> /\ Finish(r)
      /\ valid' = valid \cup {h[r].user} /\ h[r].pc = "sign"
  BY DEF Sign
<1>2. ContextsOK' /\ h'[r].pc = "idle" /\ \A q \in Handlers : q # r => h'[q] = h[q]
  BY <1>1, FinishKeeps DEF Inv
<1>3. h[r].user \in IDs
  BY <1>1 DEF Inv, ContextsOK, ContextOK
<1>4. TablesOK'
  BY <1>1, <1>3 DEF Inv, TablesOK
<1>5. ConnectionOK'
  BY <1>1, <1>2, ConstantFacts DEF Inv, ConnectionOK
<1>6. QED
  BY <1>2, <1>4, <1>5 DEF Inv

-----------------------------------------------------------------------------
LEMMA InvInit == Init => Inv
<1> SUFFICES ASSUME Init PROVE Inv
  OBVIOUS
<1>1. ContextsOK /\ \A r \in Handlers : h[r].pc = "idle"
  BY IdleOK DEF Init, ContextsOK, ContextOK
<1>2. /\ affs \subseteq Paths /\ valid = {} /\ DOMAIN Configured \subseteq IDs
      /\ saved.affs = {} /\ saved.users = NoUsers /\ conn = Free
      /\ \A u \in DOMAIN Configured : Configured[u] \in Paths \cup {Root}
  BY AffiliationConstantsOK, NoUsersOK DEF Init, AffiliationConstantsOK
<1>3. users = [u \in DOMAIN Configured |-> [aff |-> Configured[u], attr |-> NoAttr]]
  BY DEF Init
<1>4. \A p \in Paths \cup {Root} : /\ [aff |-> p, attr |-> NoAttr] \in UserRecord
                                    /\ Agrees([aff |-> p, attr |-> NoAttr])
  BY DEF UserRecord, Agrees
<1>5. UsersOK(users)
  BY <1>2, <1>3, <1>4 DEF UsersOK
<1>6. TablesOK /\ ConnectionOK
  BY <1>1, <1>2, <1>5, NoUsersOK, ConstantFacts DEF TablesOK, ConnectionOK
<1>7. QED
  BY <1>1, <1>6 DEF Inv

(* The steps of the specification, by what they do.                        *)
LEMMA Steps ==
    ASSUME [Next]_vars
    PROVE  \/ UNCHANGED vars
           \/ \E r \in Handlers :
                \/ Looks(r) \/ InsertAffiliation(r) \/ DeleteAffiliation(r)
                \/ BeginRename(r) \/ CommitRename(r) \/ Rollback(r)
                \/ \E p \in h[r].todo : RenameOne(r, p) \/ RenamePanics(r, p)
                \/ InsertUser(r) \/ UpdateUser(r) \/ EnrollLookup(r) \/ Sign(r)
           \/ Restart
BY DEF Next, Looks

LEMMA InvStep == Inv /\ [Next]_vars => Inv'
<1> SUFFICES ASSUME Inv, [Next]_vars PROVE Inv'
  OBVIOUS
<1>1. CASE UNCHANGED vars
  BY <1>1 DEF vars, Inv, ContextsOK, ContextOK, TablesOK, ConnectionOK
<1>2. ASSUME NEW r \in Handlers, Looks(r) PROVE Inv'
  BY <1>2, LooksAreContextSteps, ContextStepKeeps
<1>3. QED
  BY <1>1, <1>2, Steps, InsertAffiliationKeeps, DeleteAffiliationKeeps, BeginRenameKeeps,
     CommitRenameKeeps, RollbackKeeps, RenameOneKeeps, RenamePanicsKeeps, InsertUserKeeps,
     UpdateUserKeeps, EnrollLookupKeeps, SignKeeps, RestartKeeps

LEMMA InvAlways == Spec => []Inv
BY InvInit, InvStep, PTL DEF Spec

(* Every state of the affiliations is type correct, whatever the requests. *)
THEOREM AffiliationsTypeCorrect == Spec => []TypeOK
<1>1. Inv => TypeOK
  BY DEF Inv, ContextsOK, TablesOK, UsersOK, ConnectionOK, TypeOK
<1>2. QED
  BY <1>1, InvAlways, PTL

(* The attribute hf.Affiliation never contradicts the affiliation column:  *)
(* also in the rows that handlers hold and in those that a rollback brings *)
(* back.                                                                   *)
THEOREM AttributesAgree == Spec => []AttributeAgrees
<1>1. Inv => AttributeAgrees
  BY DEF Inv, TablesOK, UsersOK, AttributeAgrees, Agrees
<1>2. QED
  BY <1>1, InvAlways, PTL

-----------------------------------------------------------------------------
(* What a renaming has done so far, compared with the state it began in:   *)
(* without force and a registrar no identity has moved, and nobody is      *)
(* without an affiliation who had one.                                     *)

Moves(r) == h[r].force /\ h[r].registrar

UnforcedInv == \A r \in Handlers : conn = r /\ ~Moves(r) => users = saved.users

OrphansInv ==
    conn # Free =>
      \A u \in DOMAIN users : users[u].aff \notin affs \cup {Root}
                                 => saved.users[u].aff \notin saved.affs \cup {Root}

(* The steps outside of the loop.                                          *)
LEMMA QuietStep ==
    ASSUME Inv, [Next]_vars
    PROVE  \/ UNCHANGED <<affs, users, conn, saved>> /\ \A r \in Handlers : conn = r => h'[r] = h[r]
           \/ conn = Free /\ conn' = Free
           \/ conn' \in {Free, Lost} /\ UNCHANGED <<affs, users, saved>>
           \/ conn' = Free
           \/ \E r \in Handlers : BeginRename(r) \/ \E p \in h[r].todo : RenameOne(r, p)
<1>1. CASE UNCHANGED vars
  BY <1>1 DEF vars
<1>2. ASSUME NEW r \in Handlers, Looks(r)
      PROVE  UNCHANGED <<affs, users, conn, saved>> /\ \A q \in Handlers : conn = q => h'[q] = h[q]
  <2>1. PICK c : ContextStep(r, c)
    BY <1>2, LooksAreContextSteps
  <2>2. QED
    BY <2>1, ContextsFrame DEF ContextStep, Inv
<1>3. ASSUME NEW r \in Handlers, InsertAffiliation(r) \/ DeleteAffiliation(r) \/ InsertUser(r)
                                 \/ UpdateUser(r) \/ EnrollLookup(r) \/ Sign(r)
      PROVE  conn = Free /\ conn' = Free
  BY <1>3 DEF InsertAffiliation, DeleteAffiliation, InsertUser, UpdateUser, EnrollLookup, Sign
<1>4. ASSUME NEW r \in Handlers, NEW p, RenamePanics(r, p)
      PROVE  conn' \in {Free, Lost} /\ UNCHANGED <<affs, users, saved>>
  BY <1>4 DEF RenamePanics, Tables
<1>5. ASSUME NEW r \in Handlers, CommitRename(r) \/ Rollback(r) \/ Restart PROVE conn' = Free
  BY <1>5 DEF CommitRename, Rollback, Restart
<1>6. Restart => conn' = Free
  BY DEF Restart
<1>7. QED
  BY <1>1, <1>2, <1>3, <1>4, <1>5, <1>6, Steps

LEMMA UnforcedStep == Inv /\ UnforcedInv /\ [Next]_vars => UnforcedInv'
<1> SUFFICES ASSUME Inv, UnforcedInv, [Next]_vars, NEW q \in Handlers, conn' = q, ~Moves(q)'
             PROVE  users' = saved'.users
  BY DEF UnforcedInv
<1>0. q # Free /\ q # Lost
  BY ConstantFacts
<1>1. CASE UNCHANGED <<affs, users, conn, saved>> /\ \A r \in Handlers : conn = r => h'[r] = h[r]
  BY <1>1 DEF UnforcedInv, Moves
<1>2. ASSUME NEW r \in Handlers, BeginRename(r) PROVE users' = saved'.users
  BY <1>2 DEF BeginRename, Tables
<1>3. ASSUME NEW r \in Handlers, NEW p \in h[r].todo, RenameOne(r, p)
      PROVE  users' = saved'.users
  <2>1. conn = r /\ r = q /\ saved' = saved
    BY <1>3 DEF RenameOne, NextToRename
  <2>2. Moves(r)' <=> Moves(r)
    <3> DEFINE at == IF h[r].todo = {p} THEN "commit" ELSE "loop"
    <3>1. h' = [h EXCEPT ![r] = [h[r] EXCEPT !.pc = at, !.todo = h[r].todo \ {p}]]
      BY <1>3 DEF RenameOne
    <3>2. h \in [Handlers -> RequestContext] /\ h[r] \in RequestContext
      BY DEF Inv, ContextsOK
    <3> HIDE DEF at
    <3>3. h'[r].force = h[r].force /\ h'[r].registrar = h[r].registrar
      BY <3>1, <3>2 DEF RequestContext
    <3>4. QED
      BY <3>3 DEF Moves
  <2>3. MembersOf(p) = {} /\ users = saved.users
    BY <1>3, <2>1, <2>2 DEF RenameOne, NextToRename, Moves, UnforcedInv
  <2>4. \A u \in DOMAIN users : users'[u] = users[u]
    BY <1>3, <2>3, RenameOneUsers DEF MembersOf
  <2>5. users' = users
    BY <1>3, <2>4 DEF RenameOne, Inv, TablesOK, UsersOK
  <2>6. QED
    BY <2>1, <2>3, <2>5
<1>4. QED
  BY <1>0, <1>1, <1>2, <1>3, QuietStep

LEMMA OrphansStep == Inv /\ OrphansInv /\ [Next]_vars => OrphansInv'
<1> SUFFICES ASSUME Inv, OrphansInv, [Next]_vars, conn' # Free,
                    NEW u \in DOMAIN users', users'[u].aff \notin affs' \cup {Root}
             PROVE  saved'.users[u].aff \notin saved'.affs \cup {Root}
  BY DEF OrphansInv
<1>1. CASE UNCHANGED <<affs, users, conn, saved>>
  BY <1>1 DEF OrphansInv
<1>2. CASE UNCHANGED <<affs, users, saved>> /\ conn # Free
  BY <1>2 DEF OrphansInv
<1>3. ASSUME NEW r \in Handlers, BeginRename(r)
      PROVE  saved'.users[u].aff \notin saved'.affs \cup {Root}
  BY <1>3 DEF BeginRename, Tables
<1>4. ASSUME NEW r \in Handlers, NEW p \in h[r].todo, RenameOne(r, p)
      PROVE  saved'.users[u].aff \notin saved'.affs \cup {Root}
  <2>1. /\ conn = r /\ saved' = saved /\ r # Free
        /\ affs' = (affs \ {p}) \cup {NewPath(r, p)}
    BY <1>4, ConstantFacts DEF RenameOne, NextToRename
  <2>2. u \in DOMAIN users /\ users[u].aff # p /\ users'[u] = users[u]
    BY <1>4, <2>1, RenameOneUsers
  <2>3. users[u].aff \notin affs \cup {Root}
    BY <2>1, <2>2
  <2>4. QED
    BY <2>1, <2>2, <2>3 DEF OrphansInv
<1>5. ASSUME NEW r \in Handlers, NEW p \in h[r].todo, RenamePanics(r, p)
      PROVE  UNCHANGED <<affs, users, saved>> /\ conn # Free
  BY <1>5, ConstantFacts DEF RenamePanics, NextToRename, Tables
<1>6. \A r \in Handlers : Looks(r) => UNCHANGED <<affs, users, conn, saved>>
  BY LooksAreContextSteps DEF ContextStep
<1>7. \A r \in Handlers : ~(\/ InsertAffiliation(r) \/ DeleteAffiliation(r) \/ InsertUser(r)
                           \/ UpdateUser(r) \/ CommitRename(r) \/ Rollback(r)
                           \/ EnrollLookup(r) \/ Sign(r))
  BY DEF InsertAffiliation, DeleteAffiliation, InsertUser, UpdateUser, CommitRename, Rollback,
         EnrollLookup, Sign
<1>8. ~Restart
  BY DEF Restart
<1>9. UNCHANGED vars => UNCHANGED <<affs, users, conn, saved>>
  BY DEF vars
<1>10. QED
  BY <1>1, <1>2, <1>3, <1>4, <1>5, <1>6, <1>7, <1>8, <1>9, Steps

(* Only the end of a transaction and the direct writes change what is      *)
(* committed.                                                              *)
LEMMA CommittedSteps ==
    ASSUME Inv, [Next]_vars
    PROVE  \/ UNCHANGED <<CommittedAffs, CommittedUsers>>
           \/ \E r \in Handlers : \/ InsertAffiliation(r) \/ DeleteAffiliation(r)
                                  \/ InsertUser(r) \/ UpdateUser(r) \/ CommitRename(r)
<1> DEFINE Same == UNCHANGED <<CommittedAffs, CommittedUsers>>
<1> USE DEF CommittedAffs, CommittedUsers
<1>1. UNCHANGED vars => Same
  BY DEF vars
<1>2. \A r \in Handlers : Looks(r) => Same
  BY LooksAreContextSteps DEF ContextStep
<1>3. ASSUME NEW r \in Handlers, BeginRename(r) PROVE Same
  BY <1>3, ConstantFacts DEF BeginRename
<1>4. ASSUME NEW r \in Handlers, NEW p, RenameOne(r, p) \/ RenamePanics(r, p) PROVE Same
  BY <1>4, ConstantFacts DEF RenameOne, RenamePanics, NextToRename
<1>5. ASSUME NEW r \in Handlers, Rollback(r) PROVE Same
  BY <1>5, ConstantFacts DEF Rollback
<1>6. Restart => Same
  BY DEF Restart
<1>7. \A r \in Handlers : EnrollLookup(r) \/ Sign(r) => Same
  BY DEF EnrollLookup, Sign, Tables
<1>8. QED
  BY <1>1, <1>2, <1>3, <1>4, <1>5, <1>6, <1>7, Steps

(* Removals and renamings leave no identity behind: only a write of a      *)
(* stale row puts an identity at an affiliation that does not exist.       *)
THEOREM OrphansAreStaleWrites == Spec => OnlyStaleWritesOrphan
<1> DEFINE Stale(u) == \E r \in Handlers : /\ h[r].pc \in {"insertUser", "updateUser"}
                                           /\ h[r].user = u
                                           /\ h[r].row.aff \notin affs
<1>1. ASSUME Inv, OrphansInv, [Next]_vars, NEW u \in IDs, Orphan(u)'
      PROVE  Orphan(u) \/ Stale(u)
  <2>1. CASE UNCHANGED <<CommittedAffs, CommittedUsers>>
    BY <1>1, <2>1 DEF Orphan
  <2>2. ASSUME NEW r \in Handlers, InsertAffiliation(r) PROVE Orphan(u)
    <3>1. conn = Free /\ conn' = Free /\ users' = users /\ affs \subseteq affs'
      BY <2>2 DEF InsertAffiliation
    <3>2. QED
      BY <1>1, <3>1 DEF Orphan, CommittedAffs, CommittedUsers
  <2>3. ASSUME NEW r \in Handlers, DeleteAffiliation(r) PROVE Orphan(u)
    <3>1. conn = Free /\ conn' = Free
      BY <2>3 DEF DeleteAffiliation
    <3>2. u \in DOMAIN users' /\ users'[u].aff \notin affs' \cup {Root}
      BY <1>1, <3>1 DEF Orphan, CommittedAffs, CommittedUsers
    <3>3. u \in DOMAIN users /\ users'[u] = users[u] /\ users[u].aff \notin affs
      BY <2>3, <3>2 DEF DeleteAffiliation
    <3>4. QED
      BY <3>1, <3>2, <3>3 DEF Orphan, CommittedAffs, CommittedUsers
  <2>4. ASSUME NEW r \in Handlers, InsertUser(r) \/ UpdateUser(r) PROVE Orphan(u) \/ Stale(u)
    <3>1. /\ conn = Free /\ conn' = Free /\ affs' = affs
          /\ h[r].pc \in {"insertUser", "updateUser"}
          /\ \A v \in DOMAIN users' : \/ v = h[r].user /\ users'[v] = h[r].row
                                      \/ v \in DOMAIN users /\ users'[v] = users[v]
      BY <2>4 DEF InsertUser, UpdateUser, Inv, TablesOK, UsersOK
    <3>2. u \in DOMAIN users' /\ users'[u].aff \notin affs \cup {Root}
      BY <1>1, <3>1 DEF Orphan, CommittedAffs, CommittedUsers
    <3>3. CASE u = h[r].user /\ users'[u] = h[r].row
      BY <3>1, <3>2, <3>3
    <3>4. CASE u \in DOMAIN users /\ users'[u] = users[u]
      BY <3>1, <3>2, <3>4 DEF Orphan, CommittedAffs, CommittedUsers
    <3>5. QED
      BY <3>1, <3>2, <3>3, <3>4
  <2>5. ASSUME NEW r \in Handlers, CommitRename(r) PROVE Orphan(u)
    <3>1. conn # Free /\ conn' = Free /\ UNCHANGED <<affs, users>>
      BY <2>5, ConstantFacts DEF CommitRename, Tables
    <3>2. u \in DOMAIN users /\ users[u].aff \notin affs \cup {Root}
      BY <1>1, <3>1 DEF Orphan, CommittedAffs, CommittedUsers
    <3>3. DOMAIN saved.users = DOMAIN users
      BY <1>1, <3>1 DEF Inv, ConnectionOK
    <3>4. QED
      BY <1>1, <3>1, <3>2, <3>3 DEF Orphan, CommittedAffs, CommittedUsers, OrphansInv
  <2>6. QED
    BY <1>1, <2>1, <2>2, <2>3, <2>4, <2>5, CommittedSteps
<1>2. Init => OrphansInv
  BY DEF Init, OrphansInv
<1>3. Inv /\ OrphansInv /\ [Next]_vars => StaleWriteOrphans
  BY <1>1 DEF StaleWriteOrphans
<1>4. QED
  BY <1>2, <1>3, InvAlways, OrphansStep, PTL DEF Spec, OnlyStaleWritesOrphan

(* Identities are moved or removed only for a registrar that said force,   *)
(* whatever was registered while the request was being processed.          *)
THEOREM ForceIsNeeded == Spec => IdentitiesNeedForce
<1>1. ASSUME Inv, UnforcedInv, [Next]_vars, NEW r \in Handlers, h[r].pc \in {"delete", "commit"},
             h'[r].pc = "idle", CommittedAffs' # CommittedAffs
      PROVE  CommittedUsers' = CommittedUsers \/ Moves(r)
  <2>0. ContextsOK /\ h \in [Handlers -> RequestContext]
    BY <1>1 DEF Inv, ContextsOK
  <2>1. ASSUME NEW q \in Handlers, h' = [h EXCEPT ![q] = Idle] PROVE q = r
    BY <1>1, <2>0, <2>1
  <2>2. ASSUME NEW q \in Handlers, InsertUser(q) \/ UpdateUser(q) PROVE FALSE
    BY <1>1, <2>2 DEF InsertUser, UpdateUser, CommittedAffs
  <2>3. ASSUME NEW q \in Handlers, InsertAffiliation(q) PROVE FALSE
    <3>1. h[q].pc = "insert" /\ \E c : h' = [h EXCEPT ![q] = c]
      BY <2>3 DEF InsertAffiliation
    <3>2. QED
      BY <1>1, <2>0, <3>1
  <2>4. ASSUME NEW q \in Handlers, DeleteAffiliation(q)
        PROVE  CommittedUsers' = CommittedUsers \/ Moves(r)
    <3> DEFINE ids == {u \in DOMAIN users : \/ users[u].aff = h[q].name
                                            \/ Like(h[q].name, users[u].aff)}
    <3>1. /\ conn = Free /\ conn' = Free /\ q = r
          /\ users' = [u \in DOMAIN users \ ids |-> users[u]]
          /\ ids # {} => Moves(q)
      BY <2>1, <2>4 DEF DeleteAffiliation, Finish, Moves
    <3>2. ids = {} => users' = users
      BY <1>1, <3>1 DEF Inv, TablesOK, UsersOK
    <3>3. QED
      BY <3>1, <3>2 DEF CommittedUsers
  <2>5. ASSUME NEW q \in Handlers, CommitRename(q)
        PROVE  CommittedUsers' = CommittedUsers \/ Moves(r)
    <3>1. conn = q /\ q # Free /\ conn' = Free /\ q = r /\ users' = users
      BY <2>1, <2>5, ConstantFacts DEF CommitRename, Finish, Tables
    <3>2. QED
      BY <1>1, <3>1 DEF UnforcedInv, CommittedUsers
  <2>6. QED
    BY <1>1, <2>2, <2>3, <2>4, <2>5, CommittedSteps
<1>2. Init => UnforcedInv
  BY ConstantFacts DEF Init, UnforcedInv
<1>3. Inv /\ UnforcedInv /\ [Next]_vars =>
        \A r \in Handlers : /\ h[r].pc \in {"delete", "commit"}
                            /\ h'[r].pc = "idle"
                            /\ CommittedAffs' # CommittedAffs
                            => \/ CommittedUsers' = CommittedUsers
                               \/ h[r].force /\ h[r].registrar
  BY <1>1 DEF Moves
<1>4. QED
  BY <1>2, <1>3, InvAlways, UnforcedStep, PTL DEF Spec, IdentitiesNeedForce

-----------------------------------------------------------------------------
(* The refinement of AffiliationTree.                                      *)

LEMMA TreeNames ==
    ASSUME NEW p, NEW n, NEW m
    PROVE  /\ Tree!Below(n, p) <=> p = n \/ Like(n, p)
           /\ Tree!Rebase(p, n, m) = Rebase(p, n, m)
<1>1. Tree!Below(n, p) <=> p = n \/ Like(n, p)
  BY DEF Tree!Below, Tree!SeemsBelow, Like, SeemsBelow
<1>2. Tree!Rebase(p, n, m) = Rebase(p, n, m)
  BY DEF Tree!Rebase, Rebase, Tree!ReplaceFirstSubSeq, ReplaceFirstSubSeq, Tree!SubSeqs, SubSeqs,
         Tree!IndexFirstSubSeq, IndexFirstSubSeq, Tree!ReplaceSubSeqAt, ReplaceSubSeqAt
<1>3. QED
  BY <1>1, <1>2

(* Where the renaming of r puts p.                                         *)
Put(r, p) == IF p = h[r].name \/ Like(h[r].name, p) THEN NewPath(r, p) ELSE p

(* How far the renaming of r has come, in terms of the tables as they were *)
(* when its transaction began.  No new name collides with one that is      *)
(* still to be renamed, with one that stays, or with another new name.     *)
Moving(r) == {h[r].name} \cup {p \in saved.affs : Like(h[r].name, p)}
Done(r) == Moving(r) \ h[r].todo

RenamingOK(r) ==
    /\ h[r].name \in saved.affs /\ h[r].todo \subseteq Moving(r)
    /\ h[r].pc = "commit" => h[r].todo = {}
    /\ affs = (saved.affs \ Done(r)) \cup {NewPath(r, p) : p \in Done(r)}
    /\ \A p \in Done(r) : NewPath(r, p) \notin h[r].todo \cup (saved.affs \ Moving(r))
    /\ \A p, q \in Done(r) : NewPath(r, p) = NewPath(r, q) => p = q
    /\ \A u \in DOMAIN users :
         users[u].aff = IF saved.users[u].aff \in Done(r) THEN NewPath(r, saved.users[u].aff)
                                                          ELSE saved.users[u].aff

RenamingInv == \A r \in Handlers : conn = r => RenamingOK(r)

LEMMA BeginRenaming ==
    ASSUME Inv, NEW r \in Handlers, BeginRename(r)
    PROVE  RenamingOK(r)'
<1>1. PICK moving : /\ moving = {h[r].name} \cup {p \in affs : Like(h[r].name, p)}
                    /\ h' = [h EXCEPT ![r] = [h[r] EXCEPT !.pc = "loop", !.todo = moving]]
  BY DEF BeginRename
<1>2. /\ UNCHANGED <<affs, users>> /\ h[r].name \in affs
      /\ saved'.affs = affs /\ saved'.users = users
  BY DEF BeginRename, Tables
<1>3. h'[r].pc = "loop" /\ h'[r].todo = moving /\ h'[r].name = h[r].name
  BY <1>1 DEF Inv, ContextsOK, RequestContext
<1>4. Moving(r)' = moving /\ Done(r)' = {}
  BY <1>1, <1>2, <1>3 DEF Moving, Done
<1>5. QED
  BY <1>2, <1>3, <1>4 DEF RenamingOK

LEMMA RenameOneContext ==
    ASSUME Inv, NEW r \in Handlers, NEW p, RenameOne(r, p)
    PROVE  /\ h'[r].name = h[r].name /\ h'[r].new = h[r].new
           /\ h'[r].todo = h[r].todo \ {p}
           /\ h'[r].pc = "commit" => h[r].todo = {p}
<1> DEFINE at == IF h[r].todo = {p} THEN "commit" ELSE "loop"
<1>1. h' = [h EXCEPT ![r] = [h[r] EXCEPT !.pc = at, !.todo = h[r].todo \ {p}]]
  BY DEF RenameOne
<1>2. h \in [Handlers -> RequestContext] /\ h[r] \in RequestContext
  BY DEF Inv, ContextsOK
<1>3. at = "commit" => h[r].todo = {p}
  OBVIOUS
<1> HIDE DEF at
<1>4. QED
  BY <1>1, <1>2, <1>3 DEF RequestContext

LEMMA RenameOneRenaming ==
    ASSUME Inv, NEW r \in Handlers, RenamingOK(r), NEW p, RenameOne(r, p)
    PROVE  RenamingOK(r)'
<1>1. /\ h'[r].name = h[r].name /\ h'[r].new = h[r].new
      /\ h'[r].todo = h[r].todo \ {p}
      /\ h'[r].pc = "commit" => h[r].todo = {p}
      /\ saved' = saved
  BY RenameOneContext DEF RenameOne
<1>2. PICK M, D, todo, base :
        /\ M = Moving(r) /\ D = Done(r) /\ todo = h[r].todo /\ base = saved.affs
  OBVIOUS
<1>3. PICK N : N = [q \in M |-> NewPath(r, q)]
  OBVIOUS
<1>4. \A q \in M : N[q] = NewPath(r, q) /\ NewPath(r, q)' = NewPath(r, q)
  BY <1>1, <1>3 DEF NewPath
<1>5. /\ todo \subseteq M /\ D = M \ todo /\ p \in todo /\ p \in affs
      /\ Moving(r)' = M /\ Done(r)' = D \cup {p} /\ M \subseteq base
      /\ h[r].name \in base
  <2>1. p \in h[r].todo /\ p \in affs
    BY RenameOneUsers
  <2>2. Moving(r)' = M
    BY <1>1, <1>2 DEF Moving
  <2>3. todo \subseteq M /\ D = M \ todo /\ h[r].name \in base /\ M \subseteq base
    BY <1>2 DEF RenamingOK, Done, Moving
  <2>4. Done(r)' = M \ (todo \ {p})
    BY <1>1, <1>2, <2>2 DEF Done
  <2>5. QED
    BY <1>2, <2>1, <2>2, <2>3, <2>4
<1>6. /\ affs = (base \ D) \cup {N[q] : q \in D}
      /\ \A q \in D : N[q] \notin todo \cup (base \ M)
      /\ \A q, s \in D : N[q] = N[s] => q = s
  <2>1. {NewPath(r, q) : q \in D} = {N[q] : q \in D}
    BY <1>4, <1>5
  <2>2. QED
    BY <1>2, <1>4, <1>5, <2>1 DEF RenamingOK
<1>7. /\ N[p] \notin affs \ {p} /\ affs' = (affs \ {p}) \cup {N[p]}
      /\ todo \subseteq affs
  BY <1>2, <1>4, <1>5 DEF RenameOne, NextToRename, Inv, ConnectionOK
<1>8. affs' = (base \ (D \cup {p})) \cup {N[q] : q \in D \cup {p}}
  BY <1>5, <1>6, <1>7
<1>9. \A q \in D \cup {p} : N[q] \notin (todo \ {p}) \cup (base \ M)
  <2>1. base \ M \subseteq affs \ {p}
    BY <1>5, <1>6
  <2>2. QED
    BY <1>5, <1>6, <1>7, <2>1
<1>10. \A q, s \in D \cup {p} : N[q] = N[s] => q = s
  <2>1. \A q \in D : N[q] # N[p]
    BY <1>5, <1>6, <1>7
  <2>2. QED
    BY <1>6, <2>1
<1>11. ASSUME NEW u \in DOMAIN users'
       PROVE  users'[u].aff = IF saved.users[u].aff \in D \cup {p} THEN N[saved.users[u].aff]
                                                                  ELSE saved.users[u].aff
  <2>1. /\ u \in DOMAIN users
        /\ users[u].aff = p => users'[u].aff = N[p]
        /\ users[u].aff # p => users'[u] = users[u]
    BY <1>4, <1>5, <1>11, RenameOneUsers
  <2>2. PICK a : a = saved.users[u].aff
    OBVIOUS
  <2>3. users[u].aff = IF a \in D THEN N[a] ELSE a
    BY <1>2, <1>4, <1>5, <2>1, <2>2 DEF RenamingOK
  <2>4. CASE a \in D
    BY <1>5, <1>6, <2>1, <2>2, <2>3, <2>4
  <2>5. CASE a \notin D
    BY <1>5, <2>1, <2>2, <2>3, <2>5
  <2>6. QED
    BY <2>4, <2>5
<1>12. /\ {NewPath(r, q)' : q \in D \cup {p}} = {N[q] : q \in D \cup {p}}
       /\ D \cup {p} \subseteq M
  BY <1>4, <1>5
<1>13. QED
  <2>1. h'[r].name \in saved'.affs /\ h'[r].todo \subseteq Moving(r)'
    BY <1>1, <1>2, <1>5
  <2>2. h'[r].pc = "commit" => h'[r].todo = {}
    BY <1>1
  <2>3. affs' = (saved'.affs \ Done(r)') \cup {NewPath(r, q)' : q \in Done(r)'}
    BY <1>1, <1>2, <1>5, <1>8, <1>12
  <2>4. \A q \in Done(r)' : NewPath(r, q)' \notin h'[r].todo \cup (saved'.affs \ Moving(r)')
    BY <1>1, <1>2, <1>4, <1>5, <1>9, <1>12
  <2>5. \A q, s \in Done(r)' : NewPath(r, q)' = NewPath(r, s)' => q = s
    BY <1>4, <1>5, <1>10, <1>12
  <2>6. \A u \in DOMAIN users' :
          users'[u].aff = IF saved'.users[u].aff \in Done(r)'
                          THEN NewPath(r, saved.users[u].aff)' ELSE saved'.users[u].aff
    BY <1>1, <1>4, <1>5, <1>11, <1>12
  <2>7. QED
    BY <1>1, <2>1, <2>2, <2>3, <2>4, <2>5, <2>6 DEF RenamingOK

LEMMA RenamingStep == Inv /\ RenamingInv /\ [Next]_vars => RenamingInv'
<1> SUFFICES ASSUME Inv, RenamingInv, [Next]_vars, NEW q \in Handlers, conn' = q
             PROVE  RenamingOK(q)'
  BY DEF RenamingInv
<1>0. q # Free /\ q # Lost
  BY ConstantFacts
<1>1. CASE UNCHANGED <<affs, users, conn, saved>> /\ \A r \in Handlers : conn = r => h'[r] = h[r]
  <2>1. h'[q] = h[q] /\ RenamingOK(q)
    BY <1>1 DEF RenamingInv
  <2>2. Moving(q)' = Moving(q) /\ Done(q)' = Done(q)
    BY <1>1, <2>1 DEF Moving, Done
  <2>3. \A p : NewPath(q, p)' = NewPath(q, p)
    BY <2>1 DEF NewPath
  <2>4. {NewPath(q, p)' : p \in Done(q)} = {NewPath(q, p) : p \in Done(q)}
    BY <2>3
  <2>5. affs' = (saved'.affs \ Done(q)') \cup {NewPath(q, p)' : p \in Done(q)'}
    BY <1>1, <2>1, <2>2, <2>4 DEF RenamingOK
  <2>6. /\ \A p \in Done(q)' : NewPath(q, p)' \notin h'[q].todo \cup (saved'.affs \ Moving(q)')
        /\ \A p, s \in Done(q)' : NewPath(q, p)' = NewPath(q, s)' => p = s
    BY <1>1, <2>1, <2>2, <2>3 DEF RenamingOK
  <2>7. \A u \in DOMAIN users' :
          users'[u].aff = IF saved'.users[u].aff \in Done(q)'
                          THEN NewPath(q, saved.users[u].aff)' ELSE saved'.users[u].aff
    BY <1>1, <2>1, <2>2, <2>3 DEF RenamingOK
  <2>8. /\ h'[q].name \in saved'.affs /\ h'[q].todo \subseteq Moving(q)'
        /\ h'[q].pc = "commit" => h'[q].todo = {}
    BY <1>1, <2>1, <2>2 DEF RenamingOK
  <2>9. QED
    BY <1>1, <2>5, <2>6, <2>7, <2>8 DEF RenamingOK
<1>2. ASSUME NEW r \in Handlers, BeginRename(r) PROVE RenamingOK(q)'
  BY <1>2, BeginRenaming DEF BeginRename
<1>3. ASSUME NEW r \in Handlers, NEW p \in h[r].todo, RenameOne(r, p) PROVE RenamingOK(q)'
  <2>1. conn = r /\ r = q
    BY <1>3 DEF RenameOne, NextToRename
  <2>2. QED
    BY <1>3, <2>1, RenameOneRenaming DEF RenamingInv
<1>4. QED
  BY <1>0, <1>1, <1>2, <1>3, QuietStep

(* A renaming that commits has moved everything at or below its name.      *)
LEMMA CommitIsRename ==
    ASSUME Inv, NEW r \in Handlers, RenamingOK(r), CommitRename(r)
    PROVE  /\ h[r].name \in Paths /\ h[r].new \in Paths
           /\ h[r].name \in saved.affs
           /\ affs = {Put(r, p) : p \in saved.affs}
           /\ \A p, q \in saved.affs : Put(r, p) = Put(r, q) => p = q
           /\ DOMAIN users = DOMAIN saved.users
           /\ \A u \in DOMAIN users :
                users[u].aff = IF saved.users[u].aff \in saved.affs
                               THEN Put(r, saved.users[u].aff) ELSE saved.users[u].aff
<1>1. h[r].pc = "commit" /\ conn = r /\ conn # Free
  BY ConstantFacts DEF CommitRename
<1>2. /\ h[r].name \in Paths /\ h[r].new \in Paths /\ DOMAIN users = DOMAIN saved.users
      /\ saved.affs \subseteq Paths
  BY <1>1 DEF Inv, ContextsOK, ContextOK, ConnectionOK, TablesOK
<1>3. PICK M : M = Moving(r)
  OBVIOUS
<1>4. Done(r) = M /\ M \subseteq saved.affs /\ h[r].name \in saved.affs
  BY <1>1, <1>3 DEF RenamingOK, Done, Moving
<1>5. /\ \A p \in saved.affs \ M : Put(r, p) = p
      /\ \A p \in M : Put(r, p) = NewPath(r, p)
  BY <1>3 DEF Moving, Put
<1>6. /\ affs = (saved.affs \ M) \cup {NewPath(r, p) : p \in M}
      /\ \A p \in M : NewPath(r, p) \notin saved.affs \ M
      /\ \A p, q \in M : NewPath(r, p) = NewPath(r, q) => p = q
      /\ \A u \in DOMAIN users :
           users[u].aff = IF saved.users[u].aff \in M THEN NewPath(r, saved.users[u].aff)
                                                      ELSE saved.users[u].aff
  BY <1>3, <1>4 DEF RenamingOK
<1>7. affs = {Put(r, p) : p \in saved.affs}
  BY <1>4, <1>5, <1>6
<1>8. \A p, q \in saved.affs : Put(r, p) = Put(r, q) => p = q
  BY <1>4, <1>5, <1>6
<1>9. \A u \in DOMAIN users :
         users[u].aff = IF saved.users[u].aff \in saved.affs
                        THEN Put(r, saved.users[u].aff) ELSE saved.users[u].aff
  BY <1>4, <1>5, <1>6
<1>10. QED
  BY <1>2, <1>4, <1>7, <1>8, <1>9

(* The refinement mapping of the members.                                  *)
Member == [u \in DOMAIN CommittedUsers |-> CommittedUsers[u].aff]

(* A step of r that looks nobody up for a certificate makes nobody ask for *)
(* one.                                                                    *)
LEMMA AskingStep ==
    ASSUME Inv, NEW r \in Handlers, NEW c, h' = [h EXCEPT ![r] = c], c.pc # "sign"
    PROVE  /\ Asking' \subseteq Asking
           /\ h[r].pc # "sign" => Asking' = Asking
           /\ h[r].pc = "sign" => Asking' \in {Asking, Asking \ {h[r].user}}
<1>1. h'[r] = c /\ \A q \in Handlers : q # r => h'[q] = h[q]
  BY DEF Inv, ContextsOK
<1>2. Asking' = {h[q].user : q \in {q \in Handlers \ {r} : h[q].pc = "sign"}}
  BY <1>1 DEF Asking
<1>3. QED
  BY <1>2 DEF Asking

LEMMA FinishAsks ==
    ASSUME Inv, NEW r \in Handlers, Finish(r), h[r].pc # "sign"
    PROVE  UNCHANGED Asking
BY AskingStep, IdleOK DEF Finish

LEMMA TreeStep ==
    ASSUME Inv, RenamingInv, [Next]_vars
    PROVE  [Tree!Next]_Tree!vars
<1> DEFINE Same == UNCHANGED <<CommittedAffs, Member, valid>>
<1>0. /\ Same /\ UNCHANGED Asking => [Tree!Next]_Tree!vars
      /\ Same /\ Asking' \subseteq Asking => Tree!Next
  BY DEF Tree!vars, Tree!Next, Tree!GiveUp, Member
<1>1. UNCHANGED vars => Same /\ UNCHANGED Asking
  BY DEF vars, CommittedAffs, CommittedUsers, Member, Asking
<1>2. ASSUME NEW r \in Handlers, Looks(r) PROVE Same /\ Asking' \subseteq Asking
  <2>1. PICK c : ContextStep(r, c)
    BY <1>2, LooksAreContextSteps
  <2>2. Asking' \subseteq Asking
    BY <2>1, AskingStep DEF ContextStep
  <2>3. QED
    BY <2>1, <2>2 DEF ContextStep, CommittedAffs, CommittedUsers, Member
<1>3. ASSUME NEW r \in Handlers, BeginRename(r) PROVE Same /\ Asking' \subseteq Asking
  <2>1. PICK c : h' = [h EXCEPT ![r] = c] /\ c.pc = "loop"
    <3>1. PICK moving : h' = [h EXCEPT ![r] = [h[r] EXCEPT !.pc = "loop", !.todo = moving]]
      BY <1>3 DEF BeginRename
    <3>2. h[r] \in RequestContext
      BY DEF Inv, ContextsOK
    <3>3. [h[r] EXCEPT !.pc = "loop", !.todo = moving].pc = "loop"
      BY <3>2 DEF RequestContext
    <3>4. QED
      BY <3>1, <3>3
  <2>2. Asking' \subseteq Asking
    BY <2>1, AskingStep
  <2>3. QED
    BY <1>3, <2>2, ConstantFacts DEF BeginRename, Tables, CommittedAffs, CommittedUsers, Member
<1>4. ASSUME NEW r \in Handlers, NEW p, RenameOne(r, p) \/ RenamePanics(r, p)
      PROVE  Same /\ Asking' \subseteq Asking
  <2>1. conn # Free /\ conn' # Free /\ saved' = saved /\ valid' = valid
    BY <1>4, ConstantFacts DEF RenameOne, RenamePanics, NextToRename, Tables
  <2>2. Asking' \subseteq Asking
    <3>1. CASE RenamePanics(r, p)
      BY <3>1, AskingStep, IdleOK DEF RenamePanics, Finish
    <3>2. CASE RenameOne(r, p)
      <4> DEFINE at == IF h[r].todo = {p} THEN "commit" ELSE "loop"
      <4>1. h' = [h EXCEPT ![r] = [h[r] EXCEPT !.pc = at, !.todo = h[r].todo \ {p}]]
        BY <3>2 DEF RenameOne
      <4>2. h[r] \in RequestContext
        BY DEF Inv, ContextsOK
      <4>3. [h[r] EXCEPT !.pc = at, !.todo = h[r].todo \ {p}].pc # "sign"
        BY <4>2 DEF RequestContext
      <4>4. PICK c : c = [h[r] EXCEPT !.pc = at, !.todo = h[r].todo \ {p}]
        OBVIOUS
      <4> HIDE DEF at
      <4>5. QED
        BY <4>1, <4>3, <4>4, AskingStep
    <3>3. QED
      BY <1>4, <3>1, <3>2
  <2>3. QED
    BY <2>1, <2>2 DEF CommittedAffs, CommittedUsers, Member
<1>5. ASSUME NEW r \in Handlers, Rollback(r) PROVE Same /\ Asking' \subseteq Asking
  <2>1. Asking' \subseteq Asking
    BY <1>5, AskingStep, IdleOK DEF Rollback, Finish
  <2>2. QED
    BY <1>5, <2>1, ConstantFacts DEF Rollback, CommittedAffs, CommittedUsers, Member
<1>6. ASSUME Restart PROVE Same /\ Asking' \subseteq Asking
  <2>1. \A q \in Handlers : h'[q].pc = "idle"
    BY <1>6, IdleOK DEF Restart
  <2>2. Asking' = {}
    BY <2>1 DEF Asking
  <2>3. QED
    BY <1>6, <2>2 DEF Restart, CommittedAffs, CommittedUsers, Member
<1>7. ASSUME NEW r \in Handlers, InsertAffiliation(r) PROVE Tree!Next
  <2>1. PICK p \in h[r].todo :
          /\ affs' = affs \cup {p}
          /\ h' = [h EXCEPT ![r] = IF h[r].todo = {p} THEN Idle
                                   ELSE [h[r] EXCEPT !.todo = h[r].todo \ {p}]]
    BY <1>7 DEF InsertAffiliation
  <2>2. /\ conn = Free /\ conn' = Free /\ UNCHANGED <<users, valid>> /\ p \in Paths
        /\ h[r].pc = "insert" /\ h[r] \in RequestContext
    BY <1>7 DEF InsertAffiliation, Inv, ContextsOK, RequestContext
  <2>3. UNCHANGED Asking
    <3>1. PICK c : c = IF h[r].todo = {p} THEN Idle ELSE [h[r] EXCEPT !.todo = h[r].todo \ {p}]
      OBVIOUS
    <3>2. [h[r] EXCEPT !.todo = h[r].todo \ {p}].pc = "insert"
      BY <2>2 DEF RequestContext
    <3>3. c.pc # "sign"
      BY <3>1, <3>2, IdleOK
    <3>4. QED
      BY <2>1, <2>2, <3>1, <3>3, AskingStep
  <2>4. Tree!Extend(p)
    BY <2>1, <2>2, <2>3 DEF Tree!Extend, CommittedAffs, CommittedUsers
  <2>5. QED
    BY <2>2, <2>4 DEF Tree!Next
<1>8. ASSUME NEW r \in Handlers, EnrollLookup(r) PROVE Tree!Next
  <2>1. /\ conn = Free /\ UNCHANGED <<affs, users, valid, conn>>
        /\ \E u \in DOMAIN users : \E c : h' = [h EXCEPT ![r] = c] /\ c.pc = "sign" /\ c.user = u
    BY <1>8, EnrollLookupKeeps
  <2>2. PICK u \in DOMAIN users : \E c : h' = [h EXCEPT ![r] = c] /\ c.pc = "sign" /\ c.user = u
    BY <2>1
  <2>3. PICK c : h' = [h EXCEPT ![r] = c] /\ c.pc = "sign" /\ c.user = u
    BY <2>2
  <2>4. h'[r] = c /\ (\A q \in Handlers : q # r => h'[q] = h[q]) /\ h[r].pc = "idle"
    BY <1>8, <2>3 DEF Inv, ContextsOK, EnrollLookup
  <2>5. Asking' = Asking \cup {u}
    BY <2>3, <2>4 DEF Asking
  <2>6. u \in IDs
    BY DEF Inv, TablesOK, UsersOK
  <2>7. Tree!Ask(u)
    BY <2>1, <2>5 DEF Tree!Ask, CommittedAffs, CommittedUsers
  <2>8. QED
    BY <2>6, <2>7 DEF Tree!Next
<1>9. ASSUME NEW r \in Handlers, Sign(r) PROVE Tree!Next
  <2>1. PICK u : u = h[r].user
    OBVIOUS
  <2>2. /\ conn = Free /\ UNCHANGED <<affs, users, conn>> /\ valid' = valid \cup {u}
        /\ h[r].pc = "sign" /\ Finish(r)
    BY <1>9, <2>1 DEF Sign
  <2>3. u \in IDs /\ u \in Asking
    BY <2>1, <2>2 DEF Inv, ContextsOK, ContextOK, Asking
  <2>4. Asking' \in {Asking, Asking \ {u}}
    BY <2>1, <2>2, AskingStep, IdleOK DEF Finish
  <2>5. Tree!Certify(u)
    BY <2>2, <2>3, <2>4 DEF Tree!Certify, CommittedAffs, CommittedUsers
  <2>6. QED
    BY <2>3, <2>5 DEF Tree!Next
<1>10. ASSUME NEW r \in Handlers, InsertUser(r) \/ UpdateUser(r) PROVE Tree!Next
  <2>1. PICK u, p : u = h[r].user /\ p = h[r].row.aff
    OBVIOUS
  <2>2. /\ conn = Free /\ conn' = Free /\ UNCHANGED <<affs, valid>>
        /\ DOMAIN users' = DOMAIN users \cup {u}
        /\ users'[u].aff = p /\ \A v \in DOMAIN users : v # u => users'[v] = users[v]
        /\ Finish(r) /\ h[r].pc # "sign"
    BY <1>10, <2>1 DEF InsertUser, UpdateUser
  <2>3. u \in IDs /\ p \in Paths \cup {Root}
    <3>1. h[r] \in RequestContext /\ ContextOK(h[r]) /\ DOMAIN users \subseteq IDs
      BY DEF Inv, ContextsOK, TablesOK, UsersOK
    <3>2. u \in IDs
      BY <1>10, <2>1, <3>1 DEF InsertUser, UpdateUser, ContextOK
    <3>3. QED
      BY <2>1, <3>1, <3>2 DEF RequestContext, UserRecord
  <2>4. UNCHANGED Asking
    BY <2>2, FinishAsks
  <2>5. Tree!Place(u, p)
    BY <2>2, <2>4 DEF Tree!Place, CommittedAffs, CommittedUsers
  <2>6. QED
    BY <2>3, <2>5 DEF Tree!Next, Tree!Root, Root
<1>11. ASSUME NEW r \in Handlers, DeleteAffiliation(r) PROVE Tree!Next
  <2>1. PICK n : n = h[r].name
    OBVIOUS
  <2>2. /\ conn = Free /\ conn' = Free /\ n \in affs /\ n \in Paths
    BY <1>11, <2>1 DEF DeleteAffiliation, Inv, TablesOK
  <2>3. PICK ids : ids = {u \in DOMAIN users : users[u].aff = n \/ Like(n, users[u].aff)}
    OBVIOUS
  <2>4. /\ users' = [u \in DOMAIN users \ ids |-> users[u]] /\ valid' = valid \ ids
        /\ affs' = affs \ ({p \in affs : Like(n, p)} \cup {n})
        /\ Finish(r) /\ h[r].pc # "sign"
    BY <1>11, <2>1, <2>3 DEF DeleteAffiliation
  <2>5. affs' = {p \in affs : ~Tree!Below(n, p)}
    BY <2>4, TreeNames
  <2>6. ids = {u \in DOMAIN users : Tree!Below(n, users[u].aff)}
    BY <2>3, TreeNames
  <2>7. UNCHANGED Asking
    BY <2>4, FinishAsks
  <2>8. Tree!Prune(n)
    BY <2>2, <2>4, <2>5, <2>6, <2>7 DEF Tree!Prune, CommittedAffs, CommittedUsers
  <2>9. QED
    BY <2>2, <2>8 DEF Tree!Next
<1>12. ASSUME NEW r \in Handlers, CommitRename(r) PROVE Tree!Next
  <2>1. /\ conn = r /\ conn # Free /\ conn' = Free /\ UNCHANGED <<affs, users, valid>>
        /\ Finish(r) /\ h[r].pc # "sign"
    BY <1>12, ConstantFacts DEF CommitRename, Tables
  <2>2. PICK old, new : old = h[r].name /\ new = h[r].new
    OBVIOUS
  <2>3. \A p : Put(r, p) = Tree!Moved(p, old, new)
    BY <2>2, TreeNames DEF Put, NewPath, Tree!Moved
  <2>4. /\ old \in Paths /\ new \in Paths /\ old \in saved.affs
        /\ affs = {Tree!Moved(p, old, new) : p \in saved.affs}
        /\ \A p, q \in saved.affs : Tree!Moved(p, old, new) = Tree!Moved(q, old, new) => p = q
        /\ DOMAIN users = DOMAIN saved.users
        /\ \A u \in DOMAIN users :
             users[u].aff = IF saved.users[u].aff \in saved.affs
                            THEN Tree!Moved(saved.users[u].aff, old, new)
                            ELSE saved.users[u].aff
    <3>1. RenamingOK(r)
      BY <2>1 DEF RenamingInv
    <3>2. QED
      BY <1>12, <2>2, <2>3, <3>1, CommitIsRename
  <2>5. UNCHANGED Asking
    BY <2>1, FinishAsks
  <2>6. Tree!Rename(old, new)
    BY <2>1, <2>4, <2>5 DEF Tree!Rename, CommittedAffs, CommittedUsers
  <2>7. QED
    BY <2>4, <2>6 DEF Tree!Next
<1>13. QED
  BY <1>0, <1>1, <1>2, <1>3, <1>4, <1>5, <1>6, <1>7, <1>8, <1>9, <1>10, <1>11, <1>12, Steps

(* The statements of the handlers implement the abstract tree: removals    *)
(* and renamings take effect on everything that LIKE finds at or below a   *)
(* name at once, whatever labels it takes for the same, the order of the   *)
(* loop, the number of requests and the failures in between, and           *)
(* certificates go to identities that existed when they asked.             *)
THEOREM ImplementsTree == Spec => TreeSpec
<1>1. Init => RenamingInv
  BY ConstantFacts DEF Init, RenamingInv
<1>2. Init => Tree!Init
  <2>1. Init => \A r \in Handlers : h[r].pc = "idle"
    BY IdleOK DEF Init
  <2>2. QED
    BY <2>1 DEF Init, Tree!Init, Asking
<1>3. Inv /\ RenamingInv /\ [Next]_vars => [Tree!Next]_Tree!vars
  BY TreeStep
<1>4. QED
  BY <1>1, <1>2, <1>3, InvAlways, RenamingStep, PTL DEF Spec, TreeSpec, Tree!Spec

-----------------------------------------------------------------------------
(* The response to a request, which has variables of its own.  The slices  *)
(* of all the calls lose nothing but what is listed.                       *)

Rows == Range(rows)
Listed == Range(listed)
Child(p, q) == isChildAffiliation(p, q)

\* The calls: a slice is never longer than that of the caller.
Frames == [name : Rows, len : 0..Len(rows)]
StackInv ==
    /\ stack \in Seq(Frames)
    /\ \A j, k \in 1..Len(stack) : j <= k => stack[j].len <= stack[k].len

\* Every slice has all the rows that are not listed.
SlicesInv ==
    \A k \in 1..Len(stack) : \A p \in Rows :
        p \in Listed \/ \E i \in 1..stack[k].len : arr[i] = p

\* What is listed has its children listed, unless its call goes on.
ChildrenInv ==
    \A p \in Listed :
        \/ \E k \in 1..Len(stack) : stack[k].name = p
        \/ \A q \in Rows : Child(p, q) => q \in Listed

RootsInv == pc \in {"fill", "done"} => getRootAffiliationNames(rows) \subseteq Listed

ListingTypes ==
    /\ rows \in Seq(Seq(Labels)) /\ arr \in [1..Len(rows) -> Rows] /\ listed \in Seq(Rows)
    /\ pc \in {"start", "error"} => stack = << >> /\ listed = << >>
    /\ pc = "fill" <=> stack # << >>
    /\ pc = "start" => arr = rows

ListingInv == ListingTypes /\ StackInv /\ SlicesInv /\ ChildrenInv /\ RootsInv

LEMMA RangeOf ==
    ASSUME NEW S, NEW s \in Seq(S)
    PROVE  Range(s) = {s[i] : i \in 1..Len(s)} /\ Range(s) \in SUBSET S
<1>1. DOMAIN s = 1..Len(s)
  OBVIOUS
<1>2. \A i \in 1..Len(s) : s[i] \in S
  OBVIOUS
<1>3. QED
  BY <1>1, <1>2 DEF Range

LEMMA RangeAppend ==
    ASSUME NEW S, NEW s \in Seq(S), NEW x \in S
    PROVE  Append(s, x) \in Seq(S) /\ Range(Append(s, x)) = Range(s) \cup {x}
<1>1. PICK t : t = Append(s, x)
  OBVIOUS
<1>2. /\ t \in Seq(S) /\ Len(t) = Len(s) + 1 /\ t[Len(s) + 1] = x /\ Len(s) \in Nat
      /\ \A i \in 1..Len(s) : t[i] = s[i]
  BY <1>1, AppendProperties
<1>3. Range(t) = {t[i] : i \in 1..Len(t)} /\ Range(s) = {s[i] : i \in 1..Len(s)}
  BY <1>2, RangeOf
<1>4. 1..Len(t) = 1..Len(s) \cup {Len(s) + 1}
  BY <1>2
<1>5. {t[i] : i \in 1..Len(t)} = {s[i] : i \in 1..Len(s)} \cup {x}
  BY <1>2, <1>4
<1>6. QED
  BY <1>1, <1>2, <1>3, <1>5

LEMMA InitListing ==
    ASSUME Results \subseteq Seq(Seq(Labels)), ListingInit PROVE ListingInv
<1>1. /\ rows \in Seq(Seq(Labels)) /\ arr = rows /\ stack = << >> /\ listed = << >> /\ pc = "start"
  BY DEF ListingInit
<1>2. Rows = {rows[i] : i \in 1..Len(rows)}
  BY <1>1, RangeOf DEF Rows
<1>3. arr \in [1..Len(rows) -> Rows]
  <2>1. rows = [i \in 1..Len(rows) |-> rows[i]]
    BY <1>1
  <2>2. QED
    BY <1>1, <1>2, <2>1
<1>4. listed \in Seq(Rows) /\ stack \in Seq(Frames) /\ Len(stack) = 0
  BY <1>1, EmptySeq
<1>5. Listed = {}
  <2>1. listed \in Seq({}) /\ Len(listed) = 0
    BY <1>1, EmptySeq
  <2>2. Listed = {listed[i] : i \in 1..Len(listed)}
    BY <2>1, RangeOf DEF Listed
  <2>3. QED
    BY <2>1, <2>2
<1>6. ListingTypes
  BY <1>1, <1>3, <1>4 DEF ListingTypes
<1>7. StackInv /\ SlicesInv /\ ChildrenInv
  BY <1>4, <1>5 DEF StackInv, SlicesInv, ChildrenInv
<1>8. RootsInv
  BY <1>1 DEF RootsInv
<1>9. QED
  BY <1>6, <1>7, <1>8 DEF ListingInv

\* getResponse: the first call has the whole slice.
LEMMA ResponseListing ==
    ASSUME ListingInv, getResponse PROVE ListingInv'
<1> DEFINE roots == getRootAffiliationNames(rows)
<1>1. /\ rows \in Seq(Seq(Labels)) /\ pc = "start" /\ arr = rows /\ stack = << >> /\ listed = << >>
      /\ arr \in [1..Len(rows) -> Rows] /\ listed \in Seq(Rows)
  BY DEF ListingInv, ListingTypes, getResponse
<1>2. rows' = rows /\ arr' = arr /\ Rows' = Rows /\ Frames' = Frames
  BY DEF getResponse, Rows, Frames
<1>3. CASE UNCHANGED <<stack, listed>> /\ pc' \in {"done", "error"} /\ (pc' = "done" => roots = {})
  <2>1. Listed' = Listed
    BY <1>3 DEF Listed
  <2>2. ListingTypes'
    BY <1>1, <1>2, <1>3 DEF ListingTypes
  <2>3. StackInv' /\ SlicesInv'
    BY <1>2, <1>3, <2>1 DEF ListingInv, StackInv, SlicesInv
  <2>4. ChildrenInv'
    BY <1>2, <1>3, <2>1 DEF ListingInv, ChildrenInv
  <2>5. RootsInv'
    <3>1. getRootAffiliationNames(rows)' = roots
      BY <1>2
    <3>2. QED
      BY <1>3, <3>1 DEF RootsInv
  <2>6. QED
    BY <2>2, <2>3, <2>4, <2>5 DEF ListingInv
<1>4. CASE \E root \in roots : /\ roots = {root} /\ pc' = "fill" /\ listed' = <<root>>
                               /\ stack' = <<[name |-> root, len |-> Len(rows)]>>
  <2>1. PICK root \in roots : /\ roots = {root} /\ pc' = "fill" /\ listed' = <<root>>
                              /\ stack' = <<[name |-> root, len |-> Len(rows)]>>
    BY <1>4
  <2>2. root \in Rows
    BY <2>1 DEF getRootAffiliationNames, Rows
  <2>3. PICK f : f = [name |-> root, len |-> Len(rows)]
    OBVIOUS
  <2>4. f \in Frames /\ f.name = root /\ f.len = Len(rows) /\ Len(rows) \in Nat
    BY <1>1, <2>2, <2>3, LenProperties DEF Frames
  <2>5. stack' \in Seq(Frames) /\ Len(stack') = 1 /\ stack'[1] = f /\ stack' # << >>
    <3>1. stack' = <<f>>
      BY <2>1, <2>3
    <3>2. QED
      BY <2>4, <3>1
  <2>6. listed' \in Seq(Rows) /\ Listed' = {root}
    <3>1. listed' \in Seq(Rows) /\ Len(listed') = 1 /\ listed'[1] = root
      BY <2>1, <2>2
    <3>2. Range(listed') = {listed'[i] : i \in 1..Len(listed')}
      BY <3>1, RangeOf
    <3>3. QED
      BY <3>1, <3>2 DEF Listed
  <2>7. ListingTypes'
    BY <1>1, <1>2, <2>1, <2>5, <2>6 DEF ListingTypes
  <2>8. StackInv'
    BY <1>2, <2>4, <2>5 DEF StackInv
  <2>9. SlicesInv'
    <3>1. \A p \in Rows : \E i \in 1..Len(rows) : arr[i] = p
      BY <1>1, RangeOf DEF Rows
    <3>2. QED
      BY <1>2, <2>4, <2>5, <3>1 DEF SlicesInv
  <2>10. ChildrenInv'
    BY <2>4, <2>5, <2>6 DEF ChildrenInv
  <2>11. RootsInv'
    <3>1. getRootAffiliationNames(rows)' = roots
      BY <1>2
    <3>2. QED
      BY <2>1, <2>6, <3>1 DEF RootsInv
  <2>12. QED
    BY <2>7, <2>8, <2>9, <2>10, <2>11 DEF ListingInv
<1>5. QED
  BY <1>3, <1>4 DEF getResponse

\* Two calls on top of the others.
LEMMA TwoFrames ==
    ASSUME NEW F, NEW s \in Seq(F), s # << >>, NEW f \in F, NEW g \in F,
           NEW t, t = <<f, g>> \o Tail(s)
    PROVE  /\ t \in Seq(F) /\ Len(t) = Len(s) + 1 /\ Len(s) \in Nat /\ Len(s) >= 1
           /\ t[1] = f /\ t[2] = g /\ \A k \in 2..Len(s) : t[k + 1] = s[k]
           /\ \A k \in 3..Len(s) + 1 : t[k] = s[k - 1]
<1>1. PICK u, v : u = <<f, g>> /\ v = Tail(s)
  OBVIOUS
<1>2. u \in Seq(F) /\ Len(u) = 2 /\ u[1] = f /\ u[2] = g
  BY <1>1
<1>3. /\ v \in Seq(F) /\ Len(v) = Len(s) - 1 /\ \A i \in 1..Len(v) : v[i] = s[i + 1]
  BY <1>1, HeadTailProperties
<1>4. Len(s) \in Nat /\ Len(s) >= 1
  BY EmptySeq, LenProperties
<1>5. /\ t \in Seq(F) /\ Len(t) = Len(u) + Len(v)
      /\ \A i \in 1..Len(u) + Len(v) : t[i] = IF i <= Len(u) THEN u[i] ELSE v[i - Len(u)]
  BY <1>1, <1>2, <1>3, ConcatProperties
<1>6. t[1] = f /\ t[2] = g
  BY <1>2, <1>3, <1>4, <1>5
<1>7. ASSUME NEW k \in 3..Len(s) + 1 PROVE t[k] = s[k - 1]
  <2>1. k \in 1..Len(u) + Len(v) /\ ~(k <= Len(u)) /\ k - 2 \in 1..Len(v) /\ (k - 2) + 1 = k - 1
    BY <1>2, <1>3, <1>4
  <2>2. t[k] = v[k - 2]
    BY <1>2, <1>5, <2>1
  <2>3. QED
    BY <1>3, <2>1, <2>2
<1>8. ASSUME NEW k \in 2..Len(s) PROVE t[k + 1] = s[k]
  <2>1. k + 1 \in 3..Len(s) + 1 /\ (k + 1) - 1 = k
    BY <1>4
  <2>2. QED
    BY <1>7, <2>1
<1>9. QED
  BY <1>2, <1>3, <1>4, <1>5, <1>6, <1>7, <1>8

\* Removing the element i from the first len: the others are still there.
Keeps(s, len, i, t) ==
    \A j \in 1..len : s[j] # s[i] => \E k \in 1..len - 1 : t[k] = s[j]

LEMMA Removed ==
    ASSUME NEW R, NEW N \in Nat, NEW s \in [1..N -> R], NEW len \in 0..N, NEW i \in 1..len,
           NEW t, t = RemoveByAppend(s, len, i)
    PROVE  t \in [1..N -> R] /\ Keeps(s, len, i, t)
<1>1. t = [j \in 1..N |-> IF i <= j /\ j < len THEN s[j + 1] ELSE s[j]]
  BY DEF RemoveByAppend
<1>2. t \in [1..N -> R]
  BY <1>1
<1>3. ASSUME NEW j \in 1..len, s[j] # s[i] PROVE \E k \in 1..len - 1 : t[k] = s[j]
  <2>1. CASE j < i
    <3>1. j \in 1..N /\ j \in 1..len - 1 /\ t[j] = s[j]
      BY <1>1, <2>1
    <3>2. QED
      BY <3>1
  <2>2. CASE i < j
    <3>1. j - 1 \in 1..N /\ j - 1 \in 1..len - 1 /\ i <= j - 1 /\ j - 1 < len /\ (j - 1) + 1 = j
      BY <2>2
    <3>2. t[j - 1] = s[j]
      BY <1>1, <3>1
    <3>3. QED
      BY <3>1, <3>2
  <2>3. QED
    BY <1>3, <2>1, <2>2
<1>4. QED
  BY <1>2, <1>3 DEF Keeps

LEMMA ChildListing ==
    ASSUME ListingInv, FillChild PROVE ListingInv'
<1>1. /\ rows \in Seq(Seq(Labels)) /\ pc = "fill" /\ stack # << >>
      /\ arr \in [1..Len(rows) -> Rows] /\ listed \in Seq(Rows) /\ stack \in Seq(Frames)
  BY DEF ListingInv, ListingTypes, StackInv, FillChild
<1>2. PICK N, top : N = Len(rows) /\ top = stack[1]
  OBVIOUS
<1>3. /\ N \in Nat /\ top \in Frames /\ top = Head(stack)
      /\ top.name \in Rows /\ top.len \in 0..N /\ Len(stack) \in Nat /\ 1 \in 1..Len(stack)
  <2>1. N \in Nat /\ Len(stack) \in Nat /\ 1 \in 1..Len(stack) /\ top = Head(stack)
    BY <1>1, <1>2, EmptySeq, LenProperties
  <2>2. top \in Frames
    BY <1>1, <1>2, <2>1, ElementOfSeq
  <2>3. QED
    BY <1>2, <2>1, <2>2 DEF Frames
<1>4. PICK i \in 1..top.len :
        /\ arr' = RemoveByAppend(arr, top.len, i) /\ listed' = Append(listed, arr[i])
        /\ stack' = <<[name |-> arr[i], len |-> top.len - 1],
                      [top EXCEPT !.len = top.len - 1]>> \o Tail(stack)
  BY <1>3 DEF FillChild, Children, Top
<1>5. rows' = rows /\ pc' = pc /\ Rows' = Rows /\ Frames' = Frames
  BY DEF FillChild, Rows, Frames
<1>6. PICK x : x = arr[i]
  OBVIOUS
<1>7. x \in Rows /\ i \in 1..N
  <2>1. N \in Nat /\ top.len \in 0..N /\ i \in 1..top.len
    BY <1>3, <1>4
  <2>2. i \in 1..N
    BY <2>1
  <2>3. arr \in [1..N -> Rows]
    BY <1>1, <1>2
  <2>4. QED
    BY <1>6, <2>2, <2>3
<1>8. PICK f, g : f = [name |-> x, len |-> top.len - 1] /\ g = [top EXCEPT !.len = top.len - 1]
  OBVIOUS
<1>9. /\ f \in Frames /\ f.name = x /\ f.len = top.len - 1 /\ g \in Frames
      /\ g.name = top.name /\ g.len = top.len - 1
  BY <1>2, <1>3, <1>4, <1>7, <1>8 DEF Frames
<1>10. PICK t : t = stack'
  OBVIOUS
<1>11. /\ t \in Seq(Frames) /\ Len(t) = Len(stack) + 1 /\ Len(stack) >= 1
       /\ t[1] = f /\ t[2] = g /\ \A k \in 2..Len(stack) : t[k + 1] = stack[k]
       /\ \A k \in 3..Len(stack) + 1 : t[k] = stack[k - 1]
  <2>1. t = <<f, g>> \o Tail(stack)
    BY <1>4, <1>6, <1>8, <1>10
  <2>2. QED
    BY <1>1, <1>9, <2>1, TwoFrames
<1>12. listed' \in Seq(Rows) /\ Listed' = Listed \cup {x}
  BY <1>1, <1>4, <1>6, <1>7, RangeAppend DEF Listed
<1>13. PICK b : b = arr'
  OBVIOUS
<1>14. /\ b \in [1..N -> Rows]
       /\ \A j \in 1..top.len : arr[j] # x => \E k \in 1..top.len - 1 : b[k] = arr[j]
  <2>1. /\ N \in Nat /\ arr \in [1..N -> Rows] /\ top.len \in 0..N /\ i \in 1..top.len
        /\ b = RemoveByAppend(arr, top.len, i)
    BY <1>1, <1>2, <1>3, <1>4, <1>13
  <2>2. b \in [1..N -> Rows] /\ Keeps(arr, top.len, i, b)
    BY <2>1, Removed
  <2>3. QED
    BY <1>6, <2>2 DEF Keeps
<1>15. ListingTypes'
  <2>1. t # << >>
    BY <1>3, <1>11, EmptySeq
  <2>2. QED
    BY <1>1, <1>2, <1>5, <1>10, <1>12, <1>13, <1>14, <2>1 DEF ListingTypes
<1>16. \A k \in 1..Len(stack) : stack[k] \in Frames /\ stack[k].len \in 0..N /\ top.len <= stack[k].len
  <2>1. ASSUME NEW k \in 1..Len(stack) PROVE stack[k] \in Frames
    BY <1>1, ElementOfSeq
  <2>2. \A k \in 1..Len(stack) : top.len <= stack[k].len
    BY <1>2, <1>3 DEF ListingInv, StackInv
  <2>3. QED
    BY <1>2, <2>1, <2>2 DEF Frames
<1>17. \A k \in 1..Len(t) : t[k].len \in 0..N /\ top.len - 1 <= t[k].len
  <2>1. ASSUME NEW k \in 1..Len(t) PROVE t[k].len \in 0..N /\ top.len - 1 <= t[k].len
    <3>1. CASE k \in {1, 2}
      BY <1>3, <1>4, <1>9, <1>11, <3>1
    <3>2. CASE k >= 3
      <4>1. k \in 3..Len(stack) + 1 /\ k - 1 \in 1..Len(stack)
        BY <1>3, <1>11, <3>2
      <4>2. t[k] = stack[k - 1]
        BY <1>11, <4>1
      <4>3. QED
        BY <1>3, <1>16, <4>1, <4>2
    <3>3. QED
      BY <1>3, <1>11, <3>1, <3>2
  <2>2. QED
    BY <2>1
<1>18. StackInv'
  <2>1. ASSUME NEW j \in 1..Len(t), NEW k \in 1..Len(t), j <= k PROVE t[j].len <= t[k].len
    <3>1. CASE j \in {1, 2}
      BY <1>3, <1>9, <1>11, <1>17, <3>1
    <3>2. CASE j >= 3
      <4>1. /\ j \in 3..Len(stack) + 1 /\ j - 1 \in 1..Len(stack)
            /\ k \in 3..Len(stack) + 1 /\ k - 1 \in 1..Len(stack) /\ j - 1 <= k - 1
        BY <1>3, <1>11, <2>1, <3>2
      <4>2. t[j] = stack[j - 1] /\ t[k] = stack[k - 1]
        BY <1>11, <4>1
      <4>3. stack[j - 1].len <= stack[k - 1].len
        BY <4>1 DEF ListingInv, StackInv
      <4>4. QED
        BY <4>2, <4>3
    <3>3. QED
      BY <1>3, <1>11, <3>1, <3>2
  <2>2. QED
    BY <1>5, <1>10, <1>11, <2>1 DEF StackInv
<1>19. SlicesInv'
  <2>1. ASSUME NEW k \in 1..Len(t), NEW p \in Rows, p \notin Listed, p # x
        PROVE  \E j \in 1..t[k].len : b[j] = p
    <3>1. PICK j \in 1..top.len : arr[j] = p
      BY <1>2, <1>3, <2>1 DEF ListingInv, SlicesInv
    <3>2. PICK m \in 1..top.len - 1 : b[m] = p
      BY <1>14, <2>1, <3>1
    <3>3. m \in 1..t[k].len
      BY <1>3, <1>17
    <3>4. QED
      BY <3>2, <3>3
  <2>2. QED
    BY <1>5, <1>10, <1>12, <1>13, <2>1 DEF SlicesInv
<1>20. ChildrenInv'
  <2>1. ASSUME NEW p \in Listed \cup {x}
        PROVE  \/ \E k \in 1..Len(t) : t[k].name = p
               \/ \A q \in Rows : Child(p, q) => q \in Listed \cup {x}
    <3>1. CASE p = x
      BY <1>3, <1>9, <1>11, <3>1
    <3>2. CASE p \in Listed /\ \E k \in 1..Len(stack) : stack[k].name = p
      <4>1. PICK k \in 1..Len(stack) : stack[k].name = p
        BY <3>2
      <4>2. CASE k = 1
        <5>1. 2 \in 1..Len(t) /\ t[2].name = p
          BY <1>2, <1>3, <1>9, <1>11, <4>1, <4>2
        <5>2. QED
          BY <5>1
      <4>3. CASE k # 1
        <5>1. k \in 2..Len(stack) /\ k + 1 \in 1..Len(t)
          BY <1>3, <1>11, <4>3
        <5>2. t[k + 1].name = p
          BY <1>11, <4>1, <5>1
        <5>3. QED
          BY <5>1, <5>2
      <4>4. QED
        BY <4>2, <4>3
    <3>3. CASE p \in Listed /\ \A q \in Rows : Child(p, q) => q \in Listed
      BY <3>3
    <3>4. QED
      BY <2>1, <3>1, <3>2, <3>3 DEF ListingInv, ChildrenInv
  <2>2. QED
    BY <1>5, <1>10, <1>12, <2>1 DEF ChildrenInv, Child, isChildAffiliation
<1>21. RootsInv'
  <2>1. getRootAffiliationNames(rows)' = getRootAffiliationNames(rows)
    BY <1>5
  <2>2. QED
    BY <1>1, <1>12, <2>1 DEF ListingInv, RootsInv
<1>22. QED
  BY <1>15, <1>18, <1>19, <1>20, <1>21 DEF ListingInv

LEMMA ReturnListing ==
    ASSUME ListingInv, FillReturn PROVE ListingInv'
<1>1. /\ rows \in Seq(Seq(Labels)) /\ pc = "fill" /\ stack # << >>
      /\ arr \in [1..Len(rows) -> Rows] /\ listed \in Seq(Rows) /\ stack \in Seq(Frames)
  BY DEF ListingInv, ListingTypes, StackInv, FillReturn
<1>2. PICK t, n : t = Tail(stack) /\ n = Len(stack)
  OBVIOUS
<1>3. n \in Nat /\ n >= 1 /\ 1 \in 1..n
  BY <1>1, <1>2, EmptySeq, LenProperties
<1>4. t \in Seq(Frames) /\ Len(t) = n - 1 /\ \A k \in 1..n - 1 : t[k] = stack[k + 1]
  BY <1>1, <1>2, HeadTailProperties
<1>5. /\ stack' = t /\ pc' = (IF t = << >> THEN "done" ELSE "fill")
      /\ rows' = rows /\ arr' = arr /\ listed' = listed /\ Rows' = Rows /\ Listed' = Listed
      /\ Frames' = Frames
  BY <1>2 DEF FillReturn, Rows, Listed, Frames
<1>6. ListingTypes'
  BY <1>1, <1>5 DEF ListingTypes
<1>7. \A k \in 1..n - 1 : k + 1 \in 1..n
  BY <1>3
<1>8. StackInv'
  <2>1. ASSUME NEW j \in 1..n - 1, NEW k \in 1..n - 1, j <= k PROVE t[j].len <= t[k].len
    <3>1. j + 1 \in 1..n /\ k + 1 \in 1..n /\ j + 1 <= k + 1
      BY <1>3, <2>1
    <3>2. stack[j + 1].len <= stack[k + 1].len
      BY <1>2, <3>1 DEF ListingInv, StackInv
    <3>3. QED
      BY <1>4, <3>2
  <2>2. QED
    BY <1>4, <1>5, <2>1 DEF StackInv
<1>9. SlicesInv'
  BY <1>2, <1>4, <1>5, <1>7 DEF ListingInv, SlicesInv
<1>10. PICK top : top = stack[1]
  OBVIOUS
<1>11. \A q \in Rows : Child(top.name, q) => q \in Listed
  <2>1. top = Head(stack)
    BY <1>1, <1>10
  <2>2. \A i \in 1..top.len : ~Child(top.name, arr[i])
    BY <2>1 DEF FillReturn, Children, Top, Child
  <2>3. \A q \in Rows : q \in Listed \/ \E i \in 1..top.len : arr[i] = q
    BY <1>2, <1>3, <1>10 DEF ListingInv, SlicesInv
  <2>4. QED
    BY <2>2, <2>3
<1>12. ChildrenInv'
  <2>1. ASSUME NEW p \in Listed
        PROVE  \/ \E k \in 1..Len(t) : t[k].name = p
               \/ \A q \in Rows : Child(p, q) => q \in Listed
    <3>1. CASE \E k \in 1..n : stack[k].name = p
      <4>1. PICK k \in 1..n : stack[k].name = p
        BY <3>1
      <4>2. CASE k = 1
        BY <1>10, <1>11, <4>1, <4>2
      <4>3. CASE k # 1
        <5>1. k - 1 \in 1..n - 1 /\ (k - 1) + 1 = k
          BY <1>3, <4>3
        <5>2. t[k - 1].name = p
          BY <1>4, <4>1, <5>1
        <5>3. QED
          BY <1>4, <5>1, <5>2
      <4>4. QED
        BY <4>2, <4>3
    <3>2. CASE \A q \in Rows : Child(p, q) => q \in Listed
      BY <3>2
    <3>3. QED
      BY <1>2, <3>1, <3>2 DEF ListingInv, ChildrenInv
  <2>2. QED
    BY <1>5, <2>1 DEF ChildrenInv, Child, isChildAffiliation
<1>13. RootsInv'
  <2>1. getRootAffiliationNames(rows)' = getRootAffiliationNames(rows)
    BY <1>5
  <2>2. QED
    BY <1>1, <1>5, <2>1 DEF ListingInv, RootsInv
<1>14. QED
  BY <1>6, <1>8, <1>9, <1>12, <1>13 DEF ListingInv

LEMMA NextListing == ListingInv /\ [ListingNext]_listingVars => ListingInv'
<1>1. ASSUME ListingInv, UNCHANGED listingVars PROVE ListingInv'
  <2>1. UNCHANGED <<rows, arr, stack, listed, pc>>
    BY <1>1 DEF listingVars
  <2>2. Rows' = Rows /\ Listed' = Listed /\ Frames' = Frames
    BY <2>1 DEF Rows, Listed, Frames
  <2>3. ListingTypes'
    BY <1>1, <2>1, <2>2 DEF ListingInv, ListingTypes
  <2>4. StackInv'
    BY <1>1, <2>1, <2>2 DEF ListingInv, StackInv
  <2>5. SlicesInv'
    BY <1>1, <2>1, <2>2 DEF ListingInv, SlicesInv
  <2>6. ChildrenInv'
    BY <1>1, <2>1, <2>2 DEF ListingInv, ChildrenInv
  <2>7. RootsInv'
    <3>1. getRootAffiliationNames(rows)' = getRootAffiliationNames(rows)
      BY <2>1
    <3>2. QED
      BY <1>1, <2>1, <2>2, <3>1 DEF ListingInv, RootsInv
  <2>8. QED
    BY <2>3, <2>6, <2>7, <2>4, <2>5 DEF ListingInv
<1>2. QED
  BY <1>1, ResponseListing, ChildListing, ReturnListing DEF ListingNext

\* When the first call has returned, the row with the fewest parts that is not
\* listed has its parent listed, and so cannot be missing.
LEMMA ListedAll == ListingInv => ListsEveryAffiliation
<1> SUFFICES ASSUME ListingInv, pc = "done" PROVE Listed = Rows
  BY DEF ListsEveryAffiliation, Listed, Rows
<1>1. rows \in Seq(Seq(Labels)) /\ listed \in Seq(Rows) /\ stack = << >>
  BY DEF ListingInv, ListingTypes
<1>2. Listed \subseteq Rows /\ Rows \subseteq Seq(Labels)
  BY <1>1, RangeOf DEF Listed, Rows
<1>3. \A p \in Listed, q \in Rows : Child(p, q) => q \in Listed
  <2>1. Len(stack) = 0
    BY <1>1, EmptySeq
  <2>2. QED
    BY <2>1 DEF ListingInv, ChildrenInv
<1>4. SUFFICES ASSUME \E p \in Rows : p \notin Listed PROVE FALSE
  BY <1>2
<1> DEFINE S == {Len(p) : p \in {q \in Rows : q \notin Listed}}
<1>5. S \in SUBSET Nat /\ S # {}
  BY <1>2, <1>4, LenProperties
<1>6. PICK m \in S : \A n \in S : m <= n
  <2> HIDE DEF S
  <2>1. QED
    BY <1>5, LeastNat
<1>7. PICK p \in Rows : p \notin Listed /\ Len(p) = m
  BY <1>6
<1>8. p \notin getRootAffiliationNames(rows)
  BY <1>7 DEF ListingInv, RootsInv
<1>9. PICK q \in Rows : Child(q, p)
  BY <1>7, <1>8 DEF getRootAffiliationNames, Rows, Child
<1>10. q \notin Listed
  BY <1>3, <1>7, <1>9
<1>11. Len(q) \in S /\ Len(p) = Len(q) + 1 /\ Len(q) \in Nat
  BY <1>2, <1>9, <1>10, LenProperties DEF Child, isChildAffiliation
<1>12. QED
  BY <1>6, <1>7, <1>11

\* However a call of fillAffiliationInfo changes the array under the slices of
\* its callers, and in whatever order the database returns the rows of whatever
\* tree: a complete response lists all of the rows and nothing else.
THEOREM ListsAll ==
    ASSUME Results \subseteq Seq(Seq(Labels))
    PROVE  ListingSpec => []ListsEveryAffiliation
<1>1. ListingInit => ListingInv
  BY InitListing
<1>2. ListingInv /\ [ListingNext]_listingVars => ListingInv'
  BY NextListing
<1>3. ListingInv => ListsEveryAffiliation
  BY ListedAll
<1>4. QED
  BY <1>1, <1>2, <1>3, PTL DEF ListingSpec
=============================================================================
