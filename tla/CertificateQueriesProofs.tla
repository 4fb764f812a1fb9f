---------------------- MODULE CertificateQueriesProofs ----------------------
(***************************************************************************)
(* Proofs for CertificateQueries: that revocation lists are current and    *)
(* times of revocation final, from what each request knows to be revoked;  *)
(* and that a client that reports success has the complete list, from      *)
(* where its decoder is when it has read all that was written.             *)
(***************************************************************************)
EXTENDS CertificateQueries, FiniteSetTheorems, SequenceTheorems, NaturalsInduction,
        WellFoundedInduction, TLAPS

-----------------------------------------------------------------------------
(* Revocation.  D are the certificates in the table, R those revoked.      *)

\* The record of a request that writes rows.
Fields == {"pc", "req", "found", "n", "cut", "pending"}
Shape(c) == c.pc = "rows" => c = [x \in Fields |-> c[x]]

RevokeInv(c, D, R) ==
    /\ Shape(c)
    /\ c.pc = "revokeCert" => c.cert \in D /\ c.due \subseteq R /\ c.cert \notin c.due
    /\ c.pc = "revokeID" => /\ c.due \subseteq R /\ c.mine \subseteq D
                            /\ \A x \in c.mine : Owner[x] = c.id
    /\ c.pc = "crl" => c.due \cup c.mine \subseteq R /\ c.window.revAfter \in Nat
    /\ c.pc = "signed" => /\ c.crl \subseteq R
                          /\ c.window = AllRevoked => c.due \cup c.mine \subseteq c.crl

TableInv ==
    /\ certs \in [DOMAIN certs -> Nat] /\ DOMAIN certs \subseteq Certs
    /\ users \subseteq IDs /\ now \in Nat /\ now >= 1

RequestsInv ==
    /\ h = [r \in Handlers |-> h[r]]
    /\ \A r \in Handlers : RevokeInv(h[r], DOMAIN certs, Revoked)

CRLInv == TableInv /\ RequestsInv

LEMMA InitCRL == Init => CRLInv
<1> SUFFICES ASSUME Init PROVE CRLInv
  OBVIOUS
<1>1. TableInv
  BY QueryConstantsOK DEF Init, TableInv
<1>2. RequestsInv
  BY DEF Init, RequestsInv, RevokeInv, Shape, Idle
<1>3. QED
  BY <1>1, <1>2 DEF CRLInv

\* What is revoked stays so, and what a request knows stays true.
LEMMA RevokeInvGrows ==
    ASSUME NEW c, NEW D, NEW E, NEW R, NEW S, D \subseteq E, R \subseteq S, RevokeInv(c, D, R)
    PROVE  RevokeInv(c, E, S)
  BY DEF RevokeInv

LEMMA OneRequest ==
    ASSUME RequestsInv, NEW r \in Handlers, NEW c, h' = [h EXCEPT ![r] = c],
           DOMAIN certs \subseteq DOMAIN certs', Revoked \subseteq Revoked',
           RevokeInv(c, DOMAIN certs', Revoked')
    PROVE  RequestsInv'
<1>1. h' = [q \in Handlers |-> h'[q]]
  BY DEF RequestsInv
<1>2. ASSUME NEW q \in Handlers PROVE RevokeInv(h'[q], DOMAIN certs', Revoked')
  <2>1. CASE q = r
    BY <2>1 DEF RequestsInv
  <2>2. CASE q # r
    <3>1. h'[q] = h[q] /\ RevokeInv(h[q], DOMAIN certs, Revoked)
      BY <2>2 DEF RequestsInv
    <3>2. QED
      BY <3>1, RevokeInvGrows
  <2>3. QED
    BY <2>1, <2>2
<1>3. QED
  BY <1>1, <1>2 DEF RequestsInv

\* Requests that have nothing to do with revocation.
Other == {"idle", "query", "chunks", "rows", "end", "sent", "failed"}
LEMMA OtherRequest ==
    ASSUME NEW c, c.pc \in Other, Shape(c), NEW D, NEW R
    PROVE  RevokeInv(c, D, R)
  BY DEF Other, RevokeInv

LEMMA SameTable ==
    ASSUME CRLInv, UNCHANGED <<certs, users, now>>
    PROVE  /\ TableInv' /\ DOMAIN certs' = DOMAIN certs /\ Revoked' = Revoked
  BY DEF CRLInv, TableInv, Revoked

ListActions(r) ==
    \/ RequestList(r) \/ RefuseList(r) \/ QueryList(r) \/ ChunksToDeliver(r) \/ RowFails(r)
    \/ WriteRow(r) \/ Panic(r) \/ EndOfRows(r) \/ EndList(r) \/ EndOfResponse(r)

\* A step of a list request leaves the table alone.
LEMMA ListActionPC ==
    ASSUME RequestsInv, NEW r \in Handlers, ListActions(r)
    PROVE  /\ UNCHANGED <<certs, users, now>>
           /\ \E c : h' = [h EXCEPT ![r] = c] /\ c.pc \in Other /\ Shape(c)
<1>1. UNCHANGED <<certs, users, now>>
  BY DEF ListActions, RequestList, RefuseList, QueryList, ChunksToDeliver, RowFails, WriteRow,
         Panic, EndOfRows, EndList, EndOfResponse, table
<1>2. CASE RequestList(r)
  <2>1. PICK req, c : h' = [h EXCEPT ![r] = c] /\ c = [pc |-> "query", req |-> req]
    BY <1>2 DEF RequestList
  <2>2. c.pc \in Other /\ Shape(c)
    BY <2>1 DEF Other, Shape, Fields
  <2>3. QED
    BY <1>1, <2>1, <2>2, Zenon
<1>3. CASE QueryList(r)
  <2>1. PICK c, s : /\ h' = [h EXCEPT ![r] = c]
                    /\ c = [pc |-> "chunks", req |-> h[r].req, n |-> 0, cut |-> FALSE, found |-> s]
    BY <1>3 DEF QueryList
  <2>2. c.pc \in Other /\ Shape(c)
    BY <2>1 DEF Other, Shape, Fields
  <2>3. QED
    BY <1>1, <2>1, <2>2, Zenon
<1>4. CASE h' = [h EXCEPT ![r] = [pc |-> "failed"]]
  <2>1. PICK c : h' = [h EXCEPT ![r] = c] /\ c = [pc |-> "failed"]
    BY <1>4
  <2>2. c.pc \in Other /\ Shape(c)
    BY <2>1 DEF Other, Shape, Fields
  <2>3. QED
    BY <1>1, <2>1, <2>2, Zenon
<1>5. CASE ChunksToDeliver(r) /\ chunk # Invalid
  <2>1. PICK c, q, s, p :
          /\ h' = [h EXCEPT ![r] = c]
          /\ c = [pc |-> "rows", req |-> q, found |-> s, n |-> 0, cut |-> FALSE, pending |-> p]
    <3>1. PICK c : /\ h' = [h EXCEPT ![r] = c]
                   /\ c = [pc |-> "rows", req |-> h[r].req, found |-> h[r].found, n |-> 0,
                           cut |-> FALSE, pending |-> ListHeader(h[r].req.kind)]
      BY <1>5 DEF ChunksToDeliver
    <3>2. QED
      BY <3>1, Zenon
  <2>2. c.pc \in Other /\ Shape(c)
    BY <2>1 DEF Other, Shape, Fields
  <2>3. QED
    BY <1>1, <2>1, <2>2, Zenon
<1>6. CASE WriteRow(r)
  <2>1. PICK n, p : h' = [h EXCEPT ![r].n = n, ![r].pending = p] /\ h[r].pc = "rows"
    BY <1>6 DEF WriteRow
  <2>2. PICK c : c = [h[r] EXCEPT !.n = n, !.pending = p]
    OBVIOUS
  <2>3. h' = [h EXCEPT ![r] = c]
    BY <2>1, <2>2 DEF RequestsInv
  <2>4. c.pc \in Other /\ Shape(c)
    BY <2>1, <2>2 DEF Other, RequestsInv, RevokeInv, Shape, Fields
  <2>5. QED
    BY <1>1, <2>3, <2>4, Zenon
<1>7. CASE EndOfRows(r)
  <2>1. PICK c, x : h' = [h EXCEPT ![r] = c] /\ c = [h[r] EXCEPT !.pc = "end", !.cut = x]
    BY <1>7 DEF EndOfRows, RequestsInv
  <2>2. c.pc \in Other /\ Shape(c)
    BY <1>7, <2>1 DEF EndOfRows, Other, RequestsInv, RevokeInv, Shape, Fields
  <2>3. QED
    BY <1>1, <2>1, <2>2, Zenon
<1>8. CASE EndList(r)
  <2>1. PICK c, s, x : /\ h' = [h EXCEPT ![r] = c]
                       /\ c = [pc |-> "sent", found |-> s, cut |-> x]
    BY <1>8 DEF EndList
  <2>2. c.pc \in Other /\ Shape(c)
    BY <2>1 DEF Other, Shape, Fields
  <2>3. QED
    BY <1>1, <2>1, <2>2, Zenon
<1>9. CASE EndOfResponse(r)
  <2>1. PICK c : h' = [h EXCEPT ![r] = c] /\ c = Idle
    BY <1>9 DEF EndOfResponse, Finish
  <2>2. c.pc \in Other /\ Shape(c)
    BY <2>1 DEF Other, Shape, Idle
  <2>3. QED
    BY <1>1, <2>1, <2>2, Zenon
<1>10. RefuseList(r) \/ RowFails(r) \/ Panic(r) \/ (ChunksToDeliver(r) /\ chunk = Invalid)
         => h' = [h EXCEPT ![r] = [pc |-> "failed"]]
  BY DEF RefuseList, RowFails, Panic, ChunksToDeliver, Fail
<1>11. QED
  BY <1>2, <1>3, <1>4, <1>5, <1>6, <1>7, <1>8, <1>9, <1>10 DEF ListActions


\* A step that leaves the table alone.
LEMMA QuietStep ==
    ASSUME CRLInv, UNCHANGED <<certs, users, now>>, NEW r \in Handlers, NEW c,
           h' = [h EXCEPT ![r] = c], RevokeInv(c, DOMAIN certs, Revoked)
    PROVE  CRLInv'
<1>1. TableInv' /\ DOMAIN certs' = DOMAIN certs /\ Revoked' = Revoked
  BY SameTable
<1>2. RequestsInv'
  BY <1>1, OneRequest DEF CRLInv
<1>3. QED
  BY <1>1, <1>2 DEF CRLInv

LEMMA ListActionInv ==
    ASSUME CRLInv, NEW r \in Handlers, ListActions(r) PROVE CRLInv'
<1>1. /\ UNCHANGED <<certs, users, now>>
      /\ \E c : h' = [h EXCEPT ![r] = c] /\ c.pc \in Other /\ Shape(c)
  BY ListActionPC DEF CRLInv
<1>2. PICK c : h' = [h EXCEPT ![r] = c] /\ c.pc \in Other /\ Shape(c)
  BY <1>1
<1>3. RevokeInv(c, DOMAIN certs, Revoked)
  BY <1>2, OtherRequest
<1>4. QED
  BY <1>1, <1>2, <1>3, QuietStep

\* Nothing happens to the table and to the requests.
LEMMA SameRequests ==
    ASSUME CRLInv, UNCHANGED <<certs, users, now, h>> PROVE CRLInv'
  BY SameTable DEF CRLInv, RequestsInv

LEMMA ClientInv ==
    ASSUME CRLInv, NEW r \in Handlers, ClientStep(r) PROVE CRLInv'
<1>1. UNCHANGED <<certs, users, now, h>>
  BY DEF ClientStep, ReadTokens, EndOfStream, Drop, table
<1>2. QED
  BY <1>1, SameRequests

\* The table after certificates were revoked, issued or identities removed:
\* a time of revocation is only changed into another one.
Grows ==
    /\ TableInv' /\ DOMAIN certs \subseteq DOMAIN certs'
    /\ \A c \in DOMAIN certs : certs[c] > 0 => certs'[c] > 0

LEMMA GrowsRevoked ==
    ASSUME Grows PROVE Revoked \subseteq Revoked' /\ DOMAIN certs \subseteq DOMAIN certs'
  BY DEF Grows, Revoked

LEMMA RevokeAllOfGrows ==
    ASSUME TableInv, NEW u, certs' = RevokeAllOf(u), users' \subseteq users, now' = now
    PROVE  /\ Grows /\ DOMAIN certs' = DOMAIN certs
           /\ \A c \in DOMAIN certs :
                /\ Owner[c] = u => certs'[c] > 0
                /\ certs[c] > 0 => certs'[c] = certs[c]
<1>1. /\ DOMAIN certs' = DOMAIN certs
      /\ \A c \in DOMAIN certs : certs'[c] = IF Owner[c] = u /\ certs[c] = 0 THEN now ELSE certs[c]
  BY DEF RevokeAllOf
<1>2. \A c \in DOMAIN certs : certs[c] \in Nat
  BY DEF TableInv
<1>3. certs' \in [DOMAIN certs' -> Nat]
  <2>1. certs' = [c \in DOMAIN certs' |-> certs'[c]]
    BY <1>1 DEF RevokeAllOf
  <2>2. \A c \in DOMAIN certs' : certs'[c] \in Nat
    BY <1>1, <1>2 DEF TableInv
  <2>3. QED
    BY <2>1, <2>2
<1>4. TableInv'
  BY <1>1, <1>3 DEF TableInv
<1>5. QED
  BY <1>1, <1>2, <1>4 DEF Grows, TableInv

LEMMA IssueGrows ==
    ASSUME TableInv, Issue
    PROVE  Grows /\ \A c \in DOMAIN certs : certs'[c] = certs[c]
<1>1. PICK c \in Certs \ DOMAIN certs :
        certs' = [x \in DOMAIN certs \cup {c} |-> IF x = c THEN 0 ELSE certs[x]]
  BY DEF Issue
<1>2. certs' \in [DOMAIN certs' -> Nat] /\ DOMAIN certs' \subseteq Certs
  BY <1>1 DEF TableInv
<1>3. QED
  BY <1>1, <1>2 DEF Issue, Grows, TableInv

LEMMA RevokeCertificateGrows ==
    ASSUME CRLInv, NEW r \in Handlers, RevokeCertificate(r)
    PROVE  /\ Grows /\ h[r].cert \in DOMAIN certs /\ certs'[h[r].cert] > 0
           /\ \A c \in DOMAIN certs : c # h[r].cert => certs'[c] = certs[c]
<1>1. h[r].cert \in DOMAIN certs
  BY DEF CRLInv, RequestsInv, RevokeInv, RevokeCertificate
<1>2. certs' = [certs EXCEPT ![h[r].cert] = now] /\ users' = users /\ now' = now
  BY DEF RevokeCertificate
<1>3. /\ DOMAIN certs' = DOMAIN certs /\ certs'[h[r].cert] = now
      /\ \A c \in DOMAIN certs : c # h[r].cert => certs'[c] = certs[c]
  BY <1>1, <1>2 DEF CRLInv, TableInv
<1>4. certs' \in [DOMAIN certs' -> Nat]
  BY <1>1, <1>2, <1>3 DEF CRLInv, TableInv
<1>5. QED
  BY <1>1, <1>2, <1>3, <1>4 DEF CRLInv, TableInv, Grows

\* What a revocation leaves behind: nothing, or a request for a list.
LEMMA AfterRevocationInv ==
    ASSUME NEW r \in Handlers, NEW mine, AfterRevocation(r, mine), NEW D, NEW R,
           h[r].due \subseteq R, mine \subseteq R
    PROVE  \E c : h' = [h EXCEPT ![r] = c] /\ RevokeInv(c, D, R)
<1>1. CASE Finish(r)
  <2>1. PICK c : h' = [h EXCEPT ![r] = c] /\ c = Idle
    BY <1>1 DEF Finish
  <2>2. RevokeInv(c, D, R)
    BY <2>1 DEF RevokeInv, Shape, Idle
  <2>3. QED
    BY <2>1, <2>2
<1>2. CASE h' = [h EXCEPT ![r] = CRLContext(h[r].due, mine, AllRevoked)]
  <2>1. PICK c : h' = [h EXCEPT ![r] = c] /\ c = CRLContext(h[r].due, mine, AllRevoked)
    BY <1>2
  <2>2. AllRevoked.revAfter \in Nat
    BY DEF AllRevoked
  <2>3. RevokeInv(c, D, R)
    BY <2>1, <2>2 DEF RevokeInv, Shape, CRLContext
  <2>4. QED
    BY <2>1, <2>3
<1>3. QED
  BY <1>1, <1>2 DEF AfterRevocation

LEMMA RevokeCertificateInv ==
    ASSUME CRLInv, NEW r \in Handlers, RevokeCertificate(r) PROVE CRLInv'
<1>1. /\ Grows /\ h[r].cert \in DOMAIN certs /\ certs'[h[r].cert] > 0
  BY RevokeCertificateGrows
<1>2. Revoked \subseteq Revoked' /\ DOMAIN certs \subseteq DOMAIN certs'
  BY <1>1, GrowsRevoked
<1>3. h[r].due \subseteq Revoked' /\ {h[r].cert} \subseteq Revoked'
  <2>1. h[r].due \subseteq Revoked
    BY DEF CRLInv, RequestsInv, RevokeInv, RevokeCertificate
  <2>2. h[r].cert \in Revoked'
    BY <1>1, <1>2 DEF Revoked
  <2>3. QED
    BY <1>2, <2>1, <2>2
<1>4. PICK c : h' = [h EXCEPT ![r] = c] /\ RevokeInv(c, DOMAIN certs', Revoked')
  BY <1>3, AfterRevocationInv DEF RevokeCertificate
<1>5. RequestsInv'
  BY <1>2, <1>4, OneRequest DEF CRLInv
<1>6. QED
  BY <1>1, <1>5 DEF CRLInv, Grows

LEMMA RevokeByIDInv ==
    ASSUME CRLInv, NEW r \in Handlers, RevokeCertificatesByID(r) PROVE CRLInv'
<1>1. /\ h[r].due \subseteq Revoked /\ h[r].mine \subseteq DOMAIN certs
      /\ \A x \in h[r].mine : Owner[x] = h[r].id
  BY DEF CRLInv, RequestsInv, RevokeInv, RevokeCertificatesByID
<1>2. /\ Grows /\ DOMAIN certs' = DOMAIN certs
      /\ \A c \in DOMAIN certs : Owner[c] = h[r].id => certs'[c] > 0
  BY RevokeAllOfGrows DEF CRLInv, RevokeCertificatesByID
<1>3. Revoked \subseteq Revoked' /\ DOMAIN certs \subseteq DOMAIN certs'
  BY <1>2, GrowsRevoked
<1>4. h[r].due \subseteq Revoked' /\ h[r].mine \subseteq Revoked'
  <2>1. h[r].mine \subseteq Revoked'
    BY <1>1, <1>2 DEF Revoked
  <2>2. QED
    BY <1>1, <1>3, <2>1
<1>5. PICK c : h' = [h EXCEPT ![r] = c] /\ RevokeInv(c, DOMAIN certs', Revoked')
  BY <1>4, AfterRevocationInv DEF RevokeCertificatesByID
<1>6. RequestsInv'
  BY <1>3, <1>5, OneRequest DEF CRLInv
<1>7. QED
  BY <1>2, <1>6 DEF CRLInv, Grows


LEMMA RevokeCertLookupInv ==
    ASSUME CRLInv, NEW r \in Handlers, RevokeCertLookup(r) PROVE CRLInv'
<1>1. PICK x, c : /\ x \in DOMAIN certs /\ certs[x] = 0 /\ h' = [h EXCEPT ![r] = c]
                  /\ c = [pc |-> "revokeCert", cert |-> x, due |-> Revoked]
  BY DEF RevokeCertLookup
<1>2. RevokeInv(c, DOMAIN certs, Revoked)
  <2>1. x \notin Revoked
    BY <1>1 DEF Revoked
  <2>2. QED
    BY <1>1, <2>1 DEF RevokeInv, Shape
<1>3. QED
  BY <1>1, <1>2, QuietStep DEF RevokeCertLookup, table

LEMMA RevokeIDSelectInv ==
    ASSUME CRLInv, NEW r \in Handlers, RevokeIDSelect(r) PROVE CRLInv'
<1>1. PICK u, c :
        /\ u \in users /\ h' = [h EXCEPT ![r] = c]
        /\ c = [pc |-> "revokeID", id |-> u, due |-> Revoked,
                mine |-> {x \in DOMAIN certs : Owner[x] = u /\ certs[x] = 0}]
  BY DEF RevokeIDSelect
<1>2. RevokeInv(c, DOMAIN certs, Revoked)
  BY <1>1 DEF RevokeInv, Shape
<1>3. QED
  BY <1>1, <1>2, QuietStep DEF RevokeIDSelect, table

LEMMA GenCRLInv ==
    ASSUME CRLInv, NEW r \in Handlers, GenCRL(r) PROVE CRLInv'
<1>1. PICK w, c : w \in CRLRequests /\ h' = [h EXCEPT ![r] = c] /\ c = CRLContext(Revoked, {}, w)
  BY DEF GenCRL
<1>2. RevokeInv(c, DOMAIN certs, Revoked)
  BY <1>1, QueryConstantsOK DEF RevokeInv, Shape, CRLContext
<1>3. QED
  BY <1>1, <1>2, QuietStep DEF GenCRL, table

LEMMA QueryRevokedInv ==
    ASSUME CRLInv, NEW r \in Handlers, QueryRevoked(r) PROVE CRLInv'
<1>1. PICK c, w, l : /\ w = h[r].window /\ l = GetRevokedCertificates(w)
                     /\ h' = [h EXCEPT ![r] = c]
                     /\ c = [pc |-> "signed", due |-> h[r].due, mine |-> h[r].mine,
                             window |-> w, crl |-> l]
  BY DEF QueryRevoked
<1>2. h[r].due \cup h[r].mine \subseteq Revoked /\ w.revAfter \in Nat
  BY <1>1 DEF CRLInv, RequestsInv, RevokeInv, QueryRevoked
<1>3. l \subseteq Revoked
  <2>1. ASSUME NEW x \in DOMAIN certs, certs[x] > w.revAfter PROVE certs[x] > 0
    BY <1>2, <2>1 DEF CRLInv, TableInv
  <2>2. QED
    BY <1>1, <2>1 DEF GetRevokedCertificates, Revoked
<1>4. w = AllRevoked => Revoked \subseteq l
  <2>1. SUFFICES ASSUME w = AllRevoked, NEW x \in Revoked PROVE x \in l
    OBVIOUS
  <2>2. w.revAfter = 0 /\ w.revBefore = 0 /\ w.expAfter = 0 /\ w.expBefore = 0
    BY <2>1 DEF AllRevoked
  <2>3. x \in DOMAIN certs /\ certs[x] > 0 /\ Expiry[x] > 0
    BY QueryConstantsOK DEF Revoked, CRLInv, TableInv
  <2>4. QED
    BY <1>1, <2>2, <2>3 DEF GetRevokedCertificates
<1>5. RevokeInv(c, DOMAIN certs, Revoked)
  BY <1>1, <1>2, <1>3, <1>4 DEF RevokeInv, Shape
<1>6. QED
  BY <1>1, <1>5, QuietStep DEF QueryRevoked, table

LEMMA ReturnCRLInv ==
    ASSUME CRLInv, NEW r \in Handlers, ReturnCRL(r) PROVE CRLInv'
<1>1. PICK c : h' = [h EXCEPT ![r] = c] /\ c = Idle
  BY DEF ReturnCRL, Finish
<1>2. RevokeInv(c, DOMAIN certs, Revoked)
  BY <1>1 DEF RevokeInv, Shape, Idle
<1>3. QED
  BY <1>1, <1>2, QuietStep DEF ReturnCRL, table

\* Requests keep what they know when the table grows without them.
LEMMA GrowsInv ==
    ASSUME CRLInv, Grows, UNCHANGED h PROVE CRLInv'
<1>1. Revoked \subseteq Revoked' /\ DOMAIN certs \subseteq DOMAIN certs'
  BY GrowsRevoked
<1>2. ASSUME NEW q \in Handlers PROVE RevokeInv(h'[q], DOMAIN certs', Revoked')
  <2>1. h'[q] = h[q] /\ RevokeInv(h[q], DOMAIN certs, Revoked)
    BY DEF CRLInv, RequestsInv
  <2>2. QED
    BY <1>1, <2>1, RevokeInvGrows
<1>3. h' = [r \in Handlers |-> h'[r]]
  BY DEF CRLInv, RequestsInv
<1>4. QED
  BY <1>2, <1>3 DEF CRLInv, RequestsInv, Grows

LEMMA NextCRL == CRLInv /\ [Next]_vars => CRLInv'
<1> SUFFICES ASSUME CRLInv, [Next]_vars PROVE CRLInv'
  OBVIOUS
<1>1. ASSUME NEW r \in Handlers, RequestList(r) \/ ListStep(r) PROVE CRLInv'
  BY <1>1, ListActionInv DEF ListStep, ListActions
<1>2. ASSUME NEW r \in Handlers, ClientStep(r) PROVE CRLInv'
  BY <1>2, ClientInv
<1>3. ASSUME NEW r \in Handlers, RevokeCertLookup(r) \/ RevokeIDSelect(r) \/ GenCRL(r)
      PROVE  CRLInv'
  BY <1>3, RevokeCertLookupInv, RevokeIDSelectInv, GenCRLInv
<1>4. ASSUME NEW r \in Handlers, RevokeStep(r) PROVE CRLInv'
  BY <1>4, RevokeCertificateInv, RevokeByIDInv, QueryRevokedInv, ReturnCRLInv DEF RevokeStep
<1>5. CASE Issue
  BY <1>5, IssueGrows, GrowsInv DEF CRLInv, Issue
<1>6. CASE DeleteUser
  <2>1. PICK u \in users : users' = users \ {u} /\ certs' = RevokeAllOf(u)
    BY <1>6 DEF DeleteUser
  <2>2. Grows
    BY <1>6, <2>1, RevokeAllOfGrows DEF DeleteUser, CRLInv
  <2>3. QED
    BY <1>6, <2>2, GrowsInv DEF DeleteUser
<1>7. CASE Tick
  <2>1. Grows
    BY <1>7 DEF Tick, table, Grows, CRLInv, TableInv
  <2>2. QED
    BY <1>7, <2>1, GrowsInv DEF Tick
<1>8. CASE UNCHANGED vars
  BY <1>8, SameRequests DEF vars
<1>9. QED
  BY <1>1, <1>2, <1>3, <1>4, <1>5, <1>6, <1>7, <1>8 DEF Next

LEMMA SpecCRL == Spec => []CRLInv
  BY InitCRL, NextCRL, PTL DEF Spec

\* A revocation list has every certificate whose revocation was complete when
\* the request came, those that the request itself revoked, and no certificate
\* that is not revoked: genCRL asks for the rows after the revocation is in the
\* table, and no statement takes a revocation back.
THEOREM ListsAreCurrent == Spec => []CRLIsCurrent
<1>1. CRLInv => CRLIsCurrent
  BY DEF CRLInv, RequestsInv, RevokeInv, CRLIsCurrent
<1>2. QED
  BY <1>1, SpecCRL, PTL

\* The time of a revocation changes only by a revocation by number that looked
\* the certificate up before another revocation of it, by number, by name or
\* with the removal of the identity: the lookup of revokeHandler refuses what is
\* revoked, and updateRevokeSQL leaves it alone.
THEOREM RevocationTimes == Spec => RevocationTimeIsFinal
<1>1. ASSUME CRLInv, [Next]_vars, NEW c \in DOMAIN certs, certs[c] > 0, certs'[c] # certs[c]
      PROVE  \E r \in Handlers : /\ h[r].pc = "revokeCert" /\ h'[r].pc # "revokeCert"
                                 /\ h[r].cert = c /\ c \notin h[r].due
  <2>1. TableInv
    BY <1>1 DEF CRLInv
  <2>2. ASSUME NEW r \in Handlers, RevokeCertificate(r)
        PROVE  /\ h[r].pc = "revokeCert" /\ h'[r].pc # "revokeCert"
               /\ h[r].cert = c /\ c \notin h[r].due
    <3>1. h[r].cert = c
      BY <1>1, <2>2, RevokeCertificateGrows
    <3>2. h[r].pc = "revokeCert" /\ c \notin h[r].due /\ DOMAIN h = Handlers
      BY <1>1, <2>2, <3>1 DEF CRLInv, RequestsInv, RevokeInv, RevokeCertificate
    <3>3. h'[r] = Idle \/ h'[r] = CRLContext(h[r].due, {h[r].cert}, AllRevoked)
      BY <2>2, <3>2 DEF RevokeCertificate, AfterRevocation, Finish
    <3>4. /\ Idle.pc # "revokeCert"
          /\ \A x, y, w : CRLContext(x, y, w).pc # "revokeCert"
      BY DEF Idle, CRLContext
    <3>5. h'[r].pc # "revokeCert"
      BY <3>3, <3>4
    <3>6. QED
      BY <3>1, <3>2, <3>5
  <2>3. ~Issue
    BY <1>1, <2>1, IssueGrows
  <2>4. ~DeleteUser
    <3>1. SUFFICES ASSUME DeleteUser PROVE FALSE
      OBVIOUS
    <3>2. PICK u \in users : users' = users \ {u} /\ certs' = RevokeAllOf(u)
      BY <3>1 DEF DeleteUser
    <3>3. QED
      BY <1>1, <2>1, <3>1, <3>2, RevokeAllOfGrows DEF DeleteUser
  <2>5. ASSUME NEW r \in Handlers, RevokeCertificatesByID(r) PROVE FALSE
    BY <1>1, <2>1, <2>5, RevokeAllOfGrows DEF RevokeCertificatesByID
  <2>6. ASSUME NEW r \in Handlers,
               \/ RequestList(r) \/ ListStep(r) \/ ClientStep(r)
               \/ RevokeCertLookup(r) \/ RevokeIDSelect(r) \/ GenCRL(r)
               \/ QueryRevoked(r) \/ ReturnCRL(r)
        PROVE  certs' = certs
    <3>1. CASE RequestList(r) \/ ListStep(r)
      BY <1>1, <3>1, ListActionPC DEF ListStep, ListActions, CRLInv
    <3>2. CASE ClientStep(r)
      BY <3>2 DEF ClientStep, ReadTokens, EndOfStream, Drop, table
    <3>3. QED
      BY <2>6, <3>1, <3>2 DEF RevokeCertLookup, RevokeIDSelect, GenCRL, QueryRevoked, ReturnCRL, table
  <2>7. certs' # certs /\ Next
    BY <1>1 DEF vars
  <2>8. ~Tick
    BY <2>7 DEF Tick, table
  <2>9. PICK r \in Handlers : RevokeCertificate(r)
    BY <2>3, <2>4, <2>5, <2>6, <2>7, <2>8 DEF Next, RevokeStep
  <2>10. QED
    BY <2>2, <2>9
<1>2. ASSUME CRLInv, [Next]_vars
      PROVE  \A c \in DOMAIN certs : certs[c] > 0 /\ certs'[c] # certs[c] =>
               \E r \in Handlers : /\ h[r].pc = "revokeCert" /\ h'[r].pc # "revokeCert"
                                   /\ h[r].cert = c /\ c \notin h[r].due
  BY <1>1, <1>2
<1>3. QED
  BY <1>2, SpecCRL, PTL DEF Spec, RevocationTimeIsFinal


-----------------------------------------------------------------------------
(* The decoder.  Induction up to N, for a property given as the set of     *)
(* numbers that have it.                                                   *)

LEMMA LeastNat == ASSUME NEW S \in SUBSET Nat, S # {}
                  PROVE  \E m \in S : \A n \in S : m <= n
<1>1. PICK m \in S : \A n \in S : ~(<<n, m>> \in OpToRel(<, Nat))
  BY NatLessThanWellFounded, WFMin
<1>2. \A n \in S : ~(n < m)
  BY <1>1 DEF OpToRel
<1>3. QED
  BY <1>2

LEMMA InductionTo ==
    ASSUME NEW N \in Nat, NEW S, 0 \in S,
           \A n \in Nat : n < N /\ n \in S => n + 1 \in S
    PROVE  \A n \in 0..N : n \in S
<1> SUFFICES ASSUME \E n \in 0..N : n \notin S PROVE FALSE
  OBVIOUS
<1> DEFINE B == {n \in Nat : n <= N /\ n \notin S}
<1>1. B \in SUBSET Nat /\ B # {}
  OBVIOUS
<1>2. PICK m \in B : \A n \in B : m <= n
  BY <1>1, LeastNat
<1>3. m \in Nat /\ m <= N /\ m \notin S /\ m # 0
  BY <1>2
<1>4. m - 1 \in Nat /\ m - 1 < N /\ m - 1 \notin B
  BY <1>2, <1>3
<1>5. m - 1 \in S
  BY <1>4
<1>6. QED
  BY <1>3, <1>4, <1>5

\* The clients that the tokens make of a client one by one.
IsDecoding(f, c, s) == f[0] = c /\ \A i \in 1..Len(s) : f[i] = Decoded(f[i - 1], s[i])

LEMMA DecodingExists ==
    ASSUME NEW T, NEW s \in Seq(T), NEW c
    PROVE  \E f : IsDecoding(f, c, s)
<1> DEFINE P(n, f) == f[0] = c /\ \A i \in 1..n : f[i] = Decoded(f[i - 1], s[i])
           S == {n \in Nat : \E f : P(n, f)}
<1>1. 0 \in S
  <2>1. PICK f : f = [i \in {0} |-> c]
    OBVIOUS
  <2>2. P(0, f)
    BY <2>1
  <2>3. QED
    BY <2>2
<1>2. ASSUME NEW n \in Nat, n \in S PROVE n + 1 \in S
  <2>1. PICK f : P(n, f)
    BY <1>2
  <2>2. PICK k : k = [i \in 0..n + 1 |-> IF i = n + 1 THEN Decoded(f[n], s[n + 1]) ELSE f[i]]
    OBVIOUS
  <2>3. /\ \A i \in 0..n : k[i] = f[i]
        /\ k[n + 1] = Decoded(f[n], s[n + 1])
    BY <2>2
  <2>4. ASSUME NEW i \in 1..n + 1 PROVE k[i] = Decoded(k[i - 1], s[i])
    <3>1. CASE i = n + 1
      BY <2>3, <3>1
    <3>2. CASE i \in 1..n
      <4>1. k[i] = f[i] /\ k[i - 1] = f[i - 1]
        BY <2>3, <3>2
      <4>2. QED
        BY <2>1, <3>2, <4>1
    <3>3. QED
      BY <3>1, <3>2
  <2>5. P(n + 1, k)
    BY <2>1, <2>3, <2>4
  <2>6. QED
    BY <2>5
<1>3. Len(s) \in Nat /\ Len(s) \in 0..Len(s)
  OBVIOUS
<1>4. Len(s) \in S
  <2> HIDE DEF S
  <2>1. \A n \in 0..Len(s) : n \in S
    BY <1>1, <1>2, <1>3, InductionTo
  <2>2. QED
    BY <1>3, <2>1
<1>5. QED
  BY <1>4 DEF IsDecoding

LEMMA DecodingIs ==
    ASSUME NEW T, NEW s \in Seq(T), NEW c, NEW f, IsDecoding(f, c, s)
    PROVE  StreamJSONArray(c, s) = {f[Len(s)]}
<1> DEFINE body(g, i) == IF i = 0 THEN {c} ELSE {Decoded(d, s[i]) : d \in g[i - 1]}
<1>1. PICK k : k = [i \in 0..Len(s) |-> {f[i]}]
  OBVIOUS
<1>2. k = [i \in 0..Len(s) |-> body(k, i)]
  <2>1. ASSUME NEW i \in 0..Len(s) PROVE k[i] = body(k, i)
    <3>1. CASE i = 0
      BY <1>1, <3>1 DEF IsDecoding
    <3>2. CASE i # 0
      <4>1. i \in 1..Len(s) /\ i - 1 \in 0..Len(s)
        BY <3>2
      <4>2. k[i] = {Decoded(f[i - 1], s[i])} /\ k[i - 1] = {f[i - 1]}
        BY <1>1, <4>1 DEF IsDecoding
      <4>3. QED
        BY <3>2, <4>2
    <3>3. QED
      BY <3>1, <3>2
  <2>2. k = [i \in 0..Len(s) |-> k[i]]
    BY <1>1
  <2> HIDE DEF body
  <2>3. QED
    BY <2>1, <2>2
<1>3. PICK g : g = CHOOSE x : x = [i \in 0..Len(s) |-> body(x, i)]
  OBVIOUS
<1>4. g = [i \in 0..Len(s) |-> body(g, i)]
  BY <1>2, <1>3
<1>5. StreamJSONArray(c, s) = g[Len(s)]
  BY <1>3 DEF StreamJSONArray
<1>6. Len(s) \in Nat /\ Len(s) \in 0..Len(s)
  OBVIOUS
<1>7. \A i \in 0..Len(s) : g[i] = body(g, i)
  BY <1>4
<1> DEFINE S == {n \in Nat : g[n] = {f[n]}}
<1>8. 0 \in S
  <2>1. 0 \in 0..Len(s)
    BY <1>6
  <2>2. g[0] = body(g, 0)
    BY <1>7, <2>1
  <2>3. g[0] = {c} /\ f[0] = c
    BY <2>2 DEF IsDecoding
  <2>4. QED
    BY <2>3
<1>9. ASSUME NEW n \in Nat, n < Len(s), n \in S PROVE n + 1 \in S
  <2>1. n + 1 \in 1..Len(s) /\ n + 1 \in 0..Len(s) /\ (n + 1) - 1 = n /\ n + 1 # 0
    BY <1>6, <1>9
  <2>2. g[n + 1] = {Decoded(d, s[n + 1]) : d \in g[n]}
    BY <1>7, <2>1
  <2>3. f[n + 1] = Decoded(f[n], s[n + 1])
    BY <2>1 DEF IsDecoding
  <2>4. QED
    BY <1>9, <2>2, <2>3
<1>10. \A n \in 0..Len(s) : n \in S
  <2> HIDE DEF S
  <2>1. QED
    BY <1>6, <1>8, <1>9, InductionTo
<1>11. QED
  BY <1>5, <1>6, <1>10

\* The client that has read the tokens.
Reads(c, s) == CHOOSE d : StreamJSONArray(c, s) = {d}

LEMMA ReadsIs ==
    ASSUME NEW T, NEW s \in Seq(T), NEW c, NEW f, IsDecoding(f, c, s)
    PROVE  Reads(c, s) = f[Len(s)]
  BY DecodingIs DEF Reads

LEMMA ReadsAll ==
    ASSUME NEW T, NEW s \in Seq(T), NEW c
    PROVE  StreamJSONArray(c, s) = {Reads(c, s)}
<1>1. PICK f : IsDecoding(f, c, s)
  BY DecodingExists
<1>2. QED
  BY <1>1, DecodingIs, ReadsIs

LEMMA ReadsNone == ASSUME NEW c PROVE Reads(c, << >>) = c
<1>1. PICK s : s = << >>
  OBVIOUS
<1>2. s \in Seq({}) /\ Len(s) = 0
  BY <1>1, EmptySeq
<1>3. PICK f : IsDecoding(f, c, s)
  BY <1>2, DecodingExists
<1>4. QED
  BY <1>1, <1>2, <1>3, ReadsIs DEF IsDecoding

LEMMA ReadsOne ==
    ASSUME NEW T, NEW s \in Seq(T), Len(s) = 1, NEW c
    PROVE  Reads(c, s) = Decoded(c, s[1])
<1>1. PICK f : IsDecoding(f, c, s)
  BY DecodingExists
<1>2. 1 \in 1..Len(s)
  OBVIOUS
<1>3. f[1] = Decoded(f[1 - 1], s[1]) /\ f[0] = c /\ 1 - 1 = 0
  BY <1>1, <1>2 DEF IsDecoding
<1>4. f[1] = Decoded(c, s[1])
  BY <1>3
<1>5. Reads(c, s) = f[Len(s)]
  BY <1>1, ReadsIs
<1>6. QED
  BY <1>4, <1>5

LEMMA ReadsConcat ==
    ASSUME NEW T, NEW s \in Seq(T), NEW t \in Seq(T), NEW c
    PROVE  Reads(c, s \o t) = Reads(Reads(c, s), t)
<1>1. PICK u : u = s \o t
  OBVIOUS
<1>2. /\ u \in Seq(T) /\ Len(u) = Len(s) + Len(t) /\ Len(s) \in Nat /\ Len(t) \in Nat
      /\ \A i \in 1..Len(s) : u[i] = s[i]
      /\ \A i \in 1..Len(t) : u[Len(s) + i] = t[i]
  <2>1. u \in Seq(T) /\ Len(u) = Len(s) + Len(t) /\ Len(s) \in Nat /\ Len(t) \in Nat
    BY <1>1, ConcatProperties, LenProperties
  <2>2. \A i \in 1..Len(s) + Len(t) : u[i] = IF i <= Len(s) THEN s[i] ELSE t[i - Len(s)]
    BY <1>1, ConcatProperties
  <2>3. \A i \in 1..Len(s) : u[i] = s[i]
    BY <2>1, <2>2
  <2>4. ASSUME NEW i \in 1..Len(t) PROVE u[Len(s) + i] = t[i]
    <3>1. Len(s) + i \in 1..Len(s) + Len(t) /\ ~(Len(s) + i <= Len(s)) /\ (Len(s) + i) - Len(s) = i
      BY <2>1
    <3>2. QED
      BY <2>2, <3>1
  <2>5. QED
    BY <2>1, <2>3, <2>4
<1>3. PICK f : IsDecoding(f, c, u)
  BY <1>2, DecodingExists
<1>4. Reads(c, u) = f[Len(s) + Len(t)]
  BY <1>2, <1>3, ReadsIs
<1>5. IsDecoding(f, c, s)
  BY <1>2, <1>3 DEF IsDecoding
<1>6. Reads(c, s) = f[Len(s)]
  BY <1>5, ReadsIs
<1>7. PICK g : g = [i \in 0..Len(t) |-> f[Len(s) + i]]
  OBVIOUS
<1>8. IsDecoding(g, f[Len(s)], t)
  <2>1. g[0] = f[Len(s)]
    BY <1>2, <1>7
  <2>2. ASSUME NEW i \in 1..Len(t) PROVE g[i] = Decoded(g[i - 1], t[i])
    <3>1. Len(s) + i \in 1..Len(u) /\ (Len(s) + i) - 1 = Len(s) + (i - 1) /\ i - 1 \in 0..Len(t)
      BY <1>2
    <3>2. f[Len(s) + i] = Decoded(f[Len(s) + (i - 1)], t[i])
      BY <1>2, <1>3, <3>1 DEF IsDecoding
    <3>3. QED
      BY <1>7, <3>1, <3>2
  <2>3. QED
    BY <2>1, <2>2 DEF IsDecoding
<1>9. Reads(f[Len(s)], t) = g[Len(t)]
  BY <1>8, ReadsIs
<1>10. QED
  BY <1>1, <1>2, <1>4, <1>6, <1>7, <1>9

\* A client that is done, or has failed, stays so.
LEMMA ReadsStopped ==
    ASSUME NEW T, NEW s \in Seq(T), NEW c, c.st # "reading"
    PROVE  Reads(c, s) = c
<1>1. PICK f : IsDecoding(f, c, s)
  BY DecodingExists
<1> DEFINE S == {n \in Nat : f[n] = c}
<1>2. 0 \in S
  BY <1>1 DEF IsDecoding
<1>3. ASSUME NEW n \in Nat, n < Len(s), n \in S PROVE n + 1 \in S
  <2>1. n + 1 \in 1..Len(s) /\ (n + 1) - 1 = n
    BY <1>3
  <2>2. f[n + 1] = Decoded(c, s[n + 1])
    BY <1>1, <1>3, <2>1 DEF IsDecoding
  <2>3. QED
    BY <2>2 DEF Decoded
<1>4. Len(s) \in Nat /\ Len(s) \in 0..Len(s)
  OBVIOUS
<1>5. \A n \in 0..Len(s) : n \in S
  <2> HIDE DEF S
  <2>1. QED
    BY <1>2, <1>3, <1>4, InductionTo
<1>6. QED
  BY <1>1, <1>4, <1>5, ReadsIs


-----------------------------------------------------------------------------
(* What one token does.  F are the frames of stacks.                       *)

Fr(k, p) == [kind |-> k, path |-> p]
Reading(stack, seen) == [st |-> "reading", stack |-> stack, seen |-> seen]
Kinds == {"stream", "names", "elements", "skip"}

LEMMA Frames ==
    ASSUME NEW k, NEW p
    PROVE  /\ Fr(k, p).kind = k /\ Fr(k, p).path = p
           /\ Stream(p) = Fr("stream", p)
           /\ \A j : [Fr(k, p) EXCEPT !.kind = j] = Fr(j, p)
  BY DEF Fr, Stream

LEMMA Stacks ==
    ASSUME NEW F, NEW S \in Seq(F), NEW f \in F
    PROVE  /\ Top(Append(S, f)) = f /\ Pop(Append(S, f)) = S
           /\ Append(S, f) \in Seq(F) /\ Len(Append(S, f)) = Len(S) + 1
           /\ \A g : Replace(Append(S, f), g) = Append(S, g)
<1>1. PICK x : x = Append(S, f)
  OBVIOUS
<1>2. /\ x \in Seq(F) /\ Len(x) = Len(S) + 1 /\ x[Len(S) + 1] = f
      /\ \A i \in 1..Len(S) : x[i] = S[i]
  BY <1>1, AppendProperties
<1>3. SubSeq(x, 1, Len(x) - 1) = S
  <2>1. Len(x) - 1 = Len(S) /\ Len(S) \in Nat
    BY <1>2
  <2>2. PICK y : y = SubSeq(x, 1, Len(S))
    OBVIOUS
  <2>3. y \in Seq(F) /\ Len(y) = Len(S) /\ \A i \in 1..Len(S) : y[i] = x[i]
    BY <1>2, <2>1, <2>2, SubSeqProperties
  <2>4. y = S
    BY <1>2, <2>3
  <2>5. QED
    BY <2>1, <2>2, <2>4
<1>4. QED
  BY <1>1, <1>2, <1>3 DEF Top, Pop, Replace

\* A stack on which a frame is left goes on reading.
LEMMA GoesOn ==
    ASSUME NEW F, NEW S \in Seq(F), NEW f \in F, f.kind \in Kinds, NEW stack, NEW seen, NEW tok,
           Decode(stack, tok) = Append(S, f)
    PROVE  Decoded(Reading(stack, seen), tok)
             = Reading(Append(S, f), IF Top(stack).kind = "elements" /\ tok.t = "elem"
                                     THEN Append(seen, tok.v) ELSE seen)
<1>1. PICK x : x = Append(S, f)
  OBVIOUS
<1>2. x \in Seq(F) /\ Len(x) = Len(S) + 1 /\ x[Len(S) + 1] = f
  BY <1>1, AppendProperties
<1>3. x # Error
  <2>1. Len(x) # 0
    BY <1>2
  <2>2. QED
    BY <1>2, <2>1, EmptySeq DEF Error
<1>4. x # Done
  <2>1. SUFFICES ASSUME x = Done PROVE FALSE
    OBVIOUS
  <2>2. Len(x) = 1 /\ x[1].kind = "done"
    BY <2>1 DEF Done
  <2>3. x[1] = f
    BY <1>2, <2>2
  <2>4. QED
    BY <2>2, <2>3 DEF Kinds
<1>5. PICK c : c = Reading(stack, seen)
  OBVIOUS
<1>6. c.st = "reading" /\ c.stack = stack /\ c.seen = seen
  BY <1>5 DEF Reading
<1>7. Decode(c.stack, tok) = x
  BY <1>1, <1>6
<1>8. Decoded(c, tok) = [st |-> "reading", stack |-> x,
                         seen |-> IF Top(stack).kind = "elements" /\ tok.t = "elem"
                                  THEN Append(seen, tok.v) ELSE seen]
  BY <1>3, <1>4, <1>6, <1>7 DEF Decoded
<1>9. QED
  BY <1>1, <1>5, <1>8 DEF Reading

LEMMA GoesOnWith ==
    ASSUME NEW F, NEW S \in Seq(F), NEW f \in F, f.kind \in Kinds, NEW stack, NEW seen, NEW tok,
           tok.t # "elem", Decode(stack, tok) = Append(S, f)
    PROVE  Decoded(Reading(stack, seen), tok) = Reading(Append(S, f), seen)
  BY GoesOn

LEMMA Fails ==
    ASSUME NEW stack, NEW seen, NEW tok, Decode(stack, tok) = Error
    PROVE  Decoded(Reading(stack, seen), tok).st = "error"
<1>1. PICK c : c = Reading(stack, seen)
  OBVIOUS
<1>2. c.st = "reading" /\ c.stack = stack /\ c.seen = seen
  BY <1>1 DEF Reading
<1>3. Decode(c.stack, tok) = Error
  BY <1>2
<1>4. Decoded(c, tok).st = "error"
  BY <1>2, <1>3 DEF Decoded
<1>5. QED
  BY <1>1, <1>4

LEMMA Completes ==
    ASSUME NEW stack, NEW seen, NEW tok, Decode(stack, tok) = Done, tok.t # "elem"
    PROVE  Decoded(Reading(stack, seen), tok) = [st |-> "ok", stack |-> << >>, seen |-> seen]
<1>1. PICK c : c = Reading(stack, seen)
  OBVIOUS
<1>2. c.st = "reading" /\ c.stack = stack /\ c.seen = seen
  BY <1>1 DEF Reading
<1>3. Decode(c.stack, tok) = Done /\ Done # Error
  <2>1. Len(Done) # Len(Error)
    BY DEF Done, Error
  <2>2. QED
    BY <1>2, <2>1
<1>4. Decoded(c, tok) = [st |-> "ok", stack |-> << >>, seen |-> seen]
  BY <1>2, <1>3 DEF Decoded
<1>5. QED
  BY <1>1, <1>4

LEMMA Tokens ==
    /\ \A n : Name(n).t = "name" /\ Name(n).v = n
    /\ \A x : Elem(x).t = "elem" /\ Elem(x).v = x
    /\ \A s : Tok(s).t = s
    /\ Scalar.t = "scalar"
  BY DEF Name, Elem, Tok, Scalar

LEMMA DecodeKinds ==
    ASSUME NEW stack, NEW tok
    PROVE  /\ Top(stack).kind = "stream" => Decode(stack, tok) = StreamToken(stack, tok)
           /\ Top(stack).kind = "names" => Decode(stack, tok) = NameToken(stack, tok)
           /\ Top(stack).kind = "elements" => Decode(stack, tok) = ElementToken(stack, tok)
           /\ Top(stack).kind = "skip" => Decode(stack, tok) = SkipToken(stack, tok)
  BY DEF Decode

\* A frame below the top is left when the top is removed.
Below(S) == \E F : \E R \in Seq(F), g \in F : g.kind \in Kinds /\ S = Append(R, g)

LEMMA ReadName ==
    ASSUME NEW F, NEW S \in Seq(F), NEW p, NEW n, NEW seen,
           Fr("names", p) \in F, Fr("stream", Append(p, n)) \in F
    PROVE  Decoded(Reading(Append(S, Fr("names", p)), seen), Name(n))
             = Reading(Append(Append(S, Fr("names", p)), Fr("stream", Append(p, n))), seen)
<1>1. PICK x, f, g, tok : /\ x = Append(S, f) /\ f = Fr("names", p)
                          /\ g = Fr("stream", Append(p, n)) /\ tok = Name(n)
  OBVIOUS
<1>2. /\ f.kind = "names" /\ f.path = p /\ g.kind \in Kinds /\ tok.t = "name" /\ tok.v = n
      /\ g = Stream(Append(p, n)) /\ f \in F /\ g \in F
  BY <1>1, Frames, Tokens DEF Kinds
<1>3. Top(x) = f /\ x \in Seq(F)
  BY <1>1, <1>2, Stacks
<1>4. Decode(x, tok) = Append(x, g)
  BY <1>2, <1>3, DecodeKinds DEF NameToken
<1>5. Decoded(Reading(x, seen), tok) = Reading(Append(x, g), seen)
  BY <1>2, <1>3, <1>4, GoesOnWith
<1>6. QED
  BY <1>1, <1>5

\* A value can be opened on the stack.
Opens(S, p) ==
    \E F : /\ S \in Seq(F) /\ Fr("stream", p) \in F /\ Fr("names", p) \in F
           /\ Fr("elements", p) \in F /\ Skip("]") \in F
OpenedBy(S, p, seen, s, f) ==
    Decoded(Reading(Append(S, Fr("stream", p)), seen), Tok(s)) = Reading(Append(S, f), seen)

LEMMA ReadOpen ==
    ASSUME NEW S, NEW p, Opens(S, p), NEW seen
    PROVE  /\ p \notin ListPaths => OpenedBy(S, p, seen, "{", Fr("names", p))
           /\ p \in ListPaths => OpenedBy(S, p, seen, "[", Fr("elements", p))
           /\ p \notin ListPaths => OpenedBy(S, p, seen, "[", Skip("]"))
<1>0. PICK F : /\ S \in Seq(F) /\ Fr("stream", p) \in F /\ Fr("names", p) \in F
               /\ Fr("elements", p) \in F /\ Skip("]") \in F
  BY DEF Opens
<1>1. PICK x, f : x = Append(S, f) /\ f = Fr("stream", p)
  OBVIOUS
<1>2. PICK b, a : b = Tok("{") /\ a = Tok("[")
  OBVIOUS
<1>3. PICK m, e, k : m = Fr("names", p) /\ e = Fr("elements", p) /\ k = Skip("]")
  OBVIOUS
<1>4. f.kind = "stream" /\ f.path = p /\ b.t = "{" /\ a.t = "["
  BY <1>1, <1>2, Frames, Tokens
<1>5. [f EXCEPT !.kind = "names"] = m /\ [f EXCEPT !.kind = "elements"] = e
  BY <1>1, <1>3, Frames
<1>6. m.kind \in Kinds /\ e.kind \in Kinds /\ k.kind \in Kinds
  BY <1>3 DEF Kinds, Skip, Fr
<1>7. f \in F /\ m \in F /\ e \in F /\ k \in F
  BY <1>0, <1>1, <1>3
<1>8. Top(x) = f /\ x \in Seq(F)
  BY <1>0, <1>1, <1>7, Stacks
<1>9. \A g : Replace(x, g) = Append(S, g)
  BY <1>0, <1>1, <1>7, Stacks
<1>10. ASSUME p \notin ListPaths PROVE Decoded(Reading(x, seen), b) = Reading(Append(S, m), seen)
  <2>1. Decode(x, b) = StreamToken(x, b)
    BY <1>4, <1>8, DecodeKinds
  <2>2. StreamToken(x, b) = Replace(x, m)
    BY <1>4, <1>5, <1>8, <1>10 DEF StreamToken
  <2>3. Decode(x, b) = Append(S, m) /\ b.t # "elem"
    BY <1>4, <1>9, <2>1, <2>2
  <2>4. QED
    BY <1>0, <1>6, <1>7, <2>3, GoesOnWith
<1>11. ASSUME p \in ListPaths PROVE Decoded(Reading(x, seen), a) = Reading(Append(S, e), seen)
  <2>1. Decode(x, a) = StreamToken(x, a)
    BY <1>4, <1>8, DecodeKinds
  <2>2. StreamToken(x, a) = Replace(x, e)
    BY <1>4, <1>5, <1>8, <1>11 DEF StreamToken
  <2>3. Decode(x, a) = Append(S, e) /\ a.t # "elem"
    BY <1>4, <1>9, <2>1, <2>2
  <2>4. QED
    BY <1>0, <1>6, <1>7, <2>3, GoesOnWith
<1>12. ASSUME p \notin ListPaths PROVE Decoded(Reading(x, seen), a) = Reading(Append(S, k), seen)
  <2>1. Decode(x, a) = StreamToken(x, a)
    BY <1>4, <1>8, DecodeKinds
  <2>2. StreamToken(x, a) = Replace(x, k)
    BY <1>3, <1>4, <1>8, <1>12 DEF StreamToken
  <2>3. Decode(x, a) = Append(S, k) /\ a.t # "elem"
    BY <1>4, <1>9, <2>1, <2>2
  <2>4. QED
    BY <1>0, <1>6, <1>7, <2>3, GoesOnWith
<1>13. QED
  BY <1>1, <1>2, <1>3, <1>10, <1>11, <1>12 DEF OpenedBy


LEMMA GoesBack ==
    ASSUME NEW S, Below(S), NEW stack, NEW seen, NEW tok, tok.t # "elem", Decode(stack, tok) = S
    PROVE  Decoded(Reading(stack, seen), tok) = Reading(S, seen)
<1>1. PICK F : \E R \in Seq(F), g \in F : g.kind \in Kinds /\ S = Append(R, g)
  BY DEF Below
<1>2. PICK R \in Seq(F), g \in F : g.kind \in Kinds /\ S = Append(R, g)
  BY <1>1
<1>3. Decode(stack, tok) = Append(R, g)
  BY <1>2
<1>4. Decoded(Reading(stack, seen), tok) = Reading(Append(R, g), seen)
  BY <1>2, <1>3, GoesOnWith
<1>5. QED
  BY <1>2, <1>4

\* The token that ends what the frame stands for.
Skipped(f, tok) == f.kind = "skip" /\ f.path[1] = "]" /\ tok.t = "]"
Closes(f, tok) ==
    \/ f.kind = "stream" /\ tok.t = "scalar"
    \/ f.kind = "names" /\ tok.t = "}"
    \/ f.kind = "elements" /\ tok.t = "]"
    \/ Skipped(f, tok)

\* The value, object, array or skipped array at the top ends.
LEMMA ReadClose ==
    ASSUME NEW F, NEW S \in Seq(F), Below(S), NEW seen, NEW f \in F, NEW tok, tok.t # "elem",
           Closes(f, tok)
    PROVE  Decoded(Reading(Append(S, f), seen), tok) = Reading(S, seen)
<1>1. PICK k \in Nat : Len(S) = k + 1
  <2>1. PICK G : \E R \in Seq(G), g \in G : g.kind \in Kinds /\ S = Append(R, g)
    BY DEF Below
  <2>2. PICK R \in Seq(G), g \in G : S = Append(R, g)
    BY <2>1
  <2>3. Len(S) = Len(R) + 1 /\ Len(R) \in Nat
    BY <2>2, Stacks, LenProperties
  <2>4. QED
    BY <2>3
<1>2. PICK x : x = Append(S, f)
  OBVIOUS
<1>3. Top(x) = f /\ Pop(x) = S /\ Len(x) = Len(S) + 1
  BY <1>2, Stacks
<1>4. Len(x) # 1
  <2>1. Len(x) = (k + 1) + 1
    BY <1>1, <1>3
  <2>2. (k + 1) + 1 # 1
    BY <1>1
  <2>3. QED
    BY <2>1, <2>2
<1>5. Decode(x, tok) = S
  <2>1. CASE f.kind = "stream" /\ tok.t = "scalar"
    BY <1>3, <2>1, DecodeKinds DEF StreamToken
  <2>2. CASE f.kind = "names" /\ tok.t = "}"
    BY <1>3, <1>4, <2>2, DecodeKinds DEF NameToken
  <2>3. CASE f.kind = "elements" /\ tok.t = "]"
    BY <1>3, <2>3, DecodeKinds DEF ElementToken
  <2>4. CASE Skipped(f, tok)
    <3>1. Decode(x, tok) = SkipToken(x, tok)
      BY <1>3, <2>4, DecodeKinds DEF Skipped
    <3>2. SkipToken(x, tok) = Pop(x)
      BY <1>3, <2>4 DEF SkipToken, Skipped
    <3>3. QED
      BY <1>3, <3>1, <3>2
  <2>5. QED
    BY <2>1, <2>2, <2>3, <2>4 DEF Closes
<1>6. Decoded(Reading(x, seen), tok) = Reading(S, seen)
  BY <1>5, GoesBack
<1>7. QED
  BY <1>2, <1>6

\* The outermost object ends.
LEMMA ReadLast ==
    ASSUME NEW F, NEW f \in F, f.kind = "names", NEW S \in Seq(F), Len(S) = 0, NEW seen
    PROVE  Decoded(Reading(Append(S, f), seen), Tok("}"))
             = [st |-> "ok", stack |-> << >>, seen |-> seen]
<1>1. PICK x, tok : x = Append(S, f) /\ tok = Tok("}")
  OBVIOUS
<1>2. Top(x) = f /\ Len(x) = 1 /\ tok.t = "}"
  <2>1. Top(x) = f /\ Len(x) = Len(S) + 1
    BY <1>1, Stacks
  <2>2. Len(S) + 1 = 1
    OBVIOUS
  <2>3. tok.t = "}"
    BY <1>1, Tokens
  <2>4. QED
    BY <2>1, <2>2, <2>3, Zenon
<1>3. Decode(x, tok) = Done
  BY <1>2, DecodeKinds DEF NameToken
<1>4. Decoded(Reading(x, seen), tok) = [st |-> "ok", stack |-> << >>, seen |-> seen]
  BY <1>2, <1>3, Completes
<1>5. QED
  BY <1>1, <1>4

\* An element of a list, and of the list of errors; a name where an element is
\* expected.
LEMMA ReadElement ==
    ASSUME NEW F, NEW S \in Seq(F), NEW f \in F, f.kind = "elements", NEW seen, NEW v
    PROVE  /\ f.path # <<"errors">> => Decoded(Reading(Append(S, f), seen), Elem(v))
                                         = Reading(Append(S, f), Append(seen, v))
           /\ f.path = <<"errors">> =>
                Decoded(Reading(Append(S, f), seen), Elem(v)).st = "error"
           /\ Decoded(Reading(Append(S, f), seen), Name(v)).st = "error"
<1>1. PICK x, e, n : x = Append(S, f) /\ e = Elem(v) /\ n = Name(v)
  OBVIOUS
<1>2. e.t = "elem" /\ e.v = v /\ n.t = "name"
  BY <1>1, Tokens
<1>3. Top(x) = f /\ x \in Seq(F)
  BY <1>1, Stacks
<1>4. Decode(x, e) = ElementToken(x, e) /\ Decode(x, n) = ElementToken(x, n)
  BY <1>3, DecodeKinds
<1>5. ASSUME f.path # <<"errors">> PROVE Decoded(Reading(x, seen), e) = Reading(x, Append(seen, v))
  <2>1. ElementToken(x, e) = x
    BY <1>2, <1>3, <1>5 DEF ElementToken
  <2>2. Decode(x, e) = Append(S, f) /\ f.kind \in Kinds
    BY <1>1, <1>4, <2>1 DEF Kinds
  <2>3. Decoded(Reading(x, seen), e)
          = Reading(Append(S, f), IF Top(x).kind = "elements" /\ e.t = "elem"
                                  THEN Append(seen, e.v) ELSE seen)
    BY <2>2, GoesOn
  <2>4. QED
    BY <1>1, <1>2, <1>3, <2>3
<1>6. ASSUME f.path = <<"errors">> PROVE Decoded(Reading(x, seen), e).st = "error"
  <2>1. ElementToken(x, e) = Error
    BY <1>2, <1>3, <1>6 DEF ElementToken
  <2>2. QED
    BY <1>4, <2>1, Fails
<1>7. Decoded(Reading(x, seen), n).st = "error"
  <2>1. ElementToken(x, n) = Error
    BY <1>2, <1>3 DEF ElementToken
  <2>2. QED
    BY <1>4, <2>1, Fails
<1>8. QED
  BY <1>1, <1>5, <1>6, <1>7


-----------------------------------------------------------------------------
(* The responses as the decoder reads them.                                *)

Marks == {"[", "]", "{", "}", "scalar"}
FieldNames == {"result", "errors", "messages", "success", "caname", "certs", "ids"}
Items == Certs \cup IDs \cup {"error"}
Token == {Name(n) : n \in FieldNames} \cup {Elem(x) : x \in Items} \cup {Tok(s) : s \in Marks}

LEMMA TokenTypes ==
    /\ \A n \in FieldNames : Name(n) \in Token
    /\ \A x \in Items : Elem(x) \in Token
    /\ \A s \in Marks : Tok(s) \in Token
    /\ Scalar \in Token
  BY DEF Token, Scalar, Marks

\* Sequences of two, three, four and seven tokens.
LEMMA Reads2 ==
    ASSUME NEW T, NEW s \in Seq(T), Len(s) = 2, NEW c, NEW d, NEW e,
           d = Decoded(c, s[1]), e = Decoded(d, s[2])
    PROVE  Reads(c, s) = e
<1>1. PICK f : IsDecoding(f, c, s)
  BY DecodingExists
<1>2. f[0] = c /\ \A i \in 1..2 : f[i] = Decoded(f[i - 1], s[i])
  BY <1>1 DEF IsDecoding
<1>3. f[1] = Decoded(f[0], s[1]) /\ f[2] = Decoded(f[1], s[2])
  BY <1>2
<1>4. f[1] = d /\ f[2] = e
  BY <1>2, <1>3
<1>5. QED
  BY <1>1, <1>4, ReadsIs

LEMMA Reads3 ==
    ASSUME NEW T, NEW s \in Seq(T), Len(s) = 3, NEW c, NEW d, NEW e, NEW g,
           d = Decoded(c, s[1]), e = Decoded(d, s[2]), g = Decoded(e, s[3])
    PROVE  Reads(c, s) = g
<1>1. PICK f : IsDecoding(f, c, s)
  BY DecodingExists
<1>2. f[0] = c /\ \A i \in 1..3 : f[i] = Decoded(f[i - 1], s[i])
  BY <1>1 DEF IsDecoding
<1>3. f[1] = Decoded(f[0], s[1]) /\ f[2] = Decoded(f[1], s[2]) /\ f[3] = Decoded(f[2], s[3])
  BY <1>2
<1>4. f[1] = d /\ f[2] = e /\ f[3] = g
  BY <1>2, <1>3
<1>5. QED
  BY <1>1, <1>4, ReadsIs

LEMMA Reads4 ==
    ASSUME NEW T, NEW s \in Seq(T), Len(s) = 4, NEW c, NEW d, NEW e, NEW g, NEW k,
           d = Decoded(c, s[1]), e = Decoded(d, s[2]), g = Decoded(e, s[3]), k = Decoded(g, s[4])
    PROVE  Reads(c, s) = k
<1>1. PICK f : IsDecoding(f, c, s)
  BY DecodingExists
<1>2. f[0] = c /\ \A i \in 1..4 : f[i] = Decoded(f[i - 1], s[i])
  BY <1>1 DEF IsDecoding
<1>3. /\ f[1] = Decoded(f[0], s[1]) /\ f[2] = Decoded(f[1], s[2])
      /\ f[3] = Decoded(f[2], s[3]) /\ f[4] = Decoded(f[3], s[4])
  BY <1>2
<1>4. f[1] = d /\ f[2] = e /\ f[3] = g /\ f[4] = k
  BY <1>2, <1>3
<1>5. QED
  BY <1>1, <1>4, ReadsIs

Chain7(c, s, d1, d2, d3, d4, d5, d6, d7) ==
    /\ d1 = Decoded(c, s[1]) /\ d2 = Decoded(d1, s[2]) /\ d3 = Decoded(d2, s[3])
    /\ d4 = Decoded(d3, s[4]) /\ d5 = Decoded(d4, s[5]) /\ d6 = Decoded(d5, s[6])
    /\ d7 = Decoded(d6, s[7])

LEMMA Reads7 ==
    ASSUME NEW T, NEW s \in Seq(T), Len(s) = 7, NEW c, NEW d1, NEW d2, NEW d3, NEW d4, NEW d5,
           NEW d6, NEW d7, Chain7(c, s, d1, d2, d3, d4, d5, d6, d7)
    PROVE  Reads(c, s) = d7
<1>1. PICK f : IsDecoding(f, c, s)
  BY DecodingExists
<1>2. f[0] = c /\ \A i \in 1..7 : f[i] = Decoded(f[i - 1], s[i])
  BY <1>1 DEF IsDecoding
<1>3. /\ f[1] = Decoded(f[0], s[1]) /\ f[2] = Decoded(f[1], s[2])
      /\ f[3] = Decoded(f[2], s[3]) /\ f[4] = Decoded(f[3], s[4])
      /\ f[5] = Decoded(f[4], s[5]) /\ f[6] = Decoded(f[5], s[6])
      /\ f[7] = Decoded(f[6], s[7])
  BY <1>2
<1>4. f[1] = d1 /\ f[2] = d2 /\ f[3] = d3 /\ f[4] = d4
  BY <1>2, <1>3 DEF Chain7
<1>5. f[5] = d5 /\ f[6] = d6 /\ f[7] = d7
  BY <1>3, <1>4 DEF Chain7
<1>6. QED
  BY <1>1, <1>5, ReadsIs

\* The parts of a response are sequences of tokens.
LEMMA Tuples ==
    ASSUME NEW T
    PROVE  /\ \A a \in T : <<a>> \in Seq(T)
           /\ \A a, b \in T : <<a, b>> \in Seq(T)
           /\ \A a, b, c \in T : <<a, b, c>> \in Seq(T)
           /\ \A a, b, c, d \in T : <<a, b, c, d>> \in Seq(T)
           /\ \A a, b, c, d, e, f, g \in T : <<a, b, c, d, e, f, g>> \in Seq(T)
<1>1. /\ \A a \in T : <<a>> \in Seq(T)
      /\ \A a, b \in T : <<a, b>> \in Seq(T)
      /\ \A a, b, c \in T : <<a, b, c>> \in Seq(T)
      /\ \A a, b, c, d \in T : <<a, b, c, d>> \in Seq(T)
  OBVIOUS
<1>2. \A a, b, c, d, e, f, g \in T : <<a, b, c, d, e, f, g>> \in Seq(T)
  OBVIOUS
<1>3. QED
  BY <1>1, <1>2

LEMMA Parts ==
    ASSUME NEW kind \in {"certs", "ids"}
    PROVE  /\ <<Tok("{"), Name("result")>> \in Seq(Token)
           /\ <<Tok("{"), Name(kind), Tok("[")>> \in Seq(Token)
           /\ <<Scalar>> \in Seq(Token)
           /\ <<Tok("]"), Name("caname"), Scalar, Tok("}")>> \in Seq(Token)
           /\ <<Name("errors"), Tok("[")>> \in Seq(Token)
           /\ <<Elem("error")>> \in Seq(Token)
           /\ <<Tok("]"), Name("messages"), Tok("["), Tok("]"), Name("success"), Scalar, Tok("}")>>
                \in Seq(Token)
<1>1. /\ Tok("{") \in Token /\ Tok("}") \in Token /\ Tok("[") \in Token /\ Tok("]") \in Token
      /\ Scalar \in Token /\ Name("result") \in Token /\ Name(kind) \in Token
      /\ Name("caname") \in Token /\ Name("errors") \in Token /\ Name("messages") \in Token
      /\ Name("success") \in Token /\ Elem("error") \in Token
  BY TokenTypes DEF Marks, FieldNames, Items
<1>2. <<Tok("{"), Name("result")>> \in Seq(Token)
  BY <1>1, Tuples
<1>3. <<Tok("{"), Name(kind), Tok("[")>> \in Seq(Token)
  BY <1>1, Tuples
<1>4. <<Scalar>> \in Seq(Token) /\ <<Elem("error")>> \in Seq(Token)
  BY <1>1, Tuples
<1>5. <<Tok("]"), Name("caname"), Scalar, Tok("}")>> \in Seq(Token)
  BY <1>1, Tuples
<1>6. <<Name("errors"), Tok("[")>> \in Seq(Token)
  BY <1>1, Tuples
<1>7. <<Tok("]"), Name("messages"), Tok("["), Tok("]"), Name("success"), Scalar, Tok("}")>>
        \in Seq(Token)
  BY <1>1, Tuples
<1>8. QED
  BY <1>2, <1>3, <1>4, <1>5, <1>6, <1>7

\* Where the decoder is: in the outermost object, in the result, in the list.
P0 == << >>
P1 == Append(P0, "result")
PList(kind) == Append(P1, kind)
PName == Append(P1, "caname")
PErrors == Append(P0, "errors")
PMessages == Append(P0, "messages")
PSuccess == Append(P0, "success")
Paths(kind) == {P0, P1, PList(kind), PName, PErrors, PMessages, PSuccess}

FrameSet(kind) == {Fr(k, p) : k \in Kinds, p \in Paths(kind)} \cup {Skip("]")}
S0 == << >>
S1 == Append(S0, Fr("names", P0))
S2 == Append(S1, Fr("names", P1))
S3(kind) == Append(S2, Fr("elements", PList(kind)))

LEMMA AppendToOne == ASSUME NEW a, NEW b PROVE Append(<<a>>, b) = <<a, b>>
<1>1. PICK s, x, y : s = <<a>> /\ x = Append(s, b) /\ y = <<a, b>>
  OBVIOUS
<1>2. s \in Seq({a, b}) /\ Len(s) = 1 /\ s[1] = a
  BY <1>1
<1>3. x \in Seq({a, b}) /\ Len(x) = 2 /\ x[1] = a /\ x[2] = b
  <2>1. x \in Seq({a, b}) /\ Len(x) = Len(s) + 1
    BY <1>1, <1>2, AppendProperties
  <2>2. /\ \A i \in 1..Len(s) : x[i] = s[i]
        /\ x[Len(s) + 1] = b
    BY <1>1, <1>2, AppendProperties
  <2>3. QED
    BY <1>2, <2>1, <2>2
<1>4. y \in Seq({a, b}) /\ Len(y) = 2 /\ y[1] = a /\ y[2] = b
  BY <1>1
<1>5. x = y
  <2>1. \A i \in 1..2 : x[i] = y[i]
    BY <1>3, <1>4
  <2>2. QED
    BY <1>3, <1>4, <2>1, SeqEqual
<1>6. QED
  BY <1>1, <1>5

LEMMA PathFacts ==
    ASSUME NEW kind \in {"certs", "ids"}
    PROVE  /\ P0 \notin ListPaths /\ P1 \notin ListPaths /\ PMessages \notin ListPaths
           /\ PErrors \in ListPaths /\ PErrors = <<"errors">>
           /\ PList(kind) \in ListPaths /\ PList(kind) # <<"errors">>
<1>1. P1 = <<"result">> /\ PErrors = <<"errors">> /\ PMessages = <<"messages">>
  BY DEF P0, P1, PErrors, PMessages
<1>2. PList(kind) = <<"result", kind>>
  BY <1>1, AppendToOne DEF PList
<1>3. P0 \notin ListPaths
  BY DEF P0, ListPaths
<1>4. P1 \notin ListPaths /\ PMessages \notin ListPaths
  BY <1>1 DEF ListPaths
<1>5. PErrors \in ListPaths /\ PList(kind) \in ListPaths
  BY <1>1, <1>2 DEF ListPaths
<1>6. PList(kind) # <<"errors">>
  BY <1>2
<1>7. QED
  BY <1>1, <1>3, <1>4, <1>5, <1>6

LEMMA FrameFacts ==
    ASSUME NEW kind
    PROVE  /\ \A k \in Kinds, p \in Paths(kind) : Fr(k, p) \in FrameSet(kind)
           /\ Skip("]") \in FrameSet(kind) /\ Skip("]").kind = "skip" /\ Skip("]").path[1] = "]"
           /\ S0 \in Seq(FrameSet(kind)) /\ S1 \in Seq(FrameSet(kind))
           /\ S2 \in Seq(FrameSet(kind)) /\ Len(S0) = 0
           /\ Below(S1) /\ Below(S2)
<1> DEFINE F == FrameSet(kind)
<1>1. \A k \in Kinds, p \in Paths(kind) : Fr(k, p) \in F
  BY DEF FrameSet
<1>2. Fr("names", P0) \in F /\ Fr("names", P1) \in F
  BY <1>1 DEF Kinds, Paths
<1>3. Skip("]") \in F
  BY DEF FrameSet
<1>4. Skip("]").kind = "skip" /\ Skip("]").path[1] = "]"
  BY DEF Skip
<1>5. S0 \in Seq(F) /\ Len(S0) = 0
  BY EmptySeq DEF S0
<1> HIDE DEF F
<1>6. S1 \in Seq(F)
  BY <1>2, <1>5, Stacks DEF S1
<1>7. S2 \in Seq(F)
  BY <1>2, <1>6, Stacks DEF S2
<1>8. Fr("names", P0).kind \in Kinds /\ Fr("names", P1).kind \in Kinds
  BY DEF Fr, Kinds
<1>9. Below(S1) /\ Below(S2)
  BY <1>2, <1>5, <1>6, <1>8 DEF Below, S1, S2
<1>10. QED
  BY <1>1, <1>3, <1>4, <1>5, <1>6, <1>7, <1>9 DEF F


LEMMA FirstClient == NewClient = Reading(Append(S0, Fr("stream", P0)), << >>)
<1>1. \A x : Append(<< >>, x) = <<x>>
  OBVIOUS
<1>2. Stream(<< >>) = Fr("stream", P0)
  BY Frames DEF P0
<1>3. QED
  BY <1>1, <1>2 DEF NewClient, Reading, S0

\* WriteHeader: the name of the result.
LEMMA HeaderRead ==
    Reads(NewClient, ResultHeader) = Reading(Append(S1, Fr("stream", P1)), << >>)
<1>1. PICK kind : kind = "certs"
  OBVIOUS
<1>2. kind \in {"certs", "ids"}
  BY <1>1
<1>3. PICK F : F = FrameSet(kind)
  OBVIOUS
<1>4. /\ Fr("stream", P0) \in F /\ Fr("names", P0) \in F /\ Fr("elements", P0) \in F
      /\ Fr("stream", P1) \in F /\ Skip("]") \in F /\ S0 \in Seq(F)
  BY <1>3, FrameFacts DEF Kinds, Paths
<1>5. P0 \notin ListPaths
  BY <1>2, PathFacts
<1>6. PICK s : s = <<Tok("{"), Name("result")>>
  OBVIOUS
<1>7. s \in Seq(Token)
  BY <1>2, <1>6, Parts
<1>8. Len(s) = 2 /\ s[1] = Tok("{") /\ s[2] = Name("result")
  BY <1>6
<1>9. Decoded(NewClient, Tok("{")) = Reading(S1, << >>)
  <2>1. Decoded(Reading(Append(S0, Fr("stream", P0)), << >>), Tok("{"))
          = Reading(Append(S0, Fr("names", P0)), << >>)
    <3>1. Opens(S0, P0)
      BY <1>4 DEF Opens
    <3>2. QED
      BY <1>5, <3>1, ReadOpen DEF OpenedBy
  <2>2. QED
    BY <2>1, FirstClient DEF S1
<1>10. Decoded(Reading(S1, << >>), Name("result")) = Reading(Append(S1, Fr("stream", P1)), << >>)
  BY <1>4, ReadName DEF S1, P1
<1>11. Reads(NewClient, s) = Reading(Append(S1, Fr("stream", P1)), << >>)
  BY <1>7, <1>8, <1>9, <1>10, Reads2
<1>12. QED
  BY <1>6, <1>11 DEF ResultHeader

\* The list is opened.
LEMMA ListOpens ==
    ASSUME NEW kind \in {"certs", "ids"}
    PROVE  /\ ListHeader(kind) \in Seq(Token)
           /\ Reads(NewClient, ListHeader(kind)) = Reading(S3(kind), << >>)
<1>1. PICK F : F = FrameSet(kind)
  OBVIOUS
<1>2. /\ Fr("stream", P1) \in F /\ Fr("names", P1) \in F /\ Fr("elements", P1) \in F
      /\ Fr("stream", PList(kind)) \in F /\ Fr("names", PList(kind)) \in F
      /\ Fr("elements", PList(kind)) \in F
  BY <1>1, FrameFacts DEF Kinds, Paths
<1>3. Skip("]") \in F /\ S1 \in Seq(F) /\ S2 \in Seq(F)
  BY <1>1, FrameFacts
<1>4. P1 \notin ListPaths /\ PList(kind) \in ListPaths
  BY PathFacts
<1>5. PICK s : s = <<Tok("{"), Name(kind), Tok("[")>>
  OBVIOUS
<1>6. s \in Seq(Token)
  BY <1>5, Parts
<1>7. Len(s) = 3 /\ s[1] = Tok("{") /\ s[2] = Name(kind) /\ s[3] = Tok("[")
  BY <1>5
<1>8. Decoded(Reading(Append(S1, Fr("stream", P1)), << >>), Tok("{")) = Reading(S2, << >>)
  <2>1. Opens(S1, P1)
    BY <1>2, <1>3 DEF Opens
  <2>2. QED
    BY <1>4, <2>1, ReadOpen DEF OpenedBy, S2
<1>9. Decoded(Reading(S2, << >>), Name(kind)) = Reading(Append(S2, Fr("stream", PList(kind))), << >>)
  BY <1>2, <1>3, ReadName DEF S2, PList
<1>10. Decoded(Reading(Append(S2, Fr("stream", PList(kind))), << >>), Tok("["))
         = Reading(S3(kind), << >>)
  <2>1. Opens(S2, PList(kind))
    BY <1>2, <1>3 DEF Opens
  <2>2. QED
    BY <1>4, <2>1, ReadOpen DEF OpenedBy, S3
<1>11. Reads(Reading(Append(S1, Fr("stream", P1)), << >>), s) = Reading(S3(kind), << >>)
  BY <1>6, <1>7, <1>8, <1>9, <1>10, Reads3
<1>12. ResultHeader \in Seq(Token)
  BY Parts DEF ResultHeader
<1>13. ListHeader(kind) = ResultHeader \o s
  BY <1>5 DEF ListHeader
<1>14. Reads(NewClient, ResultHeader \o s) = Reads(Reads(NewClient, ResultHeader), s)
  BY <1>6, <1>12, ReadsConcat
<1>15. ResultHeader \o s \in Seq(Token)
  BY <1>6, <1>12, ConcatProperties
<1>16. QED
  BY <1>11, <1>13, <1>14, <1>15, HeaderRead


LEMMA ScalarToken == Scalar.t = "scalar" /\ \A s : Tok(s).t = s
  BY Tokens

\* The list and the result are closed.
LEMMA ListCloses ==
    ASSUME NEW kind \in {"certs", "ids"}, NEW seen
    PROVE  ListEnd \in Seq(Token) /\ Reads(Reading(S3(kind), seen), ListEnd) = Reading(S1, seen)
<1>1. PICK F : F = FrameSet(kind)
  OBVIOUS
<1>2. /\ Fr("elements", PList(kind)) \in F /\ Fr("stream", PName) \in F /\ Fr("names", P1) \in F
      /\ Fr("elements", PList(kind)).kind = "elements" /\ Fr("stream", PName).kind = "stream"
      /\ Fr("names", P1).kind = "names"
  BY <1>1, FrameFacts, Frames DEF Kinds, Paths
<1>3. S1 \in Seq(F) /\ S2 \in Seq(F) /\ Below(S1) /\ Below(S2)
  BY <1>1, FrameFacts
<1>4. PICK s : s = ListEnd
  OBVIOUS
<1>5. s \in Seq(Token)
  BY <1>4, Parts DEF ListEnd
<1>6. Len(s) = 4 /\ s[1] = Tok("]") /\ s[2] = Name("caname") /\ s[3] = Scalar /\ s[4] = Tok("}")
  BY <1>4 DEF ListEnd
<1>7. Decoded(Reading(S3(kind), seen), Tok("]")) = Reading(S2, seen)
  <2>1. Closes(Fr("elements", PList(kind)), Tok("]")) /\ Tok("]").t # "elem"
    BY <1>2, ScalarToken DEF Closes
  <2>2. QED
    BY <1>2, <1>3, <2>1, ReadClose DEF S3
<1>8. Decoded(Reading(S2, seen), Name("caname")) = Reading(Append(S2, Fr("stream", PName)), seen)
  BY <1>2, <1>3, ReadName DEF S2, PName
<1>9. Decoded(Reading(Append(S2, Fr("stream", PName)), seen), Scalar) = Reading(S2, seen)
  <2>1. Closes(Fr("stream", PName), Scalar) /\ Scalar.t # "elem"
    BY <1>2, ScalarToken DEF Closes
  <2>2. QED
    BY <1>2, <1>3, <2>1, ReadClose
<1>10. Decoded(Reading(S2, seen), Tok("}")) = Reading(S1, seen)
  <2>1. Closes(Fr("names", P1), Tok("}")) /\ Tok("}").t # "elem"
    BY <1>2, ScalarToken DEF Closes
  <2>2. QED
    BY <1>2, <1>3, <2>1, ReadClose DEF S2
<1>11. Reads(Reading(S3(kind), seen), s) = Reading(S1, seen)
  BY <1>5, <1>6, <1>7, <1>8, <1>9, <1>10, Reads4
<1>12. QED
  BY <1>4, <1>5, <1>11

\* A name in the outermost object.
LEMMA NameAtTop ==
    ASSUME NEW n, NEW seen
    PROVE  Decoded(Reading(S1, seen), Name(n))
             = Reading(Append(S1, Fr("stream", Append(P0, n))), seen)
<1>1. PICK F : F = {Fr("names", P0), Fr("stream", Append(P0, n))}
  OBVIOUS
<1>2. S0 \in Seq(F)
  BY EmptySeq DEF S0
<1>3. Fr("names", P0) \in F /\ Fr("stream", Append(P0, n)) \in F
  BY <1>1
<1>4. QED
  BY <1>2, <1>3, ReadName DEF S1

\* ServeHTTP: the list of errors is opened.
ErrorsOpen == <<Name("errors"), Tok("[")>>
LastPart == <<Tok("]"), Name("messages"), Tok("["), Tok("]"), Name("success"), Scalar, Tok("}")>>
SErrors == Append(S1, Fr("elements", PErrors))

LEMMA ErrorsOpened ==
    ASSUME NEW seen
    PROVE  ErrorsOpen \in Seq(Token) /\ Reads(Reading(S1, seen), ErrorsOpen) = Reading(SErrors, seen)
<1>1. PICK kind : kind = "certs"
  OBVIOUS
<1>2. kind \in {"certs", "ids"}
  BY <1>1
<1>3. PICK F : F = FrameSet(kind)
  OBVIOUS
<1>4. /\ Fr("stream", PErrors) \in F /\ Fr("names", PErrors) \in F /\ Fr("elements", PErrors) \in F
      /\ Fr("names", P0) \in F
  BY <1>3, FrameFacts DEF Kinds, Paths
<1>5. Skip("]") \in F /\ S0 \in Seq(F) /\ S1 \in Seq(F)
  BY <1>3, FrameFacts
<1>6. PICK s : s = ErrorsOpen
  OBVIOUS
<1>7. s \in Seq(Token)
  BY <1>2, <1>6, Parts DEF ErrorsOpen
<1>8. Len(s) = 2 /\ s[1] = Name("errors") /\ s[2] = Tok("[")
  BY <1>6 DEF ErrorsOpen
<1>9. Decoded(Reading(S1, seen), Name("errors")) = Reading(Append(S1, Fr("stream", PErrors)), seen)
  BY <1>4, <1>5, ReadName DEF S1, PErrors
<1>10. Decoded(Reading(Append(S1, Fr("stream", PErrors)), seen), Tok("[")) = Reading(SErrors, seen)
  <2>1. Opens(S1, PErrors)
    BY <1>4, <1>5 DEF Opens
  <2>2. PErrors \in ListPaths
    BY <1>2, PathFacts
  <2>3. QED
    BY <2>1, <2>2, ReadOpen DEF OpenedBy, SErrors
<1>11. Reads(Reading(S1, seen), s) = Reading(SErrors, seen)
  BY <1>7, <1>8, <1>9, <1>10, Reads2
<1>12. QED
  BY <1>6, <1>7, <1>11

\* The rest of every response, when there is no error.
LEMMA LastPartRead ==
    ASSUME NEW seen
    PROVE  /\ LastPart \in Seq(Token)
           /\ Reads(Reading(SErrors, seen), LastPart) = [st |-> "ok", stack |-> << >>, seen |-> seen]
<1>1. PICK kind : kind = "certs"
  OBVIOUS
<1>2. kind \in {"certs", "ids"}
  BY <1>1
<1>3. PICK F : F = FrameSet(kind)
  OBVIOUS
<1>4. /\ Fr("stream", PMessages) \in F /\ Fr("names", PMessages) \in F
      /\ Fr("elements", PMessages) \in F /\ Fr("stream", PSuccess) \in F
      /\ Fr("names", P0) \in F /\ Fr("elements", PErrors) \in F
  BY <1>3, FrameFacts DEF Kinds, Paths
<1>5. /\ Skip("]") \in F /\ Skip("]").kind = "skip" /\ S0 \in Seq(F) /\ S1 \in Seq(F)
      /\ Len(S0) = 0 /\ Below(S1)
  BY <1>3, FrameFacts
<1>6. /\ Fr("elements", PErrors).kind = "elements" /\ Fr("stream", PSuccess).kind = "stream"
      /\ Fr("names", P0).kind = "names"
  BY Frames
<1>7. PICK s : s = LastPart
  OBVIOUS
<1>8. s \in Seq(Token)
  BY <1>2, <1>7, Parts DEF LastPart
<1>9. /\ Len(s) = 7 /\ s[1] = Tok("]") /\ s[2] = Name("messages") /\ s[3] = Tok("[")
      /\ s[4] = Tok("]") /\ s[5] = Name("success") /\ s[6] = Scalar /\ s[7] = Tok("}")
  BY <1>7 DEF LastPart
<1>10. Decoded(Reading(SErrors, seen), Tok("]")) = Reading(S1, seen)
  <2>1. Closes(Fr("elements", PErrors), Tok("]")) /\ Tok("]").t # "elem"
    BY <1>6, ScalarToken DEF Closes
  <2>2. QED
    BY <1>4, <1>5, <2>1, ReadClose DEF SErrors
<1>11. Decoded(Reading(S1, seen), Name("messages"))
         = Reading(Append(S1, Fr("stream", PMessages)), seen)
  BY NameAtTop DEF PMessages
<1>12. Decoded(Reading(Append(S1, Fr("stream", PMessages)), seen), Tok("["))
         = Reading(Append(S1, Skip("]")), seen)
  <2>1. Opens(S1, PMessages)
    BY <1>4, <1>5 DEF Opens
  <2>2. PMessages \notin ListPaths
    BY <1>2, PathFacts
  <2>3. QED
    BY <2>1, <2>2, ReadOpen DEF OpenedBy
<1>13. Decoded(Reading(Append(S1, Skip("]")), seen), Tok("]")) = Reading(S1, seen)
  <2>1. Closes(Skip("]"), Tok("]")) /\ Tok("]").t # "elem"
    <3>1. Skip("]").path[1] = "]" /\ Tok("]").t = "]"
      BY FrameFacts, ScalarToken
    <3>2. QED
      BY <1>5, <3>1 DEF Closes, Skipped
  <2>2. QED
    BY <1>5, <2>1, ReadClose
<1>14. Decoded(Reading(S1, seen), Name("success"))
         = Reading(Append(S1, Fr("stream", PSuccess)), seen)
  BY NameAtTop DEF PSuccess
<1>15. Decoded(Reading(Append(S1, Fr("stream", PSuccess)), seen), Scalar) = Reading(S1, seen)
  <2>1. Closes(Fr("stream", PSuccess), Scalar) /\ Scalar.t # "elem"
    BY <1>6, ScalarToken DEF Closes
  <2>2. QED
    BY <1>4, <1>5, <2>1, ReadClose
<1>16. Decoded(Reading(S1, seen), Tok("}")) = [st |-> "ok", stack |-> << >>, seen |-> seen]
  BY <1>4, <1>5, <1>6, ReadLast DEF S1
<1>17. Reads(Reading(SErrors, seen), s) = [st |-> "ok", stack |-> << >>, seen |-> seen]
  <2>1. PICK c, a, m, k, u, o :
          /\ c = Reading(SErrors, seen) /\ a = Reading(S1, seen)
          /\ m = Reading(Append(S1, Fr("stream", PMessages)), seen)
          /\ k = Reading(Append(S1, Skip("]")), seen)
          /\ u = Reading(Append(S1, Fr("stream", PSuccess)), seen)
          /\ o = [st |-> "ok", stack |-> << >>, seen |-> seen]
    OBVIOUS
  <2>2. a = Decoded(c, s[1]) /\ m = Decoded(a, s[2]) /\ k = Decoded(m, s[3])
    BY <1>9, <1>10, <1>11, <1>12, <2>1, Zenon
  <2>3. a = Decoded(k, s[4]) /\ u = Decoded(a, s[5]) /\ a = Decoded(u, s[6])
    BY <1>9, <1>13, <1>14, <1>15, <2>1, Zenon
  <2>4. o = Decoded(a, s[7])
    BY <1>9, <1>16, <2>1, Zenon
  <2>5. Chain7(c, s, a, m, k, a, u, a, o) /\ Len(s) = 7
    BY <1>9, <2>2, <2>3, <2>4 DEF Chain7
  <2>6. Reads(c, s) = o
    BY <1>8, <2>5, Reads7
  <2>7. QED
    BY <2>1, <2>6, Zenon
<1>18. QED
  BY <1>7, <1>8, <1>17


LEMMA RowRead ==
    ASSUME NEW kind \in {"certs", "ids"}, NEW seen, NEW x, NEW s \in Seq(Token), Len(s) = 1, s[1] = Elem(x)
    PROVE  Reads(Reading(S3(kind), seen), s) = Reading(S3(kind), Append(seen, x))
<1>1. PICK F, f : F = FrameSet(kind) /\ f = Fr("elements", PList(kind))
  OBVIOUS
<1>2. f \in F /\ S2 \in Seq(F)
  BY <1>1, FrameFacts DEF Kinds, Paths
<1>3. f.kind = "elements" /\ f.path = PList(kind) /\ f.path # <<"errors">>
  BY <1>1, Frames, PathFacts
<1>4. S3(kind) = Append(S2, f)
  BY <1>1 DEF S3
<1>5. Decoded(Reading(Append(S2, f), seen), Elem(x)) = Reading(Append(S2, f), Append(seen, x))
  BY <1>2, <1>3, ReadElement
<1>6. Reads(Reading(S3(kind), seen), s) = Decoded(Reading(S3(kind), seen), s[1])
  BY ReadsOne
<1>7. QED
  BY <1>4, <1>5, <1>6

LEMMA TrailerParts ==
    /\ Trailer(FALSE) = ErrorsOpen \o LastPart
    /\ Trailer(TRUE) = (ErrorsOpen \o <<Elem("error")>>) \o LastPart
    /\ ErrorsOpen \in Seq(Token) /\ LastPart \in Seq(Token) /\ <<Elem("error")>> \in Seq(Token)
    /\ ErrorsOpen \o <<Elem("error")>> \in Seq(Token)
    /\ Trailer(FALSE) \in Seq(Token) /\ Trailer(TRUE) \in Seq(Token)
<1>1. ErrorsOpen \in Seq(Token) /\ LastPart \in Seq(Token) /\ <<Elem("error")>> \in Seq(Token)
  BY Parts, ErrorsOpened, LastPartRead
<1>2. Trailer(TRUE) = (ErrorsOpen \o <<Elem("error")>>) \o LastPart
  BY DEF Trailer, ErrorsOpen, LastPart
<1>3. Trailer(FALSE) = (ErrorsOpen \o << >>) \o LastPart
  BY DEF Trailer, ErrorsOpen, LastPart
<1>4. ErrorsOpen \o << >> = ErrorsOpen
  BY <1>1, ConcatEmptySeq
<1>5. Trailer(FALSE) = ErrorsOpen \o LastPart
  BY <1>3, <1>4
<1>6. ErrorsOpen \o <<Elem("error")>> \in Seq(Token)
  BY <1>1, ConcatProperties
<1>7. Trailer(FALSE) \in Seq(Token) /\ Trailer(TRUE) \in Seq(Token)
  BY <1>1, <1>2, <1>5, <1>6, ConcatProperties
<1>8. QED
  BY <1>1, <1>2, <1>5, <1>6, <1>7

\* The end of a list that is complete.
LEMMA ListRead ==
    ASSUME NEW kind \in {"certs", "ids"}, NEW seen
    PROVE  /\ ListEnd \o Trailer(FALSE) \in Seq(Token)
           /\ Reads(Reading(S3(kind), seen), ListEnd \o Trailer(FALSE))
                = [st |-> "ok", stack |-> << >>, seen |-> seen]
<1>1. ListEnd \in Seq(Token) /\ Reads(Reading(S3(kind), seen), ListEnd) = Reading(S1, seen)
  BY ListCloses
<1>2. PICK t : t = Trailer(FALSE)
  OBVIOUS
<1>3. t \in Seq(Token) /\ t = ErrorsOpen \o LastPart
  BY <1>2, TrailerParts
<1>4. Reads(Reading(S3(kind), seen), ListEnd \o t) = Reads(Reading(S1, seen), t)
  <2>1. PICK c, l : c = Reading(S3(kind), seen) /\ l = ListEnd
    OBVIOUS
  <2>2. l \in Seq(Token) /\ t \in Seq(Token)
    BY <1>1, <1>3, <2>1
  <2>3. Reads(c, l \o t) = Reads(Reads(c, l), t)
    BY <2>2, ReadsConcat
  <2>4. QED
    BY <1>1, <2>1, <2>3
<1>5. Reads(Reading(S1, seen), t) = Reads(Reads(Reading(S1, seen), ErrorsOpen), LastPart)
  BY <1>3, TrailerParts, ReadsConcat
<1>6. Reads(Reading(S1, seen), t) = [st |-> "ok", stack |-> << >>, seen |-> seen]
  BY <1>5, ErrorsOpened, LastPartRead
<1>7. ListEnd \o t \in Seq(Token)
  BY <1>1, <1>3, ConcatProperties
<1>8. QED
  BY <1>2, <1>4, <1>6, <1>7

\* A list that breaks off: the name of the errors is not an element.
LEMMA BrokenRead ==
    ASSUME NEW kind \in {"certs", "ids"}, NEW seen
    PROVE  Reads(Reading(S3(kind), seen), Trailer(TRUE)).st = "error"
<1>1. PICK F, f : F = FrameSet(kind) /\ f = Fr("elements", PList(kind))
  OBVIOUS
<1>2. f \in F /\ S2 \in Seq(F) /\ S3(kind) = Append(S2, f)
  BY <1>1, FrameFacts DEF Kinds, Paths, S3
<1>3. f.kind = "elements"
  BY <1>1, Frames
<1>4. PICK c, d : c = Reading(S3(kind), seen) /\ d = Decoded(c, Name("errors"))
  OBVIOUS
<1>5. d.st = "error"
  BY <1>2, <1>3, <1>4, ReadElement
<1>6. Reads(c, ErrorsOpen) = d
  <2>1. PICK s : s = ErrorsOpen
    OBVIOUS
  <2>2. Len(s) = 2 /\ s[1] = Name("errors")
    BY <2>1 DEF ErrorsOpen
  <2>3. d = Decoded(d, s[2])
    BY <1>5 DEF Decoded
  <2>4. s \in Seq(Token) /\ d = Decoded(c, s[1])
    BY <1>4, <2>1, <2>2, TrailerParts
  <2>5. Reads(c, s) = d
    BY <2>2, <2>3, <2>4, Reads2
  <2>6. QED
    BY <2>1, <2>5
<1>7. Reads(d, <<Elem("error")>>) = d /\ Reads(d, LastPart) = d
  BY <1>5, TrailerParts, ReadsStopped
<1>8. Reads(c, Trailer(TRUE)) = d
  <2>1. PICK x, y, z : x = ErrorsOpen /\ y = <<Elem("error")>> /\ z = LastPart
    OBVIOUS
  <2>2. x \in Seq(Token) /\ y \in Seq(Token) /\ z \in Seq(Token) /\ x \o y \in Seq(Token)
    BY <2>1, TrailerParts
  <2>3. Reads(c, x \o y) = Reads(Reads(c, x), y)
    BY <2>2, ReadsConcat
  <2>4. Reads(c, (x \o y) \o z) = Reads(Reads(c, x \o y), z)
    BY <2>2, ReadsConcat
  <2>5. Trailer(TRUE) = (x \o y) \o z
    BY <2>1, TrailerParts
  <2>6. Reads(c, x) = d /\ Reads(d, y) = d /\ Reads(d, z) = d
    BY <1>6, <1>7, <2>1
  <2>7. QED
    BY <2>3, <2>4, <2>5, <2>6
<1>9. QED
  BY <1>4, <1>5, <1>8

\* A response without a list: the error is decoded.
LEMMA RefusalRead ==
    /\ EmptyResult \o Trailer(TRUE) \in Seq(Token)
    /\ Reads(NewClient, EmptyResult \o Trailer(TRUE)).st = "error"
<1>1. PICK kind : kind \in {"certs", "ids"}
  OBVIOUS
<1>2. PICK F, f : F = FrameSet(kind) /\ f = Fr("stream", P1)
  OBVIOUS
<1>3. f \in F /\ S1 \in Seq(F) /\ Below(S1) /\ Fr("elements", PErrors) \in F
  BY <1>2, FrameFacts DEF Kinds, Paths
<1>4. ResultHeader \in Seq(Token) /\ <<Scalar>> \in Seq(Token)
  BY <1>1, Parts DEF ResultHeader
<1>5. PICK s : s = <<Scalar>>
  OBVIOUS
<1>6. s \in Seq(Token) /\ Len(s) = 1 /\ s[1] = Scalar
  BY <1>4, <1>5
<1>7. Decoded(Reading(Append(S1, f), << >>), Scalar) = Reading(S1, << >>)
  <2>1. Closes(f, Scalar) /\ Scalar.t # "elem"
    BY <1>2, Frames, ScalarToken DEF Closes
  <2>2. QED
    BY <1>3, <2>1, ReadClose
<1>8. Reads(NewClient, ResultHeader \o s) = Reading(S1, << >>)
  <2>1. Reads(NewClient, ResultHeader \o s) = Reads(Reads(NewClient, ResultHeader), s)
    BY <1>4, <1>6, ReadsConcat
  <2>2. Reads(NewClient, ResultHeader) = Reading(Append(S1, f), << >>)
    BY <1>2, HeaderRead
  <2>3. Reads(Reading(Append(S1, f), << >>), s) = Reading(S1, << >>)
    BY <1>6, <1>7, ReadsOne
  <2>4. QED
    BY <2>1, <2>2, <2>3
<1>9. PICK x, y, z, u : /\ x = ErrorsOpen /\ y = <<Elem("error")>> /\ z = LastPart
                        /\ u = ResultHeader \o s
  OBVIOUS
<1>10. /\ x \in Seq(Token) /\ y \in Seq(Token) /\ z \in Seq(Token) /\ x \o y \in Seq(Token)
       /\ u \in Seq(Token) /\ Trailer(TRUE) = (x \o y) \o z /\ Trailer(TRUE) \in Seq(Token)
  BY <1>4, <1>6, <1>9, TrailerParts, ConcatProperties
<1>11. Reads(Reading(S1, << >>), x) = Reading(SErrors, << >>)
  BY <1>9, ErrorsOpened
<1>12. PICK d : d = Decoded(Reading(SErrors, << >>), Elem("error"))
  OBVIOUS
<1>13. d.st = "error"
  <2>1. PICK e : e = Fr("elements", PErrors)
    OBVIOUS
  <2>2. e \in F /\ e.kind = "elements" /\ e.path = <<"errors">>
    BY <1>1, <1>3, <2>1, Frames, PathFacts
  <2>3. SErrors = Append(S1, e)
    BY <2>1 DEF SErrors
  <2>4. QED
    BY <1>3, <1>12, <2>2, <2>3, ReadElement
<1>14. Reads(Reading(SErrors, << >>), y) = d
  <2>1. Len(y) = 1 /\ y[1] = Elem("error")
    BY <1>9
  <2>2. QED
    BY <1>10, <1>12, <2>1, ReadsOne
<1>15. Reads(d, z) = d
  BY <1>10, <1>13, ReadsStopped
<1>16. Reads(Reading(S1, << >>), x \o y) = Reads(Reads(Reading(S1, << >>), x), y)
  BY <1>10, ReadsConcat
<1>17. Reads(Reading(S1, << >>), (x \o y) \o z) = Reads(Reads(Reading(S1, << >>), x \o y), z)
  BY <1>10, ReadsConcat
<1>18. Reads(NewClient, u \o Trailer(TRUE)) = Reads(Reads(NewClient, u), Trailer(TRUE))
  BY <1>10, ReadsConcat
<1>19. Reads(NewClient, u \o Trailer(TRUE)) = d
  BY <1>8, <1>9, <1>10, <1>11, <1>14, <1>15, <1>16, <1>17, <1>18
<1>20. u \o Trailer(TRUE) \in Seq(Token)
  BY <1>10, ConcatProperties
<1>21. u = EmptyResult
  BY <1>5, <1>9 DEF EmptyResult
<1>22. QED
  BY <1>13, <1>19, <1>20, <1>21


-----------------------------------------------------------------------------
(* Lists.                                                                  *)

LEMMA SetToSeqType ==
    ASSUME NEW S, IsFiniteSet(S) PROVE SetToSeq(S) \in Seq(S)
<1>1. Cardinality(S) \in Nat /\ ExistsBijection(1..Cardinality(S), S)
  BY FS_CardinalityType
<1>2. PICK f \in [1..Cardinality(S) -> S] : IsInjective(f)
  BY <1>1 DEF ExistsBijection, Bijection, Injection, IsInjective
<1>3. SetToSeq(S) \in [1..Cardinality(S) -> S]
  BY <1>2 DEF SetToSeq
<1>4. QED
  BY <1>1, <1>3

LEMMA QueryType ==
    ASSUME TableInv, NEW req PROVE SetToSeq(Query(req, req.aff)) \in Seq(Items)
<1>1. PICK S : S = Query(req, req.aff)
  OBVIOUS
<1>2. S \subseteq Certs \/ S \subseteq IDs
  <2>1. GetCertificates(req, req.aff) \subseteq DOMAIN certs
    BY DEF GetCertificates
  <2>2. GetFilteredUsers(req, req.aff) \subseteq users
    BY DEF GetFilteredUsers
  <2>3. QED
    BY <1>1, <2>1, <2>2 DEF Query, TableInv
<1>3. IsFiniteSet(S) /\ S \subseteq Items
  BY <1>2, FS_Subset, QueryConstantsOK DEF Items
<1>4. SetToSeq(S) \in Seq(S)
  BY <1>3, SetToSeqType
<1>5. SetToSeq(S) \in Seq(Items)
  BY <1>3, <1>4, SeqMonotonic
<1>6. QED
  BY <1>1, <1>5

\* The record of a client.
ClientShape(l) == l = [x \in {"st", "stack", "seen"} |-> l[x]]

LEMMA DecodedShape ==
    ASSUME NEW l, ClientShape(l), NEW tok PROVE ClientShape(Decoded(l, tok))
<1>1. CASE l.st # "reading"
  BY <1>1 DEF Decoded
<1>2. CASE l.st = "reading"
  <2>1. PICK a, b, c : Decoded(l, tok) = [st |-> a, stack |-> b, seen |-> c]
    BY <1>2 DEF Decoded
  <2>2. ClientShape([st |-> a, stack |-> b, seen |-> c])
    BY DEF ClientShape
  <2>3. QED
    BY <2>1, <2>2
<1>3. QED
  BY <1>1, <1>2

LEMMA ReadsShape ==
    ASSUME NEW T, NEW s \in Seq(T), NEW c, ClientShape(c) PROVE ClientShape(Reads(c, s))
<1>1. PICK f : IsDecoding(f, c, s)
  BY DecodingExists
<1> DEFINE S == {n \in Nat : ClientShape(f[n])}
<1>2. 0 \in S
  BY <1>1 DEF IsDecoding
<1>3. ASSUME NEW n \in Nat, n < Len(s), n \in S PROVE n + 1 \in S
  <2>1. n + 1 \in 1..Len(s) /\ (n + 1) - 1 = n
    BY <1>3
  <2>2. f[n + 1] = Decoded(f[n], s[n + 1])
    BY <1>1, <2>1 DEF IsDecoding
  <2>3. QED
    BY <1>3, <2>2, DecodedShape
<1>4. Len(s) \in Nat /\ Len(s) \in 0..Len(s)
  OBVIOUS
<1>5. \A n \in 0..Len(s) : n \in S
  <2> HIDE DEF S
  <2>1. QED
    BY <1>2, <1>3, <1>4, InductionTo
<1>6. ClientShape(f[Len(s)])
  BY <1>4, <1>5
<1>7. QED
  BY <1>1, <1>6, ReadsIs

\* The first n elements of what was found.
SeenIs(seen, found, n) ==
    seen \in Seq(Items) /\ Len(seen) = n /\ \A i \in 1..n : seen[i] = found[i]

\* A client that has read what was written is in the list, or has failed.
InList(x, kind, found, n) ==
    \/ x.st = "error"
    \/ \E seen : SeenIs(seen, found, n) /\ x = Reading(S3(kind), seen)

\* c is a request, l its client and w what is under way.
ListInv(c, l, w) ==
    /\ w \in Seq(Token) /\ ClientShape(l)
    /\ c.pc \in {"query", "chunks"} =>
         c.req.kind \in {"certs", "ids"} /\ w = << >> /\ (l = NewClient \/ l.st = "error")
    /\ c.pc \in {"chunks", "rows", "end", "sent"} => c.found \in Seq(Items)
    /\ c.pc \in {"rows", "end"} =>
         /\ c.req.kind \in {"certs", "ids"} /\ c.n \in 0..Len(c.found) /\ c.pending \in Seq(Token)
         /\ InList(Reads(Reads(l, w), c.pending), c.req.kind, c.found, c.n)
    /\ c.pc = "end" => c.cut \/ c.n = Len(c.found)
    /\ c.pc = "sent" =>
         \/ Reads(l, w).st = "error"
         \/ Reads(l, w).st = "ok" /\ (c.cut \/ Reads(l, w).seen = c.found)
    /\ c.pc = "failed" => Reads(l, w).st # "ok"

ListsInv ==
    /\ cl = [r \in Handlers |-> cl[r]] /\ wire = [r \in Handlers |-> wire[r]]
    /\ \A r \in Handlers : ListInv(h[r], cl[r], wire[r])

LEMMA InitLists == Init => ListsInv
<1> SUFFICES ASSUME Init PROVE ListsInv
  OBVIOUS
<1>1. cl = [r \in Handlers |-> cl[r]] /\ wire = [r \in Handlers |-> wire[r]]
  BY DEF Init
<1>2. ASSUME NEW r \in Handlers PROVE ListInv(h[r], cl[r], wire[r])
  <2>1. h[r].pc = "idle" /\ wire[r] = << >>
    BY DEF Init, Idle
  <2>2. ClientShape(cl[r])
    BY DEF Init, ClientShape
  <2>3. << >> \in Seq(Token)
    BY EmptySeq
  <2>4. QED
    BY <2>1, <2>2, <2>3 DEF ListInv
<1>3. QED
  BY <1>1, <1>2 DEF ListsInv

LEMMA OneList ==
    ASSUME ListsInv, NEW r \in Handlers,
           \A q \in Handlers : q # r => h'[q] = h[q] /\ cl'[q] = cl[q] /\ wire'[q] = wire[q],
           cl' = [q \in Handlers |-> cl'[q]], wire' = [q \in Handlers |-> wire'[q]],
           ListInv(h'[r], cl'[r], wire'[r])
    PROVE  ListsInv'
<1>1. ASSUME NEW q \in Handlers PROVE ListInv(h'[q], cl'[q], wire'[q])
  <2>1. CASE q = r
    BY <2>1
  <2>2. CASE q # r
    BY <2>2 DEF ListsInv
  <2>3. QED
    BY <2>1, <2>2
<1>2. QED
  BY <1>1 DEF ListsInv

\* Requests that no client reads a list of.
LEMMA NoList ==
    ASSUME NEW c, NEW d, NEW l, NEW w, ListInv(c, l, w),
           d.pc \notin {"query", "chunks", "rows", "end", "sent", "failed"}
    PROVE  ListInv(d, l, w)
  BY DEF ListInv


\* What is written after the list, and when the list is broken.
LEMMA AfterList ==
    ASSUME NEW x, NEW kind \in {"certs", "ids"}, NEW found, NEW n, InList(x, kind, found, n)
    PROVE  /\ Reads(x, Trailer(TRUE)).st = "error"
           /\ \/ Reads(x, ListEnd \o Trailer(FALSE)).st = "error"
              \/ /\ Reads(x, ListEnd \o Trailer(FALSE)).st = "ok"
                 /\ SeenIs(Reads(x, ListEnd \o Trailer(FALSE)).seen, found, n)
           /\ x.st # "ok"
<1>1. CASE x.st = "error"
  <2>1. Reads(x, Trailer(TRUE)) = x
    BY <1>1, TrailerParts, ReadsStopped
  <2>2. ListEnd \o Trailer(FALSE) \in Seq(Token)
    BY ListRead
  <2>3. Reads(x, ListEnd \o Trailer(FALSE)) = x
    BY <1>1, <2>2, ReadsStopped
  <2>4. QED
    BY <1>1, <2>1, <2>3
<1>2. CASE x.st # "error"
  <2>1. PICK seen : SeenIs(seen, found, n) /\ x = Reading(S3(kind), seen)
    BY <1>2 DEF InList
  <2>2. x.st = "reading"
    BY <2>1 DEF Reading
  <2>3. Reads(x, Trailer(TRUE)).st = "error"
    BY <2>1, BrokenRead
  <2>4. Reads(x, ListEnd \o Trailer(FALSE)) = [st |-> "ok", stack |-> << >>, seen |-> seen]
    BY <2>1, ListRead
  <2>5. PICK y : y = Reads(x, ListEnd \o Trailer(FALSE))
    OBVIOUS
  <2>6. y.st = "ok" /\ y.seen = seen
    <3>1. y = [st |-> "ok", stack |-> << >>, seen |-> seen]
      BY <2>4, <2>5
    <3>2. QED
      BY <3>1
  <2>7. Reads(x, ListEnd \o Trailer(FALSE)).st = "ok"
    BY <2>5, <2>6, Zenon
  <2>8. SeenIs(Reads(x, ListEnd \o Trailer(FALSE)).seen, found, n)
    BY <2>1, <2>5, <2>6, Zenon
  <2>9. x.st # "ok"
    BY <2>2
  <2>10. QED
    BY <2>3, <2>7, <2>8, <2>9, Zenon
<1>3. QED
  BY <1>1, <1>2, Zenon

\* One more row.
LEMMA OneMore ==
    ASSUME NEW x, NEW kind \in {"certs", "ids"}, NEW found \in Seq(Items), NEW n \in Nat,
           n + 1 <= Len(found), InList(x, kind, found, n), NEW s \in Seq(Token), Len(s) = 1,
           s[1] = Elem(found[n + 1])
    PROVE  InList(Reads(x, s), kind, found, n + 1)
<1>1. CASE x.st = "error"
  <2>1. Reads(x, s) = x
    BY <1>1, ReadsStopped
  <2>2. QED
    BY <1>1, <2>1 DEF InList
<1>2. CASE x.st # "error"
  <2>1. PICK seen : SeenIs(seen, found, n) /\ x = Reading(S3(kind), seen)
    BY <1>2 DEF InList
  <2>2. PICK y : y = Append(seen, found[n + 1])
    OBVIOUS
  <2>3. found[n + 1] \in Items
    <3>1. n + 1 \in 1..Len(found)
      OBVIOUS
    <3>2. QED
      BY <3>1, ElementOfSeq
  <2>4. /\ y \in Seq(Items) /\ Len(y) = n + 1 /\ y[n + 1] = found[n + 1]
        /\ \A i \in 1..n : y[i] = seen[i]
    BY <2>1, <2>2, <2>3, AppendProperties DEF SeenIs
  <2>5. SeenIs(y, found, n + 1)
    <3>1. ASSUME NEW i \in 1..n + 1 PROVE y[i] = found[i]
      <4>1. CASE i = n + 1
        BY <2>4, <4>1
      <4>2. CASE i \in 1..n
        BY <2>1, <2>4, <4>2 DEF SeenIs
      <4>3. QED
        BY <4>1, <4>2
    <3>2. QED
      BY <2>4, <3>1 DEF SeenIs
  <2>6. Reads(x, s) = Reading(S3(kind), y)
    BY <2>1, <2>2, RowRead
  <2>7. QED
    BY <2>5, <2>6 DEF InList
<1>3. QED
  BY <1>1, <1>2

\* Tokens that follow others.
LEMMA Follows ==
    ASSUME NEW l, NEW w \in Seq(Token), NEW p \in Seq(Token), NEW t \in Seq(Token)
    PROVE  /\ w \o (p \o t) \in Seq(Token) /\ p \o t \in Seq(Token)
           /\ Reads(l, w \o (p \o t)) = Reads(Reads(Reads(l, w), p), t)
           /\ Reads(Reads(l, w), p \o t) = Reads(Reads(Reads(l, w), p), t)
<1>1. PICK u : u = p \o t
  OBVIOUS
<1>2. u \in Seq(Token) /\ w \o u \in Seq(Token)
  BY <1>1, ConcatProperties
<1>3. Reads(l, w \o u) = Reads(Reads(l, w), u)
  BY <1>2, ReadsConcat
<1>4. Reads(Reads(l, w), p \o t) = Reads(Reads(Reads(l, w), p), t)
  BY ReadsConcat
<1>5. QED
  BY <1>1, <1>2, <1>3, <1>4

\* A response without a list.
LEMMA Refused ==
    ASSUME NEW c, NEW l, NEW w, ListInv(c, l, w), c.pc \in {"query", "chunks"}, NEW d, d.pc = "failed"
    PROVE  ListInv(d, l, w \o (EmptyResult \o Trailer(TRUE)))
<1>1. PICK t : t = EmptyResult \o Trailer(TRUE)
  OBVIOUS
<1>2. t \in Seq(Token) /\ Reads(NewClient, t).st = "error"
  BY <1>1, RefusalRead
<1>3. w = << >> /\ (l = NewClient \/ l.st = "error")
  BY DEF ListInv
<1>4. w \o t = t
  BY <1>2, <1>3, ConcatEmptySeq
<1>5. Reads(l, t).st = "error"
  <2>1. CASE l = NewClient
    BY <1>2, <2>1
  <2>2. CASE l.st = "error"
    BY <1>2, <2>2, ReadsStopped
  <2>3. QED
    BY <1>3, <2>1, <2>2
<1>6. ListInv(d, l, t)
  BY <1>2, <1>5 DEF ListInv
<1>7. QED
  BY <1>1, <1>4, <1>6

\* The list is opened.
LEMMA Opened ==
    ASSUME NEW c, NEW l, NEW w, ListInv(c, l, w), c.pc = "chunks", NEW d, d.pc = "rows",
           d.req = c.req, d.found = c.found, d.n = 0, d.pending = ListHeader(c.req.kind)
    PROVE  ListInv(d, l, w)
<1>1. PICK kind \in {"certs", "ids"} : kind = c.req.kind
  BY DEF ListInv
<1>2. w = << >> /\ (l = NewClient \/ l.st = "error") /\ c.found \in Seq(Items) /\ ClientShape(l)
  BY DEF ListInv
<1>3. w \in Seq(Token) /\ Reads(l, w) = l
  BY <1>2, EmptySeq, ReadsNone
<1>4. PICK t : t = ListHeader(kind)
  OBVIOUS
<1>5. t \in Seq(Token) /\ Reads(NewClient, t) = Reading(S3(kind), << >>)
  BY <1>4, ListOpens
<1>6. SeenIs(<< >>, c.found, 0)
  BY EmptySeq DEF SeenIs
<1>7. InList(Reads(l, t), kind, c.found, 0)
  <2>1. CASE l = NewClient
    BY <1>5, <1>6, <2>1 DEF InList
  <2>2. CASE l.st = "error"
    <3>1. Reads(l, t) = l
      BY <1>5, <2>2, ReadsStopped
    <3>2. QED
      BY <2>2, <3>1 DEF InList
  <2>3. QED
    BY <1>2, <2>1, <2>2
<1>8. 0 \in 0..Len(c.found)
  BY <1>2, LenProperties
<1>9. QED
  BY <1>1, <1>2, <1>3, <1>4, <1>5, <1>7, <1>8 DEF ListInv

\* What the steps of a list do to the request c, of the client l, with w under way.
LEMMA ListFails ==
    ASSUME NEW c, NEW l, NEW w, ListInv(c, l, w), c.pc = "rows", NEW d, d.pc = "failed"
    PROVE  ListInv(d, l, w \o (c.pending \o Trailer(TRUE)))
<1>1. PICK p, t, kind, n, found :
        p = c.pending /\ t = Trailer(TRUE) /\ kind = c.req.kind /\ n = c.n /\ found = c.found
  OBVIOUS
<1>2. /\ w \in Seq(Token) /\ p \in Seq(Token) /\ ClientShape(l) /\ kind \in {"certs", "ids"}
      /\ InList(Reads(Reads(l, w), p), kind, found, n)
  BY <1>1 DEF ListInv
<1>3. t \in Seq(Token)
  BY <1>1, TrailerParts
<1>4. Reads(Reads(Reads(l, w), p), t).st = "error"
  BY <1>1, <1>2, AfterList
<1>5. PICK u : u = w \o (p \o t)
  OBVIOUS
<1>6. u \in Seq(Token) /\ Reads(l, u).st = "error"
  BY <1>2, <1>3, <1>4, <1>5, Follows
<1>7. ListInv(d, l, u)
  BY <1>2, <1>6 DEF ListInv
<1>8. QED
  BY <1>1, <1>5, <1>7

LEMMA ListAborts ==
    ASSUME NEW c, NEW l, NEW w, ListInv(c, l, w), c.pc = "rows", NEW d, d.pc = "failed"
    PROVE  ListInv(d, l, w)
<1>1. /\ w \in Seq(Token) /\ c.pending \in Seq(Token) /\ ClientShape(l)
      /\ c.req.kind \in {"certs", "ids"}
      /\ InList(Reads(Reads(l, w), c.pending), c.req.kind, c.found, c.n)
  BY DEF ListInv
<1>2. Reads(Reads(l, w), c.pending).st # "ok"
  BY <1>1, AfterList
<1>3. Reads(l, w).st # "ok"
  <2>1. SUFFICES ASSUME Reads(l, w).st = "ok" PROVE FALSE
    OBVIOUS
  <2>2. Reads(l, w).st # "reading"
    BY <2>1
  <2>3. Reads(Reads(l, w), c.pending) = Reads(l, w)
    BY <1>1, <2>2, ReadsStopped
  <2>4. QED
    BY <1>2, <2>1, <2>3
<1>4. QED
  BY <1>1, <1>3 DEF ListInv

LEMMA ListEnds ==
    ASSUME NEW c, NEW l, NEW w, ListInv(c, l, w), c.pc = "end",
           NEW d, d.pc = "sent", d.found = c.found, d.cut = c.cut
    PROVE  ListInv(d, l, w \o (c.pending \o (ListEnd \o Trailer(FALSE))))
<1>1. PICK p, t, kind, n, found :
        /\ p = c.pending /\ t = ListEnd \o Trailer(FALSE) /\ kind = c.req.kind
        /\ n = c.n /\ found = c.found
  OBVIOUS
<1>2. /\ w \in Seq(Token) /\ p \in Seq(Token) /\ ClientShape(l) /\ kind \in {"certs", "ids"}
      /\ InList(Reads(Reads(l, w), p), kind, found, n) /\ found \in Seq(Items)
      /\ c.cut \/ n = Len(found)
  BY <1>1 DEF ListInv
<1>3. t \in Seq(Token)
  BY <1>1, ListRead
<1>4. PICK u, y : u = w \o (p \o t) /\ y = Reads(Reads(Reads(l, w), p), t)
  OBVIOUS
<1>5. u \in Seq(Token) /\ Reads(l, u) = y
  BY <1>2, <1>3, <1>4, Follows
<1>6. y.st = "error" \/ (y.st = "ok" /\ SeenIs(y.seen, found, n))
  BY <1>1, <1>2, <1>4, AfterList
<1>7. y.st = "error" \/ (y.st = "ok" /\ (c.cut \/ y.seen = found))
  <2>1. SUFFICES ASSUME SeenIs(y.seen, found, n), n = Len(found) PROVE y.seen = found
    BY <1>2, <1>6
  <2>2. PICK s : s = y.seen
    OBVIOUS
  <2>3. s \in Seq(Items) /\ Len(s) = Len(found) /\ \A i \in 1..Len(s) : s[i] = found[i]
    BY <2>1, <2>2 DEF SeenIs
  <2>4. s = found
    BY <1>2, <2>3, SeqEqual
  <2>5. QED
    BY <2>2, <2>4
<1>8. ListInv(d, l, u)
  BY <1>1, <1>2, <1>5, <1>7 DEF ListInv
<1>9. QED
  BY <1>1, <1>4, <1>8

LEMMA RowsEnd ==
    ASSUME NEW c, NEW l, NEW w, ListInv(c, l, w), c.pc = "rows",
           NEW d, d.pc = "end", d.req = c.req, d.found = c.found, d.n = c.n,
           d.pending = c.pending, c.n < Len(c.found) => d.cut
    PROVE  ListInv(d, l, w)
<1>1. c.n \in 0..Len(c.found) /\ c.found \in Seq(Items)
  BY DEF ListInv
<1>2. c.n < Len(c.found) \/ c.n = Len(c.found)
  BY <1>1, LenProperties
<1>3. d.cut \/ d.n = Len(d.found)
  BY <1>2
<1>4. QED
  BY <1>3 DEF ListInv

LEMMA RowKept ==
    ASSUME NEW c, NEW l, NEW w, ListInv(c, l, w), c.pc = "rows", c.n + 1 <= Len(c.found),
           NEW d, d.pc = "rows", d.req = c.req, d.found = c.found, d.n = c.n + 1,
           NEW s, s = <<Elem(c.found[c.n + 1])>>
    PROVE  /\ d.pending = c.pending \o s => ListInv(d, l, w)
           /\ d.pending = << >> => ListInv(d, l, w \o (c.pending \o s))
<1>1. PICK p, kind, n, found :
        p = c.pending /\ kind = c.req.kind /\ n = c.n /\ found = c.found
  OBVIOUS
<1>2. /\ w \in Seq(Token) /\ p \in Seq(Token) /\ ClientShape(l) /\ kind \in {"certs", "ids"}
      /\ InList(Reads(Reads(l, w), p), kind, found, n) /\ found \in Seq(Items)
      /\ n \in 0..Len(found)
  BY <1>1 DEF ListInv
<1>3. n + 1 \in 1..Len(found) /\ n + 1 <= Len(found) /\ n \in Nat /\ n + 1 \in 0..Len(found)
  BY <1>1, <1>2, LenProperties
<1>4. found[n + 1] \in Items
  BY <1>2, <1>3, ElementOfSeq
<1>5. s \in Seq(Token) /\ Len(s) = 1 /\ s[1] = Elem(found[n + 1])
  <2>1. PICK e : e = Elem(found[n + 1])
    OBVIOUS
  <2>2. e \in Token
    BY <1>4, <2>1 DEF Token
  <2>3. s = <<e>>
    BY <1>1, <2>1
  <2>4. s \in Seq(Token) /\ Len(s) = 1 /\ s[1] = e
    BY <2>2, <2>3
  <2>5. QED
    BY <2>1, <2>4
<1>6. PICK x : x = Reads(Reads(Reads(l, w), p), s)
  OBVIOUS
<1>7. InList(x, kind, found, n + 1)
  BY <1>2, <1>3, <1>5, <1>6, OneMore
<1>8. PICK u, v : u = p \o s /\ v = w \o u
  OBVIOUS
<1>9. u \in Seq(Token) /\ v \in Seq(Token) /\ Reads(Reads(l, w), u) = x /\ Reads(l, v) = x
  <2>1. ASSUME NEW t \in Seq(Token)
        PROVE  /\ w \o (p \o t) \in Seq(Token) /\ p \o t \in Seq(Token)
               /\ Reads(l, w \o (p \o t)) = Reads(Reads(Reads(l, w), p), t)
               /\ Reads(Reads(l, w), p \o t) = Reads(Reads(Reads(l, w), p), t)
    <3>1. w \in Seq(Token) /\ p \in Seq(Token)
      BY <1>2
    <3>2. QED
      BY <2>1, <3>1, Follows
  <2>2. s \in Seq(Token)
    BY <1>5
  <2>3. QED
    BY <1>6, <1>8, <2>1, <2>2, Zenon
<1>10. ASSUME d.pending = u PROVE ListInv(d, l, w)
  BY <1>1, <1>2, <1>3, <1>7, <1>9, <1>10 DEF ListInv
<1>11. ASSUME d.pending = << >> PROVE ListInv(d, l, v)
  <2>1. d.pending \in Seq(Token) /\ Reads(Reads(l, v), d.pending) = x
    BY <1>9, <1>11, ReadsNone, EmptySeq
  <2>2. QED
    BY <1>1, <1>2, <1>3, <1>7, <1>9, <2>1 DEF ListInv
<1>12. QED
  BY <1>1, <1>8, <1>10, <1>11

\* What the client does.
LEMMA ClientReads ==
    ASSUME NEW c, NEW l, NEW w, ListInv(c, l, w), w # << >>
    PROVE  ListInv(c, Reads(l, w), << >>)
<1>1. PICK x : x = Reads(l, w)
  OBVIOUS
<1>2. w \in Seq(Token) /\ ClientShape(l) /\ c.pc \notin {"query", "chunks"}
  BY DEF ListInv
<1>3. ClientShape(x)
  BY <1>1, <1>2, ReadsShape
<1>4. Reads(x, << >>) = x /\ << >> \in Seq(Token)
  BY ReadsNone, EmptySeq
<1>5. PICK v : v = << >>
  OBVIOUS
<1>6. ListInv(c, x, v)
  BY <1>1, <1>2, <1>3, <1>4, <1>5 DEF ListInv
<1>7. QED
  BY <1>1, <1>5, <1>6

LEMMA ClientGone ==
    ASSUME NEW c, NEW l, NEW w, ListInv(c, l, w), l.st # "reading"
    PROVE  ListInv(c, l, << >>)
<1>1. w \in Seq(Token)
  BY DEF ListInv
<1>2. Reads(l, w) = l
  BY <1>1, ReadsStopped
<1>3. CASE w = << >>
  BY <1>3
<1>4. CASE w # << >>
  BY <1>2, <1>4, ClientReads
<1>5. QED
  BY <1>3, <1>4

LEMMA ClientFails ==
    ASSUME NEW c, NEW l, NEW w, ListInv(c, l, w), NEW m, m.st = "error", ClientShape(m)
    PROVE  ListInv(c, m, w)
<1>1. w \in Seq(Token)
  BY DEF ListInv
<1>2. m.st # "reading" /\ m.st # "ok"
  OBVIOUS
<1>3. Reads(m, w) = m
  BY <1>1, <1>2, ReadsStopped
<1>4. ASSUME c.pc \in {"rows", "end"} PROVE InList(Reads(m, c.pending), c.req.kind, c.found, c.n)
  <2>1. c.pending \in Seq(Token)
    BY <1>4 DEF ListInv
  <2>2. Reads(m, c.pending) = m
    BY <1>2, <2>1, ReadsStopped
  <2>3. QED
    BY <2>2 DEF InList
<1>5. QED
  BY <1>2, <1>3, <1>4 DEF ListInv

-----------------------------------------------------------------------------
(* The steps, each of which is about one request r.                        *)

\* Requests are records of functions.
LEMMA Updates ==
    ASSUME NEW f, f = [q \in Handlers |-> f[q]], NEW r \in Handlers, NEW x, NEW g,
           g = [f EXCEPT ![r] = x]
    PROVE  g[r] = x /\ g = [q \in Handlers |-> g[q]] /\ \A q \in Handlers : q # r => g[q] = f[q]
  OBVIOUS

\* A step that gives r the request c, the client l and the tokens w.
StepTo(r, c, l, w) ==
    h' = [h EXCEPT ![r] = c] /\ cl' = [cl EXCEPT ![r] = l] /\ wire' = [wire EXCEPT ![r] = w]

LEMMA ListStepTo ==
    ASSUME CRLInv, ListsInv, NEW r \in Handlers, NEW c, NEW l, NEW w, StepTo(r, c, l, w),
           ListInv(c, l, w)
    PROVE  ListsInv'
<1>1. /\ h = [q \in Handlers |-> h[q]] /\ cl = [q \in Handlers |-> cl[q]]
      /\ wire = [q \in Handlers |-> wire[q]]
  BY DEF CRLInv, RequestsInv, ListsInv
<1>2. h'[r] = c /\ \A q \in Handlers : q # r => h'[q] = h[q]
  BY <1>1, Updates DEF StepTo
<1>3. /\ cl'[r] = l /\ cl' = [q \in Handlers |-> cl'[q]]
      /\ \A q \in Handlers : q # r => cl'[q] = cl[q]
  BY <1>1, Updates DEF StepTo
<1>4. /\ wire'[r] = w /\ wire' = [q \in Handlers |-> wire'[q]]
      /\ \A q \in Handlers : q # r => wire'[q] = wire[q]
  BY <1>1, Updates DEF StepTo
<1>5. QED
  BY <1>2, <1>3, <1>4, OneList

\* What a step leaves alone.
LEMMA Same ==
    ASSUME CRLInv, ListsInv, NEW r \in Handlers
    PROVE  /\ ListInv(h[r], cl[r], wire[r])
           /\ h' = h => h' = [h EXCEPT ![r] = h[r]]
           /\ cl' = cl => cl' = [cl EXCEPT ![r] = cl[r]]
           /\ wire' = wire => wire' = [wire EXCEPT ![r] = wire[r]]
<1>1. /\ h = [q \in Handlers |-> h[q]] /\ cl = [q \in Handlers |-> cl[q]]
      /\ wire = [q \in Handlers |-> wire[q]]
  BY DEF CRLInv, RequestsInv, ListsInv
<1>2. h = [h EXCEPT ![r] = h[r]] /\ cl = [cl EXCEPT ![r] = cl[r]]
  BY <1>1
<1>3. wire = [wire EXCEPT ![r] = wire[r]]
  BY <1>1
<1>4. ListInv(h[r], cl[r], wire[r])
  BY DEF ListsInv
<1>5. QED
  BY <1>2, <1>3, <1>4

LEMMA RequestListLists ==
    ASSUME CRLInv, ListsInv, NEW r \in Handlers, RequestList(r) PROVE ListsInv'
<1>1. PICK req \in ListRequests : h' = [h EXCEPT ![r] = [pc |-> "query", req |-> req]]
  BY DEF RequestList
<1>2. PICK c : c = [pc |-> "query", req |-> req]
  OBVIOUS
<1>3. StepTo(r, c, NewClient, << >>)
  BY <1>1, <1>2 DEF RequestList, StepTo
<1>4. c.pc = "query" /\ c.req = req
  BY <1>2
<1>5. req.kind \in {"certs", "ids"}
  BY <1>1, QueryConstantsOK
<1>6. ClientShape(NewClient) /\ << >> \in Seq(Token)
  BY EmptySeq DEF NewClient, ClientShape
<1>7. ListInv(c, NewClient, << >>)
  BY <1>4, <1>5, <1>6 DEF ListInv
<1>8. QED
  BY <1>3, <1>7, ListStepTo

\* Fail
LEMMA FailStep ==
    ASSUME CRLInv, ListsInv, NEW r \in Handlers, NEW t, Fail(r, t), cl' = cl
    PROVE  \E d : d.pc = "failed" /\ StepTo(r, d, cl[r], wire[r] \o t)
<1>1. PICK d : d = [pc |-> "failed"]
  OBVIOUS
<1>2. d.pc = "failed"
  BY <1>1
<1>3. StepTo(r, d, cl[r], wire[r] \o t)
  BY <1>1, Same DEF Fail, Send, StepTo
<1>4. QED
  BY <1>2, <1>3

LEMMA RefuseListLists ==
    ASSUME CRLInv, ListsInv, NEW r \in Handlers, RefuseList(r) PROVE ListsInv'
<1>1. PICK d : d.pc = "failed" /\ StepTo(r, d, cl[r], wire[r] \o (EmptyResult \o Trailer(TRUE)))
  BY FailStep DEF RefuseList
<1>2. ListInv(h[r], cl[r], wire[r]) /\ h[r].pc \in {"query", "chunks"}
  BY Same DEF RefuseList
<1>3. ListInv(d, cl[r], wire[r] \o (EmptyResult \o Trailer(TRUE)))
  BY <1>1, <1>2, Refused
<1>4. QED
  BY <1>1, <1>3, ListStepTo

LEMMA QueryListLists ==
    ASSUME CRLInv, ListsInv, NEW r \in Handlers, QueryList(r) PROVE ListsInv'
<1>1. PICK s, req : s = SetToSeq(Query(req, req.aff)) /\ req = h[r].req
  OBVIOUS
<1>2. PICK c : c = [pc |-> "chunks", req |-> req, n |-> 0, cut |-> FALSE, found |-> s]
  OBVIOUS
<1>3. StepTo(r, c, cl[r], wire[r])
  BY <1>1, <1>2, Same DEF QueryList, StepTo, response
<1>4. c.pc = "chunks" /\ c.req = req /\ c.found = s
  BY <1>2
<1>5. h[r].pc = "query" /\ ListInv(h[r], cl[r], wire[r])
  BY Same DEF QueryList
<1>6. s \in Seq(Items)
  BY <1>1, QueryType DEF CRLInv
<1>7. ListInv(c, cl[r], wire[r])
  BY <1>1, <1>4, <1>5, <1>6 DEF ListInv
<1>8. QED
  BY <1>3, <1>7, ListStepTo

LEMMA ChunksLists ==
    ASSUME CRLInv, ListsInv, NEW r \in Handlers, ChunksToDeliver(r) PROVE ListsInv'
<1>1. h[r].pc = "chunks" /\ ListInv(h[r], cl[r], wire[r])
  BY Same DEF ChunksToDeliver
<1>2. CASE chunk = Invalid
  <2>1. PICK d : d.pc = "failed" /\ StepTo(r, d, cl[r], wire[r] \o (EmptyResult \o Trailer(TRUE)))
    BY <1>2, FailStep DEF ChunksToDeliver
  <2>2. ListInv(d, cl[r], wire[r] \o (EmptyResult \o Trailer(TRUE)))
    BY <1>1, <2>1, Refused
  <2>3. QED
    BY <2>1, <2>2, ListStepTo
<1>3. CASE chunk # Invalid
  <2>1. PICK q, s, p : q = h[r].req /\ s = h[r].found /\ p = ListHeader(h[r].req.kind)
    OBVIOUS
  <2>2. PICK d : d = [pc |-> "rows", req |-> q, found |-> s, n |-> 0, cut |-> FALSE, pending |-> p]
    OBVIOUS
  <2>3. StepTo(r, d, cl[r], wire[r])
    BY <1>3, <2>1, <2>2, Same DEF ChunksToDeliver, StepTo
  <2>4. d.pc = "rows" /\ d.req = q /\ d.found = s /\ d.n = 0 /\ d.pending = p
    BY <2>2
  <2>5. ListInv(d, cl[r], wire[r])
    BY <1>1, <2>1, <2>4, Opened
  <2>6. QED
    BY <2>3, <2>5, ListStepTo
<1>4. QED
  BY <1>2, <1>3

LEMMA RowFailsLists ==
    ASSUME CRLInv, ListsInv, NEW r \in Handlers, RowFails(r) PROVE ListsInv'
<1>1. PICK d : d.pc = "failed" /\ StepTo(r, d, cl[r], wire[r] \o (h[r].pending \o Trailer(TRUE)))
  BY FailStep DEF RowFails, Written
<1>2. ListInv(h[r], cl[r], wire[r]) /\ h[r].pc = "rows"
  BY Same DEF RowFails
<1>3. ListInv(d, cl[r], wire[r] \o (h[r].pending \o Trailer(TRUE)))
  BY <1>1, <1>2, ListFails
<1>4. QED
  BY <1>1, <1>3, ListStepTo

LEMMA PanicLists ==
    ASSUME CRLInv, ListsInv, NEW r \in Handlers, Panic(r) PROVE ListsInv'
<1>1. PICK d : d = [pc |-> "failed"]
  OBVIOUS
<1>2. d.pc = "failed"
  BY <1>1
<1>3. StepTo(r, d, cl[r], wire[r])
  BY <1>1, Same DEF Panic, StepTo
<1>4. ListInv(h[r], cl[r], wire[r]) /\ h[r].pc = "rows"
  BY Same DEF Panic
<1>5. ListInv(d, cl[r], wire[r])
  BY <1>2, <1>4, ListAborts
<1>6. QED
  BY <1>3, <1>5, ListStepTo

LEMMA EndListLists ==
    ASSUME CRLInv, ListsInv, NEW r \in Handlers, EndList(r) PROVE ListsInv'
<1>1. PICK s, x : s = h[r].found /\ x = h[r].cut
  OBVIOUS
<1>2. PICK d : d = [pc |-> "sent", found |-> s, cut |-> x]
  OBVIOUS
<1>3. PICK w : w = wire[r] \o (h[r].pending \o (ListEnd \o Trailer(FALSE)))
  OBVIOUS
<1>4. StepTo(r, d, cl[r], w)
  BY <1>1, <1>2, <1>3, Same DEF EndList, StepTo, Send, Written
<1>5. d.pc = "sent" /\ d.found = s /\ d.cut = x
  BY <1>2
<1>6. ListInv(h[r], cl[r], wire[r]) /\ h[r].pc = "end"
  BY Same DEF EndList
<1>7. ListInv(d, cl[r], w)
  BY <1>1, <1>3, <1>5, <1>6, ListEnds
<1>8. QED
  BY <1>4, <1>7, ListStepTo

\* A request record of Fields, and what replacing some of them gives.
LEMMA WriteRowLists ==
    ASSUME CRLInv, ListsInv, NEW r \in Handlers, WriteRow(r) PROVE ListsInv'
<1>1. PICK c, n, s, u :
        c = h[r] /\ n = c.n + 1 /\ s = <<Elem(c.found[c.n + 1])>> /\ u = c.pending \o s
  OBVIOUS
<1>2. /\ c.pc = "rows" /\ n <= Len(c.found) /\ cl' = cl
      /\ \/ wire' = [wire EXCEPT ![r] = @ \o u] /\ h' = [h EXCEPT ![r].n = n, ![r].pending = << >>]
         \/ wire' = wire /\ h' = [h EXCEPT ![r].n = n, ![r].pending = u]
  BY <1>1 DEF WriteRow, Send, Written
<1>3. h = [q \in Handlers |-> h[q]] /\ c = [x \in Fields |-> c[x]]
  BY <1>1, <1>2 DEF CRLInv, RequestsInv, RevokeInv, Shape
<1>4. ListInv(c, cl[r], wire[r]) /\ c.n + 1 <= Len(c.found)
  BY <1>1, <1>2, Same
<1>5. ASSUME NEW y
      PROVE  \E d : /\ d = [c EXCEPT !.n = n, !.pending = y] /\ d.pc = "rows" /\ d.req = c.req
                    /\ d.found = c.found /\ d.n = c.n + 1 /\ d.pending = y
  <2>1. PICK d : d = [c EXCEPT !.n = n, !.pending = y]
    OBVIOUS
  <2>2. /\ d.pc = c.pc /\ d.req = c.req /\ d.found = c.found /\ d.n = n /\ d.pending = y
    BY <1>3, <2>1 DEF Fields
  <2>3. QED
    BY <1>1, <1>2, <2>1, <2>2
<1>6. ASSUME NEW y, h' = [h EXCEPT ![r].n = n, ![r].pending = y]
      PROVE  h' = [h EXCEPT ![r] = [c EXCEPT !.n = n, !.pending = y]]
  BY <1>1, <1>3, <1>6
<1>7. CASE wire' = [wire EXCEPT ![r] = @ \o u] /\ h' = [h EXCEPT ![r].n = n, ![r].pending = << >>]
  <2>1. PICK y : y = << >>
    OBVIOUS
  <2>2. PICK d : /\ d = [c EXCEPT !.n = n, !.pending = y] /\ d.pc = "rows" /\ d.req = c.req
                 /\ d.found = c.found /\ d.n = c.n + 1 /\ d.pending = y
    BY <1>5
  <2>3. h' = [h EXCEPT ![r] = d]
    BY <1>6, <1>7, <2>1, <2>2
  <2>4. ListInv(d, cl[r], wire[r] \o (c.pending \o s))
    BY <1>1, <1>2, <1>4, <2>1, <2>2, RowKept
  <2>5. StepTo(r, d, cl[r], wire[r] \o (c.pending \o s))
    BY <1>1, <1>2, <1>7, <2>3, Same DEF StepTo
  <2>6. QED
    BY <2>4, <2>5, ListStepTo
<1>8. CASE wire' = wire /\ h' = [h EXCEPT ![r].n = n, ![r].pending = u]
  <2>1. PICK d : /\ d = [c EXCEPT !.n = n, !.pending = u] /\ d.pc = "rows" /\ d.req = c.req
                 /\ d.found = c.found /\ d.n = c.n + 1 /\ d.pending = u
    BY <1>5
  <2>2. h' = [h EXCEPT ![r] = d]
    BY <1>6, <1>8, <2>1
  <2>3. ListInv(d, cl[r], wire[r])
    <3>1. d.pending = c.pending \o s
      BY <1>1, <2>1
    <3>2. /\ ListInv(c, cl[r], wire[r]) /\ c.pc = "rows" /\ c.n + 1 <= Len(c.found)
          /\ d.pc = "rows" /\ d.req = c.req /\ d.found = c.found /\ d.n = c.n + 1
          /\ s = <<Elem(c.found[c.n + 1])>>
      BY <1>1, <1>2, <1>4, <2>1
    <3>3. d.pending = c.pending \o s => ListInv(d, cl[r], wire[r])
      BY <3>2, RowKept
    <3>4. QED
      BY <3>1, <3>3
  <2>4. StepTo(r, d, cl[r], wire[r])
    BY <1>2, <1>8, <2>2, Same DEF StepTo
  <2>5. QED
    BY <2>3, <2>4, ListStepTo
<1>9. QED
  BY <1>2, <1>7, <1>8

LEMMA EndOfRowsLists ==
    ASSUME CRLInv, ListsInv, NEW r \in Handlers, EndOfRows(r) PROVE ListsInv'
<1>1. PICK c, x : c = h[r] /\ x = (c.n < Len(c.found))
  OBVIOUS
<1>2. /\ c.pc = "rows" /\ cl' = cl /\ wire' = wire
      /\ h' = [h EXCEPT ![r].pc = "end", ![r].cut = x]
  BY <1>1 DEF EndOfRows, response
<1>3. h = [q \in Handlers |-> h[q]] /\ c = [y \in Fields |-> c[y]]
  BY <1>1, <1>2 DEF CRLInv, RequestsInv, RevokeInv, Shape
<1>4. PICK d : d = [c EXCEPT !.pc = "end", !.cut = x]
  OBVIOUS
<1>5. /\ d.pc = "end" /\ d.req = c.req /\ d.found = c.found /\ d.n = c.n
      /\ d.pending = c.pending /\ d.cut = x
  BY <1>3, <1>4 DEF Fields
<1>6. c.n < Len(c.found) => d.cut
  BY <1>1, <1>5
<1>7. ListInv(c, cl[r], wire[r])
  BY <1>1, Same
<1>8. ListInv(d, cl[r], wire[r])
  BY <1>2, <1>5, <1>6, <1>7, RowsEnd
<1>9. h' = [h EXCEPT ![r] = d]
  BY <1>1, <1>2, <1>3, <1>4
<1>10. StepTo(r, d, cl[r], wire[r])
  BY <1>2, <1>9, Same DEF StepTo
<1>11. QED
  BY <1>8, <1>10, ListStepTo

\* The steps that end a request, and those of revocation.
ListPCs == {"query", "chunks", "rows", "end", "sent", "failed"}
NotLists(r) ==
    \/ EndOfResponse(r) \/ RevokeCertLookup(r) \/ RevokeIDSelect(r) \/ GenCRL(r) \/ RevokeStep(r)

LEMMA NotListsStep ==
    ASSUME NEW r \in Handlers, NotLists(r)
    PROVE  /\ cl' = cl /\ wire' = wire
           /\ \E d : d.pc \notin ListPCs /\ h' = [h EXCEPT ![r] = d]
<1>1. cl' = cl /\ wire' = wire
  BY DEF NotLists, RevokeStep, EndOfResponse, RevokeCertLookup, RevokeIDSelect, GenCRL,
         RevokeCertificate, RevokeCertificatesByID, QueryRevoked, ReturnCRL, response
<1>2. CASE Finish(r)
  <2>1. Idle.pc \notin ListPCs
    BY DEF Idle, ListPCs
  <2>2. QED
    BY <1>1, <1>2, <2>1 DEF Finish
<1>3. CASE \E D, M, w : h' = [h EXCEPT ![r] = CRLContext(D, M, w)]
  <2>1. PICK D, M, w : h' = [h EXCEPT ![r] = CRLContext(D, M, w)]
    BY <1>3
  <2>2. CRLContext(D, M, w).pc \notin ListPCs
    BY DEF CRLContext, ListPCs
  <2>3. QED
    BY <1>1, <2>1, <2>2
<1>4. CASE EndOfResponse(r) \/ ReturnCRL(r)
  BY <1>2, <1>4 DEF EndOfResponse, ReturnCRL
<1>5. CASE RevokeCertificate(r) \/ RevokeCertificatesByID(r)
  BY <1>2, <1>3, <1>5 DEF RevokeCertificate, RevokeCertificatesByID, AfterRevocation
<1>6. CASE GenCRL(r)
  BY <1>3, <1>6 DEF GenCRL
<1>7. CASE RevokeCertLookup(r)
  <2>1. PICK c, D, d : d = [pc |-> "revokeCert", cert |-> c, due |-> D] /\ h' = [h EXCEPT ![r] = d]
    BY <1>7 DEF RevokeCertLookup
  <2>2. d.pc \notin ListPCs
    BY <2>1 DEF ListPCs
  <2>3. QED
    BY <1>1, <2>1, <2>2, Zenon
<1>8. CASE RevokeIDSelect(r)
  <2>1. PICK u, D, M, d : /\ d = [pc |-> "revokeID", id |-> u, due |-> D, mine |-> M]
                          /\ h' = [h EXCEPT ![r] = d]
    BY <1>8 DEF RevokeIDSelect
  <2>2. d.pc \notin ListPCs
    BY <2>1 DEF ListPCs
  <2>3. QED
    BY <1>1, <2>1, <2>2, Zenon
<1>9. CASE QueryRevoked(r)
  <2>1. PICK D, M, w, x, d :
          /\ d = [pc |-> "signed", due |-> D, mine |-> M, window |-> w, crl |-> x]
          /\ h' = [h EXCEPT ![r] = d]
    BY <1>9 DEF QueryRevoked
  <2>2. d.pc \notin ListPCs
    BY <2>1 DEF ListPCs
  <2>3. QED
    BY <1>1, <2>1, <2>2, Zenon
<1>10. QED
  BY <1>4, <1>5, <1>6, <1>7, <1>8, <1>9 DEF NotLists, RevokeStep

LEMMA NotListsLists ==
    ASSUME CRLInv, ListsInv, NEW r \in Handlers, NotLists(r) PROVE ListsInv'
<1>1. PICK d : d.pc \notin ListPCs /\ h' = [h EXCEPT ![r] = d]
  BY NotListsStep
<1>2. StepTo(r, d, cl[r], wire[r])
  BY <1>1, NotListsStep, Same DEF StepTo
<1>3. ListInv(d, cl[r], wire[r])
  BY <1>1, Same, NoList DEF ListPCs
<1>4. QED
  BY <1>2, <1>3, ListStepTo

\* The client.
LEMMA ReadTokensLists ==
    ASSUME CRLInv, ListsInv, NEW r \in Handlers, ReadTokens(r) PROVE ListsInv'
<1>1. ListInv(h[r], cl[r], wire[r]) /\ wire[r] # << >> /\ wire[r] \in Seq(Token)
  BY Same DEF ReadTokens, ListInv
<1>2. PICK l \in StreamJSONArray(cl[r], wire[r]) : cl' = [cl EXCEPT ![r] = l]
  BY DEF ReadTokens
<1>3. l = Reads(cl[r], wire[r])
  BY <1>1, <1>2, ReadsAll
<1>4. StepTo(r, h[r], l, << >>)
  BY <1>2, Same DEF ReadTokens, StepTo
<1>5. ListInv(h[r], l, << >>)
  BY <1>1, <1>3, ClientReads
<1>6. QED
  BY <1>4, <1>5, ListStepTo

LEMMA DropLists ==
    ASSUME CRLInv, ListsInv, NEW r \in Handlers, Drop(r) PROVE ListsInv'
<1>1. ListInv(h[r], cl[r], wire[r]) /\ cl[r].st # "reading"
  BY Same DEF Drop
<1>2. StepTo(r, h[r], cl[r], << >>)
  BY Same DEF Drop, StepTo
<1>3. ListInv(h[r], cl[r], << >>)
  BY <1>1, ClientGone
<1>4. QED
  BY <1>2, <1>3, ListStepTo

LEMMA EndOfStreamLists ==
    ASSUME CRLInv, ListsInv, NEW r \in Handlers, EndOfStream(r) PROVE ListsInv'
<1>1. PICK l : l = cl[r]
  OBVIOUS
<1>2. ListInv(h[r], l, wire[r]) /\ ClientShape(l)
  BY <1>1, Same DEF ListInv
<1>3. PICK m : m = [l EXCEPT !.st = "error", !.stack = << >>]
  OBVIOUS
<1>4. m.st = "error" /\ ClientShape(m)
  BY <1>2, <1>3 DEF ClientShape
<1>5. cl = [q \in Handlers |-> cl[q]]
  BY DEF ListsInv
<1>6. cl' = [cl EXCEPT ![r].st = "error", ![r].stack = << >>] /\ h' = h /\ wire' = wire
  BY DEF EndOfStream
<1>7. cl' = [cl EXCEPT ![r] = m]
  BY <1>1, <1>3, <1>5, <1>6
<1>8. StepTo(r, h[r], m, wire[r])
  BY <1>6, <1>7, Same DEF StepTo
<1>9. ListInv(h[r], m, wire[r])
  BY <1>2, <1>4, ClientFails
<1>10. QED
  BY <1>8, <1>9, ListStepTo

LEMMA NextLists == CRLInv /\ ListsInv /\ [Next]_vars => ListsInv'
<1> SUFFICES ASSUME CRLInv, ListsInv, [Next]_vars PROVE ListsInv'
  OBVIOUS
<1>1. CASE UNCHANGED <<h, cl, wire>>
  BY <1>1 DEF ListsInv
<1>2. CASE Issue \/ DeleteUser \/ Tick \/ UNCHANGED vars
  BY <1>1, <1>2 DEF Issue, DeleteUser, Tick, vars, response
<1>3. ASSUME NEW r \in Handlers,
             \/ RequestList(r) \/ ListStep(r) \/ ClientStep(r)
             \/ RevokeCertLookup(r) \/ RevokeIDSelect(r) \/ GenCRL(r) \/ RevokeStep(r)
      PROVE  ListsInv'
  <2>1. CASE RequestList(r)
    BY <2>1, RequestListLists
  <2>2. CASE ListStep(r)
    <3>1. CASE EndOfResponse(r)
      BY <3>1, NotListsLists DEF NotLists
    <3>2. QED
      BY <2>2, <3>1, RefuseListLists, QueryListLists, ChunksLists, RowFailsLists, WriteRowLists,
         PanicLists, EndOfRowsLists, EndListLists DEF ListStep
  <2>3. CASE ClientStep(r)
    BY <2>3, ReadTokensLists, EndOfStreamLists, DropLists DEF ClientStep
  <2>4. CASE RevokeCertLookup(r) \/ RevokeIDSelect(r) \/ GenCRL(r) \/ RevokeStep(r)
    BY <2>4, NotListsLists DEF NotLists
  <2>5. QED
    BY <1>3, <2>1, <2>2, <2>3, <2>4
<1>4. QED
  BY <1>2, <1>3 DEF Next

LEMMA ListsComplete == ListsInv => SuccessMeansComplete
<1> SUFFICES ASSUME ListsInv, NEW r \in Handlers, cl[r].st = "ok"
             PROVE  h[r].pc # "failed" /\ (h[r].pc = "sent" => cl[r].seen = h[r].found \/ h[r].cut)
  BY DEF SuccessMeansComplete
<1>1. ListInv(h[r], cl[r], wire[r]) /\ wire[r] \in Seq(Token)
  BY DEF ListsInv, ListInv
<1>2. cl[r].st # "reading"
  OBVIOUS
<1>3. Reads(cl[r], wire[r]) = cl[r]
  BY <1>1, <1>2, ReadsStopped
<1>4. QED
  BY <1>1, <1>3 DEF ListInv

\* A client whose StreamJSONArray reports success has every row of the query,
\* once and in order, unless the database ended the rows early, and never reads
\* success from a response that failed: wherever the handler, ServeHTTP or the
\* connection stops, and however the tokens are cut into chunks and reads.
THEOREM SuccessIsComplete == Spec => []SuccessMeansComplete
<1>1. Init => ListsInv
  BY InitLists
<1>2. CRLInv /\ ListsInv /\ [Next]_vars => ListsInv'
  BY NextLists
<1>3. Spec => []CRLInv
  BY SpecCRL
<1>4. ListsInv => SuccessMeansComplete
  BY ListsComplete
<1>5. QED
  BY <1>1, <1>2, <1>3, <1>4, PTL DEF Spec
=============================================================================
