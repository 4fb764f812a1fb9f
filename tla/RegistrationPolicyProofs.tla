---------------------- MODULE RegistrationPolicyProofs ----------------------
(***************************************************************************)
(* Proofs for RegistrationPolicy: what the fold of getNewAttributes makes  *)
(* of a list of attributes, by induction over the attributes asked for;    *)
(* that no row, in the table or in a request in progress, goes beyond the  *)
(* authority it comes from; that a row and its fixed attributes agree; and *)
(* the action properties.                                                  *)
(***************************************************************************)
EXTENDS RegistrationPolicy, SequenceTheorems, NaturalsInduction, WellFoundedInduction, TLAPS

-----------------------------------------------------------------------------
(* Induction, least and greatest elements.                                 *)

\* A set of naturals that is not empty has a least element.
LEMMA LeastNat == ASSUME NEW S \in SUBSET Nat, S # {}
                  PROVE  \E m \in S : \A n \in S : m <= n
<1>1. PICK m \in S : \A n \in S : ~(<<n, m>> \in OpToRel(<, Nat))
  BY NatLessThanWellFounded, WFMin
<1>2. \A n \in S : ~(n < m)
  BY <1>1 DEF OpToRel
<1>3. QED
  BY <1>2

\* Induction up to N, for a property given as the set of numbers that have it.
LEMMA InductionTo ==
    ASSUME NEW N \in Nat, NEW S, 0 \in S,
           \A n \in Nat : n < N /\ n \in S => n + 1 \in S
    PROVE  \A n \in 0..N : n \in S
<1> SUFFICES ASSUME \E n \in 0..N : n \notin S PROVE FALSE
  OBVIOUS
<1> DEFINE B == {n \in Nat : n <= N /\ n \notin S}
<1>1. B \in SUBSET Nat /\ B # {}
  OBVIOUS
<1>2. PICK m \in B : \A n \in B : m <= n
  BY <1>1, LeastNat
<1>3. m \in Nat /\ m <= N /\ m \notin S /\ m # 0
  BY <1>2
<1>4. m - 1 \in Nat /\ m - 1 < N /\ m - 1 \notin B
  BY <1>2, <1>3
<1>5. m - 1 \in S
  BY <1>4
<1>6. QED
  BY <1>3, <1>4, <1>5

LEMMA GreatestUpTo ==
    ASSUME NEW N \in Nat, NEW S \in SUBSET (1..N), S # {}
    PROVE  \E m \in S : \A n \in S : n <= m
<1> DEFINE D == {d \in Nat : \E x \in S : d = N - x}
<1>1. D \in SUBSET Nat /\ D # {}
  <2>1. PICK x \in S : TRUE
    OBVIOUS
  <2>2. N - x \in D
    BY <2>1
  <2>3. QED
    BY <2>2
<1>2. PICK d \in D : \A e \in D : d <= e
  BY <1>1, LeastNat
<1>3. PICK m \in S : d = N - m
  BY <1>2
<1>4. ASSUME NEW n \in S PROVE n <= m
  <2>1. n \in 1..N /\ m \in 1..N
    OBVIOUS
  <2>2. N - n \in D
    BY <2>1
  <2>3. QED
    BY <1>2, <1>3, <2>1, <2>2
<1>5. QED
  BY <1>4

LEMMA MaxIn ==
    ASSUME NEW N \in Nat, NEW S \in SUBSET (1..N), S # {}
    PROVE  Max(S) \in S /\ \A n \in S : n <= Max(S)
<1>1. \E m \in S : \A n \in S : m >= n
  BY GreatestUpTo
<1>2. QED
  BY <1>1 DEF Max

LEMMA MinIn ==
    ASSUME NEW N \in Nat, NEW S \in SUBSET (1..N), S # {}
    PROVE  Min(S) \in S /\ \A n \in S : Min(S) <= n
<1>1. \E m \in S : \A n \in S : m <= n
  BY LeastNat
<1>2. QED
  BY <1>1 DEF Min

-----------------------------------------------------------------------------
(* Lists of attributes.  E is any set of attributes.                       *)

LEMMA PositionsIn ==
    ASSUME NEW E, NEW attrs \in Seq(E), NEW n
    PROVE  /\ Positions(attrs, n) \in SUBSET (1..Len(attrs))
           /\ Len(attrs) \in Nat
           /\ \A i : i \in Positions(attrs, n) <=> i \in 1..Len(attrs) /\ attrs[i].name = n
  BY DEF Positions

\* The value that counts in a row is that of the last entry.
LEMMA LastEntry ==
    ASSUME NEW E, NEW attrs \in Seq(E), NEW n, HasAttribute(attrs, n)
    PROVE  \E i \in 1..Len(attrs) :
             /\ attrs[i].name = n
             /\ \A j \in 1..Len(attrs) : attrs[j].name = n => j <= i
             /\ GetAttribute(attrs, n) = attrs[i].value
<1>1. Positions(attrs, n) # {}
  BY DEF HasAttribute
<1>2. Max(Positions(attrs, n)) \in Positions(attrs, n)
      /\ \A j \in Positions(attrs, n) : j <= Max(Positions(attrs, n))
  BY <1>1, PositionsIn, MaxIn
<1>3. QED
  BY <1>2, PositionsIn DEF GetAttribute

LEMMA IsLast ==
    ASSUME NEW E, NEW attrs \in Seq(E), NEW n, NEW i \in 1..Len(attrs),
           attrs[i].name = n, \A j \in 1..Len(attrs) : attrs[j].name = n => j <= i
    PROVE  HasAttribute(attrs, n) /\ GetAttribute(attrs, n) = attrs[i].value
<1>1. i \in Positions(attrs, n)
  BY PositionsIn
<1>2. HasAttribute(attrs, n)
  BY <1>1 DEF HasAttribute
<1>3. PICK k \in 1..Len(attrs) :
             /\ attrs[k].name = n
             /\ \A j \in 1..Len(attrs) : attrs[j].name = n => j <= k
             /\ GetAttribute(attrs, n) = attrs[k].value
  BY <1>2, LastEntry
<1>4. k = i
  BY <1>3
<1>5. QED
  BY <1>2, <1>3, <1>4

LEMMA NoEntry ==
    ASSUME NEW E, NEW attrs \in Seq(E), NEW n
    PROVE  /\ HasAttribute(attrs, n) <=> \E i \in 1..Len(attrs) : attrs[i].name = n
           /\ ~HasAttribute(attrs, n) => GetAttribute(attrs, n) = {}
  BY PositionsIn DEF HasAttribute, GetAttribute

-----------------------------------------------------------------------------
(* getNewAttributes.                                                       *)

\* One attribute: nothing to remove, added at the end, or the first entry of
\* the name updated or removed.
IsUpdated(E, attrs, a, new) ==
    \/ ~HasAttribute(attrs, a.name) /\ a.value = {} /\ new = attrs
    \/ ~HasAttribute(attrs, a.name) /\ a.value # {} /\ new = Append(attrs, a)
    \/ \E i \in 1..Len(attrs) :
         /\ attrs[i].name = a.name
         /\ \A j \in 1..Len(attrs) : attrs[j].name = a.name => i <= j
         /\ \/ a.value # {} /\ new = [attrs EXCEPT ![i] = a]
            \/ /\ a.value = {} /\ new \in Seq(E) /\ Len(new) = Len(attrs) - 1
               /\ \A k \in 1..Len(attrs) - 1 : new[k] = IF k < i THEN attrs[k] ELSE attrs[k + 1]

LEMMA UpdateCases ==
    ASSUME NEW E, NEW attrs \in Seq(E), NEW a \in E
    PROVE  IsUpdated(E, attrs, a, UpdateAttribute(attrs, a))
<1>0. SUFFICES ASSUME NEW new, new = UpdateAttribute(attrs, a)
               PROVE  IsUpdated(E, attrs, a, new)
  OBVIOUS
<1>1. CASE ~HasAttribute(attrs, a.name)
  BY <1>0, <1>1 DEF UpdateAttribute, IsUpdated
<1>2. CASE HasAttribute(attrs, a.name)
  <2>1. PICK i : i = Min(Positions(attrs, a.name))
    OBVIOUS
  <2>2. i \in Positions(attrs, a.name) /\ \A j \in Positions(attrs, a.name) : i <= j
    BY <1>2, <2>1, PositionsIn, MinIn DEF HasAttribute
  <2>3. /\ i \in 1..Len(attrs) /\ attrs[i].name = a.name
        /\ \A j \in 1..Len(attrs) : attrs[j].name = a.name => i <= j
    BY <2>2, PositionsIn
  <2>4. CASE a.value # {}
    BY <1>0, <1>2, <2>1, <2>3, <2>4 DEF UpdateAttribute, IsUpdated
  <2>5. CASE a.value = {}
    <3>1. UpdateAttribute(attrs, a) = SubSeq(attrs, 1, i - 1) \o SubSeq(attrs, i + 1, Len(attrs))
      BY <1>2, <2>1, <2>5 DEF UpdateAttribute, RemoveAt
    <3>2. new = SubSeq(attrs, 1, i - 1) \o SubSeq(attrs, i + 1, Len(attrs))
      BY <1>0, <3>1
    <3>3. /\ SubSeq(attrs, 1, i - 1) \in Seq(E) /\ Len(SubSeq(attrs, 1, i - 1)) = i - 1
          /\ SubSeq(attrs, i + 1, Len(attrs)) \in Seq(E)
          /\ Len(SubSeq(attrs, i + 1, Len(attrs))) = Len(attrs) - i
      BY <2>3
    <3>0. PICK s, t : s = SubSeq(attrs, 1, i - 1) /\ t = SubSeq(attrs, i + 1, Len(attrs))
      OBVIOUS
    <3>7. /\ \A k \in 1..i - 1 : s[k] = attrs[k]
          /\ \A k \in 1..Len(attrs) - i : t[k] = attrs[i + k]
      BY <2>3, <3>0
    <3>4. new \in Seq(E) /\ Len(new) = Len(attrs) - 1
      <4>1. s \in Seq(E) /\ t \in Seq(E) /\ Len(s) = i - 1 /\ Len(t) = Len(attrs) - i
            /\ new = s \o t
        BY <3>0, <3>2, <3>3
      <4>2. s \o t \in Seq(E) /\ Len(s \o t) = Len(s) + Len(t)
        BY <4>1, ConcatProperties
      <4>3. QED
        BY <2>3, <4>1, <4>2
    <3>5. ASSUME NEW k \in 1..Len(attrs) - 1
          PROVE  new[k] = IF k < i THEN attrs[k] ELSE attrs[k + 1]
      <4>1. s \in Seq(E) /\ t \in Seq(E) /\ Len(s) = i - 1 /\ Len(t) = Len(attrs) - i
            /\ new = s \o t
        BY <3>0, <3>2, <3>3
      <4>2. CASE k < i
        BY <2>3, <3>7, <4>1, <4>2
      <4>3. CASE ~(k < i)
        <5>1. new[k] = t[k - (i - 1)]
          BY <2>3, <4>1, <4>3
        <5>2. QED
          BY <2>3, <3>7, <4>3, <5>1
      <4>4. QED
        BY <4>2, <4>3
    <3>6. QED
      BY <2>3, <2>5, <3>4, <3>5 DEF IsUpdated
  <2>6. QED
    BY <2>4, <2>5
<1>3. QED
  BY <1>1, <1>2

LEMMA UpdateType ==
    ASSUME NEW E, NEW attrs \in Seq(E), NEW a \in E
    PROVE  UpdateAttribute(attrs, a) \in Seq(E)
  BY UpdateCases DEF IsUpdated

\* The value of a name after an update is the one before, the one asked for, or
\* none: an earlier entry that did not count does not come back.
LEMMA UpdateGet ==
    ASSUME NEW E, NEW attrs \in Seq(E), NEW a \in E, NEW n
    PROVE  \/ GetAttribute(UpdateAttribute(attrs, a), n) \in {GetAttribute(attrs, n), {}}
           \/ a.name = n /\ GetAttribute(UpdateAttribute(attrs, a), n) = a.value
<1>1. PICK new : new = UpdateAttribute(attrs, a)
  OBVIOUS
<1>2. new \in Seq(E)
  BY <1>1, UpdateType
<1> SUFFICES ASSUME HasAttribute(new, n)
             PROVE  \/ GetAttribute(new, n) = GetAttribute(attrs, n)
                    \/ a.name = n /\ GetAttribute(new, n) = a.value
  BY <1>1, <1>2, NoEntry
<1>3. PICK m \in 1..Len(new) :
        /\ new[m].name = n /\ \A j \in 1..Len(new) : new[j].name = n => j <= m
        /\ GetAttribute(new, n) = new[m].value
  BY <1>2, LastEntry
<1>4. CASE new = attrs
  BY <1>4
<1>5. CASE new = Append(attrs, a)
  <2>1. CASE m = Len(attrs) + 1
    BY <1>3, <1>5, <2>1
  <2>2. CASE m \in 1..Len(attrs)
    <3>1. attrs[m].name = n /\ \A j \in 1..Len(attrs) : attrs[j].name = n => j <= m
      BY <1>3, <1>5, <2>2
    <3>2. QED
      BY <1>3, <1>5, <2>2, <3>1, IsLast
  <2>3. QED
    BY <1>3, <1>5, <2>1, <2>2
<1>6. ASSUME NEW i \in 1..Len(attrs), attrs[i].name = a.name, new = [attrs EXCEPT ![i] = a]
      PROVE  \/ GetAttribute(new, n) = GetAttribute(attrs, n)
             \/ a.name = n /\ GetAttribute(new, n) = a.value
  <2>1. Len(new) = Len(attrs) /\ \A j \in 1..Len(attrs) : new[j].name = attrs[j].name
    BY <1>6
  <2>2. CASE m = i
    BY <1>3, <1>6, <2>2
  <2>3. CASE m # i
    <3>1. attrs[m].name = n /\ \A j \in 1..Len(attrs) : attrs[j].name = n => j <= m
      BY <1>3, <2>1
    <3>2. QED
      BY <1>3, <1>6, <2>1, <2>3, <3>1, IsLast
  <2>4. QED
    BY <2>2, <2>3
<1>7. ASSUME NEW i \in 1..Len(attrs), attrs[i].name = a.name,
             \A j \in 1..Len(attrs) : attrs[j].name = a.name => i <= j,
             Len(new) = Len(attrs) - 1,
             \A k \in 1..Len(attrs) - 1 : new[k] = IF k < i THEN attrs[k] ELSE attrs[k + 1]
      PROVE  GetAttribute(new, n) = GetAttribute(attrs, n)
  <2>1. PICK p : p = IF m < i THEN m ELSE m + 1
    OBVIOUS
  <2>2. p \in 1..Len(attrs) /\ new[m] = attrs[p] /\ attrs[p].name = n
    BY <1>3, <1>7, <2>1
  <2>3. ASSUME NEW j \in 1..Len(attrs), attrs[j].name = n PROVE j <= p
    <3>1. CASE j < i
      <4>1. j \in 1..Len(new) /\ new[j] = attrs[j]
        BY <1>7, <3>1
      <4>2. QED
        BY <1>3, <2>1, <2>3, <4>1
    <3>2. CASE j > i
      <4>1. j - 1 \in 1..Len(new) /\ new[j - 1] = attrs[j]
        BY <1>7, <3>2
      <4>2. QED
        BY <1>3, <2>1, <2>3, <3>2, <4>1
    <3>3. CASE j = i
      BY <1>7, <2>2, <2>3, <3>3
    <3>4. QED
      BY <3>1, <3>2, <3>3
  <2>4. GetAttribute(attrs, n) = attrs[p].value
    BY <2>2, <2>3, IsLast
  <2>5. QED
    BY <1>3, <2>2, <2>4
<1>8. \/ new = attrs
      \/ new = Append(attrs, a)
      \/ \E i \in 1..Len(attrs) : attrs[i].name = a.name /\ new = [attrs EXCEPT ![i] = a]
      \/ \E i \in 1..Len(attrs) :
           /\ attrs[i].name = a.name
           /\ \A j \in 1..Len(attrs) : attrs[j].name = a.name => i <= j
           /\ Len(new) = Len(attrs) - 1
           /\ \A k \in 1..Len(attrs) - 1 : new[k] = IF k < i THEN attrs[k] ELSE attrs[k + 1]
  <2>1. IsUpdated(E, attrs, a, new)
    BY <1>1, UpdateCases
  <2>2. QED
    BY <2>1 DEF IsUpdated
<1>9. QED
  BY <1>4, <1>5, <1>6, <1>7, <1>8

\* getNewAttributes is the last of the lists that the updates make one by one.
IsFold(f, attrs, new) ==
    f[0] = attrs /\ \A i \in 1..Len(new) : f[i] = UpdateAttribute(f[i - 1], new[i])

LEMMA FoldExists ==
    ASSUME NEW E, NEW attrs, NEW new \in Seq(E)
    PROVE  \E f : IsFold(f, attrs, new) /\ getNewAttributes(attrs, new) = f[Len(new)]
<1> DEFINE body(g, i) == IF i = 0 THEN attrs ELSE UpdateAttribute(g[i - 1], new[i])
           S == {n \in Nat : \E g : g = [i \in 0..n |-> body(g, i)]}
<1>1. 0 \in S
  <2>1. PICK g : g = [i \in 0..0 |-> attrs]
    OBVIOUS
  <2>2. g = [i \in 0..0 |-> body(g, i)]
    BY <2>1
  <2>3. QED
    BY <2>2
<1>2. ASSUME NEW n \in Nat, n \in S PROVE n + 1 \in S
  <2>1. PICK g : g = [i \in 0..n |-> body(g, i)]
    BY <1>2
  <2>2. PICK k : k = [i \in 0..n + 1 |-> IF i = n + 1 THEN UpdateAttribute(g[n], new[n + 1]) ELSE g[i]]
    OBVIOUS
  <2>3. \A i \in 0..n : k[i] = g[i]
    BY <2>2
  <2>4. ASSUME NEW i \in 0..n + 1 PROVE k[i] = body(k, i)
    <3>1. CASE i = 0
      BY <2>1, <2>3, <3>1
    <3>2. CASE i \in 1..n
      <4>1. k[i] = g[i] /\ k[i - 1] = g[i - 1] /\ i - 1 \in 0..n
        BY <2>3, <3>2
      <4>2. g[i] = body(g, i)
        BY <2>1, <3>2
      <4>3. QED
        BY <3>2, <4>1, <4>2
    <3>3. CASE i = n + 1
      <4>1. k[i] = UpdateAttribute(g[n], new[n + 1]) /\ k[n] = g[n]
        BY <2>2, <3>3
      <4>2. QED
        BY <3>3, <4>1
    <3>4. QED
      BY <3>1, <3>2, <3>3
  <2>5. k = [i \in 0..n + 1 |-> body(k, i)]
    <3>1. k = [i \in 0..n + 1 |-> k[i]]
      BY <2>2
    <3> HIDE DEF body
    <3>2. QED
      BY <2>4, <3>1
  <2>6. QED
    BY <2>5
<1>3. Len(new) \in Nat /\ Len(new) \in 0..Len(new)
  OBVIOUS
<1>4. Len(new) \in S
  <2> HIDE DEF S
  <2>1. \A n \in 0..Len(new) : n \in S
    BY <1>1, <1>2, <1>3, InductionTo
  <2>2. QED
    BY <1>3, <2>1
<1>5. \E g : g = [i \in 0..Len(new) |-> body(g, i)]
  BY <1>4
<1>6. PICK f : f = CHOOSE g : g = [i \in 0..Len(new) |-> body(g, i)]
  OBVIOUS
<1>7. f = [i \in 0..Len(new) |-> body(f, i)]
  BY <1>5, <1>6
<1>8. getNewAttributes(attrs, new) = f[Len(new)]
  BY <1>6 DEF getNewAttributes
<1>9. IsFold(f, attrs, new)
  <2>1. \A i \in 0..Len(new) : f[i] = body(f, i)
    BY <1>7
  <2>2. QED
    BY <1>3, <2>1 DEF IsFold
<1>10. QED
  BY <1>8, <1>9

\* Whatever holds of each entry of a list and of each attribute asked for holds
\* of each entry of the result.
LEMMA FoldType ==
    ASSUME NEW E, NEW attrs \in Seq(E), NEW new \in Seq(E), NEW f, IsFold(f, attrs, new)
    PROVE  \A i \in 0..Len(new) : f[i] \in Seq(E)
<1> DEFINE S == {n \in Nat : f[n] \in Seq(E)}
<1>1. 0 \in S
  BY DEF IsFold
<1>2. ASSUME NEW n \in Nat, n < Len(new), n \in S PROVE n + 1 \in S
  <2>1. n + 1 \in 1..Len(new) /\ new[n + 1] \in E
    BY <1>2
  <2>2. f[n + 1] = UpdateAttribute(f[n], new[n + 1])
    BY <2>1 DEF IsFold
  <2>3. QED
    BY <1>2, <2>1, <2>2, UpdateType
<1>3. \A n \in 0..Len(new) : n \in S
  <2> HIDE DEF S
  <2>1. Len(new) \in Nat
    OBVIOUS
  <2>2. QED
    BY <1>1, <1>2, <2>1, InductionTo
<1>4. QED
  BY <1>3

LEMMA NewAttributesType ==
    ASSUME NEW E, NEW attrs \in Seq(E), NEW new \in Seq(E)
    PROVE  getNewAttributes(attrs, new) \in Seq(E)
<1>1. PICK f : IsFold(f, attrs, new) /\ getNewAttributes(attrs, new) = f[Len(new)]
  BY FoldExists
<1>2. QED
  BY <1>1, FoldType

\* The value of a name in the result is the one before, one asked for, or none.
GetFrom(res, attrs, new, n) ==
    \/ GetAttribute(res, n) \in {GetAttribute(attrs, n), {}}
    \/ \E i \in 1..Len(new) : new[i].name = n /\ GetAttribute(res, n) = new[i].value

LEMMA NewAttributesGet ==
    ASSUME NEW E, NEW attrs \in Seq(E), NEW new \in Seq(E), NEW n
    PROVE  \/ GetAttribute(getNewAttributes(attrs, new), n) \in {GetAttribute(attrs, n), {}}
           \/ \E i \in 1..Len(new) :
                new[i].name = n /\ GetAttribute(getNewAttributes(attrs, new), n) = new[i].value
<1>1. PICK f : IsFold(f, attrs, new) /\ getNewAttributes(attrs, new) = f[Len(new)]
  BY FoldExists
<1>2. \A i \in 0..Len(new) : f[i] \in Seq(E)
  BY <1>1, FoldType
<1> DEFINE V == {GetAttribute(attrs, n), {}}
                  \cup {new[i].value : i \in {j \in 1..Len(new) : new[j].name = n}}
           S == {i \in Nat : GetAttribute(f[i], n) \in V}
<1>3. 0 \in S
  BY <1>1 DEF IsFold
<1>4. ASSUME NEW i \in Nat, i < Len(new), i \in S PROVE i + 1 \in S
  <2>1. i + 1 \in 1..Len(new) /\ new[i + 1] \in E /\ i \in 0..Len(new)
    BY <1>4
  <2>2. f[i + 1] = UpdateAttribute(f[i], new[i + 1]) /\ f[i] \in Seq(E)
    BY <1>1, <1>2, <2>1 DEF IsFold
  <2>3. \/ GetAttribute(f[i + 1], n) \in {GetAttribute(f[i], n), {}}
        \/ new[i + 1].name = n /\ GetAttribute(f[i + 1], n) = new[i + 1].value
    BY <2>1, <2>2, UpdateGet
  <2>4. QED
    BY <1>4, <2>1, <2>3
<1>5. \A i \in 0..Len(new) : i \in S
  <2> HIDE DEF S
  <2>1. Len(new) \in Nat
    OBVIOUS
  <2>2. QED
    BY <1>3, <1>4, <2>1, InductionTo
<1>6. GetAttribute(f[Len(new)], n) \in V
  <2>1. Len(new) \in 0..Len(new)
    OBVIOUS
  <2>2. QED
    BY <1>5, <2>1
<1>7. QED
  BY <1>1, <1>6

LEMMA NewAttributesFrom ==
    ASSUME NEW E, NEW attrs \in Seq(E), NEW new \in Seq(E), NEW n
    PROVE  GetFrom(getNewAttributes(attrs, new), attrs, new, n)
  BY NewAttributesGet DEF GetFrom

\* A name that is in a list at most once stays so, and has the last value that
\* was asked for it.
Once(attrs, n) ==
    \A i, j \in 1..Len(attrs) : attrs[i].name = n /\ attrs[j].name = n => i = j
ValueIs(attrs, n, v) == \A i \in 1..Len(attrs) : attrs[i].name = n => attrs[i].value = v

LEMMA OnceValue ==
    ASSUME NEW E, NEW attrs \in Seq(E), NEW n, Once(attrs, n)
    PROVE  /\ ValueIs(attrs, n, GetAttribute(attrs, n))
           /\ \A v : ValueIs(attrs, n, v) /\ HasAttribute(attrs, n) => GetAttribute(attrs, n) = v
<1>1. CASE ~HasAttribute(attrs, n)
  BY <1>1, NoEntry DEF ValueIs
<1>2. CASE HasAttribute(attrs, n)
  <2>1. PICK i \in 1..Len(attrs) : attrs[i].name = n /\ GetAttribute(attrs, n) = attrs[i].value
    BY <1>2, LastEntry
  <2>2. QED
    BY <2>1 DEF Once, ValueIs
<1>3. QED
  BY <1>1, <1>2

LEMMA UpdateOther ==
    ASSUME NEW E, NEW attrs \in Seq(E), NEW a \in E, NEW n, a.name # n, Once(attrs, n),
           NEW v, ValueIs(attrs, n, v), NEW new, new = UpdateAttribute(attrs, a)
    PROVE  /\ Once(new, n) /\ ValueIs(new, n, v)
           /\ HasAttribute(new, n) <=> HasAttribute(attrs, n)
<1>1. IsUpdated(E, attrs, a, new) /\ new \in Seq(E)
  BY UpdateCases, UpdateType
<1>2. /\ HasAttribute(new, n) <=> \E i \in 1..Len(new) : new[i].name = n
      /\ HasAttribute(attrs, n) <=> \E i \in 1..Len(attrs) : attrs[i].name = n
  BY <1>1, NoEntry
<1>3. CASE new = attrs
  BY <1>3
<1>4. CASE new = Append(attrs, a)
  <2>1. /\ Len(new) = Len(attrs) + 1 /\ new[Len(attrs) + 1] = a
        /\ \A i \in 1..Len(attrs) : new[i] = attrs[i]
    BY <1>4
  <2>2. \A i \in 1..Len(new) : new[i].name = n => i \in 1..Len(attrs)
    BY <2>1
  <2>3. QED
    BY <1>2, <2>1, <2>2 DEF Once, ValueIs
<1>5. ASSUME NEW i \in 1..Len(attrs), attrs[i].name = a.name, new = [attrs EXCEPT ![i] = a]
      PROVE  /\ Once(new, n) /\ ValueIs(new, n, v)
             /\ HasAttribute(new, n) <=> HasAttribute(attrs, n)
  <2>1. Len(new) = Len(attrs) /\ \A j \in 1..Len(attrs) : j # i => new[j] = attrs[j]
    BY <1>5
  <2>2. new[i].name # n /\ attrs[i].name # n
    BY <1>5
  <2>3. QED
    BY <1>2, <2>1, <2>2 DEF Once, ValueIs
<1>6. ASSUME NEW i \in 1..Len(attrs), attrs[i].name = a.name, Len(new) = Len(attrs) - 1,
             \A k \in 1..Len(attrs) - 1 : new[k] = IF k < i THEN attrs[k] ELSE attrs[k + 1]
      PROVE  /\ Once(new, n) /\ ValueIs(new, n, v)
             /\ HasAttribute(new, n) <=> HasAttribute(attrs, n)
  <2>1. \A k \in 1..Len(new) :
           \E p \in 1..Len(attrs) : p = (IF k < i THEN k ELSE k + 1) /\ new[k] = attrs[p]
    BY <1>6
  <2>2. ASSUME NEW j \in 1..Len(attrs), attrs[j].name = n
        PROVE  \E k \in 1..Len(new) : new[k].name = n
    <3>1. CASE j < i
      BY <1>6, <2>2, <3>1
    <3>2. CASE j > i
      <4>1. j - 1 \in 1..Len(new) /\ new[j - 1] = attrs[j]
        BY <1>6, <3>2
      <4>2. QED
        BY <2>2, <4>1
    <3>3. QED
      BY <1>6, <2>2, <3>1, <3>2
  <2>3. Once(new, n)
    <3>1. SUFFICES ASSUME NEW k \in 1..Len(new), NEW l \in 1..Len(new),
                          new[k].name = n, new[l].name = n
                   PROVE  k = l
      BY DEF Once
    <3>2. (IF k < i THEN k ELSE k + 1) = (IF l < i THEN l ELSE l + 1)
      BY <2>1, <3>1 DEF Once
    <3>3. QED
      BY <3>2
  <2>4. ValueIs(new, n, v)
    BY <2>1 DEF ValueIs
  <2>5. QED
    BY <1>2, <2>1, <2>2, <2>3, <2>4
<1>7. QED
  BY <1>1, <1>3, <1>4, <1>5, <1>6 DEF IsUpdated

LEMMA UpdateSame ==
    ASSUME NEW E, NEW attrs \in Seq(E), NEW a \in E, NEW n, a.name = n, Once(attrs, n),
           NEW new, new = UpdateAttribute(attrs, a)
    PROVE  /\ Once(new, n) /\ ValueIs(new, n, a.value)
           /\ HasAttribute(new, n) <=> a.value # {}
<1>1. IsUpdated(E, attrs, a, new) /\ new \in Seq(E)
  BY UpdateCases, UpdateType
<1>2. /\ HasAttribute(new, n) <=> \E i \in 1..Len(new) : new[i].name = n
      /\ HasAttribute(attrs, n) <=> \E i \in 1..Len(attrs) : attrs[i].name = n
  BY <1>1, NoEntry
<1>3. CASE ~HasAttribute(attrs, n) /\ a.value = {} /\ new = attrs
  BY <1>2, <1>3 DEF Once, ValueIs
<1>4. CASE ~HasAttribute(attrs, n) /\ a.value # {} /\ new = Append(attrs, a)
  <2>1. /\ Len(new) = Len(attrs) + 1 /\ new[Len(attrs) + 1] = a
        /\ \A i \in 1..Len(attrs) : new[i] = attrs[i]
    BY <1>4
  <2>2. \A i \in 1..Len(new) : new[i].name = n <=> i = Len(attrs) + 1
    BY <1>2, <1>4, <2>1
  <2>3. Once(new, n)
    BY <2>2 DEF Once
  <2>4. ValueIs(new, n, a.value)
    BY <2>1, <2>2 DEF ValueIs
  <2>5. Len(attrs) + 1 \in 1..Len(new)
    BY <2>1
  <2>6. QED
    BY <1>2, <1>4, <2>2, <2>3, <2>4, <2>5
<1>5. ASSUME NEW i \in 1..Len(attrs), attrs[i].name = n, a.value # {},
             new = [attrs EXCEPT ![i] = a]
      PROVE  /\ Once(new, n) /\ ValueIs(new, n, a.value)
             /\ HasAttribute(new, n) <=> a.value # {}
  <2>1. /\ Len(new) = Len(attrs) /\ new[i] = a
        /\ \A j \in 1..Len(attrs) : j # i => new[j] = attrs[j]
    BY <1>5
  <2>2. \A j \in 1..Len(new) : new[j].name = n <=> j = i
    BY <1>5, <2>1 DEF Once
  <2>3. Once(new, n)
    BY <2>2 DEF Once
  <2>4. ValueIs(new, n, a.value)
    BY <2>1, <2>2 DEF ValueIs
  <2>5. QED
    BY <1>2, <1>5, <2>1, <2>2, <2>3, <2>4
<1>6. ASSUME NEW i \in 1..Len(attrs), attrs[i].name = n, a.value = {}, Len(new) = Len(attrs) - 1,
             \A k \in 1..Len(attrs) - 1 : new[k] = IF k < i THEN attrs[k] ELSE attrs[k + 1]
      PROVE  /\ Once(new, n) /\ ValueIs(new, n, a.value)
             /\ HasAttribute(new, n) <=> a.value # {}
  <2>1. \A k \in 1..Len(new) :
           \E p \in 1..Len(attrs) : p = (IF k < i THEN k ELSE k + 1) /\ new[k] = attrs[p]
    BY <1>6
  <2>2. \A k \in 1..Len(new) : new[k].name # n
    <3>1. SUFFICES ASSUME NEW k \in 1..Len(new), new[k].name = n PROVE FALSE
      OBVIOUS
    <3>2. PICK p \in 1..Len(attrs) : p = (IF k < i THEN k ELSE k + 1) /\ new[k] = attrs[p]
      BY <2>1
    <3>3. p = i
      BY <1>6, <3>1, <3>2 DEF Once
    <3>4. QED
      BY <3>2, <3>3
  <2>3. QED
    BY <1>2, <1>6, <2>2 DEF Once, ValueIs
<1>7. QED
  BY <1>1, <1>3, <1>4, <1>5, <1>6 DEF IsUpdated

\* After i attributes: none of them had the name, or the last one that had it
\* counts.
Traced(attrs, new, n, i, current) ==
    /\ Once(current, n)
    /\ \/ /\ \A j \in 1..i : new[j].name # n
          /\ HasAttribute(current, n) <=> HasAttribute(attrs, n)
          /\ ValueIs(current, n, GetAttribute(attrs, n))
       \/ \E j \in 1..i :
            /\ new[j].name = n /\ \A k \in 1..i : new[k].name = n => k <= j
            /\ HasAttribute(current, n) <=> new[j].value # {}
            /\ ValueIs(current, n, new[j].value)

LEMMA NewAttributesLast ==
    ASSUME NEW E, NEW attrs \in Seq(E), NEW new \in Seq(E), NEW n, Once(attrs, n),
           NEW res, res = getNewAttributes(attrs, new)
    PROVE  /\ Once(res, n)
           /\ ~HasAttribute(new, n) =>
                /\ HasAttribute(res, n) <=> HasAttribute(attrs, n)
                /\ GetAttribute(res, n) = GetAttribute(attrs, n)
           /\ HasAttribute(new, n) =>
                /\ HasAttribute(res, n) <=> GetAttribute(new, n) # {}
                /\ GetAttribute(res, n) = GetAttribute(new, n)
<1>1. PICK f : IsFold(f, attrs, new) /\ res = f[Len(new)]
  BY FoldExists
<1>2. \A i \in 0..Len(new) : f[i] \in Seq(E)
  BY <1>1, FoldType
<1> DEFINE S == {i \in Nat : Traced(attrs, new, n, i, f[i])}
<1>3. 0 \in S
  BY <1>1, OnceValue DEF IsFold, Traced
<1>4. ASSUME NEW i \in Nat, i < Len(new), i \in S PROVE i + 1 \in S
  <2>1. i + 1 \in 1..Len(new) /\ new[i + 1] \in E /\ i \in 0..Len(new)
    BY <1>4
  <2>2. f[i + 1] = UpdateAttribute(f[i], new[i + 1]) /\ f[i] \in Seq(E)
    BY <1>1, <1>2, <2>1 DEF IsFold
  <2>3. Traced(attrs, new, n, i, f[i])
    BY <1>4
  <2>4. \A k \in 1..i + 1 : k \in 1..i \/ k = i + 1
    OBVIOUS
  <2>5. CASE new[i + 1].name = n
    <3>1. /\ Once(f[i + 1], n) /\ ValueIs(f[i + 1], n, new[i + 1].value)
          /\ HasAttribute(f[i + 1], n) <=> new[i + 1].value # {}
      BY <2>1, <2>2, <2>3, <2>5, UpdateSame DEF Traced
    <3>2. i + 1 \in 1..i + 1 /\ \A k \in 1..i + 1 : k <= i + 1
      OBVIOUS
    <3>3. Traced(attrs, new, n, i + 1, f[i + 1])
      BY <2>5, <3>1, <3>2 DEF Traced
    <3>4. QED
      BY <3>3
  <2>6. CASE new[i + 1].name # n
    <3>1. \A v : ValueIs(f[i], n, v) =>
                   /\ Once(f[i + 1], n) /\ ValueIs(f[i + 1], n, v)
                   /\ HasAttribute(f[i + 1], n) <=> HasAttribute(f[i], n)
      BY <2>1, <2>2, <2>3, <2>6, UpdateOther DEF Traced
    <3>2. CASE /\ \A j \in 1..i : new[j].name # n
               /\ HasAttribute(f[i], n) <=> HasAttribute(attrs, n)
               /\ ValueIs(f[i], n, GetAttribute(attrs, n))
      BY <2>4, <2>6, <3>1, <3>2 DEF Traced
    <3>3. ASSUME NEW j \in 1..i, new[j].name = n, \A k \in 1..i : new[k].name = n => k <= j,
                 HasAttribute(f[i], n) <=> new[j].value # {},
                 ValueIs(f[i], n, new[j].value)
          PROVE  Traced(attrs, new, n, i + 1, f[i + 1])
      <4>1. j \in 1..i + 1 /\ \A k \in 1..i + 1 : new[k].name = n => k <= j
        BY <2>4, <2>6, <3>3
      <4>2. QED
        BY <3>1, <3>3, <4>1 DEF Traced
    <3>4. Traced(attrs, new, n, i + 1, f[i + 1])
      BY <2>3, <3>2, <3>3 DEF Traced
    <3>5. QED
      BY <3>4
  <2>7. QED
    BY <2>5, <2>6
<1>5. \A i \in 0..Len(new) : i \in S
  <2> HIDE DEF S
  <2>1. Len(new) \in Nat
    OBVIOUS
  <2>2. QED
    BY <1>3, <1>4, <2>1, InductionTo
<1>6. Traced(attrs, new, n, Len(new), res) /\ res \in Seq(E)
  <2>1. Len(new) \in 0..Len(new)
    OBVIOUS
  <2>2. QED
    BY <1>1, <1>2, <1>5, <2>1
<1>7. /\ HasAttribute(new, n) <=> \E i \in 1..Len(new) : new[i].name = n
      /\ ~HasAttribute(res, n) => GetAttribute(res, n) = {}
      /\ ~HasAttribute(attrs, n) => GetAttribute(attrs, n) = {}
  BY <1>6, NoEntry
<1>8. \A v : ValueIs(res, n, v) /\ HasAttribute(res, n) => GetAttribute(res, n) = v
  BY <1>6, OnceValue DEF Traced
<1>9. CASE \A j \in 1..Len(new) : new[j].name # n
  BY <1>6, <1>7, <1>8, <1>9 DEF Traced
<1>10. CASE \E j \in 1..Len(new) : new[j].name = n
  <2>1. PICK j \in 1..Len(new) :
            /\ new[j].name = n /\ \A k \in 1..Len(new) : new[k].name = n => k <= j
            /\ HasAttribute(res, n) <=> new[j].value # {}
            /\ ValueIs(res, n, new[j].value)
    BY <1>6, <1>10 DEF Traced
  <2>2. HasAttribute(new, n) /\ GetAttribute(new, n) = new[j].value
    BY <2>1, IsLast
  <2>3. QED
    BY <1>6, <1>7, <1>8, <2>1, <2>2 DEF Traced
<1>11. QED
  BY <1>9, <1>10

-----------------------------------------------------------------------------
(* Names and patterns.                                                     *)

LEMMA PrefixElements ==
    ASSUME NEW s \in Seq(Parts), NEW t \in Seq(Parts)
    PROVE  IsPrefix(s, t) <=> Len(s) <= Len(t) /\ \A i \in 1..Len(s) : s[i] = t[i]
<1>1. SubSeq(s, 1, Len(s)) = s
  BY SubSeqFull
<1>2. CASE Len(s) <= Len(t)
  <2>1. /\ SubSeq(t, 1, Len(s)) \in Seq(Parts) /\ Len(SubSeq(t, 1, Len(s))) = Len(s)
        /\ \A i \in 1..Len(s) : SubSeq(t, 1, Len(s))[i] = t[i]
    BY <1>2
  <2>2. (\A i \in 1..Len(s) : s[i] = t[i]) => s = SubSeq(t, 1, Len(s))
    BY <2>1, SeqEqual
  <2>3. QED
    BY <1>1, <1>2, <2>1, <2>2 DEF IsPrefix
<1>3. QED
  BY <1>2 DEF IsPrefix

LEMMA WithinTransitive ==
    ASSUME NEW s \in Seq(Parts), NEW t \in Seq(Parts), NEW u \in Seq(Parts),
           Within(s, t), Within(t, u)
    PROVE  Within(s, u)
  BY PrefixElements DEF Within

LEMMA FrontType ==
    ASSUME NEW p \in Path
    PROVE  /\ Front(p) \in Seq(Parts) /\ Len(p) \in Nat \ {0} /\ Len(Front(p)) = Len(p) - 1
           /\ \A i \in 1..Len(p) - 1 : Front(p)[i] = p[i]
<1>1. p \in Seq(Parts) /\ Len(p) \in Nat \ {0}
  BY EmptySeq DEF Path
<1>2. \A i \in 1..Len(p) - 1 : p[i] \in Parts
  BY <1>1
<1>3. Front(p) = SubSeq(p, 1, Len(p) - 1) /\ Len(p) - 1 \in Int /\ 1 \in Int
  BY <1>1 DEF Front
<1>4. /\ SubSeq(p, 1, Len(p) - 1) \in Seq(Parts)
      /\ Len(SubSeq(p, 1, Len(p) - 1)) = IF 1 <= Len(p) - 1 THEN Len(p) - 1 - 1 + 1 ELSE 0
      /\ \A i \in 1..Len(p) - 1 - 1 + 1 : SubSeq(p, 1, Len(p) - 1)[i] = p[1 + i - 1]
  BY <1>2, <1>3, SubSeqProperties
<1>5. Len(Front(p)) = Len(p) - 1
  <2>1. \A l \in Nat \ {0} : (IF 1 <= l - 1 THEN l - 1 - 1 + 1 ELSE 0) = l - 1
    OBVIOUS
  <2>2. QED
    BY <1>1, <1>3, <1>4, <2>1, Zenon
<1>6. ASSUME NEW i \in 1..Len(p) - 1 PROVE Front(p)[i] = p[i]
  <2>1. i \in 1..Len(p) - 1 - 1 + 1 /\ 1 + i - 1 = i
    BY <1>1
  <2>2. QED
    BY <1>3, <1>4, <2>1
<1>7. QED
  BY <1>1, <1>3, <1>4, <1>5, <1>6

\* A strict prefix is shorter.
LEMMA StrictPrefix ==
    ASSUME NEW s \in Seq(Parts), NEW t \in Seq(Parts)
    PROVE  IsStrictPrefix(s, t) <=> Len(s) < Len(t) /\ \A i \in 1..Len(s) : s[i] = t[i]
<1>1. ASSUME Len(s) = Len(t), \A i \in 1..Len(s) : s[i] = t[i] PROVE s = t
  BY <1>1, SeqEqual
<1>2. QED
  BY <1>1, PrefixElements DEF IsStrictPrefix

\* What a pattern matches is matched by a pattern that matches it: nobody who
\* may register the pattern v for others gives away more than its own.
LEMMA MatchesTransitive ==
    ASSUME NEW p \in Path, NEW v \in Path, NEW n \in Path, Matches(p, v), Matches(v, n)
    PROVE  Matches(p, n)
<1>0. p \in Seq(Parts) /\ v \in Seq(Parts) /\ n \in Seq(Parts)
  BY DEF Path
<1>1. CASE Last(p) # "*"
  BY <1>1 DEF Matches
<1>2. CASE Last(p) = "*" /\ Last(v) # "*"
  BY <1>2 DEF Matches
<1>3. CASE Last(p) = "*" /\ Last(v) = "*"
  <2>1. IsStrictPrefix(Front(p), v) /\ IsStrictPrefix(Front(v), n)
    BY <1>3 DEF Matches
  <2>2. /\ Len(p) - 1 < Len(v) /\ \A i \in 1..Len(p) - 1 : Front(p)[i] = v[i]
        /\ Len(v) - 1 < Len(n) /\ \A i \in 1..Len(v) - 1 : Front(v)[i] = n[i]
    BY <1>0, <2>1, FrontType, StrictPrefix
  <2>3. Len(p) \in Nat /\ Len(v) \in Nat /\ Len(n) \in Nat
    BY <1>0
  <2>4. Len(Front(p)) < Len(n) /\ \A i \in 1..Len(Front(p)) : Front(p)[i] = n[i]
    <3>1. \A i \in 1..Len(p) - 1 : i \in 1..Len(v) - 1
      BY <2>2, <2>3
    <3>2. \A i \in 1..Len(v) - 1 : Front(v)[i] = v[i]
      BY FrontType
    <3>3. QED
      BY <2>2, <2>3, <3>1, <3>2, FrontType
  <2>5. IsStrictPrefix(Front(p), n)
    BY <1>0, <2>4, FrontType, StrictPrefix
  <2>6. QED
    BY <1>3, <2>5 DEF Matches
<1>4. QED
  BY <1>1, <1>2, <1>3

-----------------------------------------------------------------------------
(* The authority in a row, entry by entry: P are the configured identities *)
(* it comes from.                                                          *)

EntryFrom(a, P) ==
    /\ a.name = Roles => \A t \in a.value : \E b \in P : MayAct(Bootstrap[b], t)
    /\ a.name \in BooleanAttributes /\ a.value = True
         => \E b \in P : Holds(Bootstrap[b], a.name)
    /\ a.name = RegistrarAttr =>
         \A p \in a.value : \A n \in Path :
            Matches(p, n) => \E b \in P : MayRegister(Bootstrap[b], n)
    /\ \/ a.name \in FixedAttributes
       \/ \E b \in P : \/ MayRegister(Bootstrap[b], a.name)
                       \/ HasAttribute(Bootstrap[b].attrs, a.name)

Entries(P) == {a \in Attribute : EntryFrom(a, P)}

RowFrom(row, P) ==
    /\ row \in Identity /\ P \subseteq DOMAIN Bootstrap
    /\ \E b \in P : MayAct(Bootstrap[b], row.type) \/ Bootstrap[b].type = row.type
    /\ \E b \in P : Within(Bootstrap[b].aff, row.aff)
    /\ row.attrs \in Seq(Entries(P))

\* What a caller may give to others is within its own authority.
Given(row, n, v) ==
    /\ n = Roles => \A t \in v : MayAct(row, t)
    /\ n \in BooleanAttributes /\ v = True => Holds(row, n)
    /\ n = RegistrarAttr => \A p \in v : \A m \in Path : Matches(p, m) => MayRegister(row, m)
    /\ n \notin FixedAttributes /\ MayRegister(row, n)

LEMMA Names ==
    /\ Type \in Path /\ Affiliation \in Path
    /\ Roles \notin BooleanAttributes /\ RegistrarAttr \notin BooleanAttributes
    /\ Roles # RegistrarAttr /\ Type # Affiliation
    /\ {Roles, DelegateRoles, RegistrarAttr} \cap FixedAttributes = {}
    /\ BooleanAttributes \cap FixedAttributes = {}
    /\ \A n \in FixedAttributes : IsReserved(n)
    /\ Type \in FixedAttributes /\ Affiliation \in FixedAttributes
    /\ True # {}
<1>1. Type \in Path /\ Affiliation \in Path
  <2>1. Type \in Seq(Parts) /\ Affiliation \in Seq(Parts)
    BY PolicyConstantsOK DEF Type, Affiliation
  <2>2. Len(Type) = 2 /\ Len(Affiliation) = 2
    BY DEF Type, Affiliation
  <2>3. \A s \in Seq(Parts) : Len(s) # 0 => s # << >>
    BY EmptySeq
  <2>4. QED
    BY <2>1, <2>2, <2>3 DEF Path
<1>2. /\ Len(Roles) = 3 /\ Len(RegistrarAttr) = 3 /\ Len(DelegateRoles) = 3
      /\ \A n \in FixedAttributes : Len(n) = 2 /\ n[1] = "hf"
      /\ \A n \in BooleanAttributes : Len(n) = 2
  BY DEF Roles, RegistrarAttr, DelegateRoles, FixedAttributes, BooleanAttributes, Type,
         Affiliation, Revoker
<1>3. Roles # RegistrarAttr /\ Type # Affiliation
  BY DEF Roles, RegistrarAttr, Type, Affiliation
<1>4. \A n \in FixedAttributes : n[2] \in {"Type", "Affiliation", "EnrollmentID"}
  BY DEF FixedAttributes, Type, Affiliation
<1>5. \A n \in BooleanAttributes : n[2] \in {"Revoker", "IntermediateCA", "GenCRL", "AffiliationMgr"}
  BY DEF BooleanAttributes, Revoker
<1>6. BooleanAttributes \cap FixedAttributes = {}
  BY <1>4, <1>5
<1>7. \A n \in FixedAttributes : IsReserved(n)
  BY <1>2 DEF IsReserved
<1>8. Type \in FixedAttributes /\ Affiliation \in FixedAttributes /\ True # {}
  BY DEF FixedAttributes, True
<1>9. QED
  BY <1>1, <1>2, <1>3, <1>6, <1>7, <1>8

\* The authority of a row is within that of the identities it comes from.
LEMMA RowAuthority ==
    ASSUME NEW row, NEW P, RowFrom(row, P)
    PROVE  /\ \A t : MayAct(row, t) => \E b \in P : MayAct(Bootstrap[b], t)
           /\ \A a \in BooleanAttributes : Holds(row, a) => \E b \in P : Holds(Bootstrap[b], a)
           /\ \A n \in Path : MayRegister(row, n) => \E b \in P : MayRegister(Bootstrap[b], n)
<1>1. row.attrs \in Seq(Entries(P))
  BY DEF RowFrom
<1>2. ASSUME NEW n, GetAttribute(row.attrs, n) # {}
      PROVE  \E a \in Entries(P) : a.name = n /\ GetAttribute(row.attrs, n) = a.value
  <2>1. HasAttribute(row.attrs, n)
    BY <1>1, <1>2, NoEntry
  <2>2. PICK i \in 1..Len(row.attrs) :
           row.attrs[i].name = n /\ GetAttribute(row.attrs, n) = row.attrs[i].value
    BY <1>1, <2>1, LastEntry
  <2>3. row.attrs[i] \in Entries(P)
    BY <1>1, <2>2
  <2>4. QED
    BY <2>2, <2>3
<1>3. ASSUME NEW t, MayAct(row, t) PROVE \E b \in P : MayAct(Bootstrap[b], t)
  <2>1. PICK s \in GetAttribute(row.attrs, Roles) : s \in {t, Star}
    BY <1>3 DEF MayAct
  <2>2. PICK a \in Entries(P) : a.name = Roles /\ GetAttribute(row.attrs, Roles) = a.value
    BY <1>2, <2>1
  <2>3. \E b \in P : MayAct(Bootstrap[b], s)
    BY <2>1, <2>2 DEF Entries, EntryFrom
  <2>4. QED
    BY <2>1, <2>3 DEF MayAct
<1>4. ASSUME NEW n \in BooleanAttributes, Holds(row, n)
      PROVE  \E b \in P : Holds(Bootstrap[b], n)
  <2>1. GetAttribute(row.attrs, n) = True /\ True # {}
    BY <1>4, Names DEF Holds
  <2>2. PICK a \in Entries(P) : a.name = n /\ GetAttribute(row.attrs, n) = a.value
    BY <1>2, <2>1
  <2>3. QED
    BY <2>1, <2>2 DEF Entries, EntryFrom
<1>5. ASSUME NEW n \in Path, MayRegister(row, n)
      PROVE  \E b \in P : MayRegister(Bootstrap[b], n)
  <2>1. PICK p \in GetAttribute(row.attrs, RegistrarAttr) : Matches(p, n)
    BY <1>5 DEF MayRegister, canRegisterAttr
  <2>2. PICK a \in Entries(P) :
           a.name = RegistrarAttr /\ GetAttribute(row.attrs, RegistrarAttr) = a.value
    BY <1>2, <2>1
  <2>3. QED
    BY <2>1, <2>2 DEF Entries, EntryFrom
<1>6. QED
  BY <1>3, <1>4, <1>5

\* CanRegisterRequestedAttributes lets a caller give what it has itself.
LEMMA Authorized ==
    ASSUME NEW caller \in Identity, NEW reqAttrs \in Seq(Attribute), NEW user,
           CanRegisterRequestedAttributes(reqAttrs, user, caller.attrs),
           NEW i \in 1..Len(reqAttrs)
    PROVE  Given(caller, reqAttrs[i].name, reqAttrs[i].value)
<1>1. PICK a : a = reqAttrs[i]
  OBVIOUS
<1>2. a \in Attribute /\ CanRegisterAttribute(a, reqAttrs, user, caller.attrs)
  BY <1>1 DEF CanRegisterRequestedAttributes
<1>3. MayRegister(caller, a.name)
  BY <1>2 DEF CanRegisterAttribute, MayRegister
<1>4. isRegistrarAuthorized(a, reqAttrs, user, caller.attrs)
  BY <1>2 DEF CanRegisterAttribute
<1>5. \/ IsCustom(a.name)
      \/ /\ a.name \in BooleanAttributes
         /\ validateBooleanAttribute(a, GetAttribute(caller.attrs, a.name))
      \/ /\ a.name \in ListAttributes
         /\ validateListAttribute(a, GetAttribute(caller.attrs, a.name), reqAttrs, user)
  BY <1>4 DEF isRegistrarAuthorized
<1>6. /\ IsReserved(Roles) /\ IsReserved(RegistrarAttr)
      /\ \A n \in BooleanAttributes \cup FixedAttributes : IsReserved(n)
      /\ ListAttributes \cap FixedAttributes = {}
  <2>1. /\ Roles[1] = "hf" /\ Len(Roles) = 3
        /\ RegistrarAttr[1] = "hf" /\ Len(RegistrarAttr) = 3
    BY DEF Roles, RegistrarAttr
  <2>2. \A n \in BooleanAttributes : n[1] = "hf" /\ Len(n) = 2
    BY DEF BooleanAttributes, Revoker
  <2>3. QED
    BY <2>1, <2>2, Names DEF IsReserved, ListAttributes
<1>7. a.name \notin FixedAttributes
  BY <1>5, <1>6, Names DEF IsCustom
<1>8. a.name \in BooleanAttributes /\ a.value = True => Holds(caller, a.name)
  <2>1. \A n \in BooleanAttributes : n \notin ListAttributes
    <3>1. \A n \in BooleanAttributes : Len(n) = 2
      BY DEF BooleanAttributes, Revoker
    <3>2. \A n \in ListAttributes : Len(n) = 3
      BY DEF ListAttributes, Roles, DelegateRoles, RegistrarAttr
    <3>3. QED
      BY <3>1, <3>2
  <2>2. QED
    BY <1>5, <1>6, <2>1 DEF IsCustom, validateBooleanAttribute, Holds
<1>9. ASSUME a.name = Roles, NEW t \in a.value PROVE MayAct(caller, t)
  <2>1. validateListAttribute(a, GetAttribute(caller.attrs, Roles), reqAttrs, user)
    BY <1>5, <1>6, <1>9, Names DEF IsCustom
  <2>2. IsSubsetOf(Roles, a.value, GetAttribute(caller.attrs, Roles))
    BY <1>9, <2>1, Names DEF validateListAttribute
  <2>3. QED
    BY <1>9, <2>2 DEF IsSubsetOf, MayAct
<1>10. ASSUME a.name = RegistrarAttr, NEW p \in a.value, NEW m \in Path, Matches(p, m)
       PROVE  MayRegister(caller, m)
  <2>1. validateListAttribute(a, GetAttribute(caller.attrs, RegistrarAttr), reqAttrs, user)
    BY <1>5, <1>6, <1>10, Names DEF IsCustom
  <2>2. canRegisterAttr(p, GetAttribute(caller.attrs, RegistrarAttr))
    BY <1>10, <2>1 DEF validateListAttribute, checkHfRegistrarAttrValues
  <2>3. PICK q \in GetAttribute(caller.attrs, RegistrarAttr) : Matches(q, p)
    BY <2>2 DEF canRegisterAttr
  <2>4. q \in Path
    <3>1. caller.attrs \in Seq(Attribute)
      BY DEF Identity
    <3>2. HasAttribute(caller.attrs, RegistrarAttr)
      BY <2>3, <3>1, NoEntry
    <3>3. PICK j \in 1..Len(caller.attrs) :
             GetAttribute(caller.attrs, RegistrarAttr) = caller.attrs[j].value
      BY <3>1, <3>2, LastEntry
    <3>4. caller.attrs[j] \in Attribute
      BY <3>1, <3>3
    <3>5. QED
      BY <2>3, <3>3, <3>4 DEF Attribute
  <2>5. p \in Path
    BY <1>2, <1>10 DEF Attribute
  <2>6. Matches(q, m)
    BY <1>10, <2>3, <2>4, <2>5, MatchesTransitive
  <2>7. QED
    BY <2>3, <2>6 DEF MayRegister, canRegisterAttr
<1>11. Given(caller, a.name, a.value)
  BY <1>3, <1>7, <1>8, <1>9, <1>10 DEF Given
<1>12. QED
  BY <1>1, <1>11

LEMMA GivenFrom ==
    ASSUME NEW caller, NEW P, RowFrom(caller, P), NEW a \in Attribute,
           Given(caller, a.name, a.value)
    PROVE  a \in Entries(P)
<1>1. a.name \in Path
  BY DEF Attribute
<1>2. \E b \in P : MayRegister(Bootstrap[b], a.name)
  BY <1>1, RowAuthority DEF Given
<1>3. QED
  BY <1>2, RowAuthority DEF Given, Entries, EntryFrom

LEMMA EntriesGrow ==
    ASSUME NEW P, NEW Q, P \subseteq Q
    PROVE  Entries(P) \subseteq Entries(Q) /\ \A s \in Seq(Entries(P)) : s \in Seq(Entries(Q))
<1>1. Entries(P) \subseteq Entries(Q)
  BY DEF Entries, EntryFrom
<1>2. QED
  BY <1>1, SeqMonotonic

LEMMA FixedEntries ==
    ASSUME NEW P, NEW v \in SUBSET Path
    PROVE  Attr(Type, v) \in Entries(P) /\ Attr(Affiliation, v) \in Entries(P)
<1>1. Attr(Type, v) \in Attribute /\ Attr(Affiliation, v) \in Attribute
  BY Names DEF Attr, Attribute
<1>2. Attr(Type, v).name = Type /\ Attr(Affiliation, v).name = Affiliation
  BY DEF Attr
<1>3. Type \notin {Roles, RegistrarAttr} /\ Affiliation \notin {Roles, RegistrarAttr}
      /\ Type \notin BooleanAttributes /\ Affiliation \notin BooleanAttributes
  BY Names
<1>4. QED
  BY <1>1, <1>2, <1>3, Names DEF Entries, EntryFrom

LEMMA SeqOfElements ==
    ASSUME NEW A, NEW E, NEW s \in Seq(A), \A i \in 1..Len(s) : s[i] \in E
    PROVE  s \in Seq(E)
<1>1. Len(s) \in Nat /\ s \in [1..Len(s) -> A]
  BY LenProperties
<1>2. s \in [1..Len(s) -> E]
  BY <1>1
<1>3. QED
  BY <1>1, <1>2, SeqDef

LEMMA AskedFrom ==
    ASSUME NEW caller, NEW P, RowFrom(caller, P), NEW reqAttrs \in Seq(Attribute), NEW user,
           CanRegisterRequestedAttributes(reqAttrs, user, caller.attrs)
    PROVE  reqAttrs \in Seq(Entries(P))
<1>1. \A i \in 1..Len(reqAttrs) : reqAttrs[i] \in Entries(P)
  BY Authorized, GivenFrom, ElementOfSeq DEF RowFrom
<1>2. QED
  BY <1>1, SeqOfElements

LEMMA RequestType ==
    ASSUME NEW req \in Requests
    PROVE  /\ req.id \in IDs /\ req.type \in Path \cup {NoType}
           /\ req.aff \in Path \cup {Dot, NoAff} /\ req.attrs \in Seq(Attribute)
  BY PolicyConstantsOK DEF Request

LEMMA AffiliationType ==
    ASSUME NEW aff \in Affiliations \cup {Root}
    PROVE  aff \in Seq(Parts) /\ {aff} \ {Root} \in SUBSET Path /\ aff \notin {Dot, NoAff}
<1>1. CASE aff \in Affiliations
  BY <1>1, PolicyConstantsOK DEF Path
<1>2. CASE aff = Root
  <2>1. aff \in Seq(Parts) /\ Len(aff) = 0
    BY <1>2, EmptySeq DEF Root
  <2>2. Len(Dot) = 1 /\ Len(NoAff) = 1
    BY DEF Dot, NoAff
  <2>3. QED
    BY <1>2, <2>1, <2>2
<1>3. QED
  BY <1>1, <1>2

LEMMA Grow ==
    ASSUME NEW row, NEW P, NEW Q, RowFrom(row, P), P \subseteq Q, Q \subseteq DOMAIN Bootstrap
    PROVE  RowFrom(row, Q)
  BY EntriesGrow DEF RowFrom

\* What a caller may register is within its authority.
LEMMA RegisteredFrom ==
    ASSUME NEW caller, NEW P, RowFrom(caller, P), NEW req \in Requests,
           canRegister(caller, RegisteredRow(caller, req), req.attrs)
    PROVE  RowFrom(RegisteredRow(caller, req), P)
<1>1. PICK type : type = normalizeType(caller, req)
  OBVIOUS
<1>2. PICK aff : aff = RequestedAff(req.aff, caller.aff)
  OBVIOUS
<1>3. PICK attrs : attrs = req.attrs \o Fixed(type, aff)
  OBVIOUS
<1>4. PICK row : row = RegisteredRow(caller, req)
  OBVIOUS
<1>5. row = [type |-> type, aff |-> aff, attrs |-> attrs]
  BY <1>1, <1>2, <1>3, <1>4 DEF RegisteredRow
<1>6. row.type = type /\ row.aff = aff /\ row.attrs = attrs
  BY <1>5
<1>7. /\ caller \in Identity /\ caller.type \in Path \cup {NoType}
      /\ caller.aff \in Affiliations \cup {Root} /\ P \subseteq DOMAIN Bootstrap
  BY DEF RowFrom, Identity
<1>8. type \in Path \cup {NoType}
  BY <1>1, <1>7, RequestType DEF normalizeType
<1>9. aff \in Affiliations \cup {Root} /\ Within(caller.aff, aff)
  BY <1>4, <1>6 DEF canRegister, ContainsAffiliation
<1>10. attrs \in Seq(Entries(P))
  <2>1. req.attrs \in Seq(Entries(P))
    BY RequestType, AskedFrom DEF canRegister
  <2>2. Fixed(type, aff) \in Seq(Entries(P))
    <3>1. {type} \ {NoType} \in SUBSET Path /\ {aff} \ {Root} \in SUBSET Path
      BY <1>8, <1>9, AffiliationType
    <3>2. QED
      BY <3>1, FixedEntries DEF Fixed
  <2>3. QED
    BY <1>3, <2>1, <2>2, ConcatProperties
<1>11. attrs \in Seq(Attribute)
  <2>1. Entries(P) \subseteq Attribute
    BY DEF Entries
  <2>2. QED
    BY <1>10, <2>1, SeqMonotonic
<1>12. row \in Identity
  BY <1>5, <1>8, <1>9, <1>11 DEF Identity
<1>13. \E b \in P : MayAct(Bootstrap[b], type) \/ Bootstrap[b].type = type
  <2>1. CASE req.type # NoType
    <3>1. CanActOnType(caller, type) /\ type # NoType
      BY <1>1, <1>4, <1>6, <2>1 DEF canRegister, normalizeType
    <3>2. MayAct(caller, type)
      BY <3>1 DEF CanActOnType, MayAct
    <3>3. QED
      BY <3>2, RowAuthority
  <2>2. CASE req.type = NoType
    BY <1>1, <2>2 DEF normalizeType, RowFrom
  <2>3. QED
    BY <2>1, <2>2
<1>14. \E b \in P : Within(Bootstrap[b].aff, aff)
  <2>1. PICK b \in P : Within(Bootstrap[b].aff, caller.aff)
    BY DEF RowFrom
  <2>2. Bootstrap[b].aff \in Seq(Parts) /\ caller.aff \in Seq(Parts) /\ aff \in Seq(Parts)
    BY <1>7, <1>9, <2>1, PolicyConstantsOK, AffiliationType DEF Identity
  <2>3. QED
    BY <1>9, <2>1, <2>2, WithinTransitive
<1>15. RowFrom(row, P)
  BY <1>6, <1>7, <1>10, <1>12, <1>13, <1>14 DEF RowFrom
<1>16. QED
  BY <1>4, <1>15

\* Only from the root affiliation can an identity be moved to the root.
LEMMA OnlyRootContainsDot ==
    ASSUME NEW aff \in Affiliations \cup {Root}, Within(aff, Dot)
    PROVE  aff = Root
<1>1. SUFFICES ASSUME aff \in Affiliations PROVE FALSE
  OBVIOUS
<1>2. aff \in Seq(Parts) /\ Len(aff) \in Nat \ {0} /\ aff # Dot
  BY <1>1, PolicyConstantsOK, EmptySeq DEF Path
<1>3. Len(Dot) = 1 /\ Dot \in Seq({"."})
  BY DEF Dot
<1>4. Len(aff) = 1 /\ SubSeq(aff, 1, 1) = SubSeq(Dot, 1, 1)
  BY <1>2, <1>3 DEF Within, IsPrefix
<1>5. SubSeq(aff, 1, 1) = aff /\ SubSeq(Dot, 1, 1) = Dot
  BY <1>2, <1>3, <1>4, SubSeqFull
<1>6. QED
  BY <1>2, <1>4, <1>5

\* What a caller may make of an identity is within the authority of both.
LEMMA ModifiedFrom ==
    ASSUME NEW caller, NEW P, RowFrom(caller, P), NEW old, NEW Q, RowFrom(old, Q),
           NEW req \in Requests, CanModifyUser(caller, req, old)
    PROVE  RowFrom(ModifiedRow(old, req), P \cup Q)
<1>1. PICK type : type = IF req.type = NoType THEN old.type ELSE req.type
  OBVIOUS
<1>2. PICK aff : aff = RequestedAff(req.aff, old.aff)
  OBVIOUS
<1>3. PICK fixed : fixed = (IF req.aff = NoAff THEN <<>> ELSE <<Attr(Affiliation, {aff} \ {Root})>>)
                           \o (IF req.type = NoType THEN <<>> ELSE <<Attr(Type, {type})>>)
  OBVIOUS
<1>4. PICK attrs : attrs = getNewAttributes(old.attrs, req.attrs \o fixed)
  OBVIOUS
<1>5. PICK row : row = ModifiedRow(old, req)
  OBVIOUS
<1>6. row = [type |-> type, aff |-> aff, attrs |-> attrs]
  BY <1>1, <1>2, <1>3, <1>4, <1>5 DEF ModifiedRow
<1>7. row.type = type /\ row.aff = aff /\ row.attrs = attrs
  BY <1>6
<1>8. /\ caller.aff \in Affiliations \cup {Root} /\ caller.attrs \in Seq(Attribute)
      /\ old.type \in Path \cup {NoType} /\ old.aff \in Affiliations \cup {Root}
      /\ P \cup Q \subseteq DOMAIN Bootstrap
  BY DEF RowFrom, Identity
<1>9. type \in Path \cup {NoType}
  BY <1>1, <1>8, RequestType
<1>10. aff \in Affiliations \cup {Root}
  BY <1>2, <1>8 DEF CanModifyUser, RequestedAff
<1>11. attrs \in Seq(Entries(P \cup Q))
  <2>1. req.attrs \in Seq(Entries(P))
    BY RequestType, AskedFrom DEF CanModifyUser
  <2>2. req.attrs \in Seq(Entries(P \cup Q)) /\ old.attrs \in Seq(Entries(P \cup Q))
    BY <2>1, EntriesGrow DEF RowFrom
  <2>3. fixed \in Seq(Entries(P \cup Q))
    <3>1. {aff} \ {Root} \in SUBSET Path /\ (req.type # NoType => {type} \in SUBSET Path)
      BY <1>1, <1>9, <1>10, RequestType, AffiliationType
    <3>2. /\ Attr(Affiliation, {aff} \ {Root}) \in Entries(P \cup Q)
          /\ req.type # NoType => Attr(Type, {type}) \in Entries(P \cup Q)
      BY <3>1, FixedEntries
    <3>3. PICK x, y : /\ x = IF req.aff = NoAff THEN <<>> ELSE <<Attr(Affiliation, {aff} \ {Root})>>
                      /\ y = IF req.type = NoType THEN <<>> ELSE <<Attr(Type, {type})>>
      OBVIOUS
    <3>4. x \in Seq(Entries(P \cup Q)) /\ y \in Seq(Entries(P \cup Q))
      <4>1. << >> \in Seq(Entries(P \cup Q))
        BY EmptySeq
      <4>2. \A e \in Entries(P \cup Q) : <<e>> \in Seq(Entries(P \cup Q))
        OBVIOUS
      <4>3. QED
        BY <3>2, <3>3, <4>1, <4>2, Zenon
    <3>5. fixed = x \o y
      BY <1>3, <3>3
    <3>6. QED
      BY <3>4, <3>5, ConcatProperties
  <2>4. req.attrs \o fixed \in Seq(Entries(P \cup Q))
    BY <2>2, <2>3, ConcatProperties
  <2>5. QED
    BY <1>4, <2>2, <2>4, NewAttributesType
<1>12. attrs \in Seq(Attribute)
  <2>1. Entries(P \cup Q) \subseteq Attribute
    BY DEF Entries
  <2>2. QED
    BY <1>11, <2>1, SeqMonotonic
<1>13. row \in Identity
  BY <1>6, <1>9, <1>10, <1>12 DEF Identity
<1>14. \E b \in P \cup Q : MayAct(Bootstrap[b], type) \/ Bootstrap[b].type = type
  <2>1. CASE req.type # NoType
    <3>1. MayAct(caller, type)
      BY <1>1, <2>1 DEF CanModifyUser, CanActOnType, MayAct
    <3>2. QED
      BY <3>1, RowAuthority
  <2>2. CASE req.type = NoType
    BY <1>1, <2>2 DEF RowFrom
  <2>3. QED
    BY <2>1, <2>2
<1>15. \E b \in P \cup Q : Within(Bootstrap[b].aff, aff)
  <2>1. CASE req.aff = NoAff
    <3>1. aff = old.aff
      <4>1. Dot # NoAff
        BY DEF Dot, NoAff
      <4>2. QED
        BY <1>2, <2>1, <4>1 DEF RequestedAff
    <3>2. QED
      BY <3>1 DEF RowFrom
  <2>2. CASE req.aff # NoAff
    <3>1. PICK b \in P : Within(Bootstrap[b].aff, caller.aff)
      BY DEF RowFrom
    <3>2. Within(caller.aff, req.aff)
      BY <2>2 DEF CanModifyUser, ContainsAffiliation
    <3>3. CASE req.aff = Dot
      <4>1. aff = Root /\ caller.aff = Root
        BY <1>2, <1>8, <3>2, <3>3, OnlyRootContainsDot DEF RequestedAff
      <4>2. QED
        BY <3>1, <4>1
    <3>4. CASE req.aff # Dot
      <4>1. aff = req.aff
        BY <1>2, <2>2, <3>4 DEF RequestedAff
      <4>2. b \in DOMAIN Bootstrap
        BY <1>8
      <4>3. Bootstrap[b].aff \in Seq(Parts) /\ caller.aff \in Seq(Parts) /\ aff \in Seq(Parts)
        BY <1>8, <1>10, <4>2, PolicyConstantsOK, AffiliationType DEF Identity
      <4>4. Within(Bootstrap[b].aff, aff)
        BY <3>1, <3>2, <4>1, <4>3, WithinTransitive
      <4>5. QED
        BY <4>4
    <3>5. QED
      BY <3>3, <3>4
  <2>3. QED
    BY <2>1, <2>2
<1>16. RowFrom(row, P \cup Q)
  BY <1>7, <1>8, <1>11, <1>13, <1>14, <1>15 DEF RowFrom
<1>17. QED
  BY <1>5, <1>16

-----------------------------------------------------------------------------
(* The fixed attributes of a row.                                          *)

\* st has the entries of s before those of t.
IsConcat(s, t, st, n) ==
    /\ ~HasAttribute(t, n) =>
         /\ HasAttribute(st, n) <=> HasAttribute(s, n)
         /\ GetAttribute(st, n) = GetAttribute(s, n)
    /\ HasAttribute(t, n) => HasAttribute(st, n) /\ GetAttribute(st, n) = GetAttribute(t, n)
    /\ ~HasAttribute(s, n) /\ Once(t, n) => Once(st, n)

LEMMA ConcatGet ==
    ASSUME NEW E, NEW s \in Seq(E), NEW t \in Seq(E), NEW n
    PROVE  IsConcat(s, t, s \o t, n)
<1> SUFFICES ASSUME NEW st, st = s \o t PROVE IsConcat(s, t, st, n)
  OBVIOUS
<1>1. /\ st \in Seq(E) /\ Len(st) = Len(s) + Len(t)
      /\ \A i \in 1..Len(s) + Len(t) : st[i] = IF i <= Len(s) THEN s[i] ELSE t[i - Len(s)]
  BY ConcatProperties
<1>2. Len(s) \in Nat /\ Len(t) \in Nat
  OBVIOUS
<1>3. \A i \in 1..Len(s) : i \in 1..Len(st) /\ st[i] = s[i]
  BY <1>1, <1>2
<1>4. \A i \in 1..Len(t) : Len(s) + i \in 1..Len(st) /\ st[Len(s) + i] = t[i]
  BY <1>1, <1>2
<1>5. \A i \in 1..Len(st) : i \in 1..Len(s) \/ \E j \in 1..Len(t) : i = Len(s) + j
  <2>1. SUFFICES ASSUME NEW i \in 1..Len(st), i \notin 1..Len(s)
                 PROVE  \E j \in 1..Len(t) : i = Len(s) + j
    OBVIOUS
  <2>2. i - Len(s) \in 1..Len(t) /\ i = Len(s) + (i - Len(s))
    BY <1>1, <1>2, <2>1
  <2>3. QED
    BY <2>2
<1>6. /\ HasAttribute(s, n) <=> \E i \in 1..Len(s) : s[i].name = n
      /\ HasAttribute(t, n) <=> \E i \in 1..Len(t) : t[i].name = n
      /\ HasAttribute(st, n) <=> \E i \in 1..Len(st) : st[i].name = n
      /\ ~HasAttribute(s, n) => GetAttribute(s, n) = {}
      /\ ~HasAttribute(st, n) => GetAttribute(st, n) = {}
  BY <1>1, NoEntry
<1>7. ASSUME ~HasAttribute(t, n)
      PROVE  /\ HasAttribute(st, n) <=> HasAttribute(s, n)
             /\ GetAttribute(st, n) = GetAttribute(s, n)
  <2>1. \A i \in 1..Len(st) : st[i].name = n => i \in 1..Len(s)
    BY <1>4, <1>5, <1>6, <1>7
  <2>2. HasAttribute(st, n) <=> HasAttribute(s, n)
    BY <1>3, <1>6, <2>1
  <2>3. CASE HasAttribute(s, n)
    <3>1. PICK i \in 1..Len(s) :
             /\ s[i].name = n /\ \A j \in 1..Len(s) : s[j].name = n => j <= i
             /\ GetAttribute(s, n) = s[i].value
      BY <2>3, LastEntry
    <3>2. /\ i \in 1..Len(st) /\ st[i].name = n
          /\ \A j \in 1..Len(st) : st[j].name = n => j <= i
      BY <1>3, <2>1, <3>1
    <3>3. GetAttribute(st, n) = st[i].value
      BY <1>1, <3>2, IsLast
    <3>4. QED
      BY <1>3, <2>2, <3>1, <3>3
  <2>4. QED
    BY <1>6, <2>2, <2>3
<1>8. ASSUME HasAttribute(t, n)
      PROVE  HasAttribute(st, n) /\ GetAttribute(st, n) = GetAttribute(t, n)
  <2>1. PICK i \in 1..Len(t) :
           /\ t[i].name = n /\ \A j \in 1..Len(t) : t[j].name = n => j <= i
           /\ GetAttribute(t, n) = t[i].value
    BY <1>8, LastEntry
  <2>2. PICK k : k = Len(s) + i
    OBVIOUS
  <2>3. k \in 1..Len(st) /\ st[k] = t[i]
    BY <1>4, <2>2
  <2>4. \A j \in 1..Len(st) : st[j].name = n => j <= k
    <3>1. ASSUME NEW j \in 1..Len(st), st[j].name = n PROVE j <= k
      <4>1. CASE j \in 1..Len(s)
        BY <1>2, <2>2, <4>1
      <4>2. ASSUME NEW m \in 1..Len(t), j = Len(s) + m PROVE j <= k
        BY <1>2, <1>4, <2>1, <2>2, <3>1, <4>2
      <4>3. QED
        BY <1>5, <4>1, <4>2
    <3>2. QED
      BY <3>1
  <2>5. HasAttribute(st, n) /\ GetAttribute(st, n) = st[k].value
    BY <1>1, <2>1, <2>3, <2>4, IsLast
  <2>6. QED
    BY <2>1, <2>3, <2>5
<1>9. ASSUME ~HasAttribute(s, n), Once(t, n) PROVE Once(st, n)
  <2>1. SUFFICES ASSUME NEW i \in 1..Len(st), NEW j \in 1..Len(st),
                        st[i].name = n, st[j].name = n
                 PROVE  i = j
    BY DEF Once
  <2>2. PICK k \in 1..Len(t) : i = Len(s) + k
    BY <1>3, <1>5, <1>6, <1>9, <2>1
  <2>3. PICK l \in 1..Len(t) : j = Len(s) + l
    BY <1>3, <1>5, <1>6, <1>9, <2>1
  <2>4. k = l
    BY <1>4, <1>9, <2>1, <2>2, <2>3 DEF Once
  <2>5. QED
    BY <2>2, <2>3, <2>4
<1>10. QED
  BY <1>7, <1>8, <1>9 DEF IsConcat

LEMMA ConcatLeft ==
    ASSUME NEW E, NEW s \in Seq(E), NEW t \in Seq(E), NEW n, ~HasAttribute(t, n)
    PROVE  /\ HasAttribute(s \o t, n) <=> HasAttribute(s, n)
           /\ GetAttribute(s \o t, n) = GetAttribute(s, n)
  BY ConcatGet DEF IsConcat

LEMMA ConcatRight ==
    ASSUME NEW E, NEW s \in Seq(E), NEW t \in Seq(E), NEW n, HasAttribute(t, n)
    PROVE  HasAttribute(s \o t, n) /\ GetAttribute(s \o t, n) = GetAttribute(t, n)
  BY ConcatGet DEF IsConcat

LEMMA ConcatOnce ==
    ASSUME NEW E, NEW s \in Seq(E), NEW t \in Seq(E), NEW n, ~HasAttribute(s, n), Once(t, n)
    PROVE  Once(s \o t, n)
  BY ConcatGet DEF IsConcat

LEMMA OneGet ==
    ASSUME NEW E, NEW s \in Seq(E), Len(s) = 1, NEW n
    PROVE  /\ Once(s, n) /\ (HasAttribute(s, n) <=> s[1].name = n)
           /\ s[1].name = n => GetAttribute(s, n) = s[1].value
<1>1. HasAttribute(s, n) <=> s[1].name = n
  BY NoEntry
<1>2. ASSUME s[1].name = n PROVE GetAttribute(s, n) = s[1].value
  <2>1. 1 \in 1..Len(s) /\ \A j \in 1..Len(s) : s[j].name = n => j <= 1
    OBVIOUS
  <2>2. QED
    BY <1>2, <2>1, IsLast
<1>3. Once(s, n)
  BY DEF Once
<1>4. QED
  BY <1>1, <1>2, <1>3

LEMMA SingleGet ==
    ASSUME NEW E, NEW m, NEW v, Attr(m, v) \in E, NEW n, NEW s, s = <<Attr(m, v)>>
    PROVE  /\ s \in Seq(E) /\ Once(s, n)
           /\ HasAttribute(s, n) <=> m = n
           /\ m = n => GetAttribute(s, n) = v
<1>1. s \in Seq(E) /\ Len(s) = 1 /\ s[1] = Attr(m, v)
  OBVIOUS
<1>2. s[1].name = m /\ s[1].value = v
  BY <1>1 DEF Attr
<1>3. /\ Once(s, n) /\ (HasAttribute(s, n) <=> s[1].name = n)
      /\ s[1].name = n => GetAttribute(s, n) = s[1].value
  BY <1>1, OneGet
<1>4. QED
  BY <1>1, <1>2, <1>3, Zenon

LEMMA TwoGet ==
    ASSUME NEW E, NEW s \in Seq(E), Len(s) = 2, NEW m, NEW n, m # n,
           s[1].name = m, s[2].name = n
    PROVE  /\ Once(s, m) /\ HasAttribute(s, m) /\ GetAttribute(s, m) = s[1].value
           /\ Once(s, n) /\ HasAttribute(s, n) /\ GetAttribute(s, n) = s[2].value
<1>1. /\ 1 \in 1..Len(s) /\ \A j \in 1..Len(s) : s[j].name = m => j <= 1
      /\ 2 \in 1..Len(s) /\ \A j \in 1..Len(s) : s[j].name = n => j <= 2
  OBVIOUS
<1>2. /\ HasAttribute(s, m) /\ GetAttribute(s, m) = s[1].value
      /\ HasAttribute(s, n) /\ GetAttribute(s, n) = s[2].value
  BY <1>1, IsLast
<1>3. Once(s, m) /\ Once(s, n)
  BY DEF Once
<1>4. QED
  BY <1>2, <1>3

LEMMA EmptyGet ==
    ASSUME NEW n
    PROVE  ~HasAttribute(<< >>, n)
<1>1. PICK e : e = << >>
  OBVIOUS
<1>2. e \in Seq(Attribute) /\ Len(e) = 0
  BY <1>1, EmptySeq
<1>3. ~\E i \in 1..Len(e) : e[i].name = n
  BY <1>2
<1>4. ~HasAttribute(e, n)
  BY <1>2, <1>3, NoEntry
<1>5. QED
  BY <1>1, <1>4

NoFixed(attrs) == \A n \in FixedAttributes : ~HasAttribute(attrs, n)

LEMMA NoFixedAsked ==
    ASSUME NEW caller \in Identity, NEW reqAttrs \in Seq(Attribute), NEW user,
           CanRegisterRequestedAttributes(reqAttrs, user, caller.attrs)
    PROVE  NoFixed(reqAttrs)
<1>1. \A i \in 1..Len(reqAttrs) : reqAttrs[i].name \notin FixedAttributes
  BY Authorized DEF Given
<1>2. QED
  BY <1>1, NoEntry DEF NoFixed

FixedOnce(row) == Once(row.attrs, Type) /\ Once(row.attrs, Affiliation) /\ Agree(row)

LEMMA RegisteredFixed ==
    ASSUME NEW caller \in Identity, NEW req \in Requests,
           canRegister(caller, RegisteredRow(caller, req), req.attrs)
    PROVE  FixedOnce(RegisteredRow(caller, req))
<1>1. PICK type : type = normalizeType(caller, req)
  OBVIOUS
<1>2. PICK aff : aff = RequestedAff(req.aff, caller.aff)
  OBVIOUS
<1>3. PICK f : f = Fixed(type, aff)
  OBVIOUS
<1>4. PICK row : row = RegisteredRow(caller, req)
  OBVIOUS
<1>5. row.type = type /\ row.aff = aff /\ row.attrs = req.attrs \o f
  BY <1>1, <1>2, <1>3, <1>4 DEF RegisteredRow
<1>6. NoFixed(req.attrs) /\ req.attrs \in Seq(Attribute)
  BY RequestType, NoFixedAsked DEF canRegister
<1>7. PICK a, b : a = Attr(Type, {type} \ {NoType}) /\ b = Attr(Affiliation, {aff} \ {Root})
  OBVIOUS
<1> DEFINE E == Attribute \cup {a, b}
<1>8. f \in Seq(E) /\ Len(f) = 2 /\ f[1] = a /\ f[2] = b /\ req.attrs \in Seq(E)
  <2>1. f = <<a, b>>
    BY <1>3, <1>7 DEF Fixed
  <2>2. f \in Seq(E) /\ Len(f) = 2 /\ f[1] = a /\ f[2] = b
    BY <2>1
  <2>3. req.attrs \in Seq(E)
    BY <1>6, SeqMonotonic
  <2>4. QED
    BY <2>2, <2>3
<1> HIDE DEF E
<1>12. /\ HasAttribute(f, Type) /\ GetAttribute(f, Type) = {type} \ {NoType} /\ Once(f, Type)
       /\ HasAttribute(f, Affiliation) /\ GetAttribute(f, Affiliation) = {aff} \ {Root}
       /\ Once(f, Affiliation)
  <2>1. /\ a.name = Type /\ a.value = {type} \ {NoType}
        /\ b.name = Affiliation /\ b.value = {aff} \ {Root}
    BY <1>7 DEF Attr
  <2>2. /\ Once(f, Type) /\ HasAttribute(f, Type) /\ GetAttribute(f, Type) = f[1].value
        /\ Once(f, Affiliation) /\ HasAttribute(f, Affiliation)
        /\ GetAttribute(f, Affiliation) = f[2].value
    BY <1>8, <2>1, TwoGet, Names
  <2>3. QED
    BY <1>8, <2>1, <2>2
<1>9. ~HasAttribute(req.attrs, Type) /\ ~HasAttribute(req.attrs, Affiliation)
  BY <1>6, Names DEF NoFixed
<1>10. /\ Once(row.attrs, Type) /\ Once(row.attrs, Affiliation)
       /\ GetAttribute(row.attrs, Type) = {type} \ {NoType}
       /\ GetAttribute(row.attrs, Affiliation) = {aff} \ {Root}
  BY <1>5, <1>8, <1>9, <1>12, ConcatRight, ConcatOnce
<1>11. QED
  BY <1>4, <1>5, <1>10 DEF FixedOnce, Agree

LEMMA ModifiedFixed ==
    ASSUME NEW old \in Identity, FixedOnce(old), NEW req \in Requests, NoFixed(req.attrs)
    PROVE  FixedOnce(ModifiedRow(old, req))
<1>1. PICK type : type = IF req.type = NoType THEN old.type ELSE req.type
  OBVIOUS
<1>2. PICK aff : aff = RequestedAff(req.aff, old.aff)
  OBVIOUS
<1>3. PICK x, y : /\ x = IF req.aff = NoAff THEN <<>> ELSE <<Attr(Affiliation, {aff} \ {Root})>>
                  /\ y = IF req.type = NoType THEN <<>> ELSE <<Attr(Type, {type})>>
  OBVIOUS
<1>4. PICK new : new = req.attrs \o (x \o y)
  OBVIOUS
<1>5. PICK row : row = ModifiedRow(old, req)
  OBVIOUS
<1>6. row.type = type /\ row.aff = aff /\ row.attrs = getNewAttributes(old.attrs, new)
  BY <1>1, <1>2, <1>3, <1>4, <1>5 DEF ModifiedRow
<1> DEFINE E == Attribute \cup {Attr(Type, {type}), Attr(Affiliation, {aff} \ {Root})}
<1>7. x \in Seq(E) /\ y \in Seq(E) /\ req.attrs \in Seq(E) /\ old.attrs \in Seq(E)
  <2>1. req.attrs \in Seq(Attribute) /\ old.attrs \in Seq(Attribute)
    BY RequestType DEF Identity
  <2>2. << >> \in Seq(E)
    BY EmptySeq
  <2>3. <<Attr(Type, {type})>> \in Seq(E) /\ <<Attr(Affiliation, {aff} \ {Root})>> \in Seq(E)
    OBVIOUS
  <2>4. req.attrs \in Seq(E) /\ old.attrs \in Seq(E)
    BY <2>1, SeqMonotonic
  <2> HIDE DEF E
  <2>5. QED
    BY <1>3, <2>2, <2>3, <2>4, Zenon
<1> HIDE DEF E
<1>8. ~HasAttribute(req.attrs, Type) /\ ~HasAttribute(req.attrs, Affiliation)
  BY Names DEF NoFixed
<1>17. /\ ~HasAttribute(y, Affiliation)
       /\ HasAttribute(y, Type) <=> req.type # NoType
       /\ req.type # NoType => GetAttribute(y, Type) = {type}
  <2>1. Attr(Type, {type}) \in E
    BY DEF E
  <2>2. Type # Affiliation
    BY Names
  <2>3. CASE req.type = NoType
    BY <1>3, <2>3, EmptyGet
  <2>4. CASE req.type # NoType
    <3>1. y = <<Attr(Type, {type})>>
      BY <1>3, <2>4
    <3>2. /\ HasAttribute(y, Affiliation) <=> Type = Affiliation
          /\ HasAttribute(y, Type) <=> Type = Type
          /\ GetAttribute(y, Type) = {type}
      BY <2>1, <3>1, SingleGet
    <3>3. QED
      BY <2>2, <2>4, <3>2
  <2>5. QED
    BY <2>3, <2>4
<1>9. /\ ~HasAttribute(x, Type)
      /\ HasAttribute(x, Affiliation) <=> req.aff # NoAff
      /\ req.aff # NoAff => GetAttribute(x, Affiliation) = {aff} \ {Root}
  <2>1. Attr(Type, {type}) \in E /\ Attr(Affiliation, {aff} \ {Root}) \in E
    BY DEF E
  <2>2. Type # Affiliation
    BY Names
  <2>3. CASE req.aff = NoAff
    BY <1>3, <2>1, <2>2, <2>3, SingleGet, EmptyGet
  <2>4. CASE req.aff # NoAff
    <3>1. x = <<Attr(Affiliation, {aff} \ {Root})>>
      BY <1>3, <2>4
    <3>2. /\ HasAttribute(x, Type) <=> Affiliation = Type
          /\ HasAttribute(x, Affiliation) <=> Affiliation = Affiliation
          /\ GetAttribute(x, Affiliation) = {aff} \ {Root}
      BY <2>1, <3>1, SingleGet
    <3>3. QED
      BY <2>2, <2>4, <3>2
  <2>5. QED
    BY <2>3, <2>4
<1>10. PICK f : f = x \o y
  OBVIOUS
<1>11. /\ f \in Seq(E)
       /\ HasAttribute(f, Type) <=> req.type # NoType
       /\ req.type # NoType => GetAttribute(f, Type) = {type}
       /\ HasAttribute(f, Affiliation) <=> req.aff # NoAff
       /\ req.aff # NoAff => GetAttribute(f, Affiliation) = {aff} \ {Root}
  BY <1>7, <1>9, <1>10, <1>17, ConcatLeft, ConcatRight, ConcatProperties
<1>12. /\ new \in Seq(E)
       /\ HasAttribute(new, Type) <=> req.type # NoType
       /\ req.type # NoType => GetAttribute(new, Type) = {type}
       /\ HasAttribute(new, Affiliation) <=> req.aff # NoAff
       /\ req.aff # NoAff => GetAttribute(new, Affiliation) = {aff} \ {Root}
  <2>1. new = req.attrs \o f /\ new \in Seq(E)
    BY <1>4, <1>7, <1>10, <1>11, ConcatProperties
  <2>2. ASSUME NEW n, ~HasAttribute(req.attrs, n)
        PROVE  /\ HasAttribute(new, n) <=> HasAttribute(f, n)
               /\ HasAttribute(f, n) => GetAttribute(new, n) = GetAttribute(f, n)
    <3>1. CASE HasAttribute(f, n)
      BY <1>7, <1>11, <2>1, <3>1, ConcatRight
    <3>2. CASE ~HasAttribute(f, n)
      BY <1>7, <1>11, <2>1, <2>2, <3>2, ConcatLeft
    <3>3. QED
      BY <3>1, <3>2
  <2>3. QED
    BY <1>8, <1>11, <2>1, <2>2, Zenon
<1>13. Once(old.attrs, Type) /\ Once(old.attrs, Affiliation) /\ Agree(old)
  BY DEF FixedOnce
<1>14. /\ Once(row.attrs, Type)
       /\ HasAttribute(row.attrs, Type) => GetAttribute(row.attrs, Type) = {type} \ {NoType}
  <2>1. /\ Once(row.attrs, Type)
        /\ ~HasAttribute(new, Type) =>
             /\ HasAttribute(row.attrs, Type) <=> HasAttribute(old.attrs, Type)
             /\ GetAttribute(row.attrs, Type) = GetAttribute(old.attrs, Type)
        /\ HasAttribute(new, Type) => GetAttribute(row.attrs, Type) = GetAttribute(new, Type)
    BY <1>6, <1>7, <1>12, <1>13, NewAttributesLast
  <2>2. CASE req.type # NoType
    <3>1. type # NoType
      BY <1>1, <2>2
    <3>2. QED
      BY <1>12, <2>1, <2>2, <3>1
  <2>3. CASE req.type = NoType
    BY <1>1, <1>12, <1>13, <2>1, <2>3 DEF Agree
  <2>4. QED
    BY <2>2, <2>3
<1>15. /\ Once(row.attrs, Affiliation)
       /\ HasAttribute(row.attrs, Affiliation)
            => GetAttribute(row.attrs, Affiliation) = {aff} \ {Root}
  <2>1. /\ Once(row.attrs, Affiliation)
        /\ ~HasAttribute(new, Affiliation) =>
             /\ HasAttribute(row.attrs, Affiliation) <=> HasAttribute(old.attrs, Affiliation)
             /\ GetAttribute(row.attrs, Affiliation) = GetAttribute(old.attrs, Affiliation)
        /\ HasAttribute(new, Affiliation)
             => GetAttribute(row.attrs, Affiliation) = GetAttribute(new, Affiliation)
    BY <1>6, <1>7, <1>12, <1>13, NewAttributesLast
  <2>2. CASE req.aff # NoAff
    BY <1>12, <2>1, <2>2
  <2>3. CASE req.aff = NoAff
    <3>1. aff = old.aff
      <4>1. Dot # NoAff
        BY DEF Dot, NoAff
      <4>2. QED
        BY <1>2, <2>3, <4>1 DEF RequestedAff
    <3>2. QED
      BY <1>12, <1>13, <2>1, <2>3, <3>1 DEF Agree
  <2>4. QED
    BY <2>2, <2>3
<1>16. QED
  BY <1>5, <1>6, <1>14, <1>15 DEF FixedOnce, Agree

-----------------------------------------------------------------------------
(* The inductive invariant: every row, in the table and in the requests in *)
(* progress, is within the authority it comes from and agrees with its     *)
(* fixed attributes.                                                       *)

RowInv(row, P) == RowFrom(row, P) /\ FixedOnce(row)

RequestInv(c) ==
    /\ c.pc \in {"idle", "lookup", "insert", "update", "delete"}
    /\ c.pc = "lookup" => RowInv(c.caller, c.power)
    /\ c.pc \in {"insert", "update"} => c.id \in IDs /\ RowInv(c.row, c.power)
    /\ c.pc = "update" =>
         /\ c.old \in Identity
         /\ \E req \in Requests :
              /\ c.asked = req.attrs /\ NoFixed(req.attrs)
              /\ c.row = ModifiedRow(c.old, req)

TableInv ==
    /\ users \in [DOMAIN users -> Identity] /\ DOMAIN users \subseteq IDs
    /\ power \in [DOMAIN users -> SUBSET DOMAIN Bootstrap]
    /\ \A id \in DOMAIN users : RowInv(users[id], power[id])

RequestsInv == h = [r \in Handlers |-> h[r]] /\ \A r \in Handlers : RequestInv(h[r])

PolicyInv == TableInv /\ RequestsInv /\ writes \in Nat

\* A configured identity has its own authority.
LEMMA BootstrapFrom ==
    ASSUME NEW id \in DOMAIN Bootstrap
    PROVE  RowInv(Bootstrap[id], {id})
<1>1. PICK row : row = Bootstrap[id]
  OBVIOUS
<1>2. row \in Identity /\ NoDuplicates(row.attrs) /\ Agree(row)
  BY <1>1, PolicyConstantsOK, ConfigurationAgrees
<1>3. row.attrs \in Seq(Attribute) /\ row.aff \in Affiliations \cup {Root}
  BY <1>2 DEF Identity
<1>4. DOMAIN row.attrs = 1..Len(row.attrs)
  BY <1>3
<1>5. ASSUME NEW i \in 1..Len(row.attrs)
      PROVE  /\ HasAttribute(row.attrs, row.attrs[i].name)
             /\ GetAttribute(row.attrs, row.attrs[i].name) = row.attrs[i].value
  <2>1. \A j \in 1..Len(row.attrs) : row.attrs[j].name = row.attrs[i].name => j <= i
    BY <1>2, <1>4 DEF NoDuplicates
  <2>2. QED
    BY <1>3, <2>1, IsLast
<1>6. ASSUME NEW i \in 1..Len(row.attrs) PROVE row.attrs[i] \in Entries({id})
  <2>1. PICK a : a = row.attrs[i]
    OBVIOUS
  <2>2. a \in Attribute /\ HasAttribute(row.attrs, a.name) /\ GetAttribute(row.attrs, a.name) = a.value
    BY <1>3, <1>5, <2>1
  <2>3. a.name = Roles => \A t \in a.value : MayAct(Bootstrap[id], t)
    BY <1>1, <2>2 DEF MayAct
  <2>4. a.value = True => Holds(Bootstrap[id], a.name)
    BY <1>1, <2>2 DEF Holds
  <2>5. a.name = RegistrarAttr =>
          \A p \in a.value : \A n \in Path : Matches(p, n) => MayRegister(Bootstrap[id], n)
    BY <1>1, <2>2 DEF MayRegister, canRegisterAttr
  <2>6. HasAttribute(Bootstrap[id].attrs, a.name)
    BY <1>1, <2>2
  <2>7. EntryFrom(a, {id})
    BY <2>3, <2>4, <2>5, <2>6 DEF EntryFrom
  <2>8. QED
    BY <2>1, <2>2, <2>7 DEF Entries
<1>7. row.attrs \in Seq(Entries({id}))
  BY <1>3, <1>6, SeqOfElements
<1>8. Within(row.aff, row.aff)
  <2>1. row.aff \in Seq(Parts)
    BY <1>3, AffiliationType
  <2>2. QED
    BY <2>1, PrefixElements DEF Within
<1>9. RowFrom(row, {id})
  BY <1>1, <1>2, <1>7, <1>8 DEF RowFrom
<1>10. FixedOnce(row)
  BY <1>2, <1>4 DEF FixedOnce, Once, NoDuplicates
<1>11. QED
  BY <1>1, <1>9, <1>10 DEF RowInv

LEMMA InitInv == Init => PolicyInv
<1> SUFFICES ASSUME Init PROVE PolicyInv
  OBVIOUS
<1>1. TableInv
  <2>1. users = Bootstrap /\ power = [id \in DOMAIN Bootstrap |-> {id}]
    BY DEF Init
  <2>2. \A id \in DOMAIN users : RowInv(users[id], power[id])
    BY <2>1, BootstrapFrom
  <2>3. power \in [DOMAIN users -> SUBSET DOMAIN Bootstrap]
    BY <2>1
  <2>4. QED
    BY <2>1, <2>2, <2>3, PolicyConstantsOK DEF TableInv
<1>2. RequestsInv
  <2>1. RequestInv(Idle)
    BY DEF RequestInv, Idle
  <2>2. h = [r \in Handlers |-> Idle]
    BY DEF Init
  <2>3. QED
    BY <2>1, <2>2 DEF RequestsInv
<1>3. QED
  BY <1>1, <1>2 DEF PolicyInv, Init

\* Only one request takes a step.
LEMMA OneRequest ==
    ASSUME RequestsInv, NEW r \in Handlers, NEW c, RequestInv(c), h' = [h EXCEPT ![r] = c]
    PROVE  RequestsInv'
<1>1. \A q \in Handlers : h'[q] = IF q = r THEN c ELSE h[q]
  BY DEF RequestsInv
<1>2. h' = [q \in Handlers |-> h'[q]]
  BY DEF RequestsInv
<1>3. \A q \in Handlers : RequestInv(h'[q])
  BY <1>1 DEF RequestsInv
<1>4. QED
  BY <1>2, <1>3 DEF RequestsInv

LEMMA IdleInv == RequestInv(Idle)
  BY DEF RequestInv, Idle

LEMMA AuthenticationInv ==
    ASSUME PolicyInv, NEW r \in Handlers, TokenAuthentication(r) PROVE PolicyInv'
<1>1. PICK id \in DOMAIN users :
        h' = [h EXCEPT ![r] = [pc |-> "lookup", id |-> id, caller |-> users[id],
                               power |-> power[id]]]
  BY DEF TokenAuthentication
<1>2. PICK c : c = [pc |-> "lookup", id |-> id, caller |-> users[id], power |-> power[id]]
  OBVIOUS
<1>3. c.pc = "lookup" /\ c.caller = users[id] /\ c.power = power[id]
  BY <1>2
<1>4. RequestInv(c)
  BY <1>3 DEF RequestInv, PolicyInv, TableInv
<1>5. RequestsInv'
  BY <1>1, <1>2, <1>4, OneRequest DEF PolicyInv
<1>6. QED
  BY <1>5 DEF PolicyInv, TableInv, TokenAuthentication

LEMMA RegisterLookupInv ==
    ASSUME PolicyInv, NEW r \in Handlers, RegisterLookup(r) PROVE PolicyInv'
<1>1. PICK req \in RequestsBy(h[r].id) :
        /\ canRegister(h[r].caller, RegisteredRow(h[r].caller, req), req.attrs)
        /\ h' = [h EXCEPT ![r] = [pc |-> "insert", id |-> req.id,
                                  row |-> RegisteredRow(h[r].caller, req), power |-> h[r].power]]
  BY DEF RegisterLookup
<1>2. PICK c : c = [pc |-> "insert", id |-> req.id,
                    row |-> RegisteredRow(h[r].caller, req), power |-> h[r].power]
  OBVIOUS
<1>3. c.pc = "insert" /\ c.id = req.id /\ c.power = h[r].power
      /\ c.row = RegisteredRow(h[r].caller, req)
  BY <1>2
<1>4. req \in Requests
  BY DEF RequestsBy
<1>5. RowFrom(h[r].caller, h[r].power) /\ h[r].caller \in Identity
  BY DEF RegisterLookup, PolicyInv, RequestsInv, RequestInv, RowInv, RowFrom
<1>6. RowInv(c.row, c.power)
  BY <1>1, <1>3, <1>4, <1>5, RegisteredFrom, RegisteredFixed DEF RowInv
<1>7. RequestInv(c)
  BY <1>3, <1>4, <1>6, RequestType DEF RequestInv
<1>8. RequestsInv'
  BY <1>1, <1>2, <1>7, OneRequest DEF PolicyInv
<1>9. QED
  BY <1>8 DEF PolicyInv, TableInv, RegisterLookup

LEMMA ModifyLookupInv ==
    ASSUME PolicyInv, NEW r \in Handlers, ModifyLookup(r) PROVE PolicyInv'
<1>1. PICK req \in RequestsBy(h[r].id) :
        /\ req.id \in DOMAIN users
        /\ CanModifyUser(h[r].caller, req, users[req.id])
        /\ h' = [h EXCEPT ![r] = [pc |-> "update", id |-> req.id, asked |-> req.attrs,
                                  old |-> users[req.id],
                                  row |-> ModifiedRow(users[req.id], req),
                                  power |-> h[r].power \cup power[req.id]]]
  BY DEF ModifyLookup
<1>2. PICK c : c = [pc |-> "update", id |-> req.id, asked |-> req.attrs, old |-> users[req.id],
                    row |-> ModifiedRow(users[req.id], req),
                    power |-> h[r].power \cup power[req.id]]
  OBVIOUS
<1>3. /\ c.pc = "update" /\ c.id = req.id /\ c.asked = req.attrs /\ c.old = users[req.id]
      /\ c.row = ModifiedRow(users[req.id], req) /\ c.power = h[r].power \cup power[req.id]
  BY <1>2
<1>4. req \in Requests
  BY DEF RequestsBy
<1>5. RowFrom(h[r].caller, h[r].power) /\ h[r].caller \in Identity
  BY DEF ModifyLookup, PolicyInv, RequestsInv, RequestInv, RowInv, RowFrom
<1>6. RowFrom(users[req.id], power[req.id]) /\ FixedOnce(users[req.id])
      /\ users[req.id] \in Identity
  BY <1>1 DEF PolicyInv, TableInv, RowInv, RowFrom
<1>7. NoFixed(req.attrs)
  BY <1>1, <1>4, <1>5, RequestType, NoFixedAsked DEF CanModifyUser
<1>8. RowInv(c.row, c.power)
  BY <1>1, <1>3, <1>4, <1>5, <1>6, <1>7, ModifiedFrom, ModifiedFixed DEF RowInv
<1>9. RequestInv(c)
  BY <1>3, <1>4, <1>6, <1>7, <1>8, RequestType DEF RequestInv
<1>10. RequestsInv'
  BY <1>1, <1>2, <1>9, OneRequest DEF PolicyInv
<1>11. QED
  BY <1>10 DEF PolicyInv, TableInv, ModifyLookup

LEMMA InsertInv ==
    ASSUME PolicyInv, NEW r \in Handlers, InsertUser(r) PROVE PolicyInv'
<1>1. RequestsInv'
  BY IdleInv, OneRequest DEF PolicyInv, InsertUser
<1>2. h[r].id \in IDs /\ RowInv(h[r].row, h[r].power) /\ h[r].row \in Identity
      /\ h[r].power \in SUBSET DOMAIN Bootstrap
  BY DEF InsertUser, PolicyInv, RequestsInv, RequestInv, RowInv, RowFrom
<1>3. DOMAIN users' = DOMAIN users \cup {h[r].id}
      /\ \A id \in DOMAIN users' : /\ users'[id] = IF id = h[r].id THEN h[r].row ELSE users[id]
                                   /\ power'[id] = IF id = h[r].id THEN h[r].power ELSE power[id]
  BY DEF InsertUser, Put, PolicyInv, TableInv
<1>4. users' \in [DOMAIN users' -> Identity]
  BY <1>2 DEF InsertUser, Put, PolicyInv, TableInv
<1>5. power' \in [DOMAIN users' -> SUBSET DOMAIN Bootstrap]
  BY <1>2 DEF InsertUser, Put, PolicyInv, TableInv
<1>6. TableInv'
  BY <1>2, <1>3, <1>4, <1>5 DEF PolicyInv, TableInv
<1>7. QED
  BY <1>1, <1>6 DEF PolicyInv, InsertUser

LEMMA UpdateInv ==
    ASSUME PolicyInv, NEW r \in Handlers, UpdateUser(r) PROVE PolicyInv'
<1>1. RequestsInv'
  BY IdleInv, OneRequest DEF PolicyInv, UpdateUser
<1>2. h[r].id \in IDs /\ RowInv(h[r].row, h[r].power) /\ h[r].row \in Identity
      /\ h[r].power \in SUBSET DOMAIN Bootstrap
  BY DEF UpdateUser, PolicyInv, RequestsInv, RequestInv, RowInv, RowFrom
<1>3. DOMAIN users' = DOMAIN users
      /\ \A id \in DOMAIN users' : /\ users'[id] = IF id = h[r].id THEN h[r].row ELSE users[id]
                                   /\ power'[id] = IF id = h[r].id THEN h[r].power ELSE power[id]
  BY DEF UpdateUser, PolicyInv, TableInv
<1>4. users' \in [DOMAIN users' -> Identity]
  BY <1>2 DEF UpdateUser, PolicyInv, TableInv
<1>5. power' \in [DOMAIN users' -> SUBSET DOMAIN Bootstrap]
  BY <1>2 DEF UpdateUser, PolicyInv, TableInv
<1>6. TableInv'
  BY <1>2, <1>3, <1>4, <1>5 DEF PolicyInv, TableInv
<1>7. QED
  BY <1>1, <1>6 DEF PolicyInv, UpdateUser

LEMMA DeleteInv ==
    ASSUME PolicyInv, NEW r \in Handlers, DeleteLookup(r) \/ DeleteUser(r) \/ Fail(r)
    PROVE  PolicyInv'
<1>1. CASE DeleteLookup(r)
  <2>1. PICK id : h' = [h EXCEPT ![r] = [pc |-> "delete", id |-> id]]
    BY <1>1 DEF DeleteLookup
  <2>2. RequestInv([pc |-> "delete", id |-> id])
    BY DEF RequestInv
  <2>3. RequestsInv'
    BY <2>1, <2>2, OneRequest DEF PolicyInv
  <2>4. QED
    BY <1>1, <2>3 DEF PolicyInv, TableInv, DeleteLookup
<1>2. CASE DeleteUser(r)
  <2>1. RequestsInv'
    BY <1>2, IdleInv, OneRequest DEF PolicyInv, DeleteUser
  <2>2. /\ DOMAIN users' = DOMAIN users \ {h[r].id} /\ DOMAIN power' = DOMAIN users'
        /\ \A id \in DOMAIN users' : users'[id] = users[id] /\ power'[id] = power[id]
        /\ users' = [id \in DOMAIN users' |-> users'[id]]
        /\ power' = [id \in DOMAIN users' |-> power'[id]]
    BY <1>2 DEF DeleteUser, Without, PolicyInv, TableInv
  <2>3. TableInv'
    BY <2>2 DEF PolicyInv, TableInv
  <2>4. QED
    BY <1>2, <2>1, <2>3 DEF PolicyInv, DeleteUser
<1>3. CASE Fail(r)
  <2>1. RequestsInv'
    BY <1>3, IdleInv, OneRequest DEF PolicyInv, Fail
  <2>2. QED
    BY <1>3, <2>1 DEF PolicyInv, TableInv, Fail
<1>4. QED
  BY <1>1, <1>2, <1>3

LEMMA NextInv == PolicyInv /\ [Next]_vars => PolicyInv'
<1> SUFFICES ASSUME PolicyInv, [Next]_vars PROVE PolicyInv'
  OBVIOUS
<1>1. CASE UNCHANGED vars
  BY <1>1 DEF vars, PolicyInv, TableInv, RequestsInv
<1>2. CASE Next
  <2>1. PICK r \in Handlers :
          \/ TokenAuthentication(r) \/ RegisterLookup(r) \/ InsertUser(r) \/ ModifyLookup(r)
          \/ UpdateUser(r) \/ DeleteLookup(r) \/ DeleteUser(r) \/ Fail(r)
    BY <1>2 DEF Next
  <2>2. QED
    BY <2>1, AuthenticationInv, RegisterLookupInv, InsertInv, ModifyLookupInv, UpdateInv, DeleteInv
<1>3. QED
  BY <1>1, <1>2

LEMMA SpecInv == Spec => []PolicyInv
  BY InitInv, NextInv, PTL DEF Spec

-----------------------------------------------------------------------------
(* The invariants.                                                         *)

\* Every identity has an affiliation that is the root or exists, whatever
\* registrations, modifications and removals run at the same time.
THEOREM PolicyTypes == Spec => []TypeOK
<1>1. PolicyInv => TypeOK
  BY DEF PolicyInv, TableInv, RequestsInv, RequestInv, Identity, TypeOK
<1>2. QED
  BY <1>1, SpecInv, PTL

LEMMA NamesArePaths ==
    ASSUME TableInv
    PROVE  AllNames \subseteq Path
<1>1. SUFFICES ASSUME NEW id \in DOMAIN users,
                      NEW n \in {users[id].attrs[i].name : i \in DOMAIN users[id].attrs}
                                   \cup GetAttribute(users[id].attrs, RegistrarAttr)
               PROVE  n \in Path
  BY DEF AllNames, Rows
<1>2. PICK attrs : attrs = users[id].attrs
  OBVIOUS
<1>3. attrs \in Seq(Attribute)
  BY <1>2 DEF TableInv, Identity
<1>4. CASE n \in {attrs[i].name : i \in DOMAIN attrs}
  <2>1. PICK i \in DOMAIN attrs : n = attrs[i].name
    BY <1>4
  <2>2. attrs[i] \in Attribute
    BY <1>3, <2>1
  <2>3. QED
    BY <2>1, <2>2 DEF Attribute
<1>5. CASE n \in GetAttribute(attrs, RegistrarAttr)
  <2>1. HasAttribute(attrs, RegistrarAttr)
    BY <1>3, <1>5, NoEntry
  <2>2. PICK i \in 1..Len(attrs) : GetAttribute(attrs, RegistrarAttr) = attrs[i].value
    BY <1>3, <2>1, LastEntry
  <2>3. attrs[i] \in Attribute
    BY <1>3, <2>2
  <2>4. QED
    BY <1>5, <2>2, <2>3 DEF Attribute
<1>6. QED
  BY <1>1, <1>2, <1>4, <1>5

\* Along any chain of registrations and modifications nobody gets a type, a
\* role, an attribute or an affiliation beyond those that the configuration
\* gave to the registrars the authority comes from.
THEOREM NobodyEscalates == Spec => []NoEscalation
<1>1. ASSUME TableInv PROVE NoEscalation
  <2>1. SUFFICES ASSUME NEW id \in DOMAIN users
                 PROVE
          /\ \E b \in power[id] : MayAct(Bootstrap[b], users[id].type)
                                    \/ Bootstrap[b].type = users[id].type
          /\ \E b \in power[id] : Within(Bootstrap[b].aff, users[id].aff)
          /\ \A t \in GetAttribute(users[id].attrs, Roles) :
               \E b \in power[id] : MayAct(Bootstrap[b], t)
          /\ \A a \in BooleanAttributes :
               Holds(users[id], a) => \E b \in power[id] : Holds(Bootstrap[b], a)
          /\ \A n \in AllNames :
               MayRegister(users[id], n) => \E b \in power[id] : MayRegister(Bootstrap[b], n)
          /\ \A i \in DOMAIN users[id].attrs :
               users[id].attrs[i].name \in FixedAttributes
                 \/ \E b \in power[id] : \/ MayRegister(Bootstrap[b], users[id].attrs[i].name)
                                         \/ HasAttribute(Bootstrap[b].attrs, users[id].attrs[i].name)
    BY DEF NoEscalation
  <2>2. PICK row, P : row = users[id] /\ P = power[id]
    OBVIOUS
  <2>3. RowFrom(row, P)
    BY <1>1, <2>2 DEF TableInv, RowInv
  <2>4. \A t \in GetAttribute(row.attrs, Roles) : MayAct(row, t)
    BY DEF MayAct
  <2>5. \A i \in DOMAIN row.attrs : row.attrs[i] \in Entries(P)
    BY <2>3 DEF RowFrom
  <2>6. /\ \A t \in GetAttribute(row.attrs, Roles) : \E b \in P : MayAct(Bootstrap[b], t)
        /\ \A a \in BooleanAttributes : Holds(row, a) => \E b \in P : Holds(Bootstrap[b], a)
        /\ \A n \in AllNames : MayRegister(row, n) => \E b \in P : MayRegister(Bootstrap[b], n)
    BY <1>1, <2>3, <2>4, RowAuthority, NamesArePaths
  <2>7. \A i \in DOMAIN row.attrs :
          row.attrs[i].name \in FixedAttributes
            \/ \E b \in P : \/ MayRegister(Bootstrap[b], row.attrs[i].name)
                            \/ HasAttribute(Bootstrap[b].attrs, row.attrs[i].name)
    BY <2>5 DEF Entries, EntryFrom
  <2>8. /\ \E b \in P : MayAct(Bootstrap[b], row.type) \/ Bootstrap[b].type = row.type
        /\ \E b \in P : Within(Bootstrap[b].aff, row.aff)
    BY <2>3 DEF RowFrom
  <2>9. QED
    BY <2>2, <2>6, <2>7, <2>8
<1>2. PolicyInv => NoEscalation
  BY <1>1 DEF PolicyInv
<1>3. QED
  BY <1>2, SpecInv, PTL

\* The attributes hf.Type and hf.Affiliation of a row, which go into enrollment
\* certificates, say what its columns say.
THEOREM RowsAgree == Spec => []FixedAttributesAgree
<1>1. PolicyInv => FixedAttributesAgree
  BY DEF PolicyInv, TableInv, RowInv, FixedOnce, FixedAttributesAgree, Rows
<1>2. QED
  BY <1>1, SpecInv, PTL

-----------------------------------------------------------------------------
(* The action properties.                                                  *)

\* The authority in a row that a request registers was in that of its caller.
LEMMA RegisteredAuthority ==
    ASSUME NEW caller \in Identity, NEW req \in Requests,
           canRegister(caller, RegisteredRow(caller, req), req.attrs),
           NEW row, row = RegisteredRow(caller, req)
    PROVE  /\ \A a \in BooleanAttributes : Holds(row, a) => Holds(caller, a)
           /\ \A t : MayAct(row, t) => MayAct(caller, t)
           /\ \A n \in Path : MayRegister(row, n) => MayRegister(caller, n)
<1>1. req.attrs \in Seq(Attribute)
      /\ CanRegisterRequestedAttributes(req.attrs, <<>>, caller.attrs)
  BY RequestType DEF canRegister
<1>2. ASSUME NEW n, n \notin FixedAttributes, GetAttribute(row.attrs, n) # {}
      PROVE  Given(caller, n, GetAttribute(row.attrs, n))
  <2>1. PICK type, aff : type = normalizeType(caller, req) /\ aff = RequestedAff(req.aff, caller.aff)
    OBVIOUS
  <2>2. PICK f, a, b : /\ f = Fixed(type, aff) /\ a = Attr(Type, {type} \ {NoType})
                       /\ b = Attr(Affiliation, {aff} \ {Root})
    OBVIOUS
  <2>3. row.attrs = req.attrs \o f
    BY <2>1, <2>2 DEF RegisteredRow
  <2> DEFINE E == Attribute \cup {a, b}
  <2>4. f \in Seq(E) /\ Len(f) = 2 /\ f[1] = a /\ f[2] = b /\ req.attrs \in Seq(E)
    <3>1. f = <<a, b>>
      BY <2>2 DEF Fixed
    <3>2. f \in Seq(E) /\ Len(f) = 2 /\ f[1] = a /\ f[2] = b
      BY <3>1
    <3>3. req.attrs \in Seq(E)
      BY <1>1, SeqMonotonic
    <3>4. QED
      BY <3>2, <3>3
  <2> HIDE DEF E
  <2>5. ~HasAttribute(f, n)
    <3>1. a.name = Type /\ b.name = Affiliation
      BY <2>2 DEF Attr
    <3>2. \A i \in 1..Len(f) : f[i].name # n
      BY <1>2, <2>4, <3>1, Names
    <3>3. QED
      BY <2>4, <3>2, NoEntry
  <2>6. GetAttribute(row.attrs, n) = GetAttribute(req.attrs, n)
    BY <2>3, <2>4, <2>5, ConcatLeft
  <2>7. HasAttribute(req.attrs, n)
    BY <1>1, <1>2, <2>6, NoEntry
  <2>8. PICK i \in 1..Len(req.attrs) :
          req.attrs[i].name = n /\ GetAttribute(req.attrs, n) = req.attrs[i].value
    BY <1>1, <2>7, LastEntry
  <2>9. QED
    BY <1>1, <2>6, <2>8, Authorized
<1>3. QED
  BY <1>2, Names DEF Holds, MayAct, MayRegister, canRegisterAttr, Given

\* The authority in a row after a modification was in the row before, or in
\* that of the caller.
LEMMA ModifiedAuthority ==
    ASSUME NEW caller \in Identity, NEW old \in Identity, NEW req \in Requests,
           CanModifyUser(caller, req, old), NEW row, row = ModifiedRow(old, req)
    PROVE  /\ \A a \in BooleanAttributes : Holds(row, a) => Holds(caller, a) \/ Holds(old, a)
           /\ \A t : MayAct(row, t) => MayAct(caller, t) \/ MayAct(old, t)
           /\ \A n \in Path : MayRegister(row, n) => MayRegister(caller, n) \/ MayRegister(old, n)
<1>1. /\ req.attrs \in Seq(Attribute) /\ old.attrs \in Seq(Attribute)
      /\ CanRegisterRequestedAttributes(req.attrs, old.attrs, caller.attrs)
  BY RequestType DEF CanModifyUser, Identity
<1>2. ASSUME NEW n, n \notin FixedAttributes, GetAttribute(row.attrs, n) # {}
      PROVE  \/ GetAttribute(row.attrs, n) = GetAttribute(old.attrs, n)
             \/ Given(caller, n, GetAttribute(row.attrs, n))
  <2>1. PICK type, aff : /\ type = IF req.type = NoType THEN old.type ELSE req.type
                         /\ aff = RequestedAff(req.aff, old.aff)
    OBVIOUS
  <2>2. PICK a, b : a = Attr(Affiliation, {aff} \ {Root}) /\ b = Attr(Type, {type})
    OBVIOUS
  <2>3. PICK x, y : /\ x = IF req.aff = NoAff THEN <<>> ELSE <<a>>
                    /\ y = IF req.type = NoType THEN <<>> ELSE <<b>>
    OBVIOUS
  <2>4. row.attrs = getNewAttributes(old.attrs, req.attrs \o (x \o y))
    BY <2>1, <2>2, <2>3 DEF ModifiedRow
  <2> DEFINE E == Attribute \cup {a, b}
  <2>5. x \in Seq({a, b}) /\ y \in Seq({a, b}) /\ req.attrs \in Seq(E) /\ old.attrs \in Seq(E)
    <3>1. << >> \in Seq({a, b}) /\ <<a>> \in Seq({a, b}) /\ <<b>> \in Seq({a, b})
      BY EmptySeq
    <3>2. req.attrs \in Seq(E) /\ old.attrs \in Seq(E)
      BY <1>1, SeqMonotonic
    <3> HIDE DEF E
    <3>3. QED
      BY <2>3, <3>1, <3>2, Zenon
  <2>6. PICK f : f = x \o y
    OBVIOUS
  <2>7. f \in Seq({a, b}) /\ f \in Seq(E)
    <3>1. f \in Seq({a, b})
      BY <2>5, <2>6, ConcatProperties
    <3>2. QED
      BY <3>1, SeqMonotonic
  <2>8. PICK new : new = req.attrs \o f
    OBVIOUS
  <2> HIDE DEF E
  <2>9. /\ new \in Seq(E) /\ Len(new) = Len(req.attrs) + Len(f)
        /\ \A i \in 1..Len(req.attrs) + Len(f) :
             new[i] = IF i <= Len(req.attrs) THEN req.attrs[i] ELSE f[i - Len(req.attrs)]
    BY <2>5, <2>7, <2>8, ConcatProperties
  <2>10. CASE GetAttribute(row.attrs, n) = GetAttribute(old.attrs, n)
    BY <2>10
  <2>11. CASE GetAttribute(row.attrs, n) # GetAttribute(old.attrs, n)
    <3>1. PICK i \in 1..Len(new) : new[i].name = n /\ GetAttribute(row.attrs, n) = new[i].value
      <4>1. \/ GetAttribute(row.attrs, n) \in {GetAttribute(old.attrs, n), {}}
            \/ \E i \in 1..Len(new) :
                 new[i].name = n /\ GetAttribute(row.attrs, n) = new[i].value
        <5>1. GetFrom(getNewAttributes(old.attrs, new), old.attrs, new, n)
          BY <2>5, <2>9, NewAttributesFrom
        <5>2. row.attrs = getNewAttributes(old.attrs, new)
          BY <2>4, <2>6, <2>8
        <5>3. GetFrom(row.attrs, old.attrs, new, n)
          BY <5>1, <5>2, Zenon
        <5>4. QED
          BY <5>3 DEF GetFrom
      <4>2. QED
        BY <1>2, <2>11, <4>1
    <3>2. a.name = Affiliation /\ b.name = Type
      BY <2>2 DEF Attr
    <3>3. \A j \in 1..Len(f) : f[j].name \in FixedAttributes
      <4>1. \A j \in 1..Len(f) : f[j] \in {a, b}
        BY <2>7, ElementOfSeq
      <4>2. QED
        BY <3>2, <4>1, Names
    <3>4. i \in 1..Len(req.attrs) /\ new[i] = req.attrs[i]
      <4>1. Len(req.attrs) \in Nat /\ Len(f) \in Nat
        BY <1>1, <2>7, LenProperties
      <4>2. CASE i <= Len(req.attrs)
        BY <2>9, <3>1, <4>1, <4>2
      <4>3. CASE ~(i <= Len(req.attrs))
        <5>1. i - Len(req.attrs) \in 1..Len(f) /\ new[i] = f[i - Len(req.attrs)]
          BY <2>9, <3>1, <4>1, <4>3
        <5>2. QED
          BY <1>2, <3>1, <3>3, <5>1
      <4>4. QED
        BY <4>2, <4>3
    <3>5. QED
      BY <1>1, <3>1, <3>4, Authorized
  <2>12. QED
    BY <2>10, <2>11
<1>3. ASSUME NEW a \in BooleanAttributes, Holds(row, a) PROVE Holds(caller, a) \/ Holds(old, a)
  BY <1>2, <1>3, Names DEF Holds, Given
<1>4. ASSUME NEW t, MayAct(row, t) PROVE MayAct(caller, t) \/ MayAct(old, t)
  BY <1>2, <1>4, Names DEF MayAct, Given
<1>5. ASSUME NEW n \in Path, MayRegister(row, n)
      PROVE  MayRegister(caller, n) \/ MayRegister(old, n)
  BY <1>2, <1>5, Names DEF MayRegister, canRegisterAttr, Given
<1>6. QED
  BY <1>3, <1>4, <1>5

\* The rows in the table and in the requests.
AllRows == Rows \cup UNION {Kept(r) : r \in Handlers}

\* Where the rows of the next state come from.
LEMMA RowsFrom ==
    ASSUME PolicyInv, [Next]_vars, NEW row \in AllRows'
    PROVE  \/ row \in AllRows
           \/ \E caller \in AllRows, req \in Requests :
                /\ caller \in Identity /\ row = RegisteredRow(caller, req)
                /\ canRegister(caller, RegisteredRow(caller, req), req.attrs)
           \/ \E caller, old \in AllRows, req \in Requests :
                /\ caller \in Identity /\ old \in Identity
                /\ row = ModifiedRow(old, req) /\ CanModifyUser(caller, req, old)
<1>1. CASE UNCHANGED vars
  BY <1>1 DEF vars, AllRows, Rows, Kept
<1>2. CASE Next
  <2>1. PICK r \in Handlers :
          \/ TokenAuthentication(r) \/ RegisterLookup(r) \/ InsertUser(r) \/ ModifyLookup(r)
          \/ UpdateUser(r) \/ DeleteLookup(r) \/ DeleteUser(r) \/ Fail(r)
    BY <1>2 DEF Next
  <2>2. PICK c : h' = [h EXCEPT ![r] = c]
    BY <2>1 DEF TokenAuthentication, RegisterLookup, InsertUser, ModifyLookup, UpdateUser,
                DeleteLookup, DeleteUser, Fail
  <2>3. h'[r] = c /\ \A q \in Handlers : q # r => h'[q] = h[q]
    BY <2>2 DEF PolicyInv, RequestsInv
  <2>4. ASSUME NEW q \in Handlers, q # r, row \in Kept(q)' PROVE row \in AllRows
    BY <2>3, <2>4 DEF Kept, AllRows
  <2>5. /\ h[r].pc = "lookup" => h[r].caller \in AllRows
        /\ h[r].pc \in {"insert", "update"} => h[r].row \in AllRows
        /\ \A id \in DOMAIN users : users[id] \in AllRows
    BY DEF AllRows, Rows, Kept
  <2>6. h[r].pc = "lookup" => h[r].caller \in Identity
    BY DEF PolicyInv, RequestsInv, RequestInv, RowInv, RowFrom
  <2>7. ASSUME row \in Rows' PROVE row \in AllRows
    <3>1. PICK id \in DOMAIN users' : row = users'[id]
      BY <2>7 DEF Rows
    <3>2. CASE UNCHANGED users
      BY <2>5, <3>1, <3>2
    <3>3. CASE InsertUser(r)
      <4>1. row = h[r].row \/ (id \in DOMAIN users /\ row = users[id])
        BY <3>1, <3>3 DEF InsertUser, Put
      <4>2. QED
        BY <2>5, <3>3, <4>1 DEF InsertUser
    <3>4. CASE UpdateUser(r)
      <4>1. id \in DOMAIN users /\ (row = h[r].row \/ row = users[id])
        BY <3>1, <3>4 DEF UpdateUser, PolicyInv, TableInv
      <4>2. QED
        BY <2>5, <3>4, <4>1 DEF UpdateUser
    <3>5. CASE DeleteUser(r)
      <4>1. id \in DOMAIN users /\ row = users[id]
        BY <3>1, <3>5 DEF DeleteUser, Without
      <4>2. QED
        BY <2>5, <4>1
    <3>6. QED
      BY <2>1, <3>2, <3>3, <3>4, <3>5 DEF TokenAuthentication, RegisterLookup, ModifyLookup,
                                          DeleteLookup, Fail
  <2>8. CASE row \in Kept(r)'
    <3>1. \/ c.pc = "lookup" /\ row = c.caller
          \/ c.pc \in {"insert", "update"} /\ row = c.row
      BY <2>3, <2>8 DEF Kept
    <3>2. CASE TokenAuthentication(r)
      <4>1. PICK id \in DOMAIN users :
              c = [pc |-> "lookup", id |-> id, caller |-> users[id], power |-> power[id]]
        BY <2>3, <3>2 DEF TokenAuthentication, PolicyInv, RequestsInv
      <4>2. row = users[id]
        BY <3>1, <4>1
      <4>3. QED
        BY <2>5, <4>1, <4>2
    <3>3. CASE RegisterLookup(r)
      <4>1. PICK req \in RequestsBy(h[r].id) :
              /\ canRegister(h[r].caller, RegisteredRow(h[r].caller, req), req.attrs)
              /\ c = [pc |-> "insert", id |-> req.id, row |-> RegisteredRow(h[r].caller, req),
                      power |-> h[r].power]
        BY <2>3, <3>3 DEF RegisterLookup, PolicyInv, RequestsInv
      <4>2. row = RegisteredRow(h[r].caller, req) /\ req \in Requests
        BY <3>1, <4>1 DEF RequestsBy
      <4>3. h[r].caller \in AllRows /\ h[r].caller \in Identity
        BY <2>5, <2>6, <3>3 DEF RegisterLookup
      <4>4. QED
        BY <4>1, <4>2, <4>3
    <3>4. CASE ModifyLookup(r)
      <4>1. PICK req \in RequestsBy(h[r].id) :
              /\ req.id \in DOMAIN users
              /\ CanModifyUser(h[r].caller, req, users[req.id])
              /\ c = [pc |-> "update", id |-> req.id, asked |-> req.attrs,
                      old |-> users[req.id], row |-> ModifiedRow(users[req.id], req),
                      power |-> h[r].power \cup power[req.id]]
        BY <2>3, <3>4 DEF ModifyLookup, PolicyInv, RequestsInv
      <4>2. row = ModifiedRow(users[req.id], req) /\ req \in Requests
        BY <3>1, <4>1 DEF RequestsBy
      <4>3. /\ h[r].caller \in AllRows /\ h[r].caller \in Identity
            /\ users[req.id] \in AllRows /\ users[req.id] \in Identity
        BY <2>5, <2>6, <3>4, <4>1 DEF ModifyLookup, PolicyInv, TableInv
      <4>4. QED
        BY <4>1, <4>2, <4>3
    <3>5. CASE InsertUser(r) \/ UpdateUser(r) \/ DeleteUser(r) \/ Fail(r)
      <4>1. c.pc = "idle"
        BY <2>3, <3>5 DEF InsertUser, UpdateUser, DeleteUser, Fail, Idle, PolicyInv, RequestsInv
      <4>2. QED
        BY <3>1, <4>1
    <3>6. CASE DeleteLookup(r)
      <4>1. c.pc = "delete"
        BY <2>3, <3>6 DEF DeleteLookup, PolicyInv, RequestsInv
      <4>2. QED
        BY <3>1, <4>1
    <3>7. QED
      BY <2>1, <3>2, <3>3, <3>4, <3>5, <3>6
  <2>9. QED
    BY <2>4, <2>7, <2>8 DEF AllRows
<1>3. QED
  BY <1>1, <1>2


\* What no row has, no row of the next state has.
LEMMA AuthorityStays ==
    ASSUME PolicyInv, [Next]_vars
    PROVE  /\ \A a \in BooleanAttributes :
                (\A row \in AllRows : ~Holds(row, a)) => \A row \in AllRows' : ~Holds(row, a)
           /\ \A t : (\A row \in AllRows : ~MayAct(row, t)) => \A row \in AllRows' : ~MayAct(row, t)
           /\ \A n \in Path :
                (\A row \in AllRows : ~MayRegister(row, n))
                    => \A row \in AllRows' : ~MayRegister(row, n)
<1>1. ASSUME NEW row \in AllRows'
      PROVE  \E x, y \in AllRows :
               /\ \A a \in BooleanAttributes : Holds(row, a) => Holds(x, a) \/ Holds(y, a)
               /\ \A t : MayAct(row, t) => MayAct(x, t) \/ MayAct(y, t)
               /\ \A n \in Path : MayRegister(row, n) => MayRegister(x, n) \/ MayRegister(y, n)
  <2>1. CASE row \in AllRows
    BY <2>1
  <2>2. CASE \E caller \in AllRows, req \in Requests :
               /\ caller \in Identity /\ row = RegisteredRow(caller, req)
               /\ canRegister(caller, RegisteredRow(caller, req), req.attrs)
    BY <2>2, RegisteredAuthority
  <2>3. CASE \E caller, old \in AllRows, req \in Requests :
               /\ caller \in Identity /\ old \in Identity
               /\ row = ModifiedRow(old, req) /\ CanModifyUser(caller, req, old)
    BY <2>3, ModifiedAuthority
  <2>4. QED
    BY <1>1, <2>1, <2>2, <2>3, RowsFrom
<1>2. QED
  BY <1>1

\* Authority is not made from nothing: registerUser and processPutRequest give
\* boolean attributes, roles and the right to register attributes only from
\* rows that have them, those that requests in progress read long ago included.
THEOREM AuthorityFromNothing == Spec => NoAuthorityFromNothing
<1> DEFINE Named == AllNames \subseteq Path
<1>1. ASSUME PolicyInv, Named', [Next]_vars
      PROVE  /\ \A a \in BooleanAttributes :
                  Extinct(LAMBDA row : Holds(row, a)) => Extinct(LAMBDA row : Holds(row, a))'
             /\ \A t \in AllTypes' :
                  Extinct(LAMBDA row : MayAct(row, t)) => Extinct(LAMBDA row : MayAct(row, t))'
             /\ \A n \in AllNames' :
                  Extinct(LAMBDA row : MayRegister(row, n))
                      => Extinct(LAMBDA row : MayRegister(row, n))'
  <2>1. AllNames' \subseteq Path
    BY <1>1
  <2>2. /\ \A a \in BooleanAttributes :
             (\A row \in AllRows : ~Holds(row, a)) => \A row \in AllRows' : ~Holds(row, a)
        /\ \A t : (\A row \in AllRows : ~MayAct(row, t)) => \A row \in AllRows' : ~MayAct(row, t)
        /\ \A n \in Path :
             (\A row \in AllRows : ~MayRegister(row, n))
                 => \A row \in AllRows' : ~MayRegister(row, n)
    BY <1>1, AuthorityStays
  <2>3. ASSUME NEW a \in BooleanAttributes, Extinct(LAMBDA row : Holds(row, a))
        PROVE  Extinct(LAMBDA row : Holds(row, a))'
    <3>1. \A row \in AllRows : ~Holds(row, a)
      BY <2>3 DEF Extinct, AllRows
    <3>2. \A row \in AllRows' : ~Holds(row, a)
      BY <2>2, <3>1
    <3>3. QED
      BY <3>2 DEF Extinct, AllRows
  <2>4. ASSUME NEW t \in AllTypes', Extinct(LAMBDA row : MayAct(row, t))
        PROVE  Extinct(LAMBDA row : MayAct(row, t))'
    <3>1. \A row \in AllRows : ~MayAct(row, t)
      BY <2>4 DEF Extinct, AllRows
    <3>2. \A row \in AllRows' : ~MayAct(row, t)
      BY <2>2, <3>1
    <3>3. QED
      BY <3>2 DEF Extinct, AllRows
  <2>5. ASSUME NEW n \in AllNames', Extinct(LAMBDA row : MayRegister(row, n))
        PROVE  Extinct(LAMBDA row : MayRegister(row, n))'
    <3>1. \A row \in AllRows : ~MayRegister(row, n)
      BY <2>5 DEF Extinct, AllRows
    <3>2. \A row \in AllRows' : ~MayRegister(row, n)
      BY <2>1, <2>2, <2>5, <3>1
    <3>3. QED
      BY <3>2 DEF Extinct, AllRows
  <2>6. QED
    BY <2>3, <2>4, <2>5
<1>2. PolicyInv => Named
  BY NamesArePaths DEF PolicyInv
<1> HIDE DEF Named
<1>3. QED
  BY <1>1, <1>2, SpecInv, PTL DEF Spec, NoAuthorityFromNothing


\* What a modification makes of a row whose attributes are there once each.
Modified(new, old, asked) ==
    /\ NoDuplicates(new)
    /\ \A n \in {asked[i].name : i \in DOMAIN asked} :
         /\ GetAttribute(new, n) = GetAttribute(asked, n)
         /\ GetAttribute(asked, n) = {} => ~HasAttribute(new, n)
    /\ \A n \in {old[i].name : i \in DOMAIN old} :
         HasAttribute(asked, n) \/ n \in FixedAttributes
         \/ GetAttribute(new, n) = GetAttribute(old, n)

LEMMA OnceForAll ==
    ASSUME NEW E, NEW s \in Seq(E)
    PROVE  NoDuplicates(s) <=> \A n : Once(s, n)
<1>1. DOMAIN s = 1..Len(s)
  OBVIOUS
<1>2. ASSUME NoDuplicates(s), NEW n PROVE Once(s, n)
  BY <1>1, <1>2 DEF NoDuplicates, Once
<1>3. ASSUME \A n : Once(s, n), NEW i \in DOMAIN s, NEW j \in DOMAIN s, s[i].name = s[j].name
      PROVE  i = j
  <2>1. Once(s, s[i].name)
    BY <1>3
  <2>2. QED
    BY <1>1, <1>3, <2>1 DEF Once
<1>4. QED
  BY <1>2, <1>3 DEF NoDuplicates

LEMMA RowModified ==
    ASSUME NEW old \in Identity, NEW req \in Requests, NoFixed(req.attrs),
           NoDuplicates(old.attrs), NEW row, row = ModifiedRow(old, req)
    PROVE  Modified(row.attrs, old.attrs, req.attrs)
<1>1. req.attrs \in Seq(Attribute) /\ old.attrs \in Seq(Attribute)
  BY RequestType DEF Identity
<1>2. PICK type, aff : /\ type = IF req.type = NoType THEN old.type ELSE req.type
                       /\ aff = RequestedAff(req.aff, old.aff)
  OBVIOUS
<1>3. PICK a, b : a = Attr(Affiliation, {aff} \ {Root}) /\ b = Attr(Type, {type})
  OBVIOUS
<1>4. PICK x, y : /\ x = IF req.aff = NoAff THEN <<>> ELSE <<a>>
                  /\ y = IF req.type = NoType THEN <<>> ELSE <<b>>
  OBVIOUS
<1>5. row.attrs = getNewAttributes(old.attrs, req.attrs \o (x \o y))
  BY <1>2, <1>3, <1>4 DEF ModifiedRow
<1> DEFINE E == Attribute \cup {a, b}
<1>6. x \in Seq({a, b}) /\ y \in Seq({a, b}) /\ req.attrs \in Seq(E) /\ old.attrs \in Seq(E)
  <2>1. << >> \in Seq({a, b}) /\ <<a>> \in Seq({a, b}) /\ <<b>> \in Seq({a, b})
    BY EmptySeq
  <2>2. req.attrs \in Seq(E) /\ old.attrs \in Seq(E)
    BY <1>1, SeqMonotonic
  <2> HIDE DEF E
  <2>3. QED
    BY <1>4, <2>1, <2>2, Zenon
<1>7. PICK f : f = x \o y
  OBVIOUS
<1>8. f \in Seq({a, b}) /\ f \in Seq(E)
  <2>1. f \in Seq({a, b})
    BY <1>6, <1>7, ConcatProperties
  <2>2. QED
    BY <2>1, SeqMonotonic
<1>9. PICK new : new = req.attrs \o f
  OBVIOUS
<1> HIDE DEF E
<1>10. new \in Seq(E) /\ row.attrs = getNewAttributes(old.attrs, new)
  BY <1>5, <1>6, <1>7, <1>8, <1>9, ConcatProperties
<1>11. row.attrs \in Seq(E)
  BY <1>6, <1>10, NewAttributesType
<1>12. \A n : n \notin FixedAttributes => ~HasAttribute(f, n)
  <2>1. a.name = Affiliation /\ b.name = Type
    BY <1>3 DEF Attr
  <2>2. \A j \in 1..Len(f) : f[j].name \in FixedAttributes
    <3>1. \A j \in 1..Len(f) : f[j] \in {a, b}
      BY <1>8, ElementOfSeq
    <3>2. QED
      BY <2>1, <3>1, Names
  <2>3. QED
    BY <1>8, <2>2, NoEntry
<1>13. ASSUME NEW n
       PROVE  /\ Once(row.attrs, n)
              /\ ~HasAttribute(new, n) => GetAttribute(row.attrs, n) = GetAttribute(old.attrs, n)
              /\ HasAttribute(new, n) =>
                   /\ GetAttribute(row.attrs, n) = GetAttribute(new, n)
                   /\ GetAttribute(new, n) = {} => ~HasAttribute(row.attrs, n)
  <2>1. Once(old.attrs, n)
    BY <1>6, OnceForAll
  <2>2. QED
    BY <1>6, <1>10, <2>1, NewAttributesLast
<1>14. ASSUME NEW n, n \notin FixedAttributes
       PROVE  /\ HasAttribute(new, n) <=> HasAttribute(req.attrs, n)
              /\ GetAttribute(new, n) = GetAttribute(req.attrs, n)
  BY <1>6, <1>8, <1>9, <1>12, <1>14, ConcatLeft
<1>15. \A n : Once(row.attrs, n)
  BY <1>13
<1>16. NoDuplicates(row.attrs)
  BY <1>11, <1>15, OnceForAll
<1>17. ASSUME NEW i \in DOMAIN req.attrs
       PROVE  /\ GetAttribute(row.attrs, req.attrs[i].name) = GetAttribute(req.attrs, req.attrs[i].name)
              /\ GetAttribute(req.attrs, req.attrs[i].name) = {} => ~HasAttribute(row.attrs, req.attrs[i].name)
  <2>1. PICK n : n = req.attrs[i].name
    OBVIOUS
  <2>2. i \in 1..Len(req.attrs)
    BY <1>1
  <2>3. HasAttribute(req.attrs, n)
    BY <1>1, <2>1, <2>2, NoEntry
  <2>4. n \notin FixedAttributes
    BY <2>3 DEF NoFixed
  <2>5. QED
    BY <1>13, <1>14, <2>1, <2>3, <2>4
<1>18. ASSUME NEW n, ~HasAttribute(req.attrs, n), n \notin FixedAttributes
       PROVE  GetAttribute(row.attrs, n) = GetAttribute(old.attrs, n)
  BY <1>13, <1>14, <1>18
<1>19. QED
  BY <1>16, <1>17, <1>18 DEF Modified

\* A modification that nothing overtook has for each attribute the last value
\* that was asked for, has removed those asked to be empty, and has left the
\* others alone: getNewAttributes updates and removes elements of the list in
\* place, and the attributes that getModifyReq adds are the fixed ones only.
THEOREM ModifiesAsAsked == Spec => ModifiesWhatIsAsked
<1>1. ASSUME PolicyInv, [Next]_vars, NEW r \in Handlers,
             h[r].pc = "update", h[r].id \in DOMAIN users, users[h[r].id] = h[r].old,
             NoDuplicates(h[r].old.attrs), users' # users, h'[r] = Idle
      PROVE  Modified(users'[h[r].id].attrs, h[r].old.attrs, h[r].asked)
  <2>1. UpdateUser(r)
    <3>1. PICK q \in Handlers :
            \/ TokenAuthentication(q) \/ RegisterLookup(q) \/ InsertUser(q) \/ ModifyLookup(q)
            \/ UpdateUser(q) \/ DeleteLookup(q) \/ DeleteUser(q) \/ Fail(q)
      BY <1>1 DEF Next, vars
    <3>2. PICK c : h' = [h EXCEPT ![q] = c]
      BY <3>1 DEF TokenAuthentication, RegisterLookup, InsertUser, ModifyLookup, UpdateUser,
                  DeleteLookup, DeleteUser, Fail
    <3>3. q = r
      <4>1. h[r] # Idle
        BY <1>1 DEF Idle
      <4>2. QED
        BY <1>1, <3>2, <4>1 DEF PolicyInv, RequestsInv
    <3>4. QED
      BY <1>1, <3>1, <3>3 DEF TokenAuthentication, RegisterLookup, InsertUser, ModifyLookup,
                              DeleteLookup, DeleteUser, Fail
  <2>2. users'[h[r].id] = h[r].row
    BY <1>1, <2>1 DEF UpdateUser, PolicyInv, TableInv
  <2>3. PICK req \in Requests : /\ h[r].asked = req.attrs /\ NoFixed(req.attrs)
                                /\ h[r].row = ModifiedRow(h[r].old, req)
    BY <1>1 DEF PolicyInv, RequestsInv, RequestInv
  <2>4. h[r].old \in Identity
    BY <1>1 DEF PolicyInv, RequestsInv, RequestInv
  <2>5. QED
    BY <1>1, <2>2, <2>3, <2>4, RowModified
<1>2. ASSUME PolicyInv, [Next]_vars
      PROVE  \A r \in Handlers :
               h[r].pc = "update" /\ h[r].id \in DOMAIN users /\ users[h[r].id] = h[r].old
               /\ NoDuplicates(h[r].old.attrs) /\ users' # users /\ h'[r] = Idle =>
                  Modified(users'[h[r].id].attrs, h[r].old.attrs, h[r].asked)
  BY <1>1, <1>2
<1>3. QED
  BY <1>2, SpecInv, PTL DEF Spec, ModifiesWhatIsAsked, Modified
=============================================================================
