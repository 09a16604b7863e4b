--------------------------- MODULE PositionProofs ---------------------------
(***************************************************************************)
(* Lemmas about sequences by their positions, for the proofs of the        *)
(* components.                                                             *)
(***************************************************************************)
EXTENDS Positions, SequencesExt, FiniteSetTheorems, FunctionTheorems, WellFoundedInduction, TLAPS

\* A set of numbers has a least one.
LEMMA LeastNat ==
  ASSUME NEW T, T \subseteq Nat, T # {}
  PROVE  \E x \in T : \A y \in T : x <= y
  <1> DEFINE R == OpToRel(<, Nat)
  <1>1. IsWellFoundedOn(R, Nat)
    BY NatLessThanWellFounded, Zenon
  <1> HIDE DEF R
  <1>2. PICK x \in T : \A y \in T : ~(<<y, x>> \in R)
    BY <1>1, WFMin
  <1>3. ASSUME NEW y \in T PROVE x <= y
    <2>1. ~(<<y, x>> \in R) /\ y \in Nat /\ x \in Nat
      BY <1>2
    <2>2. ~(y < x)
      BY <2>1, Zenon DEF R, OpToRel
    <2> QED
      BY <2>1, <2>2
  <1> QED
    BY <1>3

\* pos lists the numbers of keep in ascending order, each once.
Places(keep, pos) ==
  /\ Cardinality(keep) \in Nat
  /\ pos \in [1..Cardinality(keep) -> keep]
  /\ \A i, j \in 1..Cardinality(keep) : i < j => pos[i] < pos[j]
  /\ \A i \in keep : \E k \in 1..Cardinality(keep) : pos[k] = i

\* SubSeqAt has the elements at the positions it is given, and no others, in
\* their order.
LEMMA SubSeqAtPlaces ==
  ASSUME NEW s, NEW len \in Nat, NEW keep \in SUBSET (1..len)
  PROVE  \E pos : /\ Places(keep, pos)
                  /\ SubSeqAt(s, keep) = [k \in 1..Cardinality(keep) |-> s[pos[k]]]
  <1> DEFINE upTo(i) == {j \in keep : j <= i}
             rank == [i \in keep |-> Cardinality(upTo(i))]
             n == Cardinality(keep)
  <1>1. \A i \in keep : i \in Nat
    OBVIOUS
  <1>2. IsFiniteSet(keep) /\ n \in Nat
    <2>1. IsFiniteSet(1..len)
      BY FS_Interval
    <2> QED
      BY <2>1, FS_Subset, FS_CardinalityType
  <1>3. ASSUME NEW i \in keep
        PROVE  /\ IsFiniteSet(upTo(i)) /\ Cardinality(upTo(i)) \in 1..n
    <2>1. upTo(i) \in SUBSET keep /\ {i} \in SUBSET upTo(i)
      BY <1>1
    <2> HIDE DEF upTo
    <2>2. IsFiniteSet(upTo(i)) /\ Cardinality(upTo(i)) <= n
      BY <1>2, <2>1, FS_Subset
    <2>3. Cardinality({i}) = 1 /\ Cardinality({i}) <= Cardinality(upTo(i))
      BY <2>1, <2>2, FS_Subset, FS_Singleton
    <2>4. Cardinality(upTo(i)) \in Nat
      BY <2>2, FS_CardinalityType
    <2> QED
      BY <1>2, <2>2, <2>3, <2>4
  <1>4. ASSUME NEW i \in keep, NEW j \in keep, i < j
        PROVE  Cardinality(upTo(i)) < Cardinality(upTo(j))
    <2>1. upTo(i) \in SUBSET upTo(j) /\ j \in upTo(j) /\ j \notin upTo(i)
      <3>1. i \in Nat /\ j \in Nat
        BY <1>1
      <3>2. j \in upTo(j) /\ j \notin upTo(i)
        BY <1>4, <3>1
      <3>3. ASSUME NEW x \in upTo(i) PROVE x \in upTo(j)
        BY <1>1, <1>4, <3>1
      <3> QED
        BY <3>2, <3>3
    <2>2. IsFiniteSet(upTo(j)) /\ Cardinality(upTo(j)) \in Nat /\ Cardinality(upTo(i)) \in Nat
      BY <1>3
    <2> HIDE DEF upTo
    <2>3. /\ Cardinality(upTo(i)) <= Cardinality(upTo(j))
          /\ Cardinality(upTo(i)) = Cardinality(upTo(j)) => upTo(i) = upTo(j)
      BY <2>1, <2>2, FS_Subset
    <2> QED
      BY <2>1, <2>2, <2>3
  <1>5. rank \in Injection(keep, 1..n)
    <2>1. rank \in [keep -> 1..n]
      BY <1>3
    <2>2. ASSUME NEW i \in keep, NEW j \in keep, rank[i] = rank[j] PROVE i = j
      <3>1. Cardinality(upTo(i)) = Cardinality(upTo(j)) /\ Cardinality(upTo(j)) \in Nat
        BY <1>3, <2>2
      <3>2. ~(i < j) /\ ~(j < i)
        <4> HIDE DEF upTo
        <4> QED
          BY <1>4, <3>1
      <3> QED
        BY <1>1, <3>2
    <2> HIDE DEF rank
    <2> QED
      BY <2>1, <2>2 DEF Injection, IsInjective
  <1>6. rank \in Surjection(keep, 1..n)
    <2>1. IsFiniteSet(1..n) /\ Cardinality(1..n) = n
      BY <1>2, FS_Interval
    <2> HIDE DEF rank
    <2> QED
      BY <1>5, <2>1, FS_Injection
  <1> DEFINE pos == [k \in 1..n |-> CHOOSE i \in keep : Cardinality(upTo(i)) = k]
  <1>7. ASSUME NEW k \in 1..n PROVE \E i \in keep : Cardinality(upTo(i)) = k
    <2>1. PICK i \in keep : rank[i] = k
      <3> HIDE DEF rank
      <3> QED
        BY <1>6 DEF Surjection
    <2> QED
      BY <2>1
  <1>8. SubSeqAt(s, keep) = [k \in 1..n |-> s[pos[k]]]
    BY DEF SubSeqAt
  <1>9. ASSUME NEW k \in 1..n PROVE pos[k] \in keep /\ Cardinality(upTo(pos[k])) = k
    <2> HIDE DEF upTo
    <2> QED
      BY <1>7
  <1>10. DOMAIN pos = 1..n
    OBVIOUS
  <1>11. pos \in [1..n -> keep]
    BY <1>9
  <1> HIDE DEF pos, upTo
  <1>12. ASSUME NEW i \in 1..n, NEW j \in 1..n, i < j PROVE pos[i] < pos[j]
    <2>1. /\ pos[i] \in keep /\ pos[j] \in keep /\ pos[i] \in Nat /\ pos[j] \in Nat
          /\ Cardinality(upTo(pos[i])) = i /\ Cardinality(upTo(pos[j])) = j
      BY <1>1, <1>9
    <2>2. ASSUME pos[j] < pos[i] PROVE FALSE
      <3>1. j < i
        BY <1>4, <2>1, <2>2
      <3> QED
        BY <1>2, <1>12, <3>1
    <2>3. pos[i] # pos[j]
      <3>1. i # j
        BY <1>2, <1>12
      <3> QED
        BY <2>1, <3>1
    <2> QED
      BY <2>1, <2>2, <2>3
  <1>13. ASSUME NEW i \in keep PROVE \E k \in 1..n : pos[k] = i
    <2> DEFINE k == Cardinality(upTo(i))
    <2>1. k \in 1..n
      BY <1>3
    <2>2. pos[k] \in keep /\ rank[pos[k]] = k /\ rank[i] = k
      BY <1>9, <2>1
    <2>3. pos[k] = i
      <3> HIDE DEF rank, k
      <3> QED
        BY <1>5, <2>2 DEF Injection, IsInjective
    <2> QED
      BY <2>1, <2>3
  <1>14. Places(keep, pos)
    BY <1>2, <1>11, <1>12, <1>13 DEF Places
  <1> QED
    BY <1>8, <1>14

LEMMA PlacesUnique ==
  ASSUME NEW keep \in SUBSET Nat, NEW p, NEW q, Places(keep, p), Places(keep, q)
  PROVE  p = q
  <1> DEFINE n == Cardinality(keep)
             Wrong == {k \in 1..n : p[k] # q[k]}
  <1>1. n \in Nat /\ p \in [1..n -> keep] /\ q \in [1..n -> keep]
    BY DEF Places
  <1>2. /\ \A i, j \in 1..n : i < j => p[i] < p[j] /\ q[i] < q[j]
        /\ \A i \in keep : (\E k \in 1..n : p[k] = i) /\ (\E k \in 1..n : q[k] = i)
    BY DEF Places
  <1>3. \A i \in 1..n : p[i] \in Nat /\ q[i] \in Nat
    BY <1>1
  <1> HIDE DEF n
  <1>4. ASSUME Wrong # {} PROVE FALSE
    <2>1. PICK k \in Wrong : \A l \in Wrong : k <= l
      <3>1. Wrong \subseteq Nat
        BY <1>1
      <3> HIDE DEF Wrong
      <3> QED
        BY <1>4, <3>1, LeastNat
    <2>2. k \in 1..n /\ p[k] # q[k] /\ \A l \in 1..n : l < k => p[l] = q[l]
      BY <1>1, <2>1
    <2>3. CASE p[k] < q[k]
      <3>1. PICK l \in 1..n : q[l] = p[k]
        BY <1>1, <1>2, <2>2
      <3>2. ~(k < l) /\ k # l
        BY <1>2, <1>3, <2>2, <2>3, <3>1
      <3>3. l < k
        BY <1>1, <2>2, <3>2
      <3>4. p[l] = q[l] /\ p[l] < p[k]
        BY <1>2, <2>2, <3>3
      <3> QED
        BY <1>3, <2>2, <3>1, <3>4
    <2>4. CASE q[k] < p[k]
      <3>1. PICK l \in 1..n : p[l] = q[k]
        BY <1>1, <1>2, <2>2
      <3>2. ~(k < l) /\ k # l
        BY <1>2, <1>3, <2>2, <2>4, <3>1
      <3>3. l < k
        BY <1>1, <2>2, <3>2
      <3>4. p[l] = q[l] /\ q[l] < q[k]
        BY <1>2, <2>2, <3>3
      <3> QED
        BY <1>3, <2>2, <3>1, <3>4
    <2> QED
      BY <1>3, <2>2, <2>3, <2>4
  <1>5. \A k \in 1..n : p[k] = q[k]
    BY <1>4
  <1> QED
    BY <1>1, <1>5

LEMMA SubSeqAtForm ==
  ASSUME NEW s, NEW keep
  PROVE  SubSeqAt(s, keep) = [k \in 1..Cardinality(keep) |-> SubSeqAt(s, keep)[k]]
  BY DEF SubSeqAt

LEMMA SubSeqAtIs ==
  ASSUME NEW s, NEW len \in Nat, NEW keep \in SUBSET (1..len), NEW pos, Places(keep, pos),
         NEW k \in 1..Cardinality(keep)
  PROVE  SubSeqAt(s, keep)[k] = s[pos[k]]
  <1>1. PICK p : /\ Places(keep, p)
                 /\ SubSeqAt(s, keep) = [l \in 1..Cardinality(keep) |-> s[p[l]]]
    BY SubSeqAtPlaces
  <1>2. keep \in SUBSET Nat
    OBVIOUS
  <1>3. p = pos
    BY <1>1, <1>2, PlacesUnique
  <1> QED
    BY <1>1, <1>3

LEMMA SubSeqAtSeq ==
  ASSUME NEW S, NEW s \in Seq(S), NEW keep \in SUBSET (1..Len(s))
  PROVE  SubSeqAt(s, keep) \in Seq(S) /\ Len(SubSeqAt(s, keep)) = Cardinality(keep)
  <1>1. Len(s) \in Nat /\ \A i \in 1..Len(s) : s[i] \in S
    OBVIOUS
  <1>2. PICK pos : /\ Places(keep, pos)
                   /\ SubSeqAt(s, keep) = [k \in 1..Cardinality(keep) |-> s[pos[k]]]
    BY <1>1, SubSeqAtPlaces
  <1>3. Cardinality(keep) \in Nat /\ \A k \in 1..Cardinality(keep) : s[pos[k]] \in S
    BY <1>1, <1>2 DEF Places
  <1> QED
    BY <1>2, <1>3

\* SubSeqAt has the elements at the positions it is given, and no others, in
\* their order.
LEMMA SubSeqAtFacts ==
  ASSUME NEW S, NEW s \in Seq(S), NEW keep \in SUBSET (1..Len(s))
  PROVE  /\ SubSeqAt(s, keep) \in Seq(S)
         /\ \A k \in 1..Len(SubSeqAt(s, keep)) :
              \E i \in keep : SubSeqAt(s, keep)[k] = s[i]
         /\ \A i \in keep : \E k \in 1..Len(SubSeqAt(s, keep)) :
              /\ SubSeqAt(s, keep)[k] = s[i]
              /\ \A l \in (k + 1)..Len(SubSeqAt(s, keep)) :
                   \E j \in keep : i < j /\ SubSeqAt(s, keep)[l] = s[j]
  <1> DEFINE n == Cardinality(keep)
             sub == SubSeqAt(s, keep)
  <1>1. Len(s) \in Nat /\ \A i \in keep : i \in Nat /\ s[i] \in S
    OBVIOUS
  <1>2. PICK pos : Places(keep, pos) /\ sub = [k \in 1..n |-> s[pos[k]]]
    BY <1>1, SubSeqAtPlaces
  <1>3. /\ n \in Nat /\ \A k \in 1..n : pos[k] \in keep
        /\ \A i, j \in 1..n : i < j => pos[i] < pos[j]
        /\ \A i \in keep : \E k \in 1..n : pos[k] = i
    BY <1>2 DEF Places
  <1>4. \A k \in 1..n : sub[k] = s[pos[k]]
    BY <1>2
  <1>5. sub \in [1..n -> S]
    BY <1>1, <1>2, <1>3
  <1> HIDE DEF sub, n
  <1>6. sub \in Seq(S) /\ Len(sub) = n
    BY <1>3, <1>5
  <1>7. ASSUME NEW i \in keep
        PROVE  \E k \in 1..n : /\ sub[k] = s[i]
                               /\ \A l \in (k + 1)..n : \E j \in keep : i < j /\ sub[l] = s[j]
    <2>1. PICK k \in 1..n : pos[k] = i
      BY <1>3
    <2>2. ASSUME NEW l \in (k + 1)..n PROVE \E j \in keep : i < j /\ sub[l] = s[j]
      <3>1. l \in 1..n /\ k < l
        BY <1>3
      <3> QED
        BY <1>3, <1>4, <2>1, <3>1
    <2> QED
      BY <1>4, <2>1, <2>2
  <1> QED
    BY <1>3, <1>4, <1>6, <1>7 DEF sub

LEMMA SubSeqAtInjective ==
  ASSUME NEW S, NEW s \in Seq(S), NEW keep \in SUBSET (1..Len(s))
  PROVE  (\A i, j \in 1..Len(s) : s[i] = s[j] => i = j) =>
           \A k, l \in 1..Len(SubSeqAt(s, keep)) : SubSeqAt(s, keep)[k] = SubSeqAt(s, keep)[l] => k = l
  <1>1. Len(s) \in Nat
    OBVIOUS
  <1>2. PICK pos : /\ Places(keep, pos)
                   /\ SubSeqAt(s, keep) = [k \in 1..Cardinality(keep) |-> s[pos[k]]]
    BY <1>1, SubSeqAtPlaces
  <1>3. PICK n : n = Cardinality(keep)
    OBVIOUS
  <1>4. /\ n \in Nat /\ \A k \in 1..n : pos[k] \in 1..Len(s)
        /\ \A k, l \in 1..n : k < l => pos[k] < pos[l]
    BY <1>2, <1>3 DEF Places
  <1>5. Len(SubSeqAt(s, keep)) = n
    BY <1>2, <1>3, <1>4
  <1>6. ASSUME \A i, j \in 1..Len(s) : s[i] = s[j] => i = j,
               NEW k \in 1..n, NEW l \in 1..n, s[pos[k]] = s[pos[l]]
        PROVE  k = l
    <2>1. pos[k] = pos[l] /\ pos[k] \in Nat
      BY <1>4, <1>6
    <2>2. ~(k < l) /\ ~(l < k)
      BY <1>4, <2>1
    <2> QED
      BY <1>4, <2>2
  <1> QED
    BY <1>2, <1>3, <1>5, <1>6

LEMMA SubSeqAtNone ==
  ASSUME NEW s
  PROVE  SubSeqAt(s, {}) = <<>>
  <1>1. Cardinality({}) = 0
    BY FS_EmptySet
  <1> QED
    BY <1>1 DEF SubSeqAt

\* One more position, after all the others.
LEMMA SubSeqAtAppend ==
  ASSUME NEW s, NEW len \in Nat, NEW keep \in SUBSET (1..len)
  PROVE  SubSeqAt(s, keep \cup {len + 1}) = Append(SubSeqAt(s, keep), s[len + 1])
  <1> DEFINE n == Cardinality(keep)
             more == keep \cup {len + 1}
  <1>1. PICK pl : Places(keep, pl) /\ SubSeqAt(s, keep) = [k \in 1..n |-> s[pl[k]]]
    BY SubSeqAtPlaces
  <1>2. /\ n \in Nat /\ pl \in [1..n -> keep]
        /\ \A i, j \in 1..n : i < j => pl[i] < pl[j]
        /\ \A i \in keep : \E k \in 1..n : pl[k] = i
    BY <1>1 DEF Places
  <1>3. Cardinality(more) = n + 1
    <2>1. IsFiniteSet(keep)
      <3>1. IsFiniteSet(1..len)
        BY FS_Interval
      <3> QED
        BY <3>1, FS_Subset
    <2>2. len + 1 \notin keep
      OBVIOUS
    <2> QED
      BY <2>1, <2>2, FS_AddElement
  <1> HIDE DEF n
  <1> DEFINE p == [k \in 1..(n + 1) |-> IF k <= n THEN pl[k] ELSE len + 1]
  <1>4. /\ \A k \in 1..n : p[k] = pl[k] /\ pl[k] \in keep /\ pl[k] \in 1..len
        /\ p[n + 1] = len + 1 /\ \A k \in 1..(n + 1) : k \in 1..n \/ k = n + 1
    <2>1. /\ \A k \in 1..n : k \in 1..(n + 1) /\ k <= n
          /\ n + 1 \in 1..(n + 1) /\ ~(n + 1 <= n)
          /\ \A k \in 1..(n + 1) : k \in 1..n \/ k = n + 1
      BY <1>2
    <2>2. \A k \in 1..n : pl[k] \in keep /\ pl[k] \in 1..len
      BY <1>2
    <2> QED
      BY <2>1, <2>2
  <1>5. p \in [1..(n + 1) -> more]
    BY <1>2, <1>4
  <1> HIDE DEF p
  <1>6. ASSUME NEW i \in 1..(n + 1), NEW j \in 1..(n + 1), i < j PROVE p[i] < p[j]
    <2>1. i \in 1..n /\ (j \in 1..n \/ j = n + 1)
      BY <1>2, <1>6
    <2>2. CASE j \in 1..n
      BY <1>2, <1>4, <1>6, <2>1, <2>2
    <2>3. CASE j = n + 1
      <3>1. p[i] \in 1..len /\ p[j] = len + 1
        BY <1>4, <2>1, <2>3
      <3> QED
        BY <3>1
    <2> QED
      BY <2>1, <2>2, <2>3
  <1>7. ASSUME NEW i \in more PROVE \E k \in 1..(n + 1) : p[k] = i
    <2>1. CASE i \in keep
      <3>1. PICK k \in 1..n : pl[k] = i
        BY <1>2, <2>1
      <3>2. k \in 1..(n + 1) /\ p[k] = i
        BY <1>2, <1>4, <3>1
      <3> QED
        BY <3>2
    <2>2. CASE i = len + 1
      <3>1. n + 1 \in 1..(n + 1) /\ p[n + 1] = i
        BY <1>2, <1>4, <2>2
      <3> QED
        BY <3>1
    <2> QED
      BY <2>1, <2>2
  <1>8. more \in SUBSET (1..(len + 1)) /\ len + 1 \in Nat
    OBVIOUS
  <1> HIDE DEF more
  <1>9. Places(more, p)
    <2>1. Cardinality(more) = n + 1 /\ n + 1 \in Nat
      BY <1>2, <1>3
    <2> QED
      BY <2>1, <1>5, <1>6, <1>7 DEF Places
  <1>10. SubSeqAt(s, more) = [k \in 1..(n + 1) |-> s[p[k]]]
    <2>1. PICK m \in Nat : m = len + 1
      BY <1>8
    <2>2. more \in SUBSET (1..m)
      BY <1>8, <2>1
    <2>3. \A l \in Nat : \A ks \in SUBSET (1..l) : \A ps : Places(ks, ps) =>
            \A k \in 1..Cardinality(ks) : SubSeqAt(s, ks)[k] = s[ps[k]]
      BY SubSeqAtIs
    <2>4. \A ps : Places(more, ps) =>
            \A k \in 1..Cardinality(more) : SubSeqAt(s, more)[k] = s[ps[k]]
      BY <2>2, <2>3
    <2>5. \A k \in 1..Cardinality(more) : SubSeqAt(s, more)[k] = s[p[k]]
      BY <1>9, <2>4
    <2> QED
      BY <1>3, <2>5, SubSeqAtForm
  <1>11. SubSeqAt(s, keep) \in Seq({s[i] : i \in 1..len}) /\ Len(SubSeqAt(s, keep)) = n
    BY <1>1, <1>2, <1>4 DEF n
  <1> DEFINE both == Append(SubSeqAt(s, keep), s[len + 1])
  <1>12. /\ Len(both) = n + 1 /\ DOMAIN both = 1..(n + 1) /\ both[n + 1] = s[len + 1]
         /\ \A k \in 1..n : both[k] = SubSeqAt(s, keep)[k]
    BY <1>2, <1>11
  <1>13. \A k \in 1..n : SubSeqAt(s, keep)[k] = s[pl[k]]
    BY <1>1 DEF n
  <1>14. both = [k \in 1..(n + 1) |-> both[k]]
    BY <1>11
  <1> HIDE DEF both
  <1>15. \A k \in 1..(n + 1) : both[k] = s[p[k]]
    BY <1>4, <1>12, <1>13
  <1>16. both = [k \in 1..(n + 1) |-> s[p[k]]]
    BY <1>14, <1>15
  <1> QED
    BY <1>10, <1>16 DEF both, more

\* g is the first k concatenations of F.
ChainTo(F, k, g) ==
  /\ g = [j \in 0..k |-> g[j]] /\ g[0] = <<>>
  /\ \A j \in 1..k : g[j] = g[j - 1] \o F[j]

LEMMA ChainExists ==
  ASSUME NEW F
  PROVE  \A n \in Nat : \E g : ChainTo(F, n, g)
  <1> DEFINE Without == {n \in Nat : ~\E g : ChainTo(F, n, g)}
  <1> SUFFICES ASSUME Without # {} PROVE FALSE
    OBVIOUS
  <1>1. PICK n \in Without : \A m \in Without : n <= m
    <2>1. Without \subseteq Nat
      OBVIOUS
    <2> HIDE DEF Without
    <2> QED
      BY <2>1, LeastNat
  <1>2. n \in Nat /\ ~\E g : ChainTo(F, n, g)
    OBVIOUS
  <1>3. CASE n = 0
    <2> DEFINE g == [j \in 0..0 |-> <<>>]
    <2>1. g = [j \in 0..0 |-> g[j]] /\ g[0] = <<>> /\ \A j \in 1..0 : FALSE
      OBVIOUS
    <2> HIDE DEF g
    <2>2. ChainTo(F, 0, g)
      BY <2>1 DEF ChainTo
    <2> QED
      BY <1>2, <1>3, <2>2
  <1>4. CASE n # 0
    <2>1. n - 1 \in Nat /\ ~(n <= n - 1)
      BY <1>2, <1>4
    <2>2. PICK h : ChainTo(F, n - 1, h)
      BY <1>1, <2>1
    <2> DEFINE g == [j \in 0..n |-> IF j = n THEN h[n - 1] \o F[n] ELSE h[j]]
    <2>3. /\ DOMAIN g = 0..n /\ g = [j \in 0..n |-> g[j]]
          /\ g[n] = h[n - 1] \o F[n] /\ \A j \in 0..(n - 1) : g[j] = h[j]
      <3>1. DOMAIN g = 0..n /\ g = [j \in 0..n |-> g[j]]
        OBVIOUS
      <3>2. n \in 0..n /\ \A j \in 0..(n - 1) : j \in 0..n /\ j # n
        BY <1>2
      <3>3. g[n] = h[n - 1] \o F[n]
        BY <3>2
      <3>4. \A j \in 0..(n - 1) : g[j] = h[j]
        BY <3>2
      <3> QED
        BY <3>1, <3>3, <3>4
    <2> HIDE DEF g
    <2>4. h[0] = <<>> /\ \A j \in 1..(n - 1) : h[j] = h[j - 1] \o F[j]
      BY <2>2 DEF ChainTo
    <2>5. g[0] = <<>>
      <3>1. 0 \in 0..(n - 1)
        BY <2>1
      <3> QED
        BY <2>3, <2>4, <3>1
    <2>6. ASSUME NEW j \in 1..n PROVE g[j] = g[j - 1] \o F[j]
      <3>1. j - 1 \in 0..(n - 1)
        BY <1>2
      <3>2. CASE j = n
        BY <2>3, <3>1, <3>2
      <3>3. CASE j # n
        <4>1. j \in 1..(n - 1) /\ j \in 0..(n - 1)
          BY <1>2, <3>3
        <4> QED
          BY <2>3, <2>4, <3>1, <4>1
      <3> QED
        BY <3>2, <3>3
    <2>7. ChainTo(F, n, g)
      BY <2>3, <2>5, <2>6 DEF ChainTo
    <2> QED
      BY <1>2, <2>7
  <1> QED
    BY <1>3, <1>4

LEMMA ChainsAgree ==
  ASSUME NEW F, NEW m \in Nat, NEW n \in Nat, NEW g, NEW h, ChainTo(F, m, g), ChainTo(F, n, h), m <= n
  PROVE  \A j \in 0..m : g[j] = h[j]
  <1> DEFINE Wrong == {j \in 0..m : g[j] # h[j]}
  <1> SUFFICES ASSUME Wrong # {} PROVE FALSE
    OBVIOUS
  <1>1. PICK j \in Wrong : \A i \in Wrong : j <= i
    <2>1. Wrong \subseteq Nat
      OBVIOUS
    <2> HIDE DEF Wrong
    <2> QED
      BY <2>1, LeastNat
  <1>2. j \in 0..m /\ g[j] # h[j] /\ j # 0
    BY DEF ChainTo
  <1>3. j - 1 \in 0..m /\ ~(j <= j - 1) /\ j \in 1..m /\ j \in 1..n
    BY <1>2
  <1>4. g[j - 1] = h[j - 1]
    BY <1>1, <1>3
  <1>5. g[j] = g[j - 1] \o F[j] /\ h[j] = h[j - 1] \o F[j]
    BY <1>3 DEF ChainTo
  <1> QED
    BY <1>2, <1>4, <1>5

\* Chained is what its equation says.
LEMMA ChainedFacts ==
  ASSUME NEW F
  PROVE  /\ Chained(F, 0) = <<>>
         /\ \A n \in Nat : Chained(F, n + 1) = Chained(F, n) \o F[n + 1]
  <1> DEFINE Loop(g) == g = [k \in Nat |-> IF k = 0 THEN <<>> ELSE g[k - 1] \o F[k]]
             up == CHOOSE g : Loop(g)
             chain(n) == CHOOSE g : ChainTo(F, n, g)
             all == [n \in Nat |-> chain(n)[n]]
  <1>1. \A n \in Nat : ChainTo(F, n, chain(n))
    BY ChainExists
  <1> HIDE DEF chain
  <1>2. all[0] = <<>>
    BY <1>1 DEF ChainTo
  <1>3. ASSUME NEW n \in Nat, n # 0 PROVE all[n] = all[n - 1] \o F[n]
    <2>1. n - 1 \in Nat /\ n - 1 <= n /\ n \in 1..n /\ n - 1 \in 0..(n - 1)
      BY <1>3
    <2>2. chain(n)[n] = chain(n)[n - 1] \o F[n]
      BY <1>1, <2>1 DEF ChainTo
    <2>3. chain(n - 1)[n - 1] = chain(n)[n - 1]
      BY <1>1, <2>1, ChainsAgree
    <2>4. all[n] = chain(n)[n] /\ all[n - 1] = chain(n - 1)[n - 1]
      BY <2>1
    <2> QED
      BY <2>2, <2>3, <2>4
  <1>4. DOMAIN all = Nat /\ all = [n \in Nat |-> all[n]]
    OBVIOUS
  <1> HIDE DEF all
  <1>5. Loop(all)
    <2>1. \A k \in Nat : all[k] = IF k = 0 THEN <<>> ELSE all[k - 1] \o F[k]
      BY <1>2, <1>3
    <2> QED
      BY <1>4, <2>1
  <1>6. Loop(up)
    BY <1>5
  <1>7. \A n : Chained(F, n) = up[n]
    BY DEF Chained
  <1> HIDE DEF up
  <1>8. up[0] = <<>>
    BY <1>6
  <1>9. ASSUME NEW n \in Nat PROVE up[n + 1] = up[n] \o F[n + 1]
    <2>1. n + 1 \in Nat /\ n + 1 # 0 /\ n + 1 - 1 = n
      OBVIOUS
    <2>2. \A k \in Nat : up[k] = IF k = 0 THEN <<>> ELSE up[k - 1] \o F[k]
      BY <1>6, Zenon
    <2>3. \A k \in Nat : k # 0 => up[k] = up[k - 1] \o F[k]
      BY <2>2, Zenon
    <2>4. PICK m \in Nat : m = n + 1 /\ m # 0 /\ m - 1 = n
      BY <2>1
    <2>5. up[m] = up[m - 1] \o F[m]
      BY <2>3, <2>4, Zenon
    <2> QED
      BY <2>4, <2>5
  <1> QED
    BY <1>7, <1>8, <1>9

LEMMA ChainedSeq ==
  ASSUME NEW F, NEW S, NEW n \in Nat, \A i \in 1..n : F[i] \in Seq(S)
  PROVE  \A k \in 0..n : Chained(F, k) \in Seq(S)
  <1> DEFINE Wrong == {k \in 0..n : Chained(F, k) \notin Seq(S)}
  <1> SUFFICES ASSUME Wrong # {} PROVE FALSE
    OBVIOUS
  <1>1. PICK k \in Wrong : \A l \in Wrong : k <= l
    <2>1. Wrong \subseteq Nat
      OBVIOUS
    <2> HIDE DEF Wrong
    <2> QED
      BY <2>1, LeastNat
  <1>2. k \in 0..n /\ Chained(F, k) \notin Seq(S)
    OBVIOUS
  <1>3. k # 0
    <2>1. Chained(F, 0) \in Seq(S)
      <3>1. Chained(F, 0) = <<>>
        BY ChainedFacts
      <3>2. <<>> \in Seq(S)
        OBVIOUS
      <3> QED
        BY <3>1, <3>2
    <2> QED
      BY <1>2, <2>1
  <1>4. PICK l \in Nat : k = l + 1 /\ l \in 0..n /\ l + 1 \in 1..n /\ ~(k <= l)
    BY <1>2, <1>3
  <1>5. Chained(F, l) \in Seq(S)
    BY <1>1, <1>4
  <1>6. Chained(F, k) = Chained(F, l) \o F[l + 1] /\ F[l + 1] \in Seq(S)
    BY <1>4, ChainedFacts
  <1> QED
    BY <1>2, <1>5, <1>6

LEMMA SeqForm ==
  ASSUME NEW S, NEW s \in Seq(S)
  PROVE  s = [i \in 1..Len(s) |-> s[i]]
  OBVIOUS

\* What is left of a sequence after its first k elements.
LEMMA SuffixFacts ==
  ASSUME NEW S, NEW s \in Seq(S), NEW k \in 0..Len(s)
  PROVE  /\ SubSeq(s, 1, Len(s)) = s
         /\ SubSeq(s, k + 1, Len(s)) = <<>> => k = Len(s)
         /\ SubSeq(s, k + 1, Len(s)) # <<>> =>
              /\ k + 1 \in 1..Len(s) /\ k + 1 \in 0..Len(s)
              /\ Head(SubSeq(s, k + 1, Len(s))) = s[k + 1]
              /\ Tail(SubSeq(s, k + 1, Len(s))) = SubSeq(s, (k + 1) + 1, Len(s))
  <1>1. Len(s) \in Nat /\ k \in Nat
    OBVIOUS
  <1> DEFINE n == Len(s)
             t == SubSeq(s, k + 1, n)
  <1>2. t \in Seq(S) /\ Len(t) = n - k /\ \A i \in 1..(n - k) : t[i] = s[k + i]
    OBVIOUS
  <1>3. SubSeq(s, 1, n) = s
    OBVIOUS
  <1> HIDE DEF t, n
  <1>4. CASE k = n
    BY <1>1, <1>2, <1>3, <1>4 DEF n, t
  <1>5. CASE k # n
    <2>1. k + 1 \in 1..n /\ k + 1 \in 0..n /\ n - k \in Nat /\ 1 \in 1..(n - k) /\ n - k > 0
      BY <1>1, <1>5 DEF n
    <2>2. t # <<>> /\ Head(t) = s[k + 1]
      BY <1>2, <2>1
    <2>3. Tail(t) = SubSeq(s, (k + 1) + 1, n)
      <3> DEFINE u == SubSeq(s, (k + 1) + 1, n)
      <3>1. u \in Seq(S) /\ Len(u) = n - (k + 1) /\ \A i \in 1..(n - (k + 1)) : u[i] = s[(k + 1) + i]
        BY <1>1, <2>1 DEF n
      <3>2. Tail(t) \in Seq(S) /\ Len(Tail(t)) = n - k - 1 /\ \A i \in 1..(n - k - 1) : Tail(t)[i] = t[i + 1]
        BY <1>2, <2>1, <2>2
      <3> HIDE DEF u
      <3>3. Len(Tail(t)) = Len(u) /\ Len(u) \in Nat
        <4>1. n - (k + 1) = n - k - 1 /\ n - (k + 1) \in Nat
          BY <1>1, <2>1 DEF n
        <4> QED
          BY <3>1, <3>2, <4>1
      <3>4. ASSUME NEW i \in 1..Len(u) PROVE Tail(t)[i] = u[i]
        <4>1. i \in 1..(n - k - 1) /\ i \in 1..(n - (k + 1)) /\ i + 1 \in 1..(n - k)
              /\ (k + 1) + i = k + (i + 1)
          BY <1>1, <2>1, <3>1, <3>4 DEF n
        <4>2. Tail(t)[i] = s[k + (i + 1)] /\ u[i] = s[(k + 1) + i]
          BY <1>2, <3>1, <3>2, <4>1
        <4> QED
          BY <4>1, <4>2
      <3>5. u = [i \in 1..Len(u) |-> u[i]] /\ Tail(t) = [i \in 1..Len(u) |-> Tail(t)[i]]
        <4>1. u = [i \in 1..Len(u) |-> u[i]]
          BY <3>1
        <4>2. Tail(t) = [i \in 1..Len(Tail(t)) |-> Tail(t)[i]]
          <5>1. Tail(t) \in Seq(S)
            BY <3>2
          <5> QED
            BY <5>1, SeqForm
        <4> QED
          BY <3>3, <4>1, <4>2
      <3>6. u = Tail(t)
        BY <3>4, <3>5
      <3> QED
        BY <3>6 DEF u
    <2> QED
      BY <1>3, <2>1, <2>2, <2>3 DEF n, t
  <1> QED
    BY <1>4, <1>5

LEMMA ConcatFacts ==
  ASSUME NEW S, NEW s \in Seq(S), NEW t \in Seq(S)
  PROVE  /\ s \o t \in Seq(S) /\ Len(s) \in Nat /\ Len(t) \in Nat /\ Len(s \o t) = Len(s) + Len(t)
         /\ \A k \in 1..Len(s) : (s \o t)[k] = s[k]
         /\ \A k \in 1..Len(t) : (s \o t)[Len(s) + k] = t[k]
  OBVIOUS

\* The elements of the i-th sequence follow those of the ones before it.
Laid(F, m) ==
  /\ \A i \in 1..m : \A k \in 1..Len(F[i]) :
       /\ Len(Chained(F, i - 1)) + k \in 1..Len(Chained(F, m))
       /\ Chained(F, m)[Len(Chained(F, i - 1)) + k] = F[i][k]
  /\ \A l \in 1..Len(Chained(F, m)) : \E i \in 1..m : \E k \in 1..Len(F[i]) :
       l = Len(Chained(F, i - 1)) + k

LEMMA ChainedLaid ==
  ASSUME NEW F, NEW S, NEW n \in Nat, \A i \in 1..n : F[i] \in Seq(S)
  PROVE  \A m \in 0..n : Laid(F, m)
  <1> DEFINE Wrong == {m \in 0..n : ~Laid(F, m)}
  <1> SUFFICES ASSUME Wrong # {} PROVE FALSE
    OBVIOUS
  <1>1. PICK m \in Wrong : \A l \in Wrong : m <= l
    <2>1. Wrong \subseteq Nat
      OBVIOUS
    <2> HIDE DEF Wrong
    <2> QED
      BY <2>1, LeastNat
  <1>2. m \in 0..n /\ ~Laid(F, m)
    OBVIOUS
  <1>3. \A k \in 0..n : Chained(F, k) \in Seq(S)
    BY ChainedSeq
  <1>4. m # 0
    <2>1. Chained(F, 0) = <<>>
      BY ChainedFacts
    <2>2. Laid(F, 0)
      BY <2>1 DEF Laid
    <2> QED
      BY <1>2, <2>2
  <1>5. PICK p \in Nat : m = p + 1 /\ p \in 0..n /\ p + 1 \in 1..n /\ ~(m <= p)
    BY <1>2, <1>4
  <1>6. Laid(F, p)
    BY <1>1, <1>5
  <1>7. PICK s, t : s = Chained(F, p) /\ t = F[m]
    OBVIOUS
  <1>8. s \in Seq(S) /\ t \in Seq(S)
    BY <1>3, <1>5, <1>7
  <1>9. Chained(F, m) = s \o t
    BY <1>5, <1>7, ChainedFacts
  <1>10. /\ Len(s) \in Nat /\ Len(t) \in Nat /\ Len(s \o t) = Len(s) + Len(t)
         /\ \A k \in 1..Len(s) : (s \o t)[k] = s[k]
         /\ \A k \in 1..Len(t) : (s \o t)[Len(s) + k] = t[k]
    BY <1>8, ConcatFacts
  <1>11. \A i \in 1..m : i \in 1..p \/ (i = m /\ i - 1 = p)
    BY <1>5
  <1>12. ASSUME NEW i \in 1..m, NEW k \in 1..Len(F[i])
         PROVE  /\ Len(Chained(F, i - 1)) + k \in 1..Len(Chained(F, m))
                /\ Chained(F, m)[Len(Chained(F, i - 1)) + k] = F[i][k]
    <2>1. CASE i \in 1..p
      <3>1. PICK l : l = Len(Chained(F, i - 1)) + k
        OBVIOUS
      <3>2. l \in 1..Len(s) /\ s[l] = F[i][k]
        BY <1>6, <1>7, <2>1, <3>1 DEF Laid
      <3>3. l \in 1..Len(s \o t) /\ (s \o t)[l] = F[i][k]
        BY <1>10, <3>2
      <3> QED
        BY <1>9, <3>1, <3>3
    <2>2. CASE i = m /\ i - 1 = p
      <3>1. k \in 1..Len(t) /\ F[i][k] = t[k] /\ Len(Chained(F, i - 1)) = Len(s)
        BY <1>7, <1>12, <2>2
      <3>2. Len(s) + k \in 1..Len(s \o t) /\ (s \o t)[Len(s) + k] = t[k]
        BY <1>10, <3>1
      <3> QED
        BY <1>9, <3>1, <3>2
    <2> QED
      BY <1>11, <2>1, <2>2
  <1>13. ASSUME NEW l \in 1..Len(Chained(F, m))
         PROVE  \E i \in 1..m : \E k \in 1..Len(F[i]) : l = Len(Chained(F, i - 1)) + k
    <2>1. l \in 1..(Len(s) + Len(t))
      BY <1>9, <1>10
    <2>2. CASE l <= Len(s)
      <3>1. l \in 1..Len(Chained(F, p))
        BY <1>7, <1>10, <2>1, <2>2
      <3>2. PICK i \in 1..p : \E k \in 1..Len(F[i]) : l = Len(Chained(F, i - 1)) + k
        BY <1>6, <3>1 DEF Laid
      <3>3. i \in 1..m
        BY <1>5
      <3> QED
        BY <3>2, <3>3
    <2>3. CASE ~(l <= Len(s))
      <3>1. PICK k \in 1..Len(t) : l = Len(s) + k
        <4>1. l - Len(s) \in 1..Len(t) /\ l = Len(s) + (l - Len(s))
          BY <1>10, <2>1, <2>3
        <4> QED
          BY <4>1
      <3>2. m \in 1..m /\ m - 1 = p
        BY <1>5
      <3>3. k \in 1..Len(F[m]) /\ l = Len(Chained(F, m - 1)) + k
        BY <1>7, <3>1, <3>2
      <3> QED
        BY <3>2, <3>3
    <2> QED
      BY <2>2, <2>3
  <1>14. Laid(F, m)
    BY <1>12, <1>13 DEF Laid
  <1> QED
    BY <1>2, <1>14

\* What a chain has, and that it repeats nothing if its parts do not.
LEMMA ChainedElements ==
  ASSUME NEW F, NEW S, NEW n \in Nat, \A i \in 1..n : F[i] \in Seq(S)
  PROVE  LET s == Chained(F, n)
         IN /\ s \in Seq(S) /\ Len(s) \in Nat
            /\ \A l \in 1..Len(s) : \E i \in 1..n : \E k \in 1..Len(F[i]) : s[l] = F[i][k]
            /\ \A i \in 1..n : \A k \in 1..Len(F[i]) : \E l \in 1..Len(s) : s[l] = F[i][k]
            /\ (\A i, j \in 1..n : \A k \in 1..Len(F[i]) : \A l \in 1..Len(F[j]) :
                  F[i][k] = F[j][l] => i = j /\ k = l)
               => \A l, m \in 1..Len(s) : s[l] = s[m] => l = m
  <1>1. n \in 0..n
    OBVIOUS
  <1>2. Laid(F, n)
    BY <1>1, ChainedLaid
  <1>3. PICK s : s = Chained(F, n)
    OBVIOUS
  <1>4. s \in Seq(S)
    BY <1>1, <1>3, ChainedSeq
  <1>5. Len(s) \in Nat
    BY <1>4
  <1>6. ASSUME NEW l \in 1..Len(s)
        PROVE  \E i \in 1..n : \E k \in 1..Len(F[i]) : l = Len(Chained(F, i - 1)) + k /\ s[l] = F[i][k]
    <2>1. PICK i \in 1..n : \E k \in 1..Len(F[i]) : l = Len(Chained(F, i - 1)) + k
      BY <1>2, <1>3 DEF Laid
    <2>2. PICK k \in 1..Len(F[i]) : l = Len(Chained(F, i - 1)) + k
      BY <2>1
    <2>3. s[l] = F[i][k]
      BY <1>2, <1>3, <2>2 DEF Laid
    <2> QED
      BY <2>2, <2>3
  <1>7. ASSUME NEW i \in 1..n, NEW k \in 1..Len(F[i]) PROVE \E l \in 1..Len(s) : s[l] = F[i][k]
    BY <1>2, <1>3 DEF Laid
  <1>8. ASSUME \A i, j \in 1..n : \A k \in 1..Len(F[i]) : \A l \in 1..Len(F[j]) :
                  F[i][k] = F[j][l] => i = j /\ k = l,
               NEW l \in 1..Len(s), NEW m \in 1..Len(s), s[l] = s[m]
        PROVE  l = m
    <2>1. PICK i \in 1..n : \E k \in 1..Len(F[i]) : l = Len(Chained(F, i - 1)) + k /\ s[l] = F[i][k]
      BY <1>6
    <2>2. PICK k \in 1..Len(F[i]) : l = Len(Chained(F, i - 1)) + k /\ s[l] = F[i][k]
      BY <2>1
    <2>3. PICK j \in 1..n : \E h \in 1..Len(F[j]) : m = Len(Chained(F, j - 1)) + h /\ s[m] = F[j][h]
      BY <1>6
    <2>4. PICK h \in 1..Len(F[j]) : m = Len(Chained(F, j - 1)) + h /\ s[m] = F[j][h]
      BY <2>3
    <2>5. i = j /\ k = h
      BY <1>8, <2>2, <2>4, SMTT(30)
    <2> QED
      BY <2>2, <2>4, <2>5
  <1> QED
    BY <1>3, <1>4, <1>5, <1>6, <1>7, <1>8

\* Every element of a part is in the chain.
LEMMA ChainedReaches ==
  ASSUME NEW F, NEW S, NEW n \in Nat, \A i \in 1..n : F[i] \in Seq(S)
  PROVE  \A i \in 1..n : \A k \in 1..Len(F[i]) : \E l \in 1..Len(Chained(F, n)) : Chained(F, n)[l] = F[i][k]
  <1>1. PICK s : s = Chained(F, n)
    OBVIOUS
  <1>2. n \in 0..n
    OBVIOUS
  <1>3. Laid(F, n)
    BY <1>2, ChainedLaid
  <1>4. ASSUME NEW i \in 1..n, NEW k \in 1..Len(F[i]) PROVE \E l \in 1..Len(s) : s[l] = F[i][k]
    BY <1>1, <1>3 DEF Laid
  <1> QED
    BY <1>1, <1>4

\* Counting a set by listing it.
Lists(g, n, T) ==
  /\ \A i \in 1..n : g[i] \in T
  /\ \A x \in T : \E i \in 1..n : g[i] = x
  /\ \A i, j \in 1..n : g[i] = g[j] => i = j

LEMMA ListedOnce ==
  ASSUME NEW T, NEW n \in Nat, NEW g, Lists(g, n, T)
  PROVE  IsFiniteSet(T) /\ Cardinality(T) = n
  <1> USE DEF Lists
  <1> DEFINE f == [i \in 1..n |-> g[i]]
  <1>1. f \in [1..n -> T] /\ \A i \in 1..n : f[i] = g[i]
    OBVIOUS
  <1> HIDE DEF f
  <1>2. f \in Injection(1..n, T)
    BY <1>1 DEF Injection, IsInjective
  <1>3. f \in Surjection(1..n, T)
    BY <1>1 DEF Surjection
  <1>4. ExistsBijection(1..n, T)
    BY <1>2, <1>3 DEF ExistsBijection, Bijection
  <1>5. IsFiniteSet(T)
    BY <1>4, FS_NatBijection
  <1> QED
    BY <1>4, <1>5, FS_CountingElements

\* The elements of a sequence are those of X, each once.
ListsAll(s, X) == Lists(s, Len(s), X)

LEMMA ChosenLists ==
  ASSUME NEW S, NEW s \in Seq(S), NEW X, ListsAll(s, X), NEW T, NEW keep,
         \A i : i \in keep <=> i \in 1..Len(s) /\ s[i] \in T
  PROVE  SubSeqAt(s, keep) \in Seq(S) /\ ListsAll(SubSeqAt(s, keep), X \cap T)
  <1>1. PICK kp \in SUBSET (1..Len(s)) : kp = keep
    <2>1. keep \in SUBSET (1..Len(s))
      OBVIOUS
    <2> QED
      BY <2>1
  <1>2. PICK t : t = SubSeqAt(s, kp)
    OBVIOUS
  <1>3. /\ t \in Seq(S)
        /\ \A k \in 1..Len(t) : \E i \in kp : t[k] = s[i]
        /\ \A i \in kp : \E k \in 1..Len(t) : t[k] = s[i]
    <2>1. \A p \in Seq(S) : \A q \in SUBSET (1..Len(p)) :
            /\ SubSeqAt(p, q) \in Seq(S)
            /\ \A k \in 1..Len(SubSeqAt(p, q)) : \E i \in q : SubSeqAt(p, q)[k] = p[i]
            /\ \A i \in q : \E k \in 1..Len(SubSeqAt(p, q)) : SubSeqAt(p, q)[k] = p[i]
      BY SubSeqAtFacts
    <2> QED
      BY <1>2, <2>1
  <1>4. \A k, l \in 1..Len(t) : t[k] = t[l] => k = l
    <2>1. \A p \in Seq(S) : \A q \in SUBSET (1..Len(p)) :
            (\A k, l \in 1..Len(p) : p[k] = p[l] => k = l)
            => \A k, l \in 1..Len(SubSeqAt(p, q)) : SubSeqAt(p, q)[k] = SubSeqAt(p, q)[l] => k = l
      BY SubSeqAtInjective
    <2>2. \A k, l \in 1..Len(s) : s[k] = s[l] => k = l
      BY DEF ListsAll, Lists
    <2> QED
      BY <1>2, <2>1, <2>2
  <1>5. \A k \in 1..Len(t) : t[k] \in X \cap T
    <2>1. \A i \in kp : s[i] \in X \cap T
      BY <1>1 DEF ListsAll, Lists
    <2> QED
      BY <1>3, <2>1
  <1>6. \A x \in X \cap T : \E k \in 1..Len(t) : t[k] = x
    <2> SUFFICES ASSUME NEW x \in X \cap T PROVE \E k \in 1..Len(t) : t[k] = x
      OBVIOUS
    <2>1. PICK i \in 1..Len(s) : s[i] = x
      BY DEF ListsAll, Lists
    <2>2. i \in kp
      BY <1>1, <2>1
    <2> QED
      BY <1>3, <2>1, <2>2
  <1> QED
    BY <1>1, <1>2, <1>3, <1>4, <1>5, <1>6 DEF ListsAll, Lists

\* Each of n sequences lists a set, and no two of them share an element.
ListsApart(F, n, S, X) ==
  /\ \A i \in 1..n : F[i] \in Seq(S) /\ ListsAll(F[i], X[i])
  /\ \A i, j \in 1..n : i # j => X[i] \cap X[j] = {}

All(X, n) == UNION {X[i] : i \in 1..n}

LEMMA ChainLists ==
  ASSUME NEW F, NEW S, NEW n \in Nat, NEW X, ListsApart(F, n, S, X)
  PROVE  Chained(F, n) \in Seq(S) /\ ListsAll(Chained(F, n), All(X, n))
  <1> USE DEF ListsApart, All
  <1>1. \A i \in 1..n : F[i] \in Seq(S)
    OBVIOUS
  <1>2. /\ Chained(F, n) \in Seq(S) /\ Len(Chained(F, n)) \in Nat
        /\ \A l \in 1..Len(Chained(F, n)) : \E i \in 1..n : \E k \in 1..Len(F[i]) : Chained(F, n)[l] = F[i][k]
        /\ \A i \in 1..n : \A k \in 1..Len(F[i]) : \E l \in 1..Len(Chained(F, n)) : Chained(F, n)[l] = F[i][k]
        /\ (\A i, j \in 1..n : \A k \in 1..Len(F[i]) : \A l \in 1..Len(F[j]) :
              F[i][k] = F[j][l] => i = j /\ k = l)
           => \A l, m \in 1..Len(Chained(F, n)) : Chained(F, n)[l] = Chained(F, n)[m] => l = m
    BY <1>1, ChainedElements
  <1>4. ASSUME NEW i \in 1..n
        PROVE  /\ \A k \in 1..Len(F[i]) : F[i][k] \in X[i]
               /\ \A x \in X[i] : \E k \in 1..Len(F[i]) : F[i][k] = x
               /\ \A k, l \in 1..Len(F[i]) : F[i][k] = F[i][l] => k = l
    <2>1. Lists(F[i], Len(F[i]), X[i])
      BY DEF ListsAll
    <2> QED
      BY <2>1 DEF Lists
  <1>5. ASSUME NEW l \in 1..Len(Chained(F, n)) PROVE Chained(F, n)[l] \in UNION {X[i] : i \in 1..n}
    <2>1. PICK i \in 1..n : \E k \in 1..Len(F[i]) : Chained(F, n)[l] = F[i][k]
      BY <1>2
    <2>2. Chained(F, n)[l] \in X[i]
      BY <1>4, <2>1
    <2> QED
      BY <2>2
  <1>6. ASSUME NEW x \in UNION {X[i] : i \in 1..n} PROVE \E l \in 1..Len(Chained(F, n)) : Chained(F, n)[l] = x
    <2>1. PICK i \in 1..n : x \in X[i]
      OBVIOUS
    <2>2. PICK k \in 1..Len(F[i]) : F[i][k] = x
      BY <1>4, <2>1
    <2> QED
      BY <1>2, <2>2
  <1>7. ASSUME NEW i \in 1..n, NEW j \in 1..n, NEW k \in 1..Len(F[i]), NEW l \in 1..Len(F[j]), F[i][k] = F[j][l]
        PROVE  i = j /\ k = l
    <2>1. F[i][k] \in X[i] /\ F[j][l] \in X[j]
      BY <1>4
    <2>2. i = j
      BY <1>7, <2>1
    <2> QED
      BY <1>4, <1>7, <2>2
  <1>8. \A l, m \in 1..Len(Chained(F, n)) : Chained(F, n)[l] = Chained(F, n)[m] => l = m
    BY <1>2, <1>7
  <1> QED
    BY <1>2, <1>5, <1>6, <1>8 DEF ListsAll, Lists

\* Each element replaced by another.
Renames(g, X, T, Y) ==
  /\ \A x \in X : g[x] \in T /\ g[x] \in Y
  /\ \A y \in Y : \E x \in X : g[x] = y
  /\ \A x, y \in X : g[x] = g[y] => x = y

LEMMA ImageLists ==
  ASSUME NEW S, NEW s \in Seq(S), NEW X, ListsAll(s, X), NEW T, NEW Y, NEW g, Renames(g, X, T, Y)
  PROVE  LET t == [i \in DOMAIN s |-> g[s[i]]]
         IN t \in Seq(T) /\ Len(t) = Len(s) /\ ListsAll(t, Y)
  <1> USE DEF Renames
  <1>1. PICK t : t = [i \in 1..Len(s) |-> g[s[i]]]
    OBVIOUS
  <1>2. /\ \A i \in 1..Len(s) : s[i] \in X
        /\ \A x \in X : \E i \in 1..Len(s) : s[i] = x
        /\ \A i, j \in 1..Len(s) : s[i] = s[j] => i = j
        /\ DOMAIN s = 1..Len(s) /\ Len(s) \in Nat
    BY DEF ListsAll, Lists
  <1>3. t \in Seq(T) /\ Len(t) = Len(s) /\ \A i \in 1..Len(s) : t[i] = g[s[i]]
    BY <1>1, <1>2
  <1>4. \A i \in 1..Len(t) : t[i] \in Y
    BY <1>2, <1>3
  <1>5. \A y \in Y : \E i \in 1..Len(t) : t[i] = y
    <2> SUFFICES ASSUME NEW y \in Y PROVE \E i \in 1..Len(t) : t[i] = y
      OBVIOUS
    <2>1. PICK x \in X : g[x] = y
      OBVIOUS
    <2>2. PICK i \in 1..Len(s) : s[i] = x
      BY <1>2
    <2> QED
      BY <1>3, <2>1, <2>2
  <1>6. \A i, j \in 1..Len(t) : t[i] = t[j] => i = j
    BY <1>2, <1>3
  <1> QED
    BY <1>1, <1>2, <1>3, <1>4, <1>5, <1>6 DEF ListsAll, Lists

-----------------------------------------------------------------------------
(* Places in an order *)

\* above[i] are the places before i in a strict total order of 1..n.
Orders(above, n) ==
  /\ \A i \in 1..n : above[i] \in SUBSET (1..n) /\ i \notin above[i]
  /\ \A i, j \in 1..n : i # j => i \in above[j] \/ j \in above[i]
  /\ \A i, j \in 1..n : i \in above[j] => above[i] \subseteq above[j]

LEMMA EveryPlaceOnce ==
  ASSUME NEW n \in Nat, NEW above, Orders(above, n)
  PROVE  /\ \A i \in 1..n : Cardinality(above[i]) \in 0..(n - 1)
         /\ \A k \in 1..n : \E i \in 1..n : Cardinality(above[i]) = k - 1
         /\ \A i, j \in 1..n : i \in above[j] <=> Cardinality(above[i]) < Cardinality(above[j])
         /\ \A i, j \in 1..n : Cardinality(above[i]) = Cardinality(above[j]) => i = j
  <1>1. /\ \A i \in 1..n : above[i] \in SUBSET (1..n) /\ i \notin above[i]
        /\ \A i, j \in 1..n : i # j => i \in above[j] \/ j \in above[i]
        /\ \A i, j \in 1..n : i \in above[j] => above[i] \subseteq above[j]
    BY DEF Orders
  <1>2. IsFiniteSet(1..n) /\ Cardinality(1..n) = n
    <2>1. 1 \in Int /\ n \in Int
      OBVIOUS
    <2>2. IsFiniteSet(1..n) /\ Cardinality(1..n) = IF 1 > n THEN 0 ELSE n - 1 + 1
      BY <2>1, FS_Interval
    <2> QED
      BY <2>2
  <1>3. \A T \in SUBSET (1..n) : IsFiniteSet(T) /\ Cardinality(T) \in Nat /\ Cardinality(T) <= n /\ (Cardinality(T) = n => T = 1..n)
    <2> SUFFICES ASSUME NEW T \in SUBSET (1..n)
                 PROVE  IsFiniteSet(T) /\ Cardinality(T) \in Nat /\ Cardinality(T) <= n /\ (Cardinality(T) = n => T = 1..n)
      OBVIOUS
    <2>1. IsFiniteSet(T) /\ Cardinality(T) <= Cardinality(1..n) /\ (Cardinality(1..n) = Cardinality(T) => 1..n = T)
      BY <1>2, FS_Subset
    <2>2. Cardinality(T) \in Nat
      BY <2>1, FS_CardinalityType
    <2> QED
      BY <1>2, <2>1, <2>2
  <1>4. \A i \in 1..n : Cardinality(above[i]) \in Nat /\ Cardinality(above[i]) < n
    <2> SUFFICES ASSUME NEW i \in 1..n PROVE Cardinality(above[i]) \in Nat /\ Cardinality(above[i]) < n
      OBVIOUS
    <2>1. above[i] \in SUBSET (1..n) /\ above[i] # 1..n
      BY <1>1
    <2>2. Cardinality(above[i]) \in Nat /\ Cardinality(above[i]) <= n /\ Cardinality(above[i]) # n
      BY <1>3, <2>1
    <2> QED
      BY <2>2
  <1>5. ASSUME NEW i \in 1..n, NEW j \in 1..n, i \in above[j] PROVE Cardinality(above[i]) < Cardinality(above[j])
    <2>1. above[i] \in SUBSET above[j] /\ above[i] # above[j] /\ above[j] \in SUBSET (1..n)
      BY <1>1, <1>5
    <2>2. IsFiniteSet(above[j])
      BY <1>3, <2>1
    <2>3. Cardinality(above[i]) <= Cardinality(above[j]) /\ (Cardinality(above[j]) = Cardinality(above[i]) => above[j] = above[i])
      BY <2>1, <2>2, FS_Subset
    <2> QED
      BY <1>4, <2>1, <2>3
  <1>6. \A i, j \in 1..n : i \in above[j] <=> Cardinality(above[i]) < Cardinality(above[j])
    <2> SUFFICES ASSUME NEW i \in 1..n, NEW j \in 1..n, Cardinality(above[i]) < Cardinality(above[j])
                 PROVE  i \in above[j]
      BY <1>5
    <2>1. Cardinality(above[i]) \in Nat /\ Cardinality(above[j]) \in Nat
      BY <1>4
    <2>2. i # j
      BY <2>1
    <2>3. j \notin above[i]
      BY <1>5, <2>1
    <2> QED
      BY <1>1, <2>2, <2>3
  <1>7. \A i, j \in 1..n : Cardinality(above[i]) = Cardinality(above[j]) => i = j
    <2> SUFFICES ASSUME NEW i \in 1..n, NEW j \in 1..n, Cardinality(above[i]) = Cardinality(above[j]), i # j
                 PROVE  FALSE
      OBVIOUS
    <2>1. i \in above[j] \/ j \in above[i]
      BY <1>1
    <2> QED
      BY <1>4, <1>5, <2>1
  <1>8. \A k \in 1..n : \E i \in 1..n : Cardinality(above[i]) = k - 1
    <2>1. PICK f : f = [i \in 1..n |-> Cardinality(above[i]) + 1]
      OBVIOUS
    <2>2. f \in [1..n -> 1..n] /\ \A i \in 1..n : f[i] = Cardinality(above[i]) + 1
      BY <1>4, <2>1, SMTT(30)
    <2>3. IsInjective(f)
      <3>1. DOMAIN f = 1..n
        BY <2>2
      <3>2. \A i, j \in 1..n : f[i] = f[j] => i = j
        BY <1>4, <1>7, <2>2
      <3> QED
        BY <3>1, <3>2 DEF IsInjective
    <2>4. f \in Injection(1..n, 1..n)
      BY <2>2, <2>3 DEF Injection
    <2>5. f \in Surjection(1..n, 1..n)
      BY <1>2, <2>4, FS_Injection
    <2>6. \A k \in 1..n : \E i \in 1..n : f[i] = k
      BY <2>5 DEF Surjection
    <2> SUFFICES ASSUME NEW k \in 1..n PROVE \E i \in 1..n : Cardinality(above[i]) = k - 1
      OBVIOUS
    <2>7. PICK i \in 1..n : f[i] = k
      BY <2>6
    <2>8. Cardinality(above[i]) = k - 1
      <3>1. PICK m \in Nat : m = Cardinality(above[i])
        BY <1>4
      <3>2. m + 1 = k
        BY <2>2, <2>7, <3>1
      <3>3. m = k - 1
        BY <3>2
      <3> QED
        BY <3>1, <3>3
    <2> QED
      BY <2>8
  <1> QED
    BY <1>4, <1>6, <1>7, <1>8

LEMMA OrderedLists ==
  ASSUME NEW S, NEW s \in Seq(S), NEW above, Orders(above, Len(s)), NEW X, ListsAll(s, X)
  PROVE  LET t == InOrder(s, above)
         IN /\ t \in Seq(S) /\ Len(t) = Len(s) /\ ListsAll(t, X)
            /\ \A k, l \in 1..Len(s) : k < l =>
                 \E i, j \in 1..Len(s) : i \in above[j] /\ t[k] = s[i] /\ t[l] = s[j]
  <1>1. PICK n \in Nat : n = Len(s)
    OBVIOUS
  <1>2. DOMAIN s = 1..n /\ \A i \in 1..n : s[i] \in S
    BY <1>1
  <1>3. PICK t : t = InOrder(s, above)
    OBVIOUS
  <1>4. /\ \A i \in 1..n : Cardinality(above[i]) \in 0..(n - 1)
        /\ \A k \in 1..n : \E i \in 1..n : Cardinality(above[i]) = k - 1
        /\ \A i, j \in 1..n : i \in above[j] <=> Cardinality(above[i]) < Cardinality(above[j])
        /\ \A i, j \in 1..n : Cardinality(above[i]) = Cardinality(above[j]) => i = j
    BY <1>1, EveryPlaceOnce, SMTT(30)
  <1>5. PICK at : at = [k \in 1..n |-> CHOOSE i \in 1..n : Cardinality(above[i]) = k - 1]
    OBVIOUS
  <1>6. ASSUME NEW k \in 1..n PROVE at[k] \in 1..n /\ Cardinality(above[at[k]]) = k - 1
    <2>1. \E i \in 1..n : Cardinality(above[i]) = k - 1
      BY <1>4
    <2>2. at[k] = CHOOSE i \in 1..n : Cardinality(above[i]) = k - 1
      BY <1>5
    <2> QED
      BY <2>1, <2>2
  <1>7. t = [k \in 1..n |-> s[at[k]]]
    BY <1>2, <1>3, <1>5 DEF InOrder
  <1>8. t \in Seq(S) /\ Len(t) = n /\ \A k \in 1..n : t[k] = s[at[k]]
    BY <1>2, <1>6, <1>7
  <1>9. /\ \A i \in 1..n : s[i] \in X
        /\ \A x \in X : \E i \in 1..n : s[i] = x
        /\ \A i, j \in 1..n : s[i] = s[j] => i = j
    BY <1>1 DEF ListsAll, Lists
  <1>10. \A k \in 1..n : t[k] \in X
    BY <1>6, <1>8, <1>9
  <1>11. ASSUME NEW x \in X PROVE \E k \in 1..n : t[k] = x
    <2>1. PICK i \in 1..n : s[i] = x
      BY <1>9
    <2>2. PICK m \in 0..(n - 1) : m = Cardinality(above[i])
      BY <1>4
    <2>3. PICK k \in 1..n : k = m + 1 /\ m = k - 1
      <3>1. m + 1 \in 1..n /\ m = (m + 1) - 1
        OBVIOUS
      <3> QED
        BY <3>1
    <2>4. Cardinality(above[at[k]]) = Cardinality(above[i])
      BY <1>6, <2>2, <2>3
    <2>5. at[k] = i
      BY <1>4, <1>6, <2>4
    <2> QED
      BY <1>8, <2>1, <2>5
  <1>12. ASSUME NEW k \in 1..n, NEW l \in 1..n, t[k] = t[l] PROVE k = l
    <2>1. at[k] = at[l]
      <3>1. at[k] \in 1..n /\ at[l] \in 1..n
        BY <1>6
      <3>2. s[at[k]] = s[at[l]]
        BY <1>8, <1>12
      <3>3. \A i, j \in 1..n : s[i] = s[j] => i = j
        BY <1>9
      <3> QED
        BY <3>1, <3>2, <3>3
    <2>2. k - 1 = l - 1
      BY <1>6, <2>1
    <2> QED
      BY <2>2
  <1>13. ASSUME NEW k \in 1..n, NEW l \in 1..n, k < l
         PROVE  \E i, j \in 1..n : i \in above[j] /\ t[k] = s[i] /\ t[l] = s[j]
    <2>1. PICK i, j \in 1..n : i = at[k] /\ j = at[l]
      BY <1>6
    <2>2. Cardinality(above[i]) = k - 1 /\ Cardinality(above[j]) = l - 1 /\ k - 1 < l - 1
      BY <1>6, <1>13, <2>1
    <2>3. i \in above[j]
      BY <1>4, <2>2
    <2> QED
      BY <1>8, <2>1, <2>3
  <1>14. Lists(t, n, X)
    BY <1>10, <1>11, <1>12 DEF Lists
  <1> QED
    BY <1>1, <1>3, <1>8, <1>13, <1>14 DEF ListsAll

\* The other way round.
LEMMA MirrorLists ==
  ASSUME NEW S, NEW s \in Seq(S), NEW X, ListsAll(s, X)
  PROVE  LET t == [i \in 1..Len(s) |-> s[(Len(s) - i) + 1]]
         IN t \in Seq(S) /\ ListsAll(t, X)
  <1>1. PICK n \in Nat : n = Len(s)
    OBVIOUS
  <1>2. PICK t : t = [i \in 1..n |-> s[(n - i) + 1]]
    OBVIOUS
  <1>3. \A i \in 1..n : (n - i) + 1 \in 1..n /\ (n - ((n - i) + 1)) + 1 = i
    OBVIOUS
  <1>4. t \in Seq(S) /\ Len(t) = n /\ \A i \in 1..n : t[i] = s[(n - i) + 1]
    BY <1>1, <1>2, <1>3
  <1>5. /\ \A i \in 1..n : s[i] \in X
        /\ \A x \in X : \E i \in 1..n : s[i] = x
        /\ \A i, j \in 1..n : s[i] = s[j] => i = j
    BY <1>1 DEF ListsAll, Lists
  <1>6. \A x \in X : \E i \in 1..n : t[i] = x
    <2> SUFFICES ASSUME NEW x \in X PROVE \E i \in 1..n : t[i] = x
      OBVIOUS
    <2>1. PICK j \in 1..n : s[j] = x
      BY <1>5
    <2>2. PICK i \in 1..n : i = (n - j) + 1 /\ (n - i) + 1 = j
      BY <1>3
    <2> QED
      BY <1>4, <2>1, <2>2
  <1>7. \A i, j \in 1..n : t[i] = t[j] => i = j
    <2> SUFFICES ASSUME NEW i \in 1..n, NEW j \in 1..n, t[i] = t[j] PROVE i = j
      OBVIOUS
    <2>1. (n - i) + 1 = (n - j) + 1
      BY <1>3, <1>4, <1>5
    <2> QED
      BY <2>1
  <1>8. \A i \in 1..n : t[i] \in X
    BY <1>3, <1>4, <1>5
  <1> QED
    BY <1>1, <1>2, <1>4, <1>6, <1>7, <1>8 DEF ListsAll, Lists

-----------------------------------------------------------------------------
(* Sequences put together from the arrangements of one set after another *)

\* p has every element of C once, in the order of T.
Arranged(T, p, C) ==
  /\ Len(p) \in Nat /\ p \in [1..Len(p) -> C]
  /\ \A i, j \in 1..Len(p) : i # j => p[i] # p[j]
  /\ \A c \in C : \E i \in 1..Len(p) : p[i] = c
  /\ \A i, j \in 1..Len(p) : i < j => T[p[i]] <= T[p[j]]

LEMMA ArrangeConcat ==
  ASSUME NEW U, NEW T \in [U -> Nat], NEW C \in SUBSET U, NEW D \in SUBSET U, NEW p, NEW q,
         Arranged(T, p, C), Arranged(T, q, D), \A c \in C, d \in D : T[c] < T[d]
  PROVE  Arranged(T, p \o q, C \cup D)
  <1> DEFINE n == Len(p)
             m == Len(q)
             pq == p \o q
             E == C \cup D
  <1>1. n \in Nat /\ m \in Nat /\ p \in [1..n -> C] /\ q \in [1..m -> D]
    BY DEF Arranged
  <1>2. p \in Seq(E) /\ q \in Seq(E)
    <2>1. p \in [1..n -> E] /\ q \in [1..m -> E]
      BY <1>1
    <2> HIDE DEF E
    <2> QED
      BY <1>1, <2>1
  <1> HIDE DEF E
  <1>3. /\ pq \in Seq(E) /\ Len(pq) = n + m
        /\ \A i \in 1..n : pq[i] = p[i]
        /\ \A i \in 1..m : pq[n + i] = q[i]
    BY <1>2
  <1>4. Len(pq) \in Nat /\ pq \in [1..Len(pq) -> E]
    <2> HIDE DEF pq
    <2> QED
      BY <1>3
  <1> HIDE DEF n, m, pq
  <1>5. \A i \in 1..(n + m) : \/ i \in 1..n /\ pq[i] = p[i] /\ p[i] \in C
                              \/ i - n \in 1..m /\ pq[i] = q[i - n] /\ q[i - n] \in D
    <2> SUFFICES ASSUME NEW i \in 1..(n + m)
                 PROVE  \/ i \in 1..n /\ pq[i] = p[i] /\ p[i] \in C
                        \/ i - n \in 1..m /\ pq[i] = q[i - n] /\ q[i - n] \in D
      OBVIOUS
    <2>1. CASE i \in 1..n
      BY <1>1, <1>3, <2>1
    <2>2. CASE i \notin 1..n
      <3>1. i - n \in 1..m /\ n + (i - n) = i
        BY <1>1, <2>2
      <3> QED
        BY <1>1, <1>3, <3>1
    <2> QED
      BY <2>1, <2>2
  <1>6. \A c \in C, d \in D : c # d /\ T[c] <= T[d] /\ T[c] \in Nat /\ T[d] \in Nat /\ ~(T[d] <= T[c])
    <2> SUFFICES ASSUME NEW c \in C, NEW d \in D
                 PROVE  c # d /\ T[c] <= T[d] /\ T[c] \in Nat /\ T[d] \in Nat /\ ~(T[d] <= T[c])
      OBVIOUS
    <2>1. T[c] \in Nat /\ T[d] \in Nat /\ T[c] < T[d]
      OBVIOUS
    <2> QED
      BY <2>1
  <1>7. ASSUME NEW i \in 1..(n + m), NEW j \in 1..(n + m), i < j
        PROVE  pq[i] # pq[j] /\ T[pq[i]] <= T[pq[j]]
    <2>1. CASE i \in 1..n /\ j \in 1..n
      BY <1>3, <1>7, <2>1 DEF Arranged, n
    <2>2. CASE i \in 1..n /\ j \notin 1..n
      <3>1. pq[i] \in C
        BY <1>1, <1>3, <2>2
      <3>2. pq[j] \in D
        BY <1>5, <2>2
      <3> QED
        BY <1>6, <3>1, <3>2
    <2>3. CASE i \notin 1..n
      <3>1. j \notin 1..n /\ i - n < j - n
        BY <1>1, <1>7, <2>3
      <3>2. /\ i - n \in 1..m /\ pq[i] = q[i - n]
            /\ j - n \in 1..m /\ pq[j] = q[j - n]
        BY <1>5, <2>3, <3>1
      <3>3. \A a, b \in 1..m : a < b => q[a] # q[b] /\ T[q[a]] <= T[q[b]]
        BY <1>1 DEF Arranged, m
      <3> QED
        BY <3>1, <3>2, <3>3
    <2> QED
      BY <2>1, <2>2, <2>3
  <1>8. \A i, j \in 1..(n + m) : i # j => pq[i] # pq[j]
    <2>1. \A i, j \in 1..(n + m) : i # j => i < j \/ j < i
      BY <1>1
    <2> QED
      BY <1>7, <2>1
  <1>9. ASSUME NEW c \in E PROVE \E i \in 1..(n + m) : pq[i] = c
    <2>1. CASE c \in C
      <3>1. PICK i \in 1..n : p[i] = c
        BY <2>1 DEF Arranged, n
      <3>2. i \in 1..(n + m) /\ pq[i] = c
        BY <1>1, <1>3, <3>1
      <3> QED
        BY <3>2
    <2>2. CASE c \in D
      <3>1. PICK i \in 1..m : q[i] = c
        BY <2>2 DEF Arranged, m
      <3>2. n + i \in 1..(n + m) /\ pq[n + i] = c
        BY <1>1, <1>3, <3>1
      <3> QED
        BY <3>2
    <2> QED
      BY <2>1, <2>2 DEF E
  <1>10. Arranged(T, pq, E)
    BY <1>3, <1>4, <1>7, <1>8, <1>9 DEF Arranged
  <1> QED
    BY <1>10 DEF pq, E

LEMMA SeqsArranged ==
  ASSUME NEW U, NEW T \in [U -> Nat], NEW S \in SUBSET U, IsFiniteSet(S), NEW t \in Nat,
         \A c \in S : T[c] = t, NEW q \in SetToSeqs(S)
  PROVE  Arranged(T, q, S)
  <1> DEFINE n == Cardinality(S)
  <1>1. n \in Nat
    BY FS_CardinalityType
  <1>2. q \in [1..n -> S] /\ \A i, j \in 1..n : i # j => q[i] # q[j]
    BY DEF SetToSeqs
  <1> HIDE DEF n
  <1>3. Len(q) = n
    BY <1>1, <1>2
  <1>4. q \in Injection(1..n, S)
    BY <1>2 DEF Injection, IsInjective
  <1>5. q \in Surjection(1..n, S)
    <2>1. IsFiniteSet(1..n) /\ Cardinality(1..n) = n
      BY <1>1, FS_Interval
    <2> QED
      BY <1>4, <2>1, FS_Injection DEF n
  <1>6. \A c \in S : \E i \in 1..n : q[i] = c
    BY <1>5 DEF Surjection
  <1>7. \A i, j \in 1..n : T[q[i]] = t /\ T[q[j]] = t
    BY <1>2
  <1>8. t <= t
    OBVIOUS
  <1> QED
    BY <1>1, <1>2, <1>3, <1>6, <1>7, <1>8 DEF Arranged

Joined(P, Q) == {p \o q : p \in P, q \in Q}

LEMMA JoinedFrom ==
  \A P, Q, r : r \in Joined(P, Q) => \E p \in P : \E q \in Q : r = p \o q
  BY DEF Joined

\* The recursive functions of ChangeIndexes and Rankings, for what they append
\* at each step.
Appended(N, A, g) ==
  g = [t \in 0..N |-> IF t = 0 THEN A[t] ELSE Joined(g[t - 1], A[t])]

LEMMA AppendedExists ==
  ASSUME NEW N \in Nat, NEW A
  PROVE  \E g : Appended(N, A, g)
  <1> DEFINE Without == {n \in Nat : ~ \E g : Appended(n, A, g)}
  <1> SUFFICES ASSUME Without # {} PROVE FALSE
    OBVIOUS
  <1>1. PICK n \in Without : \A m \in Without : n <= m
    <2>1. Without \subseteq Nat
      OBVIOUS
    <2> HIDE DEF Without
    <2> QED
      BY <2>1, LeastNat
  <1>2. CASE n = 0
    <2> DEFINE g == [t \in 0..0 |-> A[t]]
    <2>1. \A t \in 0..0 : t = 0
      OBVIOUS
    <2>2. Appended(0, A, g)
      BY <2>1 DEF Appended
    <2> QED
      BY <1>1, <1>2, <2>2
  <1>3. CASE n # 0
    <2>1. n \in Nat /\ n - 1 \in Nat /\ n - 1 < n
      BY <1>3
    <2>2. PICK h : Appended(n - 1, A, h)
      BY <1>1, <2>1
    <2> DEFINE g == [t \in 0..n |-> IF t = n THEN Joined(h[n - 1], A[n]) ELSE h[t]]
    <2>3. \A t \in 0..(n - 1) : t \in 0..n /\ g[t] = h[t]
      BY <2>1
    <2>4. ASSUME NEW t \in 0..n
          PROVE  g[t] = IF t = 0 THEN A[t] ELSE Joined(g[t - 1], A[t])
      <3>1. CASE t = n
        <4>1. g[t - 1] = h[n - 1]
          BY <2>1, <2>3, <3>1
        <4> QED
          BY <1>3, <3>1, <4>1
      <3>2. CASE t # n
        <4>1. t \in 0..(n - 1)
          BY <2>1, <3>2
        <4>2. h[t] = IF t = 0 THEN A[t] ELSE Joined(h[t - 1], A[t])
          BY <2>2, <4>1 DEF Appended
        <4>3. t # 0 => t - 1 \in 0..(n - 1)
          BY <2>1, <4>1
        <4> QED
          BY <2>3, <4>1, <4>2, <4>3
      <3> QED
        BY <3>1, <3>2
    <2>5. DOMAIN g = 0..n /\ g = [t \in 0..n |-> g[t]]
      OBVIOUS
    <2> HIDE DEF g
    <2>6. Appended(n, A, g)
      BY <2>4, <2>5 DEF Appended
    <2> QED
      BY <1>1, <2>6
  <1> QED
    BY <1>2, <1>3

AtTime(T, C, t) == {c \in C : T[c] = t}
Within(T, C, since, t) == {c \in C : since <= T[c] /\ T[c] <= t}

LEMMA AppendedArranged ==
  ASSUME NEW U, NEW T \in [U -> Nat], NEW C \in SUBSET U, IsFiniteSet(C),
         NEW N \in Nat, NEW since \in Nat, NEW A,
         \A t \in 0..N : A[t] = IF t < since THEN {<<>>} ELSE SetToSeqs(AtTime(T, C, t)),
         NEW g, Appended(N, A, g)
  PROVE  \A t \in 0..N : \A p \in g[t] : Arranged(T, p, Within(T, C, since, t))
  <1> DEFINE In(t) == Within(T, C, since, t)
             At(t) == {c \in C : since <= T[c] /\ T[c] = t}
             Wrong == {t \in 0..N : \E p \in g[t] : ~Arranged(T, p, In(t))}
  <1> USE DEF Within, AtTime
  <1>0. \A c \in C : T[c] \in Nat
    OBVIOUS
  <1>1. ASSUME NEW t \in 0..N, NEW q \in A[t] PROVE Arranged(T, q, At(t))
    <2>1. CASE t < since
      <3>1. At(t) = {}
        BY <1>0, <2>1
      <3>2. q = <<>>
        BY <2>1
      <3>3. Len(<<>>) = 0 /\ <<>> \in [1..0 -> {}]
        OBVIOUS
      <3> QED
        BY <3>1, <3>2, <3>3 DEF Arranged
    <2>2. CASE ~(t < since)
      <3>1. At(t) = {c \in C : T[c] = t}
        BY <1>0, <2>2
      <3>2. At(t) \in SUBSET U /\ At(t) \in SUBSET C
        OBVIOUS
      <3>3. IsFiniteSet(At(t))
        <4> HIDE DEF At
        <4> QED
          BY <3>2, FS_Subset
      <3>4. q \in SetToSeqs(At(t)) /\ \A c \in At(t) : T[c] = t
        BY <2>2, <3>1
      <3> HIDE DEF At
      <3> QED
        BY <3>2, <3>3, <3>4, SeqsArranged
    <2> QED
      BY <2>1, <2>2
  <1>2. /\ g[0] = A[0]
        /\ \A t \in 0..N : t # 0 => g[t] = Joined(g[t - 1], A[t])
    <2>1. \A t \in 0..N : g[t] = IF t = 0 THEN A[t] ELSE Joined(g[t - 1], A[t])
      BY DEF Appended
    <2> QED
      BY <2>1
  <1> SUFFICES ASSUME Wrong # {} PROVE FALSE
    OBVIOUS
  <1>3. PICK t \in Wrong : \A m \in Wrong : t <= m
    <2>1. Wrong \subseteq Nat
      OBVIOUS
    <2> HIDE DEF Wrong
    <2> QED
      BY <2>1, LeastNat
  <1>4. PICK r \in g[t] : ~Arranged(T, r, In(t))
    BY <1>3
  <1>5. t \in 0..N
    BY <1>3
  <1>6. CASE t = 0
    <2>1. In(0) = At(0)
      BY <1>0
    <2> HIDE DEF In, At
    <2> QED
      BY <1>1, <1>2, <1>4, <1>5, <1>6, <2>1
  <1>7. CASE t # 0
    <2>1. t - 1 \in 0..N /\ t - 1 < t
      BY <1>5, <1>7
    <2>2. t - 1 \notin Wrong
      <3> HIDE DEF Wrong
      <3> QED
        BY <1>3, <1>5, <2>1
    <2>3. PICK p \in g[t - 1], q \in A[t] : r = p \o q
      <3> DEFINE P == g[t - 1]
                 Q == A[t]
      <3>1. r \in Joined(P, Q)
        BY <1>2, <1>4, <1>5, <1>7
      <3> HIDE DEF P, Q, Wrong, In, At
      <3>2. \E p \in P : \E q \in Q : r = p \o q
        BY <3>1, JoinedFrom
      <3> QED
        BY <3>2 DEF P, Q
    <2>4. Arranged(T, p, In(t - 1))
      BY <2>1, <2>2
    <2>5. Arranged(T, q, At(t))
      BY <1>1, <1>5
    <2>6. In(t - 1) \in SUBSET U /\ At(t) \in SUBSET U /\ In(t) = In(t - 1) \cup At(t)
      BY <1>0, <1>5, <1>7
    <2>7. \A c \in In(t - 1), d \in At(t) : T[c] < T[d]
      BY <1>0, <1>5, <1>7
    <2> HIDE DEF In, At
    <2>8. Arranged(T, p \o q, In(t - 1) \cup At(t))
      BY <2>4, <2>5, <2>6, <2>7, ArrangeConcat
    <2> QED
      BY <1>4, <2>3, <2>6, <2>8
  <1> QED
    BY <1>6, <1>7
=============================================================================
