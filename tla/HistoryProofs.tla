--------------------------- MODULE HistoryProofs ----------------------------
(***************************************************************************)
(* Theorems about the two indexes for every history, clock and number of   *)
(* commits: the binary search finds the latest commit, a rebuild does not  *)
(* rewrite the past, the change events lead from one snapshot to the next, *)
(* pages of them tile the history, and the volatility tables count commits.*)
(***************************************************************************)
EXTENDS History, PositionProofs, SequenceTheorems

-----------------------------------------------------------------------------
(* Sorting *)

\* The order of the commits of a log l: by time, then by number.
Earlier(l, a, b) == l[a].time < l[b].time \/ (l[a].time = l[b].time /\ a < b)

Sorted(l, idx) == \A i, j \in DOMAIN idx : i < j => Earlier(l, idx[i], idx[j])

\* An injection of a finite set into itself misses nothing.
LEMMA InjectionCovers ==
  ASSUME NEW n \in Nat, NEW f \in [1..n -> 1..n], IsInjective(f)
  PROVE  \A x \in 1..n : \E i \in 1..n : f[i] = x
  <1>1. IsFiniteSet(1..n)
    BY FS_Interval
  <1>2. Range(f) \in SUBSET (1..n)
    BY DEF Range
  <1>3. f \in Injection(1..n, 1..n)
    BY DEF Injection
  <1>4. f \in Bijection(1..n, Range(f))
    BY <1>3, Fun_InjMeansBijImage
  <1>5. ExistsBijection(1..n, Range(f))
    BY <1>4 DEF ExistsBijection
  <1>6. Cardinality(Range(f)) = Cardinality(1..n)
    BY <1>1, <1>5, FS_Bijection
  <1>7. Range(f) = 1..n
    BY <1>1, <1>2, <1>6, FS_Subset
  <1> QED
    BY <1>7 DEF Range

\* Every log can be sorted: the place of a commit is given by the number of
\* commits that are earlier.
LEMMA SortExists ==
  ASSUME NEW l, NEW n \in Nat, \A a \in 1..n : l[a].time \in Nat
  PROVE  \E s \in [1..n -> 1..n] : \A i, j \in 1..n : i < j => Earlier(l, s[i], s[j])
  <1> DEFINE below(a) == {b \in 1..n : Earlier(l, b, a)}
             rank == [a \in 1..n |-> Cardinality(below(a)) + 1]
  <1>1. IsFiniteSet(1..n) /\ Cardinality(1..n) = n
    BY FS_Interval
  <1>2. \A a \in 1..n : ~Earlier(l, a, a)
    BY DEF Earlier
  <1>3. \A a, b, c \in 1..n : Earlier(l, a, b) /\ Earlier(l, b, c) => Earlier(l, a, c)
    BY DEF Earlier
  <1>4. \A a, b \in 1..n : a # b => Earlier(l, a, b) \/ Earlier(l, b, a)
    BY DEF Earlier
  <1>5. \A a \in 1..n : IsFiniteSet(below(a)) /\ Cardinality(below(a)) \in Nat
    <2> TAKE a \in 1..n
    <2>1. below(a) \in SUBSET (1..n)
      OBVIOUS
    <2> QED
      BY <1>1, <2>1, FS_Subset, FS_CardinalityType
  <1>6. ASSUME NEW a \in 1..n, NEW T \in SUBSET (1..n), below(a) \subseteq T, a \in T
        PROVE  Cardinality(below(a)) + 1 <= Cardinality(T)
    <2>1. a \notin below(a)
      BY <1>2
    <2>2. Cardinality(below(a) \cup {a}) = Cardinality(below(a)) + 1
      BY <1>5, <2>1, FS_AddElement
    <2>3. IsFiniteSet(T)
      BY <1>1, FS_Subset
    <2>4. below(a) \cup {a} \in SUBSET T
      BY <1>6
    <2> HIDE DEF below
    <2> QED
      BY <2>2, <2>3, <2>4, FS_Subset
  <1>7. rank \in [1..n -> 1..n]
    <2>1. ASSUME NEW a \in 1..n PROVE Cardinality(below(a)) + 1 \in 1..n
      <3>1. Cardinality(below(a)) + 1 <= n
        BY <1>1, <1>6
      <3> HIDE DEF below
      <3> QED
        BY <1>5, <3>1
    <2> HIDE DEF below
    <2> QED
      BY <2>1
  <1>8. ASSUME NEW a \in 1..n, NEW b \in 1..n, Earlier(l, a, b) PROVE rank[a] < rank[b]
    <2>1. below(a) \subseteq below(b) /\ a \in below(b) /\ below(b) \in SUBSET (1..n)
      BY <1>3, <1>8
    <2>2. Cardinality(below(a)) + 1 <= Cardinality(below(b))
      BY <1>6, <2>1
    <2>3. rank[a] = Cardinality(below(a)) + 1 /\ rank[b] = Cardinality(below(b)) + 1
      OBVIOUS
    <2>4. Cardinality(below(a)) \in Nat /\ Cardinality(below(b)) \in Nat
      BY <1>5
    <2> HIDE DEF below, rank
    <2> QED
      BY <2>2, <2>3, <2>4
  <1> HIDE DEF rank, below
  <1>9. IsInjective(rank)
    <2>1. ASSUME NEW a \in 1..n, NEW b \in 1..n, rank[a] = rank[b] PROVE a = b
      <3> SUFFICES ASSUME a # b PROVE FALSE
        OBVIOUS
      <3>1. rank[a] < rank[b] \/ rank[b] < rank[a]
        BY <1>4, <1>8
      <3>2. rank[a] \in Nat /\ rank[b] \in Nat
        BY <1>7
      <3> QED
        BY <2>1, <3>1, <3>2
    <2> QED
      BY <1>7, <2>1 DEF IsInjective
  <1>10. \A x \in 1..n : \E a \in 1..n : rank[a] = x
    BY <1>7, <1>9, InjectionCovers
  <1> DEFINE s == [i \in 1..n |-> CHOOSE a \in 1..n : rank[a] = i]
  <1>11. \A i \in 1..n : s[i] \in 1..n /\ rank[s[i]] = i
    BY <1>10
  <1>12. s \in [1..n -> 1..n]
    BY <1>11
  <1> HIDE DEF s
  <1>13. ASSUME NEW i \in 1..n, NEW j \in 1..n, i < j PROVE Earlier(l, s[i], s[j])
    <2>1. rank[s[i]] < rank[s[j]] /\ s[i] \in 1..n /\ s[j] \in 1..n /\ rank[s[i]] \in Nat /\ rank[s[j]] \in Nat
      BY <1>11, <1>13
    <2>2. s[i] # s[j] /\ ~(rank[s[j]] < rank[s[i]])
      BY <2>1
    <2> QED
      BY <1>4, <1>8, <2>1, <2>2
  <1> QED
    BY <1>12, <1>13

-----------------------------------------------------------------------------
(* The binary search *)

\* States of the search in an index of n commits.
Searching(n) == [lo : 1..(n + 1), hi : 0..n, result : 0..n]

\* The right answer r in a state s, where ok(i) says that the i-th commit of
\* the index is no later than the time looked for: the last of the places still
\* searched that is ok, or else what was found before.
Answers(ok, s, r) ==
  \/ r = s.result /\ \A i \in s.lo..s.hi : i \notin ok
  \/ r \in s.lo..s.hi /\ r \in ok /\ \A i \in (r + 1)..s.hi : i \notin ok

LEMMA OneAnswer ==
  ASSUME NEW n \in Nat, NEW ok, NEW s \in Searching(n)
  PROVE  /\ \E r \in 0..n : Answers(ok, s, r)
         /\ \A q, r : Answers(ok, s, q) /\ Answers(ok, s, r) => q = r
  <1>1. s.lo \in 1..(n + 1) /\ s.hi \in 0..n /\ s.result \in 0..n
    BY DEF Searching
  <1>2. \E r \in 0..n : Answers(ok, s, r)
    <2> DEFINE T == {s.hi - i : i \in {j \in s.lo..s.hi : j \in ok}}
    <2>1. CASE T = {}
      <3>1. \A i \in s.lo..s.hi : i \notin ok
        BY <2>1
      <3> QED
        BY <1>1, <3>1 DEF Answers
    <2>2. CASE T # {}
      <3>1. T \subseteq Nat
        BY <1>1
      <3>2. PICK x \in T : \A y \in T : x <= y
        <4> HIDE DEF T
        <4> QED
          BY <2>2, <3>1, LeastNat
      <3>3. PICK r \in s.lo..s.hi : r \in ok /\ x = s.hi - r
        OBVIOUS
      <3>4. ASSUME NEW i \in (r + 1)..s.hi, i \in ok PROVE FALSE
        <4>1. i \in s.lo..s.hi
          BY <1>1
        <4>2. s.hi - i \in T
          BY <3>4, <4>1
        <4> HIDE DEF T
        <4>3. x <= s.hi - i
          BY <3>2, <4>2
        <4> QED
          BY <1>1, <3>3, <4>3
      <3>5. Answers(ok, s, r) /\ r \in 0..n
        BY <1>1, <3>3, <3>4 DEF Answers
      <3> QED
        BY <3>5
    <2> QED
      BY <2>1, <2>2
  <1>3. ASSUME NEW q, NEW r, Answers(ok, s, q), Answers(ok, s, r) PROVE q = r
    <2>1. CASE \A i \in s.lo..s.hi : i \notin ok
      BY <1>3, <2>1 DEF Answers
    <2>2. CASE ~\A i \in s.lo..s.hi : i \notin ok
      <3>1. /\ q \in s.lo..s.hi /\ q \in ok /\ \A i \in (q + 1)..s.hi : i \notin ok
            /\ r \in s.lo..s.hi /\ r \in ok /\ \A i \in (r + 1)..s.hi : i \notin ok
        BY <1>3, <2>2 DEF Answers
      <3>2. ~(q < r) /\ ~(r < q)
        BY <1>1, <3>1
      <3> QED
        BY <1>1, <3>1, <3>2
    <2> QED
      BY <2>1, <2>2
  <1> QED
    BY <1>2, <1>3

Mid(s) == (s.lo + s.hi - 2) \div 2 + 1

\* One turn of the loop of FindBefore keeps the answer when the commits that
\* are ok come first.
LEMMA SearchTurn ==
  ASSUME NEW n \in Nat, NEW ok, \A i, j \in 1..n : i < j /\ j \in ok => i \in ok,
         NEW s \in Searching(n), s.lo <= s.hi
  PROVE  /\ Mid(s) \in 1..n
         /\ LET t == [s EXCEPT !.lo = Mid(s) + 1, !.result = Mid(s)]
            IN  /\ t \in Searching(n) /\ t.lo > s.lo /\ t.hi = s.hi
                /\ Mid(s) \in ok => \A r : Answers(ok, t, r) => Answers(ok, s, r)
         /\ LET t == [s EXCEPT !.hi = Mid(s) - 1]
            IN  /\ t \in Searching(n) /\ t.lo = s.lo /\ t.hi < s.hi
                /\ Mid(s) \notin ok => \A r : Answers(ok, t, r) => Answers(ok, s, r)
  <1>1. s.lo \in 1..(n + 1) /\ s.hi \in 0..n /\ s.result \in 0..n
    BY DEF Searching
  <1>2. Mid(s) \in s.lo..s.hi
    BY <1>1 DEF Mid
  <1> DEFINE m == Mid(s)
             up == [s EXCEPT !.lo = m + 1, !.result = m]
             down == [s EXCEPT !.hi = m - 1]
  <1>3. m \in Int /\ s.lo <= m /\ m <= s.hi /\ m \in 1..n
    BY <1>1, <1>2
  <1> HIDE DEF m
  <1>4. /\ up \in Searching(n) /\ up.lo = m + 1 /\ up.hi = s.hi /\ up.result = m
        /\ down \in Searching(n) /\ down.lo = s.lo /\ down.hi = m - 1 /\ down.result = s.result
    <2>1. m + 1 \in 1..(n + 1) /\ m - 1 \in 0..n /\ m \in 0..n
      BY <1>1, <1>3
    <2>2. /\ up.lo = m + 1 /\ up.hi = s.hi /\ up.result = m
          /\ down.lo = s.lo /\ down.hi = m - 1 /\ down.result = s.result
      BY DEF Searching
    <2>3. up \in Searching(n)
      BY <2>1 DEF Searching
    <2>4. down \in Searching(n)
      BY <2>1 DEF Searching
    <2> QED
      BY <2>2, <2>3, <2>4
  <1> HIDE DEF up, down
  <1>5. ASSUME m \in ok, NEW r, Answers(ok, up, r) PROVE Answers(ok, s, r)
    <2>1. CASE r = m /\ \A i \in (m + 1)..s.hi : i \notin ok
      BY <1>3, <1>5, <2>1 DEF Answers
    <2>2. CASE r \in (m + 1)..s.hi /\ r \in ok /\ \A i \in (r + 1)..s.hi : i \notin ok
      <3>1. r \in s.lo..s.hi
        BY <1>1, <1>3, <2>2
      <3> QED
        BY <2>2, <3>1 DEF Answers
    <2> QED
      BY <1>4, <1>5, <2>1, <2>2 DEF Answers
  <1>6. ASSUME m \notin ok, NEW r, Answers(ok, down, r) PROVE Answers(ok, s, r)
    <2>1. \A i \in m..s.hi : i \notin ok
      <3>1. ASSUME NEW i \in m..s.hi, i \in ok PROVE FALSE
        <4>1. i \in 1..n /\ (m < i \/ m = i)
          BY <1>1, <1>3
        <4> QED
          BY <1>3, <1>6, <3>1, <4>1
      <3> QED
        BY <3>1
    <2>2. CASE r = s.result /\ \A i \in s.lo..(m - 1) : i \notin ok
      <3>1. \A i \in s.lo..s.hi : i \in s.lo..(m - 1) \/ i \in m..s.hi
        BY <1>1, <1>3
      <3> QED
        BY <2>1, <2>2, <3>1 DEF Answers
    <2>3. CASE r \in s.lo..(m - 1) /\ r \in ok /\ \A i \in (r + 1)..(m - 1) : i \notin ok
      <3>1. /\ r \in s.lo..s.hi
            /\ \A i \in (r + 1)..s.hi : i \in (r + 1)..(m - 1) \/ i \in m..s.hi
        BY <1>1, <1>3, <2>3
      <3> QED
        BY <2>1, <2>3, <3>1 DEF Answers
    <2> QED
      BY <1>4, <1>6, <2>2, <2>3 DEF Answers
  <1> QED
    BY <1>1, <1>3, <1>4, <1>5, <1>6 DEF m, up, down

\* FindBefore for any log, index and time.
OkPlaces(l, idx, t) == {i \in 1..Len(idx) : l[idx[i]].time <= t}

LEMMA SearchFinds ==
  ASSUME NEW n \in Nat, commitIdx \in [1..n -> 1..n], n <= Len(log), Len(commitIdx) = n,
         \A a \in 1..n : log[a].time \in Nat, Sorted(log, commitIdx), NEW t \in Nat
  PROVE  \E found \in 0..n :
           /\ Answers(OkPlaces(log, commitIdx, t), [lo |-> 1, hi |-> n, result |-> 0], found)
           /\ FindBefore(t) = IF found = 0 THEN 0 ELSE commitIdx[found]
  <1> DEFINE size == Len(commitIdx)
             ok == OkPlaces(log, commitIdx, t)
             S == [lo : 1..(size + 1), hi : 0..size, result : 0..size]
             Loop(g) == g = [s \in S |->
               LET mid == (s.lo + s.hi - 2) \div 2 + 1
               IN IF s.lo > s.hi THEN s.result
                  ELSE IF TimeOf(commitIdx[mid]) <= t
                       THEN g[[s EXCEPT !.lo = mid + 1, !.result = mid]]
                       ELSE g[[s EXCEPT !.hi = mid - 1]]]
             start == [lo |-> 1, hi |-> size, result |-> 0]
             found == (CHOOSE g : Loop(g))[start]
             h == [s \in S |-> CHOOSE r \in 0..n : Answers(ok, s, r)]
             up(s) == [s EXCEPT !.lo = Mid(s) + 1, !.result = Mid(s)]
             down(s) == [s EXCEPT !.hi = Mid(s) - 1]
  <1>1. FindBefore(t) = IF found = 0 THEN 0 ELSE commitIdx[found]
    BY DEF FindBefore
  <1>2. S = Searching(n) /\ start \in S /\ start = [lo |-> 1, hi |-> n, result |-> 0]
    BY DEF Searching
  <1>3. \A i, j \in 1..n : i < j /\ j \in ok => i \in ok
    <2> TAKE i, j \in 1..n
    <2>1. CASE i < j
      <3>1. Earlier(log, commitIdx[i], commitIdx[j])
        BY <2>1 DEF Sorted
      <3>2. log[commitIdx[i]].time \in Nat /\ log[commitIdx[j]].time \in Nat
        OBVIOUS
      <3> DEFINE x == log[commitIdx[i]].time
                 y == log[commitIdx[j]].time
      <3>3. x < y \/ x = y
        BY <3>1 DEF Earlier
      <3>4. /\ i \in ok <=> x <= t
            /\ j \in ok <=> y <= t
        BY DEF OkPlaces
      <3> HIDE DEF x, y, ok
      <3>5. x \in Nat /\ y \in Nat
        BY <3>2 DEF x, y
      <3> QED
        BY <3>3, <3>4, <3>5
    <2> QED
      BY <2>1
  <1>4. \A i \in 1..n : i \in ok <=> TimeOf(commitIdx[i]) <= t
    BY DEF OkPlaces, TimeOf
  <1> HIDE DEF ok, S, start
  <1>5. \A s \in S : h[s] \in 0..n /\ Answers(ok, s, h[s])
    BY <1>2, OneAnswer
  <1>6. ASSUME NEW g PROVE Loop(g) <=> g = [s \in S |->
               IF s.lo > s.hi THEN s.result
               ELSE IF Mid(s) \in ok THEN g[up(s)] ELSE g[down(s)]]
    <2>1. ASSUME NEW s \in S
          PROVE  (LET mid == (s.lo + s.hi - 2) \div 2 + 1
                  IN IF s.lo > s.hi THEN s.result
                     ELSE IF TimeOf(commitIdx[mid]) <= t
                          THEN g[[s EXCEPT !.lo = mid + 1, !.result = mid]]
                          ELSE g[[s EXCEPT !.hi = mid - 1]])
                 = IF s.lo > s.hi THEN s.result
                   ELSE IF Mid(s) \in ok THEN g[up(s)] ELSE g[down(s)]
      <3>1. CASE s.lo > s.hi
        BY <3>1
      <3>2. CASE ~(s.lo > s.hi)
        <4>1. s.lo <= s.hi
          BY <1>2, <3>2 DEF Searching
        <4>2. Mid(s) \in 1..n
          BY <1>2, <1>3, <4>1, SearchTurn
        <4>3. Mid(s) \in ok <=> TimeOf(commitIdx[Mid(s)]) <= t
          BY <1>4, <4>2
        <4> QED
          BY <3>2, <4>3 DEF Mid
      <3> QED
        BY <3>1, <3>2
    <2> QED
      BY <2>1
  <1> HIDE DEF Loop, h
  <1>7. ASSUME NEW s \in S, s.lo <= s.hi
        PROVE  /\ up(s) \in S /\ up(s).lo > s.lo /\ up(s).hi = s.hi
               /\ down(s) \in S /\ down(s).lo = s.lo /\ down(s).hi < s.hi
               /\ Mid(s) \in ok => \A r : Answers(ok, up(s), r) => Answers(ok, s, r)
               /\ Mid(s) \notin ok => \A r : Answers(ok, down(s), r) => Answers(ok, s, r)
    BY <1>2, <1>3, <1>7, SearchTurn
  <1> HIDE DEF up, down
  <1>8. \A s \in S : /\ s.lo \in Nat /\ s.hi \in Nat
                     /\ s.lo > s.hi => Answers(ok, s, s.result)
    <2> TAKE s \in S
    <2>1. s.lo \in 1..(n + 1) /\ s.hi \in 0..n
      BY <1>2 DEF Searching
    <2> QED
      BY <2>1 DEF Answers
  <1>9. Loop(h)
    <2>1. ASSUME NEW s \in S
          PROVE  h[s] = IF s.lo > s.hi THEN s.result
                        ELSE IF Mid(s) \in ok THEN h[up(s)] ELSE h[down(s)]
      <3>1. \A q, r : Answers(ok, s, q) /\ Answers(ok, s, r) => q = r
        BY <1>2, OneAnswer
      <3>2. CASE s.lo > s.hi
        BY <1>5, <1>8, <3>1, <3>2
      <3>3. CASE ~(s.lo > s.hi)
        <4>1. s.lo <= s.hi
          BY <1>8, <3>3
        <4>2. CASE Mid(s) \in ok
          <5>1. Answers(ok, s, h[up(s)])
            BY <1>5, <1>7, <4>1, <4>2
          <5> QED
            BY <1>5, <3>1, <3>3, <4>2, <5>1
        <4>3. CASE Mid(s) \notin ok
          <5>1. Answers(ok, s, h[down(s)])
            BY <1>5, <1>7, <4>1, <4>3
          <5> QED
            BY <1>5, <3>1, <3>3, <4>3, <5>1
        <4> QED
          BY <4>2, <4>3
      <3> QED
        BY <3>2, <3>3
    <2>2. h = [s \in S |-> h[s]]
      BY DEF h
    <2>3. h = [s \in S |-> IF s.lo > s.hi THEN s.result
                           ELSE IF Mid(s) \in ok THEN h[up(s)] ELSE h[down(s)]]
      BY <2>1, <2>2
    <2> QED
      BY <1>6, <2>3
  <1>10. PICK g : g = (CHOOSE f : Loop(f)) /\ Loop(g)
    BY <1>9
  <1>11. \A s \in S : g[s] = IF s.lo > s.hi THEN s.result
                             ELSE IF Mid(s) \in ok THEN g[up(s)] ELSE g[down(s)]
    BY <1>6, <1>10
  <1> DEFINE Bad == {s \in S : ~Answers(ok, s, g[s])}
             T == {s.hi - s.lo : s \in Bad}
  <1>12. ASSUME NEW s \in Bad PROVE s \in S /\ s.lo <= s.hi
    <2>1. s \in S /\ ~Answers(ok, s, g[s])
      OBVIOUS
    <2>2. ~(s.lo > s.hi)
      BY <1>8, <1>11, <2>1
    <2> QED
      BY <1>8, <2>1, <2>2
  <1>13. Bad = {}
    <2> SUFFICES ASSUME Bad # {} PROVE FALSE
      OBVIOUS
    <2>1. T \subseteq Nat /\ T # {}
      BY <1>8, <1>12
    <2>2. PICK x \in T : \A y \in T : x <= y
      <3> HIDE DEF T
      <3> QED
        BY <2>1, LeastNat
    <2>3. PICK s \in Bad : x = s.hi - s.lo
      OBVIOUS
    <2>4. s \in S /\ s.lo <= s.hi /\ ~Answers(ok, s, g[s])
      BY <1>12
    <2>5. \A y \in Bad : s.hi - s.lo <= y.hi - y.lo
      BY <2>2, <2>3
    <2> HIDE DEF Bad, T
    <2>6. ASSUME NEW y \in S, y.hi - y.lo < s.hi - s.lo PROVE Answers(ok, y, g[y])
      <3>1. y \notin Bad
        BY <1>8, <2>4, <2>5, <2>6
      <3> QED
        BY <3>1 DEF Bad
    <2>7. CASE Mid(s) \in ok
      <3>1. up(s).hi - up(s).lo < s.hi - s.lo
        BY <1>7, <1>8, <2>4
      <3>2. Answers(ok, s, g[up(s)]) /\ g[s] = g[up(s)]
        BY <1>7, <1>8, <1>11, <2>4, <2>6, <2>7, <3>1
      <3> QED
        BY <2>4, <3>2
    <2>8. CASE Mid(s) \notin ok
      <3>1. down(s).hi - down(s).lo < s.hi - s.lo
        BY <1>7, <1>8, <2>4
      <3>2. Answers(ok, s, g[down(s)]) /\ g[s] = g[down(s)]
        BY <1>7, <1>8, <1>11, <2>4, <2>6, <2>8, <3>1
      <3> QED
        BY <2>4, <3>2
    <2> QED
      BY <2>7, <2>8
  <1>14. Answers(ok, start, g[start]) /\ found = g[start]
    BY <1>2, <1>10, <1>13
  <1>15. g[start] \in 0..n
    BY <1>2, <1>14, OneAnswer
  <1> HIDE DEF found
  <1> QED
    BY <1>1, <1>2, <1>14, <1>15 DEF ok

-----------------------------------------------------------------------------
(* The commit index *)

\* The index is a sorted list of the first commits of the log.
IndexInv ==
  /\ log \in Seq([time : Nat, tree : Tree])
  /\ now \in Nat /\ now >= Skew
  /\ Len(commitIdx) \in Nat /\ Len(commitIdx) <= Len(log)
  /\ commitIdx \in [1..Len(commitIdx) -> 1..Len(commitIdx)]
  /\ Sorted(log, commitIdx)

LEMMA LogTimes ==
  ASSUME IndexInv
  PROVE  /\ Len(log) \in Nat /\ Len(commitIdx) \in 0..Len(log)
         /\ \A a \in 1..Len(log) : log[a].time \in Nat
  <1> DEFINE C == [time : Nat, tree : Tree]
  <1>1. log \in Seq(C)
    BY DEF IndexInv
  <1>2. \A c \in C : c.time \in Nat
    OBVIOUS
  <1> HIDE DEF C
  <1>3. Len(log) \in Nat /\ \A a \in 1..Len(log) : log[a].time \in Nat
    BY <1>1, <1>2
  <1> QED
    BY <1>3 DEF IndexInv

LEMMA BuildSorts ==
  ASSUME NEW n \in Nat, \A a \in 1..n : log[a].time \in Nat
  PROVE  /\ BuildCommitIndex(n) \in [1..n -> 1..n]
         /\ \A i, j \in 1..n : i < j => Earlier(log, BuildCommitIndex(n)[i], BuildCommitIndex(n)[j])
  <1>1. \E s \in [1..n -> 1..n] : \A i, j \in 1..n : i < j => Earlier(log, s[i], s[j])
    BY SortExists
  <1> QED
    BY <1>1 DEF BuildCommitIndex, Earlier, TimeOf

LEMMA IndexStep ==
  ASSUME IndexInv, [Next]_vars
  PROVE  IndexInv'
  <1>1. CASE Tick
    BY <1>1, HistoryConstants DEF Tick, IndexInv, Sorted, Earlier
  <1>2. CASE Commit
    <2>1. PICK t \in (now - Skew)..now, tree \in Tree :
            log' = Append(log, [time |-> t, tree |-> tree])
      BY <1>2 DEF Commit
    <2>2. t \in Nat /\ [time |-> t, tree |-> tree] \in [time : Nat, tree : Tree]
      BY HistoryConstants DEF IndexInv
    <2>3. /\ log' \in Seq([time : Nat, tree : Tree]) /\ Len(log') = Len(log) + 1
          /\ \A i \in 1..Len(log) : log'[i] = log[i]
      BY <2>1, <2>2 DEF IndexInv
    <2>4. UNCHANGED <<commitIdx, now>>
      BY <1>2 DEF Commit
    <2>5. \A i \in DOMAIN commitIdx : commitIdx[i] \in 1..Len(log)
      BY DEF IndexInv
    <2>6. Sorted(log', commitIdx)
      <3>1. Sorted(log, commitIdx)
        BY DEF IndexInv
      <3>2. \A i \in DOMAIN commitIdx : log'[commitIdx[i]] = log[commitIdx[i]]
        BY <2>3, <2>5
      <3> QED
        BY <3>1, <3>2 DEF Sorted, Earlier
    <2>7. Sorted(log, commitIdx)' /\ Len(commitIdx)' = Len(commitIdx)
      BY <2>4, <2>6 DEF Sorted, Earlier
    <2>8. Len(log) \in Nat /\ Len(commitIdx) \in Nat /\ Len(commitIdx) <= Len(log)
      BY DEF IndexInv
    <2>9. Len(commitIdx)' <= Len(log)'
      BY <2>3, <2>7, <2>8
    <2> QED
      BY <2>3, <2>4, <2>7, <2>9 DEF IndexInv
  <1>3. CASE Rebuild
    <2> DEFINE n == Len(log)
    <2>1. n \in Nat /\ \A a \in 1..n : log[a].time \in Nat
      BY LogTimes
    <2>2. commitIdx' = BuildCommitIndex(n) /\ UNCHANGED <<log, now>>
      BY <1>3 DEF Rebuild
    <2> HIDE DEF n
    <2>3. /\ BuildCommitIndex(n) \in [1..n -> 1..n]
          /\ \A i, j \in 1..n : i < j => Earlier(log, BuildCommitIndex(n)[i], BuildCommitIndex(n)[j])
      BY <2>1, BuildSorts
    <2>4. Len(commitIdx') = n /\ DOMAIN commitIdx' = 1..n
      BY <2>1, <2>2, <2>3
    <2>5. Sorted(log', commitIdx')
      BY <2>2, <2>3, <2>4 DEF Sorted
    <2> QED
      BY <2>1, <2>2, <2>3, <2>4, <2>5 DEF IndexInv, n
  <1>4. CASE UNCHANGED vars
    BY <1>4 DEF vars, IndexInv
  <1> QED
    BY <1>1, <1>2, <1>3, <1>4 DEF Next

LEMMA InitIndex == Init => IndexInv
  BY HistoryConstants DEF Init, IndexInv, Sorted

\* Commit n is the latest of the first k commits of log l that is no later
\* than t, and 0 stands for none.
Latest(l, k, t, n) ==
  LET candidates == {m \in 1..k : l[m].time <= t}
  IN /\ candidates = {} <=> n = 0
     /\ n # 0 => /\ n \in candidates
                 /\ \A m \in candidates :
                      l[m].time < l[n].time \/ (l[m].time = l[n].time /\ m <= n)

LEMMA FoundIsLatest ==
  ASSUME IndexInv, NEW t \in Nat
  PROVE  Latest(log, Len(commitIdx), t, FindBefore(t))
  <1> DEFINE n == Len(commitIdx)
             ok == OkPlaces(log, commitIdx, t)
             cs == {m \in 1..n : log[m].time <= t}
  <1>1. /\ n \in Nat /\ n <= Len(log) /\ commitIdx \in [1..n -> 1..n]
        /\ Sorted(log, commitIdx) /\ \A a \in 1..n : log[a].time \in Nat
    BY LogTimes DEF IndexInv
  <1> HIDE DEF n
  <1>2. PICK found \in 0..n :
           /\ Answers(ok, [lo |-> 1, hi |-> n, result |-> 0], found)
           /\ FindBefore(t) = IF found = 0 THEN 0 ELSE commitIdx[found]
    BY <1>1, SearchFinds DEF n
  <1>3. \/ found = 0 /\ \A i \in 1..n : i \notin ok
        \/ found \in 1..n /\ found \in ok /\ \A i \in (found + 1)..n : i \notin ok
    BY <1>2 DEF Answers
  <1>4. \A i \in 1..n : i \in ok <=> commitIdx[i] \in cs
    BY <1>1 DEF OkPlaces, n
  <1>5. \A m \in 1..n : \E i \in 1..n : commitIdx[i] = m
    <2>1. ASSUME NEW i \in 1..n, NEW j \in 1..n, commitIdx[i] = commitIdx[j] PROVE i = j
      <3>1. ASSUME NEW a \in 1..n, NEW b \in 1..n, a < b PROVE commitIdx[a] # commitIdx[b]
        <4>1. Earlier(log, commitIdx[a], commitIdx[b])
          BY <1>1, <3>1 DEF Sorted
        <4>2. log[commitIdx[a]].time \in Nat /\ commitIdx[a] \in Nat
          BY <1>1
        <4> QED
          BY <4>1, <4>2 DEF Earlier
      <3>2. i < j \/ j < i \/ i = j
        BY <1>1
      <3> QED
        BY <2>1, <3>1, <3>2
    <2>2. IsInjective(commitIdx)
      BY <1>1, <2>1 DEF IsInjective
    <2> QED
      BY <1>1, <2>2, InjectionCovers
  <1> HIDE DEF ok
  <1>6. CASE found = 0 /\ \A i \in 1..n : i \notin ok
    <2>1. cs = {}
      BY <1>4, <1>5, <1>6
    <2> QED
      BY <1>2, <1>6, <2>1 DEF Latest, n
  <1>7. CASE found \in 1..n /\ found \in ok /\ \A i \in (found + 1)..n : i \notin ok
    <2> DEFINE c == commitIdx[found]
    <2>1. FindBefore(t) = c /\ c \in cs /\ c # 0
      BY <1>1, <1>2, <1>4, <1>7
    <2>2. ASSUME NEW m \in cs
          PROVE  log[m].time < log[c].time \/ (log[m].time = log[c].time /\ m <= c)
      <3>1. PICK i \in 1..n : commitIdx[i] = m
        BY <1>5
      <3>2. i \in ok
        BY <1>4, <3>1
      <3>3. i <= found
        BY <1>1, <1>7, <3>2
      <3>4. CASE i = found
        BY <1>1, <3>1, <3>4
      <3>5. CASE i < found
        <4>1. Earlier(log, m, c)
          BY <1>1, <1>7, <3>1, <3>5 DEF Sorted
        <4>2. m \in Nat /\ c \in Nat
          BY <1>1, <1>7
        <4> QED
          BY <4>1, <4>2 DEF Earlier
      <3>6. i = found \/ i < found
        BY <1>1, <1>7, <3>3
      <3> QED
        BY <3>4, <3>5, <3>6
    <2> HIDE DEF c
    <2> QED
      BY <2>1, <2>2 DEF Latest, n
  <1> QED
    BY <1>3, <1>6, <1>7

LEMMA OneLatest ==
  ASSUME NEW l, NEW k \in Nat, \A a \in 1..k : l[a].time \in Nat, NEW t \in Nat, NEW m, NEW n,
         Latest(l, k, t, m), Latest(l, k, t, n)
  PROVE  m = n
  <1>1. CASE m = 0 \/ n = 0
    BY <1>1 DEF Latest
  <1>2. CASE m # 0 /\ n # 0
    <2>1. /\ m \in 1..k /\ n \in 1..k /\ l[m].time \in Nat /\ l[n].time \in Nat
          /\ l[m].time < l[n].time \/ (l[m].time = l[n].time /\ m <= n)
          /\ l[n].time < l[m].time \/ (l[n].time = l[m].time /\ n <= m)
      BY <1>2 DEF Latest
    <2> QED
      BY <2>1
  <1> QED
    BY <1>1, <1>2

LEMMA IndexInvariance == Spec => []IndexInv
  <1>1. IndexInv /\ [Next]_vars => IndexInv'
    BY IndexStep
  <1> QED
    BY <1>1, InitIndex, PTL DEF Spec

\* The binary search of FindBefore finds the latest commit no later than the
\* time asked for, however author dates repeat or go back, because
\* BuildCommitIndex reverses git log before its stable sort.
THEOREM LatestFound == Spec => []FindBeforeIsLatest
  <1>1. IndexInv => FindBeforeIsLatest
    <2> SUFFICES ASSUME IndexInv, NEW t \in 0..MaxTime
                 PROVE  Latest(log, Len(commitIdx), t, FindBefore(t))
      BY DEF FindBeforeIsLatest, Latest, TimeOf
    <2> QED
      BY HistoryConstants, FoundIsLatest
  <1> QED
    BY <1>1, IndexInvariance, PTL

\* A step only adds to the log and to the number of commits indexed.
LEMMA LogGrows ==
  ASSUME IndexInv, [Next]_vars
  PROVE  /\ \A i \in 1..Len(log) : i \in 1..Len(log') /\ log'[i] = log[i]
         /\ Len(commitIdx) <= Len(commitIdx')
  <1>0. Len(log) \in Nat /\ Len(commitIdx) \in Nat /\ Len(commitIdx) <= Len(log)
    BY LogTimes
  <1>1. CASE Tick \/ UNCHANGED vars
    <2>1. log' = log /\ commitIdx' = commitIdx
      BY <1>1 DEF Tick, vars
    <2> QED
      BY <1>0, <2>1
  <1>2. CASE Commit
    <2>1. PICK c : log' = Append(log, c)
      BY <1>2 DEF Commit
    <2>2. PICK S : log \in Seq(S)
      BY DEF IndexInv
    <2>3. commitIdx' = commitIdx
      BY <1>2 DEF Commit
    <2>4. log \in Seq(S \cup {c}) /\ c \in S \cup {c}
      BY <2>2
    <2>5. Len(log') = Len(log) + 1 /\ \A i \in 1..Len(log) : log'[i] = log[i]
      BY <2>1, <2>4
    <2> QED
      BY <1>0, <2>3, <2>5
  <1>3. CASE Rebuild
    <2>1. log' = log /\ commitIdx' = BuildCommitIndex(Len(log))
      BY <1>3 DEF Rebuild
    <2>2. BuildCommitIndex(Len(log)) \in [1..Len(log) -> 1..Len(log)]
      BY LogTimes, BuildSorts
    <2>3. Len(commitIdx') = Len(log)
      BY <1>0, <2>1, <2>2
    <2> QED
      BY <1>0, <2>1, <2>3
  <1> QED
    BY <1>1, <1>2, <1>3 DEF Next

\* What FindBefore gives at every time, as a state predicate.
Found == IndexInv => \A t \in 0..MaxTime : Latest(log, Len(commitIdx), t, FindBefore(t))

LEMMA FoundHolds == Found
  BY HistoryConstants, FoundIsLatest DEF Found

\* With commits in the order of their times, a commit that is later than t
\* decides that everything after it is later than t too.
LEMMA PastStays ==
  ASSUME NEW l, NEW m, NEW k \in Nat, NEW K \in Nat, NEW len \in Nat, NEW t \in Nat, NEW c \in 1..k,
         k <= K, K <= len, \A i \in 1..len : m[i].time \in Nat,
         \A i \in 1..k : m[i] = l[i],
         \A i, j \in 1..len : i < j => m[i].time < m[j].time,
         t < l[c].time,
         NEW a, Latest(l, k, t, a),
         NEW b, Latest(m, K, t, b)
  PROVE  a = b /\ a \in 0..k
  <1>1. \A i \in 1..k : i \in 1..K /\ l[i].time \in Nat /\ l[i].time = m[i].time
    OBVIOUS
  <1>2. CASE b = 0
    <2>1. {i \in 1..K : m[i].time <= t} = {}
      BY <1>2 DEF Latest
    <2>2. {i \in 1..k : l[i].time <= t} = {}
      BY <1>1, <2>1
    <2> QED
      BY <1>2, <2>2 DEF Latest
  <1>3. CASE b # 0
    <2>1. /\ b \in 1..K /\ m[b].time <= t
          /\ \A i \in 1..K : m[i].time <= t =>
               m[i].time < m[b].time \/ (m[i].time = m[b].time /\ i <= b)
      BY <1>3 DEF Latest
    <2>2. b < c
      <3>1. b \in 1..len /\ c \in 1..len /\ m[b].time \in Nat /\ m[c].time \in Nat /\ t < m[c].time
        BY <1>1, <2>1
      <3>2. b # c /\ ~(c < b)
        <4> DEFINE x == m[b].time
                   y == m[c].time
        <4>1. x \in Nat /\ y \in Nat /\ t < y /\ x <= t
          BY <2>1, <3>1
        <4>2. c < b => y < x
          BY <3>1
        <4>3. b = c => x = y
          OBVIOUS
        <4> HIDE DEF x, y
        <4> QED
          BY <4>1, <4>2, <4>3
      <3> QED
        BY <3>1, <3>2
    <2>3. b \in 1..k /\ l[b].time <= t
      BY <1>1, <2>1, <2>2
    <2>4. \A i \in 1..k : l[i].time <= t =>
               l[i].time < l[b].time \/ (l[i].time = l[b].time /\ i <= b)
      BY <1>1, <2>1, <2>3
    <2>5. Latest(l, k, t, b)
      BY <1>3, <2>3, <2>4 DEF Latest
    <2>6. a = b
      BY <1>1, <2>5, OneLatest
    <2> QED
      BY <2>3, <2>6
  <1> QED
    BY <1>2, <1>3

\* A later backup never rewrites the past: with commits in the order of their
\* times, the snapshot GetHistoricalSnapshot gives for a time before the
\* newest indexed commit is the same after every rebuild of the index.
THEOREM PastFixed == Spec => PastIsFixed
  <1>1. ASSUME IndexInv, IndexInv', [Next]_vars, Orderly', NEW t \in 0..MaxTime,
               NEW i \in 1..Len(commitIdx), t < TimeOf(commitIdx[i])
        PROVE  SnapshotAt(t)' = SnapshotAt(t)
    <2> DEFINE k == Len(commitIdx)
               K == Len(commitIdx')
               a == FindBefore(t)
               b == FindBefore(t)'
               c == commitIdx[i]
    <2>1. Latest(log, k, t, a)
      BY <1>1, FoundHolds DEF Found
    <2>2. Found'
      BY FoundHolds, PTL
    <2>3. Latest(log', K, t, b)
      BY <1>1, <2>2 DEF Found, Latest
    <2>4. /\ k \in Nat /\ K \in Nat /\ Len(log) \in Nat /\ Len(log') \in Nat /\ t \in Nat
          /\ k <= K /\ K <= Len(log') /\ k <= Len(log)
      BY <1>1, LogGrows, HistoryConstants, SMTT(30) DEF IndexInv
    <2>5. c \in 1..k
      BY <1>1 DEF IndexInv
    <2>6. \A j \in 1..Len(log') : log'[j].time \in Nat
      <3> DEFINE C == [time : Nat, tree : Tree]
      <3>1. log' \in Seq(C)
        BY <1>1 DEF IndexInv
      <3>2. \A x \in C : x.time \in Nat
        OBVIOUS
      <3> HIDE DEF C
      <3> QED
        BY <3>1, <3>2
    <2>7. \A j \in 1..k : log'[j] = log[j]
      BY <1>1, <2>4, LogGrows
    <2>8. \A m, n \in 1..Len(log') : m < n => log'[m].time < log'[n].time
      BY <1>1 DEF Orderly, TimeOf
    <2>9. t < log[c].time
      BY <1>1 DEF TimeOf
    <2> HIDE DEF k, K, a, b, c
    <2>10. a = b /\ a \in 0..k
      BY <2>1, <2>3, <2>4, <2>5, <2>6, <2>7, <2>8, <2>9, PastStays
    <2>11. a # 0 => log'[a] = log[a]
      BY <2>4, <2>7, <2>10
    <2> QED
      BY <2>10, <2>11 DEF SnapshotAt, TreeAt, a, b
  <1>2. IndexInv /\ IndexInv' /\ [Next]_vars =>
          (Orderly' => \A t \in 0..MaxTime :
             (\E i \in 1..Len(commitIdx) : t < TimeOf(commitIdx[i])) => SnapshotAt(t)' = SnapshotAt(t))
    BY <1>1
  <1> QED
    BY <1>2, IndexInvariance, PTL DEF Spec, PastIsFixed

-----------------------------------------------------------------------------
(* The change index *)

\* The pairs of a commit and a file; the times of the commits; and the changes
\* of the first k commits since a time.
Pairs(k) == (1..k) \X Files
Times == [c \in Pairs(Len(log)) |-> TimeOf(c[1])]
ChangeSet(k, since) ==
  {c \in Pairs(k) : since <= TimeOf(c[1]) /\ TreeAt(c[1])[c[2]] # TreeAt(c[1] - 1)[c[2]]}

\* The change index has every change of the indexed commits since the cutoff,
\* once and in the order of time.
ChangeInv ==
  \E p : /\ Arranged(Times, p, ChangeSet(Len(commitIdx), cutoff))
         /\ changeIdx = [i \in 1..Len(p) |-> ChangeOf(p[i][1], p[i][2])]

Clocked ==
  /\ now \in 0..MaxTime /\ cutoff \in Nat
  /\ \A a \in 1..Len(log) : log[a].time <= now

HistoryInv == IndexInv /\ Clocked /\ ChangeInv

LEMMA IndexArranged ==
  ASSUME IndexInv, Clocked, NEW since \in Nat, NEW idx \in ChangeIndexes(since)
  PROVE  \E p : /\ Arranged(Times, p, ChangeSet(Len(log), since))
                /\ idx = [i \in 1..Len(p) |-> ChangeOf(p[i][1], p[i][2])]
  <1> DEFINE n == Len(log)
             U == Pairs(n)
             C == ChangeSet(n, 0)
             A == [t \in 0..MaxTime |->
                     IF t < since THEN {<<>>} ELSE SetToSeqs(AtTime(Times, C, t))]
             Turn(g, t) == LET at == IF t < since THEN {<<>>} ELSE SetToSeqs(ChangesAt(t))
                           IN IF t = 0 THEN at ELSE {p \o q : p \in g[t - 1], q \in at}
             Loop(g) == g = [t \in 0..MaxTime |-> Turn(g, t)]
             up == CHOOSE g : Loop(g)
  <1>1. n \in Nat /\ MaxTime \in Nat /\ \A a \in 1..n : TimeOf(a) \in Nat /\ TimeOf(a) <= MaxTime
    <2>1. /\ n \in Nat /\ MaxTime \in Nat /\ now \in Nat /\ now <= MaxTime
          /\ \A a \in 1..n : log[a].time \in Nat /\ log[a].time <= now
      BY LogTimes, HistoryConstants DEF Clocked
    <2> QED
      BY <2>1 DEF TimeOf
  <1> HIDE DEF n
  <1>2. \A c \in U : c[1] \in 1..n /\ c[2] \in Files
    BY DEF Pairs
  <1>3. Times \in [U -> Nat] /\ \A c \in U : Times[c] = TimeOf(c[1]) /\ Times[c] <= MaxTime
    BY <1>1, <1>2 DEF Times, n
  <1>4. C \in SUBSET U /\ IsFiniteSet(C)
    <2>1. IsFiniteSet(U)
      <3>1. IsFiniteSet(1..n) /\ IsFiniteSet(Files)
        BY <1>1, FS_Interval, HistoryConstants
      <3> QED
        BY <3>1, FS_Product DEF Pairs
    <2>2. C \in SUBSET U
      BY DEF ChangeSet
    <2> HIDE DEF C
    <2> QED
      BY <2>1, <2>2, FS_Subset
  <1>5. \A t \in 0..MaxTime : ChangesAt(t) = {c \in C : Times[c] = t}
    <2> SUFFICES ASSUME NEW t \in 0..MaxTime PROVE ChangesAt(t) = {c \in C : Times[c] = t}
      OBVIOUS
    <2>1. ChangesAt(t) = {c \in U : TimeOf(c[1]) = t /\ TreeAt(c[1])[c[2]] # TreeAt(c[1] - 1)[c[2]]}
      BY DEF ChangesAt, Pairs, n
    <2>2. \A c \in U : 0 <= TimeOf(c[1])
      BY <1>1, <1>2
    <2> HIDE DEF U
    <2> QED
      BY <1>3, <2>1, <2>2 DEF ChangeSet, U
  <1>6. ASSUME NEW g PROVE Loop(g) <=> Appended(MaxTime, A, g)
    <2>1. ASSUME NEW t \in 0..MaxTime
          PROVE  Turn(g, t) = IF t = 0 THEN A[t] ELSE Joined(g[t - 1], A[t])
      <3>1. A[t] = IF t < since THEN {<<>>} ELSE SetToSeqs(ChangesAt(t))
        BY <1>5 DEF AtTime
      <3> HIDE DEF A
      <3> QED
        BY <3>1 DEF Joined
    <2> HIDE DEF A, Turn
    <2> QED
      BY <2>1 DEF Appended
  <1>7. Appended(MaxTime, A, up)
    <2>1. \E g : Appended(MaxTime, A, g)
      BY <1>1, AppendedExists
    <2> HIDE DEF Loop, A
    <2>2. \E g : Loop(g)
      BY <1>6, <2>1
    <2>3. Loop(up)
      BY <2>2
    <2> HIDE DEF up
    <2> QED
      BY <1>6, <2>3
  <1>8. PICK p \in up[MaxTime] : idx = [i \in 1..Len(p) |-> ChangeOf(p[i][1], p[i][2])]
    <2>1. ChangeIndexes(since)
            = {[i \in 1..Len(s) |-> ChangeOf(s[i][1], s[i][2])] : s \in up[MaxTime]}
      BY DEF ChangeIndexes
    <2> HIDE DEF up
    <2> QED
      BY <2>1
  <1> HIDE DEF up, Loop, C, U
  <1>a. \A t \in 0..MaxTime :
          A[t] = IF t < since THEN {<<>>} ELSE SetToSeqs(AtTime(Times, C, t))
    OBVIOUS
  <1> HIDE DEF A
  <1>9. Arranged(Times, p, Within(Times, C, since, MaxTime))
    <2>1. MaxTime \in 0..MaxTime
      BY <1>1
    <2> DEFINE T == Times
    <2>2. /\ T \in [U -> Nat] /\ C \in SUBSET U /\ IsFiniteSet(C) /\ MaxTime \in Nat /\ since \in Nat
          /\ \A t \in 0..MaxTime :
               A[t] = IF t < since THEN {<<>>} ELSE SetToSeqs(AtTime(T, C, t))
          /\ Appended(MaxTime, A, up)
      BY <1>1, <1>3, <1>4, <1>7, <1>a
    <2> HIDE DEF T
    <2>3. \A t \in 0..MaxTime : \A q \in up[t] :
            Arranged(T, q, Within(T, C, since, t))
      BY <2>2, AppendedArranged
    <2> QED
      BY <2>1, <2>3 DEF T
  <1>10. Within(Times, C, since, MaxTime) = ChangeSet(n, since)
    <2>1. \A c \in U : 0 <= Times[c]
      BY <1>3
    <2> QED
      BY <1>3, <2>1 DEF Within, ChangeSet, C, U
  <1> QED
    BY <1>8, <1>9, <1>10 DEF n

\* The commits that are in the log keep their trees and times.
LEMMA LogKeeps ==
  ASSUME IndexInv, [Next]_vars
  PROVE  /\ \A n \in 0..Len(log) : TreeAt(n)' = TreeAt(n)
         /\ \A n \in 1..Len(log) : TimeOf(n)' = TimeOf(n)
         /\ \A n \in 1..Len(log), f \in Files : ChangeOf(n, f)' = ChangeOf(n, f)
  <1>1. Len(log) \in Nat /\ \A i \in 1..Len(log) : log'[i] = log[i]
    BY LogTimes, LogGrows
  <1>2. \A n \in 0..Len(log) : n = 0 \/ n \in 1..Len(log)
    BY <1>1
  <1>3. \A n \in 0..Len(log) : TreeAt(n)' = TreeAt(n)
    BY <1>1, <1>2 DEF TreeAt, EmptyTree
  <1>4. \A n \in 1..Len(log) : TimeOf(n)' = TimeOf(n)
    BY <1>1 DEF TimeOf
  <1>5. ASSUME NEW n \in 1..Len(log), NEW f \in Files PROVE ChangeOf(n, f)' = ChangeOf(n, f)
    <2>1. n \in 0..Len(log) /\ n - 1 \in 0..Len(log)
      BY <1>1
    <2>2. /\ TreeAt(n)' = TreeAt(n) /\ TreeAt(n - 1)' = TreeAt(n - 1)
          /\ TimeOf(n)' = TimeOf(n)
      BY <1>3, <1>4, <2>1
    <2> QED
      BY <2>2 DEF ChangeOf, KindFromYAML
  <1> QED
    BY <1>3, <1>4, <1>5

LEMMA PairFacts ==
  ASSUME NEW k \in Nat
  PROVE  \A c \in Pairs(k) : c[1] \in 1..k /\ c[2] \in Files /\ c = <<c[1], c[2]>>
  BY DEF Pairs

LEMMA ChangeStep ==
  ASSUME HistoryInv, [Next]_vars
  PROVE  ChangeInv'
  <1> DEFINE k == Len(commitIdx)
             n == Len(log)
  <1>0. /\ IndexInv /\ Clocked /\ ChangeInv /\ n \in Nat /\ k \in Nat /\ k <= n
    BY LogTimes DEF HistoryInv
  <1>1. CASE UNCHANGED <<commitIdx, changeIdx, cutoff>>
    <2> DEFINE S == ChangeSet(k, cutoff)
    <2>1. PICK p : /\ Arranged(Times, p, S)
                   /\ changeIdx = [i \in 1..Len(p) |-> ChangeOf(p[i][1], p[i][2])]
      BY <1>0 DEF ChangeInv
    <2>2. \A c \in Pairs(k) : /\ c[1] \in 1..n /\ c[1] \in 0..n /\ c[1] - 1 \in 0..n /\ c[2] \in Files
                              /\ c \in Pairs(n) /\ c \in Pairs(Len(log'))
      <3> SUFFICES ASSUME NEW c \in Pairs(k)
                   PROVE  /\ c[1] \in 1..n /\ c[1] \in 0..n /\ c[1] - 1 \in 0..n /\ c[2] \in Files
                          /\ c \in Pairs(n) /\ c \in Pairs(Len(log'))
        OBVIOUS
      <3>1. c[1] \in 1..k /\ c[2] \in Files /\ c = <<c[1], c[2]>>
        BY <1>0, PairFacts
      <3>2. c[1] \in 1..n /\ c[1] \in 0..n /\ c[1] - 1 \in 0..n
        BY <1>0, <3>1
      <3>3. c[1] \in 1..Len(log')
        BY <1>0, <3>2, LogGrows
      <3> QED
        BY <3>1, <3>2, <3>3 DEF Pairs
    <2>3. \A c \in Pairs(k) : /\ TimeOf(c[1])' = TimeOf(c[1])
                              /\ TreeAt(c[1])' = TreeAt(c[1]) /\ TreeAt(c[1] - 1)' = TreeAt(c[1] - 1)
                              /\ ChangeOf(c[1], c[2])' = ChangeOf(c[1], c[2])
      BY <1>0, <2>2, LogKeeps
    <2>4. ChangeSet(Len(commitIdx), cutoff)' = S
      BY <1>1, <2>3 DEF ChangeSet, Pairs
    <2>5. \A c \in S : Times'[c] = Times[c]
      <3>1. \A c \in S : c \in Pairs(k)
        BY DEF ChangeSet
      <3>2. Times' = [c \in Pairs(Len(log')) |-> TimeOf(c[1])']
        BY DEF Times, Pairs
      <3> QED
        BY <2>2, <2>3, <3>1, <3>2 DEF Times
    <2>6. \A i \in 1..Len(p) : p[i] \in S /\ p[i] \in Pairs(k)
      <3>1. \A i \in 1..Len(p) : p[i] \in S
        BY <2>1 DEF Arranged
      <3> QED
        BY <3>1 DEF ChangeSet
    <2> HIDE DEF S
    <2>7. Arranged(Times', p, S)
      BY <2>1, <2>5, <2>6 DEF Arranged
    <2>8. changeIdx' = [i \in 1..Len(p) |-> ChangeOf(p[i][1], p[i][2])']
      BY <1>1, <2>1, <2>3, <2>6
    <2> QED
      BY <2>4, <2>7, <2>8 DEF ChangeInv
  <1>2. CASE Rebuild
    <2>1. PICK since, idx : since = cutoff' /\ idx = changeIdx'
      OBVIOUS
    <2>2. /\ idx \in ChangeIndexes(since) /\ log' = log
          /\ since = IF now > Retention THEN now - Retention ELSE 0
      BY <1>2, <2>1 DEF Rebuild
    <2>3. since \in Nat
      <3>1. now \in Nat /\ Retention \in Nat
        BY <1>0, HistoryConstants DEF Clocked
      <3> QED
        BY <2>2, <3>1
    <2>4. PICK p : /\ Arranged(Times, p, ChangeSet(n, since))
                   /\ idx = [i \in 1..Len(p) |-> ChangeOf(p[i][1], p[i][2])]
      BY <1>0, <2>2, <2>3, IndexArranged
    <2>5. Len(commitIdx') = n
      <3>1. commitIdx' = BuildCommitIndex(n)
        BY <1>2 DEF Rebuild
      <3>2. BuildCommitIndex(n) \in [1..n -> 1..n]
        BY <1>0, LogTimes, BuildSorts
      <3> QED
        BY <1>0, <3>1, <3>2
    <2>6. Times' = Times /\ ChangeSet(Len(commitIdx), cutoff)' = ChangeSet(n, since)
      BY <2>1, <2>2, <2>5 DEF Times, ChangeSet, Pairs, TimeOf, TreeAt
    <2>7. changeIdx' = [i \in 1..Len(p) |-> ChangeOf(p[i][1], p[i][2])']
      BY <2>1, <2>2, <2>4 DEF ChangeOf, TreeAt, TimeOf
    <2> QED
      BY <2>4, <2>6, <2>7 DEF ChangeInv
  <1> QED
    BY <1>1, <1>2 DEF Next, Tick, Commit, vars

LEMMA HistoryInvStep == HistoryInv /\ [Next]_vars => HistoryInv'
  <1> SUFFICES ASSUME HistoryInv, [Next]_vars PROVE HistoryInv'
    OBVIOUS
  <1>1. IndexInv' /\ ChangeInv'
    BY IndexStep, ChangeStep DEF HistoryInv
  <1>2. IndexInv /\ Clocked
    BY DEF HistoryInv
  <1>3. /\ now \in 0..MaxTime /\ MaxTime \in Nat /\ cutoff \in Nat /\ Retention \in Nat
        /\ Len(log) \in Nat /\ \A a \in 1..Len(log) : log[a].time \in Nat /\ log[a].time <= now
    BY <1>2, LogTimes, HistoryConstants DEF Clocked
  <1>4. Clocked'
    <2>1. CASE Tick
      <3>1. log' = log /\ cutoff' = cutoff /\ now' = now + 1 /\ now < MaxTime
        BY <2>1 DEF Tick
      <3>2. now' \in 0..MaxTime /\ now <= now'
        BY <1>3, <3>1
      <3>3. ASSUME NEW a \in 1..Len(log) PROVE log[a].time <= now'
        <4> DEFINE x == log[a].time
        <4>1. x \in Nat /\ x <= now
          BY <1>3
        <4> HIDE DEF x
        <4>2. x <= now'
          BY <1>3, <3>2, <4>1
        <4> QED
          BY <4>2 DEF x
      <3> QED
        BY <1>3, <3>1, <3>2, <3>3 DEF Clocked
    <2>2. CASE Commit
      <3>1. PICK t \in (now - Skew)..now, tree \in Tree :
              log' = Append(log, [time |-> t, tree |-> tree])
        BY <2>2 DEF Commit
      <3>2. UNCHANGED <<now, cutoff>>
        BY <2>2 DEF Commit
      <3> DEFINE c == [time |-> t, tree |-> tree]
      <3>3. c.time = t /\ t <= now
        BY <1>3, HistoryConstants
      <3>4. /\ Len(log') = Len(log) + 1 /\ log'[Len(log) + 1] = c
            /\ \A a \in 1..Len(log) : log'[a] = log[a]
        <4>1. c \in [time : Nat, tree : Tree] /\ log \in Seq([time : Nat, tree : Tree])
          BY <1>2, HistoryConstants DEF IndexInv
        <4> HIDE DEF c
        <4> DEFINE R == [time : Nat, tree : Tree]
        <4> HIDE DEF R
        <4>2. c \in R /\ log \in Seq(R) /\ log' = Append(log, c)
          BY <3>1, <4>1 DEF R, c
        <4> QED
          BY <4>2
      <3>5. \A a \in 1..Len(log') : a \in 1..Len(log) \/ a = Len(log) + 1
        BY <1>3, <3>4
      <3> HIDE DEF c
      <3>6. \A a \in 1..Len(log') : log'[a].time <= now
        BY <1>3, <3>3, <3>4, <3>5
      <3> QED
        BY <1>3, <3>2, <3>6 DEF Clocked
    <2>3. CASE Rebuild
      <3>1. log' = log /\ now' = now /\ cutoff' = IF now > Retention THEN now - Retention ELSE 0
        BY <2>3 DEF Rebuild
      <3>2. cutoff' \in Nat
        BY <1>3, <3>1
      <3> QED
        BY <1>3, <3>1, <3>2 DEF Clocked
    <2>4. CASE UNCHANGED vars
      BY <1>2, <2>4 DEF vars, Clocked
    <2> QED
      BY <2>1, <2>2, <2>3, <2>4 DEF Next
  <1> QED
    BY <1>1, <1>4 DEF HistoryInv

LEMMA InitHistory == Init => HistoryInv
  <1> SUFFICES ASSUME Init PROVE HistoryInv
    OBVIOUS
  <1>1. /\ log = <<>> /\ now = Skew /\ commitIdx = <<>> /\ changeIdx = <<>> /\ cutoff = 0
    BY DEF Init
  <1>2. Len(<<>>) = 0
    OBVIOUS
  <1>3. Clocked
    BY <1>1, <1>2, HistoryConstants DEF Clocked
  <1>4. ChangeSet(Len(commitIdx), cutoff) = {}
    BY <1>1, <1>2 DEF ChangeSet, Pairs
  <1>5. Arranged(Times, <<>>, {})
    BY <1>2 DEF Arranged
  <1>6. changeIdx = [i \in 1..Len(<<>>) |-> ChangeOf(<<>>[i][1], <<>>[i][2])]
    BY <1>1, <1>2
  <1>7. ChangeInv
    BY <1>4, <1>5, <1>6 DEF ChangeInv
  <1> QED
    BY <1>3, <1>7, InitIndex DEF HistoryInv

LEMMA HistoryInvariance == Spec => []HistoryInv
  BY InitHistory, HistoryInvStep, PTL DEF Spec

\* Every event is of a commit of the log and of one of the files in it.
LEMMA EventFacts ==
  ASSUME HistoryInv, NEW n \in 1..Len(log), NEW f \in Files
  PROVE  /\ ChangeOf(n, f) \in Event
         /\ ChangeOf(n, f).n = n /\ ChangeOf(n, f).time = TimeOf(n) /\ ChangeOf(n, f).id = IdOf[f]
         /\ ChangeOf(n, f).type = IF TreeAt(n - 1)[f] = None THEN "added"
                                  ELSE IF TreeAt(n)[f] = None THEN "deleted" ELSE "modified"
  <1>1. n \in Nat /\ TimeOf(n) \in Nat
    BY LogTimes DEF TimeOf, HistoryInv
  <1>2. IdOf[f] \in Ids /\ KindOf[f] \in Kinds
    BY DEF Ids, Kinds
  <1> DEFINE kind == IF TreeAt(n)[f] = None THEN NoKind ELSE KindFromYAML(f, TreeAt(n)[f])
             type == IF TreeAt(n - 1)[f] = None THEN "added"
                     ELSE IF TreeAt(n)[f] = None THEN "deleted" ELSE "modified"
  <1>3. kind \in Kinds \cup {NoKind}
    BY <1>2 DEF KindFromYAML
  <1>4. type \in {"added", "modified", "deleted"}
    OBVIOUS
  <1>5. ChangeOf(n, f) = [n |-> n, time |-> TimeOf(n), id |-> IdOf[f], kind |-> kind, type |-> type]
    BY DEF ChangeOf
  <1> HIDE DEF kind, type
  <1> QED
    BY <1>1, <1>2, <1>3, <1>4, <1>5 DEF Event, type

\* The indexes hold commits of the log and events of the form of a
\* ChangeEvent, with the kind of a resource or none.
THEOREM HistoryTypes == Spec => []TypeOK
  <1>1. HistoryInv => TypeOK
    <2> SUFFICES ASSUME HistoryInv PROVE TypeOK
      OBVIOUS
    <2>1. IndexInv /\ Clocked
      BY DEF HistoryInv
    <2>2. commitIdx \in Seq(1..Len(log))
      <3>1. Len(commitIdx) \in Nat /\ Len(log) \in Nat /\ Len(commitIdx) <= Len(log)
        BY <2>1, LogTimes
      <3>2. commitIdx \in [1..Len(commitIdx) -> 1..Len(log)]
        <4>1. commitIdx \in [1..Len(commitIdx) -> 1..Len(commitIdx)]
          BY <2>1 DEF IndexInv
        <4>2. \A i \in 1..Len(commitIdx) : i \in 1..Len(log)
          BY <3>1
        <4> QED
          BY <4>1, <4>2
      <3> QED
        BY <3>1, <3>2
    <2>3. changeIdx \in Seq(Event)
      <3>1. PICK p : /\ Arranged(Times, p, ChangeSet(Len(commitIdx), cutoff))
                     /\ changeIdx = [i \in 1..Len(p) |-> ChangeOf(p[i][1], p[i][2])]
        BY DEF HistoryInv, ChangeInv
      <3>2. Len(p) \in Nat /\ \A i \in 1..Len(p) : p[i] \in ChangeSet(Len(commitIdx), cutoff)
        BY <3>1 DEF Arranged
      <3>3. \A i \in 1..Len(p) : p[i][1] \in 1..Len(log) /\ p[i][2] \in Files
        <4>1. Len(commitIdx) \in Nat /\ Len(log) \in Nat /\ Len(commitIdx) <= Len(log)
          BY <2>1, LogTimes
        <4>2. \A i \in 1..Len(p) : p[i][1] \in 1..Len(commitIdx) /\ p[i][2] \in Files
          BY <3>2, <4>1, PairFacts DEF ChangeSet
        <4> QED
          BY <4>1, <4>2
      <3>4. \A i \in 1..Len(p) : ChangeOf(p[i][1], p[i][2]) \in Event
        BY <3>3, EventFacts
      <3> QED
        BY <3>1, <3>2, <3>4
    <2> QED
      BY <2>1, <2>2, <2>3 DEF TypeOK, IndexInv, Clocked
  <1> QED
    BY <1>1, HistoryInvariance, PTL

-----------------------------------------------------------------------------
(* The two indexes together *)

\* A path is what its change events say of it: group, namespace and name tell
\* the files apart.
IdsDiffer == \A f, g \in Files : IdOf[f] = IdOf[g] => f = g

\* Without a change of f after commit a and up to b, f stays as it was.
LEMMA NoChangeSame ==
  ASSUME NEW f, NEW a \in Nat, NEW b \in Nat, a <= b,
         \A m \in (a + 1)..b : TreeAt(m)[f] = TreeAt(m - 1)[f]
  PROVE  TreeAt(b)[f] = TreeAt(a)[f]
  <1> DEFINE v == [m \in a..b |-> TreeAt(m)[f]]
             Other == {m \in a..b : v[m] # v[a]}
  <1>1. /\ v[a] = TreeAt(a)[f] /\ v[b] = TreeAt(b)[f] /\ a \in a..b /\ b \in a..b
        /\ \A m \in (a + 1)..b : m - 1 \in a..b /\ v[m] = v[m - 1]
    OBVIOUS
  <1> HIDE DEF v
  <1> SUFFICES ASSUME Other # {} PROVE FALSE
    BY <1>1
  <1>2. PICK m \in Other : \A x \in Other : m <= x
    <2>1. Other \subseteq Nat
      OBVIOUS
    <2> HIDE DEF Other
    <2> QED
      BY <2>1, LeastNat
  <1>3. m \in a..b /\ v[m] # v[a]
    BY <1>2
  <1>4. m \in (a + 1)..b
    <2>1. m # a
      BY <1>3
    <2> QED
      BY <1>3, <2>1
  <1>5. m - 1 \in a..b /\ v[m - 1] # v[a] /\ ~(m <= m - 1)
    BY <1>1, <1>3, <1>4
  <1> QED
    BY <1>2, <1>5

\* With commits in the order of their times, the latest one no later than t
\* has the commits no later than t before it, and the others after it.
LEMMA LatestSplits ==
  ASSUME IndexInv, Orderly, NEW t \in Nat, NEW n, Latest(log, Len(commitIdx), t, n)
  PROVE  /\ n \in 0..Len(commitIdx)
         /\ \A m \in 1..Len(commitIdx) : TimeOf(m) <= t <=> m <= n
  <1> DEFINE k == Len(commitIdx)
  <1>1. /\ k \in Nat /\ \A m \in 1..k : TimeOf(m) \in Nat
        /\ \A x, y \in 1..k : x < y => TimeOf(x) < TimeOf(y)
    <2>1. Len(log) \in Nat /\ k \in 0..Len(log) /\ \A m \in 1..Len(log) : TimeOf(m) \in Nat
      BY LogTimes DEF TimeOf
    <2>2. \A m \in 1..k : m \in 1..Len(log)
      BY <2>1
    <2> QED
      BY <2>1, <2>2 DEF Orderly
  <1>2. /\ (\A m \in 1..k : ~(TimeOf(m) <= t)) <=> n = 0
        /\ n # 0 => /\ n \in 1..k /\ TimeOf(n) <= t
                    /\ \A m \in 1..k : TimeOf(m) <= t =>
                         TimeOf(m) < TimeOf(n) \/ (TimeOf(m) = TimeOf(n) /\ m <= n)
    BY DEF Latest, TimeOf
  <1> HIDE DEF k
  <1>3. CASE n = 0
    BY <1>1, <1>2, <1>3 DEF k
  <1>4. CASE n # 0
    <2>1. ASSUME NEW m \in 1..k PROVE TimeOf(m) <= t <=> m <= n
      <3> DEFINE x == TimeOf(m)
                 y == TimeOf(n)
      <3>1. /\ x \in Nat /\ y \in Nat /\ y <= t /\ n \in 1..k
            /\ m < n => x < y
            /\ n < m => y < x
            /\ m = n => x = y
            /\ x <= t => x < y \/ (x = y /\ m <= n)
        BY <1>1, <1>2, <1>4
      <3> HIDE DEF x, y
      <3>2. m < n \/ n < m \/ m = n
        BY <1>1, <3>1
      <3>3. x <= t <=> m <= n
        BY <1>1, <3>1, <3>2
      <3> QED
        BY <3>3 DEF x
    <2> QED
      BY <1>1, <1>2, <1>4, <2>1 DEF k
  <1> QED
    BY <1>3, <1>4

LEMMA HighestIn ==
  ASSUME NEW n \in Nat, NEW S \in SUBSET (1..n), S # {}
  PROVE  Max(S) \in S /\ \A x \in S : x <= Max(S)
  <1> DEFINE T == {n - x : x \in S}
  <1>1. T \subseteq Nat /\ T # {}
    <2>1. \A x \in S : x \in 1..n /\ n - x \in Nat
      OBVIOUS
    <2>2. PICK x \in S : TRUE
      OBVIOUS
    <2>3. n - x \in T
      OBVIOUS
    <2> QED
      BY <2>1, <2>3
  <1>2. PICK y \in T : \A z \in T : y <= z
    <2> HIDE DEF T
    <2> QED
      BY <1>1, LeastNat
  <1>3. PICK m \in S : y = n - m
    BY <1>2
  <1>4. ASSUME NEW x \in S PROVE m >= x
    <2>1. n - x \in T /\ x \in Int /\ m \in Int
      OBVIOUS
    <2>2. n - m <= n - x
      BY <1>2, <1>3, <2>1
    <2> QED
      BY <2>1, <2>2
  <1>5. Max(S) \in S /\ \A x \in S : Max(S) >= x
    BY <1>3, <1>4 DEF Max
  <1> QED
    BY <1>5

\* What p, the arrangement behind the change index, says of the file f.
LEMMA OwnEvents ==
  ASSUME HistoryInv, Orderly,
         NEW p, Arranged(Times, p, ChangeSet(Len(commitIdx), cutoff)),
         changeIdx = [i \in 1..Len(p) |-> ChangeOf(p[i][1], p[i][2])]
  PROVE  /\ Len(p) \in Nat /\ DOMAIN changeIdx = 1..Len(p)
         /\ \A i \in 1..Len(p) :
              /\ p[i][1] \in 1..Len(commitIdx) /\ p[i][1] \in 1..Len(log) /\ p[i][2] \in Files
              /\ TreeAt(p[i][1])[p[i][2]] # TreeAt(p[i][1] - 1)[p[i][2]]
              /\ changeIdx[i] = ChangeOf(p[i][1], p[i][2])
         /\ \A i, j \in 1..Len(p) : i < j /\ p[i][2] = p[j][2] => p[i][1] < p[j][1]
         /\ \A m \in 1..Len(commitIdx), f \in Files :
              cutoff <= TimeOf(m) /\ TreeAt(m)[f] # TreeAt(m - 1)[f]
                => \E i \in 1..Len(p) : p[i][1] = m /\ p[i][2] = f
  <1> DEFINE k == Len(commitIdx)
             S == ChangeSet(k, cutoff)
  <1>1. k \in Nat /\ Len(log) \in Nat /\ k <= Len(log)
    BY LogTimes DEF HistoryInv
  <1>2. /\ Len(p) \in Nat /\ \A i \in 1..Len(p) : p[i] \in S
        /\ \A i, j \in 1..Len(p) : i # j => p[i] # p[j]
        /\ \A c \in S : \E i \in 1..Len(p) : p[i] = c
        /\ \A i, j \in 1..Len(p) : i < j => Times[p[i]] <= Times[p[j]]
    BY DEF Arranged
  <1>3. \A c \in S : /\ c[1] \in 1..k /\ c[2] \in Files /\ c = <<c[1], c[2]>>
                     /\ TreeAt(c[1])[c[2]] # TreeAt(c[1] - 1)[c[2]]
    BY <1>1, PairFacts DEF ChangeSet
  <1>4. \A c \in S : c[1] \in 1..Len(log) /\ Times[c] = TimeOf(c[1])
    <2>1. \A c \in S : c[1] \in 1..Len(log)
      BY <1>1, <1>3
    <2>2. \A c \in S : c \in Pairs(Len(log))
      BY <1>3, <2>1 DEF Pairs
    <2> HIDE DEF S
    <2> QED
      BY <2>1, <2>2 DEF Times
  <1>5. \A m \in 1..k, f \in Files : cutoff <= TimeOf(m) /\ TreeAt(m)[f] # TreeAt(m - 1)[f]
          => \E i \in 1..Len(p) : p[i][1] = m /\ p[i][2] = f
    <2> SUFFICES ASSUME NEW m \in 1..k, NEW f \in Files, cutoff <= TimeOf(m),
                        TreeAt(m)[f] # TreeAt(m - 1)[f]
                 PROVE  \E i \in 1..Len(p) : p[i][1] = m /\ p[i][2] = f
      OBVIOUS
    <2>1. <<m, f>> \in Pairs(k) /\ <<m, f>>[1] = m /\ <<m, f>>[2] = f
      BY DEF Pairs
    <2>2. <<m, f>> \in S
      BY <2>1 DEF ChangeSet
    <2> HIDE DEF S
    <2> QED
      BY <1>2, <2>1, <2>2
  <1> HIDE DEF S, k
  <1>6. ASSUME NEW i \in 1..Len(p), NEW j \in 1..Len(p), i < j, p[i][2] = p[j][2]
        PROVE  p[i][1] < p[j][1]
    <2> DEFINE x == p[i][1]
               y == p[j][1]
    <2>1. x \in 1..Len(log) /\ y \in 1..Len(log)
      BY <1>2, <1>4
    <2>2. x # y
      <3>1. p[i] = <<p[i][1], p[i][2]>> /\ p[j] = <<p[j][1], p[j][2]>>
        BY <1>2, <1>3
      <3>2. p[i] # p[j]
        BY <1>2, <1>6
      <3> QED
        BY <1>6, <3>1, <3>2
    <2>3. TimeOf(x) <= TimeOf(y)
      BY <1>2, <1>4, <1>6
    <2>4. TimeOf(x) \in Nat /\ TimeOf(y) \in Nat
      BY <2>1, LogTimes DEF TimeOf, HistoryInv
    <2> HIDE DEF x, y
    <2>5. y < x => TimeOf(y) < TimeOf(x)
      BY <2>1 DEF Orderly
    <2>6. ~(y < x)
      BY <2>3, <2>4, <2>5
    <2>7. x < y
      BY <1>1, <2>1, <2>2, <2>6
    <2> QED
      BY <2>7 DEF x, y
  <1> QED
    BY <1>2, <1>3, <1>4, <1>5, <1>6 DEF k

LEMMA PresentIs ==
  ASSUME IdsDiffer, NEW f \in Files, NEW tree
  PROVE  IdOf[f] \in Present(tree) <=> tree[f] # None
  BY DEF Present, IdsDiffer

\* Replayed over the resources of commit a, the events of the commits after a
\* and up to b leave f where it is in commit b.
LEMMA ReplayIs ==
  ASSUME HistoryInv, Orderly, IdsDiffer,
         NEW p, Arranged(Times, p, ChangeSet(Len(commitIdx), cutoff)),
         changeIdx = [i \in 1..Len(p) |-> ChangeOf(p[i][1], p[i][2])],
         NEW f \in Files, NEW a \in 0..Len(commitIdx), NEW b \in a..Len(commitIdx),
         \A m \in (a + 1)..b : cutoff <= TimeOf(m),
         NEW S \in SUBSET (1..Len(p)),
         \A j \in 1..Len(p) : p[j][2] = f => (j \in S <=> a < p[j][1] /\ p[j][1] <= b)
  PROVE  IdOf[f] \in Replay(Present(TreeAt(a)), S) <=> TreeAt(b)[f] # None
  <1> DEFINE own == {i \in S : changeIdx[i].id = IdOf[f]}
  <1>1. /\ Len(p) \in Nat /\ DOMAIN changeIdx = 1..Len(p)
        /\ \A i \in 1..Len(p) :
             /\ p[i][1] \in 1..Len(commitIdx) /\ p[i][1] \in 1..Len(log) /\ p[i][2] \in Files
             /\ TreeAt(p[i][1])[p[i][2]] # TreeAt(p[i][1] - 1)[p[i][2]]
             /\ changeIdx[i] = ChangeOf(p[i][1], p[i][2])
        /\ \A i, j \in 1..Len(p) : i < j /\ p[i][2] = p[j][2] => p[i][1] < p[j][1]
        /\ \A m \in 1..Len(commitIdx), g \in Files :
             cutoff <= TimeOf(m) /\ TreeAt(m)[g] # TreeAt(m - 1)[g]
               => \E i \in 1..Len(p) : p[i][1] = m /\ p[i][2] = g
    BY OwnEvents
  <1>2. \A i \in 1..Len(p) :
          /\ changeIdx[i].id = IdOf[p[i][2]]
          /\ changeIdx[i].type # "deleted" <=> TreeAt(p[i][1])[p[i][2]] # None
    <2> SUFFICES ASSUME NEW i \in 1..Len(p)
                 PROVE  /\ changeIdx[i].id = IdOf[p[i][2]]
                        /\ changeIdx[i].type # "deleted" <=> TreeAt(p[i][1])[p[i][2]] # None
      OBVIOUS
    <2>1. PICK n \in 1..Len(log), g \in Files :
            /\ n = p[i][1] /\ g = p[i][2] /\ TreeAt(n)[g] # TreeAt(n - 1)[g]
            /\ changeIdx[i] = ChangeOf(n, g)
      BY <1>1
    <2>2. /\ ChangeOf(n, g).id = IdOf[g]
          /\ ChangeOf(n, g).type = IF TreeAt(n - 1)[g] = None THEN "added"
                                   ELSE IF TreeAt(n)[g] = None THEN "deleted" ELSE "modified"
      BY EventFacts
    <2>3. ChangeOf(n, g).type # "deleted" <=> TreeAt(n)[g] # None
      BY <2>1, <2>2
    <2> QED
      BY <2>1, <2>2, <2>3
  <1>3. \A i \in 1..Len(p) : i \in own <=> p[i][2] = f /\ a < p[i][1] /\ p[i][1] <= b
    BY <1>1, <1>2 DEF IdsDiffer
  <1>4. own \subseteq 1..Len(p)
    OBVIOUS
  <1>5. IdOf[f] \in Replay(Present(TreeAt(a)), S)
          <=> IF own = {} THEN IdOf[f] \in Present(TreeAt(a))
                          ELSE changeIdx[Max(own)].type # "deleted"
    <2>1. IdOf[f] \in Ids
      BY DEF Ids
    <2> QED
      BY <2>1 DEF Replay
  <1>6. Len(commitIdx) \in Nat
    BY LogTimes DEF HistoryInv
  <1> HIDE DEF own
  <1>7. CASE own = {}
    <2>1. \A m \in (a + 1)..b : TreeAt(m)[f] = TreeAt(m - 1)[f]
      <3> SUFFICES ASSUME NEW m \in (a + 1)..b, TreeAt(m)[f] # TreeAt(m - 1)[f] PROVE FALSE
        OBVIOUS
      <3>1. m \in 1..Len(commitIdx) /\ a < m /\ m <= b
        BY <1>6
      <3>2. PICK i \in 1..Len(p) : p[i][1] = m /\ p[i][2] = f
        BY <1>1, <3>1
      <3> QED
        BY <1>3, <1>7, <3>1, <3>2
    <2>2. TreeAt(b)[f] = TreeAt(a)[f]
      <3>1. a \in Nat /\ b \in Nat /\ a <= b
        BY <1>6
      <3> QED
        BY <2>1, <3>1, NoChangeSame
    <2>3. IdOf[f] \in Present(TreeAt(a)) <=> TreeAt(a)[f] # None
      BY PresentIs
    <2> QED
      BY <1>5, <1>7, <2>2, <2>3
  <1>8. CASE own # {}
    <2>1. PICK i \in 1..Len(p) : i = Max(own) /\ i \in own /\ \A j \in own : j <= i
      BY <1>1, <1>4, <1>8, HighestIn
    <2>2. PICK n \in 1..Len(commitIdx) : n = p[i][1] /\ p[i][2] = f /\ a < n /\ n <= b
      BY <1>1, <1>3, <2>1
    <2>3. \A m \in (n + 1)..b : TreeAt(m)[f] = TreeAt(m - 1)[f]
      <3> SUFFICES ASSUME NEW m \in (n + 1)..b, TreeAt(m)[f] # TreeAt(m - 1)[f] PROVE FALSE
        OBVIOUS
      <3>1. m \in (a + 1)..b /\ m \in 1..Len(commitIdx) /\ a < m /\ m <= b /\ n < m
        BY <1>6, <2>2
      <3>2. PICK j \in 1..Len(p) : p[j][1] = m /\ p[j][2] = f
        BY <1>1, <3>1
      <3>3. j <= i
        BY <1>3, <2>1, <3>1, <3>2
      <3>4. j < i => m < n
        BY <1>1, <2>2, <3>2
      <3>5. j = i => m = n
        BY <2>2, <3>2
      <3>6. j < i \/ j = i
        BY <3>3
      <3> QED
        BY <3>1, <3>4, <3>5, <3>6
    <2>4. TreeAt(b)[f] = TreeAt(n)[f]
      <3>1. n \in Nat /\ b \in Nat /\ n <= b
        BY <1>6, <2>2
      <3> QED
        BY <2>3, <3>1, NoChangeSame
    <2>5. changeIdx[i].type # "deleted" <=> TreeAt(n)[f] # None
      BY <1>2, <2>2
    <2> QED
      BY <1>5, <1>8, <2>1, <2>4, <2>5
  <1> QED
    BY <1>7, <1>8

LEMMA IndexesAgree ==
  ASSUME HistoryInv, IdsDiffer
  PROVE  HistoryExplainsSnapshots
  <1> SUFFICES ASSUME Orderly, NEW t1 \in cutoff..MaxTime, NEW t2 \in cutoff..MaxTime, t1 <= t2
               PROVE  LET between == {i \in DOMAIN changeIdx :
                                        t1 < changeIdx[i].time /\ changeIdx[i].time <= t2}
                          first   == Present(SnapshotAt(t1))
                      IN /\ Replay(first, between) = Present(SnapshotAt(t2))
                         /\ \A i \in between :
                              changeIdx[i].type = "added"
                                <=> changeIdx[i].id \notin Replay(first, {j \in between : j < i})
    BY DEF HistoryExplainsSnapshots
  <1> DEFINE between == {i \in DOMAIN changeIdx :
                           t1 < changeIdx[i].time /\ changeIdx[i].time <= t2}
             k == Len(commitIdx)
  <1>1. t1 \in Nat /\ t2 \in Nat /\ cutoff \in Nat /\ cutoff <= t1
    BY HistoryConstants DEF HistoryInv, Clocked
  <1>2. PICK a : a = FindBefore(t1) /\ a \in 0..k /\ \A m \in 1..k : TimeOf(m) <= t1 <=> m <= a
    <2>1. Latest(log, k, t1, FindBefore(t1))
      BY <1>1, FoundIsLatest DEF HistoryInv
    <2> QED
      BY <1>1, <2>1, LatestSplits DEF HistoryInv
  <1>3. PICK b : b = FindBefore(t2) /\ b \in 0..k /\ \A m \in 1..k : TimeOf(m) <= t2 <=> m <= b
    <2>1. Latest(log, k, t2, FindBefore(t2))
      BY <1>1, FoundIsLatest DEF HistoryInv
    <2> QED
      BY <1>1, <2>1, LatestSplits DEF HistoryInv
  <1>4. SnapshotAt(t1) = TreeAt(a) /\ SnapshotAt(t2) = TreeAt(b)
    BY <1>2, <1>3 DEF SnapshotAt
  <1>5. k \in Nat /\ \A m \in 1..k : TimeOf(m) \in Nat
    <2>1. Len(log) \in Nat /\ k \in 0..Len(log) /\ \A m \in 1..Len(log) : TimeOf(m) \in Nat
      BY LogTimes DEF TimeOf, HistoryInv
    <2> QED
      BY <2>1
  <1>6. PICK p : /\ Arranged(Times, p, ChangeSet(k, cutoff))
                 /\ changeIdx = [i \in 1..Len(p) |-> ChangeOf(p[i][1], p[i][2])]
    BY DEF HistoryInv, ChangeInv
  <1>7. /\ Len(p) \in Nat /\ DOMAIN changeIdx = 1..Len(p)
        /\ \A i \in 1..Len(p) :
             /\ p[i][1] \in 1..k /\ p[i][1] \in 1..Len(log) /\ p[i][2] \in Files
             /\ TreeAt(p[i][1])[p[i][2]] # TreeAt(p[i][1] - 1)[p[i][2]]
             /\ changeIdx[i] = ChangeOf(p[i][1], p[i][2])
        /\ \A i, j \in 1..Len(p) : i < j /\ p[i][2] = p[j][2] => p[i][1] < p[j][1]
    BY <1>6, OwnEvents
  <1>8. \A i \in 1..Len(p) :
          /\ changeIdx[i].id = IdOf[p[i][2]] /\ changeIdx[i].time = TimeOf(p[i][1])
          /\ changeIdx[i].type = "added" <=> TreeAt(p[i][1] - 1)[p[i][2]] = None
    <2> SUFFICES ASSUME NEW i \in 1..Len(p)
                 PROVE  /\ changeIdx[i].id = IdOf[p[i][2]] /\ changeIdx[i].time = TimeOf(p[i][1])
                        /\ changeIdx[i].type = "added" <=> TreeAt(p[i][1] - 1)[p[i][2]] = None
      OBVIOUS
    <2>1. PICK n \in 1..Len(log), g \in Files :
            /\ n = p[i][1] /\ g = p[i][2] /\ changeIdx[i] = ChangeOf(n, g)
      BY <1>7
    <2>2. /\ ChangeOf(n, g).id = IdOf[g] /\ ChangeOf(n, g).time = TimeOf(n)
          /\ ChangeOf(n, g).type = IF TreeAt(n - 1)[g] = None THEN "added"
                                   ELSE IF TreeAt(n)[g] = None THEN "deleted" ELSE "modified"
      BY EventFacts
    <2>3. ChangeOf(n, g).type = "added" <=> TreeAt(n - 1)[g] = None
      BY <2>2
    <2> QED
      BY <2>1, <2>2, <2>3
  <1>9. a <= b
    <2>1. CASE a = 0
      BY <1>3, <1>5, <2>1
    <2>2. CASE a # 0
      <3>1. a \in 1..k
        BY <1>2, <1>5, <2>2
      <3>2. TimeOf(a) \in Nat /\ TimeOf(a) <= t1
        BY <1>2, <1>5, <3>1
      <3>3. TimeOf(a) <= t2
        BY <1>1, <3>2
      <3> QED
        BY <1>3, <3>1, <3>3
    <2> QED
      BY <2>1, <2>2
  <1>10. \A m \in 1..k : t1 < TimeOf(m) <=> a < m
    <2> SUFFICES ASSUME NEW m \in 1..k PROVE t1 < TimeOf(m) <=> a < m
      OBVIOUS
    <2>1. TimeOf(m) \in Nat /\ (TimeOf(m) <= t1 <=> m <= a) /\ m \in Nat /\ a \in Nat
      BY <1>2, <1>5
    <2> QED
      BY <1>1, <2>1
  <1>11. \A m \in (a + 1)..b : m \in 1..k /\ cutoff <= TimeOf(m)
    <2> SUFFICES ASSUME NEW m \in (a + 1)..b PROVE m \in 1..k /\ cutoff <= TimeOf(m)
      OBVIOUS
    <2>1. m \in 1..k /\ a < m
      BY <1>2, <1>3, <1>5
    <2>2. TimeOf(m) \in Nat /\ t1 < TimeOf(m)
      BY <1>5, <1>10, <2>1
    <2> QED
      BY <1>1, <2>1, <2>2
  <1>12. \A i \in 1..Len(p) : i \in between <=> a < p[i][1] /\ p[i][1] <= b
    BY <1>3, <1>7, <1>8, <1>10
  <1>13. between \subseteq 1..Len(p)
    BY <1>7
  <1> HIDE DEF between
  <1>14. Replay(Present(TreeAt(a)), between) = Present(TreeAt(b))
    <2>1. b \in a..k
      BY <1>2, <1>3, <1>5, <1>9
    <2>2. \A f \in Files : IdOf[f] \in Replay(Present(TreeAt(a)), between) <=> TreeAt(b)[f] # None
      BY <1>2, <1>6, <1>11, <1>12, <1>13, <2>1, ReplayIs
    <2>3. \A f \in Files : IdOf[f] \in Present(TreeAt(b)) <=> TreeAt(b)[f] # None
      BY PresentIs
    <2>4. Replay(Present(TreeAt(a)), between) \subseteq Ids /\ Present(TreeAt(b)) \subseteq Ids
      BY DEF Replay, Present, Ids
    <2>5. \A id \in Ids : \E f \in Files : id = IdOf[f]
      BY DEF Ids
    <2> QED
      BY <2>2, <2>3, <2>4, <2>5
  <1>15. ASSUME NEW i \in between
         PROVE  changeIdx[i].type = "added"
                  <=> changeIdx[i].id \notin Replay(Present(TreeAt(a)), {j \in between : j < i})
    <2> DEFINE S == {j \in between : j < i}
    <2>1. i \in 1..Len(p)
      BY <1>13
    <2>2. PICK f \in Files, m \in 1..k : f = p[i][2] /\ m = p[i][1] /\ a < m /\ m <= b
      BY <1>7, <1>12, <2>1
    <2>3. m - 1 \in a..k /\ \A x \in (a + 1)..(m - 1) : x \in (a + 1)..b
      <3>1. k \in Nat /\ a \in 0..k /\ b \in 0..k
        BY <1>2, <1>3, <1>5
      <3> HIDE DEF k
      <3>2. m - 1 \in a..k
        BY <2>2, <3>1
      <3>3. ASSUME NEW x \in (a + 1)..(m - 1) PROVE x \in (a + 1)..b
        BY <2>2, <3>1, <3>3
      <3> QED
        BY <3>2, <3>3
    <2>4. \A x \in (a + 1)..(m - 1) : cutoff <= TimeOf(x)
      BY <1>11, <2>3
    <2>5. S \in SUBSET (1..Len(p))
      BY <1>13
    <2>6. ASSUME NEW j \in 1..Len(p), p[j][2] = f
          PROVE  j \in S <=> a < p[j][1] /\ p[j][1] <= m - 1
      <3>1. PICK y \in 1..k : y = p[j][1]
        BY <1>7
      <3>2. (j < i => y < m) /\ (i < j => m < y) /\ (j = i => y = m)
        BY <1>7, <2>1, <2>2, <2>6, <3>1
      <3>3. j < i \/ i < j \/ j = i
        BY <1>7, <2>1
      <3>4. j < i <=> y < m
        BY <1>5, <3>2, <3>3
      <3>5. y < m => y <= b
        BY <1>3, <1>5, <2>2
      <3>6. y < m <=> y <= m - 1
        BY <1>5
      <3> QED
        BY <1>12, <3>1, <3>4, <3>5, <3>6
    <2> HIDE DEF S
    <2>7. IdOf[f] \in Replay(Present(TreeAt(a)), S) <=> TreeAt(m - 1)[f] # None
      BY <1>2, <1>6, <2>3, <2>4, <2>5, <2>6, ReplayIs
    <2>8. changeIdx[i].id = IdOf[f] /\ (changeIdx[i].type = "added" <=> TreeAt(m - 1)[f] = None)
      BY <1>8, <2>1, <2>2
    <2> QED
      BY <2>7, <2>8 DEF S
  <1> QED
    BY <1>4, <1>14, <1>15 DEF between

\* The two indexes tell the same story: the events of the change index between
\* two times lead from the snapshot FindBefore gives for the first to the one
\* it gives for the second, each event doing what it says (BuildChangeIndex
\* against BuildCommitIndex), where a path's identity is its own.
THEOREM HistoryExplains ==
  ASSUME IdsDiffer
  PROVE  Spec => []HistoryExplainsSnapshots
  <1>1. HistoryInv => HistoryExplainsSnapshots
    BY IndexesAgree
  <1> QED
    BY <1>1, HistoryInvariance, PTL

-----------------------------------------------------------------------------
(* Pages of the history *)

\* Two sequences of one length with the same elements are the same.
LEMMA SameSeq ==
  ASSUME NEW S, NEW s \in Seq(S), NEW t \in Seq(S), Len(s) = Len(t),
         \A i \in 1..Len(s) : s[i] = t[i]
  PROVE  s = t
  OBVIOUS

LEMMA ReverseFacts ==
  ASSUME NEW S, NEW s \in Seq(S)
  PROVE  /\ Reverse(s) \in Seq(S) /\ Len(Reverse(s)) = Len(s) /\ Len(s) \in Nat
         /\ \A i \in 1..Len(s) : Reverse(s)[i] = s[Len(s) - i + 1]
  <1>1. Len(s) \in Nat /\ \A i \in 1..Len(s) : Len(s) - i + 1 \in 1..Len(s) /\ s[Len(s) - i + 1] \in S
    OBVIOUS
  <1>2. Reverse(s) = [i \in 1..Len(s) |-> s[(Len(s) - i) + 1]]
    BY DEF Reverse
  <1>3. Reverse(s) \in [1..Len(s) -> S]
    BY <1>1, <1>2
  <1> QED
    BY <1>1, <1>2, <1>3

\* A page has the elements of the newest-first list from its offset on.
LEMMA PageFacts ==
  ASSUME NEW S, NEW s \in Seq(S), NEW limit \in Nat, NEW n \in 0..Len(s)
  PROVE  LET m == IF n + limit > Len(s) THEN Len(s) - n ELSE limit
         IN /\ Page(s, limit, n) \in Seq(S) /\ Len(Page(s, limit, n)) = m /\ m \in Nat
            /\ \A i \in 1..m : Page(s, limit, n)[i] = Reverse(s)[n + i]
  <1> DEFINE L == Len(s)
             m == IF n + limit > L THEN L - n ELSE limit
             p == Page(s, limit, n)
  <1>1. L \in Nat /\ n \in Nat /\ n <= L
    OBVIOUS
  <1>2. m \in Nat /\ n + m <= L
    BY <1>1
  <1>3. p = [i \in 1..m |-> s[L - n + 1 - i]]
    <2>1. CASE n >= L
      <3>1. n = L /\ m = 0
        BY <1>1, <2>1
      <3>2. p = <<>>
        BY <2>1 DEF Page
      <3>3. 1..0 = {}
        OBVIOUS
      <3> HIDE DEF m
      <3> QED
        BY <3>1, <3>2, <3>3
    <2>2. CASE ~(n >= L)
      <3>1. (IF n + limit > L THEN L ELSE n + limit) - n = m
        BY <1>1, <2>2
      <3> QED
        BY <2>2, <3>1 DEF Page
    <2> QED
      BY <2>1, <2>2
  <1> HIDE DEF m, p
  <1>4. \A i \in 1..m : /\ n + i \in 1..L /\ L - n + 1 - i \in 1..L
                        /\ s[L - n + 1 - i] \in S /\ L - n + 1 - i = L - (n + i) + 1
    BY <1>1, <1>2
  <1>5. p \in [1..m -> S]
    BY <1>3, <1>4
  <1>6. p \in Seq(S) /\ Len(p) = m
    BY <1>2, <1>5
  <1>7. \A i \in 1..m : p[i] = Reverse(s)[n + i]
    BY <1>3, <1>4, ReverseFacts
  <1> QED
    BY <1>2, <1>6, <1>7 DEF m, p

LEMMA PageTiles ==
  ASSUME NEW S, NEW s \in Seq(S), NEW limit \in Nat \ {0}, NEW n \in 0..Len(s)
  PROVE  LET all     == Reverse(s)
             from(k) == SubSeq(all, k + 1, Len(all))
         IN Page(s, limit, n) \o from(n + limit) = from(n)
  <1> DEFINE L == Len(s)
             all == Reverse(s)
             from(k) == SubSeq(all, k + 1, L)
             m == IF n + limit > L THEN L - n ELSE limit
             p == Page(s, limit, n)
  <1>1. L \in Nat /\ n \in Nat /\ n <= L
    OBVIOUS
  <1>2. all \in Seq(S) /\ Len(all) = L
    BY ReverseFacts
  <1>3. /\ p \in Seq(S) /\ Len(p) = m /\ m \in Nat
        /\ \A i \in 1..m : p[i] = all[n + i]
    BY PageFacts
  <1> HIDE DEF p, all
  <1>4. ASSUME NEW k \in Nat
        PROVE  /\ from(k) \in Seq(S) /\ Len(from(k)) = IF k > L THEN 0 ELSE L - k
               /\ \A i \in 1..Len(from(k)) : from(k)[i] = all[k + i]
    <2>1. CASE k < L
      <3>1. k + 1 \in 1..(L + 1) /\ L \in 0..L
        BY <1>1, <2>1
      <3> QED
        BY <1>1, <1>2, <2>1, <3>1, SubSeqProperties
    <2>2. CASE ~(k < L)
      <3>1. from(k) = <<>>
        BY <1>1, <1>2, <2>2
      <3> QED
        BY <1>1, <2>2, <3>1
    <2> QED
      BY <2>1, <2>2
  <1> DEFINE a == from(n + limit)
             b == from(n)
  <1>5. n + limit \in Nat /\ ~(n > L)
    BY <1>1
  <1> HIDE DEF from
  <1>6. /\ a \in Seq(S) /\ Len(a) = (IF n + limit > L THEN 0 ELSE L - (n + limit))
        /\ \A i \in 1..Len(a) : a[i] = all[n + limit + i]
    BY <1>4, <1>5
  <1>7. /\ b \in Seq(S) /\ Len(b) = L - n
        /\ \A i \in 1..Len(b) : b[i] = all[n + i]
    BY <1>1, <1>4, <1>5
  <1> HIDE DEF a, b
  <1>8. /\ p \o a \in Seq(S) /\ Len(p \o a) = Len(p) + Len(a)
        /\ \A i \in 1..Len(p \o a) : (p \o a)[i] = IF i <= Len(p) THEN p[i] ELSE a[i - Len(p)]
    BY <1>3, <1>6
  <1>9. Len(p \o a) = Len(b)
    BY <1>1, <1>3, <1>6, <1>7, <1>8
  <1>10. ASSUME NEW i \in 1..Len(p \o a) PROVE (p \o a)[i] = b[i]
    <2>1. i \in 1..Len(b) /\ i \in Nat /\ b[i] = all[n + i]
      BY <1>1, <1>7, <1>9
    <2>2. CASE i <= m
      BY <1>3, <1>8, <2>1, <2>2
    <2>3. CASE ~(i <= m)
      <3>1. m = limit
        <4>1. i <= L - n
          BY <1>1, <1>7, <2>1
        <4> QED
          BY <1>1, <2>1, <2>3, <4>1
      <3>2. i - m \in 1..Len(a)
        BY <1>3, <1>6, <1>8, <2>1, <2>3
      <3>3. n + limit + (i - m) = n + i
        <4>1. limit \in Nat
          OBVIOUS
        <4> HIDE DEF m
        <4> QED
          BY <1>1, <2>1, <3>1, <4>1
      <3> QED
        BY <1>3, <1>6, <1>8, <2>1, <2>3, <3>2, <3>3
    <2> QED
      BY <2>2, <2>3
  <1>11. p \o a = b
    BY <1>7, <1>8, <1>9, <1>10, SameSeq
  <1> QED
    BY <1>2, <1>11 DEF p, a, b, from, all

\* The change index, event by event: p has the commit and the file of each.
Tells(p) ==
  /\ Len(changeIdx) \in Nat
  /\ changeIdx \in [1..Len(changeIdx) -> Event]
  /\ \A i \in 1..Len(changeIdx) :
       /\ p[i] \in ChangeSet(Len(commitIdx), cutoff)
       /\ p[i][1] \in 1..Len(log) /\ p[i][2] \in Files /\ p[i] = <<p[i][1], p[i][2]>>
       /\ changeIdx[i] = ChangeOf(p[i][1], p[i][2]) /\ changeIdx[i].n = p[i][1]
       /\ changeIdx[i].id = IdOf[p[i][2]]
  /\ \A i, j \in 1..Len(changeIdx) : i # j => p[i] # p[j]
  /\ \A c \in ChangeSet(Len(commitIdx), cutoff) : \E i \in 1..Len(changeIdx) : p[i] = c
  /\ \A i, j \in 1..Len(changeIdx) : i < j => TimeOf(p[i][1]) <= TimeOf(p[j][1])

LEMMA IndexTells ==
  ASSUME HistoryInv
  PROVE  \E p : Tells(p)
  <1> DEFINE S == ChangeSet(Len(commitIdx), cutoff)
  <1>1. PICK p : /\ Arranged(Times, p, S)
                 /\ changeIdx = [i \in 1..Len(p) |-> ChangeOf(p[i][1], p[i][2])]
    BY DEF HistoryInv, ChangeInv
  <1>2. Len(commitIdx) \in Nat /\ Len(log) \in Nat /\ Len(commitIdx) <= Len(log)
    BY LogTimes DEF HistoryInv
  <1> DEFINE n == Len(p)
  <1>3. /\ n \in Nat /\ p \in [1..n -> S]
        /\ \A i, j \in 1..n : i # j => p[i] # p[j]
        /\ \A c \in S : \E i \in 1..n : p[i] = c
        /\ \A i, j \in 1..n : i < j => Times[p[i]] <= Times[p[j]]
    BY <1>1 DEF Arranged
  <1>4. \A c \in S : /\ c[1] \in 1..Len(log) /\ c[2] \in Files /\ c = <<c[1], c[2]>>
                     /\ c \in Pairs(Len(log))
    <2>1. \A c \in S : c[1] \in 1..Len(commitIdx) /\ c[2] \in Files /\ c = <<c[1], c[2]>>
      BY <1>2, PairFacts DEF ChangeSet
    <2> HIDE DEF S
    <2>2. \A c \in S : c[1] \in 1..Len(log)
      BY <1>2, <2>1
    <2> QED
      BY <2>1, <2>2 DEF Pairs
  <1> HIDE DEF S
  <1>5. \A c \in S : Times[c] = TimeOf(c[1])
    BY <1>4 DEF Times
  <1>6. \A c \in S : /\ ChangeOf(c[1], c[2]) \in Event /\ ChangeOf(c[1], c[2]).n = c[1]
                     /\ ChangeOf(c[1], c[2]).id = IdOf[c[2]]
    BY <1>4, EventFacts
  <1>7. \A i \in 1..n : p[i] \in S
    BY <1>3
  <1>8. changeIdx = [i \in 1..n |-> ChangeOf(p[i][1], p[i][2])]
    BY <1>1
  <1>9. changeIdx \in [1..n -> Event]
    BY <1>6, <1>7, <1>8
  <1>10. Len(changeIdx) = n
    BY <1>3, <1>9
  <1>11. \A i \in 1..n : changeIdx[i] = ChangeOf(p[i][1], p[i][2])
    BY <1>8
  <1> HIDE DEF n
  <1>12. \A i \in 1..n :
           /\ p[i] \in S
           /\ p[i][1] \in 1..Len(log) /\ p[i][2] \in Files /\ p[i] = <<p[i][1], p[i][2]>>
           /\ changeIdx[i] = ChangeOf(p[i][1], p[i][2]) /\ changeIdx[i].n = p[i][1]
           /\ changeIdx[i].id = IdOf[p[i][2]]
    BY <1>4, <1>6, <1>7, <1>11
  <1>13. \A i, j \in 1..n : i < j => TimeOf(p[i][1]) <= TimeOf(p[j][1])
    BY <1>3, <1>5, <1>7
  <1>14. Tells(p)
    BY <1>3, <1>9, <1>10, <1>12, <1>13 DEF Tells, S
  <1> QED
    BY <1>14

\* The positions of the events a query keeps.
Kept(id, kind) == {i \in DOMAIN changeIdx : Matches(changeIdx[i], id, kind)}

LEMMA MatchedPlaces ==
  ASSUME HistoryInv, NEW id, NEW kind
  PROVE  \E pos : /\ Places(Kept(id, kind), pos)
                  /\ Kept(id, kind) \in SUBSET (1..Len(changeIdx))
                  /\ Matched(id, kind) \in Seq(Event)
                  /\ Len(Matched(id, kind)) = Cardinality(Kept(id, kind))
                  /\ \A k \in 1..Len(Matched(id, kind)) : Matched(id, kind)[k] = changeIdx[pos[k]]
  <1> DEFINE keep == Kept(id, kind)
             n == Cardinality(keep)
             m == Matched(id, kind)
  <1>1. Len(changeIdx) \in Nat /\ changeIdx \in [1..Len(changeIdx) -> Event]
    BY IndexTells DEF Tells
  <1>2. keep \in SUBSET (1..Len(changeIdx))
    BY <1>1 DEF Kept
  <1>3. m = SubSeqAt(changeIdx, keep)
    BY DEF Matched, Kept
  <1> HIDE DEF keep, m
  <1>4. PICK pos : Places(keep, pos) /\ m = [k \in 1..n |-> changeIdx[pos[k]]]
    <2>1. \E q : /\ Places(keep, q)
                 /\ SubSeqAt(changeIdx, keep) = [k \in 1..Cardinality(keep) |-> changeIdx[q[k]]]
      BY <1>1, <1>2, SubSeqAtPlaces, Zenon
    <2> QED
      BY <1>3, <2>1, Zenon
  <1>5. n \in Nat /\ \A k \in 1..n : pos[k] \in keep
    BY <1>4 DEF Places
  <1>6. \A k \in 1..n : changeIdx[pos[k]] \in Event
    BY <1>1, <1>2, <1>5
  <1>7. m \in [1..n -> Event]
    BY <1>4, <1>6
  <1> HIDE DEF n
  <1>8. m \in Seq(Event) /\ Len(m) = n
    BY <1>5, <1>7
  <1>9. \A k \in 1..Len(m) : m[k] = changeIdx[pos[k]]
    <2>1. \A k \in 1..n : m[k] = changeIdx[pos[k]]
      BY <1>4, Zenon
    <2> QED
      BY <1>8, <2>1, Zenon
  <1> QED
    BY <1>2, <1>4, <1>8, <1>9 DEF keep, m, n

\* While author dates ascend, the events of a query are in the order of their
\* commits.
LEMMA MatchedAscends ==
  ASSUME HistoryInv, Orderly, NEW id, NEW kind
  PROVE  \A i, j \in 1..Len(Matched(id, kind)) :
           i < j => Matched(id, kind)[i].n <= Matched(id, kind)[j].n
  <1> DEFINE m == Matched(id, kind)
             keep == Kept(id, kind)
             L == Len(changeIdx)
  <1>1. PICK pos : /\ Places(keep, pos) /\ keep \in SUBSET (1..L)
                   /\ m \in Seq(Event) /\ Len(m) = Cardinality(keep)
                   /\ \A k \in 1..Len(m) : m[k] = changeIdx[pos[k]]
    BY MatchedPlaces
  <1>2. PICK p : Tells(p)
    BY IndexTells
  <1> HIDE DEF m, keep
  <1>3. ASSUME NEW i \in 1..Len(m), NEW j \in 1..Len(m), i < j
        PROVE  m[i].n <= m[j].n
    <2> DEFINE a == p[pos[i]][1]
               b == p[pos[j]][1]
    <2>1. pos[i] \in 1..L /\ pos[j] \in 1..L /\ pos[i] < pos[j]
      <3>1. i \in 1..Cardinality(keep) /\ j \in 1..Cardinality(keep)
        BY <1>1
      <3>2. pos[i] \in keep /\ pos[j] \in keep /\ pos[i] < pos[j]
        BY <1>1, <1>3, <3>1 DEF Places
      <3> QED
        BY <1>1, <3>2
    <2>2. /\ m[i].n = a /\ m[j].n = b /\ a \in 1..Len(log) /\ b \in 1..Len(log)
          /\ TimeOf(a) <= TimeOf(b)
      BY <1>1, <1>2, <2>1 DEF Tells
    <2>3. TimeOf(a) \in Nat /\ TimeOf(b) \in Nat /\ Len(log) \in Nat
      BY <2>2, LogTimes DEF TimeOf, HistoryInv
    <2> HIDE DEF a, b
    <2>4. ~(b < a)
      BY <2>2, <2>3 DEF Orderly
    <2> QED
      BY <2>2, <2>3, <2>4
  <1> QED
    BY <1>3 DEF m

\* Paging through GetHistory tells the history backwards, each change once:
\* the pages of any size, one after the other, are the whole answer, newest
\* first (ChangeIndex.Query).
THEOREM HistoryPages == Spec => []PagesTileNewestFirst
  <1>1. HistoryInv => PagesTile
    <2> SUFFICES ASSUME HistoryInv, NEW id \in Ids \cup {AnyId}
                 PROVE  LET events  == Matched(id, NoKind)
                            all     == Reverse(events)
                            from(n) == SubSeq(all, n + 1, Len(all))
                        IN \A limit \in 1..(Len(all) + 1), n \in 0..Len(all) :
                             Page(events, limit, n) \o from(n + limit) = from(n)
      BY DEF PagesTile
    <2> DEFINE events == Matched(id, NoKind)
               all == Reverse(events)
    <2>1. events \in Seq(Event)
      BY MatchedPlaces
    <2> HIDE DEF events
    <2>2. Len(all) = Len(events) /\ Len(events) \in Nat
      BY <2>1, ReverseFacts
    <2>3. ASSUME NEW limit \in 1..(Len(all) + 1), NEW n \in 0..Len(all)
          PROVE  Page(events, limit, n) \o SubSeq(all, (n + limit) + 1, Len(all))
                   = SubSeq(all, n + 1, Len(all))
      <3>1. limit \in Nat \ {0} /\ n \in 0..Len(events)
        BY <2>2
      <3> QED
        BY <2>1, <3>1, PageTiles
    <2> QED
      BY <2>3 DEF events
  <1>2. HistoryInv => NewestFirst
    <2> SUFFICES ASSUME HistoryInv, Orderly
                 PROVE  LET h == Query(AnyId, NoKind, AllEvents, 0)
                        IN \A i, j \in 1..Len(h) : i < j => h[i].n >= h[j].n
      BY DEF NewestFirst
    <2> DEFINE s == Matched(AnyId, NoKind)
               h == Query(AnyId, NoKind, AllEvents, 0)
               L == Len(s)
    <2>1. /\ s \in Seq(Event) /\ \A i, j \in 1..L : i < j => s[i].n <= s[j].n
      BY MatchedPlaces, MatchedAscends
    <2>2. h = Page(s, AllEvents, 0)
      BY DEF Query
    <2> HIDE DEF s, h
    <2>3. AllEvents \in Nat /\ 0 \in 0..Len(s) /\ L \in Nat
      BY <2>1 DEF AllEvents
    <2> DEFINE m == IF 0 + AllEvents > L THEN L - 0 ELSE AllEvents
    <2>4. Len(h) = m /\ m \in Nat /\ m <= L /\ \A i \in 1..m : h[i] = Reverse(s)[0 + i]
      <3>1. Len(h) = m /\ m \in Nat /\ \A i \in 1..m : h[i] = Reverse(s)[0 + i]
        BY <2>1, <2>2, <2>3, PageFacts
      <3> QED
        BY <2>3, <3>1
    <2> HIDE DEF m
    <2>5. ASSUME NEW i \in 1..m PROVE h[i] = s[L - i + 1] /\ L - i + 1 \in 1..L
      <3>1. i \in 1..L /\ 0 + i = i
        BY <2>3, <2>4
      <3> QED
        BY <2>1, <2>3, <2>4, <3>1, ReverseFacts
    <2>6. ASSUME NEW i \in 1..m, NEW j \in 1..m, i < j PROVE h[i].n >= h[j].n
      <3>1. /\ h[i] = s[L - i + 1] /\ L - i + 1 \in 1..L
            /\ h[j] = s[L - j + 1] /\ L - j + 1 \in 1..L
        BY <2>5
      <3>2. L - j + 1 < L - i + 1
        BY <2>3, <2>4, <2>6
      <3>3. s[L - j + 1].n <= s[L - i + 1].n
        BY <2>1, <3>1, <3>2
      <3>4. \A k \in 1..L : s[k].n \in Nat
        <4>1. \A e \in Event : e.n \in Nat
          BY DEF Event
        <4> QED
          BY <2>1, <4>1
      <3> QED
        BY <3>1, <3>3, <3>4
    <2> QED
      BY <2>4, <2>6 DEF h
  <1> QED
    BY <1>1, <1>2, HistoryInvariance, PTL DEF PagesTileNewestFirst

-----------------------------------------------------------------------------
(* Volatility *)

\* The first k numbers of a list of events, newest first.
FirstCommits(N, k) == {N[i].n : i \in 1..k}

LEMMA FirstCommitsFacts ==
  ASSUME NEW N \in Seq(Event), NEW k \in 0..Len(N)
  PROVE  /\ Commits(SubSeq(N, 1, k)) = FirstCommits(N, k)
         /\ Range(SubSeq(N, 1, k)) = {N[i] : i \in 1..k}
         /\ IsFiniteSet(FirstCommits(N, k)) /\ Cardinality(FirstCommits(N, k)) \in Nat
  <1> DEFINE s == SubSeq(N, 1, k)
  <1>1. k \in Nat /\ k <= Len(N) /\ Len(N) \in Nat
    OBVIOUS
  <1>2. /\ s \in Seq(Event) /\ Len(s) = k /\ \A i \in 1..k : s[i] = N[i]
    <2>1. \A i \in 1..k : N[i] \in Event
      BY <1>1
    <2>2. 1 \in Int /\ k \in Int /\ k - 1 + 1 = k /\ (IF 1 <= k THEN k - 1 + 1 ELSE 0) = k
          /\ \A i \in 1..k : 1 + i - 1 = i
      BY <1>1
    <2>3. /\ s \in Seq(Event) /\ Len(s) = (IF 1 <= k THEN k - 1 + 1 ELSE 0)
          /\ \A i \in 1..(k - 1 + 1) : s[i] = N[1 + i - 1]
      BY <2>1, <2>2, SubSeqProperties
    <2> HIDE DEF s
    <2> QED
      BY <2>2, <2>3
  <1> HIDE DEF s
  <1>3. DOMAIN s = 1..k
    BY <1>2
  <1>4. Range(s) = {N[i] : i \in 1..k}
    BY <1>2, <1>3 DEF Range
  <1>5. Commits(s) = FirstCommits(N, k)
    BY <1>4 DEF Commits, FirstCommits
  <1>6. IsFiniteSet(FirstCommits(N, k))
    <2>1. IsFiniteSet(1..k)
      BY <1>1, FS_Interval
    <2> DEFINE f == [i \in 1..k |-> N[i].n]
    <2>2. f \in Surjection(1..k, FirstCommits(N, k))
      BY DEF Surjection, FirstCommits
    <2> HIDE DEF f
    <2> QED
      BY <2>1, <2>2, FS_Surjection
  <1>7. Cardinality(FirstCommits(N, k)) \in Nat
    BY <1>6, FS_CardinalityType
  <1> QED
    BY <1>4, <1>5, <1>6, <1>7 DEF s

\* In a list of events by descending commit, the longest beginning with at
\* most max commits has the events with fewer than max commits after theirs.
LEMMA LongestIsRecent ==
  ASSUME NEW N \in Seq(Event), NEW max \in Nat \ {0}, NEW K \in 0..Len(N),
         \A i, j \in 1..Len(N) : i < j => N[i].n >= N[j].n,
         Cardinality(FirstCommits(N, K)) <= max,
         \A k \in 0..Len(N) : Cardinality(FirstCommits(N, k)) <= max => k <= K
  PROVE  \A i \in 1..Len(N) :
           LET later == {x.n : x \in {y \in Range(N) : y.n > N[i].n}}
           IN /\ i <= K => Cardinality(later) < max
              /\ Cardinality(later) < max => i <= K
  <1> TAKE i \in 1..Len(N)
  <1> DEFINE L == Len(N)
             c == N[i].n
             later == {x.n : x \in {y \in Range(N) : y.n > c}}
  <1>1. L \in Nat /\ \A j \in 1..L : N[j].n \in Nat /\ K \in Nat /\ K <= L /\ i \in 1..L
    <2>1. \A e \in Event : e.n \in Nat
      BY DEF Event
    <2> QED
      BY <2>1
  <1>2. Range(N) = {N[j] : j \in 1..L}
    BY DEF Range
  <1>3. \A n \in later : \E j \in 1..L : n = N[j].n /\ j < i /\ n > c
    <2> SUFFICES ASSUME NEW n \in later PROVE \E j \in 1..L : n = N[j].n /\ j < i /\ n > c
      OBVIOUS
    <2>1. PICK j \in 1..L : n = N[j].n /\ N[j].n > c
      BY <1>2
    <2>2. ~(j >= i)
      <3>1. CASE j = i
        BY <1>1, <2>1, <3>1
      <3>2. CASE i < j
        BY <1>1, <2>1, <3>2
      <3> QED
        BY <1>1, <3>1, <3>2
    <2> QED
      BY <1>1, <2>1, <2>2
  <1>4. \A j \in 1..L : j < i => N[j].n = c \/ N[j].n \in later
    BY <1>1, <1>2
  <1>5. c \notin later
    <2>1. ASSUME c \in later PROVE FALSE
      <3>1. PICK j \in 1..L : c = N[j].n /\ j < i /\ c > c
        BY <1>3, <2>1
      <3> QED
        BY <1>1, <3>1
    <2> QED
      BY <2>1
  <1> HIDE DEF later
  <1>6. i \in 0..L
    BY <1>1
  <1>7. /\ IsFiniteSet(FirstCommits(N, i)) /\ Cardinality(FirstCommits(N, i)) \in Nat
        /\ IsFiniteSet(FirstCommits(N, K)) /\ Cardinality(FirstCommits(N, K)) \in Nat
    BY <1>6, FirstCommitsFacts
  <1>8. later \subseteq FirstCommits(N, i)
    BY <1>1, <1>3 DEF FirstCommits
  <1>9. IsFiniteSet(later) /\ Cardinality(later) \in Nat
    BY <1>7, <1>8, FS_Subset, FS_CardinalityType
  <1>10. IsFiniteSet(later \cup {c}) /\ Cardinality(later \cup {c}) = Cardinality(later) + 1
    BY <1>5, <1>9, FS_AddElement
  <1>11. ASSUME i <= K PROVE Cardinality(later) < max
    <2>1. later \cup {c} \subseteq FirstCommits(N, K)
      <3>1. i \in 1..K /\ \A j \in 1..L : j < i => j \in 1..K
        BY <1>1, <1>11
      <3> QED
        BY <1>3, <3>1 DEF FirstCommits
    <2>2. Cardinality(later \cup {c}) <= Cardinality(FirstCommits(N, K))
      BY <1>7, <2>1, FS_Subset
    <2> QED
      BY <1>7, <1>9, <1>10, <2>2
  <1>12. ASSUME Cardinality(later) < max PROVE i <= K
    <2>1. FirstCommits(N, i) \subseteq later \cup {c}
      <3>1. \A j \in 1..i : j \in 1..L /\ (j < i \/ j = i)
        BY <1>1
      <3> QED
        BY <1>4, <3>1 DEF FirstCommits
    <2>2. Cardinality(FirstCommits(N, i)) <= Cardinality(later \cup {c})
      BY <1>10, <2>1, FS_Subset
    <2>3. Cardinality(FirstCommits(N, i)) <= max
      BY <1>7, <1>9, <1>10, <1>12, <2>2
    <2> QED
      BY <1>6, <2>3
  <1> QED
    BY <1>11, <1>12 DEF later

LEMMA ExaminedFacts ==
  ASSUME HistoryInv, Orderly, NEW id, NEW kind, NEW max \in Nat \ {0}
  PROVE  LET events == Range(Matched(id, kind))
         IN Range(Examined(id, kind, max))
              = {e \in events : Cardinality({x.n : x \in {y \in events : y.n > e.n}}) < max}
  <1> DEFINE m == Matched(id, kind)
             N == Reverse(m)
             L == Len(m)
             events == Range(m)
             later(e) == {x.n : x \in {y \in events : y.n > e.n}}
             inside == {k \in 0..Len(N) : max <= 0 \/ Cardinality(Commits(SubSeq(N, 1, k))) <= max}
             K == CHOOSE k \in inside : \A j \in inside : j <= k
  <1>1. /\ m \in Seq(Event) /\ L \in Nat
        /\ \A i, j \in 1..L : i < j => m[i].n <= m[j].n
    <2>1. m \in Seq(Event) /\ \A i, j \in 1..L : i < j => m[i].n <= m[j].n
      BY MatchedPlaces, MatchedAscends
    <2> HIDE DEF m
    <2> QED
      BY <2>1
  <1>a. Examined(id, kind, max) = SubSeq(N, 1, K)
    BY DEF Examined
  <1> HIDE DEF m
  <1>2. /\ N \in Seq(Event) /\ Len(N) = L
        /\ \A i \in 1..L : N[i] = m[L - i + 1]
    BY <1>1, ReverseFacts
  <1> HIDE DEF N
  <1>3. \A i \in 1..L : L - i + 1 \in 1..L /\ L - (L - i + 1) + 1 = i
    BY <1>1
  <1>4. Range(N) = events
    <2>1. \A i \in 1..L : \E j \in 1..L : m[i] = N[j]
      BY <1>2, <1>3
    <2>2. \A i \in 1..L : \E j \in 1..L : N[i] = m[j]
      BY <1>2, <1>3
    <2>3. DOMAIN N = 1..L /\ DOMAIN m = 1..L
      BY <1>1, <1>2
    <2>4. Range(N) = {N[i] : i \in 1..L} /\ events = {m[i] : i \in 1..L}
      BY <2>3, Zenon DEF Range
    <2> QED
      BY <2>1, <2>2, <2>4
  <1>5. \A i, j \in 1..L : i < j => N[i].n >= N[j].n
    <2> SUFFICES ASSUME NEW i \in 1..L, NEW j \in 1..L, i < j PROVE N[i].n >= N[j].n
      OBVIOUS
    <2>1. L - j + 1 < L - i + 1 /\ L - j + 1 \in 1..L /\ L - i + 1 \in 1..L
      BY <1>1, <1>3
    <2>2. m[L - j + 1].n <= m[L - i + 1].n
      BY <1>1, <2>1
    <2>3. \A k \in 1..L : m[k].n \in Nat
      <3>1. \A e \in Event : e.n \in Nat
        BY DEF Event
      <3> QED
        BY <1>1, <3>1
    <2> QED
      BY <1>2, <2>1, <2>2, <2>3
  <1>6. inside = {k \in 0..L : Cardinality(FirstCommits(N, k)) <= max}
    <2>1. ~(max <= 0)
      OBVIOUS
    <2>2. \A k \in 0..L : Commits(SubSeq(N, 1, k)) = FirstCommits(N, k)
      BY <1>2, FirstCommitsFacts
    <2> QED
      BY <1>2, <2>1, <2>2
  <1> HIDE DEF inside
  <1>7. 0 \in inside
    <2>1. FirstCommits(N, 0) = {}
      BY DEF FirstCommits
    <2>2. Cardinality(FirstCommits(N, 0)) = 0
      BY <2>1, FS_EmptySet
    <2> QED
      BY <1>1, <1>6, <2>2
  <1>8. K \in inside /\ \A j \in inside : j <= K
    <2>1. \E k \in inside : \A j \in inside : j <= k
      <3> DEFINE T == {L - k : k \in inside}
      <3>1. T \subseteq Nat /\ T # {}
        BY <1>1, <1>6, <1>7
      <3>2. PICK t \in T : \A u \in T : t <= u
        BY <3>1, LeastNat
      <3>3. PICK k \in inside : t = L - k
        BY <3>2
      <3>4. ASSUME NEW j \in inside PROVE j <= k
        <4>1. L - k <= L - j /\ j \in 0..L /\ k \in 0..L
          BY <1>6, <3>2, <3>3
        <4> QED
          BY <1>1, <4>1
      <3> QED
        BY <3>4
    <2> QED
      BY <2>1
  <1> HIDE DEF K
  <1>9. /\ K \in 0..Len(N) /\ Cardinality(FirstCommits(N, K)) <= max
        /\ \A k \in 0..Len(N) : Cardinality(FirstCommits(N, k)) <= max => k <= K
    BY <1>2, <1>6, <1>8
  <1>10. \A i \in 1..L : /\ i <= K => Cardinality(later(N[i])) < max
                         /\ Cardinality(later(N[i])) < max => i <= K
    <2> DEFINE P == \A i \in 1..Len(N) :
                 LET after == {x.n : x \in {y \in Range(N) : y.n > N[i].n}}
                 IN /\ i <= K => Cardinality(after) < max
                    /\ Cardinality(after) < max => i <= K
    <2>1. \A i, j \in 1..Len(N) : i < j => N[i].n >= N[j].n
      BY <1>2, <1>5
    <2>2. P
      BY <1>2, <1>9, <2>1, LongestIsRecent
    <2> QED
      BY <1>2, <1>4, <2>2
  <1>11. Range(SubSeq(N, 1, K)) = {N[i] : i \in 1..K}
    BY <1>2, <1>9, FirstCommitsFacts
  <1>12. events = {N[i] : i \in 1..L}
    <2>1. DOMAIN N = 1..L
      BY <1>2
    <2>2. Range(N) = {N[i] : i \in 1..L}
      BY <2>1, Zenon DEF Range
    <2> QED
      BY <1>4, <2>2
  <1> HIDE DEF later, events
  <1>13. {N[i] : i \in 1..K} = {e \in events : Cardinality(later(e)) < max}
    <2>1. \A i \in 1..K : i \in 1..L /\ i <= K
      BY <1>1, <1>2, <1>9
    <2>2. \A i \in 1..L : i <= K => i \in 1..K
      BY <1>1, <1>2, <1>9
    <2> QED
      BY <1>10, <1>12, <2>1, <2>2
  <1> QED
    BY <1>a, <1>11, <1>13 DEF later, events, m

LEMMA CountsCommits == HistoryInv => VolatilityCountsCommits
  <1> SUFFICES ASSUME HistoryInv, Orderly, NEW id \in Ids \cup {AnyId}, NEW kind \in Kinds \cup {NoKind},
                      NEW max \in 1..MaxCommits
               PROVE  LET events == Range(Matched(id, kind))
                          recent == {e \in events : Cardinality({x.n : x \in {y \in events : y.n > e.n}}) < max}
                      IN \A e \in events :
                           VolatilityCount(id, kind, <<e.id, e.kind>>, max)
                             = Cardinality({x.n : x \in {y \in recent : y.id = e.id /\ y.kind = e.kind}})
    BY DEF VolatilityCountsCommits
  <1> DEFINE events == Range(Matched(id, kind))
             recent == {e \in events : Cardinality({x.n : x \in {y \in events : y.n > e.n}}) < max}
  <1>1. max \in Nat \ {0}
    BY HistoryConstants
  <1>2. Range(Examined(id, kind, max)) = recent
    BY <1>1, ExaminedFacts
  <1> HIDE DEF recent, events
  <1>3. ASSUME NEW e \in events
        PROVE  VolatilityCount(id, kind, <<e.id, e.kind>>, max)
                 = Cardinality({x.n : x \in {y \in recent : y.id = e.id /\ y.kind = e.kind}})
    <2>1. {x \in recent : <<x.id, x.kind>> = <<e.id, e.kind>>}
            = {y \in recent : y.id = e.id /\ y.kind = e.kind}
      OBVIOUS
    <2>2. VolatilityCount(id, kind, <<e.id, e.kind>>, max)
            = Cardinality({x.n : x \in {x \in recent : <<x.id, x.kind>> = <<e.id, e.kind>>}})
      BY <1>2 DEF VolatilityCount
    <2> QED
      BY <2>1, <2>2
  <1> QED
    BY <1>3 DEF recent, events

-----------------------------------------------------------------------------
(* Volatility of fields *)

\* There are fewer commits than the 1<<30 events GetVolatilityFields asks for.
FewCommits == MaxCommits <= AllEvents

Bounded == HistoryInv /\ Len(log) <= MaxCommits

LEMMA BoundedInvariance == Spec => []Bounded
  <1>1. Init => Bounded
    <2> SUFFICES ASSUME Init PROVE Bounded
      OBVIOUS
    <2>1. Len(log) = 0
      BY DEF Init
    <2> QED
      BY <2>1, InitHistory, HistoryConstants DEF Bounded
  <1>2. Bounded /\ [Next]_vars => Bounded'
    <2> SUFFICES ASSUME Bounded, [Next]_vars PROVE Bounded'
      OBVIOUS
    <2>1. HistoryInv'
      BY HistoryInvStep DEF Bounded
    <2>2. CASE log' = log
      BY <2>1, <2>2 DEF Bounded
    <2>3. CASE Commit
      <3>1. Len(log) < MaxCommits /\ \E c : log' = Append(log, c)
        BY <2>3 DEF Commit
      <3>2. Len(log) \in Nat /\ MaxCommits \in Nat /\ log \in Seq([time : Nat, tree : Tree])
        BY LogTimes, HistoryConstants DEF Bounded, HistoryInv, IndexInv
      <3>3. Len(log') = Len(log) + 1
        <4> DEFINE C == [time : Nat, tree : Tree]
        <4>1. log \in Seq(C) /\ \E c : log' = Append(log, c)
          BY <3>1, <3>2
        <4> HIDE DEF C
        <4> QED
          BY <4>1
      <3> QED
        BY <2>1, <3>1, <3>2, <3>3 DEF Bounded
    <2> QED
      BY <2>2, <2>3 DEF Next, Tick, Rebuild, vars
  <1> QED
    BY <1>1, <1>2, PTL DEF Spec

LEMMA MinNat ==
  ASSUME NEW T, T \subseteq Nat, T # {}
  PROVE  Min(T) \in T
  <1>1. \E x \in T : \A y \in T : x <= y
    BY LeastNat
  <1> QED
    BY <1>1 DEF Min

\* The file a commit has under the identity of f is f, where identities tell
\* files apart.
LEMMA PathOfFile ==
  ASSUME IdsDiffer, NEW n, NEW f \in Files
  PROVE  FindResourcePathInCommit(n, IdOf[f]) = IF TreeAt(n)[f] = None THEN None ELSE f
  <1> DEFINE found == {i \in DOMAIN Order : IdOf[Order[i]] = IdOf[f] /\ TreeAt(n)[Order[i]] # None}
  <1>1. Order \in Seq(Files) /\ Range(Order) = Files
    BY HistoryConstants
  <1>2. DOMAIN Order = 1..Len(Order) /\ Len(Order) \in Nat /\ \A i \in DOMAIN Order : Order[i] \in Files
    BY <1>1
  <1>3. \A i \in found : Order[i] = f /\ TreeAt(n)[f] # None /\ i \in Nat
    BY <1>2 DEF IdsDiffer
  <1>4. PICK j \in DOMAIN Order : Order[j] = f
    BY <1>1 DEF Range
  <1>5. TreeAt(n)[f] # None => j \in found
    BY <1>4
  <1>6. FindResourcePathInCommit(n, IdOf[f]) = IF found = {} THEN None ELSE Order[Min(found)]
    BY DEF FindResourcePathInCommit
  <1> HIDE DEF found
  <1>7. CASE TreeAt(n)[f] = None
    <2>1. found = {}
      BY <1>3, <1>7
    <2> QED
      BY <1>6, <1>7, <2>1
  <1>8. CASE TreeAt(n)[f] # None
    <2>1. found # {} /\ found \subseteq Nat
      BY <1>3, <1>5, <1>8
    <2>2. Min(found) \in found
      BY <2>1, MinNat
    <2> QED
      BY <1>3, <1>6, <1>8, <2>1, <2>2
  <1> QED
    BY <1>7, <1>8

\* The fields an event changed are those that differ between its commit and
\* the one before; none if it deletes the file.
LEMMA ChangedOfFile ==
  ASSUME IdsDiffer, HistoryInv, NEW n \in 1..Len(log), NEW f \in Files
  PROVE  ChangedFields(ChangeOf(n, f))
           = IF TreeAt(n)[f] = None THEN {} ELSE DiffFields(TreeAt(n - 1)[f], TreeAt(n)[f])
  <1> DEFINE e == ChangeOf(n, f)
             g == FindResourcePathInCommit(n, IdOf[f])
  <1>1. e.n = n /\ e.id = IdOf[f]
        /\ e.type = IF TreeAt(n - 1)[f] = None THEN "added"
                    ELSE IF TreeAt(n)[f] = None THEN "deleted" ELSE "modified"
    BY EventFacts
  <1>2. g = IF TreeAt(n)[f] = None THEN None ELSE f
    BY PathOfFile
  <1>3. f # None
    BY HistoryConstants
  <1>4. ChangedFields(e) =
          IF g = None THEN {}
          ELSE DiffFields(TreeAt(n - 1)[g], IF e.type = "deleted" THEN None ELSE TreeAt(n)[g])
    BY <1>1 DEF ChangedFields
  <1> HIDE DEF e, g
  <1>5. CASE TreeAt(n)[f] = None
    BY <1>2, <1>4, <1>5 DEF e
  <1>6. CASE TreeAt(n)[f] # None
    <2>1. g = f /\ g # None /\ e.type # "deleted"
      BY <1>1, <1>2, <1>3, <1>6
    <2> QED
      BY <1>4, <1>6, <2>1 DEF e
  <1> QED
    BY <1>5, <1>6

\* The events of a file, newest first, with the commits they are of: every
\* retained commit that changes the file, once.
LEMMA EventsOfFile ==
  ASSUME IdsDiffer, FewCommits, Bounded, NEW f \in Files
  PROVE  LET s == FieldEvents(IdOf[f], NoKind, 0)
         IN /\ Len(s) \in Nat
            /\ \A i \in 1..Len(s) :
                 /\ s[i].n \in 1..Len(log) /\ s[i] = ChangeOf(s[i].n, f)
                 /\ <<s[i].n, f>> \in ChangeSet(Len(commitIdx), cutoff)
            /\ \A i, j \in 1..Len(s) : i # j => s[i].n # s[j].n
            /\ \A n \in 1..Len(commitIdx) : <<n, f>> \in ChangeSet(Len(commitIdx), cutoff)
                 => \E i \in 1..Len(s) : s[i].n = n
  <1> DEFINE id == IdOf[f]
             m == Matched(id, NoKind)
             keep == Kept(id, NoKind)
             L == Len(m)
             C == ChangeSet(Len(commitIdx), cutoff)
  <1>0. HistoryInv /\ Len(log) <= MaxCommits /\ Len(log) \in Nat /\ MaxCommits \in Nat
    BY LogTimes, HistoryConstants DEF Bounded, HistoryInv
  <1>1. PICK pos : /\ Places(keep, pos) /\ keep \in SUBSET (1..Len(changeIdx))
                   /\ m \in Seq(Event) /\ L = Cardinality(keep)
                   /\ \A k \in 1..L : m[k] = changeIdx[pos[k]]
    BY <1>0, MatchedPlaces
  <1>2. PICK p : Tells(p)
    BY <1>0, IndexTells
  <1>3. \A q \in keep : q \in 1..Len(changeIdx) /\ changeIdx[q].id = id
    <2>1. id # AnyId
      BY HistoryConstants DEF Ids
    <2> QED
      BY <1>1, <2>1 DEF Kept, Matches
  <1>4. \A q \in 1..Len(changeIdx) : changeIdx[q].id = id => q \in keep
    <2>1. DOMAIN changeIdx = 1..Len(changeIdx)
      BY <1>2 DEF Tells
    <2> QED
      BY <2>1 DEF Kept, Matches
  <1>b. L = Len(m)
    OBVIOUS
  <1> HIDE DEF keep, m, L
  <1>5. \A q \in keep : /\ p[q] = <<p[q][1], f>> /\ p[q][1] \in 1..Len(log) /\ p[q] \in C
                        /\ changeIdx[q] = ChangeOf(p[q][1], f) /\ changeIdx[q].n = p[q][1]
    <2> TAKE q \in keep
    <2>1. q \in 1..Len(changeIdx) /\ changeIdx[q].id = id
      BY <1>3
    <2>2. /\ p[q] \in C /\ p[q][1] \in 1..Len(log) /\ p[q][2] \in Files /\ p[q] = <<p[q][1], p[q][2]>>
          /\ changeIdx[q] = ChangeOf(p[q][1], p[q][2]) /\ changeIdx[q].n = p[q][1]
          /\ changeIdx[q].id = IdOf[p[q][2]]
      BY <1>2, <2>1 DEF Tells
    <2>3. p[q][2] = f
      BY <2>1, <2>2 DEF IdsDiffer
    <2> QED
      BY <2>2, <2>3
  <1> HIDE DEF C
  <1>6. L \in Nat
    BY <1>1 DEF Places
  <1>c. \A k \in 1..L : pos[k] \in keep
    BY <1>1 DEF Places
  <1>d. \A q \in keep : \E k \in 1..L : pos[k] = q
    BY <1>1 DEF Places
  <1>e. \A i, j \in 1..L : i < j => pos[i] < pos[j]
    BY <1>1 DEF Places
  <1>g. \A k \in 1..L : m[k] = changeIdx[pos[k]]
    BY <1>1
  <1>7. \A i, j \in 1..L : i # j => pos[i] # pos[j]
    <2> SUFFICES ASSUME NEW i \in 1..L, NEW j \in 1..L, i # j PROVE pos[i] # pos[j]
      OBVIOUS
    <2>1. pos[i] \in Nat /\ pos[j] \in Nat
      <3>1. pos[i] \in keep /\ pos[j] \in keep
        BY <1>c
      <3>2. \A q \in keep : q \in 1..Len(changeIdx)
        BY <1>1
      <3>3. Len(changeIdx) \in Nat
        BY <1>2 DEF Tells
      <3> QED
        BY <3>1, <3>2, <3>3
    <2>2. i < j \/ j < i
      BY <1>6
    <2> QED
      BY <1>e, <2>1, <2>2
  <1>8. \A k \in 1..L : m[k].n \in 1..Len(log) /\ m[k] = ChangeOf(m[k].n, f) /\ <<m[k].n, f>> \in C
    BY <1>5, <1>c, <1>g
  <1>9. \A i, j \in 1..L : i # j => m[i].n # m[j].n
    <2> SUFFICES ASSUME NEW i \in 1..L, NEW j \in 1..L, i # j PROVE m[i].n # m[j].n
      OBVIOUS
    <2>1. pos[i] \in keep /\ pos[j] \in keep /\ pos[i] # pos[j]
      BY <1>7, <1>c
    <2>2. p[pos[i]] # p[pos[j]]
      BY <1>2, <1>3, <2>1 DEF Tells
    <2> QED
      BY <1>5, <1>g, <2>1, <2>2
  <1>10. L <= AllEvents
    <2> DEFINE g == [k \in 1..L |-> m[k].n]
    <2>1. g \in Injection(1..L, 1..Len(log))
      <3>1. g \in [1..L -> 1..Len(log)] /\ \A a, b \in 1..L : g[a] = g[b] => a = b
        BY <1>8, <1>9
      <3> HIDE DEF g
      <3> QED
        BY <3>1 DEF Injection, IsInjective
    <2>2. /\ IsFiniteSet(1..L) /\ Cardinality(1..L) = L
          /\ IsFiniteSet(1..Len(log)) /\ Cardinality(1..Len(log)) = Len(log)
      <3>1. Len(log) \in Nat
        BY <1>0
      <3>2. \A k \in Nat : IsFiniteSet(1..k) /\ Cardinality(1..k) = k
        BY FS_Interval
      <3> QED
        BY <1>6, <3>1, <3>2
    <2> HIDE DEF g
    <2>3. L <= Len(log)
      BY <2>1, <2>2, FS_Injection
    <2> QED
      BY <1>0, <1>6, <2>3 DEF FewCommits, AllEvents
  <1> DEFINE s == FieldEvents(id, NoKind, 0)
             h == Page(m, AllEvents, 0)
  <1>11. /\ h \in Seq(Event) /\ Len(h) = L /\ \A i \in 1..L : h[i] = m[L - i + 1]
    <2>1. AllEvents \in Nat /\ 0 \in 0..L
      BY <1>6 DEF AllEvents
    <2> DEFINE w == IF 0 + AllEvents > L THEN L - 0 ELSE AllEvents
    <2>2. h \in Seq(Event) /\ Len(h) = w /\ \A i \in 1..w : h[i] = Reverse(m)[0 + i]
      <3>1. m \in Seq(Event)
        BY <1>1
      <3> QED
        BY <1>b, <2>1, <3>1, PageFacts
    <2>3. w = L
      BY <1>6, <1>10, <2>1
    <2> HIDE DEF w
    <2>4. \A i \in 1..L : 0 + i = i /\ Reverse(m)[i] = m[L - i + 1]
      <3>1. m \in Seq(Event)
        BY <1>1
      <3> QED
        BY <1>b, <1>6, <3>1, ReverseFacts
    <2> QED
      BY <2>2, <2>3, <2>4
  <1>12. s = h
    <2>1. s = SubSeq(h, Len(h) - Len(h) + 1, Len(h))
      BY DEF FieldEvents, Query, m
    <2> HIDE DEF h, s
    <2>2. Len(h) - Len(h) + 1 = 1
      BY <1>6, <1>11
    <2>3. s = SubSeq(h, 1, Len(h))
      BY <2>1, <2>2
    <2> QED
      BY <1>11, <2>3
  <1> HIDE DEF s, h
  <1>13. \A i \in 1..L : L - i + 1 \in 1..L /\ L - (L - i + 1) + 1 = i /\ s[i] = m[L - i + 1]
    BY <1>6, <1>11, <1>12
  <1>14. Len(s) = L
    BY <1>11, <1>12
  <1>15. \A i \in 1..L : s[i].n \in 1..Len(log) /\ s[i] = ChangeOf(s[i].n, f) /\ <<s[i].n, f>> \in C
    BY <1>8, <1>13
  <1>16. \A i, j \in 1..L : i # j => s[i].n # s[j].n
    <2> SUFFICES ASSUME NEW i \in 1..L, NEW j \in 1..L, i # j PROVE s[i].n # s[j].n
      OBVIOUS
    <2>1. L - i + 1 # L - j + 1
      BY <1>6
    <2> QED
      BY <1>9, <1>13, <2>1
  <1>17. ASSUME NEW n \in 1..Len(commitIdx), <<n, f>> \in C PROVE \E i \in 1..L : s[i].n = n
    <2>1. PICK q \in 1..Len(changeIdx) : p[q] = <<n, f>>
      <3>1. \A c \in C : \E i \in 1..Len(changeIdx) : p[i] = c
        BY <1>2 DEF Tells, C
      <3> QED
        BY <1>17, <3>1
    <2>2. changeIdx[q].id = id /\ changeIdx[q].n = n
      BY <1>2, <2>1 DEF Tells
    <2>3. PICK k \in 1..L : pos[k] = q
      BY <1>4, <1>d, <2>2
    <2>4. m[k].n = n
      BY <1>g, <2>2, <2>3
    <2>5. L - k + 1 \in 1..L /\ s[L - k + 1] = m[k]
      BY <1>13
    <2> QED
      BY <2>4, <2>5
  <1> QED
    BY <1>6, <1>14, <1>15, <1>16, <1>17 DEF s, C

LEMMA CountsFields ==
  ASSUME IdsDiffer, FewCommits
  PROVE  Bounded => FieldCountsCommits
  <1> SUFFICES ASSUME Bounded, NEW f \in Files, NEW x \in Fields
               PROVE  FieldCount(IdOf[f], NoKind, x, 0) =
                        Cardinality({n \in 1..Len(commitIdx) :
                          /\ TimeOf(n) >= cutoff
                          /\ TreeAt(n)[f] # None /\ TreeAt(n)[f] # TreeAt(n - 1)[f]
                          /\ x \in DiffFields(TreeAt(n - 1)[f], TreeAt(n)[f])})
    BY DEF FieldCountsCommits
  <1> DEFINE s == FieldEvents(IdOf[f], NoKind, 0)
             L == Len(s)
             C == ChangeSet(Len(commitIdx), cutoff)
             A == {i \in 1..L : x \in ChangedFields(s[i])}
             B == {n \in 1..Len(commitIdx) :
                    /\ TimeOf(n) >= cutoff
                    /\ TreeAt(n)[f] # None /\ TreeAt(n)[f] # TreeAt(n - 1)[f]
                    /\ x \in DiffFields(TreeAt(n - 1)[f], TreeAt(n)[f])}
             g == [i \in A |-> s[i].n]
  <1>1. /\ L \in Nat
        /\ \A i \in 1..L : s[i].n \in 1..Len(log) /\ s[i] = ChangeOf(s[i].n, f) /\ <<s[i].n, f>> \in C
        /\ \A i, j \in 1..L : i # j => s[i].n # s[j].n
        /\ \A n \in 1..Len(commitIdx) : <<n, f>> \in C => \E i \in 1..L : s[i].n = n
    BY EventsOfFile
  <1>2. FieldCount(IdOf[f], NoKind, x, 0) = Cardinality(A)
    BY DEF FieldCount
  <1> HIDE DEF s
  <1>3. HistoryInv /\ Len(log) \in Nat /\ Len(commitIdx) \in Nat /\ Len(commitIdx) <= Len(log)
        /\ cutoff \in Nat /\ \A n \in 1..Len(log) : TimeOf(n) \in Nat
    BY LogTimes DEF Bounded, HistoryInv, Clocked, TimeOf
  <1>4. \A n \in 1..Len(log) : <<n, f>> \in C <=> /\ n \in 1..Len(commitIdx) /\ TimeOf(n) >= cutoff
                                                  /\ TreeAt(n)[f] # TreeAt(n - 1)[f]
    BY <1>3 DEF ChangeSet, Pairs
  <1> HIDE DEF C
  <1>5. \A n \in 1..Len(log) : x \in ChangedFields(ChangeOf(n, f))
          <=> TreeAt(n)[f] # None /\ x \in DiffFields(TreeAt(n - 1)[f], TreeAt(n)[f])
    <2> TAKE n \in 1..Len(log)
    <2>1. ChangedFields(ChangeOf(n, f))
            = IF TreeAt(n)[f] = None THEN {} ELSE DiffFields(TreeAt(n - 1)[f], TreeAt(n)[f])
      BY <1>3, ChangedOfFile
    <2> QED
      BY <2>1
  <1>6. \A i \in A : i \in 1..L /\ s[i].n \in B
    <2> TAKE i \in A
    <2>1. i \in 1..L /\ x \in ChangedFields(s[i])
      OBVIOUS
    <2>2. s[i].n \in 1..Len(log) /\ s[i] = ChangeOf(s[i].n, f) /\ <<s[i].n, f>> \in C
      BY <1>1, <2>1
    <2>3. TreeAt(s[i].n)[f] # None /\ x \in DiffFields(TreeAt(s[i].n - 1)[f], TreeAt(s[i].n)[f])
      BY <1>5, <2>1, <2>2
    <2> QED
      BY <1>4, <2>1, <2>2, <2>3
  <1>7. \A n \in B : \E i \in A : s[i].n = n
    <2> TAKE n \in B
    <2>1. /\ n \in 1..Len(commitIdx) /\ TimeOf(n) >= cutoff /\ TreeAt(n)[f] # None
          /\ TreeAt(n)[f] # TreeAt(n - 1)[f] /\ x \in DiffFields(TreeAt(n - 1)[f], TreeAt(n)[f])
      OBVIOUS
    <2>2. n \in 1..Len(log)
      BY <1>3, <2>1
    <2>3. PICK i \in 1..L : s[i].n = n
      BY <1>1, <1>4, <2>1, <2>2
    <2>4. x \in ChangedFields(s[i])
      BY <1>1, <1>5, <2>1, <2>2, <2>3
    <2> QED
      BY <2>3, <2>4
  <1>8. \A i, j \in A : s[i].n = s[j].n => i = j
    BY <1>1, <1>6
  <1>9. IsFiniteSet(A)
    <2>1. IsFiniteSet(1..L) /\ A \subseteq 1..L
      BY <1>1, FS_Interval
    <2> QED
      BY <2>1, FS_Subset
  <1> HIDE DEF A, B
  <1>10. g \in Bijection(A, B)
    <2>1. g \in [A -> B] /\ \A n \in B : \E i \in A : g[i] = n
      BY <1>6, <1>7
    <2>2. \A i, j \in A : g[i] = g[j] => i = j
      BY <1>8
    <2> HIDE DEF g
    <2> QED
      BY <2>1, <2>2 DEF Bijection, Injection, Surjection, IsInjective
  <1>11. Cardinality(A) = Cardinality(B)
    <2>1. ExistsBijection(A, B)
      BY <1>10, Zenon DEF ExistsBijection
    <2> QED
      BY <1>9, <2>1, FS_Bijection
  <1> QED
    BY <1>2, <1>11 DEF B

\* Both volatility tables count commits: the entry of a resource those that
\* changed it among the most recent ones of the query (ChangeIndex.Volatility),
\* the entry of a field those that created the resource or changed the field
\* (FieldVolatilityFromRepo), where a path's identity is its own and the query
\* for all events gets all of them.
THEOREM VolatilityCounts ==
  ASSUME IdsDiffer, FewCommits
  PROVE  Spec => []CountsAreOfCommits
  <1>1. Bounded => CountsAreOfCommits
    BY CountsCommits, CountsFields DEF Bounded, CountsAreOfCommits
  <1> QED
    BY <1>1, BoundedInvariance, PTL
=============================================================================
