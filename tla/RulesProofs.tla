---------------------------- MODULE RulesProofs -----------------------------
(***************************************************************************)
(* Theorems about the rules for every set of types, objects, rules, field  *)
(* paths and documents, and any number of rules: which rules decide, what  *)
(* programs cannot touch, and that fields are cut in any order.            *)
(***************************************************************************)
EXTENDS Rules, FiniteSetTheorems, FunctionTheorems, SequenceTheorems, TLAPS

-----------------------------------------------------------------------------
(* Numbers and sequences *)

\* A set of numbers that is not empty has a least one, which Min gives.
LEMMA LeastIsMin ==
  ASSUME NEW T, T \subseteq Nat, T # {}
  PROVE  Min(T) \in T /\ \A y \in T : Min(T) <= y
  <1> DEFINE R == OpToRel(<, Nat)
  <1>1. IsWellFoundedOn(R, Nat)
    BY NatLessThanWellFounded, Zenon
  <1> HIDE DEF R
  <1>2. PICK x \in T : \A y \in T : ~(<<y, x>> \in R)
    BY <1>1, WFMin
  <1>3. ASSUME NEW y \in T PROVE x <= y
    <2>1. ~(<<y, x>> \in R) /\ y \in Nat /\ x \in Nat
      BY <1>2
    <2>2. ~(y < x)
      BY <2>1, Zenon DEF R, OpToRel
    <2> QED
      BY <2>1, <2>2
  <1> QED
    BY <1>3 DEF Min

LEMMA MinIs ==
  ASSUME NEW T, T \subseteq Nat, NEW x \in T, \A y \in T : x <= y
  PROVE  Min(T) = x
  <1>1. Min(T) \in T /\ \A y \in T : Min(T) <= y
    BY LeastIsMin
  <1>2. Min(T) <= x /\ x <= Min(T) /\ x \in Nat /\ Min(T) \in Nat
    BY <1>1
  <1> QED
    BY <1>2

LEMMA PrefixPointwise ==
  ASSUME NEW S, NEW s \in Seq(S), NEW t \in Seq(S)
  PROVE  IsPrefix(s, t) <=> Len(s) <= Len(t) /\ \A i \in 1..Len(s) : s[i] = t[i]
  <1>1. SubSeq(s, 1, Len(s)) = s
    OBVIOUS
  <1>2. CASE Len(s) <= Len(t)
    <2>1. /\ SubSeq(t, 1, Len(s)) \in Seq(S)
          /\ Len(SubSeq(t, 1, Len(s))) = Len(s)
          /\ \A i \in 1..Len(s) : SubSeq(t, 1, Len(s))[i] = t[i]
      BY <1>2
    <2>2. s = SubSeq(t, 1, Len(s)) <=> \A i \in 1..Len(s) : s[i] = t[i]
      BY <2>1, SeqEqual
    <2> QED
      BY <1>1, <1>2, <2>2 DEF IsPrefix
  <1>3. CASE ~(Len(s) <= Len(t))
    BY <1>3 DEF IsPrefix
  <1> QED
    BY <1>2, <1>3

LEMMA InsertAtFacts ==
  ASSUME NEW S, NEW s \in Seq(S), NEW e \in S, NEW i \in 1..(Len(s) + 1)
  PROVE  /\ InsertAt(s, i, e) \in Seq(S)
         /\ Len(InsertAt(s, i, e)) = Len(s) + 1
         /\ \A j \in 1..(Len(s) + 1) :
              InsertAt(s, i, e)[j] = IF j < i THEN s[j] ELSE IF j = i THEN e ELSE s[j - 1]
  <1> DEFINE a == SubSeq(s, 1, i - 1)
             b == SubSeq(s, i, Len(s))
  <1>1. /\ a \in Seq(S) /\ Len(a) = i - 1
        /\ \A j \in 1..(i - 1) : a[j] = s[j]
    OBVIOUS
  <1>2. /\ b \in Seq(S) /\ Len(b) = Len(s) - i + 1
        /\ \A j \in 1..Len(b) : b[j] = s[i + j - 1]
    OBVIOUS
  <1> HIDE DEF a, b
  <1>3. /\ a \o <<e>> \in Seq(S) /\ Len(a \o <<e>>) = i
        /\ \A j \in 1..i : (a \o <<e>>)[j] = IF j < i THEN s[j] ELSE e
    BY <1>1
  <1> DEFINE c == a \o <<e>>
  <1>c. c \in Seq(S) /\ Len(c) = i
    BY <1>3
  <1> HIDE DEF c
  <1>4. /\ c \o b \in Seq(S) /\ Len(c \o b) = Len(c) + Len(b)
        /\ \A j \in 1 .. Len(c) + Len(b) : (c \o b)[j] =
               IF j <= Len(c) THEN c[j] ELSE b[j - Len(c)]
    BY <1>2, <1>c, ConcatProperties
  <1>5. /\ Len(c \o b) = Len(s) + 1
        /\ \A j \in 1..(Len(s) + 1) : (c \o b)[j] = IF j <= i THEN c[j] ELSE b[j - i]
    BY <1>2, <1>4, <1>c
  <1>6. InsertAt(s, i, e) = c \o b
    BY DEF InsertAt, a, b, c
  <1>7. ASSUME NEW j \in 1..(Len(s) + 1)
        PROVE  (c \o b)[j] = IF j < i THEN s[j] ELSE IF j = i THEN e ELSE s[j - 1]
    <2>1. CASE j <= i
      BY <1>3, <1>5, <2>1 DEF c
    <2>2. CASE j > i
      <3>1. (c \o b)[j] = b[j - i] /\ j - i \in 1..Len(b)
        BY <1>2, <1>5, <2>2
      <3>2. b[j - i] = s[i + (j - i) - 1] /\ i + (j - i) - 1 = j - 1
        BY <1>2, <3>1
      <3> QED
        BY <2>2, <3>1, <3>2
    <2>3. j <= i \/ j > i
      OBVIOUS
    <2> QED
      BY <2>1, <2>2, <2>3
  <1> QED
    BY <1>4, <1>5, <1>6, <1>7

-----------------------------------------------------------------------------
(* The first rule that applies *)

\* FirstVerdict of a list of rules other than the loaded one.
VerdictOf(list, hits) ==
  IF hits = {} THEN "none" ELSE IF list[Min(hits)].exclude THEN "exclude" ELSE "include"

Hits(list, applying) == {i \in DOMAIN list : list[i] \in applying}

\* Rules behind one that applies do not matter.
LEMMA VerdictOfPrefix ==
  ASSUME NEW S, NEW s \in Seq(S), NEW t \in Seq(S), IsPrefix(s, t), NEW A, NEW B,
         \A i \in DOMAIN s : s[i] \in A <=> s[i] \in B, Hits(s, A) # {}
  PROVE  VerdictOf(t, Hits(t, B)) = VerdictOf(s, Hits(s, A))
  <1>1. DOMAIN s = 1..Len(s) /\ DOMAIN t = 1..Len(t) /\ Len(s) <= Len(t)
        /\ \A i \in DOMAIN s : t[i] = s[i]
    BY PrefixPointwise
  <1>2. Hits(s, A) \subseteq Nat /\ Hits(t, B) \subseteq Nat /\ Hits(s, A) \subseteq DOMAIN s
    BY <1>1 DEF Hits
  <1>3. /\ Min(Hits(s, A)) \in Hits(s, A)
        /\ \A y \in Hits(s, A) : Min(Hits(s, A)) <= y
    BY <1>2, LeastIsMin
  <1> DEFINE m == Min(Hits(s, A))
  <1> HIDE DEF m
  <1>4. m \in Hits(t, B)
    BY <1>1, <1>3 DEF m, Hits
  <1>5. ASSUME NEW y \in Hits(t, B) PROVE m <= y
    <2>1. CASE y \in DOMAIN s
      <3>1. y \in Hits(s, A)
        BY <1>1, <2>1 DEF Hits
      <3> QED
        BY <1>3, <3>1 DEF m
    <2>2. CASE y \notin DOMAIN s
      <3>1. m \in 1..Len(s) /\ y \in 1..Len(t)
        BY <1>1, <1>2, <1>3 DEF m, Hits
      <3> QED
        BY <1>1, <2>2, <3>1
    <2> QED
      BY <2>1, <2>2
  <1>6. Min(Hits(t, B)) = m
    BY <1>2, <1>4, <1>5, MinIs
  <1>7. t[m] = s[m]
    BY <1>1, <1>2, <1>3 DEF m
  <1> QED
    BY <1>4, <1>6, <1>7 DEF VerdictOf, m

\* A rule that does not apply does not matter, wherever it is put.
LEMMA VerdictOfInsert ==
  ASSUME NEW S, NEW s \in Seq(S), NEW e \in S, NEW k \in 1..(Len(s) + 1), NEW A, NEW B,
         \A i \in DOMAIN s : s[i] \in A <=> s[i] \in B, e \notin B
  PROVE  VerdictOf(InsertAt(s, k, e), Hits(InsertAt(s, k, e), B)) = VerdictOf(s, Hits(s, A))
  <1> DEFINE t == InsertAt(s, k, e)
             to(i) == IF i < k THEN i ELSE i + 1
             from(j) == IF j < k THEN j ELSE j - 1
  <1>1. /\ t \in Seq(S) /\ Len(t) = Len(s) + 1
        /\ \A j \in 1..(Len(s) + 1) :
              t[j] = IF j < k THEN s[j] ELSE IF j = k THEN e ELSE s[j - 1]
    BY InsertAtFacts
  <1> HIDE DEF t
  <1>2. DOMAIN s = 1..Len(s) /\ DOMAIN t = 1..(Len(s) + 1)
    BY <1>1
  <1>3. Hits(s, A) \subseteq Nat /\ Hits(t, B) \subseteq Nat
    BY <1>2 DEF Hits
  <1>4. \A i \in DOMAIN s : to(i) \in DOMAIN t /\ t[to(i)] = s[i]
    BY <1>1, <1>2
  <1>5. \A j \in Hits(t, B) : from(j) \in Hits(s, A) /\ to(from(j)) = j
    <2> TAKE j \in Hits(t, B)
    <2>1. j \in 1..(Len(s) + 1) /\ t[j] \in B /\ j # k
      BY <1>1, <1>2 DEF Hits
    <2>2. from(j) \in DOMAIN s /\ t[j] = s[from(j)] /\ to(from(j)) = j
      BY <1>1, <1>2, <2>1
    <2>3. s[from(j)] \in A
      BY <2>1, <2>2
    <2> HIDE DEF from, to
    <2> QED
      BY <2>2, <2>3 DEF Hits
  <1>6. \A i \in Hits(s, A) : to(i) \in Hits(t, B)
    <2> TAKE i \in Hits(s, A)
    <2>1. i \in DOMAIN s /\ s[i] \in B
      BY DEF Hits
    <2>2. to(i) \in DOMAIN t /\ t[to(i)] \in B
      BY <1>4, <2>1
    <2> HIDE DEF to
    <2> QED
      BY <2>2 DEF Hits
  <1>7. CASE Hits(s, A) = {}
    <2>1. Hits(t, B) = {}
      BY <1>5, <1>7
    <2> QED
      BY <1>7, <2>1 DEF VerdictOf, t
  <1>8. CASE Hits(s, A) # {}
    <2> DEFINE m == Min(Hits(s, A))
    <2>1. m \in Hits(s, A) /\ \A y \in Hits(s, A) : m <= y
      BY <1>3, <1>8, LeastIsMin
    <2> HIDE DEF m
    <2>2. m \in DOMAIN s /\ to(m) \in Hits(t, B) /\ t[to(m)] = s[m]
      BY <1>4, <1>6, <2>1 DEF Hits
    <2>3. ASSUME NEW j \in Hits(t, B) PROVE to(m) <= j
      <3>1. from(j) \in Hits(s, A) /\ to(from(j)) = j /\ from(j) \in Nat /\ m \in Nat
        BY <1>3, <1>5, <2>1
      <3>2. m <= from(j)
        BY <2>1, <3>1
      <3> QED
        BY <1>3, <3>1, <3>2
    <2>4. Min(Hits(t, B)) = to(m)
      <3> HIDE DEF to
      <3> QED
        BY <1>3, <2>2, <2>3, MinIs
    <2>5. Hits(t, B) # {} /\ Min(Hits(s, A)) = m
      BY <2>2 DEF m
    <2> HIDE DEF to
    <2> QED
      BY <1>8, <2>2, <2>4, <2>5 DEF VerdictOf, t
  <1> QED
    BY <1>7, <1>8

-----------------------------------------------------------------------------
(* The rules that decide *)

RulesInv == rules \in Seq(RuleSet) /\ builtins \in BOOLEAN

LEMMA RulesStep ==
  ASSUME RulesInv, [Next]_vars
  PROVE  RulesInv'
  <1>1. CASE Insert
    BY <1>1, InsertAtFacts DEF Insert, RulesInv
  <1>2. CASE UNCHANGED vars
    BY <1>2 DEF vars, RulesInv
  <1> QED
    BY <1>1, <1>2 DEF Next

LEMMA RulesInvariance == Spec => []RulesInv
  <1>1. Init => RulesInv
    BY DEF Init, RulesInv
  <1>2. RulesInv /\ [Next]_vars => RulesInv'
    BY RulesStep
  <1> QED
    BY <1>1, <1>2, PTL DEF Spec

LEMMA VerdictIs ==
  ASSUME NEW applying
  PROVE  /\ FirstVerdict(applying) = VerdictOf(rules, Hits(rules, applying))
         /\ FirstVerdict(applying) # "none" => Hits(rules, applying) # {}
  BY DEF FirstVerdict, VerdictOf, Hits

\* A rule put behind the others decides nothing that an earlier rule of the
\* same level decides: the early returns of IsExcluded and IsObjectExcluded.
THEOREM FirstRuleDecides == Spec => EarlierRulesDecide
  <1>1. ASSUME RulesInv, [Next]_vars, IsPrefix(rules, rules')
        PROVE  /\ \A t \in Types : FirstVerdict({r \in Range(rules) : TypeRule(r, t)}) # "none"
                             => IsExcluded(t)' = IsExcluded(t)
               /\ \A o \in Objects : FirstVerdict({r \in Range(rules) : ObjectRule(r, o)}) # "none"
                             => IsObjectExcluded(o)' = IsObjectExcluded(o)
    <2>1. rules \in Seq(RuleSet) /\ rules' \in Seq(RuleSet)
      BY <1>1, RulesStep DEF RulesInv
    <2>2. ASSUME NEW A, NEW B, \A i \in DOMAIN rules : rules[i] \in A <=> rules[i] \in B,
                 FirstVerdict(A) # "none"
          PROVE  VerdictOf(rules', Hits(rules', B)) = FirstVerdict(A)
      BY <1>1, <2>1, <2>2, VerdictIs, VerdictOfPrefix
    <2>3. \A i \in DOMAIN rules : rules[i] \in Range(rules) /\ rules[i] \in Range(rules')
      <3>1. \A i \in DOMAIN rules : i \in DOMAIN rules' /\ rules'[i] = rules[i]
        BY <1>1, <2>1, PrefixPointwise
      <3> QED
        BY <3>1 DEF Range
    <2>4. ASSUME NEW t \in Types, FirstVerdict({r \in Range(rules) : TypeRule(r, t)}) # "none"
          PROVE  IsExcluded(t)' = IsExcluded(t)
      <3> DEFINE A == {r \in Range(rules) : TypeRule(r, t)}
                 B == {r \in Range(rules') : TypeRule(r, t)}
      <3>1. VerdictOf(rules', Hits(rules', B)) = FirstVerdict(A)
        BY <2>2, <2>3, <2>4
      <3>2. (IsExcluded(t))' <=> VerdictOf(rules', Hits(rules', B)) = "exclude"
        BY <2>4, <3>1 DEF IsExcluded, FirstVerdict, VerdictOf, Hits
      <3>3. IsExcluded(t) <=> FirstVerdict(A) = "exclude"
        BY <2>4 DEF IsExcluded
      <3> QED
        BY <3>1, <3>2, <3>3 DEF IsExcluded
    <2>5. ASSUME NEW o \in Objects, FirstVerdict({r \in Range(rules) : ObjectRule(r, o)}) # "none"
          PROVE  IsObjectExcluded(o)' = IsObjectExcluded(o)
      <3> DEFINE A == {r \in Range(rules) : ObjectRule(r, o)}
                 B == {r \in Range(rules') : ObjectRule(r, o)}
      <3>1. VerdictOf(rules', Hits(rules', B)) = FirstVerdict(A)
        BY <2>2, <2>3, <2>5
      <3>2. (IsObjectExcluded(o))' <=> VerdictOf(rules', Hits(rules', B)) = "exclude"
        BY DEF IsObjectExcluded, FirstVerdict, VerdictOf, Hits
      <3> QED
        BY <3>1, <3>2 DEF IsObjectExcluded
    <2> QED
      BY <2>4, <2>5
  <1>2. RulesInv /\ [Next]_vars =>
          [IsPrefix(rules, rules') =>
             /\ \A t \in Types : FirstVerdict({r \in Range(rules) : TypeRule(r, t)}) # "none"
                                   => IsExcluded(t)' = IsExcluded(t)
             /\ \A o \in Objects : FirstVerdict({r \in Range(rules) : ObjectRule(r, o)}) # "none"
                                   => IsObjectExcluded(o)' = IsObjectExcluded(o)]_vars
    BY <1>1
  <1> QED
    BY <1>2, RulesInvariance, PTL DEF Spec, EarlierRulesDecide

\* What a step puts into the list of rules.
LEMMA InsertedRule ==
  ASSUME RulesInv, [Next]_vars, NEW r \in Range(rules') \ Range(rules)
  PROVE  /\ UNCHANGED builtins /\ r \in RuleSet /\ Range(rules') = Range(rules) \cup {r}
         /\ \E i \in 1..(Len(rules) + 1) : rules' = InsertAt(rules, i, r)
  <1>1. Insert
    BY DEF Next, vars
  <1>2. PICK i \in 1..(Len(rules) + 1), x \in RuleSet : rules' = InsertAt(rules, i, x)
    BY <1>1 DEF Insert
  <1>3. /\ rules \in Seq(RuleSet) /\ rules' \in Seq(RuleSet)
        /\ DOMAIN rules = 1..Len(rules) /\ DOMAIN rules' = 1..(Len(rules) + 1)
        /\ \A j \in 1..(Len(rules) + 1) : rules'[j] =
              IF j < i THEN rules[j] ELSE IF j = i THEN x ELSE rules[j - 1]
    <2>1. rules \in Seq(RuleSet) /\ DOMAIN rules = 1..Len(rules)
      BY DEF RulesInv
    <2>2. /\ rules' \in Seq(RuleSet) /\ Len(rules') = Len(rules) + 1
          /\ \A j \in 1..(Len(rules) + 1) : rules'[j] =
                IF j < i THEN rules[j] ELSE IF j = i THEN x ELSE rules[j - 1]
      <3> DEFINE new == InsertAt(rules, i, x)
      <3>1. i \in 1..(Len(rules) + 1) /\ x \in RuleSet
        OBVIOUS
      <3>2. /\ new \in Seq(RuleSet) /\ Len(new) = Len(rules) + 1
            /\ \A j \in 1..(Len(rules) + 1) : new[j] =
                  IF j < i THEN rules[j] ELSE IF j = i THEN x ELSE rules[j - 1]
        BY <2>1, <3>1, InsertAtFacts
      <3> HIDE DEF new
      <3>3. rules' = new
        BY <1>2 DEF new
      <3> QED
        BY <3>2, <3>3
    <2> QED
      BY <2>1, <2>2
  <1>4. Range(rules') \subseteq Range(rules) \cup {x}
    <2>1. ASSUME NEW j \in DOMAIN rules' PROVE rules'[j] \in Range(rules) \cup {x}
      <3>1. CASE j < i
        BY <1>3, <3>1 DEF Range
      <3>2. CASE j > i
        <4>1. j - 1 \in DOMAIN rules /\ rules'[j] = rules[j - 1]
          BY <1>3, <3>2
        <4> QED
          BY <4>1 DEF Range
      <3>3. CASE j = i
        BY <1>3, <3>3
      <3> QED
        BY <1>3, <3>1, <3>2, <3>3
    <2> QED
      BY <2>1 DEF Range
  <1>5. Range(rules) \cup {x} \subseteq Range(rules')
    <2>1. ASSUME NEW j \in DOMAIN rules PROVE rules[j] \in Range(rules')
      <3>1. CASE j < i
        <4>1. j \in DOMAIN rules' /\ rules'[j] = rules[j]
          BY <1>3, <3>1
        <4> QED
          BY <4>1 DEF Range
      <3>2. CASE j >= i
        <4>1. j + 1 \in DOMAIN rules' /\ rules'[j + 1] = rules[j]
          BY <1>3, <3>2
        <4> QED
          BY <4>1 DEF Range
      <3> QED
        BY <1>3, <3>1, <3>2
    <2>2. i \in DOMAIN rules' /\ rules'[i] = x
      BY <1>3
    <2> QED
      BY <2>1, <2>2 DEF Range
  <1>6. x = r
    BY <1>4
  <1> QED
    BY <1>1, <1>2, <1>4, <1>5, <1>6 DEF Insert

\* A rule with a program changes neither the verdicts of the other rules nor
\* the fields that are cut: the excludeIf tests of IsExcluded, IsObjectExcluded
\* and ResolveExcludeFieldsForObject.
THEOREM ProgramsAreSeparate == Spec => ExcludeIfIsSeparate
  <1>1. ASSUME RulesInv, [Next]_vars, NEW r \in Range(rules') \ Range(rules), r.excludeIf # ""
        PROVE  /\ \A t \in Types : IsExcluded(t)' = IsExcluded(t)
               /\ \A o \in Objects : /\ IsObjectExcluded(o)' = IsObjectExcluded(o)
                                     /\ ResolveExcludeFields(o)' = ResolveExcludeFields(o)
    <2>1. /\ UNCHANGED builtins /\ r \in RuleSet /\ Range(rules') = Range(rules) \cup {r}
          /\ \E i \in 1..(Len(rules) + 1) : rules' = InsertAt(rules, i, r)
      BY <1>1, InsertedRule
    <2>2. PICK i \in 1..(Len(rules) + 1) : rules' = InsertAt(rules, i, r)
      BY <2>1
    <2>3. ASSUME NEW A, NEW B, \A j \in DOMAIN rules : rules[j] \in A <=> rules[j] \in B, r \notin B
          PROVE  VerdictOf(rules', Hits(rules', B)) = FirstVerdict(A)
      <3>1. rules \in Seq(RuleSet) /\ i \in 1..(Len(rules) + 1)
        BY <1>1 DEF RulesInv
      <3>2. VerdictOf(InsertAt(rules, i, r), Hits(InsertAt(rules, i, r), B))
              = VerdictOf(rules, Hits(rules, A))
        BY <2>1, <2>3, <3>1, VerdictOfInsert
      <3> QED
        BY <2>2, <3>2, VerdictIs
    <2>4. \A j \in DOMAIN rules : rules[j] \in Range(rules) /\ rules[j] \in Range(rules')
      BY <2>1 DEF Range
    <2>5. ASSUME NEW t \in Types PROVE IsExcluded(t)' = IsExcluded(t)
      <3> DEFINE A == {x \in Range(rules) : TypeRule(x, t)}
                 B == {x \in Range(rules') : TypeRule(x, t)}
      <3>1. r \notin B
        BY <1>1 DEF TypeRule
      <3>2. VerdictOf(rules', Hits(rules', B)) = FirstVerdict(A)
        BY <2>3, <2>4, <3>1
      <3>3. (FirstVerdict({x \in Range(rules) : TypeRule(x, t)}))' = FirstVerdict(A)
        BY <3>2 DEF FirstVerdict, VerdictOf, Hits
      <3> QED
        BY <2>1, <3>3 DEF IsExcluded
    <2>6. ASSUME NEW o \in Objects PROVE IsObjectExcluded(o)' = IsObjectExcluded(o)
      <3> DEFINE A == {x \in Range(rules) : ObjectRule(x, o)}
                 B == {x \in Range(rules') : ObjectRule(x, o)}
      <3>1. r \notin B
        BY <1>1 DEF ObjectRule
      <3>2. VerdictOf(rules', Hits(rules', B)) = FirstVerdict(A)
        BY <2>3, <2>4, <3>1
      <3>3. (FirstVerdict({x \in Range(rules) : ObjectRule(x, o)}))' = FirstVerdict(A)
        BY <3>2 DEF FirstVerdict, VerdictOf, Hits
      <3> QED
        BY <3>3 DEF IsObjectExcluded
    <2>7. ASSUME NEW o \in Objects PROVE ResolveExcludeFields(o)' = ResolveExcludeFields(o)
      <3>1. {x \in Range(rules') : FieldRule(x, o)} = {x \in Range(rules) : FieldRule(x, o)}
        BY <1>1, <2>1 DEF FieldRule
      <3> QED
        BY <2>1, <3>1 DEF ResolveExcludeFields
    <2> QED
      BY <2>5, <2>6, <2>7
  <1>2. RulesInv /\ [Next]_vars =>
          [\A r \in Range(rules') \ Range(rules) : r.excludeIf # "" =>
             /\ \A t \in Types : IsExcluded(t)' = IsExcluded(t)
             /\ \A o \in Objects : /\ IsObjectExcluded(o)' = IsObjectExcluded(o)
                                   /\ ResolveExcludeFields(o)' = ResolveExcludeFields(o)]_vars
    BY <1>1
  <1> QED
    BY <1>2, RulesInvariance, PTL DEF Spec, ExcludeIfIsSeparate

-----------------------------------------------------------------------------
(* The fields that are cut *)

\* The places before an end of a place, with itself.
LEMMA Shortened ==
  ASSUME NEW S, NEW p \in Seq(S), NEW n \in 0..Len(p)
  PROVE  /\ SubSeq(p, 1, n) \in Seq(S) /\ Len(SubSeq(p, 1, n)) = n
         /\ \A i \in 1..n : SubSeq(p, 1, n)[i] = p[i]
         /\ n = Len(p) => SubSeq(p, 1, n) = p
  OBVIOUS

LEMMA PrefixOfShortened ==
  ASSUME NEW S, NEW p \in Seq(S), NEW n \in 0..Len(p), NEW x \in Seq(S),
         IsPrefix(x, SubSeq(p, 1, n))
  PROVE  IsPrefix(x, p)
  <1> DEFINE q == SubSeq(p, 1, n)
  <1>1. q \in Seq(S) /\ Len(q) = n /\ \A i \in 1..n : q[i] = p[i]
    BY Shortened
  <1> HIDE DEF q
  <1>2. Len(x) <= Len(q) /\ \A i \in 1..Len(x) : x[i] = q[i]
    <2>1. IsPrefix(x, q)
      BY DEF q
    <2> QED
      BY <1>1, <2>1, PrefixPointwise
  <1>3. Len(x) <= Len(p) /\ \A i \in 1..Len(x) : x[i] = p[i]
    BY <1>1, <1>2
  <1> QED
    BY <1>3, PrefixPointwise

LEMMA PrefixIsShortened ==
  ASSUME NEW S, NEW p \in Seq(S), NEW x \in Seq(S), IsPrefix(x, p)
  PROVE  Len(x) \in 0..Len(p) /\ x = SubSeq(p, 1, Len(x))
  <1>1. Len(x) <= Len(p) /\ \A i \in 1..Len(x) : x[i] = p[i]
    BY PrefixPointwise
  <1>2. Len(x) \in 0..Len(p)
    BY <1>1
  <1>3. /\ SubSeq(p, 1, Len(x)) \in Seq(S) /\ Len(SubSeq(p, 1, Len(x))) = Len(x)
        /\ \A i \in 1..Len(x) : SubSeq(p, 1, Len(x))[i] = p[i]
    BY <1>2, Shortened
  <1> QED
    BY <1>1, <1>2, <1>3, SeqEqual

\* The condition of Deleted on the i-th key of a place.
OnWay(doc, wild, segs, p, i) ==
  LET here == doc[SubSeq(p, 1, i - 1)]
  IN IF wild[i] THEN here = "list" /\ doc[SubSeq(p, 1, i)] = "map"
                ELSE here = "map" /\ p[i] = segs[i]

LEMMA DeletedIs ==
  ASSUME NEW doc, NEW segs
  PROVE  Deleted(doc, segs) =
           {p \in DOMAIN doc : /\ Len(p) = Len(segs) /\ segs # <<>>
                               /\ \A i \in 1..Len(p) : OnWay(doc, IsWildcard(segs), segs, p, i)}
  BY DEF Deleted, OnWay

\* With a place, what is left of a document has the places on the way to it.
LEMMA WithoutClosed ==
  ASSUME NEW d, IsDocument(d), NEW P \in SUBSET DOMAIN d, NEW p \in DOMAIN Without(d, P),
         NEW n \in 0..Len(p)
  PROVE  /\ p \in Seq(Seq(STRING)) /\ SubSeq(p, 1, n) \in DOMAIN Without(d, P)
         /\ Without(d, P)[SubSeq(p, 1, n)] = d[SubSeq(p, 1, n)]
  <1>1. p \in DOMAIN d /\ \A x \in P : ~IsPrefix(x, p)
    BY DEF Without
  <1>2. p \in Seq(Seq(STRING)) /\ P \subseteq Seq(Seq(STRING))
    BY <1>1 DEF IsDocument
  <1>3. SubSeq(p, 1, n) \in DOMAIN d
    <2>1. CASE n = Len(p)
      BY <1>1, <1>2, <2>1, Shortened
    <2>2. CASE n # Len(p)
      <3>1. n \in 0..(Len(p) - 1)
        BY <1>2, <2>2
      <3> QED
        BY <1>1, <3>1 DEF IsDocument
    <2> QED
      BY <2>1, <2>2
  <1>4. \A x \in P : ~IsPrefix(x, SubSeq(p, 1, n))
    BY <1>1, <1>2, PrefixOfShortened
  <1> QED
    BY <1>2, <1>3, <1>4 DEF Without

\* A field is cut from what other cuts left as it is cut from the whole.
LEMMA DeletedFromRest ==
  ASSUME NEW d, IsDocument(d), NEW P \in SUBSET DOMAIN d, NEW segs
  PROVE  Deleted(Without(d, P), segs) = Deleted(d, segs) \cap DOMAIN Without(d, P)
  <1> DEFINE e == Without(d, P)
             wild == IsWildcard(segs)
  <1>1. DOMAIN e \subseteq DOMAIN d
    BY DEF Without
  <1>2. ASSUME NEW p \in DOMAIN e, NEW i \in 1..Len(p)
        PROVE  OnWay(e, wild, segs, p, i) <=> OnWay(d, wild, segs, p, i)
    <2>1. p \in Seq(Seq(STRING))
      BY <1>1 DEF IsDocument
    <2>2. i - 1 \in 0..Len(p) /\ i \in 0..Len(p)
      BY <2>1
    <2>3. e[SubSeq(p, 1, i - 1)] = d[SubSeq(p, 1, i - 1)] /\ e[SubSeq(p, 1, i)] = d[SubSeq(p, 1, i)]
      BY <2>2, WithoutClosed
    <2> HIDE DEF e, wild
    <2> QED
      BY <2>3 DEF OnWay
  <1> HIDE DEF e
  <1>3. ASSUME NEW p PROVE p \in Deleted(e, segs) <=> p \in Deleted(d, segs) \cap DOMAIN e
    <2>1. CASE p \in DOMAIN e
      <3>1. (\A i \in 1..Len(p) : OnWay(e, wild, segs, p, i))
              <=> (\A i \in 1..Len(p) : OnWay(d, wild, segs, p, i))
        BY <1>2, <2>1
      <3> QED
        BY <1>1, <2>1, <3>1, DeletedIs
    <2>2. CASE p \notin DOMAIN e
      BY <2>2, DeletedIs
    <2> QED
      BY <2>1, <2>2
  <1> QED
    BY <1>3 DEF e

LEMMA CutAfterCut ==
  ASSUME NEW d, IsDocument(d), NEW P \in SUBSET DOMAIN d, NEW segs
  PROVE  /\ Deleted(d, segs) \subseteq DOMAIN d
         /\ Without(Without(d, P), Deleted(Without(d, P), segs)) = Without(d, P \cup Deleted(d, segs))
  <1> DEFINE e == Without(d, P)
             D == Deleted(d, segs)
  <1>1. D \subseteq DOMAIN d /\ Deleted(e, segs) = D \cap DOMAIN e
    BY DeletedIs, DeletedFromRest
  <1>2. DOMAIN e = {q \in DOMAIN d : \A x \in P : ~IsPrefix(x, q)} /\ \A q \in DOMAIN e : e[q] = d[q]
    BY DEF Without
  <1>3. ASSUME NEW q \in DOMAIN e, NEW x \in D, IsPrefix(x, q) PROVE x \in DOMAIN e
    <2>1. q \in Seq(Seq(STRING)) /\ x \in Seq(Seq(STRING))
      BY <1>1, <1>2 DEF IsDocument
    <2>2. Len(x) \in 0..Len(q) /\ x = SubSeq(q, 1, Len(x))
      BY <1>3, <2>1, PrefixIsShortened
    <2>3. SubSeq(q, 1, Len(x)) \in DOMAIN e
      BY <2>2, WithoutClosed
    <2> QED
      BY <2>2, <2>3
  <1> HIDE DEF e, D
  <1>4. {q \in DOMAIN e : \A x \in D \cap DOMAIN e : ~IsPrefix(x, q)}
          = {q \in DOMAIN d : \A x \in P \cup D : ~IsPrefix(x, q)}
    BY <1>2, <1>3
  <1>5. Without(e, D \cap DOMAIN e) = Without(d, P \cup D)
    BY <1>2, <1>4 DEF Without
  <1> QED
    BY <1>1, <1>5 DEF e, D

LEMMA WithoutNothing ==
  ASSUME NEW d, IsDocument(d)
  PROVE  Without(d, {}) = d
  BY DEF Without, IsDocument

\* The places n fields take, each in the whole document.
AllDeleted(d, paths, n) == UNION {Deleted(d, ParsePath(paths[i])) : i \in 1..n}

\* DeleteFields, with the fields in whatever order, cuts what each of them
\* takes from the whole.
LEMMA DeleteFieldsIs ==
  ASSUME NEW d, IsDocument(d), NEW paths, Len(paths) \in Nat
  PROVE  DeleteFields(d, paths) = Without(d, AllDeleted(d, paths, Len(paths)))
  <1> DEFINE N == Len(paths)
             Loop(g) == g = [n \in 0 .. Len(paths) |->
                 IF n = 0 THEN d ELSE Apply(LAMBDA x : DeleteField(x, paths[n]), g[n - 1])]
             h == [n \in 0 .. Len(paths) |-> Without(d, AllDeleted(d, paths, n))]
  <1>1. DeleteFields(d, paths) = (CHOOSE g : Loop(g))[Len(paths)]
    BY DEF DeleteFields
  <1>2. \A x, n : Apply(LAMBDA y : DeleteField(y, paths[n]), x)
                    = Without(x, Deleted(x, ParsePath(paths[n])))
    BY DEF Apply, DeleteField
  <1>3. h[0] = d
    <2>1. AllDeleted(d, paths, 0) = {}
      BY DEF AllDeleted
    <2>2. h[0] = Without(d, AllDeleted(d, paths, 0))
      OBVIOUS
    <2> HIDE DEF h
    <2> QED
      BY <2>1, <2>2, WithoutNothing
  <1>4. ASSUME NEW n \in 1..N
        PROVE  h[n] = Without(h[n - 1], Deleted(h[n - 1], ParsePath(paths[n])))
    <2> DEFINE P == AllDeleted(d, paths, n - 1)
               D == Deleted(d, ParsePath(paths[n]))
    <2>1. P \subseteq DOMAIN d
      BY DeletedIs DEF AllDeleted
    <2>2. 1..n = 1..(n - 1) \cup {n}
      OBVIOUS
    <2>3. AllDeleted(d, paths, n) = P \cup D
      BY <2>2 DEF AllDeleted
    <2>4. h[n - 1] = Without(d, P) /\ h[n] = Without(d, P \cup D)
      BY <2>3
    <2> HIDE DEF P, h
    <2> QED
      BY <2>1, <2>4, CutAfterCut
  <1>5. Loop(h)
    <2>1. h = [n \in 0..N |-> h[n]]
      OBVIOUS
    <2> HIDE DEF h
    <2>2. ASSUME NEW n \in 0..N
          PROVE  h[n] = IF n = 0 THEN d
                        ELSE Apply(LAMBDA x : DeleteField(x, paths[n]), h[n - 1])
      <3>1. CASE n = 0
        BY <1>3, <3>1
      <3>2. CASE n # 0
        <4>1. n \in 1..N
          BY <3>2
        <4> QED
          BY <1>2, <1>4, <3>2, <4>1
      <3> QED
        BY <3>1, <3>2
    <2> QED
      BY <2>1, <2>2
  <1>6. PICK g : g = (CHOOSE f : Loop(f)) /\ Loop(g)
    <2> HIDE DEF Loop
    <2> QED
      BY <1>5
  <1>7. g[0] = d /\ \A n \in 1..N : g[n] = Without(g[n - 1], Deleted(g[n - 1], ParsePath(paths[n])))
    BY <1>2, <1>6
  <1> DEFINE T == {n \in 0..N : g[n] # h[n]}
  <1> HIDE DEF h
  <1>8. T = {}
    <2> SUFFICES ASSUME T # {} PROVE FALSE
      OBVIOUS
    <2>1. PICK n \in T : \A y \in T : n <= y
      <3>1. T \subseteq Nat
        OBVIOUS
      <3> HIDE DEF T
      <3> QED
        BY <3>1, LeastIsMin
    <2>2. n # 0
      BY <1>3, <1>7
    <2>3. n \in 1..N /\ n - 1 \in 0..N /\ n - 1 \notin T
      BY <2>1, <2>2
    <2>4. g[n - 1] = h[n - 1]
      BY <2>3
    <2> QED
      BY <1>4, <1>7, <2>3, <2>4
  <1>9. g[N] = h[N]
    BY <1>8
  <1> QED
    BY <1>1, <1>6, <1>9 DEF h

\* SetToSeq has every element of the set.
LEMMA SetToSeqIs ==
  ASSUME NEW S, IsFiniteSet(S)
  PROVE  /\ Len(SetToSeq(S)) \in Nat
         /\ \A i \in 1..Len(SetToSeq(S)) : SetToSeq(S)[i] \in S
         /\ \A x \in S : \E i \in 1..Len(SetToSeq(S)) : SetToSeq(S)[i] = x
  <1> DEFINE n == Cardinality(S)
             s == SetToSeq(S)
  <1>1. n \in Nat
    BY FS_CardinalityType
  <1>2. IsFiniteSet(1..n) /\ Cardinality(1..n) = n
    BY <1>1, FS_Interval
  <1>3. PICK b : b \in Bijection(1..n, S)
    <2>1. ExistsBijection(1..n, S)
      BY <1>2, FS_SameCardinalityBij
    <2> QED
      BY <2>1 DEF ExistsBijection
  <1>4. b \in [1..n -> S] /\ IsInjective(b)
    BY <1>3 DEF Bijection, Injection
  <1>5. s \in [1..n -> S] /\ IsInjective(s)
    BY <1>4 DEF SetToSeq
  <1> HIDE DEF s
  <1>6. Range(s) \in SUBSET S /\ s \in Bijection(1..n, Range(s))
    <2>1. s \in Injection(1..n, S)
      BY <1>5 DEF Injection
    <2> QED
      BY <1>5, <2>1, Fun_InjMeansBijImage DEF Range
  <1>7. Cardinality(Range(s)) = n
    <2>1. ExistsBijection(1..n, Range(s))
      BY <1>6 DEF ExistsBijection
    <2> QED
      BY <1>2, <2>1, FS_Bijection
  <1>8. Range(s) = S
    BY <1>6, <1>7, FS_Subset
  <1>9. Len(s) = n
    BY <1>1, <1>5
  <1> QED
    BY <1>1, <1>5, <1>8, <1>9 DEF Range, s

\* What the fields of a set leave of a document.
CutBy(d, fs) == Without(d, UNION {Deleted(d, ParsePath(f)) : f \in fs})

LEMMA FileIs ==
  ASSUME NEW fs \in SUBSET Fields, NEW d \in Documents
  PROVE  Sanitized[fs][d] = CutBy(d, fs)
  <1> DEFINE s == SetToSeq(fs)
  <1>1. IsFiniteSet(fs) /\ IsDocument(d)
    BY FS_Subset, RulesConstants
  <1>2. /\ Len(s) \in Nat
        /\ \A i \in 1..Len(s) : s[i] \in fs
        /\ \A x \in fs : \E i \in 1..Len(s) : s[i] = x
    BY <1>1, SetToSeqIs
  <1>3. Sanitized[fs][d] = DeleteFields(d, s)
    BY DEF Sanitized
  <1> HIDE DEF s
  <1>4. AllDeleted(d, s, Len(s)) = UNION {Deleted(d, ParsePath(f)) : f \in fs}
    BY <1>2 DEF AllDeleted
  <1> QED
    BY <1>1, <1>2, <1>3, <1>4, DeleteFieldsIs DEF CutBy

LEMMA ResolvedFields ==
  ASSUME RulesInv, NEW o
  PROVE  ResolveExcludeFields(o) \in SUBSET Fields
  <1>1. ASSUME NEW r \in Range(rules) PROVE r.excludeFields \subseteq Fields
    <2>1. rules \in [1..Len(rules) -> RuleSet]
      BY DEF RulesInv
    <2>2. r \in Rule
      BY <2>1, RulesConstants DEF Range
    <2> QED
      BY <2>2 DEF Rule
  <1>2. ASSUME NEW f \in ResolveExcludeFields(o)
        PROVE  \/ \E r \in Range(rules) : f \in r.excludeFields
               \/ \E k \in DOMAIN BuiltinFields : f \in BuiltinFields[k]
    BY <1>2 DEF ResolveExcludeFields
  <1> QED
    BY <1>1, <1>2, RulesConstants

LEMMA CutByMore ==
  ASSUME NEW d, NEW fs, NEW gs, fs \subseteq gs
  PROVE  DOMAIN CutBy(d, gs) \subseteq DOMAIN CutBy(d, fs)
  BY DEF CutBy, Without

\* No rule, wherever it is put, brings back anything of a file that was cut
\* before, although the fields are then cut in another order
\* (ResolveExcludeFieldsForObject and sanitizer.DeleteFields).
THEOREM CutsAreAdditive == Spec => FieldsAreAdditive
  <1>1. ASSUME RulesInv, [Next]_vars, NEW o \in Objects, NEW d \in Documents
        PROVE  DOMAIN File(o, d)' \subseteq DOMAIN File(o, d)
    <2>1. Range(rules) \subseteq Range(rules') /\ builtins' = builtins
      <3>1. ASSUME NEW r \in Range(rules') \ Range(rules)
            PROVE  Range(rules) \subseteq Range(rules') /\ builtins' = builtins
        BY <1>1, <3>1, InsertedRule
      <3>2. CASE UNCHANGED vars
        BY <3>2 DEF vars
      <3>3. ASSUME Insert PROVE \E r \in Range(rules') : r \notin Range(rules)
        <4>1. PICK i \in 1..(Len(rules) + 1), x \in RuleSet :
                x \notin Range(rules) /\ rules' = InsertAt(rules, i, x)
          BY <3>3 DEF Insert
        <4>2. rules \in Seq(RuleSet) /\ i \in 1..(Len(rules) + 1) /\ x \in RuleSet
          BY <1>1 DEF RulesInv
        <4> DEFINE new == InsertAt(rules, i, x)
        <4>3. new \in Seq(RuleSet) /\ Len(new) = Len(rules) + 1 /\ new[i] = x
          BY <4>2, InsertAtFacts
        <4> HIDE DEF new
        <4>4. x \in Range(new)
          BY <4>2, <4>3 DEF Range
        <4> QED
          BY <4>1, <4>4 DEF new
      <3> QED
        BY <1>1, <3>1, <3>2, <3>3 DEF Next
    <2> DEFINE fs == ResolveExcludeFields(o)
               gs == ResolveExcludeFields(o)'
    <2>2. fs \subseteq gs
      BY <2>1 DEF ResolveExcludeFields
    <2>3. fs \in SUBSET Fields /\ gs \in SUBSET Fields
      <3>1. RulesInv => ResolveExcludeFields(o) \in SUBSET Fields
        BY ResolvedFields
      <3>2. (RulesInv => ResolveExcludeFields(o) \in SUBSET Fields)'
        BY <3>1, ResolvedFields, PTL
      <3> QED
        BY <1>1, <3>1, <3>2, RulesStep
    <2>4. File(o, d) = Sanitized[fs][d] /\ File(o, d)' = Sanitized[gs][d]
      BY DEF File, Sanitized
    <2> HIDE DEF fs, gs
    <2> QED
      BY <2>2, <2>3, <2>4, FileIs, CutByMore
  <1>2. RulesInv /\ [Next]_vars =>
          [\A o \in Objects, d \in Documents : DOMAIN File(o, d)' \subseteq DOMAIN File(o, d)]_vars
    BY <1>1
  <1> QED
    BY <1>2, RulesInvariance, PTL DEF Spec, FieldsAreAdditive

\* Every path by itself, on a whole document, is parsed and cut as it is meant.
PathsAreUnderstood ==
  \A f \in Fields, d \in Documents : Deleted(d, ParsePath(f)) = Meant(d, f)

\* When every path by itself takes the places it is written for, a file lacks
\* the fields of all rules of its object and nothing else, however many rules
\* name however many of them, one inside the other or not, and in whatever
\* order DeleteFields cuts them.
THEOREM FilesLack ==
  ASSUME PathsAreUnderstood
  PROVE  Spec => []FilesLackTheFields
  <1>1. ASSUME RulesInv, NEW o \in Objects, NEW d \in Documents
        PROVE  File(o, d) = Lacking[ResolveExcludeFields(o)][d]
    <2> DEFINE fs == ResolveExcludeFields(o)
    <2>1. fs \in SUBSET Fields
      BY <1>1, ResolvedFields
    <2>2. File(o, d) = Sanitized[fs][d]
      BY DEF File
    <2> HIDE DEF fs
    <2>3. {Deleted(d, ParsePath(f)) : f \in fs} = {Meant(d, f) : f \in fs}
      BY <2>1 DEF PathsAreUnderstood
    <2>4. Lacking[fs][d] = CutBy(d, fs)
      BY <2>1, <2>3 DEF Lacking, CutBy
    <2> QED
      BY <2>1, <2>2, <2>4, FileIs DEF fs
  <1>2. RulesInv => FilesLackTheFields
    BY <1>1 DEF FilesLackTheFields
  <1> QED
    BY <1>2, RulesInvariance, PTL
=============================================================================
