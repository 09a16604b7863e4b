----------------------------- MODULE ApiProofs -----------------------------
(***************************************************************************)
(* Theorems about requests that read a cluster in several steps while its  *)
(* pull loop changes it, for every set of clusters, resources, histories   *)
(* and requests.                                                           *)
(***************************************************************************)
EXTENDS Api, PositionProofs

-----------------------------------------------------------------------------
(* Clones only grow *)

Commits == [time : Nat, tree : Tree]

DataTypes ==
  /\ log \in [Clusters -> Seq(Commits)]
  /\ DOMAIN idx = Clusters /\ DOMAIN hist = Clusters
  /\ \A c \in Clusters : idx[c] \in 0..Len(log[c]) /\ hist[c] \in 0..Len(log[c])

\* What a clone had, it still has.
Grown ==
  \A c \in Clusters :
    /\ Len(log[c]) \in Nat /\ Len(log'[c]) \in Nat /\ Len(log[c]) <= Len(log'[c])
    /\ \A n \in 1..Len(log[c]) : log'[c][n] = log[c][n]

LEMMA LogLengths ==
  ASSUME DataTypes, NEW c \in Clusters
  PROVE  Len(log[c]) \in Nat /\ log[c] \in Seq(Commits)
  BY DEF DataTypes

LEMMA AppendFacts ==
  ASSUME NEW S, NEW s \in Seq(S), NEW x \in S
  PROVE  /\ Append(s, x) \in Seq(S) /\ Len(Append(s, x)) = Len(s) + 1 /\ Len(s) \in Nat
         /\ \A n \in 1..Len(s) : Append(s, x)[n] = s[n]
  OBVIOUS

LEMMA DataStep ==
  ASSUME DataTypes, [Next]_vars
  PROVE  DataTypes' /\ Grown
  <1>1. CASE UNCHANGED data
    <2>1. log' = log /\ idx' = idx /\ hist' = hist
      BY <1>1 DEF data
    <2>2. Grown
      BY <2>1, LogLengths DEF Grown
    <2> QED
      BY <2>1, <2>2 DEF DataTypes
  <1>2. ASSUME NEW c \in Clusters, Pull(c) PROVE DataTypes' /\ Grown
    <2>1. PICK t \in Trees : log' = [log EXCEPT ![c] = Append(@, [time |-> Last(@).time + 1, tree |-> t])]
      BY <1>2 DEF Pull
    <2> DEFINE x == [time |-> Last(log[c]).time + 1, tree |-> t]
    <2>2. log[c] \in Seq(Commits) /\ log[c] # <<>>
      BY <1>2, LogLengths DEF Pull
    <2>3. x \in Commits
      <3>1. Last(log[c]) \in Commits
        BY <2>2 DEF Last
      <3>2. Last(log[c]).time + 1 \in Nat /\ t \in Tree
        BY <3>1, ApiConstants DEF Commits
      <3> QED
        BY <3>2 DEF Commits
    <2> HIDE DEF x
    <2>4. /\ Append(log[c], x) \in Seq(Commits) /\ Len(Append(log[c], x)) = Len(log[c]) + 1
          /\ Len(log[c]) \in Nat /\ \A n \in 1..Len(log[c]) : Append(log[c], x)[n] = log[c][n]
      BY <2>2, <2>3, AppendFacts
    <2>5. log' = [log EXCEPT ![c] = Append(log[c], x)]
      BY <2>1 DEF x
    <2>6. log \in [Clusters -> Seq(Commits)]
      BY DEF DataTypes
    <2>7. log' \in [Clusters -> Seq(Commits)] /\ log'[c] = Append(log[c], x)
          /\ \A e \in Clusters \ {c} : log'[e] = log[e]
      BY <2>4, <2>5, <2>6
    <2>8. Grown
      <3>1. ASSUME NEW e \in Clusters
            PROVE  /\ Len(log[e]) \in Nat /\ Len(log'[e]) \in Nat /\ Len(log[e]) <= Len(log'[e])
                   /\ \A n \in 1..Len(log[e]) : log'[e][n] = log[e][n]
        <4>1. CASE e = c
          <5>1. Len(log[c]) + 1 \in Nat /\ Len(log[c]) <= Len(log[c]) + 1
            BY <2>4
          <5> QED
            BY <2>4, <2>7, <4>1, <5>1
        <4>2. CASE e # c
          <5>1. log'[e] = log[e] /\ Len(log[e]) \in Nat
            BY <2>7, <4>2, LogLengths
          <5> QED
            BY <5>1
        <4> QED
          BY <4>1, <4>2
      <3> QED
        BY <3>1 DEF Grown
    <2>9. idx' = idx /\ hist' = hist
      BY <1>2 DEF Pull
    <2>10. \A e \in Clusters : idx[e] \in 0..Len(log'[e]) /\ hist[e] \in 0..Len(log'[e])
      BY <2>8 DEF Grown, DataTypes
    <2> QED
      BY <2>7, <2>8, <2>9, <2>10 DEF DataTypes
  <1>3. ASSUME NEW c \in Clusters, BuildIndex(c) \/ BuildHistory(c) PROVE DataTypes' /\ Grown
    <2>1. log' = log
      BY <1>3 DEF BuildIndex, BuildHistory
    <2>2. \A e \in Clusters : Len(log[e]) \in Nat
      BY LogLengths
    <2>3. /\ DOMAIN idx' = Clusters /\ DOMAIN hist' = Clusters
          /\ \A e \in Clusters : /\ idx'[e] \in {idx[e], Len(log[e])}
                                 /\ hist'[e] \in {hist[e], Len(log[e])}
      BY <1>3 DEF BuildIndex, BuildHistory, DataTypes
    <2>4. Grown
      BY <2>1, <2>2 DEF Grown
    <2> QED
      BY <2>1, <2>2, <2>3, <2>4 DEF DataTypes
  <1>4. CASE Next /\ ~UNCHANGED data
    BY <1>2, <1>3, <1>4
       DEF Next, Receive, VisitStatus, VisitHealthz, VisitGVKs, VisitNamespaces, VisitList,
           VisitQuery, EvalNext, VisitPast, VisitHistory, VisitVolatility, VisitFields,
           Lookup, ReadFile, ReadVersion, Finish
  <1>5. UNCHANGED vars => UNCHANGED data
    BY DEF vars, data
  <1> QED
    BY <1>1, <1>4, <1>5

LEMMA InitData == Init => DataTypes
  <1> SUFFICES ASSUME Init PROVE DataTypes
    OBVIOUS
  <1>1. PICK failed \in SUBSET Clusters :
          log = [c \in Clusters |-> IF c \in failed THEN <<>> ELSE InitialLog[c]]
    BY DEF Init
  <1>2. <<>> \in Seq(Commits) /\ \A c \in Clusters : InitialLog[c] \in Seq(Commits)
    <2>1. \A c \in Clusters : InitialLog[c] \in Seq(Commits)
      BY ApiConstants, Zenon DEF Commits
    <2> QED
      BY <2>1
  <1>3. log \in [Clusters -> Seq(Commits)]
    BY <1>1, <1>2
  <1>4. \A c \in Clusters : Len(log[c]) \in Nat
    BY <1>3
  <1> QED
    BY <1>3, <1>4 DEF Init, DataTypes

-----------------------------------------------------------------------------
(* A diff, read by read *)

LEMMA MinNat ==
  ASSUME NEW T, T \subseteq Nat, T # {}
  PROVE  Min(T) \in T
  <1> DEFINE R == OpToRel(<, Nat)
  <1>1. IsWellFoundedOn(R, Nat)
    BY NatLessThanWellFounded, Zenon
  <1> HIDE DEF R
  <1>2. PICK x \in T : \A y \in T : ~(<<y, x>> \in R)
    BY <1>1, WFMin
  <1>3. ASSUME NEW y \in T PROVE x <= y
    <2>1. ~(<<y, x>> \in R) /\ y \in Nat /\ x \in Nat
      BY <1>2
    <2>2. ~(y < x)
      BY <2>1, Zenon DEF R, OpToRel
    <2> QED
      BY <2>1, <2>2
  <1> QED
    BY <1>3 DEF Min

LEMMA FirstOfFacts ==
  ASSUME NEW S, S \subseteq Objs, S # {}
  PROVE  FirstOf(S) \in S
  <1> DEFINE T == {i \in DOMAIN WalkOrder : WalkOrder[i] \in S}
  <1>1. T \subseteq Nat
    BY ApiConstants
  <1>2. T # {}
    <2>1. PICK o \in S : TRUE
      OBVIOUS
    <2>2. o \in Range(WalkOrder)
      BY DEF Objs
    <2> QED
      BY <2>2 DEF Range
  <1>3. Min(T) \in T
    <2> HIDE DEF T
    <2> QED
      BY <1>1, <1>2, MinNat
  <1> QED
    BY <1>3 DEF FirstOf

\* The file p is one the two searches of GetDiff may find for a.
IsFor(a, p) ==
  /\ p \in Objs
  /\ a.namespace = Meta[p].namespace /\ a.name = Meta[p].name
  /\ EqualFold(a.group, Meta[p].group) \/ (a.group = "" /\ EqualFold(a.kind, Meta[p].kind))

\* o is the file asked for, and no other may be found.
Asks(a, o) ==
  /\ a.group = Meta[o].group /\ a.kind = Meta[o].kind
  /\ a.namespace = Meta[o].namespace /\ a.name = Meta[o].name
  /\ \A p \in Objs \ {o} : \/ Meta[p].namespace # a.namespace \/ Meta[p].name # a.name
                           \/ /\ ~EqualFold(a.group, Meta[p].group)
                              /\ a.group = "" => ~EqualFold(a.kind, Meta[p].kind)

InBoth(a, o) ==
  /\ {a.from, a.to} \subseteq 1..Len(log[a.cluster])
  /\ DocAt(a.cluster, a.from, o) # None /\ DocAt(a.cluster, a.to, o) # None

\* The answer is the right one for the arguments a.
Right(a, out) ==
  a.cluster \in Clusters =>
    \A o \in Objs : Asks(a, o) =>
      /\ out.code = "ok" => InBoth(a, o) /\ out.items = <<DocAt(a.cluster, a.from, o), DocAt(a.cluster, a.to, o)>>
      /\ InBoth(a, o) => out.code = "ok"

Names == {"at", "ask", "do", "args", "todo", "cands", "all", "steady", "out"}

\* What GetDiff knows at each of its steps.
Diffing(at, a, todo, cands, all, out) ==
  /\ at \in {"lookup", "from", "to", "done"}
  /\ at = "lookup" => todo = IF a.cluster \in Clusters THEN <<a.cluster>> ELSE <<>>
  /\ at \in {"from", "to"} => /\ a.cluster \in Clusters /\ todo = <<a.cluster>>
                              /\ IsFor(a, cands[1].o)
  /\ at = "to" => /\ a.from \in 1..Len(log[a.cluster])
                  /\ DocAt(a.cluster, a.from, cands[1].o) # None
                  /\ all = <<DocAt(a.cluster, a.from, cands[1].o)>>
  /\ at = "done" => Right(a, out)

DiffInv ==
  /\ DOMAIN req = Names
  /\ req.do = "GetDiff" => Diffing(req.at, req.args, req.todo, req.cands, req.all, req.out)

LEMMA DiffInvMeans == DiffInv => DiffIsOfTheCommits
  <1> SUFFICES ASSUME DiffInv, req.do = "GetDiff", req.at = "done", req.args.cluster \in Clusters
               PROVE  DiffIsOfTheCommits
    BY DEF DiffIsOfTheCommits
  <1>1. Right(req.args, req.out)
    BY DEF DiffInv, Diffing
  <1> QED
    BY <1>1 DEF DiffIsOfTheCommits, Right, Asks, InBoth, Found

\* The file found is the file asked for.
LEMMA FoundIsAsked ==
  ASSUME NEW a, NEW p, IsFor(a, p), NEW o \in Objs, Asks(a, o)
  PROVE  p = o
  BY DEF IsFor, Asks

LEMMA FailFacts ==
  ASSUME DOMAIN req = Names, NEW code, code # "ok", Fail(code)
  PROVE  /\ DOMAIN req' = Names /\ req'.do = req.do /\ req'.args = req.args
         /\ req'.at = "done" /\ req'.out.code # "ok"
  BY DEF Fail, Names, Answer

\* An answer without data is right when the resource is not in both commits.
LEMMA FailIsRight ==
  ASSUME NEW a, NEW out, out.code # "ok",
         a.cluster \in Clusters => \A o \in Objs : Asks(a, o) => ~InBoth(a, o)
  PROVE  Right(a, out)
  BY DEF Right

LEMMA ReceiveKeepsDiff ==
  ASSUME DiffInv, Receive
  PROVE  DiffInv'
  <1>1. PICK a \in Requests : LET d == Dispatch(a) IN req' = [Idle EXCEPT
            !.ask = a, !.do = d.do, !.args = d.args,
            !.todo = IF d.do \in {"reply", "ListClusters"} THEN <<>> ELSE Resolve(d.do, d.args.cluster),
            !.at = CASE d.do = "reply"                      -> "done"
                     [] d.do \in {"GetResource", "GetDiff"} -> "lookup"
                     [] OTHER                               -> "visit",
            !.out = IF d.do = "reply" THEN Answer(d.code, <<>>, 0) ELSE NoAnswer]
    BY DEF Receive
  <1> DEFINE d == Dispatch(a)
  <1>2. /\ DOMAIN req' = Names /\ req'.do = d.do /\ req'.args = d.args
        /\ d.do = "GetDiff" => /\ req'.at = "lookup"
                               /\ req'.todo = Resolve("GetDiff", d.args.cluster)
    BY <1>1 DEF Idle, Names
  <1> HIDE DEF d
  <1>3. d.do = "GetDiff" =>
          req'.todo = IF req'.args.cluster \in Clusters THEN <<req'.args.cluster>> ELSE <<>>
    BY <1>2 DEF Resolve
  <1> QED
    BY <1>2, <1>3 DEF DiffInv, Diffing

\* Steps of other requests.
LEMMA OthersKeepDiff ==
  ASSUME DiffInv,
         \/ VisitStatus \/ VisitHealthz \/ VisitGVKs \/ VisitNamespaces \/ VisitList \/ VisitQuery
         \/ EvalNext \/ VisitPast \/ VisitHistory \/ VisitVolatility \/ VisitFields
         \/ ReadFile \/ Finish
  PROVE  DiffInv'
  <1>1. req.at \in {"visit", "eval", "read"}
    BY DEF VisitStatus, VisitHealthz, VisitGVKs, VisitNamespaces, VisitList, VisitQuery, EvalNext,
           VisitPast, VisitHistory, VisitVolatility, VisitFields, ReadFile, Finish, Visiting
  <1>2. req.do # "GetDiff"
    BY <1>1 DEF DiffInv, Diffing
  <1>3. \A more : Collect(more) => DOMAIN req' = Names /\ req'.do = req.do
    BY DEF Collect, DiffInv, Names
  <1>4. \A code : Fail(code) => DOMAIN req' = Names /\ req'.do = req.do
    BY DEF Fail, DiffInv, Names
  <1>5. DOMAIN req' = Names /\ req'.do = req.do
    <2>1. CASE VisitStatus \/ VisitHealthz \/ VisitGVKs \/ VisitNamespaces \/ VisitList
               \/ VisitPast \/ VisitHistory \/ VisitVolatility \/ VisitFields
      BY <1>3, <1>4, <2>1 DEF VisitStatus, VisitHealthz, VisitGVKs, VisitNamespaces, VisitList,
           VisitPast, VisitHistory, VisitVolatility, VisitFields
    <2>2. CASE VisitQuery \/ EvalNext \/ ReadFile \/ Finish
      BY <1>4, <2>2 DEF VisitQuery, EvalNext, ReadFile, Finish, DiffInv, Names
    <2> QED
      BY <2>1, <2>2
  <1> QED
    BY <1>2, <1>5 DEF DiffInv

LEMMA LookupKeepsDiff ==
  ASSUME DataTypes, DiffInv, Lookup
  PROVE  DiffInv'
  <1> DEFINE a == req.args
             c == a.cluster
             old == IF a.from \in 1..Len(log[c])
                    THEN FindResourcePath(c, a.from, a.group, a.namespace, a.name) ELSE {}
             path == IF Get(c, a) # {} THEN Get(c, a) ELSE old
  <1>1. DOMAIN req = Names /\ req.at = "lookup" /\ log' = log
    BY DEF DiffInv, Lookup, data
  <1>2. CASE req.do # "GetDiff"
    <2>1. DOMAIN req' = Names /\ req'.do = req.do
      BY <1>1, FailFacts DEF Lookup, Names
    <2> QED
      BY <1>2, <2>1 DEF DiffInv
  <1>3. CASE req.do = "GetDiff" /\ c \notin Clusters
    <2>1. req.todo = <<>>
      BY <1>1, <1>3 DEF DiffInv, Diffing
    <2>2. Fail("not found")
      BY <2>1 DEF Lookup
    <2>3. /\ DOMAIN req' = Names /\ req'.args = a /\ req'.at = "done"
      BY <1>1, <2>2, FailFacts
    <2>4. Right(req.args, req.out)'
      BY <1>3, <2>3 DEF Right
    <2> QED
      BY <2>3, <2>4 DEF DiffInv, Diffing
  <1>4. CASE req.do = "GetDiff" /\ c \in Clusters
    <2>1. req.todo = <<c>> /\ req.todo # <<>> /\ Cluster = c
      BY <1>1, <1>4 DEF DiffInv, Diffing, Cluster
    <2>2. IF path = {} THEN Fail("not found")
          ELSE req' = [req EXCEPT !.at = "from", !.cands = <<Entry(c, idx[c], FirstOf(path))>>]
      BY <1>4, <2>1 DEF Lookup
    <2>3. \A p \in path : IsFor(a, p)
      BY DEF Get, FindResourcePath, Listed, IsFor
    <2>4. ASSUME NEW o \in Objs, Asks(a, o), InBoth(a, o)
          PROVE  path # {}
      <3>1. a.from \in 1..Len(log[c]) /\ DocAt(c, a.from, o) # None
        BY <2>4 DEF InBoth
      <3>2. o \in FindResourcePath(c, a.from, a.group, a.namespace, a.name)
        BY <2>4, <3>1 DEF FindResourcePath, Asks, EqualFold
      <3> QED
        BY <3>1, <3>2
    <2> HIDE DEF path
    <2>5. CASE path = {}
      <3>1. Fail("not found")
        BY <2>2, <2>5
      <3>2. /\ DOMAIN req' = Names /\ req'.args = a /\ req'.at = "done"
            /\ req'.out.code # "ok"
        BY <1>1, <3>1, FailFacts
      <3>3. \A o \in Objs : Asks(a, o) => ~InBoth(a, o)
        BY <2>4, <2>5
      <3>4. Right(req.args, req.out)'
        BY <1>1, <3>2, <3>3, ZenonT(30) DEF Right, Asks, InBoth, DocAt, EqualFold
      <3> QED
        BY <3>2, <3>4 DEF DiffInv, Diffing
    <2>6. CASE path # {}
      <3>1. FirstOf(path) \in path
        <4>1. path \subseteq Objs
          BY <2>3 DEF IsFor
        <4> QED
          BY <2>6, <4>1, FirstOfFacts
      <3>2. req' = [req EXCEPT !.at = "from", !.cands = <<Entry(c, idx[c], FirstOf(path))>>]
        BY <2>2, <2>6
      <3>3. /\ DOMAIN req' = Names /\ req'.at = "from" /\ req'.args = a /\ req'.todo = <<c>>
            /\ req'.cands = <<Entry(c, idx[c], FirstOf(path))>>
        BY <1>1, <2>1, <3>2 DEF Names
      <3>4. req'.cands[1].o = FirstOf(path)
        BY <3>3 DEF Entry
      <3>5. IsFor(req.args, req.cands[1].o)'
        BY <2>3, <3>1, <3>3, <3>4 DEF IsFor, EqualFold
      <3> QED
        BY <1>4, <3>3, <3>5 DEF DiffInv, Diffing
    <2> QED
      BY <2>5, <2>6
  <1> QED
    BY <1>2, <1>3, <1>4

LEMMA ReadKeepsDiff ==
  ASSUME DataTypes, DiffInv, ReadVersion
  PROVE  DiffInv'
  <1> DEFINE a == req.args
             c == a.cluster
             p == req.cands[1].o
             n == IF req.at = "from" THEN a.from ELSE a.to
             doc == FileAt(c, n, p)
  <1>1. DOMAIN req = Names /\ req.at \in {"from", "to"} /\ log' = log
    BY DEF DiffInv, ReadVersion, data
  <1>2. CASE req.do # "GetDiff"
    <2>1. DOMAIN req' = Names /\ req'.do = req.do
      BY <1>1, FailFacts DEF ReadVersion, Names
    <2> QED
      BY <1>2, <2>1 DEF DiffInv
  <1>3. CASE req.do = "GetDiff"
    <2>1. /\ c \in Clusters /\ Cluster = c /\ req.todo = <<c>> /\ IsFor(a, p)
          /\ req.at = "to" => /\ a.from \in 1..Len(log[c]) /\ DocAt(c, a.from, p) # None
                              /\ req.all = <<DocAt(c, a.from, p)>>
      BY <1>1, <1>3 DEF DiffInv, Diffing, Cluster
    <2>2. IF doc = None THEN Fail("bad request")
          ELSE IF req.at = "from" THEN req' = [req EXCEPT !.at = "to", !.all = <<doc>>]
          ELSE req' = [req EXCEPT !.at = "done", !.out = Answer("ok", <<req.all[1], doc>>, 2)]
      BY <2>1 DEF ReadVersion
    <2>3. doc # None => n \in 1..Len(log[c]) /\ doc = DocAt(c, n, p)
      BY DEF FileAt
    <2>4. \A o \in Objs : Asks(a, o) => p = o
      BY <2>1, FoundIsAsked
    <2>5. CASE doc = None
      <3>1. /\ DOMAIN req' = Names /\ req'.args = a /\ req'.at = "done"
            /\ req'.out.code # "ok"
        BY <1>1, <2>2, <2>5, FailFacts
      <3>2. \A o \in Objs : Asks(a, o) => ~InBoth(a, o)
        BY <2>4, <2>5 DEF FileAt, InBoth
      <3>3. Right(req.args, req.out)'
        BY <1>1, <3>1, <3>2, ZenonT(30) DEF Right, Asks, InBoth, DocAt, EqualFold
      <3> QED
        BY <3>1, <3>3 DEF DiffInv, Diffing
    <2>6. CASE doc # None /\ req.at = "from"
      <3>1. req' = [req EXCEPT !.at = "to", !.all = <<doc>>]
        BY <2>2, <2>6
      <3>2. /\ DOMAIN req' = Names /\ req'.args = a /\ req'.at = "to" /\ req'.all = <<doc>>
            /\ req'.todo = <<c>> /\ req'.cands = req.cands
        BY <1>1, <2>1, <3>1 DEF Names
      <3>3. a.from \in 1..Len(log[c]) /\ DocAt(c, a.from, p) # None /\ doc = DocAt(c, a.from, p)
        BY <2>3, <2>6
      <3>4. /\ IsFor(req.args, req.cands[1].o)'
            /\ (DocAt(req.args.cluster, req.args.from, req.cands[1].o))' = DocAt(c, a.from, p)
        BY <1>1, <2>1, <3>2 DEF IsFor, EqualFold, DocAt
      <3> QED
        BY <1>1, <2>1, <3>2, <3>3, <3>4 DEF DiffInv, Diffing
    <2>7. CASE doc # None /\ req.at = "to"
      <3>1. req' = [req EXCEPT !.at = "done", !.out = Answer("ok", <<req.all[1], doc>>, 2)]
        BY <2>2, <2>7
      <3>2. /\ DOMAIN req' = Names /\ req'.args = a /\ req'.at = "done"
            /\ req'.out = Answer("ok", <<req.all[1], doc>>, 2)
        BY <1>1, <3>1 DEF Names
      <3>3. /\ a.to \in 1..Len(log[c]) /\ DocAt(c, a.to, p) # None /\ doc = DocAt(c, a.to, p)
            /\ a.from \in 1..Len(log[c]) /\ DocAt(c, a.from, p) # None
            /\ req.all = <<DocAt(c, a.from, p)>>
        BY <2>1, <2>3, <2>7
      <3>4. <<req.all[1], doc>> = <<DocAt(c, a.from, p), DocAt(c, a.to, p)>>
        BY <3>3
      <3>5. req'.out.code = "ok" /\ req'.out.items = <<DocAt(c, a.from, p), DocAt(c, a.to, p)>>
        BY <3>2, <3>4 DEF Answer
      <3>6. Right(req.args, req.out)'
        <4> SUFFICES ASSUME NEW o \in Objs, Asks(req.args, o)'
                     PROVE  /\ InBoth(req.args, o)'
                            /\ req'.out.items = <<DocAt(req.args.cluster, req.args.from, o)',
                                                 DocAt(req.args.cluster, req.args.to, o)'>>
          BY <3>5 DEF Right
        <4>1. p = o
          <5>1. Asks(a, o)
            BY <3>2 DEF Asks, EqualFold
          <5> QED
            BY <2>4, <5>1
        <4>2. /\ DocAt(req.args.cluster, req.args.from, o)' = DocAt(c, a.from, p)
              /\ DocAt(req.args.cluster, req.args.to, o)' = DocAt(c, a.to, p)
          BY <1>1, <3>2, <4>1 DEF DocAt
        <4>3. InBoth(req.args, o)'
          BY <1>1, <3>2, <3>3, <4>2 DEF InBoth
        <4> QED
          BY <3>5, <4>2, <4>3
      <3> QED
        BY <3>2, <3>6 DEF DiffInv, Diffing
    <2> QED
      BY <1>1, <2>5, <2>6, <2>7
  <1> QED
    BY <1>2, <1>3

\* A pull or a build between two reads.
LEMMA ChangesKeepDiff ==
  ASSUME DataTypes, DiffInv, Changes, Grown
  PROVE  DiffInv'
  <1>1. CASE req.at = "done"
    <2>1. DOMAIN req' = Names /\ req'.do = "none"
      BY <1>1 DEF Changes, Idle, Names
    <2> QED
      BY <2>1 DEF DiffInv
  <1>2. CASE req.at # "done"
    <2>1. /\ DOMAIN req' = Names /\ req'.do = req.do /\ req'.at = req.at /\ req'.args = req.args
          /\ req'.todo = req.todo /\ req'.cands = req.cands /\ req'.all = req.all
      BY <1>2 DEF Changes, DiffInv, Names
    <2>2. CASE req.do = "GetDiff"
      <3> DEFINE a == req.args
                 c == a.cluster
                 p == req.cands[1].o
      <3>1. Diffing(req.at, a, req.todo, req.cands, req.all, req.out)
        BY <2>2 DEF DiffInv
      <3>2. req.at \in {"from", "to"} => IsFor(req.args, req.cands[1].o)'
        BY <2>1, <3>1 DEF Diffing, IsFor, EqualFold
      <3>3. c \in Clusters /\ a.from \in 1..Len(log[c]) =>
              a.from \in 1..Len(log'[c]) /\ (DocAt(req.args.cluster, req.args.from, req.cands[1].o))' = DocAt(c, a.from, p)
        <4> SUFFICES ASSUME c \in Clusters, a.from \in 1..Len(log[c])
                     PROVE  /\ a.from \in 1..Len(log'[c])
                            /\ (DocAt(req.args.cluster, req.args.from, req.cands[1].o))' = DocAt(c, a.from, p)
          OBVIOUS
        <4>1. /\ Len(log[c]) \in Nat /\ Len(log'[c]) \in Nat /\ Len(log[c]) <= Len(log'[c])
              /\ log'[c][a.from] = log[c][a.from]
          BY DEF Grown
        <4> QED
          BY <2>1, <4>1 DEF DocAt
      <3>4. req.at = "to" => c \in Clusters /\ a.from \in 1..Len(log[c])
        BY <3>1 DEF Diffing
      <3> QED
        BY <1>2, <2>1, <3>1, <3>2, <3>3, <3>4 DEF Diffing, DiffInv
    <2> QED
      BY <2>1, <2>2 DEF DiffInv
  <1> QED
    BY <1>1, <1>2

LEMMA DiffInvHolds == Spec => [](DataTypes /\ DiffInv)
  <1>1. Init => DataTypes /\ DiffInv
    BY InitData DEF Init, DiffInv, Idle, Names
  <1>2. ASSUME DataTypes, DiffInv, [Next]_vars
        PROVE  (DataTypes /\ DiffInv)'
    <2>1. DataTypes' /\ Grown
      BY <1>2, DataStep
    <2>2. ASSUME NEW c \in Clusters, Pull(c) \/ BuildIndex(c) \/ BuildHistory(c) PROVE DiffInv'
      BY <1>2, <2>1, <2>2, ChangesKeepDiff DEF Pull, BuildIndex, BuildHistory
    <2>3. ASSUME UNCHANGED vars PROVE DiffInv'
      <3>1. req' = req /\ log' = log
        BY <2>3 DEF vars
      <3>2. Right(req.args, req.out)' <=> Right(req.args, req.out)
        BY <3>1 DEF Right, Asks, InBoth, DocAt, EqualFold
      <3>3. IsFor(req.args, req.cands[1].o)' <=> IsFor(req.args, req.cands[1].o)
        BY <3>1 DEF IsFor, EqualFold
      <3>4. (DocAt(req.args.cluster, req.args.from, req.cands[1].o))'
              = DocAt(req.args.cluster, req.args.from, req.cands[1].o)
        BY <3>1 DEF DocAt
      <3> QED
        BY <1>2, <3>1, <3>2, <3>3, <3>4 DEF DiffInv, Diffing
    <2>4. CASE Next
      BY <1>2, <2>1, <2>2, <2>4, ReceiveKeepsDiff, OthersKeepDiff, LookupKeepsDiff, ReadKeepsDiff DEF Next
    <2> QED
      BY <1>2, <2>1, <2>3, <2>4
  <1> QED
    BY <1>1, <1>2, PTL DEF Spec

\* A diff is of the resource asked for and of the two commits, and there is
\* one whenever the resource is in both, whatever is pulled and indexed between
\* the lookup and the two reads (Server.GetDiff), for all clusters, histories
\* and requests.
THEOREM DiffOfCommits == Spec => []DiffIsOfTheCommits
  BY DiffInvHolds, DiffInvMeans, PTL

-----------------------------------------------------------------------------
(* What is answered while nothing changes is a function of the data *)

\* The clusters a call visits.
Visited(op, a) == IF op = "ListClusters" THEN <<>> ELSE Resolve(op, a.cluster)

\* The candidates of a query of a cluster, and those it keeps.
Candidates(a, c) == Entries(c, idx[c], Filtered(c, a))
Meets(a, x) == EvalResource(a.cel, x) = "true" /\ Named(a, x.o)
Kept(a, c, j) == SubSeqAt(Candidates(a, c), {i \in 1..j : Meets(a, Candidates(a, c)[i])})

\* What the visit of a cluster adds to the answer.
Part(op, a, c) ==
  CASE op = "GetStatus" -> <<[c |-> c, pulled |-> hist[c] # 0,
                              count |-> Cardinality({o \in Objs : DocAt(c, hist[c], o) # None})]>>
    [] op = "Healthz"   -> <<>>
    [] op = "ListGVKs"  -> <<GVKs(c, a.namespace)>>
    [] op = "ListNamespaces" -> <<Namespaces(c)>>
    [] op = "GetCurrentSnapshot" ->
         IF a.cel = NoCel THEN Entries(c, idx[c], WithName(a, Filtered(c, a)))
                          ELSE Kept(a, c, Len(Candidates(a, c)))
    [] op = "GetHistoricalSnapshot" ->
         Entries(c, FindBefore(c, a.datetime), AtCommit(c, FindBefore(c, a.datetime), a))
    [] op = "GetHistory" -> QueryEvents(c, a)
    [] op = "GetVolatility" ->
         <<{e \in Volatility(c, a) : e.count * 100 >= a.threshold * e.total}>>
    [] OTHER -> <<FieldVolatility(c, a)>>
Parts(op, a)    == [i \in 1..Len(Visited(op, a)) |-> Part(op, a, Visited(op, a)[i])]
Gathered(op, a) == Chained(Parts(op, a), Len(Visited(op, a)))

\* The call ends with an error at cluster c.
Refusing(op, a, c) ==
  \/ op = "Healthz" /\ hist[c] = 0
  \/ /\ op = "GetCurrentSnapshot" /\ a.cel # NoCel
     /\ \/ a.cel = Bad
        \/ \E i \in 1..Len(Candidates(a, c)) :
             EvalResource(a.cel, Candidates(a, c)[i]) \notin {"true", "false"}
Refused(op, a) == \E i \in 1..Len(Visited(op, a)) : Refusing(op, a, Visited(op, a)[i])

\* The file GetResource and GetDiff look at, and what they read of it.
Path(op, a) ==
  LET c == a.cluster
  IN IF Get(c, a) # {} THEN Get(c, a)
     ELSE IF op = "GetDiff" /\ a.from \in 1..Len(log[c])
     THEN FindResourcePath(c, a.from, a.group, a.namespace, a.name) ELSE {}
Texts(op, a) ==
  LET c == a.cluster
      o == FirstOf(Path(op, a))
  IN IF op = "GetDiff" THEN <<FileAt(c, a.from, o), FileAt(c, a.to, o)>> ELSE <<OnDisk(c, o)>>
NoText(op, a) ==
  \/ a.cluster \notin Clusters \/ Path(op, a) = {}
  \/ \E i \in 1..Len(Texts(op, a)) : Texts(op, a)[i] = None

OneFile == {"GetResource", "GetDiff"}

\* r is answered as the data say.
Answered(r) ==
  LET op == r.do  a == r.args  out == r.out
  IN IF op \in OneFile
     THEN IF NoText(op, a) THEN out.code # "ok" /\ out.items = <<>>
          ELSE out.code = "ok" /\ out.items = Texts(op, a)
     ELSE IF Refused(op, a) THEN out.code # "ok" /\ out.items = <<>>
          ELSE \E e \in Results(op, a, Gathered(op, a)) :
                 out = Answer(e.code, Encode(op, e.items), e.total)

\* The first k clusters are visited.
Reached(r, k) ==
  LET cs == Visited(r.do, r.args)
  IN /\ r.todo = SubSeq(cs, k + 1, Len(cs))
     /\ \A i \in 1..k : ~Refusing(r.do, r.args, cs[i])

\* ... and the first j candidates of the next are tried.
Tried(r, k, j) ==
  LET cs == Visited(r.do, r.args)
      cands == Candidates(r.args, cs[k])
  IN /\ r.do = "GetCurrentSnapshot" /\ r.args.cel \notin {NoCel, Bad}
     /\ r.todo = SubSeq(cs, k + 1, Len(cs))
     /\ \A i \in 1..(k - 1) : ~Refusing(r.do, r.args, cs[i])
     /\ r.cands = SubSeq(cands, j + 1, Len(cands))
     /\ r.all = Chained(Parts(r.do, r.args), k - 1) \o Kept(r.args, cs[k], j)
     /\ \A i \in 1..j : EvalResource(r.args.cel, cands[i]) \in {"true", "false"}

\* Where a request r is that met no change.
Progress(r) ==
  /\ r.at \in {"visit", "eval", "lookup", "read", "from", "to", "done"}
  /\ r.at \in {"visit", "eval"} => r.do \notin OneFile
  /\ r.at = "visit" => \E k \in 0..Len(Visited(r.do, r.args)) :
                        Reached(r, k) /\ r.all = Chained(Parts(r.do, r.args), k)
  /\ r.at = "eval" => \E k \in 1..Len(Visited(r.do, r.args)) :
                        \E j \in 0..Len(Candidates(r.args, Visited(r.do, r.args)[k])) : Tried(r, k, j)
  /\ r.at = "lookup" => r.do \in OneFile /\ r.todo = Visited(r.do, r.args)
  /\ r.at \in {"read", "from", "to"} =>
       /\ r.do = IF r.at = "read" THEN "GetResource" ELSE "GetDiff"
       /\ r.args.cluster \in Clusters /\ Path(r.do, r.args) # {}
       /\ r.todo = <<r.args.cluster>> /\ r.cands[1].o = FirstOf(Path(r.do, r.args))
  /\ r.at = "to" => /\ r.all = <<FileAt(r.args.cluster, r.args.from, r.cands[1].o)>>
                    /\ FileAt(r.args.cluster, r.args.from, r.cands[1].o) # None
  /\ r.at = "done" => Answered(r)

\* r is a request that was made.
Asked(r) ==
  /\ r.ask \in Requests
  /\ r.do = Dispatch(r.ask).do /\ r.args = Dispatch(r.ask).args

SteadyInv ==
  /\ \A r \in {req} :
       /\ DOMAIN r = Names
       /\ r.at # "idle" => Asked(r)
       /\ (r.at # "idle" /\ r.steady /\ r.do # "reply") => Progress(r)
  /\ \A r \in {prev} : r.at = "done" =>
       Asked(r) /\ r.do # "reply" /\ Answered(r)

LEMMA SameData ==
  ASSUME UNCHANGED data
  PROVE  \A r : (Progress(r)' <=> Progress(r)) /\ (Answered(r)' <=> Answered(r))
  <1>1. log' = log /\ idx' = idx /\ hist' = hist
    BY DEF data
  <1>2. \A c, n, o : DocAt(c, n, o)' = DocAt(c, n, o)
    BY <1>1 DEF DocAt
  <1>3. \A c, o : OnDisk(c, o)' = OnDisk(c, o)
    BY <1>1, <1>2 DEF OnDisk
  <1>4. \A c : Listed(c)' = Listed(c)
    BY <1>1, <1>2 DEF Listed
  <1>5. \A c, a : Filtered(c, a)' = Filtered(c, a)
    BY <1>4 DEF Filtered
  <1>6. \A c, a : Get(c, a)' = Get(c, a)
    BY <1>4 DEF Get
  <1>7. \A c, n : GVKs(c, n)' = GVKs(c, n)
    BY <1>4 DEF GVKs
  <1>8. \A c : Namespaces(c)' = Namespaces(c)
    BY <1>4 DEF Namespaces
  <1>9. \A c, v, o : ObjectMap(c, v, o)' = ObjectMap(c, v, o)
    BY <1>2 DEF ObjectMap
  <1>10. \A e, x : EvalResource(e, x)' = EvalResource(e, x)
    BY <1>3, <1>9 DEF EvalResource
  <1>11. \A c, t : FindBefore(c, t)' = FindBefore(c, t)
    BY <1>1 DEF FindBefore
  <1>12. \A c, n, a : AtCommit(c, n, a)' = AtCommit(c, n, a)
    BY <1>2 DEF AtCommit
  <1>13. \A c, n : Changed(c, n)' = Changed(c, n)
    BY <1>2 DEF Changed
  <1>14. \A c, n, o : EventOf(c, n, o)' = EventOf(c, n, o)
    BY <1>1, <1>2, ZenonT(30) DEF EventOf
  <1>15. \A c, n : EventsOf(c, n)' = EventsOf(c, n)
    BY <1>13, <1>14 DEF EventsOf
  <1>16. \A c : Events(c)' = Events(c)
    BY <1>1, <1>15 DEF Events
  <1>17. \A c, a : QueryEvents(c, a)' = QueryEvents(c, a)
    BY <1>16 DEF QueryEvents
  <1>18. \A c, a : Volatility(c, a)' = Volatility(c, a)
    <2> TAKE c, a
    <2> DEFINE events  == QueryEvents(c, [NoArgs EXCEPT !.group = a.group, !.kind = a.kind,
                                            !.namespace = a.namespace, !.name = a.name])
               commits == {e.n : e \in Range(events)}
               newest  == {n \in commits : a.commits <= 0
                                            \/ Cardinality({m \in commits : m >= n}) <= a.commits}
               total   == IF a.commits <= 0 THEN 0 ELSE Min({Cardinality(commits), a.commits + 1})
               seen    == {e \in Range(events) : e.n \in newest}
               at(k)   == {n \in newest : \E e \in seen : e.n = n /\ Key(e) = k}
               counts  == {[c |-> c, key |-> k, count |-> Cardinality(at(k)), total |-> total] :
                             k \in {Key(e) : e \in seen}}
    <2>1. events' = events
      BY <1>17
    <2>2. Volatility(c, a) = counts /\ Volatility(c, a)' = counts'
      BY DEF Volatility
    <2> HIDE DEF events
    <2>3. commits' = commits
      BY <2>1
    <2> HIDE DEF commits
    <2>4. newest' = newest /\ total' = total
      BY <2>3
    <2> HIDE DEF newest, total
    <2>5. seen' = seen
      BY <2>1, <2>4
    <2> HIDE DEF seen
    <2>6. (\A k : at(k)' = at(k)) /\ {Key(e) : e \in seen}' = {Key(e) : e \in seen}
      BY <2>4, <2>5 DEF Key
    <2> HIDE DEF at
    <2>7. counts' = counts
      BY <2>4, <2>6
    <2> QED
      BY <2>2, <2>7
  <1>19. \A c, n, g, s, m : FindResourcePath(c, n, g, s, m)' = FindResourcePath(c, n, g, s, m)
    BY <1>2 DEF FindResourcePath
  <1>20. \A e : ChangedFields(e)' = ChangedFields(e)
    BY <1>2, <1>19 DEF ChangedFields
  <1>21. \A c, a : FieldVolatility(c, a)' = FieldVolatility(c, a)
    <2> TAKE c, a
    <2> DEFINE events == QueryEvents(c, [NoArgs EXCEPT !.group = a.group, !.kind = a.kind,
                                           !.namespace = a.namespace, !.name = a.name])
               limit  == IF a.commits > 0 THEN Min({a.commits, Len(events)}) ELSE Len(events)
               seen   == {i \in DOMAIN events : i > Len(events) - limit}
               counts == {[field |-> f, count |-> Cardinality({i \in seen : f \in ChangedFields(events[i])}),
                           total |-> limit] : f \in UNION {ChangedFields(events[i]) : i \in seen}}
    <2>1. events' = events
      BY <1>17
    <2>2. FieldVolatility(c, a) = counts /\ FieldVolatility(c, a)' = counts'
      BY DEF FieldVolatility
    <2> HIDE DEF events
    <2>3. limit' = limit
      BY <2>1
    <2> HIDE DEF limit
    <2>4. seen' = seen
      BY <2>1, <2>3
    <2> HIDE DEF seen
    <2>5. (UNION {ChangedFields(events[i]) : i \in seen})' = UNION {ChangedFields(events[i]) : i \in seen}
      BY <1>20, <2>1, <2>4
    <2>6. \A f : {i \in seen : f \in ChangedFields(events[i])}' = {i \in seen : f \in ChangedFields(events[i])}
      BY <1>20, <2>1, <2>4
    <2>7. counts' = counts
      BY <2>3, <2>5, <2>6
    <2> QED
      BY <2>2, <2>7
  <1>22. \A c, n, o : FileAt(c, n, o)' = FileAt(c, n, o)
    BY <1>1, <1>2 DEF FileAt
  <1>23. \A a, c : Candidates(a, c)' = Candidates(a, c)
    BY <1>1, <1>5 DEF Candidates
  <1>24. \A a, x : Meets(a, x)' <=> Meets(a, x)
    BY <1>10 DEF Meets
  <1>25. \A a, c, j : Kept(a, c, j)' = Kept(a, c, j)
    BY <1>23, <1>24 DEF Kept
  <1>26. \A op, a, c : Part(op, a, c)' = Part(op, a, c)
    <2> TAKE op, a, c
    <2>1. {o \in Objs : DocAt(c, hist[c], o) # None}' = {o \in Objs : DocAt(c, hist[c], o) # None}
      BY <1>1, <1>2
    <2>2. {e \in Volatility(c, a) : e.count * 100 >= a.threshold * e.total}'
            = {e \in Volatility(c, a) : e.count * 100 >= a.threshold * e.total}
      BY <1>18
    <2> QED
      BY <1>1, <1>5, <1>7, <1>8, <1>11, <1>12, <1>17, <1>21, <1>23, <1>25, <2>1, <2>2, Zenon DEF Part
  <1>27. \A op, a : Parts(op, a)' = Parts(op, a)
    BY <1>26 DEF Parts
  <1>28. \A op, a : Gathered(op, a)' = Gathered(op, a)
    BY <1>27 DEF Gathered
  <1>29. \A op, a, c : Refusing(op, a, c)' <=> Refusing(op, a, c)
    BY <1>1, <1>10, <1>23 DEF Refusing
  <1>30. \A op, a : Refused(op, a)' <=> Refused(op, a)
    BY <1>29 DEF Refused
  <1>31. \A op, a : Path(op, a)' = Path(op, a)
    BY <1>1, <1>6, <1>19 DEF Path
  <1>32. \A op, a : Texts(op, a)' = Texts(op, a)
    BY <1>3, <1>22, <1>31 DEF Texts
  <1>33. \A op, a : NoText(op, a)' <=> NoText(op, a)
    BY <1>31, <1>32 DEF NoText
  <1>34. \A r : Answered(r)' <=> Answered(r)
    BY <1>28, <1>30, <1>32, <1>33 DEF Answered
  <1>35. \A r, k : Reached(r, k)' <=> Reached(r, k)
    BY <1>29 DEF Reached
  <1>36. \A r, k, j : Tried(r, k, j)' <=> Tried(r, k, j)
    <2> TAKE r, k, j
    <2> DEFINE cs == Visited(r.do, r.args)
    <2>1. Candidates(r.args, cs[k])' = Candidates(r.args, cs[k]) /\ Kept(r.args, cs[k], j)' = Kept(r.args, cs[k], j)
      BY <1>23, <1>25
    <2>2. \A i : Refusing(r.do, r.args, cs[i])' <=> Refusing(r.do, r.args, cs[i])
      BY <1>29
    <2>3. \A i : EvalResource(r.args.cel, Candidates(r.args, cs[k])[i])' = EvalResource(r.args.cel, Candidates(r.args, cs[k])[i])
      BY <1>10, <2>1
    <2> HIDE DEF cs
    <2> QED
      BY <1>27, <2>1, <2>2, <2>3 DEF Tried, cs
  <1>37. \A r : Progress(r)' <=> Progress(r)
    BY <1>22, <1>23, <1>27, <1>31, <1>34, <1>35, <1>36 DEF Progress
  <1> QED
    BY <1>34, <1>37

LEMMA VisitedFacts ==
  ASSUME NEW op, NEW a
  PROVE  /\ Visited(op, a) \in Seq(Clusters) /\ Len(Visited(op, a)) \in Nat
         /\ op \in OneFile => Visited(op, a) = IF a.cluster \in Clusters THEN <<a.cluster>> ELSE <<>>
  <1>1. Visited(op, a) \in {<<>>, ClusterNames} \/ (a.cluster \in Clusters /\ Visited(op, a) = <<a.cluster>>)
    BY DEF Visited, Resolve
  <1>2. ClusterNames \in Seq(Clusters)
    BY ApiConstants
  <1>3. Visited(op, a) \in Seq(Clusters)
    <2>1. <<>> \in Seq(Clusters)
      OBVIOUS
    <2>2. a.cluster \in Clusters => <<a.cluster>> \in Seq(Clusters)
      OBVIOUS
    <2> QED
      BY <1>1, <1>2, <2>1, <2>2
  <1>4. Len(Visited(op, a)) \in Nat
    BY <1>3
  <1>5. op \in OneFile => Visited(op, a) = IF a.cluster \in Clusters THEN <<a.cluster>> ELSE <<>>
    BY DEF Visited, Resolve, OneFile
  <1> QED
    BY <1>3, <1>4, <1>5

LEMMA FilteredFacts ==
  ASSUME NEW c, NEW a
  PROVE  Filtered(c, a) \in Seq(Objs)
  <1> DEFINE keep == {i \in DOMAIN WalkOrder : WalkOrder[i] \in Listed(c) /\ Passes(a, WalkOrder[i])}
  <1>1. WalkOrder \in Seq(Objs) /\ keep \in SUBSET (1..Len(WalkOrder))
    BY ApiConstants
  <1>2. Filtered(c, a) = SubSeqAt(WalkOrder, keep)
    BY DEF Filtered
  <1> HIDE DEF keep
  <1> QED
    BY <1>1, <1>2, SubSeqAtSeq

\* The resources of an answer.
Entered == [c : Clusters, v : Nat, o : Objs]

LEMMA CandidatesFacts ==
  ASSUME DataTypes, NEW c \in Clusters, NEW a
  PROVE  /\ Candidates(a, c) \in Seq(Entered)
         /\ Len(Candidates(a, c)) = Len(Filtered(c, a))
         /\ \A i \in 1..Len(Filtered(c, a)) : Candidates(a, c)[i] = Entry(c, idx[c], Filtered(c, a)[i])
  <1> DEFINE f == Filtered(c, a)
  <1>1. f \in Seq(Objs) /\ DOMAIN f = 1..Len(f) /\ Len(f) \in Nat
    BY FilteredFacts
  <1>2. idx[c] \in Nat
    BY LogLengths DEF DataTypes
  <1>3. Candidates(a, c) = [i \in 1..Len(f) |-> Entry(c, idx[c], f[i])]
    BY <1>1 DEF Candidates, Entries
  <1>4. \A i \in 1..Len(f) : Entry(c, idx[c], f[i]) \in Entered
    BY <1>1, <1>2 DEF Entry, Entered
  <1> HIDE DEF f
  <1>5. Candidates(a, c) \in Seq(Entered) /\ Len(Candidates(a, c)) = Len(f)
    BY <1>1, <1>3, <1>4
  <1> QED
    BY <1>3, <1>5 DEF f

LEMMA KeptFacts ==
  ASSUME DataTypes, NEW c \in Clusters, NEW a, NEW j \in 0..Len(Candidates(a, c))
  PROVE  /\ Kept(a, c, j) \in Seq(Entered)
         /\ Kept(a, c, 0) = <<>>
         /\ j + 1 \in 1..Len(Candidates(a, c)) =>
              Kept(a, c, j + 1) = IF Meets(a, Candidates(a, c)[j + 1])
                                  THEN Append(Kept(a, c, j), Candidates(a, c)[j + 1])
                                  ELSE Kept(a, c, j)
  <1> DEFINE s == Candidates(a, c)
             keep(m) == {i \in 1..m : Meets(a, s[i])}
  <1>1. s \in Seq(Entered) /\ Len(s) \in Nat /\ j \in Nat /\ j <= Len(s)
    BY CandidatesFacts
  <1>2. \A m : Kept(a, c, m) = SubSeqAt(s, keep(m))
    BY DEF Kept
  <1>3. keep(0) = {} /\ keep(j) \in SUBSET (1..j) /\ keep(j) \in SUBSET (1..Len(s))
    BY <1>1
  <1>4. keep(j + 1) = IF Meets(a, s[j + 1]) THEN keep(j) \cup {j + 1} ELSE keep(j)
    <2>1. \A i : i \in 1..(j + 1) <=> i \in 1..j \/ i = j + 1
      BY <1>1
    <2> QED
      BY <2>1
  <1> HIDE DEF s, keep
  <1>5. Kept(a, c, j) \in Seq(Entered)
    <2>1. SubSeqAt(s, keep(j)) \in Seq(Entered)
      <3>1. PICK kp : kp = keep(j)
        OBVIOUS
      <3>2. kp \in SUBSET (1..Len(s))
        BY <1>3, <3>1
      <3>3. SubSeqAt(s, kp) \in Seq(Entered)
        BY <1>1, <3>2, SubSeqAtSeq
      <3> QED
        BY <3>1, <3>3
    <2> QED
      BY <1>2, <2>1
  <1>6. Kept(a, c, 0) = <<>>
    BY <1>2, <1>3, SubSeqAtNone
  <1>7. CASE Meets(a, s[j + 1])
    <2>1. SubSeqAt(s, keep(j) \cup {j + 1}) = Append(SubSeqAt(s, keep(j)), s[j + 1])
      <3>1. PICK kp : kp = keep(j)
        OBVIOUS
      <3>2. kp \in SUBSET (1..j)
        BY <1>3, <3>1
      <3>3. SubSeqAt(s, kp \cup {j + 1}) = Append(SubSeqAt(s, kp), s[j + 1])
        BY <1>1, <3>2, SubSeqAtAppend
      <3> QED
        BY <3>1, <3>3
    <2> QED
      BY <1>2, <1>4, <1>5, <1>6, <1>7, <2>1 DEF s
  <1>8. CASE ~Meets(a, s[j + 1])
    BY <1>2, <1>4, <1>5, <1>6, <1>8 DEF s
  <1> QED
    BY <1>7, <1>8

LEMMA DoneIsProgress ==
  ASSUME NEW s, s.at = "done", Answered(s)
  PROVE  Progress(s)
  BY DEF Progress

\* The next cluster of a request that is visiting.
LEMMA NextVisited ==
  ASSUME NEW r, Progress(r), r.at = "visit"
  PROVE  \E k \in 0..Len(Visited(r.do, r.args)) :
           /\ Reached(r, k) /\ r.all = Chained(Parts(r.do, r.args), k)
           /\ r.todo = <<>> => k = Len(Visited(r.do, r.args))
           /\ r.todo # <<>> =>
                LET cs == Visited(r.do, r.args)
                IN /\ k + 1 \in 1..Len(cs) /\ k + 1 \in 0..Len(cs) /\ cs[k + 1] \in Clusters
                   /\ Head(r.todo) = cs[k + 1] /\ Tail(r.todo) = SubSeq(cs, (k + 1) + 1, Len(cs))
  <1>1. PICK k \in 0..Len(Visited(r.do, r.args)) : Reached(r, k) /\ r.all = Chained(Parts(r.do, r.args), k)
    BY DEF Progress
  <1>2. Visited(r.do, r.args) \in Seq(Clusters)
    BY VisitedFacts
  <1>3. r.todo = SubSeq(Visited(r.do, r.args), k + 1, Len(Visited(r.do, r.args)))
    BY <1>1 DEF Reached
  <1>4. PICK cs : cs = Visited(r.do, r.args)
    OBVIOUS
  <1>5. /\ r.todo = <<>> => k = Len(cs)
        /\ r.todo # <<>> => /\ k + 1 \in 1..Len(cs) /\ k + 1 \in 0..Len(cs)
                            /\ Head(r.todo) = cs[k + 1] /\ Tail(r.todo) = SubSeq(cs, (k + 1) + 1, Len(cs))
    BY <1>2, <1>3, <1>4, SuffixFacts
  <1>6. k + 1 \in 1..Len(cs) => cs[k + 1] \in Clusters
    BY <1>2, <1>4
  <1> QED
    BY <1>1, <1>4, <1>5, <1>6

LEMMA CollectSteady ==
  ASSUME NEW r, DOMAIN r = Names, Progress(r), r.at = "visit", r.todo # <<>>,
         ~Refusing(r.do, r.args, Head(r.todo)),
         NEW s, s = [r EXCEPT !.todo = Tail(@), !.all = @ \o Part(r.do, r.args, Head(r.todo))]
  PROVE  Progress(s)
  <1>1. PICK cs : cs = Visited(r.do, r.args)
    OBVIOUS
  <1>2. PICK k \in 0..Len(cs) :
           /\ Reached(r, k) /\ r.all = Chained(Parts(r.do, r.args), k)
           /\ k + 1 \in 1..Len(cs) /\ k + 1 \in 0..Len(cs)
           /\ Head(r.todo) = cs[k + 1] /\ Tail(r.todo) = SubSeq(cs, (k + 1) + 1, Len(cs))
    BY <1>1, NextVisited
  <1>3. Len(cs) \in Nat /\ k \in Nat
    BY <1>1, <1>2, VisitedFacts
  <1>4. /\ s.do = r.do /\ s.args = r.args /\ s.at = "visit"
        /\ s.todo = Tail(r.todo) /\ s.all = r.all \o Part(r.do, r.args, Head(r.todo))
    BY DEF Names
  <1>5. Parts(r.do, r.args)[k + 1] = Part(r.do, r.args, cs[k + 1])
    BY <1>1, <1>2 DEF Parts
  <1>6. s.all = Chained(Parts(s.do, s.args), k + 1)
    <2>1. Chained(Parts(r.do, r.args), k + 1) = Chained(Parts(r.do, r.args), k) \o Parts(r.do, r.args)[k + 1]
      BY <1>3, ChainedFacts
    <2> QED
      BY <1>2, <1>4, <1>5, <2>1
  <1>7. Reached(s, k + 1)
    <2>1. \A i \in 1..k : ~Refusing(r.do, r.args, cs[i])
      BY <1>1, <1>2 DEF Reached
    <2>2. ~Refusing(r.do, r.args, cs[k + 1])
      BY <1>2
    <2>3. \A i \in 1..(k + 1) : i \in 1..k \/ i = k + 1
      BY <1>3
    <2>4. \A i \in 1..(k + 1) : ~Refusing(r.do, r.args, cs[i])
      BY <2>1, <2>2, <2>3
    <2> QED
      BY <1>1, <1>2, <1>4, <2>4 DEF Reached
  <1>8. s.do \notin OneFile
    BY <1>4 DEF Progress
  <1>9. \E j \in 0..Len(Visited(s.do, s.args)) : Reached(s, j) /\ s.all = Chained(Parts(s.do, s.args), j)
    BY <1>1, <1>2, <1>4, <1>6, <1>7
  <1> QED
    BY <1>4, <1>8, <1>9 DEF Progress

LEMMA RefuseSteady ==
  ASSUME NEW r, NEW s, r.do \notin OneFile, s.do = r.do, s.args = r.args, s.at = "done",
         s.out.code # "ok", s.out.items = <<>>, Refused(r.do, r.args)
  PROVE  Progress(s)
  BY DEF Progress, Answered

LEMMA FailAtVisit ==
  ASSUME NEW r, Progress(r), r.at = "visit", r.todo # <<>>,
         Refusing(r.do, r.args, Head(r.todo)),
         NEW s, s.do = r.do, s.args = r.args, s.at = "done", s.out.code # "ok", s.out.items = <<>>
  PROVE  Progress(s)
  <1>1. PICK k \in 0..Len(Visited(r.do, r.args)) :
           /\ k + 1 \in 1..Len(Visited(r.do, r.args)) /\ Head(r.todo) = Visited(r.do, r.args)[k + 1]
    BY NextVisited
  <1>2. Refused(r.do, r.args)
    BY <1>1 DEF Refused
  <1>3. r.do \notin OneFile
    BY DEF Progress
  <1> QED
    BY <1>2, <1>3, RefuseSteady

\* The fields of a request after the actions' two ways on.
LEMMA FailSets ==
  ASSUME DOMAIN req = Names, NEW code, code # "ok", Fail(code)
  PROVE  /\ DOMAIN req' = Names /\ req'.do = req.do /\ req'.args = req.args /\ req'.ask = req.ask
         /\ req'.steady = req.steady
         /\ req'.at = "done" /\ req'.out.code # "ok" /\ req'.out.items = <<>>
  BY DEF Fail, Names, Answer

LEMMA CollectSets ==
  ASSUME DOMAIN req = Names, NEW more, Collect(more)
  PROVE  /\ DOMAIN req' = Names /\ req'.do = req.do /\ req'.args = req.args /\ req'.ask = req.ask
         /\ req'.steady = req.steady /\ req'.at = req.at
         /\ req' = [req EXCEPT !.todo = Tail(@), !.all = @ \o more]
  BY DEF Collect, Names

Visits == \/ VisitStatus \/ VisitHealthz \/ VisitGVKs \/ VisitNamespaces \/ VisitList \/ VisitPast
          \/ VisitHistory \/ VisitVolatility \/ VisitFields

\* A visit adds what Part says, or fails where Refusing says.
LEMMA VisitAdds ==
  ASSUME Visits
  PROVE  /\ req.at = "visit" /\ req.todo # <<>>
         /\ \/ Collect(Part(req.do, req.args, Head(req.todo))) /\ ~Refusing(req.do, req.args, Head(req.todo))
            \/ Fail("unavailable") /\ Refusing(req.do, req.args, Head(req.todo))
  <1>1. CASE VisitHealthz
    BY <1>1 DEF VisitHealthz, Visiting, Cluster, Part, Refusing
  <1>2. CASE VisitStatus
    BY <1>2, Zenon DEF VisitStatus, Visiting, Cluster, Part, Refusing
  <1>3. CASE VisitList
    BY <1>3 DEF VisitList, Visiting, Cluster, Part, Refusing
  <1>4. CASE VisitGVKs \/ VisitNamespaces
    BY <1>4 DEF VisitGVKs, VisitNamespaces, Visiting, Cluster, Part, Refusing
  <1>5. CASE VisitPast
    BY <1>5 DEF VisitPast, Visiting, Cluster, Part, Refusing
  <1>6. CASE VisitHistory
    BY <1>6 DEF VisitHistory, Visiting, Cluster, Part, Refusing
  <1>7. CASE VisitVolatility
    BY <1>7, Zenon DEF VisitVolatility, Visiting, Cluster, Part, Refusing
  <1>8. CASE VisitFields
    BY <1>8 DEF VisitFields, Visiting, Cluster, Part, Refusing
  <1> QED
    BY <1>1, <1>2, <1>3, <1>4, <1>5, <1>6, <1>7, <1>8 DEF Visits

LEMMA VisitSteady ==
  ASSUME NEW r, r = req, NEW s, s = req', DOMAIN r = Names, Progress(r), Visits
  PROVE  Progress(s)
  <1>1. r.at = "visit" /\ r.todo # <<>>
    BY VisitAdds
  <1>2. PICK p, refusing : /\ p = Part(r.do, r.args, Head(r.todo)) /\ refusing \in BOOLEAN
                             /\ refusing = Refusing(r.do, r.args, Head(r.todo))
    <2>1. Refusing(r.do, r.args, Head(r.todo)) \in BOOLEAN
      BY Zenon DEF Refusing
    <2> QED
      BY <2>1, Zenon
  <1>3. (Collect(p) /\ ~refusing) \/ (Fail("unavailable") /\ refusing)
    BY <1>2, VisitAdds
  <1>4. CASE Collect(p) /\ ~refusing
    <2>1. s = [r EXCEPT !.todo = Tail(@), !.all = @ \o Part(r.do, r.args, Head(r.todo))]
      BY <1>2, <1>4, CollectSets
    <2> QED
      BY <1>1, <1>2, <1>4, <2>1, CollectSteady
  <1>5. CASE Fail("unavailable") /\ refusing
    <2>1. s.do = r.do /\ s.args = r.args /\ s.at = "done" /\ s.out.code # "ok" /\ s.out.items = <<>>
      BY <1>5, FailSets
    <2> QED
      BY <1>1, <1>2, <1>5, <2>1, FailAtVisit
  <1> QED
    BY <1>3, <1>4, <1>5

LEMMA QueryChained ==
  ASSUME DataTypes, NEW a, a.cel # NoCel,
         NEW k \in 0..Len(Visited("GetCurrentSnapshot", a))
  PROVE  Chained(Parts("GetCurrentSnapshot", a), k) \in Seq(Entered)
  <1>1. PICK cs : cs = Visited("GetCurrentSnapshot", a)
    OBVIOUS
  <1>2. cs \in Seq(Clusters) /\ Len(cs) \in Nat
    BY <1>1, VisitedFacts
  <1>3. \A i \in 1..Len(cs) :
          Parts("GetCurrentSnapshot", a)[i] = Kept(a, cs[i], Len(Candidates(a, cs[i])))
    BY <1>1 DEF Parts, Part
  <1>4. ASSUME NEW i \in 1..Len(cs) PROVE Parts("GetCurrentSnapshot", a)[i] \in Seq(Entered)
    <2>1. cs[i] \in Clusters
      BY <1>2
    <2>2. Len(Candidates(a, cs[i])) \in Nat
      BY <2>1, CandidatesFacts
    <2>3. Kept(a, cs[i], Len(Candidates(a, cs[i]))) \in Seq(Entered)
      BY <2>1, <2>2, KeptFacts
    <2> QED
      BY <1>3, <2>3
  <1>5. \A l \in 0..Len(cs) : Chained(Parts("GetCurrentSnapshot", a), l) \in Seq(Entered)
    BY <1>2, <1>4, ChainedSeq
  <1> QED
    BY <1>1, <1>5

LEMMA QuerySteady ==
  ASSUME DataTypes, NEW r, r = req, NEW s, s = req', DOMAIN r = Names, Progress(r), VisitQuery
  PROVE  Progress(s)
  <1>1. /\ r.at = "visit" /\ r.todo # <<>> /\ r.do = "GetCurrentSnapshot" /\ r.args.cel # NoCel
        /\ IF r.args.cel = Bad THEN Fail("bad request")
           ELSE s = [r EXCEPT !.at = "eval", !.todo = Tail(@), !.cands = Candidates(r.args, Head(r.todo))]
    BY DEF VisitQuery, Visiting, Cluster, Candidates
  <1>2. CASE r.args.cel = Bad
    <2>1. s.do = r.do /\ s.args = r.args /\ s.at = "done" /\ s.out.code # "ok" /\ s.out.items = <<>>
      BY <1>1, <1>2, FailSets
    <2>2. Refusing(r.do, r.args, Head(r.todo))
      BY <1>1, <1>2 DEF Refusing
    <2> QED
      BY <1>1, <2>1, <2>2, FailAtVisit
  <1>3. CASE r.args.cel # Bad
    <2>1. PICK cs : cs = Visited(r.do, r.args)
      OBVIOUS
    <2>2. PICK k \in 0..Len(cs) :
             /\ Reached(r, k) /\ r.all = Chained(Parts(r.do, r.args), k)
             /\ k + 1 \in 1..Len(cs) /\ cs[k + 1] \in Clusters
             /\ Head(r.todo) = cs[k + 1] /\ Tail(r.todo) = SubSeq(cs, (k + 1) + 1, Len(cs))
      BY <1>1, <2>1, NextVisited
    <2>3. Len(cs) \in Nat /\ k \in Nat /\ k + 1 - 1 = k
      BY <2>1, <2>2, VisitedFacts
    <2>4. /\ s.do = r.do /\ s.args = r.args /\ s.at = "eval" /\ s.todo = Tail(r.todo)
          /\ s.all = r.all /\ s.cands = Candidates(r.args, cs[k + 1])
      BY <1>1, <1>3, <2>2, ZenonT(30) DEF Names
    <2>5. PICK cands : cands = Candidates(r.args, cs[k + 1])
      OBVIOUS
    <2>6. cands \in Seq(Entered) /\ Len(cands) \in Nat
      BY <2>2, <2>5, CandidatesFacts
    <2>7. SubSeq(cands, 0 + 1, Len(cands)) = cands
      BY <2>6
    <2>8. Kept(r.args, cs[k + 1], 0) = <<>>
      BY <2>2, <2>5, <2>6, KeptFacts
    <2>9. r.all \o <<>> = r.all
      <3>1. Chained(Parts(r.do, r.args), k) \in Seq(Entered)
        BY <1>1, <2>1, <2>2, QueryChained
      <3> QED
        BY <2>2, <3>1
    <2>10. \A i \in 1..k : ~Refusing(r.do, r.args, cs[i])
      BY <2>1, <2>2 DEF Reached
    <2>11. Tried(s, k + 1, 0)
      <3>1. s.todo = SubSeq(cs, (k + 1) + 1, Len(cs))
        BY <2>2, <2>4
      <3>2. s.cands = SubSeq(cands, 0 + 1, Len(cands))
        BY <2>4, <2>5, <2>7
      <3>3. s.all = Chained(Parts(s.do, s.args), (k + 1) - 1) \o Kept(s.args, cs[k + 1], 0)
        <4>1. PICK l : l = (k + 1) - 1
          OBVIOUS
        <4>2. l = k
          BY <2>3, <4>1
        <4>3. s.all = Chained(Parts(r.do, r.args), k) \o Kept(r.args, cs[k + 1], 0)
          BY <2>2, <2>4, <2>8, <2>9
        <4>4. Chained(Parts(s.do, s.args), l) \o Kept(s.args, cs[k + 1], 0)
                = Chained(Parts(r.do, r.args), k) \o Kept(r.args, cs[k + 1], 0)
          BY <2>4, <4>2
        <4> QED
          BY <4>1, <4>3, <4>4
      <3>4. \A i \in 1..0 : FALSE
        OBVIOUS
      <3>5. s.do = "GetCurrentSnapshot" /\ s.args.cel \notin {NoCel, Bad}
        BY <1>1, <1>3, <2>4
      <3>6. \A i \in 1..((k + 1) - 1) : ~Refusing(s.do, s.args, cs[i])
        BY <2>3, <2>4, <2>10
      <3>7. cs = Visited(s.do, s.args) /\ cands = Candidates(s.args, cs[k + 1])
        BY <2>1, <2>4, <2>5
      <3> QED
        BY <3>1, <3>2, <3>3, <3>4, <3>5, <3>6, <3>7 DEF Tried
    <2>12. 0 \in 0..Len(Candidates(s.args, Visited(s.do, s.args)[k + 1]))
      BY <2>1, <2>4, <2>5, <2>6
    <2>13. k + 1 \in 1..Len(Visited(s.do, s.args))
      BY <2>1, <2>2, <2>4
    <2> QED
      BY <1>1, <2>4, <2>11, <2>12, <2>13 DEF Progress, OneFile
  <1> QED
    BY <1>2, <1>3

LEMMA EvalSteady ==
  ASSUME DataTypes, NEW r, r = req, NEW s, s = req', DOMAIN r = Names, Progress(r), EvalNext
  PROVE  Progress(s)
  <1>1. /\ r.at = "eval"
        /\ IF r.cands = <<>> THEN s = [r EXCEPT !.at = "visit"]
           ELSE LET x == Head(r.cands)
                IN IF EvalResource(r.args.cel, x) \notin {"true", "false"} THEN Fail("bad request")
                   ELSE s = [r EXCEPT !.cands = Tail(@), !.all = IF Meets(r.args, x) THEN Append(@, x) ELSE @]
    BY DEF EvalNext, Meets
  <1>2. PICK cs : cs = Visited(r.do, r.args)
    OBVIOUS
  <1>3. PICK k \in 1..Len(cs) : \E j \in 0..Len(Candidates(r.args, cs[k])) : Tried(r, k, j)
    BY <1>1, <1>2 DEF Progress
  <1>4. PICK cands : cands = Candidates(r.args, cs[k])
    OBVIOUS
  <1>5. PICK j \in 0..Len(cands) : Tried(r, k, j)
    BY <1>3, <1>4
  <1>6. cs \in Seq(Clusters) /\ Len(cs) \in Nat
    BY <1>2, VisitedFacts
  <1>7. cs[k] \in Clusters /\ k \in Nat /\ k - 1 \in 0..Len(cs) /\ k - 1 \in Nat /\ (k - 1) + 1 = k
    BY <1>6
  <1>8. cands \in Seq(Entered) /\ Len(cands) \in Nat /\ j \in Nat
    BY <1>4, <1>7, CandidatesFacts
  <1>9. /\ r.do = "GetCurrentSnapshot" /\ r.args.cel \notin {NoCel, Bad}
        /\ r.todo = SubSeq(cs, k + 1, Len(cs))
        /\ \A i \in 1..(k - 1) : ~Refusing(r.do, r.args, cs[i])
        /\ r.cands = SubSeq(cands, j + 1, Len(cands))
        /\ r.all = Chained(Parts(r.do, r.args), k - 1) \o Kept(r.args, cs[k], j)
        /\ \A i \in 1..j : EvalResource(r.args.cel, cands[i]) \in {"true", "false"}
    BY <1>2, <1>4, <1>5 DEF Tried
  <1>10. /\ r.cands = <<>> => j = Len(cands)
         /\ r.cands # <<>> => /\ j + 1 \in 1..Len(cands) /\ j + 1 \in 0..Len(cands)
                              /\ Head(r.cands) = cands[j + 1]
                              /\ Tail(r.cands) = SubSeq(cands, (j + 1) + 1, Len(cands))
    BY <1>8, <1>9, SuffixFacts, SMTT(30)
  <1>11. CASE r.cands = <<>>
    <2>1. s.do = r.do /\ s.args = r.args /\ s.at = "visit" /\ s.todo = r.todo /\ s.all = r.all
      BY <1>1, <1>11 DEF Names
    <2>2. j = Len(cands) /\ \A i \in 1..Len(cands) : EvalResource(r.args.cel, cands[i]) \in {"true", "false"}
      BY <1>9, <1>10, <1>11
    <2>3. ~Refusing(r.do, r.args, cs[k])
      BY <1>4, <1>9, <2>2 DEF Refusing
    <2>4. \A i \in 1..k : i \in 1..(k - 1) \/ i = k
      BY <1>7
    <2>5. Reached(s, k)
      BY <1>2, <1>9, <2>1, <2>3, <2>4 DEF Reached
    <2>6. Parts(r.do, r.args)[k] = Kept(r.args, cs[k], Len(cands))
      BY <1>2, <1>4, <1>9 DEF Parts, Part
    <2>7. Chained(Parts(r.do, r.args), k) = Chained(Parts(r.do, r.args), k - 1) \o Parts(r.do, r.args)[k]
      <3>1. PICK l \in Nat : l = k - 1 /\ l + 1 = k
        BY <1>7
      <3>2. Chained(Parts(r.do, r.args), l + 1) = Chained(Parts(r.do, r.args), l) \o Parts(r.do, r.args)[l + 1]
        BY ChainedFacts
      <3> QED
        BY <3>1, <3>2
    <2>8. s.all = Chained(Parts(s.do, s.args), k)
      BY <1>9, <2>1, <2>2, <2>6, <2>7
    <2>9. k \in 0..Len(Visited(s.do, s.args))
      BY <1>2, <1>6, <2>1
    <2> QED
      BY <1>9, <2>1, <2>5, <2>8, <2>9 DEF Progress, OneFile
  <1>12. CASE r.cands # <<>> /\ EvalResource(r.args.cel, Head(r.cands)) \notin {"true", "false"}
    <2>1. s.do = r.do /\ s.args = r.args /\ s.at = "done" /\ s.out.code # "ok" /\ s.out.items = <<>>
      BY <1>1, <1>12, FailSets
    <2>2. Refusing(r.do, r.args, cs[k])
      BY <1>4, <1>9, <1>10, <1>12 DEF Refusing
    <2>3. Refused(r.do, r.args)
      BY <1>2, <2>2 DEF Refused
    <2>4. r.do \notin OneFile
      BY <1>9 DEF OneFile
    <2> QED
      BY <2>1, <2>3, <2>4, RefuseSteady
  <1>13. CASE r.cands # <<>> /\ EvalResource(r.args.cel, Head(r.cands)) \in {"true", "false"}
    <2>1. /\ s.do = r.do /\ s.args = r.args /\ s.at = "eval" /\ s.todo = r.todo /\ s.cands = Tail(r.cands)
          /\ s.all = IF Meets(r.args, Head(r.cands)) THEN Append(r.all, Head(r.cands)) ELSE r.all
      BY <1>1, <1>13 DEF Names
    <2>2. PICK x : x = cands[j + 1] /\ x = Head(r.cands)
      BY <1>10, <1>13
    <2>3. j + 1 \in 1..Len(cands) /\ j + 1 \in 0..Len(cands) /\ x \in Entered
      <3>1. j + 1 \in 1..Len(cands) /\ j + 1 \in 0..Len(cands)
        BY <1>10, <1>13
      <3>2. cands[j + 1] \in Entered
        BY <1>8, <3>1
      <3> QED
        BY <2>2, <3>1, <3>2
    <2>4. PICK K : K = Kept(r.args, cs[k], j)
      OBVIOUS
    <2>5. /\ K \in Seq(Entered)
          /\ Kept(r.args, cs[k], j + 1) = IF Meets(r.args, x) THEN Append(K, x) ELSE K
      BY <1>4, <1>7, <2>2, <2>3, <2>4, KeptFacts, ZenonT(30)
    <2>6. PICK C : C = Chained(Parts(r.do, r.args), k - 1)
      OBVIOUS
    <2>7. C \in Seq(Entered)
      BY <1>2, <1>7, <1>9, <2>6, QueryChained
    <2>8. r.all = C \o K
      BY <1>9, <2>4, <2>6
    <2>9. Append(C \o K, x) = C \o Append(K, x)
      BY <2>3, <2>5, <2>7, SMTT(30)
    <2>10. s.all = C \o Kept(r.args, cs[k], j + 1)
      BY <2>1, <2>2, <2>5, <2>8, <2>9
    <2>11. \A i \in 1..(j + 1) : EvalResource(r.args.cel, cands[i]) \in {"true", "false"}
      <3>1. \A i \in 1..(j + 1) : i \in 1..j \/ i = j + 1
        BY <1>8
      <3>2. EvalResource(r.args.cel, cands[j + 1]) \in {"true", "false"}
        BY <1>13, <2>2
      <3> QED
        BY <1>9, <3>1, <3>2
    <2>12. Tried(s, k, j + 1)
      <3>1. cs = Visited(s.do, s.args) /\ cands = Candidates(s.args, cs[k])
        BY <1>2, <1>4, <2>1
      <3>2. s.cands = SubSeq(cands, (j + 1) + 1, Len(cands))
        BY <1>10, <1>13, <2>1
      <3>3. s.all = Chained(Parts(s.do, s.args), k - 1) \o Kept(s.args, cs[k], j + 1)
        BY <2>1, <2>6, <2>10
      <3>4. s.do = "GetCurrentSnapshot" /\ s.args.cel \notin {NoCel, Bad} /\ s.todo = SubSeq(cs, k + 1, Len(cs))
            /\ \A i \in 1..(k - 1) : ~Refusing(s.do, s.args, cs[i])
        BY <1>9, <2>1
      <3>5. \A i \in 1..(j + 1) : EvalResource(s.args.cel, cands[i]) \in {"true", "false"}
        BY <2>1, <2>11
      <3> QED
        BY <3>1, <3>2, <3>3, <3>4, <3>5 DEF Tried
    <2>13. k \in 1..Len(Visited(s.do, s.args))
      BY <1>2, <2>1
    <2>14. j + 1 \in 0..Len(Candidates(s.args, Visited(s.do, s.args)[k]))
      BY <1>2, <1>4, <2>1, <2>3
    <2> QED
      BY <1>9, <2>1, <2>12, <2>13, <2>14 DEF Progress, OneFile
  <1> QED
    BY <1>11, <1>12, <1>13

LEMMA FinishSteady ==
  ASSUME NEW r, r = req, NEW s, s = req', DOMAIN r = Names, Progress(r), Finish
  PROVE  Progress(s)
  <1>1. r.at = "visit" /\ r.todo = <<>>
    BY DEF Finish
  <1>2. PICK e \in Results(r.do, r.args, r.all) :
          s = [r EXCEPT !.at = "done", !.out = Answer(e.code, Encode(r.do, e.items), e.total)]
    BY DEF Finish
  <1>3. /\ s.do = r.do /\ s.args = r.args /\ s.at = "done"
        /\ s.out = Answer(e.code, Encode(r.do, e.items), e.total)
    BY <1>2 DEF Names
  <1>4. PICK n : n = Len(Visited(r.do, r.args))
    OBVIOUS
  <1>5. Reached(r, n) /\ r.all = Chained(Parts(r.do, r.args), n)
    BY <1>1, <1>4, NextVisited
  <1>6. r.all = Gathered(r.do, r.args)
    BY <1>4, <1>5 DEF Gathered
  <1>7. ~Refused(r.do, r.args)
    BY <1>4, <1>5 DEF Reached, Refused
  <1>8. r.do \notin OneFile
    BY <1>1 DEF Progress
  <1>9. Answered(s)
    <2>1. e \in Results(s.do, s.args, Gathered(s.do, s.args))
      BY <1>2, <1>3, <1>6
    <2>2. s.out = Answer(e.code, Encode(s.do, e.items), e.total)
      BY <1>3
    <2> QED
      BY <1>3, <1>7, <1>8, <2>1, <2>2 DEF Answered
  <1> QED
    BY <1>3, <1>9, DoneIsProgress

LEMMA NoTextSteady ==
  ASSUME NEW r, NEW s, r.do \in OneFile, s.do = r.do, s.args = r.args, s.at = "done",
         s.out.code # "ok", s.out.items = <<>>, NoText(r.do, r.args)
  PROVE  Progress(s)
  BY DEF Progress, Answered

LEMMA LookupSteady ==
  ASSUME NEW r, r = req, NEW s, s = req', DOMAIN r = Names, Progress(r), Lookup
  PROVE  Progress(s)
  <1>1. r.at = "lookup" /\ r.do \in OneFile /\ r.todo = Visited(r.do, r.args)
    BY DEF Lookup, Progress
  <1> DEFINE c == r.args.cluster
  <1>2. r.todo = IF c \in Clusters THEN <<c>> ELSE <<>>
    BY <1>1, VisitedFacts
  <1>3. ASSUME Fail("not found"), NoText(r.do, r.args) PROVE Progress(s)
    <2>1. s.do = r.do /\ s.args = r.args /\ s.at = "done" /\ s.out.code # "ok" /\ s.out.items = <<>>
      BY <1>3, FailSets
    <2> QED
      BY <1>1, <1>3, <2>1, NoTextSteady
  <1>4. CASE c \notin Clusters
    <2>1. Fail("not found")
      BY <1>2, <1>4 DEF Lookup
    <2>2. NoText(r.do, r.args)
      BY <1>4 DEF NoText
    <2> QED
      BY <1>3, <2>1, <2>2
  <1>5. CASE c \in Clusters
    <2>1. r.todo = <<c>> /\ r.todo # <<>> /\ Cluster = c
      BY <1>2, <1>5 DEF Cluster
    <2>2. IF Path(r.do, r.args) = {} THEN Fail("not found")
          ELSE s = [r EXCEPT !.at = IF r.do = "GetDiff" THEN "from" ELSE "read",
                             !.cands = <<Entry(c, idx[c], FirstOf(Path(r.do, r.args)))>>]
      <3>1. PICK path : path = Path(r.do, r.args)
        OBVIOUS
      <3>2. path = IF Get(c, r.args) # {} THEN Get(c, r.args)
                   ELSE IF r.do = "GetDiff" /\ r.args.from \in 1..Len(log[c])
                   THEN FindResourcePath(c, r.args.from, r.args.group, r.args.namespace, r.args.name) ELSE {}
        BY <3>1 DEF Path
      <3> QED
        BY <2>1, <3>1, <3>2 DEF Lookup
    <2>3. CASE Path(r.do, r.args) = {}
      <3>1. NoText(r.do, r.args)
        BY <2>3 DEF NoText
      <3> QED
        BY <1>3, <2>2, <2>3, <3>1
    <2>4. CASE Path(r.do, r.args) # {}
      <3>1. /\ s.do = r.do /\ s.args = r.args /\ s.todo = <<c>>
            /\ s.at = IF r.do = "GetDiff" THEN "from" ELSE "read"
            /\ s.cands = <<Entry(c, idx[c], FirstOf(Path(r.do, r.args)))>>
        BY <2>1, <2>2, <2>4 DEF Names
      <3>2. s.cands[1].o = FirstOf(Path(s.do, s.args))
        BY <3>1 DEF Entry
      <3>3. s.do = IF s.at = "read" THEN "GetResource" ELSE "GetDiff"
        BY <1>1, <3>1 DEF OneFile
      <3> QED
        BY <1>5, <2>4, <3>1, <3>2, <3>3 DEF Progress
    <2> QED
      BY <2>3, <2>4
  <1> QED
    BY <1>4, <1>5

LEMMA ReadSteady ==
  ASSUME NEW r, r = req, NEW s, s = req', DOMAIN r = Names, Progress(r), ReadFile \/ ReadVersion
  PROVE  Progress(s)
  <1> DEFINE a == r.args
             c == a.cluster
             o == r.cands[1].o
  <1>1. /\ r.at \in {"read", "from", "to"} /\ r.do = IF r.at = "read" THEN "GetResource" ELSE "GetDiff"
        /\ c \in Clusters /\ Path(r.do, a) # {} /\ r.todo = <<c>> /\ o = FirstOf(Path(r.do, a))
        /\ r.at = "to" => r.all = <<FileAt(c, a.from, o)>> /\ FileAt(c, a.from, o) # None
    BY DEF Progress, ReadFile, ReadVersion
  <1>2. Cluster = c
    BY <1>1 DEF Cluster
  <1>3. Texts(r.do, a) = IF r.at = "read" THEN <<OnDisk(c, o)>> ELSE <<FileAt(c, a.from, o), FileAt(c, a.to, o)>>
    BY <1>1 DEF Texts
  <1>4. r.do \in OneFile
    BY <1>1 DEF OneFile
  <1>5. ASSUME NEW code, code # "ok", Fail(code), \E i \in 1..Len(Texts(r.do, a)) : Texts(r.do, a)[i] = None
        PROVE  Progress(s)
    <2>1. s.do = r.do /\ s.args = r.args /\ s.at = "done" /\ s.out.code # "ok" /\ s.out.items = <<>>
      BY <1>5, FailSets
    <2>2. NoText(r.do, r.args)
      BY <1>5 DEF NoText
    <2> QED
      BY <1>4, <2>1, <2>2, NoTextSteady
  <1>6. ASSUME s.do = r.do, s.args = a, s.at = "done", s.out.code = "ok", s.out.items = Texts(r.do, a),
               \A i \in 1..Len(Texts(r.do, a)) : Texts(r.do, a)[i] # None
        PROVE  Progress(s)
    <2>1. ~NoText(r.do, a)
      BY <1>1, <1>6 DEF NoText
    <2>2. Answered(s)
      BY <1>4, <1>6, <2>1 DEF Answered
    <2> QED
      BY <1>6, <2>2, DoneIsProgress
  <1>7. CASE r.at = "read"
    <2>1. PICK doc : doc = OnDisk(c, o)
      OBVIOUS
    <2>2. IF doc = None THEN Fail("error") ELSE s = [r EXCEPT !.at = "done", !.out = Answer("ok", <<doc>>, 1)]
      BY <1>2, <1>7, <2>1 DEF ReadFile, ReadVersion
    <2>3. Texts(r.do, a) = <<doc>>
      BY <1>3, <1>7, <2>1
    <2>4. /\ doc = None => \E i \in 1..Len(Texts(r.do, a)) : Texts(r.do, a)[i] = None
          /\ doc # None => \A i \in 1..Len(Texts(r.do, a)) : Texts(r.do, a)[i] # None
      BY <2>3
    <2>5. CASE doc = None
      BY <1>5, <2>2, <2>4, <2>5
    <2>6. CASE doc # None
      <3>1. s.do = r.do /\ s.args = a /\ s.at = "done" /\ s.out.code = "ok" /\ s.out.items = <<doc>>
        <4>1. s.do = r.do /\ s.args = a /\ s.at = "done" /\ s.out = Answer("ok", <<doc>>, 1)
          BY <2>2, <2>6 DEF Names
        <4> QED
          BY <4>1 DEF Answer
      <3> QED
        BY <1>6, <2>3, <2>4, <2>6, <3>1
    <2> QED
      BY <2>5, <2>6
  <1>8. CASE r.at = "from"
    <2>1. PICK doc : doc = FileAt(c, a.from, o)
      OBVIOUS
    <2>2. IF doc = None THEN Fail("bad request") ELSE s = [r EXCEPT !.at = "to", !.all = <<doc>>]
      BY <1>2, <1>8, <2>1 DEF ReadFile, ReadVersion
    <2>3. Texts(r.do, a) = <<doc, FileAt(c, a.to, o)>>
      BY <1>3, <1>8, <2>1
    <2>4. doc = None => \E i \in 1..Len(Texts(r.do, a)) : Texts(r.do, a)[i] = None
      <3>1. 1 \in 1..Len(Texts(r.do, a)) /\ Texts(r.do, a)[1] = doc
        BY <2>3
      <3> QED
        BY <3>1
    <2>5. CASE doc = None
      BY <1>5, <2>2, <2>4, <2>5
    <2>6. CASE doc # None
      <3>1. /\ s.do = r.do /\ s.args = a /\ s.at = "to" /\ s.all = <<doc>> /\ s.todo = r.todo /\ s.cands = r.cands
        BY <2>2, <2>6 DEF Names
      <3> QED
        BY <1>1, <1>8, <2>1, <2>6, <3>1 DEF Progress
    <2> QED
      BY <2>5, <2>6
  <1>9. CASE r.at = "to"
    <2>1. PICK doc : doc = FileAt(c, a.to, o)
      OBVIOUS
    <2>2. IF doc = None THEN Fail("bad request")
          ELSE s = [r EXCEPT !.at = "done", !.out = Answer("ok", <<r.all[1], doc>>, 2)]
      BY <1>2, <1>9, <2>1 DEF ReadFile, ReadVersion
    <2>3. PICK old : old = FileAt(c, a.from, o)
      OBVIOUS
    <2>4. Texts(r.do, a) = <<old, doc>> /\ r.all = <<old>> /\ old # None
      BY <1>1, <1>3, <1>9, <2>1, <2>3
    <2>5. doc = None => \E i \in 1..Len(Texts(r.do, a)) : Texts(r.do, a)[i] = None
      <3>1. 2 \in 1..Len(Texts(r.do, a)) /\ Texts(r.do, a)[2] = doc
        BY <2>4
      <3> QED
        BY <3>1
    <2>6. CASE doc = None
      BY <1>5, <2>2, <2>5, <2>6
    <2>7. CASE doc # None
      <3>1. s.do = r.do /\ s.args = a /\ s.at = "done" /\ s.out.code = "ok" /\ s.out.items = <<r.all[1], doc>>
        <4>1. s.do = r.do /\ s.args = a /\ s.at = "done" /\ s.out = Answer("ok", <<r.all[1], doc>>, 2)
          BY <2>2, <2>7 DEF Names
        <4> QED
          BY <4>1 DEF Answer
      <3>2. s.out.items = Texts(r.do, a)
        BY <2>4, <3>1
      <3>3. \A i \in 1..Len(Texts(r.do, a)) : Texts(r.do, a)[i] # None
        BY <2>4, <2>7
      <3> QED
        BY <1>6, <3>1, <3>2, <3>3
    <2> QED
      BY <2>6, <2>7
  <1> QED
    BY <1>1, <1>7, <1>8, <1>9

LEMMA ReceiveSteady ==
  ASSUME SteadyInv, Receive
  PROVE  /\ \A s : s = req' => /\ DOMAIN s = Names /\ Asked(s)
                               /\ s.do # "reply" => Progress(s)
         /\ \A s : s = prev' /\ s.at = "done" => Asked(s) /\ s.do # "reply" /\ Answered(s)
  <1>1. PICK a \in Requests : LET d == Dispatch(a) IN req' = [Idle EXCEPT
            !.ask = a, !.do = d.do, !.args = d.args,
            !.todo = IF d.do \in {"reply", "ListClusters"} THEN <<>> ELSE Resolve(d.do, d.args.cluster),
            !.at = CASE d.do = "reply"                      -> "done"
                     [] d.do \in {"GetResource", "GetDiff"} -> "lookup"
                     [] OTHER                               -> "visit",
            !.out = IF d.do = "reply" THEN Answer(d.code, <<>>, 0) ELSE NoAnswer]
    BY DEF Receive
  <1>2. ASSUME NEW s, s = req'
        PROVE  DOMAIN s = Names /\ Asked(s) /\ (s.do # "reply" => Progress(s))
    <2> DEFINE d == Dispatch(a)
    <2>1. /\ DOMAIN s = Names /\ s.ask = a /\ s.do = d.do /\ s.args = d.args /\ s.all = <<>>
          /\ d.do # "reply" => /\ s.at = IF d.do \in OneFile THEN "lookup" ELSE "visit"
                               /\ s.todo = Visited(d.do, d.args)
      BY <1>1, <1>2 DEF Idle, Names, Visited, OneFile
    <2>2. Asked(s)
      BY <2>1 DEF Asked
    <2> HIDE DEF d
    <2>3. ASSUME d.do # "reply" PROVE Progress(s)
      <3>1. CASE d.do \in OneFile
        BY <2>1, <2>3, <3>1 DEF Progress
      <3>2. CASE d.do \notin OneFile
        <4>1. PICK cs : cs = Visited(s.do, s.args)
          OBVIOUS
        <4>2. cs \in Seq(Clusters) /\ Len(cs) \in Nat /\ 0 \in 0..Len(cs)
          BY <4>1, VisitedFacts
        <4>3. SubSeq(cs, 0 + 1, Len(cs)) = cs /\ s.todo = cs
          BY <2>1, <2>3, <4>1, <4>2
        <4>4. Reached(s, 0)
          BY <4>1, <4>3 DEF Reached
        <4>5. s.all = Chained(Parts(s.do, s.args), 0)
          BY <2>1, ChainedFacts
        <4>6. \E k \in 0..Len(Visited(s.do, s.args)) : Reached(s, k) /\ s.all = Chained(Parts(s.do, s.args), k)
          BY <4>1, <4>2, <4>4, <4>5
        <4> QED
          BY <2>1, <2>3, <3>2, <4>6 DEF Progress
      <3> QED
        BY <3>1, <3>2
    <2> QED
      BY <2>1, <2>2, <2>3
  <1>3. ASSUME NEW s, s = prev', s.at = "done"
        PROVE  Asked(s) /\ s.do # "reply" /\ Answered(s)
    <2>1. s = req /\ s.at = "done" /\ s.steady /\ s.do # "reply"
      BY <1>3 DEF Receive, Idle
    <2>2. Asked(s) /\ Progress(s)
      BY <2>1 DEF SteadyInv
    <2> QED
      BY <2>1, <2>2 DEF Progress
  <1> QED
    BY <1>2, <1>3

Works == \/ Visits \/ VisitQuery \/ EvalNext \/ Lookup \/ ReadFile \/ ReadVersion \/ Finish

LEMMA WorkSets ==
  ASSUME DOMAIN req = Names, Works
  PROVE  /\ DOMAIN req' = Names /\ req'.ask = req.ask /\ req'.do = req.do /\ req'.args = req.args
         /\ req'.steady = req.steady /\ req.at \notin {"idle", "done"}
         /\ UNCHANGED <<data, prev>>
  <1>1. CASE Visits
    <2>1. UNCHANGED <<data, prev>>
      BY <1>1 DEF Visits, VisitStatus, VisitHealthz, VisitGVKs, VisitNamespaces, VisitList, VisitPast,
                  VisitHistory, VisitVolatility, VisitFields
    <2>2. req.at = "visit"
      BY <1>1, VisitAdds
    <2>3. \/ Collect(Part(req.do, req.args, Head(req.todo)))
          \/ Fail("unavailable")
      BY <1>1, VisitAdds
    <2> QED
      BY <2>1, <2>2, <2>3, FailSets, CollectSets
  <1>2. CASE VisitQuery
    BY <1>2, FailSets DEF VisitQuery, Visiting, Names
  <1>3. CASE EvalNext
    BY <1>3, FailSets DEF EvalNext, Names
  <1>4. CASE Lookup
    BY <1>4, FailSets DEF Lookup, Names
  <1>5. CASE ReadFile
    BY <1>5, FailSets DEF ReadFile, Names
  <1>6. CASE ReadVersion
    BY <1>6, FailSets DEF ReadVersion, Names
  <1>7. CASE Finish
    BY <1>7 DEF Finish, Names
  <1> QED
    BY <1>1, <1>2, <1>3, <1>4, <1>5, <1>6, <1>7 DEF Works

LEMMA WorkSteady ==
  ASSUME DataTypes, NEW r, r = req, NEW s, s = req', DOMAIN r = Names, Progress(r), Works
  PROVE  Progress(s)
  BY VisitSteady, QuerySteady, EvalSteady, LookupSteady, ReadSteady, FinishSteady DEF Works

Builds == \E c \in Clusters : Pull(c) \/ BuildIndex(c) \/ BuildHistory(c)

LEMMA NextSplits == Next <=> Receive \/ Works \/ Builds
  BY DEF Next, Works, Visits, Builds

LEMMA SteadyStep ==
  ASSUME DataTypes, SteadyInv, [Next]_vars
  PROVE  SteadyInv'
  <1>1. DOMAIN req = Names
    BY DEF SteadyInv
  <1>2. CASE Receive
    <2>1. UNCHANGED data
      BY <1>2 DEF Receive
    <2>2. \A s : (Progress(s)' <=> Progress(s)) /\ (Answered(s)' <=> Answered(s)) /\ (Asked(s)' <=> Asked(s))
      BY <2>1, SameData DEF Asked
    <2>3. \A s : s = req' => DOMAIN s = Names /\ Asked(s) /\ (s.do # "reply" => Progress(s))
      BY <1>2, ReceiveSteady
    <2>4. \A s : s = prev' /\ s.at = "done" => Asked(s) /\ s.do # "reply" /\ Answered(s)
      BY <1>2, ReceiveSteady
    <2> QED
      BY <2>2, <2>3, <2>4 DEF SteadyInv
  <1>3. CASE Works
    <2>1. /\ DOMAIN req' = Names /\ req'.ask = req.ask /\ req'.do = req.do /\ req'.args = req.args
          /\ req'.steady = req.steady /\ req.at \notin {"idle", "done"}
          /\ UNCHANGED <<data, prev>>
      BY <1>1, <1>3, WorkSets
    <2>2. \A s : (Progress(s)' <=> Progress(s)) /\ (Answered(s)' <=> Answered(s)) /\ (Asked(s)' <=> Asked(s))
      BY <2>1, SameData DEF Asked
    <2>3. ASSUME NEW s, s = req'
          PROVE  DOMAIN s = Names /\ Asked(s) /\ (s.steady /\ s.do # "reply" => Progress(s))
      <3>1. PICK r : r = req
        OBVIOUS
      <3>2. Asked(r) /\ (r.steady /\ r.do # "reply" => Progress(r))
        BY <2>1, <3>1 DEF SteadyInv
      <3>3. Asked(s)
        BY <2>1, <2>3, <3>1, <3>2 DEF Asked
      <3>4. r.steady /\ r.do # "reply" => Progress(s)
        BY <1>1, <1>3, <2>3, <3>1, <3>2, WorkSteady
      <3> QED
        BY <2>1, <2>3, <3>1, <3>3, <3>4
    <2>4. \A s : s = prev' /\ s.at = "done" => Asked(s) /\ s.do # "reply" /\ Answered(s)
      BY <2>1 DEF SteadyInv
    <2> QED
      BY <2>2, <2>3, <2>4 DEF SteadyInv
  <1>4. CASE Builds
    <2>1. Changes
      BY <1>4 DEF Builds, Pull, BuildIndex, BuildHistory
    <2>2. prev' = Idle /\ (req' = Idle \/ (req.at # "done" /\ req' = [req EXCEPT !.steady = FALSE]))
      BY <2>1 DEF Changes
    <2>3. DOMAIN req' = Names /\ (req'.at = "idle" \/ (req'.steady = FALSE /\ req'.ask = req.ask
                                   /\ req'.do = req.do /\ req'.args = req.args /\ req.at # "idle"))
      BY <1>1, <2>2 DEF Idle, Names
    <2>4. \A s : s = req' => DOMAIN s = Names /\ (s.at # "idle" => Asked(s)) /\ (s.at = "idle" \/ s.steady = FALSE)
      BY <2>3 DEF SteadyInv, Asked
    <2>5. \A s : Asked(s)' <=> Asked(s)
      BY DEF Asked
    <2>6. \A s : s = prev' => s.at # "done"
      BY <2>2 DEF Idle
    <2> QED
      BY <2>4, <2>5, <2>6 DEF SteadyInv
  <1>5. CASE UNCHANGED vars
    <2>1. UNCHANGED data /\ req' = req /\ prev' = prev
      BY <1>5 DEF vars, data
    <2>2. \A s : (Progress(s)' <=> Progress(s)) /\ (Answered(s)' <=> Answered(s)) /\ (Asked(s)' <=> Asked(s))
      BY <2>1, SameData DEF Asked
    <2> QED
      BY <2>1, <2>2 DEF SteadyInv
  <1> QED
    BY <1>2, <1>3, <1>4, <1>5, NextSplits

LEMMA SteadyHolds == Spec => [](DataTypes /\ SteadyInv)
  <1>1. Init => DataTypes /\ SteadyInv
    BY InitData DEF Init, SteadyInv, Idle, Names
  <1>2. DataTypes /\ SteadyInv /\ [Next]_vars => (DataTypes /\ SteadyInv)'
    BY DataStep, SteadyStep
  <1> QED
    BY <1>1, <1>2, PTL DEF Spec

\* The clusters of the configuration have different names.
NamesDiffer == \A i, j \in 1..Len(ClusterNames) : ClusterNames[i] = ClusterNames[j] => i = j

LEMMA VisitedOnce ==
  ASSUME NamesDiffer, NEW op, NEW a
  PROVE  \A i, j \in 1..Len(Visited(op, a)) : Visited(op, a)[i] = Visited(op, a)[j] => i = j
  <1>1. Visited(op, a) \in {<<>>, ClusterNames, <<a.cluster>>}
    BY DEF Visited, Resolve
  <1>2. CASE Visited(op, a) = <<>>
    BY <1>2
  <1>3. CASE Visited(op, a) = <<a.cluster>>
    BY <1>3
  <1>4. CASE Visited(op, a) = ClusterNames
    BY <1>4 DEF NamesDiffer
  <1> QED
    BY <1>1, <1>2, <1>3, <1>4

LEMMA InRangeOf ==
  ASSUME NEW S, NEW s \in Seq(S)
  PROVE  \A x : x \in Range(s) <=> \E i \in 1..Len(s) : s[i] = x
  <1>1. DOMAIN s = 1..Len(s)
    OBVIOUS
  <1> QED
    BY <1>1, Zenon DEF Range

LEMMA FilteredIs ==
  ASSUME NEW c, NEW a
  PROVE  /\ \A o : o \in Range(Filtered(c, a)) <=> o \in Listed(c) /\ Passes(a, o)
         /\ \A k, l \in 1..Len(Filtered(c, a)) : Filtered(c, a)[k] = Filtered(c, a)[l] => k = l
  <1> DEFINE keep == {i \in DOMAIN WalkOrder : WalkOrder[i] \in Listed(c) /\ Passes(a, WalkOrder[i])}
  <1>1. WalkOrder \in Seq(Objs) /\ DOMAIN WalkOrder = 1..Len(WalkOrder)
    BY ApiConstants
  <1>2. \A i, j \in 1..Len(WalkOrder) : WalkOrder[i] = WalkOrder[j] => i = j
    BY <1>1, ApiConstants DEF IsInjective
  <1>3. keep \in SUBSET (1..Len(WalkOrder))
    BY <1>1
  <1>4. PICK f : f = Filtered(c, a) /\ f = SubSeqAt(WalkOrder, keep)
    BY DEF Filtered
  <1>5. \A i : i \in keep <=> i \in 1..Len(WalkOrder) /\ WalkOrder[i] \in Listed(c) /\ Passes(a, WalkOrder[i])
    BY <1>1
  <1>6. \A o \in Objs : \E i \in 1..Len(WalkOrder) : WalkOrder[i] = o
    <2>1. \A o : o \in Range(WalkOrder) <=> \E i \in 1..Len(WalkOrder) : WalkOrder[i] = o
      BY <1>1, InRangeOf, Zenon
    <2> QED
      BY <2>1, Zenon DEF Objs
  <1> HIDE DEF keep
  <1>7. PICK kp \in SUBSET (1..Len(WalkOrder)) : kp = keep
    BY <1>3
  <1>8. /\ f \in Seq(Objs)
        /\ \A k \in 1..Len(f) : \E i \in kp : f[k] = WalkOrder[i]
        /\ \A i \in kp : \E k \in 1..Len(f) : f[k] = WalkOrder[i]
    <2>1. f = SubSeqAt(WalkOrder, kp)
      BY <1>4, <1>7
    <2>2. \A s \in Seq(Objs) : \A q \in SUBSET (1..Len(s)) :
            /\ SubSeqAt(s, q) \in Seq(Objs)
            /\ \A k \in 1..Len(SubSeqAt(s, q)) : \E i \in q : SubSeqAt(s, q)[k] = s[i]
            /\ \A i \in q : \E k \in 1..Len(SubSeqAt(s, q)) : SubSeqAt(s, q)[k] = s[i]
      BY SubSeqAtFacts
    <2> QED
      BY <1>1, <2>1, <2>2
  <1>9. \A k, l \in 1..Len(f) : f[k] = f[l] => k = l
    BY <1>1, <1>2, <1>4, <1>7, SubSeqAtInjective
  <1>10. ASSUME NEW o PROVE o \in Range(f) <=> o \in Listed(c) /\ Passes(a, o)
    <2>1. o \in Range(f) <=> \E k \in 1..Len(f) : f[k] = o
      BY <1>8, InRangeOf, ZenonT(30)
    <2>2. (\E k \in 1..Len(f) : f[k] = o) => o \in Listed(c) /\ Passes(a, o)
      BY <1>5, <1>7, <1>8
    <2>3. ASSUME o \in Listed(c), Passes(a, o) PROVE \E k \in 1..Len(f) : f[k] = o
      <3>1. PICK i \in 1..Len(WalkOrder) : WalkOrder[i] = o
        BY <1>6, <2>3 DEF Listed
      <3>2. i \in kp
        BY <1>5, <1>7, <2>3, <3>1
      <3> QED
        BY <1>8, <3>1, <3>2
    <2> QED
      BY <2>1, <2>2, <2>3
  <1> QED
    BY <1>4, <1>9, <1>10

-----------------------------------------------------------------------------
(* What a CEL comparison finds *)

\* The resource of an entry met e in commit n.
Met(e, x, n) == DocAt(x.c, n, x.o) # None /\ Eval(e, DocAt(x.c, n, x.o)) = "true"

\* An entry was listed in the commit its index was built from,
Was(x) == x.v <= Len(log[x.c]) /\ DocAt(x.c, x.v, x.o) # None

\* ... and met e then or later.
MetSince(e, x) == \E n \in x.v..Len(log[x.c]) : Met(e, x, n)

IsQuery(r) == r.do = "GetCurrentSnapshot" /\ r.args.cel \notin {NoCel, Bad}

CelInv ==
  \A r \in {req} :
    /\ DOMAIN r = Names
    /\ IsQuery(r) =>
         /\ r.at \in {"visit", "eval", "done"} /\ r.todo \in Seq(Clusters)
         /\ r.cands \in Seq(Entered) /\ \A i \in 1..Len(r.cands) : Was(r.cands[i])
         /\ r.all \in Seq(Entered)
         /\ r.args.cel.test = "is" => \A i \in 1..Len(r.all) : MetSince(r.args.cel, r.all[i])

\* An entry the evaluation accepts met the comparison in the commit of the
\* index or in the working tree.
LEMMA TrueIsMet ==
  ASSUME DataTypes, NEW x \in Entered, Was(x), NEW e, e.test = "is", EvalResource(e, x) = "true"
  PROVE  MetSince(e, x)
  <1>1. x.c \in Clusters /\ x.v \in Nat /\ Len(log[x.c]) \in Nat /\ x.v <= Len(log[x.c])
    BY LogLengths DEF Entered, Was
  <1>2. PICK doc : doc = DocAt(x.c, x.v, x.o) /\ doc # None
    BY DEF Was
  <1>3. PICK map : map = ObjectMap(x.c, x.v, x.o)
    OBVIOUS
  <1>4. DOMAIN map = DOMAIN doc \cap IndexedFields /\ \A f \in DOMAIN map : map[f] = doc[f]
    BY <1>2, <1>3 DEF ObjectMap
  <1>5. CASE Eval(e, map) # "no such key"
    <2>1. Eval(e, map) = "true"
      BY <1>3, <1>5 DEF EvalResource
    <2>2. e.field \in DOMAIN map /\ map[e.field] = e.value
      BY <2>1 DEF Eval
    <2>3. Eval(e, doc) = "true"
      BY <1>4, <2>2 DEF Eval
    <2>4. x.v \in x.v..Len(log[x.c])
      BY <1>1
    <2> QED
      BY <1>2, <2>3, <2>4 DEF MetSince, Met
  <1>6. CASE Eval(e, map) = "no such key"
    <2>1. PICK n : n = Len(log[x.c])
      OBVIOUS
    <2>2. OnDisk(x.c, x.o) # None /\ Eval(e, OnDisk(x.c, x.o)) = "true"
      BY <1>3, <1>6 DEF EvalResource
    <2>3. Met(e, x, n)
      BY <2>1, <2>2 DEF Met, OnDisk
    <2>4. n \in x.v..Len(log[x.c])
      BY <1>1, <2>1
    <2> QED
      BY <2>3, <2>4 DEF MetSince
  <1> QED
    BY <1>5, <1>6

LEMMA CandidatesWere ==
  ASSUME DataTypes, NEW c \in Clusters, NEW a
  PROVE  \A i \in 1..Len(Candidates(a, c)) : Was(Candidates(a, c)[i])
  <1>1. SUFFICES ASSUME NEW i \in 1..Len(Candidates(a, c)) PROVE Was(Candidates(a, c)[i])
    OBVIOUS
  <1>2. PICK f : f = Filtered(c, a)
    OBVIOUS
  <1>3. f \in Seq(Objs) /\ i \in 1..Len(f) /\ Candidates(a, c)[i] = Entry(c, idx[c], f[i])
    BY <1>2, CandidatesFacts, FilteredFacts
  <1>4. f[i] \in Range(f)
    BY <1>3, InRangeOf, Zenon
  <1>5. f[i] \in Listed(c)
    BY <1>2, <1>4, FilteredIs
  <1>6. DocAt(c, idx[c], f[i]) # None
    BY <1>5 DEF Listed
  <1>7. idx[c] <= Len(log[c])
    BY LogLengths DEF DataTypes
  <1> QED
    BY <1>3, <1>6, <1>7 DEF Was, Entry

\* What was, was, whatever is committed.
LEMMA GrownKeeps ==
  ASSUME Grown, NEW x \in Entered
  PROVE  /\ Was(x) => Was(x)'
         /\ \A e : MetSince(e, x) => MetSince(e, x)'
  <1>1. /\ x.c \in Clusters /\ x.v \in Nat /\ Len(log[x.c]) \in Nat /\ Len(log'[x.c]) \in Nat
        /\ Len(log[x.c]) <= Len(log'[x.c]) /\ \A n \in 1..Len(log[x.c]) : log'[x.c][n] = log[x.c][n]
    BY DEF Grown, Entered
  <1>2. \A n \in 0..Len(log[x.c]) : DocAt(x.c, n, x.o)' = DocAt(x.c, n, x.o)
    <2>1. \A n \in 0..Len(log[x.c]) : n = 0 \/ n \in 1..Len(log[x.c])
      BY <1>1
    <2> QED
      BY <1>1, <2>1 DEF DocAt
  <1>3. Was(x) => Was(x)'
    <2>1. ASSUME Was(x) PROVE Was(x)'
      <3>1. x.v <= Len(log[x.c]) /\ DocAt(x.c, x.v, x.o) # None
        BY <2>1 DEF Was
      <3>2. x.v \in 0..Len(log[x.c]) /\ x.v <= Len(log'[x.c])
        BY <1>1, <3>1
      <3>3. DocAt(x.c, x.v, x.o)' # None
        BY <1>2, <3>1, <3>2
      <3> QED
        BY <3>2, <3>3 DEF Was
    <2> QED
      BY <2>1
  <1>4. ASSUME NEW e, MetSince(e, x) PROVE MetSince(e, x)'
    <2>1. PICK n \in x.v..Len(log[x.c]) : Met(e, x, n)
      BY <1>4 DEF MetSince
    <2>2. n \in 0..Len(log[x.c]) /\ n \in x.v..Len(log'[x.c])
      BY <1>1
    <2>3. DocAt(x.c, n, x.o)' = DocAt(x.c, n, x.o)
      BY <1>2, <2>2
    <2>4. Met(e, x, n)'
      BY <2>1, <2>3 DEF Met
    <2> QED
      BY <2>2, <2>4 DEF MetSince
  <1> QED
    BY <1>3, <1>4

LEMMA TailFacts ==
  ASSUME NEW S, NEW s \in Seq(S), s # <<>>
  PROVE  /\ Tail(s) \in Seq(S) /\ Head(s) \in S /\ Head(s) = s[1] /\ 1 \in 1..Len(s)
         /\ \A i \in 1..Len(Tail(s)) : i + 1 \in 1..Len(s) /\ Tail(s)[i] = s[i + 1]
  OBVIOUS

LEMMA EvalKeepsCel ==
  ASSUME DataTypes, CelInv, EvalNext, IsQuery(req)
  PROVE  CelInv'
  <1>1. PICK r, s : r = req /\ s = req'
    OBVIOUS
  <1>2. /\ DOMAIN r = Names /\ r.todo \in Seq(Clusters) /\ r.cands \in Seq(Entered)
        /\ \A i \in 1..Len(r.cands) : Was(r.cands[i])
        /\ r.all \in Seq(Entered)
        /\ r.args.cel.test = "is" => \A i \in 1..Len(r.all) : MetSince(r.args.cel, r.all[i])
    BY <1>1 DEF CelInv
  <1>3. UNCHANGED data
    BY DEF EvalNext
  <1>4. \A x : (Was(x)' <=> Was(x)) /\ \A e : MetSince(e, x)' <=> MetSince(e, x)
    <2>1. log' = log
      BY <1>3 DEF data
    <2>2. \A c, n, o : DocAt(c, n, o)' = DocAt(c, n, o)
      BY <2>1 DEF DocAt
    <2>3. \A e, x, n : Met(e, x, n)' <=> Met(e, x, n)
      BY <2>2 DEF Met
    <2> QED
      BY <2>1, <2>2, <2>3 DEF Was, MetSince
  <1>5. /\ DOMAIN s = Names /\ s.at \in {"visit", "eval", "done"} /\ s.todo \in Seq(Clusters)
        /\ s.cands \in Seq(Entered) /\ \A i \in 1..Len(s.cands) : Was(s.cands[i])
        /\ s.all \in Seq(Entered)
        /\ s.args.cel.test = "is" => \A i \in 1..Len(s.all) : MetSince(s.args.cel, s.all[i])
    <2>1. CASE r.cands = <<>>
      <3>1. s = [r EXCEPT !.at = "visit"]
        BY <1>1, <2>1 DEF EvalNext
      <3>2. DOMAIN s = Names /\ s.at = "visit" /\ s.todo = r.todo /\ s.cands = r.cands /\ s.all = r.all /\ s.args = r.args
        BY <1>2, <3>1 DEF Names
      <3> QED
        BY <1>2, <3>2
    <2>2. CASE r.cands # <<>>
      <3>1. PICK x : x = Head(r.cands)
        OBVIOUS
      <3>2. /\ Tail(r.cands) \in Seq(Entered) /\ x \in Entered /\ x = r.cands[1] /\ 1 \in 1..Len(r.cands)
            /\ \A i \in 1..Len(Tail(r.cands)) : i + 1 \in 1..Len(r.cands) /\ Tail(r.cands)[i] = r.cands[i + 1]
        BY <1>2, <2>2, <3>1, TailFacts
      <3>3. Was(x) /\ \A i \in 1..Len(Tail(r.cands)) : Was(Tail(r.cands)[i])
        BY <1>2, <3>2
      <3>4. CASE EvalResource(r.args.cel, x) \notin {"true", "false"}
        <4>1. Fail("bad request")
          BY <1>1, <2>2, <3>1, <3>4 DEF EvalNext
        <4>2. DOMAIN s = Names /\ s.at = "done" /\ s.todo = <<>> /\ s.cands = <<>> /\ s.all = <<>>
          BY <1>1, <1>2, <4>1 DEF Fail, Names
        <4> QED
          BY <4>2
      <3>5. CASE EvalResource(r.args.cel, x) \in {"true", "false"}
        <4>1. s = [r EXCEPT !.cands = Tail(@),
                     !.all = IF EvalResource(r.args.cel, x) = "true" /\ Named(r.args, x.o) THEN Append(@, x) ELSE @]
          BY <1>1, <2>2, <3>1, <3>5 DEF EvalNext
        <4>2. /\ DOMAIN s = Names /\ s.at = r.at /\ s.todo = r.todo /\ s.cands = Tail(r.cands) /\ s.args = r.args
              /\ s.all = IF EvalResource(r.args.cel, x) = "true" /\ Named(r.args, x.o) THEN Append(r.all, x) ELSE r.all
          BY <1>2, <4>1 DEF Names
        <4>3. r.at = "eval"
          BY <1>1 DEF EvalNext
        <4>4. CASE s.all = r.all
          BY <1>2, <3>2, <3>3, <4>2, <4>3, <4>4
        <4>5. CASE EvalResource(r.args.cel, x) = "true" /\ s.all = Append(r.all, x)
          <5>1. s.all \in Seq(Entered) /\ \A i \in 1..Len(s.all) : (i \in 1..Len(r.all) /\ s.all[i] = r.all[i]) \/ s.all[i] = x
            BY <1>2, <3>2, <4>5
          <5>2. r.args.cel.test = "is" => MetSince(r.args.cel, x)
            BY <3>2, <3>3, <4>5, TrueIsMet
          <5>3. s.args.cel.test = "is" => \A i \in 1..Len(s.all) : MetSince(s.args.cel, s.all[i])
            BY <1>2, <4>2, <5>1, <5>2
          <5> QED
            BY <1>2, <3>2, <3>3, <4>2, <4>3, <5>1, <5>3
        <4> QED
          BY <4>2, <4>4, <4>5
      <3> QED
        BY <3>4, <3>5
    <2> QED
      BY <2>1, <2>2
  <1> QED
    BY <1>1, <1>4, <1>5 DEF CelInv

LEMMA CelStep ==
  ASSUME DataTypes, CelInv, [Next]_vars
  PROVE  CelInv'
  <1>1. PICK r, s : r = req /\ s = req'
    OBVIOUS
  <1>2. DataTypes' /\ Grown
    BY DataStep
  <1>3. DOMAIN r = Names
    BY <1>1 DEF CelInv
  <1>4. ASSUME s.at \in {r.at, "visit", "eval", "done"}, DOMAIN s = Names, s.do = r.do, s.args = r.args,
               IsQuery(r) => /\ s.todo \in Seq(Clusters) /\ s.cands \in Seq(Entered)
                             /\ \A i \in 1..Len(s.cands) : Was(s.cands[i])
                             /\ s.all = r.all \/ s.all = <<>>
        PROVE  CelInv'
    <2>1. IsQuery(s) => IsQuery(r)
      BY <1>4 DEF IsQuery
    <2>2. IsQuery(r) => /\ r.all \in Seq(Entered) /\ r.at \in {"visit", "eval", "done"}
                        /\ r.args.cel.test = "is" => \A i \in 1..Len(r.all) : MetSince(r.args.cel, r.all[i])
      BY <1>1 DEF CelInv
    <2>3. IsQuery(r) => /\ s.all \in Seq(Entered) /\ s.at \in {"visit", "eval", "done"}
                        /\ s.args.cel.test = "is" => \A i \in 1..Len(s.all) : MetSince(s.args.cel, s.all[i])
      <3>1. CASE s.all = r.all
        BY <1>4, <2>2, <3>1
      <3>2. CASE s.all = <<>>
        <4>1. s.all \in Seq(Entered) /\ \A i \in 1..Len(s.all) : FALSE
          BY <3>2
        <4> QED
          BY <1>4, <2>2, <4>1
      <3> QED
        BY <1>4, <3>1, <3>2
    <2>4. IsQuery(s) => \A i \in 1..Len(s.cands) : Was(s.cands[i])'
      <3>1. IsQuery(s) => \A i \in 1..Len(s.cands) : Was(s.cands[i]) /\ s.cands[i] \in Entered
        BY <1>4, <2>1
      <3> QED
        BY <1>2, <3>1, GrownKeeps
    <2>5. IsQuery(s) /\ s.args.cel.test = "is" => \A i \in 1..Len(s.all) : MetSince(s.args.cel, s.all[i])'
      <3>1. IsQuery(s) /\ s.args.cel.test = "is" =>
              \A i \in 1..Len(s.all) : MetSince(s.args.cel, s.all[i]) /\ s.all[i] \in Entered
        BY <2>1, <2>3
      <3> QED
        BY <1>2, <3>1, GrownKeeps
    <2> QED
      BY <1>1, <1>4, <2>1, <2>3, <2>4, <2>5 DEF CelInv
  <1>5. CASE Receive
    <2>1. PICK a \in Requests : s.do = Dispatch(a).do /\ s.args = Dispatch(a).args /\ s.cands = <<>> /\ s.all = <<>>
            /\ DOMAIN s = Names
            /\ s.todo = (IF s.do \in {"reply", "ListClusters"} THEN <<>> ELSE Resolve(s.do, s.args.cluster))
            /\ (s.do = "GetCurrentSnapshot" => s.at = "visit")
      BY <1>1, <1>5 DEF Receive, Idle, Names
    <2>2. s.do = "GetCurrentSnapshot" => s.todo = Visited(s.do, s.args)
      BY <2>1 DEF Visited
    <2>3. s.do = "GetCurrentSnapshot" => s.todo \in Seq(Clusters)
      BY <2>2, VisitedFacts
    <2>4. <<>> \in Seq(Entered) /\ Len(<<>>) = 0
      OBVIOUS
    <2>5. /\ s.cands \in Seq(Entered) /\ s.all \in Seq(Entered)
          /\ (\A i \in 1..Len(s.cands) : FALSE) /\ \A i \in 1..Len(s.all) : FALSE
      BY <2>1, <2>4
    <2>6. DOMAIN s = Names /\ (IsQuery(s) => s.at = "visit" /\ s.todo \in Seq(Clusters))
      BY <2>1, <2>3 DEF IsQuery
    <2> QED
      BY <1>1, <2>5, <2>6 DEF CelInv
  <1>6. CASE Works
    <2>1. DOMAIN s = Names /\ s.do = r.do /\ s.args = r.args /\ UNCHANGED data
      BY <1>1, <1>3, <1>6, WorkSets
    <2>2. CASE ~IsQuery(r)
      BY <1>1, <2>1, <2>2 DEF CelInv, IsQuery
    <2>3. CASE IsQuery(r)
      <3>1. /\ r.at \in {"visit", "eval", "done"} /\ r.todo \in Seq(Clusters)
            /\ r.cands \in Seq(Entered) /\ \A i \in 1..Len(r.cands) : Was(r.cands[i])
        BY <1>1, <2>3 DEF CelInv
      <3>2. VisitQuery \/ EvalNext \/ Finish
        BY <1>1, <1>6, <2>3, <3>1 DEF Works, Visits, VisitStatus, VisitHealthz, VisitGVKs, VisitNamespaces, VisitList,
             VisitPast, VisitHistory, VisitVolatility, VisitFields, Visiting, Lookup, ReadFile, ReadVersion, IsQuery
      <3>3. CASE VisitQuery
        <4>1. r.todo # <<>> /\ r.args.cel # Bad
          BY <1>1, <2>3, <3>3 DEF VisitQuery, Visiting, IsQuery
        <4>2. s = [r EXCEPT !.at = "eval", !.todo = Tail(@), !.cands = Candidates(r.args, Head(r.todo))]
          BY <1>1, <3>3, <4>1 DEF VisitQuery, Cluster, Candidates
        <4>3. Tail(r.todo) \in Seq(Clusters) /\ Head(r.todo) \in Clusters
          BY <3>1, <4>1
        <4>4. PICK cands : cands = Candidates(r.args, Head(r.todo))
          OBVIOUS
        <4>5. cands \in Seq(Entered) /\ \A i \in 1..Len(cands) : Was(cands[i])
          BY <4>3, <4>4, CandidatesFacts, CandidatesWere
        <4>6. s.at = "eval" /\ s.todo = Tail(r.todo) /\ s.cands = cands /\ s.all = r.all
          BY <1>3, <4>2, <4>4 DEF Names
        <4> QED
          BY <1>4, <2>1, <4>3, <4>5, <4>6
      <3>4. CASE EvalNext
        BY <1>1, <2>3, <3>4, EvalKeepsCel
      <3>5. CASE Finish
        <4>1. s.at = "done" /\ s.todo = r.todo /\ s.cands = r.cands /\ s.all = r.all
          BY <1>1, <1>3, <3>5 DEF Finish, Names
        <4> QED
          BY <1>4, <2>1, <3>1, <4>1
      <3> QED
        BY <3>2, <3>3, <3>4, <3>5
    <2> QED
      BY <2>2, <2>3
  <1>7. CASE Builds \/ UNCHANGED vars
    <2>1. s = Idle \/ s = [r EXCEPT !.steady = FALSE] \/ s = r
      BY <1>1, <1>7 DEF Builds, Pull, BuildIndex, BuildHistory, Changes, vars
    <2>2. CASE s = Idle
      BY <1>1, <2>2 DEF CelInv, Idle, Names, IsQuery
    <2>3. CASE s = [r EXCEPT !.steady = FALSE] \/ s = r
      <3>1. /\ DOMAIN s = Names /\ s.do = r.do /\ s.args = r.args /\ s.at = r.at /\ s.todo = r.todo
            /\ s.cands = r.cands /\ s.all = r.all
        BY <1>3, <2>3 DEF Names
      <3>2. IsQuery(r) => /\ r.todo \in Seq(Clusters)
                          /\ r.cands \in Seq(Entered) /\ \A i \in 1..Len(r.cands) : Was(r.cands[i])
        BY <1>1 DEF CelInv
      <3> QED
        BY <1>4, <3>1, <3>2
    <2> QED
      BY <2>1, <2>2, <2>3
  <1> QED
    BY <1>5, <1>6, <1>7, NextSplits

\* With its index up to date, the working tree decides what it cannot.
LEMMA EvalIsOfTheFile ==
  ASSUME NEW c, idx[c] = Len(log[c]), NEW o \in Listed(c), NEW e, e.test = "is"
  PROVE  EvalResource(e, Entry(c, idx[c], o)) = "true" <=> Met(e, Entry(c, 0, o), idx[c])
  <1>1. PICK doc : doc = DocAt(c, idx[c], o)
    OBVIOUS
  <1>2. doc # None /\ OnDisk(c, o) = doc
    BY <1>1 DEF Listed, OnDisk
  <1>3. PICK map : map = ObjectMap(c, idx[c], o)
    OBVIOUS
  <1>4. DOMAIN map = DOMAIN doc \cap IndexedFields /\ \A f \in DOMAIN map : map[f] = doc[f]
    BY <1>1, <1>3 DEF ObjectMap
  <1>5. EvalResource(e, Entry(c, idx[c], o)) = IF Eval(e, map) # "no such key" THEN Eval(e, map) ELSE Eval(e, doc)
    BY <1>2, <1>3 DEF EvalResource, Entry
  <1>6. Eval(e, map) # "no such key" => Eval(e, map) = Eval(e, doc)
    BY <1>4 DEF Eval
  <1>7. Met(e, Entry(c, 0, o), idx[c]) <=> Eval(e, doc) = "true"
    BY <1>1, <1>2 DEF Met, Entry
  <1> QED
    BY <1>5, <1>6, <1>7

\* What a query keeps of a cluster: the entries of its list that pass, each once.
LEMMA KeptIs ==
  ASSUME DataTypes, NEW c \in Clusters, NEW a
  PROVE  LET s == Kept(a, c, Len(Candidates(a, c)))
             wanted(o) == o \in Range(Filtered(c, a)) /\ Meets(a, Entry(c, idx[c], o))
         IN /\ s \in Seq(Entered)
            /\ \A k \in 1..Len(s) : s[k] = Entry(c, idx[c], s[k].o) /\ wanted(s[k].o)
            /\ \A o : wanted(o) => \E k \in 1..Len(s) : s[k] = Entry(c, idx[c], o)
            /\ \A k, l \in 1..Len(s) : s[k] = s[l] => k = l
  <1>1. PICK f, t : f = Filtered(c, a) /\ t = Candidates(a, c)
    OBVIOUS
  <1>2. /\ f \in Seq(Objs) /\ t \in Seq(Entered) /\ Len(t) = Len(f) /\ Len(f) \in Nat
        /\ \A i \in 1..Len(f) : t[i] = Entry(c, idx[c], f[i])
    BY <1>1, CandidatesFacts, FilteredFacts
  <1>3. /\ \A o : o \in Range(f) <=> \E i \in 1..Len(f) : f[i] = o
        /\ \A k, l \in 1..Len(f) : f[k] = f[l] => k = l
    <2>1. \A k, l \in 1..Len(f) : f[k] = f[l] => k = l
      BY <1>1, FilteredIs
    <2>2. \A o : o \in Range(f) <=> \E i \in 1..Len(f) : f[i] = o
      BY <1>2, InRangeOf, Zenon
    <2> QED
      BY <2>1, <2>2
  <1>4. \A o : Entry(c, idx[c], o).o = o
    BY DEF Entry
  <1>5. \A k, l \in 1..Len(t) : t[k] = t[l] => k = l
    BY <1>2, <1>3, <1>4
  <1>6. PICK keep \in SUBSET (1..Len(t)) : keep = {i \in 1..Len(t) : Meets(a, t[i])}
    OBVIOUS
  <1>7. PICK s : s = SubSeqAt(t, keep)
    OBVIOUS
  <1>8. s = Kept(a, c, Len(Candidates(a, c)))
    BY <1>1, <1>6, <1>7 DEF Kept
  <1>9. /\ s \in Seq(Entered)
        /\ \A k \in 1..Len(s) : \E i \in keep : s[k] = t[i]
        /\ \A i \in keep : \E k \in 1..Len(s) : s[k] = t[i]
    <2>1. \A p \in Seq(Entered) : \A q \in SUBSET (1..Len(p)) :
            /\ SubSeqAt(p, q) \in Seq(Entered)
            /\ \A k \in 1..Len(SubSeqAt(p, q)) : \E i \in q : SubSeqAt(p, q)[k] = p[i]
            /\ \A i \in q : \E k \in 1..Len(SubSeqAt(p, q)) : SubSeqAt(p, q)[k] = p[i]
      BY SubSeqAtFacts
    <2> QED
      BY <1>2, <1>7, <2>1
  <1>10. \A k, l \in 1..Len(s) : s[k] = s[l] => k = l
    <2>1. \A p \in Seq(Entered) : \A q \in SUBSET (1..Len(p)) :
            (\A k, l \in 1..Len(p) : p[k] = p[l] => k = l)
            => \A k, l \in 1..Len(SubSeqAt(p, q)) : SubSeqAt(p, q)[k] = SubSeqAt(p, q)[l] => k = l
      BY SubSeqAtInjective
    <2> QED
      BY <1>2, <1>5, <1>7, <2>1
  <1>11. ASSUME NEW k \in 1..Len(s)
         PROVE  s[k] = Entry(c, idx[c], s[k].o) /\ s[k].o \in Range(f) /\ Meets(a, Entry(c, idx[c], s[k].o))
    <2>1. PICK i \in keep : s[k] = t[i]
      BY <1>9
    <2>2. i \in 1..Len(f) /\ Meets(a, t[i]) /\ t[i] = Entry(c, idx[c], f[i])
      BY <1>2, <1>6
    <2>3. s[k].o = f[i]
      BY <1>4, <2>1, <2>2
    <2> QED
      BY <1>3, <2>1, <2>2, <2>3
  <1>12. ASSUME NEW o, o \in Range(f), Meets(a, Entry(c, idx[c], o))
         PROVE  \E k \in 1..Len(s) : s[k] = Entry(c, idx[c], o)
    <2>1. PICK i \in 1..Len(f) : f[i] = o
      BY <1>3, <1>12
    <2>2. i \in keep /\ t[i] = Entry(c, idx[c], o)
      BY <1>2, <1>6, <1>12, <2>1
    <2> QED
      BY <1>9, <2>2
  <1> QED
    BY <1>1, <1>8, <1>9, <1>10, <1>11, <1>12

\* The list of a query is as long as there are resources it keeps.
LEMMA QueryCounts ==
  ASSUME DataTypes, NamesDiffer, NEW a, a.cel \notin {NoCel, Bad}, NEW T,
         \A x : x \in T <=> /\ x \in Range(Resolve("GetCurrentSnapshot", a.cluster)) \X Objs
                            /\ x[2] \in Range(Filtered(x[1], a)) /\ Meets(a, Entry(x[1], idx[x[1]], x[2]))
  PROVE  /\ Gathered("GetCurrentSnapshot", a) \in Seq(Entered)
         /\ Len(Gathered("GetCurrentSnapshot", a)) = Cardinality(T)
  <1>1. PICK op : op = "GetCurrentSnapshot"
    OBVIOUS
  <1>2. PICK cs : cs = Visited(op, a)
    OBVIOUS
  <1>3. /\ cs \in Seq(Clusters) /\ Len(cs) \in Nat /\ cs = Resolve("GetCurrentSnapshot", a.cluster)
        /\ \A i, j \in 1..Len(cs) : cs[i] = cs[j] => i = j
    <2>1. cs \in Seq(Clusters) /\ Len(cs) \in Nat /\ cs = Resolve("GetCurrentSnapshot", a.cluster)
      BY <1>1, <1>2, VisitedFacts DEF Visited
    <2> QED
      BY <1>2, <2>1, VisitedOnce
  <1>4. PICK F : F = Parts(op, a)
    OBVIOUS
  <1>5. \A i \in 1..Len(cs) : F[i] = Kept(a, cs[i], Len(Candidates(a, cs[i]))) /\ cs[i] \in Clusters
    BY <1>1, <1>2, <1>3, <1>4 DEF Parts, Part
  <1>6. ASSUME NEW i \in 1..Len(cs)
        PROVE  /\ F[i] \in Seq(Entered)
               /\ \A k \in 1..Len(F[i]) :
                    /\ F[i][k] = Entry(cs[i], idx[cs[i]], F[i][k].o) /\ F[i][k].o \in Range(Filtered(cs[i], a))
                    /\ Meets(a, Entry(cs[i], idx[cs[i]], F[i][k].o))
               /\ \A o : o \in Range(Filtered(cs[i], a)) /\ Meets(a, Entry(cs[i], idx[cs[i]], o))
                         => \E k \in 1..Len(F[i]) : F[i][k] = Entry(cs[i], idx[cs[i]], o)
               /\ \A k, l \in 1..Len(F[i]) : F[i][k] = F[i][l] => k = l
    <2>1. PICK c \in Clusters : c = cs[i]
      BY <1>5
    <2>2. F[i] = Kept(a, c, Len(Candidates(a, c)))
      BY <1>5, <2>1
    <2> QED
      BY <2>1, <2>2, KeptIs
  <1>7. \A c, v, o : Entry(c, v, o).c = c /\ Entry(c, v, o).o = o
    BY DEF Entry
  <1>8. \A i, j \in 1..Len(cs) : \A k \in 1..Len(F[i]) : \A l \in 1..Len(F[j]) :
          F[i][k] = F[j][l] => i = j /\ k = l
    <2> SUFFICES ASSUME NEW i \in 1..Len(cs), NEW j \in 1..Len(cs), NEW k \in 1..Len(F[i]), NEW l \in 1..Len(F[j]),
                        F[i][k] = F[j][l]
                 PROVE  i = j /\ k = l
      OBVIOUS
    <2>1. F[i][k].c = cs[i] /\ F[j][l].c = cs[j]
      BY <1>6, <1>7
    <2>2. i = j
      BY <1>3, <2>1
    <2> QED
      BY <1>6, <2>2
  <1>9. PICK s : s = Gathered(op, a) /\ s = Chained(F, Len(cs))
    BY <1>2, <1>4 DEF Gathered
  <1>10. /\ s \in Seq(Entered) /\ Len(s) \in Nat
         /\ \A l \in 1..Len(s) : \E i \in 1..Len(cs) : \E k \in 1..Len(F[i]) : s[l] = F[i][k]
         /\ \A i \in 1..Len(cs) : \A k \in 1..Len(F[i]) : \E l \in 1..Len(s) : s[l] = F[i][k]
         /\ \A l, m \in 1..Len(s) : s[l] = s[m] => l = m
    <2>1. PICK n \in Nat : n = Len(cs)
      BY <1>3
    <2>2. \A i \in 1..n : F[i] \in Seq(Entered)
      BY <1>6, <2>1
    <2>3. s = Chained(F, n)
      BY <1>9, <2>1
    <2>4. /\ Chained(F, n) \in Seq(Entered) /\ Len(Chained(F, n)) \in Nat
          /\ \A l \in 1..Len(Chained(F, n)) : \E i \in 1..n : \E k \in 1..Len(F[i]) : Chained(F, n)[l] = F[i][k]
          /\ \A i \in 1..n : \A k \in 1..Len(F[i]) : \E l \in 1..Len(Chained(F, n)) : Chained(F, n)[l] = F[i][k]
          /\ (\A i, j \in 1..n : \A k \in 1..Len(F[i]) : \A l \in 1..Len(F[j]) :
                F[i][k] = F[j][l] => i = j /\ k = l)
             => \A l, m \in 1..Len(Chained(F, n)) : Chained(F, n)[l] = Chained(F, n)[m] => l = m
      BY <2>2, ChainedElements
    <2> QED
      BY <1>8, <2>1, <2>3, <2>4
  <1>11. \A c : c \in Range(cs) <=> \E i \in 1..Len(cs) : cs[i] = c
    BY <1>3, InRangeOf, ZenonT(30)
  <1>12. \A x : x \in T <=> /\ x \in Range(cs) \X Objs /\ x[2] \in Range(Filtered(x[1], a))
                            /\ Meets(a, Entry(x[1], idx[x[1]], x[2]))
    BY <1>3
  <1>13. PICK g : g = [l \in 1..Len(s) |-> <<s[l].c, s[l].o>>]
    OBVIOUS
  <1>14. ASSUME NEW l \in 1..Len(s)
         PROVE  g[l] \in T /\ g[l] = <<s[l].c, s[l].o>> /\ s[l] = Entry(s[l].c, idx[s[l].c], s[l].o)
    <2>1. PICK i \in 1..Len(cs) : \E k \in 1..Len(F[i]) : s[l] = F[i][k]
      BY <1>10
    <2>2. PICK k \in 1..Len(F[i]) : s[l] = F[i][k]
      BY <2>1
    <2>3. /\ s[l] = Entry(cs[i], idx[cs[i]], s[l].o) /\ s[l].o \in Range(Filtered(cs[i], a))
          /\ Meets(a, Entry(cs[i], idx[cs[i]], s[l].o))
      BY <1>6, <2>2
    <2>4. s[l].c = cs[i] /\ s[l].c \in Range(cs) /\ s[l].o \in Objs
      <3>1. s[l] \in Entered
        BY <1>10
      <3>2. s[l].o \in Objs
        BY <3>1 DEF Entered
      <3>3. Entry(cs[i], idx[cs[i]], s[l].o).c = cs[i]
        BY <1>7
      <3>4. s[l].c = cs[i]
        BY <2>3, <3>3
      <3> QED
        BY <1>11, <3>2, <3>4
    <2>5. g[l] = <<s[l].c, s[l].o>>
      BY <1>13
    <2>6. PICK x : x = g[l]
      OBVIOUS
    <2>7. x \in Range(cs) \X Objs /\ x[1] = cs[i] /\ x[2] = s[l].o
      BY <2>4, <2>5, <2>6
    <2> QED
      BY <1>12, <2>3, <2>4, <2>5, <2>6, <2>7
  <1>15. ASSUME NEW x \in T PROVE \E l \in 1..Len(s) : g[l] = x
    <2>1. /\ x \in Range(cs) \X Objs /\ x[2] \in Range(Filtered(x[1], a))
          /\ Meets(a, Entry(x[1], idx[x[1]], x[2]))
      BY <1>12
    <2>2. PICK i \in 1..Len(cs) : cs[i] = x[1]
      BY <1>11, <2>1
    <2>3. PICK k \in 1..Len(F[i]) : F[i][k] = Entry(cs[i], idx[cs[i]], x[2])
      BY <1>6, <2>1, <2>2
    <2>4. PICK l \in 1..Len(s) : s[l] = F[i][k]
      BY <1>10
    <2>5. s[l].c = x[1] /\ s[l].o = x[2]
      BY <1>7, <2>2, <2>3, <2>4
    <2> QED
      BY <1>13, <2>1, <2>5
  <1>16. ASSUME NEW l \in 1..Len(s), NEW m \in 1..Len(s), g[l] = g[m] PROVE l = m
    <2>1. s[l].c = s[m].c /\ s[l].o = s[m].o
      BY <1>14, <1>16
    <2>2. s[l] = s[m]
      BY <1>14, <2>1
    <2> QED
      BY <1>10, <2>2
  <1>17. Cardinality(T) = Len(s)
    <2>1. PICK n \in Nat : n = Len(s)
      BY <1>10
    <2>2. Lists(g, n, T)
      BY <1>14, <1>15, <1>16, <2>1 DEF Lists
    <2>3. Cardinality(T) = n
      BY <2>2, ListedOnce
    <2> QED
      BY <2>1, <2>3
  <1> QED
    BY <1>1, <1>9, <1>10, <1>17

LEMMA CelMeans ==
  ASSUME DataTypes, SteadyInv, CelInv, NamesDiffer
  PROVE  CelAnswersAreTrue
  <1> DEFINE e == req.args.cel
             reach == Range(Resolve(req.do, req.args.cluster))
             meets(c, n, o) == DocAt(c, n, o) # None /\ Eval(e, DocAt(c, n, o)) = "true"
             truly == {x \in reach \X Objs :
                         x[2] \in Range(Filtered(x[1], req.args)) /\ Named(req.args, x[2])
                         /\ meets(x[1], idx[x[1]], x[2])}
  <1> SUFFICES ASSUME req.do = "GetCurrentSnapshot", req.args.cel \notin {NoCel, Bad}, e.test = "is"
               PROVE  /\ \A x \in Range(req.all) : \E n \in x.v..Len(log[x.c]) : meets(x.c, n, x.o)
                      /\ req.at = "done" /\ req.steady /\ Found(req) /\ (\A c \in reach : idx[c] = Len(log[c]))
                         => req.out.total = Cardinality(truly)
    BY DEF CelAnswersAreTrue
  <1>1. PICK r, a : r = req /\ a = req.args /\ a = r.args
    OBVIOUS
  <1>2. r.all \in Seq(Entered) /\ \A i \in 1..Len(r.all) : MetSince(e, r.all[i])
    BY <1>1 DEF CelInv, IsQuery
  <1>3. \A x \in Range(r.all) : MetSince(e, x)
    <2>1. \A x : x \in Range(r.all) <=> \E i \in 1..Len(r.all) : r.all[i] = x
      BY <1>2, InRangeOf, Zenon
    <2> QED
      BY <1>2, <2>1
  <1>4. \A x \in Range(req.all) : \E n \in x.v..Len(log[x.c]) : meets(x.c, n, x.o)
    BY <1>1, <1>3 DEF MetSince, Met
  <1>5. ASSUME req.at = "done", req.steady, Found(req), \A c \in reach : idx[c] = Len(log[c])
        PROVE  req.out.total = Cardinality(truly)
    <2>1. PICK all, T : /\ all = Gathered("GetCurrentSnapshot", a)
                        /\ T = {x \in Range(Resolve("GetCurrentSnapshot", a.cluster)) \X Objs :
                                  x[2] \in Range(Filtered(x[1], a)) /\ Meets(a, Entry(x[1], idx[x[1]], x[2]))}
      OBVIOUS
    <2>2. Len(all) = Cardinality(T)
      BY <1>1, <2>1, QueryCounts
    <2>3. Answered(r) /\ r.do = "GetCurrentSnapshot" /\ r.out.code = "ok"
      BY <1>1, <1>5 DEF SteadyInv, Progress, Found
    <2>4. ~Refused(r.do, a) /\ \E p \in Results(r.do, a, all) : r.out = Answer(p.code, Encode(r.do, p.items), p.total)
      BY <1>1, <2>1, <2>3 DEF Answered, OneFile
    <2>5. PICK p : p \in Results(r.do, a, all) /\ r.out = Answer(p.code, Encode(r.do, p.items), p.total)
      BY <2>4
    <2>6. p = Page(a, all)
      BY <2>3, <2>5 DEF Results
    <2>7. p.code = "ok" /\ r.out.total = p.total
      BY <2>3, <2>5 DEF Answer
    <2>8. p.total = Len(all)
      BY <2>6, <2>7 DEF Page, Answer
    <2>9. truly = T
      <3>1. ASSUME NEW x \in reach \X Objs, x[2] \in Range(Filtered(x[1], a))
            PROVE  Named(a, x[2]) /\ meets(x[1], idx[x[1]], x[2]) <=> Meets(a, Entry(x[1], idx[x[1]], x[2]))
        <4>1. PICK c, o : c = x[1] /\ o = x[2] /\ idx[c] = Len(log[c])
          BY <1>5, <3>1
        <4>2. o \in Listed(c)
          BY <3>1, <4>1, FilteredIs
        <4>3. EvalResource(e, Entry(c, idx[c], o)) = "true" <=> Met(e, Entry(c, 0, o), idx[c])
          BY <4>1, <4>2, EvalIsOfTheFile
        <4>4. Met(e, Entry(c, 0, o), idx[c]) <=> meets(c, idx[c], o)
          BY DEF Met, Entry
        <4>5. Entry(c, idx[c], o).o = o
          BY DEF Entry
        <4> QED
          BY <1>1, <4>1, <4>3, <4>4, <4>5 DEF Meets
      <3>2. reach = Range(Resolve("GetCurrentSnapshot", a.cluster))
        BY <1>1
      <3> HIDE DEF reach, meets
      <3> QED
        BY <1>1, <2>1, <3>1, <3>2
    <2> QED
      BY <1>1, <2>2, <2>7, <2>8, <2>9
  <1> QED
    BY <1>4, <1>5

\* A comparison of a field decides by what the backup held, for every resource
\* that is kept, and when indexes and files agree exactly the resources that
\* meet it are counted: Index.Query, which trusts the indexed fields and reads
\* the file for the others, is the evaluation of the whole file.
THEOREM CelAnswers ==
  ASSUME NamesDiffer
  PROVE  Spec => []CelAnswersAreTrue
  <1>1. Init => CelInv
    BY DEF Init, CelInv, Idle, Names, IsQuery
  <1>2. DataTypes /\ CelInv /\ [Next]_vars => CelInv'
    BY CelStep
  <1>3. DataTypes /\ SteadyInv /\ CelInv => CelAnswersAreTrue
    BY CelMeans
  <1> QED
    BY <1>1, <1>2, <1>3, SteadyHolds, PTL DEF Spec

-----------------------------------------------------------------------------
(* What a request calls *)

\* The raw arguments and the parameters of the operations, by the call they
\* end in.
SnapshotParams == Over(GetSnapshotWhen, Over(GetSnapshotWhere, Over(GetSnapshotCel, GetSnapshotPage)))
HistoryParams  == Over(GetHistoryWhere, Over(GetHistoryWhen, Over(GetHistoryType, GetHistoryPage)))
VolatilityParams == Over(GetVolatilityWhere, Over(GetVolatilityOver, GetVolatilityPage))
FieldsParams   == Over(GetVolatilityFieldsWhere, GetVolatilityFieldsOver)
DiffParams     == Over(GetDiffWhere, GetDiffCommits)

\* The call a REST request ends in, if it ends in one to op.
RestCall(op, q) ==
  CASE op \in {"GetCurrentSnapshot", "GetHistoricalSnapshot"} ->
         ~Malformed(SnapshotParams, q) /\ Call(op, Limited(Decode(SnapshotParams, q))) = GetSnapshot(Decode(SnapshotParams, q))
    [] op = "GetHistory"          -> ~Malformed(HistoryParams, q)
    [] op = "GetVolatility"       -> ~Malformed(VolatilityParams, q)
    [] op = "GetVolatilityFields" -> ~Malformed(FieldsParams, q)
    [] op = "GetDiff"             -> ~Malformed(DiffParams, q)
    [] op = "GetResource"         -> ~Malformed(GetResourceWhere, q)
    [] op = "ListGVKs"            -> ~Malformed(ListGVKsWhere, q)
    [] op = "ListNamespaces"      -> ~Malformed(ListNamespacesWhere, q)
    [] OTHER                      -> TRUE
RestArgs(op, q) ==
  CASE op \in {"GetCurrentSnapshot", "GetHistoricalSnapshot"} -> Limited(Decode(SnapshotParams, q))
    [] op = "GetHistory"          -> Limited(Decode(HistoryParams, q))
    [] op = "GetVolatility"       -> Limited(Decode(VolatilityParams, q))
    [] op = "GetVolatilityFields" -> Over([limit |-> 0], Decode(FieldsParams, q))
    [] op = "GetDiff"             -> Decode(DiffParams, q)
    [] op = "GetResource"         -> Decode(GetResourceWhere, q)
    [] op = "ListGVKs"            -> Decode(ListGVKsWhere, q)
    [] op = "ListNamespaces"      -> Decode(ListNamespacesWhere, q)
    [] OTHER                      -> <<>>
McpCall(op, q) ==
  CASE op \in {"GetCurrentSnapshot", "GetHistoricalSnapshot"} -> get_snapshot(q)
    [] op = "GetHistory"          -> get_history(q)
    [] op = "GetVolatility"       -> get_volatility(q)
    [] op = "GetVolatilityFields" -> get_volatility_fields(q)
    [] op = "GetDiff"             -> get_diff(q)
    [] op = "GetResource"         -> get_resource(q)
    [] op = "ListGVKs"            -> list_gvks(q)
    [] op = "ListNamespaces"      -> list_namespaces(q)
    [] OTHER                      -> list_clusters(q)

LEMMA CallFacts ==
  ASSUME NEW op, NEW args
  PROVE  Call(op, args).do = op /\ Call(op, args).args = Over(args, NoArgs)
  BY DEF Call

LEMMA ToolCalls ==
  ASSUME NEW name, NEW q, Tool(name, q).do # "reply"
  PROVE  Tool(name, q) = McpCall(Tool(name, q).do, q)
  <1>1. \A code : Reply(code).do = "reply"
    BY DEF Reply
  <1>2. /\ list_clusters(q).do = "ListClusters" /\ list_gvks(q).do = "ListGVKs"
        /\ list_namespaces(q).do = "ListNamespaces" /\ get_resource(q).do = "GetResource"
        /\ get_history(q).do = "GetHistory" /\ get_diff(q).do = "GetDiff"
        /\ get_volatility(q).do = "GetVolatility" /\ get_volatility_fields(q).do = "GetVolatilityFields"
    BY CallFacts DEF list_clusters, list_gvks, list_namespaces, get_resource, get_history, get_diff, get_volatility,
         get_volatility_fields
  <1>3. get_snapshot(q).do \in {"GetCurrentSnapshot", "GetHistoricalSnapshot", "reply"}
    BY <1>1, CallFacts DEF get_snapshot
  <1> QED
    BY <1>1, <1>2, <1>3 DEF Tool, McpCall

LEMMA OperationCalls ==
  ASSUME NEW op, NEW q, NEW d, d = Operation(op, q), d.do # "reply"
  PROVE  d = Call(d.do, RestArgs(d.do, q)) /\ RestCall(d.do, q)
  <1>1. \A code : Reply(code).do = "reply"
    BY DEF Reply
  <1>2. \A o, args : Call(o, args).do = o
    BY CallFacts
  <1>3. CASE op = "Healthz"
    BY <1>2, <1>3 DEF Operation, handleHealthzRequest, RestArgs, RestCall
  <1>4. CASE op = "ListClusters"
    BY <1>2, <1>4 DEF Operation, handleListClustersRequest, RestArgs, RestCall
  <1>5. CASE op = "GetDiff"
    BY <1>1, <1>2, <1>5 DEF Operation, handleGetDiffRequest, DiffParams, RestArgs, RestCall
  <1>6. CASE op = "ListGVKs"
    BY <1>1, <1>2, <1>6 DEF Operation, handleListGVKsRequest, RestArgs, RestCall
  <1>7. CASE op = "GetHistory"
    BY <1>1, <1>2, <1>7 DEF Operation, handleGetHistoryRequest, GetHistory, HistoryParams, RestArgs, RestCall
  <1>8. CASE op = "ListNamespaces"
    BY <1>1, <1>2, <1>8 DEF Operation, handleListNamespacesRequest, RestArgs, RestCall
  <1>9. CASE op = "GetResource"
    BY <1>1, <1>2, <1>9 DEF Operation, handleGetResourceRequest, RestArgs, RestCall
  <1>10. CASE op = "GetSnapshot"
    <2>1. PICK p : p = Decode(SnapshotParams, q)
      OBVIOUS
    <2>2. ~Malformed(SnapshotParams, q) /\ d = GetSnapshot(p)
      BY <1>1, <1>10, <2>1 DEF Operation, handleGetSnapshotRequest, SnapshotParams
    <2>3. d.do \in {"GetCurrentSnapshot", "GetHistoricalSnapshot"} /\ d = Call(d.do, Limited(p))
      BY <1>1, <1>2, <2>2 DEF GetSnapshot
    <2> QED
      BY <2>1, <2>2, <2>3 DEF RestArgs, RestCall
  <1>11. CASE op = "GetStatus"
    BY <1>2, <1>11 DEF Operation, handleGetStatusRequest, RestArgs, RestCall
  <1>12. CASE op = "GetVolatility"
    BY <1>1, <1>2, <1>12 DEF Operation, handleGetVolatilityRequest, GetVolatility, VolatilityParams, RestArgs, RestCall
  <1>13. CASE op \notin {"Healthz", "ListClusters", "GetDiff", "ListGVKs", "GetHistory", "ListNamespaces", "GetResource",
                         "GetSnapshot", "GetStatus", "GetVolatility"}
    <2>1. d = handleGetVolatilityFieldsRequest(q)
      BY <1>13 DEF Operation
    <2>2. PICK p : p = Over([limit |-> 0], Decode(FieldsParams, q))
      OBVIOUS
    <2>3. ~Malformed(FieldsParams, q) /\ d = Call("GetVolatilityFields", p)
      BY <1>1, <2>1, <2>2 DEF handleGetVolatilityFieldsRequest, GetVolatilityFields, FieldsParams
    <2> QED
      BY <1>2, <2>2, <2>3 DEF RestArgs, RestCall
  <1> QED
    BY <1>3, <1>4, <1>5, <1>6, <1>7, <1>8, <1>9, <1>10, <1>11, <1>12, <1>13

\* A call of REST, and one of an MCP tool.
LEMMA DispatchCalls ==
  ASSUME NEW a, NEW d, d = Dispatch(a), d.do # "reply"
  PROVE  /\ a.path = <<"mcp">> => d = McpCall(d.do, a.q)
         /\ a.path # <<"mcp">> => d = Call(d.do, RestArgs(d.do, a.q)) /\ RestCall(d.do, a.q)
  <1>1. \A code : Reply(code).do = "reply"
    BY DEF Reply
  <1>2. IF a.path = <<"mcp">> THEN d = Tool(a.tool, a.q)
        ELSE d = ServeHTTP(a.path, a.method, a.q)
    BY <1>1 DEF Dispatch
  <1>3. CASE a.path = <<"mcp">>
    BY <1>2, <1>3, ToolCalls
  <1>4. CASE a.path # <<"mcp">>
    <2>1. d = Operation(Routes[a.path], a.q)
      BY <1>1, <1>2, <1>4 DEF ServeHTTP
    <2> QED
      BY <1>4, <2>1, OperationCalls
  <1> QED
    BY <1>3, <1>4

\* Numbers of a query that are numbers are ints.
LEMMA Numbers ==
  ASSUME NEW a \in Requests, NEW x \in DOMAIN a.q, x \in {"limit", "offset", "commits", "threshold"}, a.q[x] # Bad
  PROVE  a.q[x] \in Int /\ -(MaxInt + 1) <= a.q[x] /\ a.q[x] <= MaxInt
  BY ApiConstants

LEMMA MaxIntFacts == MaxInt \in Nat /\ MaxInt >= 50
  BY ApiConstants

\* The page of a request is of ints, and its size positive.
Paged == {"GetCurrentSnapshot", "GetHistoricalSnapshot", "GetHistory", "GetVolatility"}

LEMMA RestPage ==
  ASSUME NEW a \in Requests, NEW params, {"limit", "offset"} \subseteq DOMAIN params,
         params["limit"] = Number(50), params["offset"] = Number(0), ~Malformed(params, a.q)
  PROVE  LET p == Over(Limited(Decode(params, a.q)), NoArgs)
         IN p.limit \in 1..MaxInt /\ p.offset \in -(MaxInt + 1)..MaxInt
  <1>1. PICK q : q = a.q
    OBVIOUS
  <1>2. PICK p : p = Decode(params, q)
    OBVIOUS
  <1>3. /\ DOMAIN p = DOMAIN params
        /\ p["limit"] = IF "limit" \in DOMAIN q THEN q["limit"] ELSE 50
        /\ p["offset"] = IF "offset" \in DOMAIN q THEN q["offset"] ELSE 0
    BY <1>2 DEF Decode, Number, Param
  <1>4. \A x \in {"limit", "offset"} : x \in DOMAIN q => q[x] # Bad
    BY <1>1 DEF Malformed, Refuses, Number, Param
  <1>5. \A x \in {"limit", "offset"} : x \in DOMAIN q => q[x] \in Int /\ -(MaxInt + 1) <= q[x] /\ q[x] <= MaxInt
    BY <1>1, <1>4, Numbers
  <1>6. p["limit"] \in Int /\ p["limit"] <= MaxInt /\ p["offset"] \in -(MaxInt + 1)..MaxInt
    BY <1>3, <1>5, MaxIntFacts
  <1>7. PICK u : u = Limited(p)
    OBVIOUS
  <1>8. DOMAIN u = DOMAIN p /\ u["offset"] = p["offset"] /\ u["limit"] = IF p["limit"] <= 0 THEN 50 ELSE p["limit"]
    BY <1>3, <1>7 DEF Limited
  <1>9. u["limit"] \in 1..MaxInt
    BY <1>6, <1>8, MaxIntFacts
  <1>10. Over(u, NoArgs)["limit"] = u["limit"] /\ Over(u, NoArgs)["offset"] = u["offset"]
    BY <1>3, <1>8 DEF Over
  <1> QED
    BY <1>1, <1>2, <1>6, <1>7, <1>8, <1>9, <1>10

LEMMA OverOne ==
  \A f, g : /\ DOMAIN Over(f, g) = DOMAIN f \cup DOMAIN g
            /\ \A x \in DOMAIN f : Over(f, g)[x] = f[x]
            /\ \A x \in DOMAIN g \ DOMAIN f : Over(f, g)[x] = g[x]
  BY DEF Over

LEMMA McpPageFacts ==
  ASSUME NEW a \in Requests
  PROVE  /\ DOMAIN McpPage(a.q) = {"limit", "offset"}
         /\ McpPage(a.q).limit \in 1..MaxInt /\ McpPage(a.q).offset \in 0..MaxInt
  <1>1. PICK q : q = a.q
    OBVIOUS
  <1>2. \A x \in {"limit", "offset"} : x \in DOMAIN q /\ q[x] # Bad => q[x] \in Int /\ -(MaxInt + 1) <= q[x] /\ q[x] <= MaxInt
    BY <1>1, Numbers
  <1>3. Positive(q, "limit", 50) \in 1..MaxInt
    BY <1>2, MaxIntFacts DEF Positive
  <1>4. NotNegative(q, "offset") \in 0..MaxInt
    BY <1>2, MaxIntFacts DEF NotNegative
  <1> QED
    BY <1>1, <1>3, <1>4 DEF McpPage

LEMMA PageParams ==
  ASSUME NEW params \in {SnapshotParams, HistoryParams, VolatilityParams}
  PROVE  {"limit", "offset"} \subseteq DOMAIN params /\ params["limit"] = Number(50) /\ params["offset"] = Number(0)
  <1>1. CASE params = SnapshotParams
    BY <1>1 DEF SnapshotParams, GetSnapshotWhen, GetSnapshotWhere, GetSnapshotCel, GetSnapshotPage, Over
  <1>2. CASE params = HistoryParams
    BY <1>2 DEF HistoryParams, GetHistoryWhere, GetHistoryWhen, GetHistoryType, GetHistoryPage, Over
  <1>3. CASE params = VolatilityParams
    BY <1>3 DEF VolatilityParams, GetVolatilityWhere, GetVolatilityOver, GetVolatilityPage, Over
  <1> QED
    BY <1>1, <1>2, <1>3

LEMMA PagedArgs ==
  ASSUME NEW a \in Requests, NEW d, d = Dispatch(a), d.do \in Paged
  PROVE  d.args.limit \in 1..MaxInt /\ d.args.offset \in -(MaxInt + 1)..MaxInt
  <1>1. d.do # "reply"
    BY DEF Paged
  <1>2. CASE a.path # <<"mcp">>
    <2>1. PICK params \in {SnapshotParams, HistoryParams, VolatilityParams} :
            ~Malformed(params, a.q) /\ RestArgs(d.do, a.q) = Limited(Decode(params, a.q))
      BY <1>1, <1>2, DispatchCalls DEF RestCall, RestArgs, Paged
    <2>2. d = Call(d.do, RestArgs(d.do, a.q))
      BY <1>1, <1>2, DispatchCalls
    <2>3. d.args = Over(Limited(Decode(params, a.q)), NoArgs)
      BY <2>1, <2>2, CallFacts
    <2> QED
      BY <2>1, <2>3, PageParams, RestPage
  <1>3. CASE a.path = <<"mcp">>
    <2>1. PICK q, page : q = a.q /\ page = McpPage(q)
      OBVIOUS
    <2>2. DOMAIN page = {"limit", "offset"} /\ page.limit \in 1..MaxInt /\ page.offset \in 0..MaxInt
      BY <2>1, McpPageFacts
    <2>3. \E f : /\ {"limit", "offset"} \cap DOMAIN f = {}
                 /\ d.args = Over(Over(f, page), NoArgs) \/ \E g : /\ {"limit", "offset"} \cap DOMAIN g = {}
                                                                  /\ d.args = Over(Over(g, Over(f, page)), NoArgs)
      <3>1. d = McpCall(d.do, q)
        BY <1>1, <1>3, <2>1, DispatchCalls
      <3>2. CASE d.do \in {"GetCurrentSnapshot", "GetHistoricalSnapshot"}
        <4>1. PICK f : f = Strings(q, Scope \cup {"cel", "datetime"})
          OBVIOUS
        <4>2. d = get_snapshot(q)
          BY <3>1, <3>2 DEF McpCall
        <4>3. \A code : Reply(code).do = "reply"
          BY DEF Reply
        <4>4. d.args = Over(Over(f, page), NoArgs)
          BY <1>1, <2>1, <4>1, <4>2, <4>3, CallFacts DEF get_snapshot
        <4>5. {"limit", "offset"} \cap DOMAIN f = {}
          BY <4>1 DEF Strings, Scope
        <4> QED
          BY <4>4, <4>5
      <3>3. CASE d.do = "GetHistory"
        <4>1. PICK f, g : /\ f = Strings(q, Scope \cup {"changeType"})
                          /\ g = [since |-> Instant(q, "since"), until |-> Instant(q, "until")]
          OBVIOUS
        <4>2. d = get_history(q)
          BY <3>1, <3>3 DEF McpCall
        <4>3. d.args = Over(Over(g, Over(f, page)), NoArgs)
          BY <2>1, <4>1, <4>2, CallFacts DEF get_history
        <4>4. {"limit", "offset"} \cap DOMAIN f = {} /\ {"limit", "offset"} \cap DOMAIN g = {}
          BY <4>1 DEF Strings, Scope
        <4> QED
          BY <4>3, <4>4
      <3>4. CASE d.do = "GetVolatility"
        <4>1. PICK f, g : /\ f = Strings(q, Scope)
                          /\ g = [commits |-> Positive(q, "commits", 50),
                                  threshold |-> IF "threshold" \in DOMAIN q /\ q["threshold"] # Bad THEN q["threshold"] ELSE 0]
          OBVIOUS
        <4>2. d = get_volatility(q)
          BY <3>1, <3>4 DEF McpCall
        <4>3. d.args = Over(Over(g, Over(f, page)), NoArgs)
          BY <2>1, <4>1, <4>2, CallFacts DEF get_volatility
        <4>4. {"limit", "offset"} \cap DOMAIN f = {} /\ {"limit", "offset"} \cap DOMAIN g = {}
          BY <4>1 DEF Strings, Scope
        <4> QED
          BY <4>3, <4>4
      <3> QED
        BY <3>2, <3>3, <3>4 DEF Paged
    <2>4. ASSUME NEW x \in {"limit", "offset"} PROVE d.args[x] = page[x]
      <3>1. PICK f : /\ {"limit", "offset"} \cap DOMAIN f = {}
                     /\ d.args = Over(Over(f, page), NoArgs) \/ \E g : /\ {"limit", "offset"} \cap DOMAIN g = {}
                                                                      /\ d.args = Over(Over(g, Over(f, page)), NoArgs)
        BY <2>3
      <3>2. PICK h : h = Over(f, page)
        OBVIOUS
      <3>3. x \in DOMAIN h /\ h[x] = page[x]
        <4>1. x \in DOMAIN page \ DOMAIN f
          BY <2>2, <3>1
        <4> QED
          BY <3>2, <4>1 DEF Over
      <3>4. CASE d.args = Over(h, NoArgs)
        BY <3>3, <3>4, OverOne
      <3>5. CASE d.args # Over(h, NoArgs)
        <4>1. PICK g : {"limit", "offset"} \cap DOMAIN g = {} /\ d.args = Over(Over(g, h), NoArgs)
          BY <3>1, <3>2, <3>5
        <4>2. x \in DOMAIN Over(g, h) /\ Over(g, h)[x] = h[x]
          <5>1. x \in DOMAIN h \ DOMAIN g
            BY <3>3, <4>1
          <5> QED
            BY <5>1 DEF Over
        <4> QED
          BY <3>3, <4>1, <4>2, OverOne
      <3> QED
        BY <3>4, <3>5
    <2> QED
      BY <2>2, <2>4, MaxIntFacts
  <1> QED
    BY <1>2, <1>3

-----------------------------------------------------------------------------
(* Pages *)

LEMMA LeastOfTwo ==
  ASSUME NEW a \in Int, NEW b \in Int
  PROVE  Min({a, b}) = IF a <= b THEN a ELSE b
  <1>1. CASE a <= b
    <2>1. \A x \in {a, b} : (\A y \in {a, b} : x <= y) <=> x = a
      BY <1>1
    <2> QED
      BY <1>1, <2>1 DEF Min
  <1>2. CASE ~(a <= b)
    <2>1. \A x \in {a, b} : (\A y \in {a, b} : x <= y) <=> x = b
      BY <1>2
    <2> QED
      BY <1>2, <2>1 DEF Min
  <1> QED
    BY <1>1, <1>2

\* Where a page of a list of n begins.
Begin(a, n) == IF a.offset <= n THEN a.offset ELSE n

\* An answer that is a page is a slice of the list: a sum that overflows is a
\* panic.
LEMMA PageIs ==
  ASSUME NEW a, a.limit \in 1..MaxInt, a.offset \in -(MaxInt + 1)..MaxInt,
         NEW S, NEW s \in Seq(S), Page(a, s).code = "ok"
  PROVE  /\ a.offset \in Nat /\ a.limit \in Nat /\ Len(s) \in Nat /\ Begin(a, Len(s)) \in 0..Len(s)
         /\ Page(a, s).total = Len(s)
         /\ Page(a, s).items \in Seq(S)
         /\ Len(Page(a, s).items) = IF Len(s) - Begin(a, Len(s)) <= a.limit THEN Len(s) - Begin(a, Len(s)) ELSE a.limit
         /\ \A i \in 1..Len(Page(a, s).items) :
              /\ Begin(a, Len(s)) + i \in 1..Len(s)
              /\ Page(a, s).items[i] = s[Begin(a, Len(s)) + i]
  <1>1. PICK n, o, l, b : n = Len(s) /\ o = a.offset /\ l = a.limit /\ b = Begin(a, n)
    OBVIOUS
  <1>2. n \in Nat /\ o \in Int /\ -(MaxInt + 1) <= o /\ o <= MaxInt /\ l \in Nat /\ 1 <= l /\ l <= MaxInt /\ MaxInt \in Nat
    BY <1>1, MaxIntFacts
  <1>3. b = (IF o <= n THEN o ELSE n) /\ b \in Int /\ b <= n /\ b <= o
    BY <1>1, <1>2 DEF Begin
  <1>4. Min({o, n}) = b
    BY <1>2, <1>3, LeastOfTwo
  <1>5. PICK e : e = Min({Plus(b, l), n})
    OBVIOUS
  <1>6. paginate(o, l, n) = [start |-> b, end |-> e]
    BY <1>4, <1>5 DEF paginate
  <1>7. PICK p : p = Page(a, s)
    OBVIOUS
  <1>8. ~(b < 0) /\ ~(e < b) /\ p = Answer("ok", SubSeq(s, b + 1, e), n)
    <2>1. Answer("panic", <<>>, 0).code # "ok"
      BY DEF Answer
    <2>2. p = IF paginate(o, l, n).start < 0 \/ paginate(o, l, n).end < paginate(o, l, n).start
              THEN Answer("panic", <<>>, 0)
              ELSE Answer("ok", SubSeq(s, paginate(o, l, n).start + 1, paginate(o, l, n).end), n)
      BY <1>1, <1>7 DEF Page
    <2>3. paginate(o, l, n).start = b /\ paginate(o, l, n).end = e
      BY <1>6
    <2>4. p = IF b < 0 \/ e < b THEN Answer("panic", <<>>, 0) ELSE Answer("ok", SubSeq(s, b + 1, e), n)
      BY <2>2, <2>3
    <2> QED
      BY <1>7, <2>1, <2>4
  <1>9. Plus(b, l) \in Int /\ (b + l <= MaxInt => Plus(b, l) = b + l) /\ (~(b + l <= MaxInt) => Plus(b, l) < 0)
    BY <1>2, <1>3 DEF Plus
  <1>10. e = IF Plus(b, l) <= n THEN Plus(b, l) ELSE n
    BY <1>2, <1>5, <1>9, LeastOfTwo
  <1>11. b + l <= MaxInt
    BY <1>2, <1>3, <1>8, <1>9, <1>10
  <1>12. b \in Nat /\ o \in Nat /\ e \in Nat /\ b <= e /\ e <= n /\ e = IF b + l <= n THEN b + l ELSE n
    BY <1>2, <1>3, <1>8, <1>9, <1>10, <1>11
  <1>13. /\ SubSeq(s, b + 1, e) \in Seq(S) /\ Len(SubSeq(s, b + 1, e)) = e - b
         /\ \A i \in 1..(e - b) : b + i \in 1..n /\ SubSeq(s, b + 1, e)[i] = s[b + i]
    <2>1. \A i \in 1..(e - b) : b + i \in 1..n /\ (b + 1) + i - 1 = b + i
      BY <1>2, <1>12
    <2>2. b + 1 \in Nat /\ b + 1 >= 1 /\ e <= Len(s)
      BY <1>1, <1>12
    <2>3. SubSeq(s, b + 1, e) \in Seq(S)
      BY <1>1, <1>12, <2>2
    <2>4. Len(SubSeq(s, b + 1, e)) = e - b
      BY <1>1, <1>12, <2>2
    <2>5. ASSUME NEW i \in 1..(e - b) PROVE SubSeq(s, b + 1, e)[i] = s[b + i]
      <3>1. PICK m, k : m = b + 1 /\ k = b + i
        OBVIOUS
      <3>2. m \in 1..Len(s) /\ m <= e /\ e \in 1..Len(s) /\ i \in 1..(e - m + 1) /\ k = m + i - 1
        <4>1. i \in Nat /\ 1 <= i /\ i <= e - b /\ b \in Nat /\ e \in Nat /\ e <= Len(s) /\ Len(s) \in Nat
          BY <1>1, <1>2, <1>12
        <4> QED
          BY <3>1, <4>1
      <3>3. SubSeq(s, m, e)[i] = s[m + i - 1]
        BY <3>2
      <3> QED
        BY <3>1, <3>2, <3>3
    <2> QED
      BY <2>1, <2>3, <2>4, <2>5
  <1>14. p.total = n /\ p.items = SubSeq(s, b + 1, e)
    BY <1>8 DEF Answer
  <1>15. e - b = IF n - b <= l THEN n - b ELSE l
    BY <1>2, <1>12
  <1>16. b \in 0..n
    BY <1>3, <1>12
  <1>17. /\ p.items \in Seq(S) /\ Len(p.items) = e - b
         /\ \A i \in 1..Len(p.items) : b + i \in 1..n /\ p.items[i] = s[b + i]
    BY <1>13, <1>14
  <1> QED
    BY <1>1, <1>2, <1>7, <1>12, <1>14, <1>15, <1>16, <1>17

-----------------------------------------------------------------------------
(* What the lists of resources hold *)

\* The commit an operation looks at, the resources of it that it lists, and
\* the entries it gathers.
At(op, a, c)    == IF op = "GetCurrentSnapshot" THEN idx[c] ELSE FindBefore(c, a.datetime)
Shown(op, a, c) == {o \in Objs : DocAt(c, At(op, a, c), o) # None /\ Passes(a, o) /\ Named(a, o)}
ShownEntries(op, a, c) == {Entry(c, At(op, a, c), o) : o \in Shown(op, a, c)}
AnyEntry(op, a) == [c : Clusters, v : {At(op, a, c) : c \in Clusters}, o : Objs]

\* Lists of resources, as the index or a commit has them.
Snapshots(op, a) == op = "GetHistoricalSnapshot" \/ (op = "GetCurrentSnapshot" /\ a.cel = NoCel)

LEMMA WalkLists == WalkOrder \in Seq(Objs) /\ ListsAll(WalkOrder, Objs)
  <1>1. WalkOrder \in Seq(Objs) /\ DOMAIN WalkOrder = 1..Len(WalkOrder)
    BY ApiConstants
  <1>2. \A i, j \in 1..Len(WalkOrder) : WalkOrder[i] = WalkOrder[j] => i = j
    BY <1>1, ApiConstants DEF IsInjective
  <1>3. \A o : o \in Range(WalkOrder) <=> \E i \in 1..Len(WalkOrder) : WalkOrder[i] = o
    BY <1>1, InRangeOf, Zenon
  <1>4. \A o : o \in Objs <=> \E i \in 1..Len(WalkOrder) : WalkOrder[i] = o
    BY <1>3 DEF Objs
  <1> QED
    BY <1>1, <1>2, <1>4 DEF ListsAll, Lists

LEMMA FilteredLists ==
  ASSUME NEW c, NEW a
  PROVE  /\ Filtered(c, a) \in Seq(Objs)
         /\ ListsAll(Filtered(c, a), {o \in Listed(c) : Passes(a, o)})
  <1>1. PICK T : T = {o \in Listed(c) : Passes(a, o)}
    OBVIOUS
  <1>2. PICK w : w = WalkOrder
    OBVIOUS
  <1>3. PICK keep : keep = {i \in DOMAIN w : w[i] \in Listed(c) /\ Passes(a, w[i])}
    OBVIOUS
  <1>4. w \in Seq(Objs) /\ ListsAll(w, Objs) /\ DOMAIN w = 1..Len(w)
    BY <1>2, WalkLists
  <1>5. \A i : i \in keep <=> i \in 1..Len(w) /\ w[i] \in T
    BY <1>1, <1>3, <1>4
  <1>6. SubSeqAt(w, keep) \in Seq(Objs) /\ ListsAll(SubSeqAt(w, keep), Objs \cap T)
    BY <1>4, <1>5, ChosenLists
  <1>7. Objs \cap T = T
    BY <1>1 DEF Listed
  <1> QED
    BY <1>1, <1>2, <1>3, <1>6, <1>7 DEF Filtered

LEMMA NamedLists ==
  ASSUME NEW s \in Seq(Objs), NEW a, NEW X, ListsAll(s, X)
  PROVE  WithName(a, s) \in Seq(Objs) /\ ListsAll(WithName(a, s), X \cap {o \in Objs : Named(a, o)})
  <1>1. PICK T : T = {o \in Objs : Named(a, o)}
    OBVIOUS
  <1>2. PICK keep : keep = {i \in DOMAIN s : Named(a, s[i])}
    OBVIOUS
  <1>3. \A i : i \in keep <=> i \in 1..Len(s) /\ s[i] \in T
    BY <1>1, <1>2
  <1>4. SubSeqAt(s, keep) \in Seq(Objs) /\ ListsAll(SubSeqAt(s, keep), X \cap T)
    BY <1>3, ChosenLists
  <1> QED
    BY <1>1, <1>2, <1>4 DEF WithName

LEMMA AtCommitLists ==
  ASSUME NEW c, NEW n, NEW a
  PROVE  /\ AtCommit(c, n, a) \in Seq(Objs)
         /\ ListsAll(AtCommit(c, n, a), {o \in Objs : DocAt(c, n, o) # None /\ Passes(a, o) /\ Named(a, o)})
  <1>1. PICK T : T = {o \in Objs : DocAt(c, n, o) # None /\ Passes(a, o) /\ Named(a, o)}
    OBVIOUS
  <1>2. PICK w : w = WalkOrder
    OBVIOUS
  <1>3. PICK keep : keep = {i \in DOMAIN w : DocAt(c, n, w[i]) # None /\ Passes(a, w[i]) /\ Named(a, w[i])}
    OBVIOUS
  <1>4. w \in Seq(Objs) /\ ListsAll(w, Objs) /\ DOMAIN w = 1..Len(w)
    BY <1>2, WalkLists
  <1>5. \A i : i \in keep <=> i \in 1..Len(w) /\ w[i] \in T
    BY <1>1, <1>3, <1>4
  <1>6. SubSeqAt(w, keep) \in Seq(Objs) /\ ListsAll(SubSeqAt(w, keep), Objs \cap T)
    BY <1>4, <1>5, ChosenLists
  <1>7. Objs \cap T = T
    BY <1>1
  <1> QED
    BY <1>1, <1>2, <1>3, <1>6, <1>7 DEF AtCommit

LEMMA EntriesList ==
  ASSUME NEW c, NEW v, NEW s \in Seq(Objs), NEW X \in SUBSET Objs, ListsAll(s, X), NEW T,
         \A o \in Objs : Entry(c, v, o) \in T
  PROVE  Entries(c, v, s) \in Seq(T) /\ ListsAll(Entries(c, v, s), {Entry(c, v, o) : o \in X})
  <1>1. PICK g : g = [o \in Objs |-> Entry(c, v, o)]
    OBVIOUS
  <1>2. \A o \in Objs : g[o] = Entry(c, v, o) /\ g[o].o = o
    BY <1>1 DEF Entry
  <1>3. PICK Y : Y = {Entry(c, v, o) : o \in X}
    OBVIOUS
  <1>4. Renames(g, X, T, Y)
    BY <1>2, <1>3 DEF Renames
  <1>5. LET t == [i \in DOMAIN s |-> g[s[i]]]
        IN t \in Seq(T) /\ Len(t) = Len(s) /\ ListsAll(t, Y)
    BY <1>4, ImageLists
  <1>6. Entries(c, v, s) = [i \in DOMAIN s |-> g[s[i]]]
    <2>1. \A i \in DOMAIN s : s[i] \in Objs
      OBVIOUS
    <2> QED
      BY <1>2, <2>1 DEF Entries
  <1> QED
    BY <1>3, <1>5, <1>6

LEMMA ShownParts ==
  ASSUME NEW op, NEW a, Snapshots(op, a), NEW c \in Clusters
  PROVE  /\ Part(op, a, c) \in Seq(AnyEntry(op, a))
         /\ ListsAll(Part(op, a, c), ShownEntries(op, a, c))
  <1>1. PICK v, T, X : v = At(op, a, c) /\ T = AnyEntry(op, a) /\ X = Shown(op, a, c)
    OBVIOUS
  <1>2. X \in SUBSET Objs
    BY <1>1 DEF Shown
  <1>3. \A o \in Objs : Entry(c, v, o) \in T
    BY <1>1 DEF AnyEntry, Entry
  <1>4. \E s : s \in Seq(Objs) /\ ListsAll(s, X) /\ Part(op, a, c) = Entries(c, v, s)
    <2>1. CASE op = "GetHistoricalSnapshot"
      <3>1. PICK s : s = AtCommit(c, v, a)
        OBVIOUS
      <3>2. s \in Seq(Objs) /\ ListsAll(s, {o \in Objs : DocAt(c, v, o) # None /\ Passes(a, o) /\ Named(a, o)})
        BY <3>1, AtCommitLists
      <3>3. X = {o \in Objs : DocAt(c, v, o) # None /\ Passes(a, o) /\ Named(a, o)}
        BY <1>1 DEF Shown
      <3>4. v = FindBefore(c, a.datetime)
        BY <1>1, <2>1 DEF At
      <3>5. Part(op, a, c) = Entries(c, v, s)
        BY <2>1, <3>1, <3>4 DEF Part
      <3> QED
        BY <3>2, <3>3, <3>5
    <2>2. CASE op = "GetCurrentSnapshot" /\ a.cel = NoCel
      <3>1. PICK f, s : f = Filtered(c, a) /\ s = WithName(a, f)
        OBVIOUS
      <3>2. PICK L, N : L = {o \in Listed(c) : Passes(a, o)} /\ N = {o \in Objs : Named(a, o)}
        OBVIOUS
      <3>3. f \in Seq(Objs) /\ ListsAll(f, L)
        BY <3>1, <3>2, FilteredLists
      <3>4. s \in Seq(Objs) /\ ListsAll(s, L \cap N)
        BY <3>1, <3>2, <3>3, NamedLists
      <3>5. v = idx[c]
        BY <1>1, <2>2 DEF At
      <3>6. X = L \cap N
        BY <1>1, <3>2, <3>5 DEF Shown, Listed
      <3>7. Part(op, a, c) = Entries(c, v, s)
        BY <2>2, <3>1, <3>5 DEF Part
      <3> QED
        BY <3>4, <3>6, <3>7
    <2> QED
      BY <2>1, <2>2 DEF Snapshots
  <1>5. PICK s : s \in Seq(Objs) /\ ListsAll(s, X) /\ Part(op, a, c) = Entries(c, v, s)
    BY <1>4
  <1>6. Entries(c, v, s) \in Seq(T) /\ ListsAll(Entries(c, v, s), {Entry(c, v, o) : o \in X})
    BY <1>2, <1>3, <1>5, EntriesList
  <1> QED
    BY <1>1, <1>5, <1>6 DEF ShownEntries

\* All that a list of resources gathers, from the clusters it visits.
AllShown(op, a) ==
  UNION {ShownEntries(op, a, Visited(op, a)[i]) : i \in 1..Len(Visited(op, a))}

LEMMA ShownGathered ==
  ASSUME NamesDiffer, NEW op, NEW a, Snapshots(op, a)
  PROVE  /\ Gathered(op, a) \in Seq(AnyEntry(op, a))
         /\ ListsAll(Gathered(op, a), AllShown(op, a))
  <1>1. PICK cs, F, n, T : cs = Visited(op, a) /\ F = Parts(op, a) /\ n = Len(cs) /\ T = AnyEntry(op, a)
    OBVIOUS
  <1>2. cs \in Seq(Clusters) /\ n \in Nat /\ \A i, j \in 1..n : cs[i] = cs[j] => i = j
    <2>1. cs \in Seq(Clusters) /\ n \in Nat
      BY <1>1, VisitedFacts
    <2> QED
      BY <1>1, <2>1, VisitedOnce
  <1>3. PICK X : X = [i \in 1..n |-> ShownEntries(op, a, cs[i])]
    OBVIOUS
  <1>4. ASSUME NEW i \in 1..n
        PROVE  cs[i] \in Clusters /\ F[i] = Part(op, a, cs[i]) /\ X[i] = ShownEntries(op, a, cs[i])
    BY <1>1, <1>2, <1>3 DEF Parts
  <1>5. \A i \in 1..n : F[i] \in Seq(T) /\ ListsAll(F[i], X[i])
    BY <1>1, <1>4, ShownParts
  <1>6. \A i, j \in 1..n : i # j => X[i] \cap X[j] = {}
    <2>1. \A i \in 1..n : \A x \in X[i] : x.c = cs[i]
      BY <1>4 DEF ShownEntries, Entry
    <2> QED
      BY <1>2, <2>1
  <1>7. Chained(F, n) \in Seq(T) /\ ListsAll(Chained(F, n), All(X, n))
    <2>1. ListsApart(F, n, T, X)
      BY <1>5, <1>6 DEF ListsApart
    <2> QED
      BY <1>2, <2>1, ChainLists
  <1>8. All(X, n) = AllShown(op, a)
    BY <1>1, <1>4 DEF AllShown, All
  <1> QED
    BY <1>1, <1>7, <1>8 DEF Gathered

-----------------------------------------------------------------------------
(* What a page of a list shows *)

\* The list an answer is a page of, and an item of the answer.
Ordered(op, a)  == IF op = "GetHistory" THEN Newest(Gathered(op, a)) ELSE Gathered(op, a)
ItemsOf(op, S) == {Row(op, x) : x \in S}
Sliced == {"GetCurrentSnapshot", "GetHistoricalSnapshot", "GetHistory"}

LEMMA PageAnswer ==
  ASSUME NEW r, Asked(r), Answered(r), Found(r), r.do \in Sliced, NEW S, NEW s \in Seq(S), s = Ordered(r.do, r.args)
  PROVE  /\ r.args.offset \in Nat /\ r.args.limit \in Nat /\ r.args.limit >= 1
         /\ Len(s) \in Nat /\ Begin(r.args, Len(s)) \in 0..Len(s)
         /\ r.out.total = Len(s) /\ r.out.items \in Seq(ItemsOf(r.do, S))
         /\ Len(r.out.items) = IF Len(s) - Begin(r.args, Len(s)) <= r.args.limit
                               THEN Len(s) - Begin(r.args, Len(s)) ELSE r.args.limit
         /\ \A i \in 1..Len(r.out.items) :
              /\ Begin(r.args, Len(s)) + i \in 1..Len(s)
              /\ r.out.items[i] = Row(r.do, s[Begin(r.args, Len(s)) + i])
  <1>1. PICK a, op, p : a = r.args /\ op = r.do /\ p = Page(a, s)
    OBVIOUS
  <1>2. op \in {"GetCurrentSnapshot", "GetHistoricalSnapshot", "GetHistory"} /\ op \notin OneFile
    BY <1>1 DEF Sliced, OneFile
  <1>3. a.limit \in 1..MaxInt /\ a.offset \in -(MaxInt + 1)..MaxInt
    <2>1. PICK q, d : q = r.ask /\ d = Dispatch(q)
      OBVIOUS
    <2>2. q \in Requests /\ op = d.do /\ a = d.args /\ d.do \in Paged
      BY <1>1, <1>2, <2>1 DEF Asked, Paged
    <2> QED
      BY <2>1, <2>2, PagedArgs
  <1>4. ~Refused(op, a) /\ \E e \in Results(op, a, Gathered(op, a)) :
                             r.out = Answer(e.code, Encode(op, e.items), e.total)
    <2>1. ~Refused(op, a)
      BY <1>1, <1>2 DEF Answered, Found
    <2> QED
      BY <1>1, <1>2, <2>1 DEF Answered
  <1>5. Results(op, a, Gathered(op, a)) = {p}
    BY <1>1, <1>2 DEF Results, Ordered
  <1>6. r.out = Answer(p.code, Encode(op, p.items), p.total)
    BY <1>4, <1>5
  <1>7. r.out.code = p.code /\ r.out.items = Encode(op, p.items) /\ r.out.total = p.total
    BY <1>6 DEF Answer
  <1>8. p.code = "ok"
    BY <1>7 DEF Found
  <1>9. /\ a.offset \in Nat /\ a.limit \in Nat /\ Len(s) \in Nat /\ Begin(a, Len(s)) \in 0..Len(s)
        /\ p.total = Len(s)
        /\ p.items \in Seq(S)
        /\ Len(p.items) = IF Len(s) - Begin(a, Len(s)) <= a.limit THEN Len(s) - Begin(a, Len(s)) ELSE a.limit
        /\ \A i \in 1..Len(p.items) :
             /\ Begin(a, Len(s)) + i \in 1..Len(s)
             /\ p.items[i] = s[Begin(a, Len(s)) + i]
    BY <1>1, <1>3, <1>8, PageIs, SMTT(30)
  <1>10. PICK t : t = p.items
    OBVIOUS
  <1>11. Encode(op, t) = [i \in 1..Len(t) |-> Row(op, t[i])]
    <2>1. DOMAIN t = 1..Len(t)
      BY <1>9, <1>10
    <2> QED
      BY <1>2, <2>1 DEF Encode, Row
  <1>12. /\ Encode(op, t) \in Seq(ItemsOf(op, S)) /\ Len(Encode(op, t)) = Len(t)
         /\ \A i \in 1..Len(t) : Encode(op, t)[i] = Row(op, t[i])
    <2>1. t \in Seq(S)
      BY <1>9, <1>10
    <2> QED
      BY <1>11, <2>1 DEF ItemsOf
  <1>13. a.limit >= 1
    BY <1>3
  <1> QED
    BY <1>1, <1>7, <1>9, <1>10, <1>12, <1>13

\* An item of a snapshot is a resource that was listed.
LEMMA ShownItems ==
  ASSUME NamesDiffer, NEW r, Asked(r), Answered(r), Found(r), Snapshots(r.do, r.args)
  PROVE  /\ DOMAIN r.out.items = 1..Len(r.out.items)
         /\ \A i \in 1..Len(r.out.items) :
              \E c \in Range(Visited(r.do, r.args)) : \E o \in Shown(r.do, r.args, c) :
                c \in Clusters /\ r.out.items[i] = SnapshotResource(Entry(c, 0, o))
         /\ (\E c \in Range(Visited(r.do, r.args)) : Shown(r.do, r.args, c) # {}) => r.out.total > 0
  <1>1. PICK a, op, s, S, cs : a = r.args /\ op = r.do /\ s = Gathered(op, a) /\ S = AnyEntry(op, a) /\ cs = Visited(op, a)
    OBVIOUS
  <1>2. s \in Seq(S) /\ ListsAll(s, AllShown(op, a))
    BY <1>1, ShownGathered
  <1>3. op \in {"GetCurrentSnapshot", "GetHistoricalSnapshot"}
    BY <1>1 DEF Snapshots
  <1>4. s = Ordered(op, a) /\ op \in Sliced
    BY <1>1, <1>3 DEF Ordered, Sliced
  <1>5. /\ Len(s) \in Nat /\ r.out.total = Len(s) /\ r.out.items \in Seq(ItemsOf(op, S))
        /\ \A i \in 1..Len(r.out.items) :
             /\ Begin(a, Len(s)) + i \in 1..Len(s)
             /\ r.out.items[i] = Row(op, s[Begin(a, Len(s)) + i])
    <2>1. s = Ordered(r.do, r.args) /\ r.do \in Sliced /\ s \in Seq(S)
      BY <1>1, <1>2, <1>4
    <2>2. /\ Len(s) \in Nat /\ r.out.total = Len(s) /\ r.out.items \in Seq(ItemsOf(r.do, S))
          /\ \A i \in 1..Len(r.out.items) :
               /\ Begin(r.args, Len(s)) + i \in 1..Len(s)
               /\ r.out.items[i] = Row(r.do, s[Begin(r.args, Len(s)) + i])
      BY <2>1, PageAnswer
    <2> QED
      BY <1>1, <2>2
  <1>6. /\ \A k \in 1..Len(s) : s[k] \in AllShown(op, a)
        /\ \A x \in AllShown(op, a) : \E k \in 1..Len(s) : s[k] = x
    BY <1>2 DEF ListsAll, Lists
  <1>7. cs \in Seq(Clusters)
    BY <1>1, VisitedFacts
  <1>8. \A c : c \in Range(cs) <=> \E i \in 1..Len(cs) : cs[i] = c
    BY <1>7, InRangeOf, Zenon
  <1>9. ASSUME NEW x \in AllShown(op, a)
        PROVE  \E c \in Range(cs) : \E o \in Shown(op, a, c) :
                 c \in Clusters /\ Row(op, x) = SnapshotResource(Entry(c, 0, o))
    <2>1. PICK i \in 1..Len(cs) : x \in ShownEntries(op, a, cs[i])
      BY <1>1 DEF AllShown
    <2>2. PICK o \in Shown(op, a, cs[i]) : x = Entry(cs[i], At(op, a, cs[i]), o)
      BY <2>1 DEF ShownEntries
    <2>3. Row(op, x) = SnapshotResource(Entry(cs[i], 0, o))
      BY <1>3, <2>2 DEF Row, SnapshotResource, Entry
    <2>4. cs[i] \in Range(cs) /\ cs[i] \in Clusters
      BY <1>7, <1>8
    <2> QED
      BY <2>3, <2>4
  <1>10. \A i \in 1..Len(r.out.items) : \E c \in Range(cs) : \E o \in Shown(op, a, c) :
           c \in Clusters /\ r.out.items[i] = SnapshotResource(Entry(c, 0, o))
    <2> SUFFICES ASSUME NEW i \in 1..Len(r.out.items)
                 PROVE  \E c \in Range(cs) : \E o \in Shown(op, a, c) :
                          c \in Clusters /\ r.out.items[i] = SnapshotResource(Entry(c, 0, o))
      OBVIOUS
    <2>1. PICK x \in AllShown(op, a) : r.out.items[i] = Row(op, x)
      BY <1>5, <1>6
    <2> QED
      BY <1>9, <2>1
  <1>11. ASSUME NEW c \in Range(cs), Shown(op, a, c) # {} PROVE r.out.total > 0
    <2>1. PICK o : o \in Shown(op, a, c)
      BY <1>11
    <2>2. PICK i \in 1..Len(cs) : cs[i] = c
      BY <1>8
    <2>3. Entry(c, At(op, a, c), o) \in AllShown(op, a)
      <3>1. Entry(c, At(op, a, c), o) \in ShownEntries(op, a, cs[i])
        BY <2>1, <2>2 DEF ShownEntries
      <3> QED
        BY <1>1, <3>1 DEF AllShown
    <2>4. PICK k \in 1..Len(s) : s[k] = Entry(c, At(op, a, c), o)
      BY <1>6, <2>3
    <2> QED
      BY <1>5
  <1>12. DOMAIN r.out.items = 1..Len(r.out.items)
    BY <1>5
  <1> QED
    BY <1>1, <1>10, <1>11, <1>12

-----------------------------------------------------------------------------
(* The kinds a selector offers *)

LEMMA SetListed ==
  ASSUME NEW S, IsFiniteSet(S)
  PROVE  SetToSeq(S) \in Seq(S) /\ Range(SetToSeq(S)) = S
  <1>1. PICK n \in Nat : n = Cardinality(S) /\ ExistsBijection(1..n, S)
    BY FS_CardinalityType
  <1>2. PICK g : g \in [1..n -> S] /\ IsInjective(g)
    BY <1>1 DEF ExistsBijection, Bijection, Injection
  <1>3. PICK f : f = SetToSeq(S)
    OBVIOUS
  <1>4. f \in [1..n -> S] /\ IsInjective(f)
    BY <1>1, <1>2, <1>3 DEF SetToSeq
  <1>5. f \in Injection(1..n, S)
    BY <1>4 DEF Injection
  <1>6. Cardinality(1..n) = Cardinality(S)
    <2>1. 1 \in Int /\ n \in Int
      OBVIOUS
    <2>2. Cardinality(1..n) = IF 1 > n THEN 0 ELSE n - 1 + 1
      BY <2>1, FS_Interval
    <2> QED
      BY <1>1, <2>2
  <1>7. f \in Surjection(1..n, S)
    BY <1>5, <1>6, FS_Injection
  <1>8. \A x \in S : \E i \in 1..n : f[i] = x
    BY <1>7 DEF Surjection
  <1>9. f \in Seq(S) /\ DOMAIN f = 1..n
    BY <1>4
  <1>10. Range(f) = S
    BY <1>4, <1>8, <1>9, Zenon DEF Range
  <1> QED
    BY <1>3, <1>9, <1>10

\* The kind of a resource, as the selector shows it.
KindOf(o) == [group |-> Meta[o].group, version |-> Meta[o].version, kind |-> Meta[o].kind]

LEMMA FewKinds ==
  ASSUME NEW U, U \subseteq {KindOf(o) : o \in Objs}
  PROVE  IsFiniteSet(U)
  <1>1. PICK n, w : w = WalkOrder /\ n = Len(w)
    OBVIOUS
  <1>2. w \in Seq(Objs) /\ n \in Nat /\ \A o \in Objs : \E i \in 1..n : w[i] = o
    BY <1>1, WalkLists DEF ListsAll, Lists
  <1>3. PICK K : K = {KindOf(o) : o \in Objs}
    OBVIOUS
  <1>4. PICK f : f = [i \in 1..n |-> KindOf(w[i])]
    OBVIOUS
  <1>5. f \in [1..n -> K] /\ \A x \in K : \E i \in 1..n : f[i] = x
    BY <1>1, <1>2, <1>3, <1>4
  <1>6. f \in Surjection(1..n, K)
    BY <1>5 DEF Surjection
  <1>7. 1 \in Int /\ n \in Int
    BY <1>2
  <1>8. IsFiniteSet(1..n)
    BY <1>7, FS_Interval
  <1>9. IsFiniteSet(K)
    BY <1>6, <1>8, FS_Surjection
  <1> QED
    BY <1>3, <1>9, FS_Subset

LEMMA KindsGathered ==
  ASSUME NEW a, NEW U, U = UNION Range(Gathered("ListGVKs", a))
  PROVE  /\ Range(SetToSeq(U)) = U
         /\ \A x : x \in U <=> \E c \in Range(Visited("ListGVKs", a)) : x \in GVKs(c, a.namespace)
  <1>1. PICK op, cs, F, n, S : /\ op = "ListGVKs" /\ cs = Visited(op, a) /\ F = Parts(op, a) /\ n = Len(cs)
                               /\ S = {GVKs(c, a.namespace) : c \in Clusters}
    OBVIOUS
  <1>2. cs \in Seq(Clusters) /\ n \in Nat
    BY <1>1, VisitedFacts
  <1>3. \A i \in 1..n : F[i] = <<GVKs(cs[i], a.namespace)>> /\ GVKs(cs[i], a.namespace) \in S
    BY <1>1, <1>2 DEF Parts, Part
  <1>4. \A i \in 1..n : F[i] \in Seq(S)
    <2>1. \A x \in S : <<x>> \in Seq(S)
      OBVIOUS
    <2> QED
      BY <1>3, <2>1
  <1>5. /\ Chained(F, n) \in Seq(S) /\ Len(Chained(F, n)) \in Nat
        /\ \A l \in 1..Len(Chained(F, n)) : \E i \in 1..n : \E k \in 1..Len(F[i]) : Chained(F, n)[l] = F[i][k]
        /\ \A i \in 1..n : \A k \in 1..Len(F[i]) : \E l \in 1..Len(Chained(F, n)) : Chained(F, n)[l] = F[i][k]
    <2>1. n \in Nat
      BY <1>2
    <2>2. Chained(F, n) \in Seq(S) /\ Len(Chained(F, n)) \in Nat
      BY <1>4, <2>1, ChainedElements
    <2>3. \A l \in 1..Len(Chained(F, n)) : \E i \in 1..n : \E k \in 1..Len(F[i]) : Chained(F, n)[l] = F[i][k]
      BY <1>4, <2>1, ChainedElements
    <2>4. \A i \in 1..n : \A k \in 1..Len(F[i]) : \E l \in 1..Len(Chained(F, n)) : Chained(F, n)[l] = F[i][k]
      BY <1>4, <2>1, ChainedReaches
    <2> QED
      BY <2>2, <2>3, <2>4
  <1>6. \A i \in 1..n : Len(F[i]) = 1 /\ F[i][1] = GVKs(cs[i], a.namespace)
    BY <1>3
  <1>7. /\ \A l \in 1..Len(Chained(F, n)) : \E i \in 1..n : Chained(F, n)[l] = GVKs(cs[i], a.namespace)
        /\ \A i \in 1..n : \E l \in 1..Len(Chained(F, n)) : Chained(F, n)[l] = GVKs(cs[i], a.namespace)
    <2>1. \A i \in 1..n : 1 \in 1..Len(F[i])
      BY <1>6
    <2>2. ASSUME NEW i \in 1..n, NEW k \in 1..Len(F[i]) PROVE k = 1
      <3>1. Len(F[i]) = 1
        BY <1>6
      <3>2. k \in 1..1
        BY <3>1
      <3> QED
        BY <3>2
    <2>3. ASSUME NEW l \in 1..Len(Chained(F, n)) PROVE \E i \in 1..n : Chained(F, n)[l] = GVKs(cs[i], a.namespace)
      <3>1. PICK i \in 1..n : \E k \in 1..Len(F[i]) : Chained(F, n)[l] = F[i][k]
        BY <1>5
      <3> QED
        BY <1>6, <2>2, <3>1
    <2> QED
      BY <1>5, <1>6, <2>1, <2>3
  <1>8. \A x : x \in Range(Chained(F, n)) <=> \E l \in 1..Len(Chained(F, n)) : Chained(F, n)[l] = x
    BY <1>5, InRangeOf, Zenon
  <1>9. \A c : c \in Range(cs) <=> \E i \in 1..Len(cs) : cs[i] = c
    BY <1>2, InRangeOf, Zenon
  <1>10. ASSUME NEW x PROVE x \in U <=> \E c \in Range(cs) : x \in GVKs(c, a.namespace)
    <2>1. x \in U <=> \E y \in Range(Chained(F, n)) : x \in y
      BY <1>1 DEF Gathered
    <2>2. ASSUME NEW y \in Range(Chained(F, n)), x \in y PROVE \E c \in Range(cs) : x \in GVKs(c, a.namespace)
      <3>1. PICK l \in 1..Len(Chained(F, n)) : Chained(F, n)[l] = y
        BY <1>8, <2>2
      <3>2. PICK i \in 1..n : y = GVKs(cs[i], a.namespace)
        BY <1>7, <3>1
      <3> QED
        BY <1>1, <1>9, <2>2, <3>2
    <2>3. ASSUME NEW c \in Range(cs), x \in GVKs(c, a.namespace) PROVE \E y \in Range(Chained(F, n)) : x \in y
      <3>1. PICK i \in 1..n : cs[i] = c
        BY <1>1, <1>9
      <3>2. PICK l \in 1..Len(Chained(F, n)) : Chained(F, n)[l] = GVKs(c, a.namespace)
        BY <1>7, <3>1
      <3> QED
        BY <1>8, <2>3, <3>2
    <2> QED
      BY <2>1, <2>2, <2>3
  <1>11. U \subseteq {KindOf(o) : o \in Objs}
    <2>1. \A c : GVKs(c, a.namespace) \subseteq {KindOf(o) : o \in Objs}
      BY DEF GVKs, KindOf, Listed
    <2> QED
      BY <1>10, <2>1
  <1>12. Range(SetToSeq(U)) = U
    BY <1>11, FewKinds, SetListed
  <1> QED
    BY <1>1, <1>10, <1>12

\* Two requests answered one after the other are answered from the same data.
LEMMA BothAre ==
  ASSUME SteadyInv, BothAnswered, req.do # "reply"
  PROVE  /\ Asked(prev) /\ prev.do # "reply" /\ Answered(prev)
         /\ Asked(req) /\ Answered(req)
  <1>1. PICK r, p : r = req /\ p = prev
    OBVIOUS
  <1>2. r.at = "done" /\ r.steady /\ r.do # "reply" /\ p.at = "done"
    BY <1>1 DEF BothAnswered
  <1>3. Asked(p) /\ p.do # "reply" /\ Answered(p)
    BY <1>1, <1>2 DEF SteadyInv
  <1>4. Asked(r) /\ Progress(r)
    BY <1>1, <1>2 DEF SteadyInv
  <1> QED
    BY <1>1, <1>2, <1>3, <1>4 DEF Progress

LEMMA AnswerFields ==
  \A code, items, total : /\ Answer(code, items, total).code = code
                          /\ Answer(code, items, total).items = items
                          /\ Answer(code, items, total).total = total
  BY DEF Answer

LEMMA KindsAnswer ==
  ASSUME NEW r, Answered(r), Found(r), r.do = "ListGVKs"
  PROVE  r.out.items = SetToSeq(UNION Range(Gathered("ListGVKs", r.args)))
  <1>1. PICK U : U = UNION Range(Gathered("ListGVKs", r.args))
    OBVIOUS
  <1>2. "ListGVKs" \notin OneFile /\ r.out.code = "ok"
    BY DEF OneFile, Found
  <1>3. \E e \in Results("ListGVKs", r.args, Gathered("ListGVKs", r.args)) :
          r.out = Answer(e.code, Encode("ListGVKs", e.items), e.total)
    BY <1>2 DEF Answered
  <1>4. PICK e : e = Answer("ok", SetToSeq(U), Cardinality(U))
    OBVIOUS
  <1>5. Results("ListGVKs", r.args, Gathered("ListGVKs", r.args)) = {e}
    BY <1>1, <1>4 DEF Results
  <1>6. e.items = SetToSeq(U)
    BY <1>4, AnswerFields, ZenonT(30)
  <1>7. r.out = Answer(e.code, Encode("ListGVKs", e.items), e.total)
    BY <1>3, <1>5
  <1>8. r.out.items = Encode("ListGVKs", e.items)
    BY <1>7 DEF Answer
  <1>9. Encode("ListGVKs", e.items) = e.items
    BY DEF Encode
  <1> QED
    BY <1>1, <1>6, <1>8, <1>9

LEMMA KindsMean ==
  ASSUME NamesDiffer, SteadyInv
  PROVE  OfferedKindsAreFound
  <1> SUFFICES ASSUME BothAnswered, prev.do = "ListGVKs", Found(prev), req.do = "GetCurrentSnapshot", Found(req),
                      req.args.cel = NoCel, req.args.name = "", prev.args.cluster = req.args.cluster,
                      prev.args.namespace = req.args.namespace
               PROVE  LET offered == {<<g.group, g.kind>> : g \in Range(prev.out.items)}
                      IN /\ <<req.args.group, req.args.kind>> \in offered => req.out.total > 0
                         /\ {<<x.group, x.kind>> : x \in Range(req.out.items)} \subseteq offered
    BY DEF OfferedKindsAreFound
  <1>1. PICK r, p, a, ns, cs : /\ r = req /\ p = prev /\ a = req.args /\ ns = req.args.namespace
                               /\ cs = Visited("GetCurrentSnapshot", a)
    OBVIOUS
  <1>2. Asked(p) /\ Answered(p) /\ Asked(r) /\ Answered(r)
    BY <1>1, BothAre
  <1>3. cs = Visited("ListGVKs", p.args) /\ cs \in Seq(Clusters)
    <2>1. cs = Visited("ListGVKs", p.args)
      BY <1>1 DEF Visited, Resolve
    <2> QED
      BY <1>1, <2>1, VisitedFacts
  <1>4. PICK U : U = UNION Range(Gathered("ListGVKs", p.args))
    OBVIOUS
  <1>5. p.out.items = SetToSeq(U)
    BY <1>1, <1>2, <1>4, KindsAnswer
  <1>6. \A x : x \in Range(p.out.items) <=> \E c \in Range(cs) : x \in GVKs(c, ns)
    <2>1. Range(SetToSeq(U)) = U /\ \A x : x \in U <=> \E c \in Range(Visited("ListGVKs", p.args)) : x \in GVKs(c, p.args.namespace)
      BY <1>4, KindsGathered, ZenonT(30)
    <2> QED
      BY <1>1, <1>3, <1>5, <2>1
  <1>7. Snapshots(r.do, r.args) /\ r.do = "GetCurrentSnapshot" /\ r.args = a /\ Found(r)
    BY <1>1 DEF Snapshots
  <1>8. /\ DOMAIN r.out.items = 1..Len(r.out.items)
        /\ \A i \in 1..Len(r.out.items) :
             \E c \in Range(Visited(r.do, r.args)) : \E o \in Shown(r.do, r.args, c) :
               c \in Clusters /\ r.out.items[i] = SnapshotResource(Entry(c, 0, o))
        /\ (\E c \in Range(Visited(r.do, r.args)) : Shown(r.do, r.args, c) # {}) => r.out.total > 0
    BY <1>2, <1>7, ShownItems
  <1>9. /\ Range(Visited(r.do, r.args)) = Range(cs)
        /\ \A c, o : o \in Shown(r.do, r.args, c) <=> o \in Listed(c) /\ Passes(a, o) /\ Named(a, o)
    BY <1>1, <1>7 DEF Shown, Listed, At
  <1>10. ASSUME <<a.group, a.kind>> \in {<<g.group, g.kind>> : g \in Range(p.out.items)} PROVE r.out.total > 0
    <2>1. PICK g \in Range(p.out.items) : a.group = g.group /\ a.kind = g.kind
      BY <1>10
    <2>2. PICK c \in Range(cs) : g \in GVKs(c, ns)
      BY <1>6
    <2>3. PICK o \in Listed(c) : ns \in {"", Meta[o].namespace} /\ g = KindOf(o)
      BY <2>2 DEF GVKs, KindOf
    <2>4. a.group = Meta[o].group /\ a.kind = Meta[o].kind
      BY <2>1, <2>3 DEF KindOf
    <2>5. Passes(a, o)
      BY <1>1, <2>3, <2>4 DEF Passes, PassesAs, EqualFold
    <2>6. Named(a, o)
      BY <1>1 DEF Named
    <2> QED
      BY <1>8, <1>9, <2>3, <2>5, <2>6
  <1>11. ASSUME NEW x \in Range(r.out.items) PROVE <<x.group, x.kind>> \in {<<g.group, g.kind>> : g \in Range(p.out.items)}
    <2>1. PICK i \in 1..Len(r.out.items) : x = r.out.items[i]
      BY <1>8 DEF Range
    <2>2. PICK c \in Range(cs) : \E o \in Shown(r.do, r.args, c) : x = SnapshotResource(Entry(c, 0, o))
      <3>1. PICK c \in Range(Visited(r.do, r.args)) : \E o \in Shown(r.do, r.args, c) :
              c \in Clusters /\ r.out.items[i] = SnapshotResource(Entry(c, 0, o))
        BY <1>8
      <3> QED
        BY <1>9, <2>1, <3>1
    <2>3. PICK o \in Listed(c) : x = SnapshotResource(Entry(c, 0, o)) /\ Passes(a, o)
      BY <1>9, <2>2
    <2>4. x.group = Meta[o].group /\ x.kind = Meta[o].kind
      BY <2>3 DEF SnapshotResource, Entry
    <2>5. ns \in {"", Meta[o].namespace}
      BY <1>1, <2>3 DEF Passes, PassesAs
    <2>6. KindOf(o) \in GVKs(c, ns)
      BY <2>5 DEF GVKs, KindOf
    <2>7. KindOf(o) \in Range(p.out.items) /\ KindOf(o).group = x.group /\ KindOf(o).kind = x.kind
      BY <1>6, <2>4, <2>6 DEF KindOf
    <2> QED
      BY <2>7
  <1> QED
    BY <1>1, <1>10, <1>11

-----------------------------------------------------------------------------
(* A listed resource, opened *)

\* Keys are complete, and no two of them differ in case only.
KeysApart ==
  \A o, p \in Objs :
    /\ Meta[o].group # ""
    /\ /\ EqualFold(Meta[o].group, Meta[p].group) /\ EqualFold(Meta[o].kind, Meta[p].kind)
       /\ Meta[o].namespace = Meta[p].namespace /\ Meta[o].name = Meta[p].name
       => Meta[o].group = Meta[p].group /\ Meta[o].kind = Meta[p].kind

LEMMA KeyArgs ==
  ASSUME NEW a, NEW d, d = Dispatch(a), d.do = "GetResource", DOMAIN a.q = Scope
  PROVE  \A x \in Scope : d.args[x] = a.q[x]
  <1>1. PICK q : q = a.q
    OBVIOUS
  <1>2. \E p : DOMAIN p = Scope /\ (\A x \in Scope : p[x] = q[x]) /\ d.args = Over(p, NoArgs)
    <2>1. CASE a.path = <<"mcp">>
      <3>1. PICK p : p = Strings(q, Scope)
        OBVIOUS
      <3>2. d = McpCall("GetResource", q)
        BY <1>1, <2>1, DispatchCalls
      <3>3. d = Call("GetResource", p)
        BY <3>1, <3>2 DEF McpCall, get_resource
      <3>4. DOMAIN p = Scope /\ \A x \in Scope : p[x] = q[x]
        BY <1>1, <3>1 DEF Strings
      <3> QED
        BY <3>3, <3>4, CallFacts
    <2>2. CASE a.path # <<"mcp">>
      <3>1. PICK p : p = Decode(GetResourceWhere, q)
        OBVIOUS
      <3>2. d = Call("GetResource", RestArgs("GetResource", q))
        BY <1>1, <2>2, DispatchCalls
      <3>3. d = Call("GetResource", p)
        BY <3>1, <3>2 DEF RestArgs
      <3>4. DOMAIN GetResourceWhere = Scope
        BY DEF GetResourceWhere, Scope
      <3>5. DOMAIN p = Scope /\ \A x \in Scope : p[x] = q[x]
        BY <1>1, <3>1, <3>4 DEF Decode
      <3> QED
        BY <3>3, <3>5, CallFacts
    <2> QED
      BY <2>1, <2>2
  <1>3. PICK p : DOMAIN p = Scope /\ (\A x \in Scope : p[x] = q[x]) /\ d.args = Over(p, NoArgs)
    BY <1>2
  <1>4. \A x \in Scope : Over(p, NoArgs)[x] = p[x]
    BY <1>3, OverOne
  <1> QED
    BY <1>1, <1>3, <1>4

\* Every item of a snapshot of now is a resource that is listed.
LEMMA ListedItems ==
  ASSUME DataTypes, NamesDiffer, NEW r, Asked(r), Answered(r), Found(r), r.do = "GetCurrentSnapshot"
  PROVE  \A x \in Range(r.out.items) :
           \E c \in Clusters : \E o \in Listed(c) : x = SnapshotResource(Entry(c, 0, o))
  <1>1. PICK a, cs, F, n : a = r.args /\ cs = Visited(r.do, a) /\ F = Parts(r.do, a) /\ n = Len(cs)
    OBVIOUS
  <1>2. cs \in Seq(Clusters) /\ n \in Nat
    BY <1>1, VisitedFacts
  <1>3. ASSUME NEW i \in 1..n
        PROVE  /\ F[i] \in Seq(Entered)
               /\ \A k \in 1..Len(F[i]) : \E c \in Clusters : \E o \in Listed(c) :
                    F[i][k] = Entry(c, idx[c], o)
    <2>1. PICK c \in Clusters : c = cs[i] /\ F[i] = Part(r.do, a, c)
      BY <1>1, <1>2 DEF Parts
    <2>2. CASE a.cel = NoCel
      <3>1. Snapshots(r.do, a)
        BY <2>2 DEF Snapshots
      <3>2. F[i] \in Seq(AnyEntry(r.do, a)) /\ ListsAll(F[i], ShownEntries(r.do, a, c))
        BY <2>1, <3>1, ShownParts
      <3>3. AnyEntry(r.do, a) \subseteq Entered
        <4>1. \A b \in Clusters : At(r.do, a, b) \in Nat
          BY LogLengths DEF At, DataTypes
        <4> QED
          BY <4>1 DEF AnyEntry, Entered
      <3>4. F[i] \in Seq(Entered)
        BY <3>2, <3>3
      <3>5. \A k \in 1..Len(F[i]) : F[i][k] \in ShownEntries(r.do, a, c)
        BY <3>2 DEF ListsAll, Lists
      <3>6. \A x \in ShownEntries(r.do, a, c) : \E o \in Listed(c) : x = Entry(c, idx[c], o)
        BY DEF ShownEntries, Shown, At, Listed
      <3> QED
        BY <3>4, <3>5, <3>6
    <2>3. CASE a.cel # NoCel
      <3>1. PICK s : s = Kept(a, c, Len(Candidates(a, c)))
        OBVIOUS
      <3>2. F[i] = s
        BY <2>1, <2>3, <3>1 DEF Part
      <3>3. /\ s \in Seq(Entered)
            /\ \A k \in 1..Len(s) : s[k] = Entry(c, idx[c], s[k].o) /\ s[k].o \in Range(Filtered(c, a))
        BY <3>1, KeptIs
      <3>4. \A o \in Range(Filtered(c, a)) : o \in Listed(c)
        BY FilteredIs
      <3> QED
        BY <3>2, <3>3, <3>4
    <2> QED
      BY <2>2, <2>3
  <1>4. /\ Chained(F, n) \in Seq(Entered) /\ Len(Chained(F, n)) \in Nat
        /\ \A l \in 1..Len(Chained(F, n)) : \E i \in 1..n : \E k \in 1..Len(F[i]) : Chained(F, n)[l] = F[i][k]
    <2>1. \A i \in 1..n : F[i] \in Seq(Entered)
      BY <1>3
    <2> QED
      BY <1>2, <2>1, ChainedElements
  <1>5. PICK s : s = Ordered(r.do, r.args)
    OBVIOUS
  <1>6. s = Chained(F, n) /\ r.do \in Sliced
    BY <1>1, <1>5 DEF Ordered, Gathered, Sliced
  <1>7. s \in Seq(Entered) /\ \A l \in 1..Len(s) : \E c \in Clusters : \E o \in Listed(c) : s[l] = Entry(c, idx[c], o)
    <2>1. ASSUME NEW l \in 1..Len(Chained(F, n))
          PROVE  \E c \in Clusters : \E o \in Listed(c) : Chained(F, n)[l] = Entry(c, idx[c], o)
      <3>1. PICK i \in 1..n : \E k \in 1..Len(F[i]) : Chained(F, n)[l] = F[i][k]
        BY <1>4
      <3> QED
        BY <1>3, <3>1
    <2> QED
      BY <1>4, <1>6, <2>1
  <1>8. /\ r.out.items \in Seq(ItemsOf(r.do, Entered))
        /\ \A i \in 1..Len(r.out.items) :
             /\ Begin(r.args, Len(s)) + i \in 1..Len(s)
             /\ r.out.items[i] = Row(r.do, s[Begin(r.args, Len(s)) + i])
    BY <1>5, <1>6, <1>7, PageAnswer
  <1>9. \A x : x \in Range(r.out.items) <=> \E i \in 1..Len(r.out.items) : r.out.items[i] = x
    BY <1>8, InRangeOf, Zenon
  <1>10. \A c, v, o : Row(r.do, Entry(c, v, o)) = SnapshotResource(Entry(c, 0, o))
    BY DEF Row, SnapshotResource, Entry
  <1>11. ASSUME NEW x \in Range(r.out.items)
         PROVE  \E c \in Clusters : \E o \in Listed(c) : x = SnapshotResource(Entry(c, 0, o))
    <2>1. PICK i \in 1..Len(r.out.items) : r.out.items[i] = x
      BY <1>9
    <2>2. PICK l \in 1..Len(s) : x = Row(r.do, s[l])
      BY <1>8, <2>1
    <2>3. PICK c \in Clusters : \E o \in Listed(c) : s[l] = Entry(c, idx[c], o)
      BY <1>7
    <2> QED
      BY <1>10, <2>2, <2>3
  <1> QED
    BY <1>11

LEMMA OpensMean ==
  ASSUME DataTypes, NamesDiffer, KeysApart, SteadyInv
  PROVE  OpensWhatItLists
  <1> SUFFICES ASSUME BothAnswered, prev.do = "GetCurrentSnapshot", Found(prev), req.do = "GetResource",
                      req.ask.q \in Range(prev.out.items)
               PROVE  \E o \in Objs :
                        LET c == req.args.cluster
                        IN /\ SnapshotResource(Entry(c, 0, o)) = req.ask.q
                           /\ Found(req) => req.out.items = <<OnDisk(c, o)>>
                           /\ idx[c] = Len(log[c]) => Found(req)
    BY DEF OpensWhatItLists
  <1>1. PICK r, p, a, q : r = req /\ p = prev /\ a = req.args /\ q = req.ask.q
    OBVIOUS
  <1>2. Asked(p) /\ Answered(p) /\ Asked(r) /\ Answered(r)
    BY <1>1, BothAre
  <1>3. PICK c \in Clusters : \E o \in Listed(c) : q = SnapshotResource(Entry(c, 0, o))
    BY <1>1, <1>2, ListedItems
  <1>4. PICK u \in Listed(c) : q = SnapshotResource(Entry(c, 0, u))
    BY <1>3
  <1>5. /\ DOMAIN q = Scope /\ q["cluster"] = c /\ q["group"] = Meta[u].group /\ q["kind"] = Meta[u].kind
        /\ q["namespace"] = Meta[u].namespace /\ q["name"] = Meta[u].name
    BY <1>4 DEF SnapshotResource, Entry, Scope
  <1>6. \A x \in Scope : a[x] = q[x]
    <2>1. r.ask \in Requests /\ r.ask.q = q /\ a = Dispatch(r.ask).args /\ Dispatch(r.ask).do = "GetResource"
      BY <1>1, <1>2 DEF Asked
    <2> QED
      BY <1>5, <2>1, KeyArgs
  <1>7. /\ a["cluster"] = c /\ a["group"] = Meta[u].group /\ a["kind"] = Meta[u].kind
        /\ a["namespace"] = Meta[u].namespace /\ a["name"] = Meta[u].name
    BY <1>5, <1>6 DEF Scope
  <1>8. u \in Get(c, a)
    BY <1>7 DEF Get, EqualFold
  <1>9. PICK o : o = FirstOf(Get(c, a))
    OBVIOUS
  <1>10. o \in Get(c, a)
    <2>1. Get(c, a) \subseteq Objs
      BY DEF Get, Listed
    <2> QED
      BY <1>8, <1>9, <2>1, FirstOfFacts
  <1>11. u \in Objs /\ o \in Objs /\ o \in Listed(c)
    BY <1>10 DEF Get, Listed
  <1>12. /\ Meta[o].namespace = Meta[u].namespace /\ Meta[o].name = Meta[u].name
         /\ EqualFold(Meta[u].kind, Meta[o].kind) /\ EqualFold(Meta[u].group, Meta[o].group)
    BY <1>7, <1>10, <1>11 DEF Get, KeysApart
  <1>13. Meta[u].group = Meta[o].group /\ Meta[u].kind = Meta[o].kind
    BY <1>11, <1>12 DEF KeysApart
  <1>14. SnapshotResource(Entry(c, 0, o)) = q
    BY <1>4, <1>12, <1>13 DEF SnapshotResource, Entry
  <1>15. Path(r.do, a) = Get(c, a) /\ Path(r.do, a) # {}
    BY <1>7, <1>8 DEF Path
  <1>16. Texts(r.do, a) = <<OnDisk(c, o)>>
    BY <1>1, <1>7, <1>9, <1>15 DEF Texts
  <1>17. NoText(r.do, a) <=> OnDisk(c, o) = None
    <2>1. a.cluster \in Clusters
      BY <1>7
    <2>2. Len(<<OnDisk(c, o)>>) = 1 /\ <<OnDisk(c, o)>>[1] = OnDisk(c, o)
      OBVIOUS
    <2>3. NoText(r.do, a) <=> \E i \in 1..1 : Texts(r.do, a)[i] = None
      BY <1>15, <1>16, <2>1, <2>2 DEF NoText
    <2> QED
      BY <1>16, <2>2, <2>3
  <1>18. IF NoText(r.do, a) THEN r.out.code # "ok" ELSE r.out.code = "ok" /\ r.out.items = Texts(r.do, a)
    BY <1>1, <1>2 DEF Answered, OneFile
  <1>19. Found(r) => r.out.items = <<OnDisk(c, o)>>
    BY <1>16, <1>18 DEF Found
  <1>20. idx[c] = Len(log[c]) => Found(r)
    BY <1>11, <1>17, <1>18 DEF Found, Listed, OnDisk
  <1> QED
    BY <1>1, <1>7, <1>11, <1>14, <1>19, <1>20

\* What the server offers it also finds, in every cluster and for every backup
\* whose keys are complete and differ by more than their case: opening a row of
\* a list (Index.List, then Index.Get) shows that resource, and a kind of the
\* selector (Index.GVKs) is that of a resource the list has.
THEOREM OffersFound ==
  ASSUME NamesDiffer, KeysApart
  PROVE  Spec => []OffersAreFound
  <1>1. DataTypes /\ SteadyInv => OffersAreFound
    BY OpensMean, KindsMean DEF OffersAreFound
  <1> QED
    BY <1>1, SteadyHolds, PTL

-----------------------------------------------------------------------------
(* What a history gathers *)

\* The resources a commit changed, its events, and those of a history.
ChangedBy(c, n) == {o \in Objs : DocAt(c, n - 1, o) # DocAt(c, n, o)}
MadeBy(c, n)    == {EventOf(c, n, o) : o \in ChangedBy(c, n)}
Made(c)         == UNION {MadeBy(c, n) : n \in 1..hist[c]}
WantedOf(c, a)  == {e \in Made(c) : Wanted(a, e)}

AnyEvent == [c : Clusters, n : Nat, o : Objs, time : Nat, kind : {""} \cup {Meta[o].kind : o \in Objs},
             type : {"added", "deleted", "modified"}]

LEMMA ChangedLists ==
  ASSUME NEW c, NEW n
  PROVE  Changed(c, n) \in Seq(Objs) /\ ListsAll(Changed(c, n), ChangedBy(c, n))
  <1>1. PICK T, w : T = ChangedBy(c, n) /\ w = WalkOrder
    OBVIOUS
  <1>2. PICK keep : keep = {i \in DOMAIN w : DocAt(c, n - 1, w[i]) # DocAt(c, n, w[i])}
    OBVIOUS
  <1>3. w \in Seq(Objs) /\ ListsAll(w, Objs) /\ DOMAIN w = 1..Len(w)
    BY <1>1, WalkLists
  <1>4. \A i : i \in keep <=> i \in 1..Len(w) /\ w[i] \in T
    BY <1>1, <1>2, <1>3 DEF ChangedBy
  <1>5. SubSeqAt(w, keep) \in Seq(Objs) /\ ListsAll(SubSeqAt(w, keep), Objs \cap T)
    BY <1>3, <1>4, ChosenLists
  <1>6. Objs \cap T = T
    BY <1>1 DEF ChangedBy
  <1> QED
    BY <1>1, <1>2, <1>5, <1>6 DEF Changed

LEMMA MadeTypes ==
  ASSUME DataTypes, NEW c \in Clusters, NEW n \in 1..hist[c]
  PROVE  /\ n \in Nat /\ \A o \in Objs : EventOf(c, n, o) \in AnyEvent
         /\ \A e \in MadeBy(c, n) : e.c = c /\ e.n = n /\ e \in AnyEvent
  <1>1. n \in 1..Len(log[c]) /\ n \in Nat
    BY LogLengths DEF DataTypes
  <1>2. log[c][n].time \in Nat
    <2>1. log[c][n] \in Commits
      BY <1>1, LogLengths
    <2> QED
      BY <2>1 DEF Commits
  <1>3. ASSUME NEW o \in Objs PROVE EventOf(c, n, o) \in AnyEvent
    BY <1>1, <1>2 DEF EventOf, AnyEvent
  <1>4. ASSUME NEW e \in MadeBy(c, n) PROVE e.c = c /\ e.n = n /\ e \in AnyEvent
    <2>1. PICK o \in Objs : e = EventOf(c, n, o)
      BY DEF MadeBy, ChangedBy
    <2> QED
      BY <1>3, <2>1 DEF EventOf
  <1> QED
    BY <1>1, <1>3, <1>4

LEMMA EventsOfList ==
  ASSUME DataTypes, NEW c \in Clusters, NEW n \in 1..hist[c]
  PROVE  EventsOf(c, n) \in Seq(AnyEvent) /\ ListsAll(EventsOf(c, n), MadeBy(c, n))
  <1>1. PICK s, X, Y, g : /\ s = Changed(c, n) /\ X = ChangedBy(c, n) /\ Y = MadeBy(c, n)
                          /\ g = [o \in Objs |-> EventOf(c, n, o)]
    OBVIOUS
  <1>2. s \in Seq(Objs) /\ ListsAll(s, X)
    BY <1>1, ChangedLists
  <1>3. \A o \in Objs : g[o] = EventOf(c, n, o) /\ g[o].o = o
    BY <1>1 DEF EventOf
  <1>4. Renames(g, X, AnyEvent, Y)
    <2>1. X \subseteq Objs
      BY <1>1 DEF ChangedBy
    <2>2. \A o \in Objs : g[o] \in AnyEvent
      BY <1>3, MadeTypes
    <2>3. \A o \in X : g[o] \in Y
      BY <1>1, <1>3, <2>1 DEF MadeBy
    <2>4. \A y \in Y : \E o \in X : g[o] = y
      BY <1>1, <1>3, <2>1 DEF MadeBy
    <2>5. \A x, y \in X : g[x] = g[y] => x = y
      BY <1>3, <2>1
    <2> QED
      BY <2>1, <2>2, <2>3, <2>4, <2>5 DEF Renames
  <1>5. LET t == [i \in DOMAIN s |-> g[s[i]]]
        IN t \in Seq(AnyEvent) /\ Len(t) = Len(s) /\ ListsAll(t, Y)
    BY <1>2, <1>4, ImageLists
  <1>6. EventsOf(c, n) = [i \in DOMAIN s |-> g[s[i]]]
    <2>1. \A i \in DOMAIN s : s[i] \in Objs
      BY <1>2
    <2>2. \A i \in DOMAIN s : g[s[i]] = EventOf(c, n, s[i])
      BY <1>3, <2>1
    <2>3. EventsOf(c, n) = [i \in DOMAIN s |-> EventOf(c, n, s[i])]
      BY <1>1 DEF EventsOf
    <2> QED
      BY <2>2, <2>3
  <1> QED
    BY <1>1, <1>5, <1>6

LEMMA EventsList ==
  ASSUME DataTypes, NEW c \in Clusters
  PROVE  /\ Events(c) \in Seq(AnyEvent) /\ ListsAll(Events(c), Made(c))
         /\ \A e \in Made(c) : e.c = c
  <1>1. PICK F, n, X : /\ F = [k \in 1..hist[c] |-> EventsOf(c, k)] /\ n = hist[c]
                       /\ X = [k \in 1..hist[c] |-> MadeBy(c, k)]
    OBVIOUS
  <1>2. n \in Nat
    BY <1>1, LogLengths DEF DataTypes
  <1>3. \A k \in 1..n : F[k] = EventsOf(c, k) /\ X[k] = MadeBy(c, k)
    BY <1>1
  <1>4. \A k \in 1..n : F[k] \in Seq(AnyEvent) /\ ListsAll(F[k], X[k])
    BY <1>1, <1>3, EventsOfList
  <1>5. \A k, l \in 1..n : k # l => X[k] \cap X[l] = {}
    <2>1. \A k \in 1..n : \A e \in X[k] : e.n = k
      BY <1>1, <1>3, MadeTypes
    <2> QED
      BY <2>1
  <1>6. ListsApart(F, n, AnyEvent, X)
    BY <1>4, <1>5 DEF ListsApart
  <1>7. Chained(F, n) \in Seq(AnyEvent) /\ ListsAll(Chained(F, n), All(X, n))
    BY <1>2, <1>6, ChainLists
  <1>8. All(X, n) = Made(c)
    BY <1>1, <1>3 DEF All, Made
  <1>9. \A e \in Made(c) : e.c = c
    BY MadeTypes DEF Made
  <1> QED
    BY <1>1, <1>7, <1>8, <1>9 DEF Events

LEMMA QueryLists ==
  ASSUME DataTypes, NEW c \in Clusters, NEW a
  PROVE  /\ QueryEvents(c, a) \in Seq(AnyEvent) /\ ListsAll(QueryEvents(c, a), WantedOf(c, a))
         /\ \A e \in WantedOf(c, a) : e.c = c
  <1>1. PICK s, T : s = Events(c) /\ T = WantedOf(c, a)
    OBVIOUS
  <1>2. PICK keep : keep = {i \in DOMAIN s : Wanted(a, s[i])}
    OBVIOUS
  <1>3. s \in Seq(AnyEvent) /\ ListsAll(s, Made(c)) /\ DOMAIN s = 1..Len(s)
    BY <1>1, EventsList
  <1>4. \A i : i \in keep <=> i \in 1..Len(s) /\ s[i] \in T
    <2>1. \A i \in 1..Len(s) : s[i] \in Made(c)
      BY <1>3 DEF ListsAll, Lists
    <2>2. \A e : e \in T <=> e \in Made(c) /\ Wanted(a, e)
      BY <1>1 DEF WantedOf
    <2> QED
      BY <1>2, <1>3, <2>1, <2>2
  <1>5. PICK u : u = SubSeqAt(s, keep)
    OBVIOUS
  <1>6. u \in Seq(AnyEvent) /\ ListsAll(u, Made(c) \cap T)
    BY <1>3, <1>4, <1>5, ChosenLists
  <1>7. Made(c) \cap T = T
    BY <1>1 DEF WantedOf
  <1>8. LET t == [i \in 1..Len(u) |-> u[(Len(u) - i) + 1]]
        IN t \in Seq(AnyEvent) /\ ListsAll(t, T)
    BY <1>6, <1>7, MirrorLists
  <1>9. QueryEvents(c, a) = Reverse(u)
    BY <1>1, <1>2, <1>5 DEF QueryEvents
  <1>10. Reverse(u) = [i \in 1..Len(u) |-> u[(Len(u) - i) + 1]]
    BY DEF Reverse
  <1>11. \A e \in WantedOf(c, a) : e.c = c
    BY EventsList DEF WantedOf
  <1> QED
    BY <1>1, <1>8, <1>9, <1>10, <1>11

\* All that a history gathers, from the clusters it visits.
AllWanted(a) ==
  UNION {WantedOf(Visited("GetHistory", a)[i], a) : i \in 1..Len(Visited("GetHistory", a))}

LEMMA HistoryGathered ==
  ASSUME DataTypes, NamesDiffer, NEW a
  PROVE  /\ Gathered("GetHistory", a) \in Seq(AnyEvent)
         /\ ListsAll(Gathered("GetHistory", a), AllWanted(a))
  <1>1. PICK op, cs, F, n : op = "GetHistory" /\ cs = Visited(op, a) /\ F = Parts(op, a) /\ n = Len(cs)
    OBVIOUS
  <1>2. cs \in Seq(Clusters) /\ n \in Nat /\ \A i, j \in 1..n : cs[i] = cs[j] => i = j
    <2>1. cs \in Seq(Clusters) /\ n \in Nat
      BY <1>1, VisitedFacts
    <2> QED
      BY <1>1, <2>1, VisitedOnce
  <1>3. PICK X : X = [i \in 1..n |-> WantedOf(cs[i], a)]
    OBVIOUS
  <1>4. ASSUME NEW i \in 1..n
        PROVE  cs[i] \in Clusters /\ F[i] = QueryEvents(cs[i], a) /\ X[i] = WantedOf(cs[i], a)
    <2>1. cs[i] \in Clusters /\ X[i] = WantedOf(cs[i], a)
      <3>1. cs[i] \in Clusters
        BY <1>1, <1>2
      <3> QED
        BY <1>3, <3>1
    <2>2. F[i] = Part(op, a, cs[i])
      BY <1>1 DEF Parts
    <2>3. Part(op, a, cs[i]) = QueryEvents(cs[i], a)
      BY <1>1 DEF Part
    <2> QED
      BY <2>1, <2>2, <2>3
  <1>5. \A i \in 1..n : F[i] \in Seq(AnyEvent) /\ ListsAll(F[i], X[i])
    BY <1>4, QueryLists
  <1>6. \A i, j \in 1..n : i # j => X[i] \cap X[j] = {}
    <2>1. \A i \in 1..n : \A x \in X[i] : x.c = cs[i]
      BY <1>4, QueryLists
    <2> QED
      BY <1>2, <2>1
  <1>7. Chained(F, n) \in Seq(AnyEvent) /\ ListsAll(Chained(F, n), All(X, n))
    <2>1. ListsApart(F, n, AnyEvent, X)
      BY <1>5, <1>6 DEF ListsApart
    <2> QED
      BY <1>2, <2>1, ChainLists
  <1>8. All(X, n) = AllWanted(a)
    BY <1>1, <1>4 DEF AllWanted, All
  <1> QED
    BY <1>1, <1>7, <1>8 DEF Gathered

\* The positions of the events that are above each one in GetHistory.
Newer(s, i) ==
  {j \in DOMAIN s : \/ s[j].time > s[i].time
                    \/ s[j].time = s[i].time /\ j < i}
NewerThan(s) == [i \in DOMAIN s |-> Newer(s, i)]

LEMMA NewestLists ==
  ASSUME NEW s \in Seq(AnyEvent), NEW X, ListsAll(s, X)
  PROVE  /\ Newest(s) \in Seq(AnyEvent) /\ Len(Newest(s)) = Len(s) /\ ListsAll(Newest(s), X)
         /\ \A k, l \in 1..Len(s) : k < l => Newest(s)[k].time >= Newest(s)[l].time
  <1>1. PICK n, above, t : n = Len(s) /\ above = NewerThan(s) /\ t = Newest(s)
    OBVIOUS
  <1>2. DOMAIN s = 1..n /\ n \in Nat /\ \A i \in 1..n : s[i].time \in Nat
    <2>1. \A i \in 1..n : s[i] \in AnyEvent
      BY <1>1
    <2>2. \A e \in AnyEvent : e.time \in Nat
      BY DEF AnyEvent
    <2> QED
      BY <1>1, <2>1, <2>2
  <1>3. \A i, j \in 1..n :
          j \in above[i] <=> (s[j].time > s[i].time \/ (s[j].time = s[i].time /\ j < i))
    <2>1. \A i \in 1..n : above[i] = Newer(s, i)
      BY <1>1, <1>2 DEF NewerThan
    <2>2. ASSUME NEW i, NEW j \in DOMAIN s
          PROVE  j \in Newer(s, i) <=> (s[j].time > s[i].time \/ (s[j].time = s[i].time /\ j < i))
      BY DEF Newer
    <2> QED
      BY <1>2, <2>1, <2>2, SMTT(30)
  <1>4. \A i \in 1..n : above[i] \in SUBSET (1..n)
    BY <1>1, <1>2 DEF NewerThan, Newer
  <1>5. Orders(above, Len(s))
    <2>1. \A i \in 1..n : i \notin above[i]
      BY <1>2, <1>3
    <2>2. \A i, j \in 1..n : i # j => i \in above[j] \/ j \in above[i]
      BY <1>2, <1>3
    <2>3. ASSUME NEW i \in 1..n, NEW j \in 1..n, i \in above[j], NEW k \in above[i]
          PROVE  k \in above[j]
      BY <1>2, <1>3, <1>4, <2>3
    <2> QED
      BY <1>1, <1>4, <2>1, <2>2, <2>3 DEF Orders
  <1>6. t = InOrder(s, above)
    <2>1. Newest(s) = InOrder(s, NewerThan(s))
      BY DEF Newest, NewerThan, Newer
    <2> QED
      BY <1>1, <2>1
  <1>7. /\ InOrder(s, above) \in Seq(AnyEvent) /\ Len(InOrder(s, above)) = Len(s)
        /\ ListsAll(InOrder(s, above), X)
        /\ \A k, l \in 1..Len(s) : k < l =>
             \E i, j \in 1..Len(s) : i \in above[j] /\ InOrder(s, above)[k] = s[i] /\ InOrder(s, above)[l] = s[j]
    BY <1>5, OrderedLists
  <1>8. ASSUME NEW k \in 1..Len(s), NEW l \in 1..Len(s), k < l
        PROVE  t[k].time >= t[l].time
    <2>1. PICK i, j \in 1..Len(s) : i \in above[j] /\ t[k] = s[i] /\ t[l] = s[j]
      BY <1>6, <1>7, <1>8
    <2>2. s[i].time >= s[j].time
      BY <1>1, <1>2, <1>3, <2>1
    <2> QED
      BY <2>1, <2>2
  <1> QED
    BY <1>1, <1>6, <1>7, <1>8

-----------------------------------------------------------------------------
(* Pages of one list *)

\* What a paged list is made of, and the set it is taken from.
Members(op, a)   == IF op = "GetHistory" THEN AllWanted(a) ELSE AllShown(op, a)
AnyMember(op, a) == IF op = "GetHistory" THEN AnyEvent ELSE AnyEntry(op, a)

LEMMA OrderedMembers ==
  ASSUME DataTypes, NamesDiffer, NEW op \in Sliced, NEW a, a.cel = NoCel
  PROVE  /\ Ordered(op, a) \in Seq(AnyMember(op, a))
         /\ ListsAll(Ordered(op, a), Members(op, a))
         /\ op = "GetHistory" => \A k, l \in 1..Len(Ordered(op, a)) :
              k < l => Ordered(op, a)[k].time >= Ordered(op, a)[l].time
  <1>1. CASE op = "GetHistory"
    <2>1. PICK s, t, X : s = Gathered("GetHistory", a) /\ t = Newest(s) /\ X = AllWanted(a)
      OBVIOUS
    <2>2. s \in Seq(AnyEvent) /\ ListsAll(s, X)
      BY <2>1, HistoryGathered
    <2>3. /\ t \in Seq(AnyEvent) /\ Len(t) = Len(s) /\ ListsAll(t, X)
          /\ \A k, l \in 1..Len(s) : k < l => t[k].time >= t[l].time
      BY <2>1, <2>2, NewestLists
    <2>4. Ordered(op, a) = t /\ Members(op, a) = X /\ AnyMember(op, a) = AnyEvent
      BY <1>1, <2>1 DEF Ordered, Members, AnyMember
    <2> QED
      BY <2>3, <2>4
  <1>2. CASE op # "GetHistory"
    <2>1. Snapshots(op, a)
      BY <1>2 DEF Snapshots, Sliced
    <2>2. Gathered(op, a) \in Seq(AnyEntry(op, a)) /\ ListsAll(Gathered(op, a), AllShown(op, a))
      BY <2>1, ShownGathered
    <2> QED
      BY <1>2, <2>2 DEF Ordered, Members, AnyMember
  <1> QED
    BY <1>1, <1>2

\* The arguments that decide what is listed.
Choosing == {"cluster", "group", "kind", "namespace", "name", "cel", "datetime", "since", "until", "changeType"}

LEMMA SameChoice ==
  ASSUME NEW op \in Sliced, NEW a, NEW b, \A x \in Choosing : a[x] = b[x], a.cel = NoCel
  PROVE  Ordered(op, a) = Ordered(op, b)
  <1>1. /\ a.cluster = b.cluster /\ a.group = b.group /\ a.kind = b.kind /\ a.namespace = b.namespace
        /\ a.name = b.name /\ a.datetime = b.datetime /\ a.since = b.since /\ a.until = b.until
        /\ a.changeType = b.changeType /\ b.cel = NoCel
    BY DEF Choosing
  <1>2. \A o : (Passes(a, o) <=> Passes(b, o)) /\ (Named(a, o) <=> Named(b, o))
    BY <1>1 DEF Passes, PassesAs, Named
  <1>3. \A e : Wanted(a, e) <=> Wanted(b, e)
    BY <1>1, <1>2 DEF Wanted, PassesAs
  <1>4. ASSUME NEW c PROVE Part(op, a, c) = Part(op, b, c)
    <2>1. CASE op = "GetCurrentSnapshot"
      <3>1. Filtered(c, a) = Filtered(c, b)
        BY <1>2 DEF Filtered
      <3>2. \A f : WithName(a, f) = WithName(b, f)
        BY <1>2 DEF WithName
      <3> QED
        BY <1>1, <2>1, <3>1, <3>2 DEF Part
    <2>2. CASE op = "GetHistoricalSnapshot"
      <3>1. \A n : AtCommit(c, n, a) = AtCommit(c, n, b)
        BY <1>2 DEF AtCommit
      <3> QED
        BY <1>1, <2>2, <3>1 DEF Part
    <2>3. CASE op = "GetHistory"
      <3>1. QueryEvents(c, a) = QueryEvents(c, b)
        BY <1>3 DEF QueryEvents
      <3> QED
        BY <2>3, <3>1 DEF Part
    <2> QED
      BY <2>1, <2>2, <2>3 DEF Sliced
  <1>5. Visited(op, a) = Visited(op, b)
    BY <1>1 DEF Visited
  <1>6. Parts(op, a) = Parts(op, b)
    BY <1>4, <1>5 DEF Parts
  <1>7. Gathered(op, a) = Gathered(op, b)
    BY <1>5, <1>6 DEF Gathered
  <1> QED
    BY <1>7 DEF Ordered

WholeIn(op, a, c) ==
  CASE op = "GetCurrentSnapshot"    -> {Entry(c, idx[c], o) :
                                          o \in {x \in Range(Filtered(c, a)) : Named(a, x)}}
    [] op = "GetHistoricalSnapshot" -> {Entry(c, FindBefore(c, a.datetime), o) :
                                          o \in Range(AtCommit(c, FindBefore(c, a.datetime), a))}
    [] op = "GetHistory"            -> Range(QueryEvents(c, a))
MembersIn(op, a, c) == IF op = "GetHistory" THEN WantedOf(c, a) ELSE ShownEntries(op, a, c)

LEMMA WholeInIs ==
  ASSUME DataTypes, NEW op \in Sliced, NEW a, a.cel = NoCel, NEW c \in Clusters
  PROVE  WholeIn(op, a, c) = MembersIn(op, a, c)
  <1>1. CASE op = "GetHistory"
    <2>1. PICK s, X, R : s = QueryEvents(c, a) /\ X = WantedOf(c, a) /\ R = Range(QueryEvents(c, a))
      OBVIOUS
    <2>2. s \in Seq(AnyEvent) /\ ListsAll(s, X)
      BY <2>1, QueryLists
    <2>3. \A e : e \in R <=> \E i \in 1..Len(s) : s[i] = e
      BY <2>1, <2>2, InRangeOf, Zenon
    <2>4. R = X
      <3>1. \A e : e \in R <=> e \in X
        BY <2>2, <2>3 DEF ListsAll, Lists
      <3> QED
        BY <3>1
    <2>5. WholeIn(op, a, c) = R
      BY <1>1, <2>1 DEF WholeIn
    <2>6. MembersIn(op, a, c) = X
      BY <1>1, <2>1 DEF MembersIn
    <2> QED
      BY <2>4, <2>5, <2>6
  <1>2. CASE op # "GetHistory"
    <2>1. PICK X, R, v : /\ X = Shown(op, a, c) /\ v = At(op, a, c)
                         /\ R = IF op = "GetCurrentSnapshot" THEN {x \in Range(Filtered(c, a)) : Named(a, x)}
                                ELSE Range(AtCommit(c, FindBefore(c, a.datetime), a))
      OBVIOUS
    <2>2. R = X
      <3>1. CASE op = "GetCurrentSnapshot"
        <4>1. \A o : o \in Range(Filtered(c, a)) <=> o \in Listed(c) /\ Passes(a, o)
          BY FilteredIs
        <4>2. \A o : o \in X <=> o \in Listed(c) /\ Passes(a, o) /\ Named(a, o)
          BY <2>1, <3>1 DEF Shown, Listed, At
        <4>3. R = {x \in Range(Filtered(c, a)) : Named(a, x)}
          BY <2>1, <3>1
        <4>4. \A o : o \in R <=> o \in X
          BY <4>1, <4>2, <4>3
        <4> QED
          BY <4>4
      <3>2. CASE op # "GetCurrentSnapshot"
        <4>1. PICK n, s : n = FindBefore(c, a.datetime) /\ s = AtCommit(c, n, a)
          OBVIOUS
        <4>2. R = Range(s) /\ v = n
          BY <2>1, <3>2, <4>1 DEF At
        <4>3. s \in Seq(Objs) /\ ListsAll(s, {o \in Objs : DocAt(c, n, o) # None /\ Passes(a, o) /\ Named(a, o)})
          BY <4>1, AtCommitLists
        <4>4. X = {o \in Objs : DocAt(c, n, o) # None /\ Passes(a, o) /\ Named(a, o)}
          BY <2>1, <4>2 DEF Shown
        <4>5. ListsAll(s, X)
          BY <4>3, <4>4
        <4>6. \A o : o \in R <=> \E i \in 1..Len(s) : s[i] = o
          BY <4>2, <4>3, InRangeOf, Zenon
        <4>7. \A o : o \in R <=> o \in X
          BY <4>5, <4>6 DEF ListsAll, Lists
        <4> QED
          BY <4>7
      <3> QED
        BY <3>1, <3>2
    <2>3. WholeIn(op, a, c) = {Entry(c, v, o) : o \in R}
      BY <1>2, <2>1 DEF WholeIn, Sliced, At
    <2>4. MembersIn(op, a, c) = {Entry(c, v, o) : o \in X}
      BY <1>2, <2>1 DEF MembersIn, ShownEntries
    <2> QED
      BY <2>2, <2>3, <2>4
  <1> QED
    BY <1>1, <1>2

LEMMA WholeIs ==
  ASSUME DataTypes, NEW op \in Sliced, NEW a, a.cel = NoCel
  PROVE  Whole(op, a) = Members(op, a)
  <1>1. PICK cs : cs = Visited(op, a)
    OBVIOUS
  <1>2. cs = Resolve(op, a.cluster) /\ cs \in Seq(Clusters)
    BY <1>1, VisitedFacts DEF Visited, Sliced
  <1>3. \A c : c \in Range(cs) <=> \E i \in 1..Len(cs) : cs[i] = c
    BY <1>2, InRangeOf, Zenon
  <1>4. \A x : x \in Whole(op, a) <=> \E c \in Range(cs) : x \in WholeIn(op, a, c)
    BY <1>2 DEF Whole, WholeIn
  <1>5. \A x : x \in Members(op, a) <=> \E i \in 1..Len(cs) : x \in MembersIn(op, a, cs[i])
    BY <1>1 DEF Members, MembersIn, AllWanted, AllShown
  <1>6. \A c \in Range(cs) : c \in Clusters
    BY <1>2, <1>3
  <1>7. \A c \in Range(cs) : WholeIn(op, a, c) = MembersIn(op, a, c)
    BY <1>6, WholeInIs
  <1>8. \A x : x \in Whole(op, a) <=> x \in Members(op, a)
    BY <1>3, <1>4, <1>5, <1>7
  <1> QED
    BY <1>8

\* The whole list as it would be answered without pages.
Rows(op, a) == [i \in DOMAIN Ordered(op, a) |-> Row(op, Ordered(op, a)[i])]

LEMMA RowsList ==
  ASSUME DataTypes, NamesDiffer, NEW op \in Sliced, NEW a, a.cel = NoCel
  PROVE  /\ Len(Rows(op, a)) = Len(Ordered(op, a))
         /\ \A k \in 1..Len(Ordered(op, a)) : Rows(op, a)[k] = Row(op, Ordered(op, a)[k])
         /\ op = "GetHistory" => \A k, l \in 1..Len(Rows(op, a)) :
              k < l => Rows(op, a)[k].timestamp >= Rows(op, a)[l].timestamp
  <1>1. PICK s, S : s = Ordered(op, a) /\ S = AnyMember(op, a)
    OBVIOUS
  <1>2. s \in Seq(S) /\ DOMAIN s = 1..Len(s)
    BY <1>1, OrderedMembers
  <1>3. Rows(op, a) = [i \in 1..Len(s) |-> Row(op, s[i])]
    BY <1>1, <1>2 DEF Rows
  <1>4. Len(Rows(op, a)) = Len(s)
    BY <1>2, <1>3
  <1>5. ASSUME op = "GetHistory", NEW k \in 1..Len(s), NEW l \in 1..Len(s), k < l
        PROVE  Rows(op, a)[k].timestamp >= Rows(op, a)[l].timestamp
    <2>1. s[k].time >= s[l].time
      BY <1>1, <1>5, OrderedMembers
    <2>2. Rows(op, a)[k] = ChangeEvent(s[k]) /\ Rows(op, a)[l] = ChangeEvent(s[l])
      BY <1>3, <1>5 DEF Row
    <2>3. ChangeEvent(s[k]).timestamp = s[k].time /\ ChangeEvent(s[l]).timestamp = s[l].time
      BY DEF ChangeEvent
    <2> QED
      BY <2>1, <2>2, <2>3
  <1> QED
    BY <1>1, <1>3, <1>4, <1>5

\* A stretch of a list has a row no more often than the list has it.
Stretch(op, s, from, m, rows) ==
  \A k \in 1..m : from + k \in 1..Len(s) /\ rows[k] = Row(op, s[from + k])
TimesShown(rows, m, r) == Cardinality({i \in 1..m : rows[i] = r})
TimesHeld(op, X, r)    == Cardinality({x \in X : Row(op, x) = r})

LEMMA StretchCounts ==
  ASSUME NEW op, NEW X, NEW s, Len(s) \in Nat, ListsAll(s, X), NEW from \in Nat, NEW m \in Nat, NEW both,
         Stretch(op, s, from, m, both), NEW r
  PROVE  TimesShown(both, m, r) <= TimesHeld(op, X, r)
  <1> USE DEF Stretch
  <1>1. PICK I, R : I = {i \in 1..m : both[i] = r} /\ R = {x \in X : Row(op, x) = r}
    OBVIOUS
  <1>2. PICK f : f = [i \in I |-> s[from + i]]
    OBVIOUS
  <1>3. IsFiniteSet(R)
    <2>1. IsFiniteSet(X)
      BY ListedOnce DEF ListsAll
    <2> QED
      BY <1>1, <2>1, FS_Subset
  <1>4. \A i \in I : f[i] \in R
    BY <1>1, <1>2 DEF ListsAll, Lists
  <1>5. \A i, j \in I : f[i] = f[j] => i = j
    <2> SUFFICES ASSUME NEW i \in I, NEW j \in I, f[i] = f[j] PROVE i = j
      OBVIOUS
    <2>1. from + i \in 1..Len(s) /\ from + j \in 1..Len(s) /\ s[from + i] = s[from + j]
      BY <1>1, <1>2
    <2>2. from + i = from + j
      BY <2>1 DEF ListsAll, Lists
    <2> QED
      BY <1>1, <2>2
  <1>6. f \in Injection(I, R)
    BY <1>2, <1>4, <1>5 DEF Injection, IsInjective
  <1>7. Cardinality(I) <= Cardinality(R)
    BY <1>3, <1>6, FS_Injection
  <1> QED
    BY <1>1, <1>7 DEF TimesShown, TimesHeld

\* A page that starts at x, and the one that starts where it ends.
PageOf(u, t, x, limit) ==
  LET n == Len(t)
      b == IF x <= n THEN x ELSE n
  IN /\ Len(u) = IF n - b <= limit THEN n - b ELSE limit
     /\ \A i \in 1..Len(u) : b + i \in 1..n /\ u[i] = t[b + i]

LEMMA PagesJoin ==
  ASSUME NEW S, NEW t, Len(t) \in Nat, NEW u \in Seq(S), NEW v \in Seq(S), NEW x \in Nat, NEW limit \in Nat,
         PageOf(u, t, x, limit), PageOf(v, t, x + Len(u), limit)
  PROVE  LET b == IF x <= Len(t) THEN x ELSE Len(t)
         IN /\ DOMAIN (u \o v) = 1..Len(u \o v)
            /\ \A k \in 1..Len(u \o v) : b + k \in 1..Len(t) /\ (u \o v)[k] = t[b + k]
            /\ Len(v) < limit => x + Len(u \o v) >= Len(t)
  <1>1. PICK n, b, m, l : /\ n = Len(t) /\ b = IF x <= n THEN x ELSE n
                          /\ m = Len(u) /\ l = Len(v)
    OBVIOUS
  <1>2. n \in Nat /\ b \in Nat /\ b <= n /\ m \in Nat /\ l \in Nat
    BY <1>1
  <1>3. m = (IF n - b <= limit THEN n - b ELSE limit) /\ \A i \in 1..m : b + i \in 1..n /\ u[i] = t[b + i]
    BY <1>1 DEF PageOf
  <1>4. PICK d : d = IF x + m <= n THEN x + m ELSE n
    OBVIOUS
  <1>5. l = (IF n - d <= limit THEN n - d ELSE limit) /\ \A i \in 1..l : d + i \in 1..n /\ v[i] = t[d + i]
    BY <1>1, <1>4 DEF PageOf
  <1>6. d = b + m
    <2>1. CASE x <= n
      <3>1. b = x /\ m <= n - x
        BY <1>1, <1>2, <1>3, <2>1
      <3>2. x + m <= n
        BY <1>2, <2>1, <3>1
      <3> QED
        BY <1>4, <3>1, <3>2
    <2>2. CASE ~(x <= n)
      <3>1. b = n /\ m = 0
        BY <1>1, <1>2, <1>3, <2>2
      <3> QED
        BY <1>2, <1>4, <2>2, <3>1
    <2> QED
      BY <2>1, <2>2
  <1>7. /\ Len(u \o v) = m + l /\ u \o v \in Seq(S)
        /\ \A k \in 1..m : (u \o v)[k] = u[k]
        /\ \A k \in 1..l : (u \o v)[m + k] = v[k]
    BY <1>1, ConcatFacts
  <1>8. ASSUME NEW k \in 1..(m + l) PROVE b + k \in 1..n /\ (u \o v)[k] = t[b + k]
    <2>1. CASE k <= m
      <3>1. k \in 1..m
        BY <1>2, <2>1
      <3>2. (u \o v)[k] = u[k]
        BY <1>7, <3>1
      <3>3. b + k \in 1..n /\ u[k] = t[b + k]
        BY <1>3, <3>1
      <3> QED
        BY <3>2, <3>3
    <2>2. CASE ~(k <= m)
      <3>1. PICK i \in 1..l : k = m + i
        BY <1>2, <2>2
      <3>2. d + i = b + k
        BY <1>2, <1>6, <3>1
      <3> QED
        BY <1>5, <1>7, <3>1, <3>2
    <2> QED
      BY <1>2, <2>1, <2>2
  <1>9. l < limit => x + (m + l) >= n
    <2> SUFFICES ASSUME l < limit PROVE x + (m + l) >= n
      OBVIOUS
    <2>1. d \in Nat /\ d <= n
      BY <1>2, <1>4
    <2>2. l = n - d
      BY <1>2, <1>5, <2>1
    <2>3. d <= x + m
      BY <1>2, <1>4
    <2> QED
      BY <1>2, <2>1, <2>2, <2>3
  <1> QED
    BY <1>1, <1>7, <1>8, <1>9

\* The arguments of a call have a value for everything that chooses.
LEMMA ChoosingGiven ==
  ASSUME NEW a, NEW d, d = Dispatch(a), d.do \in Sliced
  PROVE  Choosing \cup {"limit"} \subseteq DOMAIN d.args
  <1>1. PICK q, op : q = a.q /\ op = d.do
    OBVIOUS
  <1>2. op \in {"GetCurrentSnapshot", "GetHistoricalSnapshot", "GetHistory"} /\ op # "reply"
    BY <1>1 DEF Sliced
  <1>3. \A args : Choosing \cup {"limit"} \subseteq DOMAIN Over(args, NoArgs)
    <2>1. Choosing \cup {"limit"} \subseteq DOMAIN NoArgs
      BY DEF Choosing, NoArgs
    <2>2. \A f, g : DOMAIN Over(f, g) = DOMAIN f \cup DOMAIN g
      BY OverOne
    <2> QED
      BY <2>1, <2>2
  <1>4. \A o, args : Choosing \cup {"limit"} \subseteq DOMAIN Call(o, args).args
    BY <1>3, CallFacts
  <1>5. \A code : Reply(code).args = NoArgs /\ Choosing \cup {"limit"} \subseteq DOMAIN Reply(code).args
    BY DEF Reply, Choosing, NoArgs
  <1>6. CASE a.path # <<"mcp">>
    <2>1. d = Call(op, RestArgs(op, q))
      BY <1>1, <1>2, <1>6, DispatchCalls
    <2> QED
      BY <1>4, <2>1
  <1>7. CASE a.path = <<"mcp">>
    <2>1. d = McpCall(op, q)
      BY <1>1, <1>2, <1>7, DispatchCalls
    <2>2. d = get_snapshot(q) \/ d = get_history(q)
      BY <1>2, <2>1 DEF McpCall
    <2>3. (\E o, args : d = Call(o, args)) \/ (\E code : d = Reply(code))
      <3>1. get_snapshot(q) = Reply("text") \/ \E o, args : get_snapshot(q) = Call(o, args)
        BY DEF get_snapshot
      <3>2. \E o, args : get_history(q) = Call(o, args)
        BY DEF get_history
      <3> QED
        BY <2>2, <3>1, <3>2
    <2> QED
      BY <1>4, <1>5, <2>3
  <1> QED
    BY <1>6, <1>7

LEMMA PagesMean ==
  ASSUME DataTypes, NamesDiffer, SteadyInv
  PROVE  PagesFollow
  <1> SUFFICES ASSUME BothAnswered /\ prev.do = req.do,
                      req.do \in {"GetCurrentSnapshot", "GetHistoricalSnapshot", "GetHistory"},
                      req.args.cel = NoCel, Found(prev), Found(req),
                      [prev.args EXCEPT !.offset = req.args.offset] = req.args,
                      req.args.offset = prev.args.offset + Len(prev.out.items)
               PROVE  LET both  == prev.out.items \o req.out.items
                          whole == Whole(req.do, req.args)
                      IN /\ \A r \in Range(both) : Cardinality({i \in DOMAIN both : both[i] = r})
                                                     <= Cardinality({y \in whole : Row(req.do, y) = r})
                         /\ prev.out.total = Cardinality(whole) /\ req.out.total = Cardinality(whole)
                         /\ Len(req.out.items) < req.args.limit
                              => prev.args.offset + Len(both) >= Cardinality(whole)
                         /\ req.do = "GetHistory" =>
                              \A i, j \in DOMAIN both : i < j => both[i].timestamp >= both[j].timestamp
    BY DEF PagesFollow
  <1>1. /\ Asked(prev) /\ Answered(prev) /\ Asked(req) /\ Answered(req)
        /\ req.do \in Sliced /\ prev.do \in Sliced
    BY BothAre DEF Sliced
  <1>2. PICK op, a, b, s, t, S, W : /\ op = req.do /\ a = prev.args /\ b = req.args
                                    /\ s = Ordered(op, b) /\ t = Rows(op, b)
                                    /\ S = AnyMember(op, b) /\ W = Whole(op, b)
    OBVIOUS
  <1>3. (\A x \in Choosing : a[x] = b[x]) /\ a.limit = b.limit /\ a.cel = NoCel
    <2>1. Choosing \cup {"limit"} \subseteq DOMAIN a
      <3>1. prev.args = Dispatch(prev.ask).args /\ prev.do = Dispatch(prev.ask).do
        BY <1>1 DEF Asked
      <3> QED
        BY <1>1, <1>2, <3>1, ChoosingGiven
    <2>2. b = [a EXCEPT !.offset = req.args.offset]
      BY <1>2
    <2>3. "offset" \notin Choosing /\ "limit" \notin Choosing /\ "cel" \in Choosing
      BY DEF Choosing
    <2>4. \A x \in Choosing : a[x] = b[x]
      BY <2>1, <2>2, <2>3
    <2> QED
      BY <1>2, <2>1, <2>2, <2>3, <2>4
  <1>4. s = Ordered(op, a)
    BY <1>1, <1>2, <1>3, SameChoice
  <1>5. s \in Seq(S) /\ ListsAll(s, W)
    <2>1. W = Members(op, b)
      BY <1>1, <1>2, <1>3, WholeIs
    <2> QED
      BY <1>1, <1>2, <2>1, OrderedMembers
  <1>6. /\ Len(t) = Len(s) /\ \A k \in 1..Len(s) : t[k] = Row(op, s[k])
        /\ op = "GetHistory" => \A k, l \in 1..Len(t) : k < l => t[k].timestamp >= t[l].timestamp
    BY <1>1, <1>2, RowsList
  <1>7. PICK n \in Nat : n = Len(t)
    BY <1>6
  <1>8. \A k \in 1..n : t[k] = Row(op, s[k])
    BY <1>6, <1>7
  <1>9. PICK u, v, x, limit : /\ u = prev.out.items /\ v = req.out.items
                              /\ x = a.offset /\ limit = a.limit
    OBVIOUS
  <1>10. /\ x \in Nat /\ limit \in Nat /\ prev.out.total = n /\ u \in Seq(ItemsOf(op, S))
         /\ PageOf(u, t, x, limit)
    <2>1. s = Ordered(prev.do, prev.args) /\ op = prev.do
      BY <1>2, <1>4
    <2>2. /\ prev.args.offset \in Nat /\ prev.args.limit \in Nat /\ prev.out.total = Len(s)
          /\ prev.out.items \in Seq(ItemsOf(prev.do, S))
          /\ Len(prev.out.items) = IF Len(s) - Begin(prev.args, Len(s)) <= prev.args.limit
                                   THEN Len(s) - Begin(prev.args, Len(s)) ELSE prev.args.limit
          /\ \A i \in 1..Len(prev.out.items) :
               /\ Begin(prev.args, Len(s)) + i \in 1..Len(s)
               /\ prev.out.items[i] = Row(prev.do, s[Begin(prev.args, Len(s)) + i])
      BY <1>1, <1>5, <2>1, PageAnswer
    <2>3. Begin(prev.args, Len(s)) = IF x <= n THEN x ELSE n
      BY <1>2, <1>6, <1>7, <1>9 DEF Begin
    <2>4. PageOf(u, t, x, limit)
      <3>1. Len(s) = n /\ Len(t) = n
        BY <1>6, <1>7
      <3>2. Len(u) = IF n - (IF x <= n THEN x ELSE n) <= limit THEN n - (IF x <= n THEN x ELSE n) ELSE limit
        BY <1>2, <1>9, <2>2, <2>3, <3>1
      <3>3. \A i \in 1..Len(u) : /\ (IF x <= n THEN x ELSE n) + i \in 1..n
                                  /\ u[i] = Row(op, s[(IF x <= n THEN x ELSE n) + i])
        BY <1>9, <2>1, <2>2, <2>3, <3>1
      <3> QED
        BY <1>8, <3>1, <3>2, <3>3 DEF PageOf
    <2> QED
      BY <1>2, <1>6, <1>7, <1>9, <2>1, <2>2, <2>4
  <1>11. req.out.total = n /\ v \in Seq(ItemsOf(op, S)) /\ PageOf(v, t, x + Len(u), limit)
    <2>1. s = Ordered(req.do, req.args) /\ op = req.do
      BY <1>2
    <2>2. /\ req.out.total = Len(s) /\ req.out.items \in Seq(ItemsOf(req.do, S))
          /\ Len(req.out.items) = IF Len(s) - Begin(req.args, Len(s)) <= req.args.limit
                                  THEN Len(s) - Begin(req.args, Len(s)) ELSE req.args.limit
          /\ \A i \in 1..Len(req.out.items) :
               /\ Begin(req.args, Len(s)) + i \in 1..Len(s)
               /\ req.out.items[i] = Row(req.do, s[Begin(req.args, Len(s)) + i])
      BY <1>1, <1>5, <2>1, PageAnswer
    <2>3. b.offset = x + Len(u) /\ b.limit = limit
      BY <1>2, <1>3, <1>9
    <2>4. Begin(req.args, Len(s)) = IF x + Len(u) <= n THEN x + Len(u) ELSE n
      BY <1>2, <1>6, <1>7, <2>3 DEF Begin
    <2>5. PageOf(v, t, x + Len(u), limit)
      BY <1>2, <1>6, <1>7, <1>8, <1>9, <2>1, <2>2, <2>3, <2>4 DEF PageOf
    <2> QED
      BY <1>2, <1>6, <1>7, <1>9, <2>2, <2>5
  <1>12. PICK from, both : from = (IF x <= n THEN x ELSE n) /\ both = u \o v
    OBVIOUS
  <1>13. /\ DOMAIN both = 1..Len(both)
         /\ \A k \in 1..Len(both) : from + k \in 1..n /\ both[k] = t[from + k]
         /\ Len(v) < limit => x + Len(both) >= n
    <2>1. LET k0 == IF x <= Len(t) THEN x ELSE Len(t)
          IN /\ DOMAIN (u \o v) = 1..Len(u \o v)
             /\ \A k \in 1..Len(u \o v) : k0 + k \in 1..Len(t) /\ (u \o v)[k] = t[k0 + k]
             /\ Len(v) < limit => x + Len(u \o v) >= Len(t)
      BY <1>7, <1>10, <1>11, PagesJoin
    <2> QED
      BY <1>7, <1>12, <2>1
  <1>14. Cardinality(W) = n
    BY <1>5, <1>6, <1>7, ListedOnce DEF ListsAll
  <1>15. from \in Nat /\ both \in Seq(ItemsOf(op, S)) /\ Len(both) \in Nat
    BY <1>10, <1>11, <1>12
  <1>16. Stretch(op, s, from, Len(both), both)
    BY <1>6, <1>7, <1>8, <1>13 DEF Stretch
  <1>17. \A r : TimesShown(both, Len(both), r) <= TimesHeld(op, W, r)
    <2>1. Len(s) \in Nat
      BY <1>5
    <2> QED
      BY <1>5, <1>15, <1>16, <2>1, StretchCounts
  <1>18. \A r \in Range(prev.out.items \o req.out.items) :
            Cardinality({i \in DOMAIN (prev.out.items \o req.out.items) : (prev.out.items \o req.out.items)[i] = r})
              <= Cardinality({y \in Whole(req.do, req.args) : Row(req.do, y) = r})
    <2>1. both = prev.out.items \o req.out.items /\ W = Whole(req.do, req.args) /\ op = req.do
      BY <1>2, <1>9, <1>12
    <2> QED
      BY <1>13, <1>17, <2>1 DEF TimesShown, TimesHeld
  <1>19. ASSUME op = "GetHistory", NEW i \in 1..Len(both), NEW j \in 1..Len(both), i < j
         PROVE  both[i].timestamp >= both[j].timestamp
    <2>1. from + i < from + j
      BY <1>15, <1>19
    <2>2. t[from + i].timestamp >= t[from + j].timestamp
      BY <1>6, <1>7, <1>13, <1>19, <2>1
    <2> QED
      BY <1>13, <2>2
  <1>20. LET all   == prev.out.items \o req.out.items
             whole == Whole(req.do, req.args)
         IN /\ prev.out.total = Cardinality(whole) /\ req.out.total = Cardinality(whole)
            /\ Len(req.out.items) < req.args.limit
                 => prev.args.offset + Len(all) >= Cardinality(whole)
            /\ req.do = "GetHistory" =>
                 \A i, j \in DOMAIN all : i < j => all[i].timestamp >= all[j].timestamp
    BY <1>2, <1>3, <1>9, <1>10, <1>11, <1>12, <1>13, <1>14, <1>19
  <1> QED
    BY <1>18, <1>20

\* Pages asked one after the other, of a snapshot or of a history, list every
\* resource or event once, in order, whatever the clusters hold.
THEOREM PagesFollowOn ==
  ASSUME NamesDiffer
  PROVE  Spec => []PagesFollow
  <1>1. DataTypes /\ SteadyInv => PagesFollow
    BY PagesMean
  <1> QED
    BY <1>1, SteadyHolds, PTL

-----------------------------------------------------------------------------
(* REST and MCP ask for the same *)

\* f has the parameters `names', each as it is in the query or by default.
Takes(f, q, names) ==
  /\ DOMAIN f = names /\ names \subseteq DOMAIN NoArgs
  /\ \A x \in names : f[x] = IF x \in DOMAIN q THEN q[x] ELSE NoArgs[x]

LEMMA SameOver ==
  ASSUME NEW f, NEW g, NEW q, NEW names, Takes(f, q, names), Takes(g, q, names)
  PROVE  Over(f, NoArgs) = Over(g, NoArgs)
  BY DEF Over, Takes

LEMMA TakesOver ==
  ASSUME NEW f, NEW g, NEW q, NEW M, NEW N, Takes(f, q, M), Takes(g, q, N)
  PROVE  Takes(Over(f, g), q, M \cup N)
  BY DEF Over, Takes

LEMMA TakesStrings ==
  ASSUME NEW q, NEW names, names \subseteq DOMAIN NoArgs
  PROVE  Takes(Strings(q, names), q, names)
  BY DEF Strings, Takes

\* The defaults of a table of parameters are those of the methods.
Plain(params) ==
  \A x \in DOMAIN params : x \in DOMAIN NoArgs /\ (params[x].need = TRUE \/ params[x].default = NoArgs[x])

LEMMA TakesDecoded ==
  ASSUME NEW params, Plain(params), NEW q, ~Malformed(params, q)
  PROVE  Takes(Decode(params, q), q, DOMAIN params)
  <1>1. \A x \in DOMAIN params : x \notin DOMAIN q => params[x].need # TRUE
    BY DEF Malformed
  <1> QED
    BY <1>1 DEF Takes, Decode, Plain

LEMMA PlainOver ==
  ASSUME NEW f, NEW g, Plain(f), Plain(g)
  PROVE  Plain(Over(f, g)) /\ DOMAIN Over(f, g) = DOMAIN f \cup DOMAIN g
  BY DEF Plain, Over

LEMMA NoArgsAre ==
  /\ \A x \in Scope : x \in DOMAIN NoArgs /\ NoArgs[x] = ""
  /\ {"cel", "datetime", "since", "until", "changeType", "commits", "threshold", "limit", "offset", "from", "to"} \subseteq DOMAIN NoArgs
  /\ NoArgs["cel"] = NoCel /\ NoArgs["datetime"] = NoTime /\ NoArgs["since"] = NoTime /\ NoArgs["until"] = NoTime
  /\ NoArgs["changeType"] = "" /\ NoArgs["commits"] = 50 /\ NoArgs["threshold"] = 0
  /\ NoArgs["limit"] = 50 /\ NoArgs["offset"] = 0
  <1>1. /\ NoArgs["cluster"] = "" /\ NoArgs["group"] = "" /\ NoArgs["kind"] = "" /\ NoArgs["namespace"] = ""
        /\ NoArgs["name"] = ""
    BY DEF NoArgs
  <1>2. Scope \subseteq DOMAIN NoArgs
    BY DEF NoArgs, Scope
  <1>3. \A x \in Scope : NoArgs[x] = ""
    BY <1>1 DEF Scope
  <1>4. {"cel", "datetime", "since", "until", "changeType", "commits", "threshold", "limit", "offset", "from", "to"} \subseteq DOMAIN NoArgs
    BY DEF NoArgs
  <1>5. /\ NoArgs["cel"] = NoCel /\ NoArgs["datetime"] = NoTime /\ NoArgs["since"] = NoTime /\ NoArgs["until"] = NoTime
        /\ NoArgs["changeType"] = "" /\ NoArgs["commits"] = 50 /\ NoArgs["threshold"] = 0
        /\ NoArgs["limit"] = 50 /\ NoArgs["offset"] = 0
    BY DEF NoArgs
  <1> QED
    BY <1>2, <1>3, <1>4, <1>5

LEMMA OptionsAre ==
  /\ Required.default = "" /\ Required.need = TRUE /\ Optional.default = ""
  /\ Time.default = NoTime /\ ChangeType.default = "" /\ Number(50).default = 50 /\ Number(0).default = 0
  /\ Param("string", FALSE, NoCel).default = NoCel
  BY DEF Required, Optional, Param, Time, ChangeType, Number

LEMMA WhereIsPlain ==
  ASSUME NEW f, DOMAIN f = Scope, \A x \in Scope : f[x] \in {Required, Optional}
  PROVE  Plain(f)
  BY NoArgsAre, OptionsAre DEF Plain

LEMMA OthersArePlain ==
  ASSUME NEW f, \A x \in DOMAIN f : x \in DOMAIN NoArgs /\ (f[x] = Required \/ f[x].default = NoArgs[x])
  PROVE  Plain(f)
  BY OptionsAre DEF Plain

LEMMA GetSnapshotWhereIs == Plain(GetSnapshotWhere) /\ DOMAIN GetSnapshotWhere = Scope
  <1>1. DOMAIN GetSnapshotWhere = Scope /\ \A x \in Scope : GetSnapshotWhere[x] \in {Required, Optional}
    BY DEF GetSnapshotWhere, Scope
  <1> QED
    BY <1>1, WhereIsPlain

LEMMA GetHistoryWhereIs == Plain(GetHistoryWhere) /\ DOMAIN GetHistoryWhere = Scope
  <1>1. DOMAIN GetHistoryWhere = Scope /\ \A x \in Scope : GetHistoryWhere[x] \in {Required, Optional}
    BY DEF GetHistoryWhere, Scope
  <1> QED
    BY <1>1, WhereIsPlain

LEMMA GetVolatilityWhereIs == Plain(GetVolatilityWhere) /\ DOMAIN GetVolatilityWhere = Scope
  <1>1. DOMAIN GetVolatilityWhere = Scope /\ \A x \in Scope : GetVolatilityWhere[x] \in {Required, Optional}
    BY DEF GetVolatilityWhere, Scope
  <1> QED
    BY <1>1, WhereIsPlain

LEMMA GetVolatilityFieldsWhereIs == Plain(GetVolatilityFieldsWhere) /\ DOMAIN GetVolatilityFieldsWhere = Scope
  <1>1. DOMAIN GetVolatilityFieldsWhere = Scope /\ \A x \in Scope : GetVolatilityFieldsWhere[x] \in {Required, Optional}
    BY DEF GetVolatilityFieldsWhere, Scope
  <1> QED
    BY <1>1, WhereIsPlain

LEMMA GetDiffWhereIs == Plain(GetDiffWhere) /\ DOMAIN GetDiffWhere = Scope
  <1>1. DOMAIN GetDiffWhere = Scope /\ \A x \in Scope : GetDiffWhere[x] \in {Required, Optional}
    BY DEF GetDiffWhere, Scope
  <1> QED
    BY <1>1, WhereIsPlain

LEMMA GetResourceWhereIs == Plain(GetResourceWhere) /\ DOMAIN GetResourceWhere = Scope
  <1>1. DOMAIN GetResourceWhere = Scope /\ \A x \in Scope : GetResourceWhere[x] \in {Required, Optional}
    BY DEF GetResourceWhere, Scope
  <1> QED
    BY <1>1, WhereIsPlain

LEMMA GetSnapshotWhenIs == Plain(GetSnapshotWhen) /\ DOMAIN GetSnapshotWhen = {"datetime"}
  <1>1. DOMAIN GetSnapshotWhen = {"datetime"} /\ GetSnapshotWhen["datetime"] = Time
    BY DEF GetSnapshotWhen
  <1>2. \A x \in DOMAIN GetSnapshotWhen : x \in DOMAIN NoArgs /\ (GetSnapshotWhen[x] = Required \/ GetSnapshotWhen[x].default = NoArgs[x])
    BY <1>1, NoArgsAre, OptionsAre DEF Scope
  <1> QED
    BY <1>1, <1>2, OthersArePlain

LEMMA GetSnapshotCelIs == Plain(GetSnapshotCel) /\ DOMAIN GetSnapshotCel = {"cel"}
  <1>1. DOMAIN GetSnapshotCel = {"cel"} /\ GetSnapshotCel["cel"] = Param("string", FALSE, NoCel)
    BY DEF GetSnapshotCel
  <1>2. \A x \in DOMAIN GetSnapshotCel : x \in DOMAIN NoArgs /\ (GetSnapshotCel[x] = Required \/ GetSnapshotCel[x].default = NoArgs[x])
    BY <1>1, NoArgsAre, OptionsAre DEF Scope
  <1> QED
    BY <1>1, <1>2, OthersArePlain

LEMMA GetSnapshotPageIs == Plain(GetSnapshotPage) /\ DOMAIN GetSnapshotPage = {"limit", "offset"}
  <1>1. DOMAIN GetSnapshotPage = {"limit", "offset"} /\ GetSnapshotPage["limit"] = Number(50) /\ GetSnapshotPage["offset"] = Number(0)
    BY DEF GetSnapshotPage
  <1>2. \A x \in DOMAIN GetSnapshotPage : x \in DOMAIN NoArgs /\ (GetSnapshotPage[x] = Required \/ GetSnapshotPage[x].default = NoArgs[x])
    BY <1>1, NoArgsAre, OptionsAre DEF Scope
  <1> QED
    BY <1>1, <1>2, OthersArePlain

LEMMA GetHistoryWhenIs == Plain(GetHistoryWhen) /\ DOMAIN GetHistoryWhen = {"since", "until"}
  <1>1. DOMAIN GetHistoryWhen = {"since", "until"} /\ GetHistoryWhen["since"] = Time /\ GetHistoryWhen["until"] = Time
    BY DEF GetHistoryWhen
  <1>2. \A x \in DOMAIN GetHistoryWhen : x \in DOMAIN NoArgs /\ (GetHistoryWhen[x] = Required \/ GetHistoryWhen[x].default = NoArgs[x])
    BY <1>1, NoArgsAre, OptionsAre DEF Scope
  <1> QED
    BY <1>1, <1>2, OthersArePlain

LEMMA GetHistoryTypeIs == Plain(GetHistoryType) /\ DOMAIN GetHistoryType = {"changeType"}
  <1>1. DOMAIN GetHistoryType = {"changeType"} /\ GetHistoryType["changeType"] = ChangeType
    BY DEF GetHistoryType
  <1>2. \A x \in DOMAIN GetHistoryType : x \in DOMAIN NoArgs /\ (GetHistoryType[x] = Required \/ GetHistoryType[x].default = NoArgs[x])
    BY <1>1, NoArgsAre, OptionsAre DEF Scope
  <1> QED
    BY <1>1, <1>2, OthersArePlain

LEMMA GetHistoryPageIs == Plain(GetHistoryPage) /\ DOMAIN GetHistoryPage = {"limit", "offset"}
  <1>1. DOMAIN GetHistoryPage = {"limit", "offset"} /\ GetHistoryPage["limit"] = Number(50) /\ GetHistoryPage["offset"] = Number(0)
    BY DEF GetHistoryPage
  <1>2. \A x \in DOMAIN GetHistoryPage : x \in DOMAIN NoArgs /\ (GetHistoryPage[x] = Required \/ GetHistoryPage[x].default = NoArgs[x])
    BY <1>1, NoArgsAre, OptionsAre DEF Scope
  <1> QED
    BY <1>1, <1>2, OthersArePlain

LEMMA GetVolatilityOverIs == Plain(GetVolatilityOver) /\ DOMAIN GetVolatilityOver = {"commits", "threshold"}
  <1>1. DOMAIN GetVolatilityOver = {"commits", "threshold"} /\ GetVolatilityOver["commits"] = Number(50) /\ GetVolatilityOver["threshold"] = Number(0)
    BY DEF GetVolatilityOver
  <1>2. \A x \in DOMAIN GetVolatilityOver : x \in DOMAIN NoArgs /\ (GetVolatilityOver[x] = Required \/ GetVolatilityOver[x].default = NoArgs[x])
    BY <1>1, NoArgsAre, OptionsAre DEF Scope
  <1> QED
    BY <1>1, <1>2, OthersArePlain

LEMMA GetVolatilityPageIs == Plain(GetVolatilityPage) /\ DOMAIN GetVolatilityPage = {"limit", "offset"}
  <1>1. DOMAIN GetVolatilityPage = {"limit", "offset"} /\ GetVolatilityPage["limit"] = Number(50) /\ GetVolatilityPage["offset"] = Number(0)
    BY DEF GetVolatilityPage
  <1>2. \A x \in DOMAIN GetVolatilityPage : x \in DOMAIN NoArgs /\ (GetVolatilityPage[x] = Required \/ GetVolatilityPage[x].default = NoArgs[x])
    BY <1>1, NoArgsAre, OptionsAre DEF Scope
  <1> QED
    BY <1>1, <1>2, OthersArePlain

LEMMA GetVolatilityFieldsOverIs == Plain(GetVolatilityFieldsOver) /\ DOMAIN GetVolatilityFieldsOver = {"commits"}
  <1>1. DOMAIN GetVolatilityFieldsOver = {"commits"} /\ GetVolatilityFieldsOver["commits"] = Number(50)
    BY DEF GetVolatilityFieldsOver
  <1>2. \A x \in DOMAIN GetVolatilityFieldsOver : x \in DOMAIN NoArgs /\ (GetVolatilityFieldsOver[x] = Required \/ GetVolatilityFieldsOver[x].default = NoArgs[x])
    BY <1>1, NoArgsAre, OptionsAre DEF Scope
  <1> QED
    BY <1>1, <1>2, OthersArePlain

LEMMA GetDiffCommitsIs == Plain(GetDiffCommits) /\ DOMAIN GetDiffCommits = {"from", "to"}
  <1>1. DOMAIN GetDiffCommits = {"from", "to"} /\ GetDiffCommits["from"] = Required /\ GetDiffCommits["to"] = Required
    BY DEF GetDiffCommits
  <1>2. \A x \in DOMAIN GetDiffCommits : x \in DOMAIN NoArgs /\ (GetDiffCommits[x] = Required \/ GetDiffCommits[x].default = NoArgs[x])
    BY <1>1, NoArgsAre, OptionsAre DEF Scope
  <1> QED
    BY <1>1, <1>2, OthersArePlain

LEMMA ListGVKsWhereIs == Plain(ListGVKsWhere) /\ DOMAIN ListGVKsWhere = {"cluster", "namespace"}
  <1>1. DOMAIN ListGVKsWhere = {"cluster", "namespace"} /\ ListGVKsWhere["cluster"] = Optional /\ ListGVKsWhere["namespace"] = Optional
    BY DEF ListGVKsWhere
  <1>2. \A x \in DOMAIN ListGVKsWhere : x \in DOMAIN NoArgs /\ (ListGVKsWhere[x] = Required \/ ListGVKsWhere[x].default = NoArgs[x])
    BY <1>1, NoArgsAre, OptionsAre DEF Scope
  <1> QED
    BY <1>1, <1>2, OthersArePlain

LEMMA ListNamespacesWhereIs == Plain(ListNamespacesWhere) /\ DOMAIN ListNamespacesWhere = {"cluster"}
  <1>1. DOMAIN ListNamespacesWhere = {"cluster"} /\ ListNamespacesWhere["cluster"] = Optional
    BY DEF ListNamespacesWhere
  <1>2. \A x \in DOMAIN ListNamespacesWhere : x \in DOMAIN NoArgs /\ (ListNamespacesWhere[x] = Required \/ ListNamespacesWhere[x].default = NoArgs[x])
    BY <1>1, NoArgsAre, OptionsAre DEF Scope
  <1> QED
    BY <1>1, <1>2, OthersArePlain

LEMMA PlainParams ==
  /\ Plain(SnapshotParams) /\ DOMAIN SnapshotParams = {"datetime"} \cup (Scope \cup ({"cel"} \cup {"limit", "offset"}))
  /\ Plain(HistoryParams)
  /\ DOMAIN HistoryParams = Scope \cup ({"since", "until"} \cup ({"changeType"} \cup {"limit", "offset"}))
  /\ Plain(VolatilityParams)
  /\ DOMAIN VolatilityParams = Scope \cup ({"commits", "threshold"} \cup {"limit", "offset"})
  /\ Plain(FieldsParams) /\ DOMAIN FieldsParams = Scope \cup {"commits"}
  /\ Plain(DiffParams) /\ DOMAIN DiffParams = Scope \cup {"from", "to"}
  <1>1. Plain(SnapshotParams) /\ DOMAIN SnapshotParams = {"datetime"} \cup (Scope \cup ({"cel"} \cup {"limit", "offset"}))
    <2>1. PICK f : f = Over(GetSnapshotCel, GetSnapshotPage)
      OBVIOUS
    <2>2. Plain(f) /\ DOMAIN f = {"cel"} \cup {"limit", "offset"}
      BY <2>1, PlainOver, GetSnapshotCelIs, GetSnapshotPageIs
    <2>3. PICK g : g = Over(GetSnapshotWhere, f)
      OBVIOUS
    <2>4. Plain(g) /\ DOMAIN g = Scope \cup ({"cel"} \cup {"limit", "offset"})
      BY <2>2, <2>3, PlainOver, GetSnapshotWhereIs
    <2>5. SnapshotParams = Over(GetSnapshotWhen, g)
      BY <2>1, <2>3 DEF SnapshotParams
    <2> QED
      BY <2>4, <2>5, PlainOver, GetSnapshotWhenIs
  <1>2. /\ Plain(HistoryParams)
        /\ DOMAIN HistoryParams = Scope \cup ({"since", "until"} \cup ({"changeType"} \cup {"limit", "offset"}))
    <2>1. PICK f : f = Over(GetHistoryType, GetHistoryPage)
      OBVIOUS
    <2>2. Plain(f) /\ DOMAIN f = {"changeType"} \cup {"limit", "offset"}
      BY <2>1, PlainOver, GetHistoryTypeIs, GetHistoryPageIs
    <2>3. PICK g : g = Over(GetHistoryWhen, f)
      OBVIOUS
    <2>4. Plain(g) /\ DOMAIN g = {"since", "until"} \cup ({"changeType"} \cup {"limit", "offset"})
      BY <2>2, <2>3, PlainOver, GetHistoryWhenIs
    <2>5. HistoryParams = Over(GetHistoryWhere, g)
      BY <2>1, <2>3 DEF HistoryParams
    <2> QED
      BY <2>4, <2>5, PlainOver, GetHistoryWhereIs
  <1>3. /\ Plain(VolatilityParams)
        /\ DOMAIN VolatilityParams = Scope \cup ({"commits", "threshold"} \cup {"limit", "offset"})
    <2>1. PICK f : f = Over(GetVolatilityOver, GetVolatilityPage)
      OBVIOUS
    <2>2. Plain(f) /\ DOMAIN f = {"commits", "threshold"} \cup {"limit", "offset"}
      BY <2>1, PlainOver, GetVolatilityOverIs, GetVolatilityPageIs
    <2>3. VolatilityParams = Over(GetVolatilityWhere, f)
      BY <2>1 DEF VolatilityParams
    <2> QED
      BY <2>2, <2>3, PlainOver, GetVolatilityWhereIs
  <1>4. Plain(FieldsParams) /\ DOMAIN FieldsParams = Scope \cup {"commits"}
    BY PlainOver, GetVolatilityFieldsWhereIs, GetVolatilityFieldsOverIs DEF FieldsParams
  <1>5. Plain(DiffParams) /\ DOMAIN DiffParams = Scope \cup {"from", "to"}
    BY PlainOver, GetDiffWhereIs, GetDiffCommitsIs DEF DiffParams
  <1> QED
    BY <1>1, <1>2, <1>3, <1>4, <1>5

LEMMA TakesLimited ==
  ASSUME NEW f, NEW q, NEW names, Takes(f, q, names), "limit" \in names,
         "limit" \in DOMAIN q => q["limit"] \in Int /\ q["limit"] > 0
  PROVE  Takes(Limited(f), q, names)
  <1>1. PICK d : d = f["limit"]
    OBVIOUS
  <1>2. DOMAIN f = names /\ d \in Int /\ d > 0
    <2>1. d = IF "limit" \in DOMAIN q THEN q["limit"] ELSE NoArgs["limit"]
      BY <1>1 DEF Takes
    <2>2. NoArgs["limit"] = 50
      BY NoArgsAre
    <2> QED
      BY <2>1, <2>2 DEF Takes
  <1>3. ~(d <= 0)
    BY <1>2
  <1>4. DOMAIN Limited(f) = names /\ \A x \in names : Limited(f)[x] = f[x]
    BY <1>1, <1>2, <1>3 DEF Limited
  <1> QED
    BY <1>4 DEF Takes

LEMMA InRangeFacts ==
  ASSUME NEW a \in Requests, NEW q, q = a.q, InRange(q)
  PROVE  /\ \A x \in {"limit", "commits"} : x \in DOMAIN q => q[x] # Bad /\ q[x] \in Int /\ q[x] > 0
         /\ "offset" \in DOMAIN q => q["offset"] # Bad /\ q["offset"] \in Int /\ q["offset"] >= 0
  BY Numbers DEF InRange

LEMMA TakesPage ==
  ASSUME NEW a \in Requests, NEW q, q = a.q, InRange(q)
  PROVE  Takes(McpPage(q), q, {"limit", "offset"})
  <1>1. Positive(q, "limit", 50) = IF "limit" \in DOMAIN q THEN q["limit"] ELSE 50
    BY InRangeFacts DEF Positive
  <1>2. NotNegative(q, "offset") = IF "offset" \in DOMAIN q THEN q["offset"] ELSE 0
    BY InRangeFacts DEF NotNegative
  <1>3. /\ DOMAIN McpPage(q) = {"limit", "offset"}
        /\ McpPage(q)["limit"] = Positive(q, "limit", 50) /\ McpPage(q)["offset"] = NotNegative(q, "offset")
    BY DEF McpPage
  <1> QED
    BY <1>1, <1>2, <1>3, NoArgsAre DEF Takes

\* The parameters an operation takes from a query.
Parameters(op) ==
  CASE op \in {"GetCurrentSnapshot", "GetHistoricalSnapshot"} -> Scope \cup {"cel", "datetime", "limit", "offset"}
    [] op = "GetHistory"    -> Scope \cup {"since", "until", "changeType", "limit", "offset"}
    [] op = "GetVolatility" -> Scope \cup {"commits", "threshold", "limit", "offset"}

LEMMA RestTakes ==
  ASSUME NEW a \in Requests, NEW q, q = a.q, InRange(q), NEW op \in Paged, RestCall(op, q)
  PROVE  Takes(RestArgs(op, q), q, Parameters(op))
  <1>1. \A f, names : Takes(f, q, names) /\ "limit" \in names => Takes(Limited(f), q, names)
    <2>1. "limit" \in DOMAIN q => q["limit"] \in Int /\ q["limit"] > 0
      BY InRangeFacts
    <2> QED
      BY <2>1, TakesLimited
  <1>2. \E params \in {SnapshotParams, HistoryParams, VolatilityParams} :
          /\ Plain(params) /\ DOMAIN params = Parameters(op) /\ ~Malformed(params, q)
          /\ RestArgs(op, q) = Limited(Decode(params, q)) /\ "limit" \in DOMAIN params
    <2>1. CASE op \in {"GetCurrentSnapshot", "GetHistoricalSnapshot"}
      <3>1. Plain(SnapshotParams) /\ DOMAIN SnapshotParams = Parameters(op) /\ "limit" \in DOMAIN SnapshotParams
        BY <2>1, PlainParams DEF Parameters
      <3>2. ~Malformed(SnapshotParams, q) /\ RestArgs(op, q) = Limited(Decode(SnapshotParams, q))
        BY <2>1 DEF RestCall, RestArgs
      <3> QED
        BY <3>1, <3>2
    <2>2. CASE op = "GetHistory"
      <3>1. Plain(HistoryParams) /\ DOMAIN HistoryParams = Parameters(op) /\ "limit" \in DOMAIN HistoryParams
        BY <2>2, PlainParams DEF Parameters
      <3>2. ~Malformed(HistoryParams, q) /\ RestArgs(op, q) = Limited(Decode(HistoryParams, q))
        BY <2>2 DEF RestCall, RestArgs
      <3> QED
        BY <3>1, <3>2
    <2>3. CASE op = "GetVolatility"
      <3>1. Plain(VolatilityParams) /\ DOMAIN VolatilityParams = Parameters(op) /\ "limit" \in DOMAIN VolatilityParams
        BY <2>3, PlainParams DEF Parameters
      <3>2. ~Malformed(VolatilityParams, q) /\ RestArgs(op, q) = Limited(Decode(VolatilityParams, q))
        BY <2>3 DEF RestCall, RestArgs
      <3> QED
        BY <3>1, <3>2
    <2> QED
      BY <2>1, <2>2, <2>3 DEF Paged
  <1>3. PICK params \in {SnapshotParams, HistoryParams, VolatilityParams} :
          /\ Plain(params) /\ DOMAIN params = Parameters(op) /\ ~Malformed(params, q)
          /\ RestArgs(op, q) = Limited(Decode(params, q)) /\ "limit" \in DOMAIN params
    BY <1>2
  <1>4. Takes(Decode(params, q), q, DOMAIN params)
    BY <1>3, TakesDecoded
  <1> QED
    BY <1>1, <1>3, <1>4

\* A time that REST does not refuse is taken as it is.
LEMMA TimesGiven ==
  ASSUME NEW q, RestCall("GetHistory", q)
  PROVE  /\ "since" \in DOMAIN q => q["since"] # Bad
         /\ "until" \in DOMAIN q => q["until"] # Bad
  <1>1. ~Malformed(HistoryParams, q)
    BY DEF RestCall
  <1>2. \A x \in {"since", "until"} : x \in DOMAIN HistoryParams /\ HistoryParams[x] = Time
    BY DEF HistoryParams, GetHistoryWhere, GetHistoryWhen, GetHistoryType, GetHistoryPage, Over
  <1>3. \A v : v = Bad => Refuses(Time, v)
    BY DEF Refuses, Time, Param
  <1> QED
    BY <1>1, <1>2, <1>3 DEF Malformed

LEMMA ThresholdGiven ==
  ASSUME NEW q, RestCall("GetVolatility", q)
  PROVE  "threshold" \in DOMAIN q => q["threshold"] # Bad
  <1>1. ~Malformed(VolatilityParams, q)
    BY DEF RestCall
  <1>2. "threshold" \in DOMAIN VolatilityParams /\ VolatilityParams["threshold"] = Number(0)
    BY DEF VolatilityParams, GetVolatilityWhere, GetVolatilityOver, GetVolatilityPage, Over
  <1>3. \A v : v = Bad => Refuses(Number(0), v)
    BY DEF Refuses, Number, Param
  <1> QED
    BY <1>1, <1>2, <1>3 DEF Malformed

LEMMA McpTakes ==
  ASSUME NEW a \in Requests, NEW q, q = a.q, InRange(q), NEW op \in Paged, RestCall(op, q), McpCall(op, q).do = op
  PROVE  \E g : McpCall(op, q).args = Over(g, NoArgs) /\ Takes(g, q, Parameters(op))
  <1>1. PICK page : page = McpPage(q)
    OBVIOUS
  <1>2. Takes(page, q, {"limit", "offset"})
    BY <1>1, TakesPage
  <1>3. op # "reply" /\ \A code : Reply(code).do = "reply"
    BY DEF Paged, Reply
  <1>4. CASE op \in {"GetCurrentSnapshot", "GetHistoricalSnapshot"}
    <2>1. PICK f : f = Strings(q, Scope \cup {"cel", "datetime"})
      OBVIOUS
    <2>2. Takes(f, q, Scope \cup {"cel", "datetime"})
      <3>1. Scope \cup {"cel", "datetime"} \subseteq DOMAIN NoArgs
        BY NoArgsAre
      <3> QED
        BY <2>1, <3>1, TakesStrings
    <2>3. McpCall(op, q).args = Over(Over(f, page), NoArgs)
      <3>1. McpCall(op, q) = get_snapshot(q)
        BY <1>4 DEF McpCall
      <3> QED
        BY <1>1, <1>3, <2>1, <3>1, CallFacts DEF get_snapshot
    <2>4. Takes(Over(f, page), q, (Scope \cup {"cel", "datetime"}) \cup {"limit", "offset"})
      BY <1>2, <2>2, TakesOver
    <2>5. Parameters(op) = (Scope \cup {"cel", "datetime"}) \cup {"limit", "offset"}
      BY <1>4 DEF Parameters
    <2> QED
      BY <2>3, <2>4, <2>5
  <1>5. CASE op = "GetHistory"
    <2>1. PICK f, g : /\ f = Strings(q, Scope \cup {"changeType"})
                      /\ g = [since |-> Instant(q, "since"), until |-> Instant(q, "until")]
      OBVIOUS
    <2>2. Takes(f, q, Scope \cup {"changeType"})
      <3>1. Scope \cup {"changeType"} \subseteq DOMAIN NoArgs
        BY NoArgsAre
      <3> QED
        BY <2>1, <3>1, TakesStrings
    <2>3. Takes(g, q, {"since", "until"})
      <3>1. \A x \in {"since", "until"} : Instant(q, x) = IF x \in DOMAIN q THEN q[x] ELSE NoTime
        BY <1>5, TimesGiven DEF Instant
      <3>2. DOMAIN g = {"since", "until"} /\ g["since"] = Instant(q, "since") /\ g["until"] = Instant(q, "until")
        BY <2>1
      <3> QED
        BY <3>1, <3>2, NoArgsAre DEF Takes
    <2>4. McpCall(op, q).args = Over(Over(g, Over(f, page)), NoArgs)
      <3>1. McpCall(op, q) = get_history(q)
        BY <1>5 DEF McpCall
      <3> QED
        BY <1>1, <2>1, <3>1, CallFacts DEF get_history
    <2>5. Takes(Over(f, page), q, (Scope \cup {"changeType"}) \cup {"limit", "offset"})
      BY <1>2, <2>2, TakesOver
    <2>6. Takes(Over(g, Over(f, page)), q, {"since", "until"} \cup ((Scope \cup {"changeType"}) \cup {"limit", "offset"}))
      BY <2>3, <2>5, TakesOver
    <2>7. Parameters(op) = {"since", "until"} \cup ((Scope \cup {"changeType"}) \cup {"limit", "offset"})
      BY <1>5 DEF Parameters
    <2> QED
      BY <2>4, <2>6, <2>7
  <1>6. CASE op = "GetVolatility"
    <2>1. PICK f, g : /\ f = Strings(q, Scope)
                      /\ g = [commits |-> Positive(q, "commits", 50),
                              threshold |-> IF "threshold" \in DOMAIN q /\ q["threshold"] # Bad THEN q["threshold"] ELSE 0]
      OBVIOUS
    <2>2. Takes(f, q, Scope)
      <3>1. Scope \subseteq DOMAIN NoArgs
        BY NoArgsAre
      <3> QED
        BY <2>1, <3>1, TakesStrings
    <2>3. Takes(g, q, {"commits", "threshold"})
      <3>1. Positive(q, "commits", 50) = IF "commits" \in DOMAIN q THEN q["commits"] ELSE 50
        BY InRangeFacts DEF Positive
      <3>2. /\ DOMAIN g = {"commits", "threshold"} /\ g["commits"] = Positive(q, "commits", 50)
            /\ g["threshold"] = IF "threshold" \in DOMAIN q THEN q["threshold"] ELSE 0
        BY <1>6, <2>1, ThresholdGiven
      <3> QED
        BY <3>1, <3>2, NoArgsAre, ZenonT(30) DEF Takes
    <2>4. McpCall(op, q).args = Over(Over(g, Over(f, page)), NoArgs)
      <3>1. McpCall(op, q) = get_volatility(q)
        BY <1>6 DEF McpCall
      <3> QED
        BY <1>1, <2>1, <3>1, CallFacts DEF get_volatility
    <2>5. Takes(Over(f, page), q, Scope \cup {"limit", "offset"})
      BY <1>2, <2>2, TakesOver
    <2>6. Takes(Over(g, Over(f, page)), q, {"commits", "threshold"} \cup (Scope \cup {"limit", "offset"}))
      BY <2>3, <2>5, TakesOver
    <2>7. Parameters(op) = {"commits", "threshold"} \cup (Scope \cup {"limit", "offset"})
      BY <1>6 DEF Parameters
    <2> QED
      BY <2>4, <2>6, <2>7
  <1> QED
    BY <1>4, <1>5, <1>6 DEF Paged

LEMMA SameFields ==
  ASSUME NEW a \in Requests, NEW q, q = a.q, InRange(q), "limit" \notin DOMAIN q, RestCall("GetVolatilityFields", q)
  PROVE  Over(RestArgs("GetVolatilityFields", q), NoArgs) = get_volatility_fields(q).args
  <1>1. PICK p, s, f, g : /\ p = Decode(FieldsParams, q) /\ s = Strings(q, Scope) /\ f = Over([limit |-> 0], p)
                          /\ g = [commits |-> Positive(q, "commits", 50), limit |-> Positive(q, "limit", 0)]
    OBVIOUS
  <1>2. Takes(p, q, Scope \cup {"commits"})
    <2>1. ~Malformed(FieldsParams, q)
      BY DEF RestCall
    <2> QED
      BY <1>1, <2>1, PlainParams, TakesDecoded
  <1>3. Takes(s, q, Scope)
    <2>1. Scope \subseteq DOMAIN NoArgs
      BY NoArgsAre
    <2> QED
      BY <1>1, <2>1, TakesStrings
  <1>4. DOMAIN g = {"commits", "limit"} /\ g["limit"] = 0 /\ g["commits"] = IF "commits" \in DOMAIN q THEN q["commits"] ELSE 50
    <2>1. Positive(q, "commits", 50) = IF "commits" \in DOMAIN q THEN q["commits"] ELSE 50
      BY InRangeFacts DEF Positive
    <2>2. Positive(q, "limit", 0) = 0
      BY DEF Positive
    <2> QED
      BY <1>1, <2>1, <2>2
  <1>5. PICK l, h : l = [limit |-> 0] /\ h = Over(g, s)
    OBVIOUS
  <1>6. DOMAIN l = {"limit"} /\ l["limit"] = 0 /\ f = Over(l, p)
    BY <1>1, <1>5
  <1>7. DOMAIN f = Scope \cup {"commits", "limit"} /\ f["limit"] = 0 /\ \A x \in Scope \cup {"commits"} : f[x] = p[x]
    <2>1. "limit" \notin Scope /\ DOMAIN p = Scope \cup {"commits"}
      BY <1>2 DEF Scope, Takes
    <2>2. DOMAIN f = Scope \cup {"commits", "limit"}
      <3>1. DOMAIN f = DOMAIN l \cup DOMAIN p
        BY <1>6, OverOne
      <3>2. DOMAIN f = {"limit"} \cup (Scope \cup {"commits"})
        BY <1>6, <2>1, <3>1
      <3> QED
        BY <3>2, Zenon
    <2>3. "limit" \in DOMAIN l /\ f["limit"] = l["limit"]
      BY <1>6, OverOne
    <2>4. ASSUME NEW x \in Scope \cup {"commits"} PROVE f[x] = p[x]
      <3>1. x \in DOMAIN p /\ x \notin DOMAIN l
        BY <1>6, <2>1, <2>4
      <3> QED
        BY <1>6, <3>1, OverOne
    <2> QED
      BY <1>6, <2>2, <2>3, <2>4
  <1>8. DOMAIN h = Scope \cup {"commits", "limit"} /\ h["limit"] = 0 /\ h["commits"] = g["commits"] /\ \A x \in Scope : h[x] = s[x]
    <2>1. "limit" \notin Scope /\ "commits" \notin Scope /\ DOMAIN s = Scope
      BY <1>3 DEF Scope, Takes
    <2>2. DOMAIN h = Scope \cup {"commits", "limit"}
      <3>1. DOMAIN h = DOMAIN g \cup DOMAIN s
        BY <1>5, OverOne
      <3>2. DOMAIN h = {"commits", "limit"} \cup Scope
        BY <1>4, <2>1, <3>1
      <3> QED
        BY <3>2, Zenon
    <2>3. "limit" \in DOMAIN g /\ "commits" \in DOMAIN g
      BY <1>4
    <2>4. h["limit"] = g["limit"] /\ h["commits"] = g["commits"]
      BY <1>5, <2>3, OverOne
    <2>5. ASSUME NEW x \in Scope PROVE h[x] = s[x]
      <3>1. x \in DOMAIN s /\ x \notin DOMAIN g
        BY <1>4, <2>1
      <3> QED
        BY <1>5, <3>1, OverOne
    <2> QED
      BY <1>4, <2>2, <2>4, <2>5
  <1>9. \A x \in DOMAIN f : f[x] = h[x]
    <2>1. \A x \in Scope : p[x] = s[x]
      BY <1>2, <1>3 DEF Takes
    <2>2. p["commits"] = g["commits"]
      BY <1>2, <1>4, NoArgsAre DEF Takes
    <2> QED
      BY <1>7, <1>8, <2>1, <2>2
  <1>10. Over(f, NoArgs) = Over(h, NoArgs)
    BY <1>7, <1>8, <1>9 DEF Over
  <1>11. RestArgs("GetVolatilityFields", q) = f
    BY <1>1 DEF RestArgs
  <1>12. get_volatility_fields(q).args = Over(h, NoArgs)
    BY <1>1, <1>5, CallFacts DEF get_volatility_fields
  <1> QED
    BY <1>10, <1>11, <1>12

LEMMA SameStrings ==
  ASSUME NEW q, NEW op, op \in {"GetDiff", "GetResource", "ListGVKs", "ListNamespaces"}, RestCall(op, q)
  PROVE  Over(RestArgs(op, q), NoArgs) = McpCall(op, q).args
  <1>1. ASSUME NEW params, Plain(params), ~Malformed(params, q), RestArgs(op, q) = Decode(params, q),
               McpCall(op, q).args = Over(Strings(q, DOMAIN params), NoArgs)
        PROVE  Over(RestArgs(op, q), NoArgs) = McpCall(op, q).args
    <2>1. Takes(Decode(params, q), q, DOMAIN params)
      BY <1>1, TakesDecoded
    <2>2. Takes(Strings(q, DOMAIN params), q, DOMAIN params)
      <3>1. DOMAIN params \subseteq DOMAIN NoArgs
        BY <1>1 DEF Plain
      <3> QED
        BY <3>1, TakesStrings
    <2> QED
      BY <1>1, <2>1, <2>2, SameOver
  <1>2. CASE op = "GetDiff"
    <2>1. Plain(DiffParams) /\ DOMAIN DiffParams = Scope \cup {"from", "to"}
      BY PlainParams
    <2>2. ~Malformed(DiffParams, q) /\ RestArgs(op, q) = Decode(DiffParams, q)
      BY <1>2 DEF RestCall, RestArgs
    <2>3. McpCall(op, q).args = Over(Strings(q, Scope \cup {"from", "to"}), NoArgs)
      BY <1>2, CallFacts DEF McpCall, get_diff
    <2> QED
      BY <1>1, <2>1, <2>2, <2>3
  <1>3. CASE op = "GetResource"
    <2>1. Plain(GetResourceWhere) /\ DOMAIN GetResourceWhere = Scope
      BY GetResourceWhereIs
    <2>2. ~Malformed(GetResourceWhere, q) /\ RestArgs(op, q) = Decode(GetResourceWhere, q)
      BY <1>3 DEF RestCall, RestArgs
    <2>3. McpCall(op, q).args = Over(Strings(q, Scope), NoArgs)
      BY <1>3, CallFacts DEF McpCall, get_resource
    <2> QED
      BY <1>1, <2>1, <2>2, <2>3
  <1>4. CASE op = "ListGVKs"
    <2>1. Plain(ListGVKsWhere) /\ DOMAIN ListGVKsWhere = {"cluster", "namespace"}
      BY ListGVKsWhereIs
    <2>2. ~Malformed(ListGVKsWhere, q) /\ RestArgs(op, q) = Decode(ListGVKsWhere, q)
      BY <1>4 DEF RestCall, RestArgs
    <2>3. McpCall(op, q).args = Over(Strings(q, {"cluster", "namespace"}), NoArgs)
      BY <1>4, CallFacts DEF McpCall, list_gvks
    <2> QED
      BY <1>1, <2>1, <2>2, <2>3
  <1>5. CASE op = "ListNamespaces"
    <2>1. Plain(ListNamespacesWhere) /\ DOMAIN ListNamespacesWhere = {"cluster"}
      BY ListNamespacesWhereIs
    <2>2. ~Malformed(ListNamespacesWhere, q) /\ RestArgs(op, q) = Decode(ListNamespacesWhere, q)
      BY <1>5 DEF RestCall, RestArgs
    <2>3. McpCall(op, q).args = Over(Strings(q, {"cluster"}), NoArgs)
      BY <1>5, CallFacts DEF McpCall, list_namespaces
    <2> QED
      BY <1>1, <2>1, <2>2, <2>3
  <1> QED
    BY <1>2, <1>3, <1>4, <1>5

LEMMA SameArgs ==
  ASSUME NEW a \in Requests, NEW b \in Requests, a.path # <<"mcp">>, b.path = <<"mcp">>, a.q = b.q, InRange(b.q),
         NEW d, d = Dispatch(a), NEW e, e = Dispatch(b), d.do = e.do, d.do # "reply",
         d.do = "GetVolatilityFields" => "limit" \notin DOMAIN b.q
  PROVE  d.args = e.args
  <1>1. PICK q, op : q = b.q /\ op = d.do
    OBVIOUS
  <1>2. d.args = Over(RestArgs(op, q), NoArgs) /\ RestCall(op, q)
    <2>1. d = Call(op, RestArgs(op, q)) /\ RestCall(op, q)
      BY <1>1, DispatchCalls
    <2> QED
      BY <2>1, CallFacts
  <1>3. e = McpCall(op, q) /\ McpCall(op, q).do = op
    BY <1>1, DispatchCalls
  <1>4. CASE op \in Paged
    <2>1. Takes(RestArgs(op, q), q, Parameters(op))
      BY <1>1, <1>2, <1>4, RestTakes
    <2>2. PICK g : McpCall(op, q).args = Over(g, NoArgs) /\ Takes(g, q, Parameters(op))
      BY <1>1, <1>2, <1>3, <1>4, McpTakes
    <2> QED
      BY <1>2, <1>3, <2>1, <2>2, SameOver
  <1>5. CASE op = "GetVolatilityFields"
    <2>1. McpCall(op, q) = get_volatility_fields(q)
      BY <1>5 DEF McpCall
    <2> QED
      BY <1>1, <1>2, <1>3, <1>5, <2>1, SameFields
  <1>6. CASE op \in {"GetDiff", "GetResource", "ListGVKs", "ListNamespaces"}
    BY <1>2, <1>3, <1>6, SameStrings
  <1>7. CASE op \notin Paged \cup {"GetVolatilityFields", "GetDiff", "GetResource", "ListGVKs", "ListNamespaces"}
    <2>1. McpCall(op, q) = list_clusters(q)
      BY <1>7 DEF McpCall, Paged
    <2>2. RestArgs(op, q) = <<>>
      BY <1>7 DEF RestArgs, Paged
    <2> QED
      BY <1>2, <1>3, <2>1, <2>2, CallFacts DEF list_clusters
  <1> QED
    BY <1>4, <1>5, <1>6, <1>7

-----------------------------------------------------------------------------
(* How volatility entries are ranked *)

\* What an entry of Volatility has.
IsRanked(e) ==
  /\ e.count \in Nat /\ e.total \in Nat
  /\ \E o \in Objs : e.key.name = Meta[o].name
Above(E, x)   == {y \in E : RanksBefore(y, x)}
RankPlaces(E) == [x \in E |-> Cardinality(Above(E, x))]

LEMMA CrossChain ==
  ASSUME NEW a \in Nat, NEW b \in Nat, NEW c \in Nat, NEW d \in Nat, NEW e \in Nat, NEW f \in Nat,
         b > 0, d > 0, f > 0, a * d >= c * b, c * f >= e * d
  PROVE  /\ a * f >= e * b
         /\ (a * d > c * b \/ c * f > e * d) => a * f > e * b
  <1>1. \A m, n \in Nat, k \in Nat : k > 0 => (m >= n => m * k >= n * k) /\ (m > n => m * k > n * k)
    OBVIOUS
  <1>2. /\ a * d \in Nat /\ c * b \in Nat /\ c * f \in Nat /\ e * d \in Nat /\ a * f \in Nat /\ e * b \in Nat
    OBVIOUS
  <1>3. (a * d) * f >= (c * b) * f /\ (a * d > c * b => (a * d) * f > (c * b) * f)
    BY <1>1, <1>2
  <1>4. (c * f) * b >= (e * d) * b /\ (c * f > e * d => (c * f) * b > (e * d) * b)
    BY <1>1, <1>2
  <1>5. (c * b) * f = (c * f) * b /\ (a * d) * f = (a * f) * d /\ (e * d) * b = (e * b) * d
    OBVIOUS
  <1>6. PICK x, y \in Nat : x = a * f /\ y = e * b
    BY <1>2
  <1>7. x * d >= y * d /\ ((a * d > c * b \/ c * f > e * d) => x * d > y * d)
    <2>1. PICK u, v, w \in Nat : u = (a * d) * f /\ v = (c * b) * f /\ w = (e * d) * b
      BY <1>2
    <2>2. u >= v /\ v >= w /\ (a * d > c * b => u > v) /\ (c * f > e * d => v > w)
      BY <1>3, <1>4, <1>5, <2>1
    <2>3. x * d = u /\ y * d = w
      BY <1>5, <1>6, <2>1
    <2> QED
      BY <2>1, <2>2, <2>3
  <1>8. (x < y => x * d < y * d) /\ (x <= y => x * d <= y * d)
    <2>1. (y > x => y * d > x * d) /\ (y >= x => y * d >= x * d)
      BY <1>1
    <2> QED
      BY <2>1
  <1> QED
    <2>1. PICK u, w \in Nat : u = x * d /\ w = y * d
      BY <1>6
    <2> QED
      BY <1>6, <1>7, <1>8, <2>1

LEMMA RatioIs ==
  ASSUME NEW x, IsRanked(x)
  PROVE  /\ Ratio(x)[1] \in Nat /\ Ratio(x)[2] \in Nat /\ Ratio(x)[2] > 0
         /\ Rank[x.key.name] \in Nat
  <1>1. Rank[x.key.name] \in Nat
    BY ApiConstants DEF IsRanked
  <1>2. Ratio(x)[1] \in Nat /\ Ratio(x)[2] \in Nat /\ Ratio(x)[2] > 0
    BY DEF Ratio, IsRanked
  <1> QED
    BY <1>1, <1>2

\* RanksBefore orders entries: it is transitive and no entry is before itself.
LEMMA RanksChain ==
  ASSUME NEW x, NEW y, NEW z, IsRanked(x), IsRanked(y), IsRanked(z), RanksBefore(x, y), RanksBefore(y, z)
  PROVE  RanksBefore(x, z)
  <1>1. PICK a, b, c, d, e, f, i, j, k \in Nat :
          /\ a = Ratio(x)[1] /\ b = Ratio(x)[2] /\ c = Ratio(y)[1] /\ d = Ratio(y)[2]
          /\ e = Ratio(z)[1] /\ f = Ratio(z)[2]
          /\ i = Rank[x.key.name] /\ j = Rank[y.key.name] /\ k = Rank[z.key.name]
    BY RatioIs
  <1>2. b > 0 /\ d > 0 /\ f > 0
    BY <1>1, RatioIs
  <1>3. a * d > c * b \/ (a * d = c * b /\ i < j)
    BY <1>1 DEF RanksBefore
  <1>4. c * f > e * d \/ (c * f = e * d /\ j < k)
    BY <1>1 DEF RanksBefore
  <1>5. PICK p, q, r, s, t, u \in Nat : /\ p = a * d /\ q = c * b /\ r = c * f /\ s = e * d /\ t = a * f /\ u = e * b
    <2>1. \A m, n \in Nat : m * n \in Nat
      OBVIOUS
    <2>2. a * d \in Nat /\ c * b \in Nat /\ c * f \in Nat /\ e * d \in Nat /\ a * f \in Nat /\ e * b \in Nat
      BY <2>1
    <2> QED
      BY <2>2
  <1>6. t >= u /\ (p > q \/ r > s => t > u)
    <2>1. a * d >= c * b /\ c * f >= e * d
      BY <1>3, <1>4, <1>5
    <2>2. a * f >= e * b /\ (a * d > c * b \/ c * f > e * d => a * f > e * b)
      BY <1>2, <2>1, CrossChain
    <2> QED
      BY <1>5, <2>2
  <1>7. t > u \/ (t = u /\ i < k)
    BY <1>3, <1>4, <1>5, <1>6
  <1> QED
    BY <1>1, <1>5, <1>7 DEF RanksBefore

LEMMA NotItself ==
  ASSUME NEW x, IsRanked(x) PROVE ~RanksBefore(x, x)
  <1>1. PICK p, i \in Nat : p = Ratio(x)[1] * Ratio(x)[2] /\ i = Rank[x.key.name]
    BY RatioIs
  <1> QED
    BY <1>1 DEF RanksBefore

\* Entries with as many entries before them tie.
LEMMA PlacesTie ==
  ASSUME NEW E, IsFiniteSet(E), \A e \in E : IsRanked(e), NEW x \in E, NEW y \in E, RankPlaces(E)[x] = RankPlaces(E)[y]
  PROVE  ~RanksBefore(x, y)
  <1> SUFFICES ASSUME RanksBefore(x, y) PROVE FALSE
    OBVIOUS
  <1>1. PICK A, B : A = Above(E, x) /\ B = Above(E, y)
    OBVIOUS
  <1>2. A \in SUBSET B
    BY <1>1, RanksChain DEF Above
  <1>3. B \in SUBSET E
    BY <1>1 DEF Above
  <1>4. IsFiniteSet(B)
    BY <1>3, FS_Subset
  <1>5. Cardinality(A) = Cardinality(B)
    BY <1>1 DEF RankPlaces
  <1>6. A = B
    BY <1>2, <1>4, <1>5, FS_Subset
  <1>7. x \in B /\ x \notin A
    BY <1>1, NotItself DEF Above
  <1> QED
    BY <1>6, <1>7

LEMMA TiesAre ==
  ASSUME NEW x, NEW y, IsRanked(x), IsRanked(y), ~RanksBefore(x, y), ~RanksBefore(y, x)
  PROVE  x.key.name = y.key.name /\ Ratio(x)[1] * Ratio(y)[2] = Ratio(y)[1] * Ratio(x)[2]
  <1>1. PICK p, q, i, j \in Nat : /\ p = Ratio(x)[1] * Ratio(y)[2] /\ q = Ratio(y)[1] * Ratio(x)[2]
                                  /\ i = Rank[x.key.name] /\ j = Rank[y.key.name]
    <2>1. \A m, n \in Nat : m * n \in Nat
      OBVIOUS
    <2>2. Ratio(x)[1] * Ratio(y)[2] \in Nat /\ Ratio(y)[1] * Ratio(x)[2] \in Nat
      BY <2>1, RatioIs
    <2> QED
      BY <2>2, RatioIs
  <1>2. ~(p > q) /\ ~(p = q /\ i < j)
    BY <1>1 DEF RanksBefore
  <1>3. ~(q > p) /\ ~(q = p /\ j < i)
    BY <1>1 DEF RanksBefore
  <1>4. p = q /\ i = j
    BY <1>2, <1>3
  <1>5. \A o, m \in Objs : Rank[Meta[o].name] = Rank[Meta[m].name] => Meta[o].name = Meta[m].name
    BY ApiConstants
  <1> QED
    BY <1>1, <1>4, <1>5, ZenonT(30) DEF IsRanked

\* What an arrangement puts at a place is no later than what any other puts there.
LEMMA NoLater ==
  ASSUME NEW U, NEW T \in [U -> Nat], NEW p, NEW q, Arranged(T, p, U), Arranged(T, q, U),
         NEW i \in 1..Len(p), i \in 1..Len(q)
  PROVE  T[q[i]] <= T[p[i]]
  <1> SUFFICES ASSUME ~(T[q[i]] <= T[p[i]]) PROVE FALSE
    OBVIOUS
  <1>1. PICK m, n \in Nat : m = Len(p) /\ n = Len(q)
    BY DEF Arranged
  <1>2. /\ p \in [1..m -> U] /\ q \in [1..n -> U] /\ i \in 1..m /\ i \in 1..n
        /\ \A j, k \in 1..m : p[j] = p[k] => j = k
        /\ \A x \in U : \E k \in 1..n : q[k] = x
        /\ \A j, k \in 1..m : j < k => T[p[j]] <= T[p[k]]
        /\ \A j, k \in 1..n : j < k => T[q[j]] <= T[q[k]]
    BY <1>1 DEF Arranged
  <1>3. T[p[i]] \in Nat /\ T[q[i]] \in Nat /\ T[p[i]] < T[q[i]]
    BY <1>2
  <1> DEFINE at(j) == CHOOSE k \in 1..n : q[k] = p[j]
             f == [j \in 1..i |-> at(j)]
  <1>4. ASSUME NEW j \in 1..i PROVE at(j) \in 1..(i - 1) /\ q[at(j)] = p[j]
    <2>1. j \in 1..m /\ p[j] \in U
      BY <1>2, SMTT(30)
    <2>2. at(j) \in 1..n /\ q[at(j)] = p[j]
      BY <1>2, <2>1
    <2> HIDE DEF at
    <2>3. T[p[j]] <= T[p[i]] /\ T[p[j]] \in Nat
      <3>1. T[p[j]] \in Nat
        BY <2>1
      <3>2. CASE j = i
        BY <1>3, <3>2
      <3>3. CASE j # i
        <4>1. j < i /\ j \in 1..m /\ i \in 1..m
          BY <1>2, <2>1, <3>3
        <4>2. \A k, l \in 1..m : k < l => T[p[k]] <= T[p[l]]
          BY <1>2
        <4> QED
          BY <3>1, <4>1, <4>2
      <3> QED
        BY <3>1, <3>2, <3>3
    <2>4. at(j) < i
      <3> SUFFICES ASSUME ~(at(j) < i) PROVE FALSE
        OBVIOUS
      <3>1. T[q[i]] <= T[q[at(j)]]
        <4>1. at(j) \in 1..n /\ i \in 1..n /\ (i = at(j) \/ i < at(j))
          BY <1>2, <2>2
        <4>2. \A k, l \in 1..n : k < l => T[q[k]] <= T[q[l]]
          BY <1>2
        <4> QED
          BY <1>3, <4>1, <4>2
      <3> QED
        BY <1>3, <2>2, <2>3, <3>1
    <2> QED
      BY <1>2, <2>2, <2>4
  <1> HIDE DEF at
  <1>5. f \in Injection(1..i, 1..(i - 1))
    <2>1. f \in [1..i -> 1..(i - 1)]
      BY <1>4
    <2>2. ASSUME NEW j \in 1..i, NEW k \in 1..i, f[j] = f[k] PROVE j = k
      <3>1. at(j) = at(k)
        BY <2>2
      <3>2. p[j] = p[k]
        BY <1>4, <3>1
      <3>3. j \in 1..m /\ k \in 1..m
        BY <1>2
      <3> QED
        BY <1>2, <3>2, <3>3
    <2> QED
      BY <2>1, <2>2 DEF Injection, IsInjective
  <1>6. i \in Nat /\ i - 1 \in Nat
    BY <1>2
  <1>7. Cardinality(1..i) <= Cardinality(1..(i - 1))
    <2>1. IsFiniteSet(1..(i - 1))
      BY <1>6, FS_Interval
    <2> QED
      BY <1>5, <2>1, FS_Injection
  <1>8. Cardinality(1..i) = i /\ Cardinality(1..(i - 1)) = i - 1
    BY <1>6, FS_Interval
  <1> QED
    BY <1>6, <1>7, <1>8

LEMMA TwoArranged ==
  ASSUME NEW U, NEW T \in [U -> Nat], NEW p, NEW q, Arranged(T, p, U), Arranged(T, q, U)
  PROVE  Len(p) = Len(q) /\ \A i \in 1..Len(p) : T[p[i]] = T[q[i]]
  <1>1. Len(p) = Cardinality(U) /\ Len(q) = Cardinality(U)
    <2>1. ASSUME NEW s, Arranged(T, s, U) PROVE Len(s) = Cardinality(U)
      <3>1. Lists(s, Len(s), U) /\ Len(s) \in Nat
        BY <2>1 DEF Arranged, Lists
      <3> QED
        BY <3>1, ListedOnce
    <2> QED
      BY <2>1
  <1>2. ASSUME NEW i \in 1..Len(p) PROVE T[p[i]] = T[q[i]]
    <2>1. i \in 1..Len(q)
      BY <1>1
    <2>2. T[q[i]] <= T[p[i]] /\ T[p[i]] <= T[q[i]]
      BY <2>1, NoLater
    <2>3. T[p[i]] \in Nat /\ T[q[i]] \in Nat
      BY <2>1 DEF Arranged
    <2> QED
      BY <2>2, <2>3
  <1> QED
    BY <1>1, <1>2

\* Rankings arranges the entries by how many are before them.
LEMMA RankingArranged ==
  ASSUME NEW E, IsFiniteSet(E), NEW s \in Rankings(E)
  PROVE  RankPlaces(E) \in [E -> Nat] /\ Arranged(RankPlaces(E), s, E)
  <1> DEFINE N == Cardinality(E)
             T == RankPlaces(E)
             above(x) == Cardinality({y \in E : RanksBefore(y, x)})
             A == [t \in 0..N |-> SetToSeqs(AtTime(T, E, t))]
             Turn(g, t) == LET at == SetToSeqs({x \in E : above(x) = t})
                           IN IF t = 0 THEN at ELSE {p \o q : p \in g[t - 1], q \in at}
             Loop(g) == g = [t \in 0..N |-> Turn(g, t)]
             up == CHOOSE g : Loop(g)
  <1>1. N \in Nat
    BY FS_CardinalityType
  <1>2. ASSUME NEW x \in E PROVE T[x] = above(x) /\ T[x] \in Nat /\ T[x] <= N
    <2>1. {y \in E : RanksBefore(y, x)} \in SUBSET E
      OBVIOUS
    <2>2. IsFiniteSet({y \in E : RanksBefore(y, x)}) /\ above(x) <= N
      BY <2>1, FS_Subset
    <2>3. above(x) \in Nat
      BY <2>2, FS_CardinalityType
    <2> QED
      BY <2>2, <2>3 DEF RankPlaces, Above
  <1>3. T \in [E -> Nat]
    BY <1>2 DEF RankPlaces
  <1> HIDE DEF N, T
  <1>4. \A t : {x \in E : above(x) = t} = AtTime(T, E, t)
    BY <1>2 DEF AtTime
  <1> HIDE DEF above
  <1>5. ASSUME NEW g PROVE Loop(g) <=> Appended(N, A, g)
    <2>1. ASSUME NEW t \in 0..N PROVE Turn(g, t) = IF t = 0 THEN A[t] ELSE Joined(g[t - 1], A[t])
      <3>1. A[t] = SetToSeqs({x \in E : above(x) = t})
        BY <1>4, Zenon
      <3> HIDE DEF A
      <3> QED
        BY <3>1 DEF Joined
    <2> HIDE DEF A, Turn
    <2> QED
      BY <2>1 DEF Appended
  <1>6. Appended(N, A, up)
    <2>1. \E g : Appended(N, A, g)
      BY <1>1, AppendedExists
    <2> HIDE DEF Loop, A
    <2>2. \E g : Loop(g)
      BY <1>5, <2>1
    <2>3. Loop(up)
      BY <2>2
    <2> HIDE DEF up
    <2> QED
      BY <1>5, <2>3
  <1>7. s \in up[N]
    BY DEF Rankings, above, N
  <1> HIDE DEF up, Loop
  <1>8. \A t \in 0..N : A[t] = IF t < 0 THEN {<<>>} ELSE SetToSeqs(AtTime(T, E, t))
    OBVIOUS
  <1> HIDE DEF A
  <1>9. Arranged(T, s, Within(T, E, 0, N))
    <2>1. E \in SUBSET E /\ 0 \in Nat /\ N \in 0..N
      BY <1>1
    <2>2. \A t \in 0..N : \A q \in up[t] : Arranged(T, q, Within(T, E, 0, t))
      BY <1>1, <1>3, <1>6, <1>8, <2>1, AppendedArranged
    <2> QED
      BY <1>7, <2>1, <2>2
  <1>10. Within(T, E, 0, N) = E
    BY <1>1, <1>2 DEF Within
  <1> QED
    BY <1>3, <1>9, <1>10 DEF T

\* Two rankings of the same entries differ only where entries tie.
LEMMA RankingsAlike ==
  ASSUME NEW E, IsFiniteSet(E), \A e \in E : IsRanked(e), NEW s \in Rankings(E), NEW t \in Rankings(E)
  PROVE  /\ s \in Seq(E) /\ t \in Seq(E) /\ Len(s) = Len(t)
         /\ \A i \in 1..Len(s) : /\ s[i].key.name = t[i].key.name
                                  /\ Ratio(s[i])[1] * Ratio(t[i])[2] = Ratio(t[i])[1] * Ratio(s[i])[2]
  <1>1. PICK T : T = RankPlaces(E)
    OBVIOUS
  <1>2. T \in [E -> Nat] /\ Arranged(T, s, E) /\ Arranged(T, t, E)
    BY <1>1, RankingArranged
  <1>3. Len(s) = Len(t) /\ \A i \in 1..Len(s) : T[s[i]] = T[t[i]]
    BY <1>2, TwoArranged
  <1>4. s \in Seq(E) /\ t \in Seq(E)
    <2>1. \A p, n : n \in Nat /\ p \in [1..n -> E] => p \in Seq(E)
      OBVIOUS
    <2>2. Len(s) \in Nat /\ s \in [1..Len(s) -> E] /\ Len(t) \in Nat /\ t \in [1..Len(t) -> E]
      BY <1>2 DEF Arranged
    <2> QED
      BY <2>1, <2>2
  <1>5. ASSUME NEW i \in 1..Len(s)
        PROVE  /\ s[i].key.name = t[i].key.name
               /\ Ratio(s[i])[1] * Ratio(t[i])[2] = Ratio(t[i])[1] * Ratio(s[i])[2]
    <2>1. PICK x, y \in E : x = s[i] /\ y = t[i]
      BY <1>3, <1>4
    <2>2. RankPlaces(E)[x] = RankPlaces(E)[y]
      BY <1>1, <1>3, <2>1
    <2>3. ~RanksBefore(x, y) /\ ~RanksBefore(y, x)
      BY <2>2, PlacesTie
    <2>4. x.key.name = y.key.name /\ Ratio(x)[1] * Ratio(y)[2] = Ratio(y)[1] * Ratio(x)[2]
      BY <2>3, TiesAre
    <2> QED
      BY <2>1, <2>4
  <1> QED
    BY <1>3, <1>4, <1>5

LEMMA FiniteImage ==
  ASSUME NEW S, IsFiniteSet(S), NEW f, DOMAIN f = S
  PROVE  IsFiniteSet({f[x] : x \in S})
  <1>1. PICK T : T = {f[x] : x \in S}
    OBVIOUS
  <1>2. PICK g : g = [x \in S |-> f[x]]
    OBVIOUS
  <1>3. g \in [S -> T] /\ \A t \in T : \E x \in S : g[x] = t
    BY <1>1, <1>2
  <1>4. g \in Surjection(S, T)
    BY <1>3 DEF Surjection
  <1>5. IsFiniteSet(T)
    BY <1>4, FS_Surjection
  <1> QED
    BY <1>1, <1>5

LEMMA FewListed ==
  ASSUME NEW S, NEW s \in Seq(S)
  PROVE  IsFiniteSet(Range(s))
  <1>1. PICK n \in Nat : n = Len(s) /\ DOMAIN s = 1..n
    OBVIOUS
  <1>2. IsFiniteSet(1..n)
    BY FS_Interval
  <1>3. IsFiniteSet({s[i] : i \in 1..n})
    BY <1>1, <1>2, FiniteImage
  <1>4. \A x : x \in Range(s) <=> \E i \in 1..n : s[i] = x
    BY <1>1, InRangeOf, Zenon
  <1>5. Range(s) = {s[i] : i \in 1..n}
    BY <1>4
  <1> QED
    BY <1>3, <1>5

\* The entries of Volatility: their names are of resources, and they count
\* against some commit, or against none when no limit is asked for.
LEMMA VolatilityIs ==
  ASSUME DataTypes, NEW c \in Clusters, NEW a, a.commits \in Nat, a.commits > 0
  PROVE  /\ IsFiniteSet(Volatility(c, a))
         /\ \A e \in Volatility(c, a) : IsRanked(e) /\ e.total > 0
  <1> DEFINE events  == QueryEvents(c, [NoArgs EXCEPT !.group = a.group, !.kind = a.kind,
                                          !.namespace = a.namespace, !.name = a.name])
             commits == {e.n : e \in Range(events)}
             newest  == {n \in commits : a.commits <= 0
                                          \/ Cardinality({m \in commits : m >= n}) <= a.commits}
             total   == IF a.commits <= 0 THEN 0 ELSE Min({Cardinality(commits), a.commits + 1})
             seen    == {e \in Range(events) : e.n \in newest}
             at(k)   == {n \in newest : \E e \in seen : e.n = n /\ Key(e) = k}
             counts  == {[c |-> c, key |-> k, count |-> Cardinality(at(k)), total |-> total] :
                           k \in {Key(e) : e \in seen}}
  <1>1. Volatility(c, a) = counts
    BY DEF Volatility
  <1>2. IsFiniteSet(Range(events)) /\ \A e \in Range(events) : e \in AnyEvent
    <2>1. events \in Seq(AnyEvent)
      BY QueryLists
    <2> HIDE DEF events
    <2>2. \A e : e \in Range(events) <=> \E i \in 1..Len(events) : events[i] = e
      BY <2>1, InRangeOf, Zenon
    <2> QED
      BY <2>1, <2>2, FewListed
  <1> HIDE DEF events
  <1>3. PICK R : R = Range(events)
    OBVIOUS
  <1>4. IsFiniteSet(commits)
    <2>1. PICK f : f = [e \in R |-> e.n]
      OBVIOUS
    <2>2. IsFiniteSet({f[e] : e \in R})
      BY <1>2, <1>3, <2>1, FiniteImage
    <2>3. commits = {f[e] : e \in R}
      BY <1>3, <2>1
    <2> QED
      BY <2>2, <2>3
  <1>5. seen \subseteq R /\ (seen # {} => commits # {}) /\ newest \in SUBSET commits
    BY <1>3
  <1> HIDE DEF commits
  <1>6. \A k : IsFiniteSet(at(k)) /\ Cardinality(at(k)) \in Nat
    <2> TAKE k
    <2>1. at(k) \in SUBSET commits
      BY <1>5
    <2>2. IsFiniteSet(at(k))
      BY <1>4, <2>1, FS_Subset
    <2> QED
      BY <2>2, FS_CardinalityType
  <1> HIDE DEF at
  <1>7. commits # {} => total \in Nat /\ total > 0
    <2> SUFFICES ASSUME commits # {} PROVE total \in Nat /\ total > 0
      OBVIOUS
    <2>1. PICK m \in Nat : m = Cardinality(commits)
      BY <1>4, FS_CardinalityType
    <2>2. m # 0
      BY <1>4, <2>1, FS_EmptySet
    <2>3. PICK l \in Nat : l = a.commits + 1 /\ l > 0
      OBVIOUS
    <2>4. Min({m, l}) = IF m <= l THEN m ELSE l
      BY LeastOfTwo
    <2>5. total = Min({m, l})
      BY <2>1, <2>3
    <2> QED
      BY <2>2, <2>3, <2>4, <2>5
  <1> HIDE DEF total, newest
  <1>8. PICK K : K = {Key(e) : e \in seen}
    OBVIOUS
  <1>9. IsFiniteSet(K)
    <2>1. PICK f : f = [e \in seen |-> Key(e)]
      OBVIOUS
    <2>2. IsFiniteSet(seen)
      BY <1>2, <1>3, <1>5, FS_Subset
    <2>3. IsFiniteSet({f[e] : e \in seen})
      BY <2>1, <2>2, FiniteImage
    <2>4. K = {f[e] : e \in seen}
      BY <1>8, <2>1
    <2> QED
      BY <2>3, <2>4
  <1>10. IsFiniteSet(counts)
    <2>1. PICK f : f = [k \in K |-> [c |-> c, key |-> k, count |-> Cardinality(at(k)), total |-> total]]
      OBVIOUS
    <2>2. IsFiniteSet({f[k] : k \in K})
      BY <1>9, <2>1, FiniteImage
    <2>3. counts = {f[k] : k \in K}
      BY <1>8, <2>1
    <2> QED
      BY <2>2, <2>3
  <1>11. ASSUME NEW e \in counts PROVE IsRanked(e) /\ e.total > 0
    <2>1. PICK k \in K : e = [c |-> c, key |-> k, count |-> Cardinality(at(k)), total |-> total]
      BY <1>8
    <2>2. PICK x \in seen : k = Key(x)
      BY <1>8
    <2>3. x.o \in Objs /\ total \in Nat /\ total > 0
      BY <1>2, <1>3, <1>5, <1>7, <2>2 DEF AnyEvent
    <2>4. e.key.name = Meta[x.o].name
      BY <2>1, <2>2 DEF Key
    <2>5. e.count \in Nat /\ e.total = total
      BY <1>6, <2>1
    <2> QED
      BY <2>3, <2>4, <2>5 DEF IsRanked
  <1> QED
    BY <1>1, <1>10, <1>11

\* All the entries of a call of GetVolatility.
LEMMA VolatilityGathered ==
  ASSUME DataTypes, NEW a, a.commits \in Nat, a.commits > 0, NEW E, E = UNION Range(Gathered("GetVolatility", a))
  PROVE  IsFiniteSet(E) /\ \A e \in E : IsRanked(e) /\ e.total > 0
  <1>1. PICK cs, F, n : /\ cs = Visited("GetVolatility", a) /\ F = Parts("GetVolatility", a) /\ n = Len(cs)
    OBVIOUS
  <1>2. cs \in Seq(Clusters) /\ n \in Nat /\ \A i \in 1..n : cs[i] \in Clusters
    BY <1>1, VisitedFacts
  <1> DEFINE V(c) == {e \in Volatility(c, a) : e.count * 100 >= a.threshold * e.total}
  <1>3. PICK S : S = {V(c) : c \in Clusters}
    OBVIOUS
  <1>4. \A y \in S : IsFiniteSet(y) /\ \A e \in y : IsRanked(e) /\ e.total > 0
    <2> SUFFICES ASSUME NEW c \in Clusters
                 PROVE  IsFiniteSet(V(c)) /\ \A e \in V(c) : IsRanked(e) /\ e.total > 0
      BY <1>3
    <2>1. IsFiniteSet(Volatility(c, a)) /\ \A e \in Volatility(c, a) : IsRanked(e) /\ e.total > 0
      BY VolatilityIs
    <2>2. V(c) \in SUBSET Volatility(c, a)
      OBVIOUS
    <2> HIDE DEF V
    <2> QED
      BY <2>1, <2>2, FS_Subset
  <1>5. \A i \in 1..n : F[i] = <<V(cs[i])>> /\ V(cs[i]) \in S
    BY <1>1, <1>2, <1>3 DEF Parts, Part
  <1> HIDE DEF V
  <1>6. \A i \in 1..n : F[i] \in Seq(S)
    <2>1. \A x \in S : <<x>> \in Seq(S)
      OBVIOUS
    <2> QED
      BY <1>5, <2>1
  <1>7. Chained(F, n) \in Seq(S)
    BY <1>2, <1>6, ChainedElements
  <1>8. PICK R : R = Range(Chained(F, n))
    OBVIOUS
  <1>9. IsFiniteSet(R) /\ \A y \in R : y \in S
    <2>1. \A y : y \in R <=> \E i \in 1..Len(Chained(F, n)) : Chained(F, n)[i] = y
      BY <1>7, <1>8, InRangeOf, Zenon
    <2> QED
      BY <1>7, <1>8, <2>1, FewListed
  <1>10. E = UNION R
    BY <1>1, <1>8 DEF Gathered
  <1>11. IsFiniteSet(UNION R)
    BY <1>4, <1>9, FS_UNION
  <1> QED
    BY <1>4, <1>9, <1>10, <1>11

\* Two answers of one call of GetVolatility differ only where entries tie.
RanksAlike(u, v) ==
  /\ Len(u) = Len(v)
  /\ \A i \in DOMAIN v : u[i].name = v[i].name /\ u[i].count * v[i].total = v[i].count * u[i].total

LEMMA PagesAlike ==
  ASSUME DataTypes, NEW a, a.commits \in Nat, a.commits > 0,
         a.limit \in 1..MaxInt, a.offset \in -(MaxInt + 1)..MaxInt,
         NEW u, NEW v, u \in Results("GetVolatility", a, Gathered("GetVolatility", a)),
         v \in Results("GetVolatility", a, Gathered("GetVolatility", a))
  PROVE  /\ u.code = "ok" <=> v.code = "ok"
         /\ RanksAlike(Encode("GetVolatility", u.items), Encode("GetVolatility", v.items))
  <1>1. PICK E : E = UNION Range(Gathered("GetVolatility", a))
    OBVIOUS
  <1>2. IsFiniteSet(E) /\ \A e \in E : IsRanked(e) /\ e.total > 0
    BY <1>1, VolatilityGathered
  <1>3. Results("GetVolatility", a, Gathered("GetVolatility", a)) = {Page(a, s) : s \in Rankings(E)}
    BY <1>1 DEF Results
  <1>4. PICK s, t \in Rankings(E) : u = Page(a, s) /\ v = Page(a, t)
    BY <1>3
  <1>5. /\ s \in Seq(E) /\ t \in Seq(E) /\ Len(s) = Len(t)
        /\ \A i \in 1..Len(s) : /\ s[i].key.name = t[i].key.name
                                 /\ Ratio(s[i])[1] * Ratio(t[i])[2] = Ratio(t[i])[1] * Ratio(s[i])[2]
    BY <1>2, RankingsAlike
  <1>6. PICK p : p = paginate(a.offset, a.limit, Len(s))
    OBVIOUS
  <1>7. CASE p.start < 0 \/ p.end < p.start
    <2>1. u = Answer("panic", <<>>, 0) /\ v = Answer("panic", <<>>, 0)
      BY <1>4, <1>5, <1>6, <1>7 DEF Page
    <2>2. u = v /\ u.items = <<>>
      BY <2>1 DEF Answer
    <2>3. Encode("GetVolatility", <<>>) = <<>>
      BY DEF Encode
    <2>4. \A i \in DOMAIN <<>> : FALSE
      OBVIOUS
    <2> QED
      BY <2>2, <2>3, <2>4 DEF RanksAlike
  <1>8. CASE ~(p.start < 0 \/ p.end < p.start)
    <2>1. u.code = "ok" /\ v.code = "ok"
      BY <1>4, <1>5, <1>6, <1>8 DEF Page, Answer
    <2>2. PICK n, b : n = Len(s) /\ b = Begin(a, Len(s))
      OBVIOUS
    <2>3. /\ n \in Nat /\ b \in 0..n /\ a.limit \in Nat
          /\ u.items \in Seq(E) /\ Len(u.items) = IF n - b <= a.limit THEN n - b ELSE a.limit
          /\ \A i \in 1..Len(u.items) : b + i \in 1..n /\ u.items[i] = s[b + i]
      BY <1>4, <1>5, <2>1, <2>2, PageIs
    <2>4. /\ v.items \in Seq(E) /\ Len(v.items) = IF n - b <= a.limit THEN n - b ELSE a.limit
          /\ \A i \in 1..Len(v.items) : b + i \in 1..n /\ v.items[i] = t[b + i]
      BY <1>4, <1>5, <2>1, <2>2, PageIs, SMTT(30)
    <2>5. PICK m \in Nat : m = Len(u.items) /\ m = Len(v.items) /\ DOMAIN u.items = 1..m /\ DOMAIN v.items = 1..m
      BY <2>3, <2>4
    <2>6. PICK f, g : f = Encode("GetVolatility", u.items) /\ g = Encode("GetVolatility", v.items)
      OBVIOUS
    <2>7. f = [i \in 1..m |-> VolatilityEntry(u.items[i])] /\ g = [i \in 1..m |-> VolatilityEntry(v.items[i])]
      BY <2>5, <2>6 DEF Encode
    <2>8. Len(f) = m /\ Len(g) = m /\ DOMAIN g = 1..m
      BY <2>7
    <2>9. ASSUME NEW i \in 1..m
          PROVE  f[i].name = g[i].name /\ f[i].count * g[i].total = g[i].count * f[i].total
      <3>1. PICK x, y \in E : /\ x = u.items[i] /\ y = v.items[i] /\ x.key.name = y.key.name
                              /\ Ratio(x)[1] * Ratio(y)[2] = Ratio(y)[1] * Ratio(x)[2]
        <4>1. b + i \in 1..n /\ u.items[i] = s[b + i] /\ v.items[i] = t[b + i]
          BY <2>3, <2>4, <2>5
        <4>2. s[b + i] \in E /\ t[b + i] \in E
          BY <1>5, <2>2, <4>1
        <4> QED
          BY <1>5, <2>2, <4>1, <4>2
      <3>2. f[i] = VolatilityEntry(x) /\ g[i] = VolatilityEntry(y)
        BY <2>7, <3>1
      <3>3. /\ f[i].name = x.key.name /\ f[i].count = x.count /\ f[i].total = x.total
            /\ g[i].name = y.key.name /\ g[i].count = y.count /\ g[i].total = y.total
        BY <3>2 DEF VolatilityEntry
      <3>4. x.total # 0 /\ y.total # 0
        BY <1>2
      <3>5. Ratio(x) = <<x.count, x.total>> /\ Ratio(y) = <<y.count, y.total>>
        BY <3>4 DEF Ratio
      <3> QED
        BY <3>1, <3>3, <3>5
    <2> QED
      BY <2>1, <2>6, <2>8, <2>9 DEF RanksAlike
  <1> QED
    BY <1>7, <1>8

-----------------------------------------------------------------------------
(* One call, one answer *)

\* REST looks at a positive number of commits.
LEMMA CommitsAsked ==
  ASSUME NEW a \in Requests, NEW d, d = Dispatch(a), d.do = "GetVolatility", a.path # <<"mcp">>, InRange(a.q)
  PROVE  d.args.commits \in Nat /\ d.args.commits > 0
  <1>1. PICK q, op : q = a.q /\ op = d.do
    OBVIOUS
  <1>2. op \in Paged /\ op # "reply" /\ op = "GetVolatility"
    BY <1>1 DEF Paged
  <1>3. d = Call(op, RestArgs(op, q)) /\ RestCall(op, q)
    BY <1>1, <1>2, DispatchCalls
  <1>4. PICK g : g = RestArgs(op, q)
    OBVIOUS
  <1>5. Takes(g, q, Parameters(op)) /\ d.args = Over(g, NoArgs)
    BY <1>1, <1>2, <1>3, <1>4, RestTakes, CallFacts
  <1>6. "commits" \in Parameters(op)
    BY <1>2 DEF Parameters
  <1>7. "commits" \in DOMAIN g /\ g["commits"] = IF "commits" \in DOMAIN q THEN q["commits"] ELSE NoArgs["commits"]
    BY <1>5, <1>6 DEF Takes
  <1>8. d.args["commits"] = g["commits"]
    BY <1>5, <1>7 DEF Over
  <1>9. "commits" \in DOMAIN q => q["commits"] \in Int /\ q["commits"] > 0
    BY <1>1, InRangeFacts
  <1>10. NoArgs["commits"] = 50
    BY NoArgsAre
  <1>11. g["commits"] \in Nat /\ g["commits"] > 0
    BY <1>7, <1>9, <1>10
  <1> QED
    BY <1>8, <1>11

\* Without volatility entries a call has one result.
LEMMA OneResult ==
  ASSUME NEW op, op # "GetVolatility", NEW a, NEW all, NEW u \in Results(op, a, all), NEW v \in Results(op, a, all)
  PROVE  u = v
  <1>1. \E e : Results(op, a, all) = {e}
    BY DEF Results
  <1> QED
    BY <1>1

\* Two answers of one call, while the data stay as they are.
LEMMA AnswersAlike ==
  ASSUME NEW p, NEW r, Answered(p), Answered(r), p.do = r.do, p.args = r.args, DataTypes,
         r.do = "GetVolatility" => /\ r.args.commits \in Nat /\ r.args.commits > 0
                                   /\ r.args.limit \in 1..MaxInt /\ r.args.offset \in -(MaxInt + 1)..MaxInt
  PROVE  /\ p.out.code = "ok" <=> r.out.code = "ok"
         /\ IF r.do = "GetVolatility" THEN RanksAlike(p.out.items, r.out.items)
            ELSE p.out.items = r.out.items
  <1>1. PICK op, a : op = r.do /\ a = r.args
    OBVIOUS
  <1>2. CASE op \in OneFile
    <2>1. op # "GetVolatility"
      BY <1>2 DEF OneFile
    <2> QED
      BY <1>1, <1>2, <2>1 DEF Answered
  <1>3. CASE op \notin OneFile /\ Refused(op, a)
    <2>1. /\ p.out.code # "ok" /\ p.out.items = <<>> /\ r.out.code # "ok" /\ r.out.items = <<>>
      BY <1>1, <1>3 DEF Answered
    <2>2. RanksAlike(<<>>, <<>>)
      BY DEF RanksAlike
    <2> QED
      BY <1>1, <2>1, <2>2
  <1>4. CASE op \notin OneFile /\ ~Refused(op, a)
    <2>1. PICK u \in Results(op, a, Gathered(op, a)) : p.out = Answer(u.code, Encode(op, u.items), u.total)
      BY <1>1, <1>4 DEF Answered
    <2>2. PICK v \in Results(op, a, Gathered(op, a)) : r.out = Answer(v.code, Encode(op, v.items), v.total)
      BY <1>1, <1>4 DEF Answered
    <2>3. /\ p.out.code = u.code /\ p.out.items = Encode(op, u.items)
          /\ r.out.code = v.code /\ r.out.items = Encode(op, v.items)
      BY <2>1, <2>2, AnswerFields
    <2>4. CASE op = "GetVolatility"
      <3>1. /\ u.code = "ok" <=> v.code = "ok"
            /\ RanksAlike(Encode("GetVolatility", u.items), Encode("GetVolatility", v.items))
        BY <1>1, <2>1, <2>2, <2>4, PagesAlike
      <3> QED
        BY <1>1, <2>3, <2>4, <3>1
    <2>5. CASE op # "GetVolatility"
      <3>1. u = v
        BY <2>1, <2>2, <2>5, OneResult
      <3> QED
        BY <1>1, <2>3, <2>5, <3>1
    <2> QED
      BY <2>4, <2>5
  <1> QED
    BY <1>2, <1>3, <1>4

LEMMA AlikeMean ==
  ASSUME DataTypes, SteadyInv
  PROVE  RestAndMcpAgree
  <1> SUFFICES ASSUME BothAnswered, IsMcp(req), ~IsMcp(prev), prev.ask.q = req.ask.q, prev.do = req.do,
                      InRange(req.ask.q),
                      req.do = "GetVolatilityFields" => "limit" \notin DOMAIN req.ask.q
               PROVE  /\ Found(prev) = Found(req)
                      /\ IF req.do = "GetVolatility" THEN RanksAlike(prev.out.items, req.out.items)
                         ELSE prev.out.items = req.out.items
    BY Zenon DEF RestAndMcpAgree, RanksAlike
  <1>1. req.do # "reply"
    <2>1. PICK p : p = prev
      OBVIOUS
    <2>2. p.at = "done" => p.do # "reply"
      BY <2>1 DEF SteadyInv
    <2> QED
      BY <2>1, <2>2 DEF BothAnswered
  <1>2. Asked(prev) /\ Answered(prev) /\ Asked(req) /\ Answered(req)
    BY <1>1, BothAre
  <1>3. PICK p, r, a, b, d, e : /\ p = prev /\ r = req /\ a = prev.ask /\ b = req.ask
                                /\ d = Dispatch(a) /\ e = Dispatch(b)
    OBVIOUS
  <1>4. /\ a \in Requests /\ b \in Requests /\ a.path # <<"mcp">> /\ b.path = <<"mcp">>
        /\ p.do = d.do /\ p.args = d.args /\ r.do = e.do /\ r.args = e.args
    BY <1>2, <1>3 DEF Asked, IsMcp
  <1>5. d.do = e.do /\ d.do # "reply" /\ a.q = b.q /\ InRange(b.q)
        /\ (d.do = "GetVolatilityFields" => "limit" \notin DOMAIN b.q)
    BY <1>1, <1>3, <1>4
  <1>6. d.args = e.args
    BY <1>3, <1>4, <1>5, SameArgs
  <1>7. ASSUME r.do = "GetVolatility"
        PROVE  /\ r.args.commits \in Nat /\ r.args.commits > 0
               /\ r.args.limit \in 1..MaxInt /\ r.args.offset \in -(MaxInt + 1)..MaxInt
    <2>1. d.do = "GetVolatility" /\ d.do \in Paged /\ InRange(a.q)
      BY <1>4, <1>5, <1>7 DEF Paged
    <2>2. d.args.commits \in Nat /\ d.args.commits > 0
      BY <1>3, <1>4, <2>1, CommitsAsked
    <2>3. d.args.limit \in 1..MaxInt /\ d.args.offset \in -(MaxInt + 1)..MaxInt
      BY <1>3, <1>4, <2>1, PagedArgs
    <2> QED
      BY <1>4, <1>6, <2>2, <2>3
  <1>8. /\ p.out.code = "ok" <=> r.out.code = "ok"
        /\ IF r.do = "GetVolatility" THEN RanksAlike(p.out.items, r.out.items)
           ELSE p.out.items = r.out.items
    <2>1. Answered(p) /\ Answered(r) /\ p.do = r.do /\ p.args = r.args
      BY <1>2, <1>3, <1>4, <1>5, <1>6
    <2> QED
      BY <1>7, <2>1, AnswersAlike
  <1> QED
    BY <1>3, <1>8 DEF Found

\* A query that REST accepts, with numbers in range, has the same answer from
\* the MCP tool, whatever the clusters hold; only volatility entries of one
\* ratio and one name may change places.
THEOREM RestAndMcpAlike == Spec => []RestAndMcpAgree
  <1>1. DataTypes /\ SteadyInv => RestAndMcpAgree
    BY AlikeMean
  <1> QED
    BY <1>1, SteadyHolds, PTL
=============================================================================
