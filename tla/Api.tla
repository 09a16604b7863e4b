-------------------------------- MODULE Api --------------------------------
(***************************************************************************)
(* Requests against the korpus server while its pull loops change what     *)
(* they read.  A request passes the mux, the token check and the decoding  *)
(* of its parameters (ApiSchema); the query server (internal/query) then   *)
(* visits the clusters one after the other, reading each one's in-memory   *)
(* index under that index's own lock and files or commits under none.      *)
(*                                                                         *)
(* Server has the faults of the pull loop; here a pull succeeds, and a     *)
(* clone is its commits: the working tree is the newest one, the resource  *)
(* index and the history indexes remember which commit they were built     *)
(* from.  A cluster whose first clone failed has no commits.               *)
(***************************************************************************)
EXTENDS ApiSchema, Positions, SequencesExt, FiniteSetsExt

CONSTANTS
  ClusterNames,   \* Seq(names): spec.clusters
  WalkOrder,      \* Seq(Objs): the files in the order of WalkDir
  Meta,           \* [Objs -> [group, version, kind, namespace, name]]
  Fold,           \* [names -> names]: a name in lower case
  Rank,           \* [names -> Nat]: the order of names
  Docs,           \* contents of a file: functions from fields to values
  None,           \* no file
  IndexedFields,  \* index.fields
  InitialLog,     \* [clusters -> Seq([time, tree])]
  Trees,          \* trees a pull may bring
  Requests,       \* the requests that are made
  OIDC,           \* spec.oidc is set
  MaxInt,         \* the largest int
  MaxCommits      \* bound on the commits of a cluster

Clusters == Range(ClusterNames)
Objs     == Range(WalkOrder)
Tree     == [Objs -> Docs \cup {None}]

ASSUME ApiConstants ==
  /\ OIDC \in BOOLEAN /\ MaxInt \in Nat /\ MaxInt >= 50 /\ MaxCommits \in Nat
  /\ ClusterNames \in Seq(Clusters)
  /\ WalkOrder \in Seq(Objs) /\ IsInjective(WalkOrder)
  /\ DOMAIN Meta = Objs /\ None \notin Docs
  /\ \A o, p \in Objs : /\ Rank[Meta[o].name] \in Nat
                        /\ Rank[Meta[o].name] = Rank[Meta[p].name] => Meta[o].name = Meta[p].name
  /\ \A a \in Requests : \A x \in DOMAIN a.q \cap {"limit", "offset", "commits", "threshold"} :
       a.q[x] \in (-(MaxInt + 1)..MaxInt) \cup {Bad}
  /\ Trees \subseteq Tree
  /\ \A c \in Clusters : InitialLog[c] \in Seq([time : Nat, tree : Tree])

VARIABLES
  log,   \* [Clusters -> Seq([time, tree])]: the commits of each clone
  idx,   \* [Clusters -> Nat]: the commit Index.resources was built from
  hist,  \* [Clusters -> Nat]: the commit the history indexes reach
  req,   \* the request in progress, or the last one
  prev   \* the one before it, if it came to a call and nothing was pulled or
         \* built since it began

vars == <<log, idx, hist, req, prev>>
data == <<log, idx, hist>>

-----------------------------------------------------------------------------
(* What a cluster holds *)

DocAt(c, n, o) == IF n = 0 THEN None ELSE log[c][n].tree[o]
OnDisk(c, o)   == DocAt(c, Len(log[c]), o)
Listed(c)      == {o \in Objs : DocAt(c, idx[c], o) # None}

EqualFold(a, b) == Fold[a] = Fold[b]

\* The filters on group, kind and namespace of Index.List and Index.Query.
PassesAs(a, o, kind) ==
  /\ a.group = "" \/ EqualFold(a.group, Meta[o].group)
  /\ a.kind = "" \/ EqualFold(a.kind, kind)
  /\ a.namespace \in {"", Meta[o].namespace}
Passes(a, o) == PassesAs(a, o, Meta[o].kind)
Filtered(c, a) ==
  SubSeqAt(WalkOrder, {i \in DOMAIN WalkOrder : WalkOrder[i] \in Listed(c) /\ Passes(a, WalkOrder[i])})

Named(a, o) == a.name \in {"", Meta[o].name}
WithName(a, objs) == SubSeqAt(objs, {i \in DOMAIN objs : Named(a, objs[i])})

\* A resource of an answer, with the commit its index entry came from.
Entry(c, v, o) == [c |-> c, v |-> v, o |-> o]
Entries(c, v, objs) == [i \in DOMAIN objs |-> Entry(c, v, objs[i])]

\* The first of some files in the order of WalkDir.
FirstOf(objs) == WalkOrder[Min({i \in DOMAIN WalkOrder : WalkOrder[i] \in objs})]

\* Mutant: the kind is not looked at.
GetAnyKind(c, a) ==
  {o \in Listed(c) :
    /\ a.group = "" \/ EqualFold(a.group, Meta[o].group)
    /\ a.namespace = Meta[o].namespace /\ a.name = Meta[o].name}

\* Index.Get returns the first of these.
Get(c, a) ==
  {o \in Listed(c) :
    /\ a.group = "" \/ EqualFold(a.group, Meta[o].group)
    /\ EqualFold(a.kind, Meta[o].kind)
    /\ a.namespace = Meta[o].namespace /\ a.name = Meta[o].name}

GVKs(c, namespace) ==
  {[group |-> Meta[o].group, version |-> Meta[o].version, kind |-> Meta[o].kind] :
     o \in {x \in Listed(c) : namespace \in {"", Meta[x].namespace}}}

Namespaces(c) == {Meta[o].namespace : o \in Listed(c)} \ {""}

\* A CEL expression: [test |-> "is", field, value] for object.field == value,
\* [test |-> "has", field] for has(object.field).
Eval(e, doc) ==
  CASE e.test = "has"                           -> IF e.field \in DOMAIN doc THEN "true" ELSE "false"
    [] e.test = "is" /\ e.field \notin DOMAIN doc -> "no such key"
    [] OTHER                                    -> IF doc[e.field] = e.value THEN "true" ELSE "false"

\* buildObjectMap: kind, name and namespace, and the indexed fields.
ObjectMap(c, v, o) ==
  LET doc == DocAt(c, v, o)
  IN [f \in DOMAIN doc \cap IndexedFields |-> doc[f]]

\* Mutant: a missing key is no match.
EvalPartial(e, x) ==
  LET out == Eval(e, ObjectMap(x.c, x.v, x.o)) IN IF out = "no such key" THEN "false" ELSE out

\* evalResource: the indexed fields decide; when they cannot, loadFullDoc
\* reads the file as it is now.
EvalResource(e, x) ==
  LET out == Eval(e, ObjectMap(x.c, x.v, x.o))
      now == OnDisk(x.c, x.o)
  IN IF out # "no such key" THEN out
     ELSE IF now = None THEN "no such file" ELSE Eval(e, now)

-----------------------------------------------------------------------------
(* What its history holds *)

\* CommitIndex.FindBefore; 0 for none.
FindBefore(c, t) == Max({0} \cup {n \in 1..hist[c] : log[c][n].time <= t})

\* resourcesAtCommit.
AtCommit(c, n, a) == SubSeqAt(WalkOrder,
  {i \in DOMAIN WalkOrder : /\ DocAt(c, n, WalkOrder[i]) # None
                            /\ Passes(a, WalkOrder[i]) /\ Named(a, WalkOrder[i])})

Changed(c, n) == SubSeqAt(WalkOrder,
  {i \in DOMAIN WalkOrder : DocAt(c, n - 1, WalkOrder[i]) # DocAt(c, n, WalkOrder[i])})

\* The kind is read from the file of the commit: a deletion has none.
EventOf(c, n, o) ==
  [c |-> c, n |-> n, o |-> o, time |-> log[c][n].time,
   kind |-> IF DocAt(c, n, o) = None THEN "" ELSE Meta[o].kind,
   type |-> CASE DocAt(c, n - 1, o) = None -> "added"
              [] DocAt(c, n, o) = None     -> "deleted"
              [] OTHER                     -> "modified"]

EventsOf(c, n) == LET objs == Changed(c, n) IN [i \in DOMAIN objs |-> EventOf(c, n, objs[i])]

\* ChangeIndex.events.
Events(c) == Chained([n \in 1..hist[c] |-> EventsOf(c, n)], hist[c])

Wanted(a, e) ==
  /\ a.since = NoTime \/ e.time >= a.since
  /\ a.until = NoTime \/ e.time <= a.until
  /\ PassesAs(a, e.o, e.kind) /\ Named(a, e.o)
  /\ a.changeType \in {"", e.type}

\* ChangeIndex.Query, newest first, the whole of it.
QueryEvents(c, a) ==
  LET events == Events(c)
  IN Reverse(SubSeqAt(events, {i \in DOMAIN events : Wanted(a, events[i])}))

\* ChangeIndex.Volatility looks at the newest maxCommits commits of the
\* matching events and counts one more, or none without a limit; it tells
\* resources apart by what their events show.
Key(e) == [group |-> Meta[e.o].group, kind |-> e.kind,
           namespace |-> Meta[e.o].namespace, name |-> Meta[e.o].name]
Volatility(c, a) ==
  LET events  == QueryEvents(c, [NoArgs EXCEPT !.group = a.group, !.kind = a.kind,
                                   !.namespace = a.namespace, !.name = a.name])
      commits == {e.n : e \in Range(events)}
      newest  == {n \in commits : a.commits <= 0
                                  \/ Cardinality({m \in commits : m >= n}) <= a.commits}
      total   == IF a.commits <= 0 THEN 0 ELSE Min({Cardinality(commits), a.commits + 1})
      seen    == {e \in Range(events) : e.n \in newest}
      at(k)   == {n \in newest : \E e \in seen : e.n = n /\ Key(e) = k}
  IN {[c |-> c, key |-> k, count |-> Cardinality(at(k)), total |-> total] :
        k \in {Key(e) : e \in seen}}

\* FindResourcePathInCommit returns the first of these: group, namespace and
\* name, of any kind.
FindResourcePath(c, n, group, namespace, name) ==
  {o \in Objs :
    /\ DocAt(c, n, o) # None
    /\ EqualFold(group, Meta[o].group)
    /\ namespace = Meta[o].namespace /\ name = Meta[o].name}

\* diffFields; a missing document has no fields.
DiffFields(before, after) ==
  LET b == IF before = None THEN <<>> ELSE before
      a == IF after = None THEN <<>> ELSE after
  IN {f \in DOMAIN b \cup DOMAIN a :
        f \notin DOMAIN b \/ f \notin DOMAIN a \/ b[f] # a[f]}

ChangedFields(e) ==
  LET path == FindResourcePath(e.c, e.n, Meta[e.o].group, Meta[e.o].namespace, Meta[e.o].name)
  IN IF path = {} THEN {}
     ELSE DiffFields(DocAt(e.c, e.n - 1, FirstOf(path)),
                     IF e.type = "deleted" THEN None ELSE DocAt(e.c, e.n, FirstOf(path)))

\* FieldVolatilityFromRepo takes a.commits events from the end of the
\* newest-first list.
FieldVolatility(c, a) ==
  LET events == QueryEvents(c, [NoArgs EXCEPT !.group = a.group, !.kind = a.kind,
                                  !.namespace = a.namespace, !.name = a.name])
      limit  == IF a.commits > 0 THEN Min({a.commits, Len(events)}) ELSE Len(events)
      seen   == {i \in DOMAIN events : i > Len(events) - limit}
  IN {[field |-> f, count |-> Cardinality({i \in seen : f \in ChangedFields(events[i])}),
       total |-> limit] : f \in UNION {ChangedFields(events[i]) : i \in seen}}

-----------------------------------------------------------------------------
(* Requests *)

\* A request: [path, method, tool, token, q].  An answer: its code, and for
\* "ok" the items and the size of the whole list.
Answer(code, items, total) == [code |-> code, items |-> items, total |-> total]
NoAnswer == Answer("none", <<>>, 0)
Idle == [at |-> "idle", ask |-> None, do |-> "none", args |-> NoArgs, todo |-> <<>>,
         cands |-> <<>>, all |-> <<>>, steady |-> TRUE, out |-> NoAnswer]

Mcp == req.ask.path = <<"mcp">>

\* buildMux: /api/ and /mcp go through maybeProtect; /healthz does not.
Protected(path) == path = <<"mcp">> \/ (Len(path) > 1 /\ path[1] = "api")

\* What the mux does with a request; everything else is the front end.
Dispatch(a) ==
  IF OIDC /\ Protected(a.path) /\ a.token # "valid" THEN Reply("unauthorized")
  ELSE IF a.path = <<"mcp">> THEN Tool(a.tool, a.q)
  ELSE IF a.path = <<"healthz">> \/ (Len(a.path) > 1 /\ a.path[1] = "api")
       THEN ServeHTTP(a.path, a.method, a.q)
  ELSE Reply("page")

\* Server.resolve; GetResource and GetDiff want one cluster.
Resolve(op, cluster) ==
  IF cluster = "" /\ op \notin {"GetResource", "GetDiff"} THEN ClusterNames
  ELSE IF cluster \in Clusters THEN <<cluster>> ELSE <<>>

\* A request comes in.  (Bound: two are answered between two changes.)
Receive ==
  /\ req.at \in {"idle", "done"}
  /\ prev.at = "idle"
  /\ prev' = IF req.at = "done" /\ req.steady /\ req.do # "reply" THEN req ELSE Idle
  /\ \E a \in Requests :
       LET d == Dispatch(a)
       IN req' = [Idle EXCEPT
            !.ask = a, !.do = d.do, !.args = d.args,
            !.todo = IF d.do \in {"reply", "ListClusters"} THEN <<>> ELSE Resolve(d.do, d.args.cluster),
            !.at = CASE d.do = "reply"                      -> "done"
                     [] d.do \in {"GetResource", "GetDiff"} -> "lookup"
                     [] OTHER                               -> "visit",
            !.out = IF d.do = "reply" THEN Answer(d.code, <<>>, 0) ELSE NoAnswer]
  /\ UNCHANGED data

Visiting(op) == req.at = "visit" /\ req.do = op /\ req.todo # <<>>
Cluster == Head(req.todo)
Collect(more) == req' = [req EXCEPT !.todo = Tail(@), !.all = @ \o more]

\* The error of a method, as REST and as MCP report it.
Fail(code) == req' = [req EXCEPT !.at = "done", !.todo = <<>>, !.cands = <<>>, !.all = <<>>,
                                 !.out = Answer(IF Mcp THEN "text" ELSE code, <<>>, 0)]

VisitStatus ==
  /\ Visiting("GetStatus")
  /\ Collect(<<[c |-> Cluster, pulled |-> hist[Cluster] # 0,
                count |-> Cardinality({o \in Objs : DocAt(Cluster, hist[Cluster], o) # None})]>>)
  /\ UNCHANGED <<data, prev>>

VisitHealthz ==
  /\ Visiting("Healthz")
  /\ IF hist[Cluster] # 0 THEN Collect(<<>>) ELSE Fail("unavailable")
  /\ UNCHANGED <<data, prev>>

VisitGVKs ==
  /\ Visiting("ListGVKs")
  /\ Collect(<<GVKs(Cluster, req.args.namespace)>>)
  /\ UNCHANGED <<data, prev>>

VisitNamespaces ==
  /\ Visiting("ListNamespaces")
  /\ Collect(<<Namespaces(Cluster)>>)
  /\ UNCHANGED <<data, prev>>

\* GetCurrentSnapshot without an expression: Index.List.
VisitList ==
  /\ Visiting("GetCurrentSnapshot")
  /\ req.args.cel = NoCel
  /\ Collect(Entries(Cluster, idx[Cluster],
                     WithName(req.args, Filtered(Cluster, req.args))))
  /\ UNCHANGED <<data, prev>>

\* ... and with one: Index.Query collects the candidates under the lock and
\* compiles the expression,
VisitQuery ==
  /\ Visiting("GetCurrentSnapshot")
  /\ req.args.cel # NoCel
  /\ IF req.args.cel = Bad THEN Fail("bad request")
     ELSE req' = [req EXCEPT !.at = "eval", !.todo = Tail(@),
                    !.cands = Entries(Cluster, idx[Cluster], Filtered(Cluster, req.args))]
  /\ UNCHANGED <<data, prev>>

\* ... then evaluates it on one after the other.  An error ends the request.
EvalNext ==
  /\ req.at = "eval"
  /\ IF req.cands = <<>> THEN req' = [req EXCEPT !.at = "visit"]
     ELSE LET x   == Head(req.cands)
              out == EvalResource(req.args.cel, x)
          IN IF out \notin {"true", "false"} THEN Fail("bad request")
             ELSE req' = [req EXCEPT !.cands = Tail(@),
                    !.all = IF out = "true" /\ Named(req.args, x.o) THEN Append(@, x) ELSE @]
  /\ UNCHANGED <<data, prev>>

\* GetHistoricalSnapshot; a cluster without a commit by then is left out.
VisitPast ==
  /\ Visiting("GetHistoricalSnapshot")
  /\ LET n == FindBefore(Cluster, req.args.datetime)
     IN Collect(Entries(Cluster, n, AtCommit(Cluster, n, req.args)))
  /\ UNCHANGED <<data, prev>>

VisitHistory ==
  /\ Visiting("GetHistory")
  /\ Collect(QueryEvents(Cluster, req.args))
  /\ UNCHANGED <<data, prev>>

\* The entries come from a map, in any order, and are ranked in the end.
VisitVolatility ==
  /\ Visiting("GetVolatility")
  /\ Collect(<<{e \in Volatility(Cluster, req.args) : e.count * 100 >= req.args.threshold * e.total}>>)
  /\ UNCHANGED <<data, prev>>

VisitFields ==
  /\ Visiting("GetVolatilityFields")
  /\ Collect(<<FieldVolatility(Cluster, req.args)>>)
  /\ UNCHANGED <<data, prev>>

\* GetResource and GetDiff look the resource up in the index; GetDiff falls
\* back to the commit `from'.
Lookup ==
  /\ req.at = "lookup"
  /\ IF req.todo = <<>> THEN Fail("not found")
     ELSE LET found == Get(Cluster, req.args)
              a     == req.args
              old   == IF req.do = "GetDiff" /\ a.from \in 1..Len(log[Cluster])
                       THEN FindResourcePath(Cluster, a.from, a.group, a.namespace, a.name)
                       ELSE {}
              path  == IF found # {} THEN found ELSE old
          IN IF path = {} THEN Fail("not found")
             ELSE req' = [req EXCEPT !.at = IF req.do = "GetDiff" THEN "from" ELSE "read",
                                     !.cands = <<Entry(Cluster, idx[Cluster], FirstOf(path))>>]
  /\ UNCHANGED <<data, prev>>

\* os.ReadFile of the path the index entry has.
ReadFile ==
  /\ req.at = "read"
  /\ LET doc == OnDisk(Cluster, req.cands[1].o)
     IN IF doc = None THEN Fail("error")
        ELSE req' = [req EXCEPT !.at = "done", !.out = Answer("ok", <<doc>>, 1)]
  /\ UNCHANGED <<data, prev>>

\* Mutant: the file is taken from the working tree.
FileAtDisk(c, n, o) == OnDisk(c, o)

\* FileAtCommit; None is an error: an unknown commit or no such file in it.
FileAt(c, n, o) == IF n \in 1..Len(log[c]) THEN DocAt(c, n, o) ELSE None

\* GetDiff reads the two versions, one after the other.
ReadVersion ==
  /\ req.at \in {"from", "to"}
  /\ LET n   == IF req.at = "from" THEN req.args.from ELSE req.args.to
         doc == FileAt(Cluster, n, req.cands[1].o)
     IN IF doc = None THEN Fail("bad request")
        ELSE IF req.at = "from" THEN req' = [req EXCEPT !.at = "to", !.all = <<doc>>]
        ELSE req' = [req EXCEPT !.at = "done", !.out = Answer("ok", <<req.all[1], doc>>, 2)]
  /\ UNCHANGED <<data, prev>>

-----------------------------------------------------------------------------
(* The end of a request *)

\* Addition of ints.
Plus(a, b) == IF a + b > MaxInt THEN a + b - 2 * (MaxInt + 1) ELSE a + b

paginate(offset, limit, total) ==
  LET start == Min({offset, total})
  IN [start |-> start, end |-> Min({Plus(start, limit), total})]

\* all[start:end], out of the range of which the handler panics.
Page(a, s) ==
  LET p == paginate(a.offset, a.limit, Len(s))
  IN IF p.start < 0 \/ p.end < p.start THEN Answer("panic", <<>>, 0)
     ELSE Answer("ok", SubSeq(s, p.start + 1, p.end), Len(s))

\* Mutant: clusters one after the other.
NewestUnsorted(events) == events

\* sort.Slice of GetHistory: newest first.
Newest(events) ==
  InOrder(events, [i \in DOMAIN events |->
    {j \in DOMAIN events : \/ events[j].time > events[i].time
                           \/ events[j].time = events[i].time /\ j < i}])

\* sort.Slice of GetVolatility: by ratio, then by name; ratios of entries
\* without commits are 0.  Entries that tie stay in the order of the map.
Ratio(e) == IF e.total = 0 THEN <<0, 1>> ELSE <<e.count, e.total>>
RanksBefore(x, y) ==
  LET p == Ratio(x)  q == Ratio(y)
  IN \/ p[1] * q[2] > q[1] * p[2]
     \/ p[1] * q[2] = q[1] * p[2] /\ Rank[x.key.name] < Rank[y.key.name]
Rankings(entries) ==
  LET above(x) == Cardinality({y \in entries : RanksBefore(y, x)})
      upTo[k \in 0..Cardinality(entries)] ==
        LET at == SetToSeqs({x \in entries : above(x) = k})
        IN IF k = 0 THEN at ELSE {s \o t : s \in upTo[k - 1], t \in at}
  IN upTo[Cardinality(entries)]

\* The sums of GetVolatilityFields over the clusters, at most limit of them.
Merged(sets, limit) ==
  LET fields == {e.field : e \in UNION Range(sets)}
      of(f)  == {i \in DOMAIN sets : \E e \in sets[i] : e.field = f}
      at(i, f) == CHOOSE e \in sets[i] : e.field = f
      sum == {[field |-> f, count |-> MapThenSumSet(LAMBDA i : at(i, f).count, of(f)),
               total |-> MapThenSumSet(LAMBDA i : at(i, f).total, of(f))] : f \in fields}
      above(x) == {y \in sum : \/ y.count > x.count
                               \/ y.count = x.count /\ Rank[y.field] < Rank[x.field]}
  IN {x \in sum : limit = 0 \/ Cardinality(above(x)) < limit}

\* toSnapshotResources and the JSON of index.ResourceMeta: the key of the
\* resource.  (The labels, and the version only MCP shows, are left out.)
SnapshotResource(x) ==
  LET m == Meta[x.o]
  IN [cluster |-> x.c, group |-> m.group, kind |-> m.kind, namespace |-> m.namespace,
      name |-> m.name]

\* The JSON of ChangeEvent and VolatilityEntry.
ChangeEvent(e) ==
  LET m == Meta[e.o]
  IN [timestamp |-> e.time, sha |-> e.n, changeType |-> e.type, cluster |-> e.c,
      group |-> m.group, kind |-> e.kind, namespace |-> m.namespace, name |-> m.name]
VolatilityEntry(e) ==
  [count |-> e.count, total |-> e.total, cluster |-> e.c, group |-> e.key.group,
   kind |-> e.key.kind, namespace |-> e.key.namespace, name |-> e.key.name]

\* The clusters are visited: sort, paginate, encode.
Results(op, a, all) ==
  CASE op = "ListClusters" -> {Answer("ok", ClusterNames, Len(ClusterNames))}
    [] op = "Healthz"      -> {Answer("ok", <<>>, 0)}
    [] op = "GetStatus"    -> {Answer("ok", all, Len(all))}
    [] op \in {"ListGVKs", "ListNamespaces"} ->
         {Answer("ok", SetToSeq(UNION Range(all)), Cardinality(UNION Range(all)))}
    [] op \in {"GetCurrentSnapshot", "GetHistoricalSnapshot"} -> {Page(a, all)}
    [] op = "GetHistory"    -> {Page(a, Newest(all))}
    [] op = "GetVolatility" -> {Page(a, s) : s \in Rankings(UNION Range(all))}
    [] OTHER                -> {Answer("ok", SetToSeq(Merged(all, a.limit)), 0)}

Encode(op, items) ==
  CASE op \in {"GetCurrentSnapshot", "GetHistoricalSnapshot"} ->
         [i \in DOMAIN items |-> SnapshotResource(items[i])]
    [] op = "GetHistory"    -> [i \in DOMAIN items |-> ChangeEvent(items[i])]
    [] op = "GetVolatility" -> [i \in DOMAIN items |-> VolatilityEntry(items[i])]
    [] OTHER                -> items

Finish ==
  /\ req.at = "visit"
  /\ req.todo = <<>>
  /\ \E r \in Results(req.do, req.args, req.all) :
       req' = [req EXCEPT !.at = "done", !.out = Answer(r.code, Encode(req.do, r.items), r.total)]
  /\ UNCHANGED <<data, prev>>

-----------------------------------------------------------------------------
(* The pull loops *)

\* What was answered before is no longer compared with what is answered now.
Changes ==
  /\ prev' = Idle
  /\ req' = IF req.at = "done" THEN Idle ELSE [req EXCEPT !.steady = FALSE]

\* A pull brings the next commit and its files.
Pull(c) ==
  /\ log[c] # <<>>
  /\ Len(log[c]) < MaxCommits
  /\ \E t \in Trees : log' = [log EXCEPT ![c] = Append(@, [time |-> Last(@).time + 1, tree |-> t])]
  /\ UNCHANGED <<idx, hist>>
  /\ Changes

\* rebuildIndexes: the resource index, then the history indexes.
BuildIndex(c) ==
  /\ idx[c] # Len(log[c])
  /\ idx' = [idx EXCEPT ![c] = Len(log[c])]
  /\ UNCHANGED <<log, hist>>
  /\ Changes

BuildHistory(c) ==
  /\ idx[c] = Len(log[c])
  /\ hist[c] # idx[c]
  /\ hist' = [hist EXCEPT ![c] = Len(log[c])]
  /\ UNCHANGED <<log, idx>>
  /\ Changes

Init ==
  /\ \E failed \in SUBSET Clusters :
       log = [c \in Clusters |-> IF c \in failed THEN <<>> ELSE InitialLog[c]]
  /\ idx = [c \in Clusters |-> Len(log[c])]
  /\ hist = [c \in Clusters |-> Len(log[c])]
  /\ req = Idle
  /\ prev = Idle

Next ==
  \/ Receive
  \/ VisitStatus \/ VisitHealthz \/ VisitGVKs \/ VisitNamespaces
  \/ VisitList \/ VisitQuery \/ EvalNext \/ VisitPast
  \/ VisitHistory \/ VisitVolatility \/ VisitFields
  \/ Lookup \/ ReadFile \/ ReadVersion
  \/ Finish
  \/ \E c \in Clusters : Pull(c) \/ BuildIndex(c) \/ BuildHistory(c)

Spec == Init /\ [][Next]_vars

-----------------------------------------------------------------------------
(* Properties *)

\* Two requests were answered while nothing was pulled or indexed.
BothAnswered == prev.at = "done" /\ req.at = "done" /\ req.steady
Found(r)     == r.out.code = "ok"
IsMcp(r)     == r.ask.path = <<"mcp">>

\* The numbers of a query are in range.
InRange(q) ==
  /\ \A x \in DOMAIN q \cap {"limit", "commits"} : q[x] # Bad /\ q[x] > 0
  /\ "offset" \in DOMAIN q => q.offset # Bad /\ q.offset >= 0

\* "Both interfaces stay consistent" (query/server.go): a query that REST
\* accepts, with numbers in range, has the same answer from the MCP tool;
\* volatility entries that tie may change places.
RestAndMcpAgree ==
  BothAnswered /\ IsMcp(req) /\ ~IsMcp(prev) /\ prev.ask.q = req.ask.q
  /\ prev.do = req.do /\ InRange(req.ask.q)
  /\ (req.do = "GetVolatilityFields" => "limit" \notin DOMAIN req.ask.q)
    => /\ Found(prev) = Found(req)
       /\ IF req.do = "GetVolatility"
          THEN /\ Len(prev.out.items) = Len(req.out.items)
               /\ \A i \in DOMAIN req.out.items :
                    /\ prev.out.items[i].name = req.out.items[i].name
                    /\ prev.out.items[i].count * req.out.items[i].total
                         = req.out.items[i].count * prev.out.items[i].total
          ELSE prev.out.items = req.out.items

\* What a list is made of, in the clusters asked for, and its rows.
Whole(op, a) ==
  UNION {CASE op = "GetCurrentSnapshot"    -> {Entry(c, idx[c], o) :
                                                 o \in {x \in Range(Filtered(c, a)) : Named(a, x)}}
           [] op = "GetHistoricalSnapshot" -> {Entry(c, FindBefore(c, a.datetime), o) :
                                                 o \in Range(AtCommit(c, FindBefore(c, a.datetime), a))}
           [] op = "GetHistory"            -> Range(QueryEvents(c, a)) :
         c \in Range(Resolve(op, a.cluster))}
Row(op, x) == IF op = "GetHistory" THEN ChangeEvent(x) ELSE SnapshotResource(x)

\* Pages asked one after the other, each from where the last one ended, repeat
\* nothing, leave nothing out and keep the order (newest first, over all
\* clusters), as long as nothing is pulled or indexed in between.  Two
\* deletions in one commit may look the same: then both are listed.
PagesFollow ==
  BothAnswered /\ prev.do = req.do
  /\ req.do \in {"GetCurrentSnapshot", "GetHistoricalSnapshot", "GetHistory"}
  /\ req.args.cel = NoCel /\ Found(prev) /\ Found(req)
  /\ [prev.args EXCEPT !.offset = req.args.offset] = req.args
  /\ req.args.offset = prev.args.offset + Len(prev.out.items)
    => LET both  == prev.out.items \o req.out.items
           whole == Whole(req.do, req.args)
       IN /\ \A r \in Range(both) : Cardinality({i \in DOMAIN both : both[i] = r})
                                      <= Cardinality({x \in whole : Row(req.do, x) = r})
          /\ prev.out.total = Cardinality(whole) /\ req.out.total = Cardinality(whole)
          /\ Len(req.out.items) < req.args.limit
               => prev.args.offset + Len(both) >= Cardinality(whole)
          /\ req.do = "GetHistory" =>
               \A i, j \in DOMAIN both : i < j => both[i].timestamp >= both[j].timestamp

\* Opening a row of a list shows that resource: GetResource by the key a
\* snapshot item carries finds it, and answers with its file and no other's.
OpensWhatItLists ==
  BothAnswered /\ prev.do = "GetCurrentSnapshot" /\ Found(prev) /\ req.do = "GetResource"
  /\ req.ask.q \in Range(prev.out.items)
    => \E o \in Objs :
         LET c == req.args.cluster
         IN /\ SnapshotResource(Entry(c, 0, o)) = req.ask.q
            /\ Found(req) => req.out.items = <<OnDisk(c, o)>>
            /\ idx[c] = Len(log[c]) => Found(req)

\* The kinds ListGVKs offers for a cluster and namespace are those a snapshot
\* of the same cluster and namespace has: a kind that is offered is not empty
\* and a resource that is listed has its kind offered.
OfferedKindsAreFound ==
  BothAnswered /\ prev.do = "ListGVKs" /\ Found(prev)
  /\ req.do = "GetCurrentSnapshot" /\ Found(req) /\ req.args.cel = NoCel /\ req.args.name = ""
  /\ prev.args.cluster = req.args.cluster /\ prev.args.namespace = req.args.namespace
    => LET offered == {<<g.group, g.kind>> : g \in Range(prev.out.items)}
       IN /\ <<req.args.group, req.args.kind>> \in offered => req.out.total > 0
          /\ {<<x.group, x.kind>> : x \in Range(req.out.items)} \subseteq offered

\* What the server offers it also finds: the rows of a list (Index.List against
\* Index.Get) and the kinds of the selector (Index.GVKs against Index.List),
\* which compare group, kind and namespace each in its own way.
OffersAreFound == OpensWhatItLists /\ OfferedKindsAreFound

\* A CEL comparison decides by what the backup held: every resource it keeps
\* met it in a version between the index and the working tree, and if both are
\* the same throughout, exactly those that meet it are counted.
CelAnswersAreTrue ==
  req.do = "GetCurrentSnapshot" /\ req.args.cel \notin {NoCel, Bad}
    => LET e == req.args.cel
           reach == Range(Resolve(req.do, req.args.cluster))
           meets(c, n, o) == DocAt(c, n, o) # None /\ Eval(e, DocAt(c, n, o)) = "true"
       IN e.test = "is" =>
            /\ \A x \in Range(req.all) : \E n \in x.v..Len(log[x.c]) : meets(x.c, n, x.o)
            /\ req.at = "done" /\ req.steady /\ Found(req)
               /\ (\A c \in reach : idx[c] = Len(log[c])) =>
                 req.out.total = Cardinality({x \in reach \X Objs :
                     x[2] \in Range(Filtered(x[1], req.args)) /\ Named(req.args, x[2])
                     /\ meets(x[1], idx[x[1]], x[2])})

\* A diff shows the resource asked for as it was in the two commits, and there
\* is one whenever the resource is in both, whatever is pulled or indexed
\* between its three reads.  (Another resource of that namespace and name is
\* excepted if it is in the same group, since a commit is searched without the
\* kind, or of the same kind and no group is given, since Index.Get then takes
\* any.)
DiffIsOfTheCommits ==
  req.do = "GetDiff" /\ req.at = "done" /\ req.args.cluster \in Clusters =>
    \A o \in Objs :
      LET a == req.args
          c == a.cluster
          asked == /\ a.group = Meta[o].group /\ a.kind = Meta[o].kind
                   /\ a.namespace = Meta[o].namespace /\ a.name = Meta[o].name
          alone == \A p \in Objs \ {o} :
                     \/ Meta[p].namespace # a.namespace \/ Meta[p].name # a.name
                     \/ /\ ~EqualFold(a.group, Meta[p].group)
                        /\ a.group = "" => ~EqualFold(a.kind, Meta[p].kind)
          both  == {a.from, a.to} \subseteq 1..Len(log[c])
                   /\ DocAt(c, a.from, o) # None /\ DocAt(c, a.to, o) # None
      IN asked /\ alone =>
           /\ Found(req) => both /\ req.out.items = <<DocAt(c, a.from, o), DocAt(c, a.to, o)>>
           /\ both => Found(req)
=============================================================================
