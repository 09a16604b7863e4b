------------------------------ MODULE History ------------------------------
(***************************************************************************)
(* The history side of the server: the commit and change indexes           *)
(* (internal/gitindex) that rebuildIndexes makes from the git log of a     *)
(* cluster's backup, and the queries over them (internal/query) behind     *)
(* /api/snapshot?at=, /api/history, /api/volatility, /api/volatility/fields *)
(* and /api/diff.                                                          *)
(*                                                                         *)
(* A file stands for its path below subDir; of the path a change event     *)
(* keeps group, namespace and name (IdOf), neither version nor resource.   *)
(* A file's kind is in its content.  Histories are linear, which is how    *)
(* the daemon writes them.  Seconds are the unit of time of git.           *)
(***************************************************************************)
EXTENDS Integers, SequencesExt, Positions

CONSTANTS
  Files,       \* paths of resources below subDir
  IdOf,        \* [Files -> identities]: group, namespace and name of a path
  KindOf,      \* [Files -> kinds]: what resource of the path stands for
  Order,       \* the files in the order of a git tree
  Blobs,       \* contents of a file
  Doc,         \* [Blobs -> [Fields -> values]]: the fields of a content
  Fields,      \* field paths
  Deep,        \* contents whose kind: line is not in the first 512 bytes
  None,        \* no file
  NoKind,      \* the empty string, as the kind of an event and as a filter
  AnyId,       \* no filter on the identity
  Skew,        \* how far a commit's author date may lie behind
  PerSecond,   \* bound on the commits with the same author date
  Retention,   \* index.historyDays
  MaxTime,     \* bound on the clock
  MaxCommits   \* bound on the history

Tree  == [Files -> Blobs \cup {None}]
Ids   == {IdOf[f] : f \in Files}
Kinds == {KindOf[f] : f \in Files}

ASSUME HistoryConstants ==
  /\ IsFiniteSet(Files) /\ Order \in Seq(Files) /\ IsInjective(Order) /\ Range(Order) = Files
  /\ \A b \in Blobs : DOMAIN Doc[b] = Fields
  /\ Deep \subseteq Blobs
  /\ None \notin Blobs \cup Files /\ NoKind \notin Kinds /\ AnyId \notin Ids
  /\ PerSecond \in Nat
  /\ Skew \in 0..MaxTime /\ Retention \in Nat /\ MaxTime \in Nat /\ MaxCommits \in Nat

VARIABLES
  log,        \* Seq([time, tree]): the commits, oldest first
  now,        \* the clock
  commitIdx,  \* CommitIndex.refs: numbers of commits, ascending by time
  changeIdx,  \* ChangeIndex.events, ascending by time
  cutoff      \* --since of the last BuildChangeIndex

vars == <<log, now, commitIdx, changeIdx, cutoff>>

-----------------------------------------------------------------------------
(* The indexes *)

EmptyTree == [f \in Files |-> None]
TreeAt(n) == IF n = 0 THEN EmptyTree ELSE log[n].tree
TimeOf(n) == log[n].time

Event == [n : Nat, time : Nat, id : Ids, kind : Kinds \cup {NoKind},
          type : {"added", "modified", "deleted"}]

\* Mutant: only the newest two commits.
BuildCommitIndexNewest(n) ==
  SortSeq([i \in 1..(IF n < 2 THEN n ELSE 2) |-> IF n < 2 THEN i ELSE n - 2 + i],
          LAMBDA a, b : TimeOf(a) < TimeOf(b) \/ (TimeOf(a) = TimeOf(b) /\ a < b))

\* Mutant: the newest-first output of git log goes into the stable sort as
\* it is.
BuildCommitIndexUnreversed(n) ==
  SortSeq([i \in 1..n |-> i],
          LAMBDA a, b : TimeOf(a) < TimeOf(b) \/ (TimeOf(a) = TimeOf(b) /\ a > b))

\* BuildCommitIndex: the log, reversed, in a stable sort by time.
BuildCommitIndex(n) ==
  CHOOSE s \in [1..n -> 1..n] : \A i, j \in 1..n : i < j =>
    \/ TimeOf(s[i]) < TimeOf(s[j])
    \/ TimeOf(s[i]) = TimeOf(s[j]) /\ s[i] < s[j]

\* Mutant: the resource in the path is taken for the kind.
KindFromPath(f, blob) == f

\* kindFromYAML looks for the kind: line in the first 512 bytes.
KindFromYAML(f, blob) == IF blob \in Deep THEN NoKind ELSE KindOf[f]

\* Mutant: a file that comes back is taken for a modified one.
ChangeOfReadded(n, f) ==
  LET old == TreeAt(n - 1)[f]
      new == TreeAt(n)[f]
  IN [n |-> n, time |-> TimeOf(n), id |-> IdOf[f],
      kind |-> IF new = None THEN NoKind ELSE KindFromYAML(f, new),
      type |-> IF old = None /\ \A m \in 1..(n - 1) : TreeAt(m)[f] = None THEN "added"
               ELSE IF new = None THEN "deleted" ELSE "modified"]

\* One line of git log --name-status, as the event made from it: a deleted
\* file has no kind any more.
ChangeOf(n, f) ==
  LET old == TreeAt(n - 1)[f]
      new == TreeAt(n)[f]
  IN [n |-> n, time |-> TimeOf(n), id |-> IdOf[f],
      kind |-> IF new = None THEN NoKind ELSE KindFromYAML(f, new),
      type |-> IF old = None THEN "added" ELSE IF new = None THEN "deleted" ELSE "modified"]

\* The numbers of commits and the files that changed in them.
ChangesAt(t) == {c \in (1..Len(log)) \X Files :
                   TimeOf(c[1]) = t /\ TreeAt(c[1])[c[2]] # TreeAt(c[1] - 1)[c[2]]}

\* BuildChangeIndex: the events since a time, ascending.  sort.Slice is not
\* stable, so events of the same second come in any order.
ChangeIndexes(since) ==
  LET upTo[t \in 0..MaxTime] ==
        LET at == IF t < since THEN {<<>>} ELSE SetToSeqs(ChangesAt(t))
        IN IF t = 0 THEN at ELSE {p \o q : p \in upTo[t - 1], q \in at}
  IN {[i \in 1..Len(s) |-> ChangeOf(s[i][1], s[i][2])] : s \in upTo[MaxTime]}

-----------------------------------------------------------------------------
(* Queries *)

\* CommitIndex.FindBefore: binary search; 0 when there is no such commit.
FindBefore(t) ==
  LET size == Len(commitIdx)
      search[s \in [lo : 1..(size + 1), hi : 0..size, result : 0..size]] ==
        LET mid == (s.lo + s.hi - 2) \div 2 + 1
        IN IF s.lo > s.hi THEN s.result
           ELSE IF TimeOf(commitIdx[mid]) <= t
                THEN search[[s EXCEPT !.lo = mid + 1, !.result = mid]]
                ELSE search[[s EXCEPT !.hi = mid - 1]]
      found == search[[lo |-> 1, hi |-> size, result |-> 0]]
  IN IF found = 0 THEN 0 ELSE commitIdx[found]

\* GetHistoricalSnapshot: the tree of the commit FindBefore gives.
SnapshotAt(t) == TreeAt(FindBefore(t))

Matches(e, id, kind) == id \in {AnyId, e.id} /\ kind \in {NoKind, e.kind}

Matched(id, kind) ==
  SubSeqAt(changeIdx, {i \in DOMAIN changeIdx : Matches(changeIdx[i], id, kind)})

\* Mutant: the page ends at limit instead of offset + limit.
PageOfLimit(events, limit, offset) ==
  LET total == Len(events)
      end   == IF limit > total THEN total ELSE limit
  IN IF offset >= total THEN <<>>
     ELSE [i \in 1..(IF end > offset THEN end - offset ELSE 0) |-> events[total - offset + 1 - i]]

\* ChangeIndex.Query and GetHistory: a page of the matching events, newest
\* first.
Page(events, limit, offset) ==
  LET total == Len(events)
      end   == IF offset + limit > total THEN total ELSE offset + limit
  IN IF offset >= total THEN <<>>
     ELSE [i \in 1..(end - offset) |-> events[total - offset + 1 - i]]

Query(id, kind, limit, offset) == Page(Matched(id, kind), limit, offset)

Commits(events) == {e.n : e \in Range(events)}

\* Mutant: >= for > in the test of the limit.
ExaminedShort(id, kind, maxCommits) ==
  LET newest == Reverse(Matched(id, kind))
      inside == {k \in 0..Len(newest) :
                   maxCommits <= 0 \/ Cardinality(Commits(SubSeq(newest, 1, k))) < maxCommits}
  IN SubSeq(newest, 1, CHOOSE k \in inside : \A j \in inside : j <= k)

\* ChangeIndex.Volatility: the matching events from the newest one on, up to
\* the event that would bring in one commit too many; that commit is counted
\* in the total, and nothing is without a limit.
Examined(id, kind, maxCommits) ==
  LET newest == Reverse(Matched(id, kind))
      inside == {k \in 0..Len(newest) :
                   maxCommits <= 0 \/ Cardinality(Commits(SubSeq(newest, 1, k))) <= maxCommits}
  IN SubSeq(newest, 1, CHOOSE k \in inside : \A j \in inside : j <= k)

\* The count of the entry of a resource.
VolatilityCount(id, kind, key, maxCommits) ==
  Cardinality({e.n : e \in {x \in Range(Examined(id, kind, maxCommits)) :
                              <<x.id, x.kind>> = key}})

VolatilityTotal(id, kind, maxCommits) ==
  LET all == Cardinality(Commits(Matched(id, kind)))
  IN IF maxCommits <= 0 THEN 0
     ELSE IF all > maxCommits THEN maxCommits + 1 ELSE all

\* FindResourcePathInCommit: the first file of the tree with that group,
\* namespace and name.
FindResourcePathInCommit(n, id) ==
  LET found == {i \in DOMAIN Order : IdOf[Order[i]] = id /\ TreeAt(n)[Order[i]] # None}
  IN IF found = {} THEN None ELSE Order[Min(found)]

\* diffFields on the contents of a file in a commit and in its parent.
DiffFields(before, after) ==
  {x \in Fields : before = None \/ after = None \/ Doc[before][x] # Doc[after][x]}

ChangedFields(e) ==
  LET f == FindResourcePathInCommit(e.n, e.id)
  IN IF f = None THEN {}
     ELSE DiffFields(TreeAt(e.n - 1)[f], IF e.type = "deleted" THEN None ELSE TreeAt(e.n)[f])

\* 1<<30, the limit of a query for every event.
AllEvents == 1073741824

\* GetVolatilityFields hands the newest-first answer of Query to
\* FieldVolatilityFromRepo, which takes maxCommits of them from the end.
FieldEvents(id, kind, maxCommits) ==
  LET events == Query(id, kind, AllEvents, 0)
      limit  == IF maxCommits > 0 /\ maxCommits < Len(events) THEN maxCommits ELSE Len(events)
  IN SubSeq(events, Len(events) - limit + 1, Len(events))

FieldCount(id, kind, x, maxCommits) ==
  LET s == FieldEvents(id, kind, maxCommits)
  IN Cardinality({i \in 1..Len(s) : x \in ChangedFields(s[i])})

\* GetDiff: the path comes from the index (the newest indexed tree) or from
\* the commit `from'.
DiffFile(id, kind, from) ==
  LET listed == {f \in Files : IdOf[f] = id /\ KindOf[f] = kind
                               /\ TreeAt(Len(commitIdx))[f] # None}
  IN IF listed # {} THEN CHOOSE f \in listed : TRUE
     ELSE FindResourcePathInCommit(from, id)

-----------------------------------------------------------------------------
Init ==
  /\ log = <<>>
  /\ now = Skew
  /\ commitIdx = <<>>
  /\ changeIdx = <<>>
  /\ cutoff = 0

Tick ==
  /\ now < MaxTime
  /\ now' = now + 1
  /\ UNCHANGED <<log, commitIdx, changeIdx, cutoff>>

\* The daemon, or another writer, adds a commit.
Commit ==
  /\ Len(log) < MaxCommits
  /\ \E t \in (now - Skew)..now, tree \in Tree :
       /\ tree # TreeAt(Len(log))
       /\ Cardinality({n \in 1..Len(log) : TimeOf(n) = t}) < PerSecond
       /\ log' = Append(log, [time |-> t, tree |-> tree])
  /\ UNCHANGED <<now, commitIdx, changeIdx, cutoff>>

\* The server rebuilds both indexes; git log fails without a commit.
Rebuild ==
  /\ log # <<>>
  /\ commitIdx' = BuildCommitIndex(Len(log))
  /\ cutoff' = IF now > Retention THEN now - Retention ELSE 0
  /\ changeIdx' \in ChangeIndexes(cutoff')
  /\ UNCHANGED <<log, now>>

Next == Tick \/ Commit \/ Rebuild

Spec == Init /\ [][Next]_vars

-----------------------------------------------------------------------------
(* Properties *)

TypeOK ==
  /\ log \in Seq([time : Nat, tree : Tree])
  /\ now \in 0..MaxTime /\ cutoff \in Nat
  /\ commitIdx \in Seq(1..Len(log))
  /\ changeIdx \in Seq(Event)

\* The commits were made at different times and in the order of the log.
Orderly == \A m, n \in 1..Len(log) : m < n => TimeOf(m) < TimeOf(n)

\* FindBefore returns a commit no later than t, and none that is later in
\* time, or pushed later in the same second, qualifies: the comment in
\* BuildCommitIndex on what FindBefore needs.
FindBeforeIsLatest ==
  \A t \in 0..MaxTime :
     LET n == FindBefore(t)
         candidates == {m \in 1..Len(commitIdx) : TimeOf(m) <= t}
     IN /\ candidates = {} <=> n = 0
        /\ n # 0 => /\ n \in candidates
                    /\ \A m \in candidates :
                         TimeOf(m) < TimeOf(n) \/ (TimeOf(m) = TimeOf(n) /\ m <= n)

Present(tree) == {IdOf[f] : f \in {g \in Files : tree[g] # None}}

\* The resources there are after the events at the positions S of the index,
\* when those of ids were there before: the last event of each decides.
Replay(ids, S) ==
  {id \in Ids :
     LET own == {i \in S : changeIdx[i].id = id}
     IN IF own = {} THEN id \in ids ELSE changeIdx[Max(own)].type # "deleted"}

\* The two indexes tell the same story: within the retained period, the
\* changes GetHistory lists between two times lead from the resources of the
\* first historical snapshot to those of the second, adding only what was
\* missing and changing or deleting only what was there.
HistoryExplainsSnapshots ==
  Orderly /\ commitIdx # <<>> =>
  \A t1, t2 \in cutoff..MaxTime : t1 <= t2 =>
     LET between == {i \in DOMAIN changeIdx :
                       t1 < changeIdx[i].time /\ changeIdx[i].time <= t2}
         first   == Present(SnapshotAt(t1))
     IN /\ Replay(first, between) = Present(SnapshotAt(t2))
        /\ \A i \in between :
             changeIdx[i].type = "added"
               <=> changeIdx[i].id \notin Replay(first, {j \in between : j < i})

\* A rebuild does not rewrite the past: the snapshot at a time before the
\* newest indexed commit stays the same through later backups.
PastIsFixed ==
  [][Orderly' => \A t \in 0..MaxTime :
       (\E i \in 1..Len(commitIdx) : t < TimeOf(commitIdx[i])) => SnapshotAt(t)' = SnapshotAt(t)]_vars

\* The pages of a history query, put together, are its whole answer: a page
\* from any offset on, and then everything from the offset of the next page,
\* is everything from that offset.
PagesTile ==
  \A id \in Ids \cup {AnyId} :
     LET events  == Matched(id, NoKind)
         all     == Reverse(events)
         from(n) == SubSeq(all, n + 1, Len(all))
     IN \A limit \in 1..(Len(all) + 1), n \in 0..Len(all) :
          Page(events, limit, n) \o from(n + limit) = from(n)

\* GetHistory is newest first: no event is listed before one of a commit
\* that was pushed later, unless author dates repeat or go back.
NewestFirst ==
  Orderly =>
  LET h == Query(AnyId, NoKind, AllEvents, 0)
  IN \A i, j \in 1..Len(h) : i < j => h[i].n >= h[j].n

\* Paging through GetHistory tells the history backwards, each change once
\* (ChangeIndex.Query and its offset and limit).
PagesTileNewestFirst == PagesTile /\ NewestFirst

\* The count of a resource is the number of commits that changed it among
\* the maxCommits most recent ones with a matching change.
VolatilityCountsCommits ==
  Orderly =>
  \A id \in Ids \cup {AnyId}, kind \in Kinds \cup {NoKind}, max \in 1..MaxCommits :
     LET events == Range(Matched(id, kind))
         recent == {e \in events : Cardinality({x.n : x \in {y \in events : y.n > e.n}}) < max}
     IN \A e \in events :
          VolatilityCount(id, kind, <<e.id, e.kind>>, max)
            = Cardinality({x.n : x \in {y \in recent : y.id = e.id /\ y.kind = e.kind}})

\* The total of a volatility entry is the number of distinct commits
\* examined: the comment on VolatilityEntry.Total.
TotalIsExamined ==
  \A id \in Ids \cup {AnyId}, max \in 0..MaxCommits :
     VolatilityTotal(id, NoKind, max) = Cardinality(Commits(Examined(id, NoKind, max)))

\* Without a limit, the count of a field is the number of retained commits
\* that created the resource or changed the field in it.
FieldCountsCommits ==
  \A f \in Files, x \in Fields :
     FieldCount(IdOf[f], NoKind, x, 0) =
       Cardinality({n \in 1..Len(commitIdx) :
          /\ TimeOf(n) >= cutoff
          /\ TreeAt(n)[f] # None /\ TreeAt(n)[f] # TreeAt(n - 1)[f]
          /\ x \in DiffFields(TreeAt(n - 1)[f], TreeAt(n)[f])})

\* Both volatility tables count commits, of the resource and of its fields
\* (ChangeIndex.Volatility and FieldVolatilityFromRepo).
CountsAreOfCommits == VolatilityCountsCommits /\ FieldCountsCommits

\* GetVolatilityFields analyses the most recent maxCommits changes: the
\* comment on FieldVolatility and the description of the MCP tool.
FieldsAreRecent ==
  \A id \in Ids, max \in 1..MaxCommits :
     \A e \in Range(FieldEvents(id, NoKind, max)), x \in Range(Matched(id, NoKind)) :
        x.n > e.n => x \in Range(FieldEvents(id, NoKind, max))

\* Every added or modified resource has its kind in the history: the comment
\* on kindFromYAML.
KindIsKnown ==
  \A i \in 1..Len(changeIdx) : changeIdx[i].type # "deleted" => changeIdx[i].kind # NoKind

\* GetDiff compares contents of the resource asked for.
DiffIsOfResource ==
  \A f \in Files, from \in 1..Len(commitIdx) :
     LET g == DiffFile(IdOf[f], KindOf[f], from)
     IN g # None => KindOf[g] = KindOf[f]
=============================================================================
