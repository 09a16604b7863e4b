---------------------------- MODULE ServerProofs ----------------------------
(***************************************************************************)
(* The server shows what was published, for every number of clusters,      *)
(* objects, directories and faults: its variables keep their types, a      *)
(* ready cluster is consistent, the history it lists can be read, a file   *)
(* it returns was published, and its lists implement Mirror.               *)
(***************************************************************************)
EXTENDS Server, FiniteSetTheorems, SequenceTheorems, TLAPS

-----------------------------------------------------------------------------
(* The inductive invariant *)

Listing(c, n) == {o \in Objs : TreeAt(c, n)[o] # None}

\* A complete file is one the object had in the backup number `from' or later.
Published(c, from, o, blob) ==
  blob \notin {None, Torn} =>
    \E n \in from..Len(remote[c]) : n # 0 /\ TreeAt(c, n)[o] = blob

AllPublished(c, from, d) == \A o \in Objs : Published(c, from, o, disk[d].files[o])

\* No directory is known to two clusters.
InUse(d, c) == d \in {gc[c], idx[c].dir} \/ (req.c = c /\ d = req.meta.dir)
Separate == \A c, e \in Clusters, d \in Dirs : InUse(d, c) /\ InUse(d, e) => c = e

\* Every clone is complete.
Complete == \A d \in Dirs : disk[d].first = 1

\* A clone that is there is the one the goroutine works on, has what the
\* indexes cover, and between pulls its files are those of its last commit.
Whole(c) ==
  gc[c] # NoDir /\ disk[gc[c]].there =>
    /\ gcl[c] = gc[c] /\ wd[c] = gc[c]
    /\ disk[gc[c]].last <= Len(remote[c])
    /\ hist[c] <= disk[gc[c]].last
    /\ idx[c].ver <= disk[gc[c]].last
    /\ pc[c] \notin {"checkout", "remove"} =>
         disk[gc[c]].files = TreeAt(c, disk[gc[c]].last)

Locals(c) == gcl[c] \in {gc[c], NoDir} /\ wd[c] \in {gc[c], NoDir}

\* The resource index is that of the clone.
Indexed(c) ==
  /\ gc[c] # NoDir /\ disk[gc[c]].there
  /\ idx[c].ver = disk[gc[c]].last
  /\ idx[c].dir = gc[c]

\* What the goroutine knows at each of its steps.
Loops(c) ==
  /\ pc[c] \in {"checkout", "remove"} => gc[c] # NoDir /\ disk[gc[c]].there
  /\ pc[c] = "reclone" /\ gc[c] # NoDir => ~disk[gc[c]].there
  /\ pc[c] \in {"history", "record"} => Indexed(c)
  /\ pc[c] = "record" => hist[c] = idx[c].ver
  /\ pc[c] = "wait" /\ Ready(c) =>
       /\ Indexed(c) /\ hist[c] = idx[c].ver
       /\ count[c] = Cardinality(idx[c].objs)

\* The indexes cover published backups; the files an entry may lead to are no
\* older than the entry.
Indexes(c) ==
  /\ idx[c].ver <= Len(remote[c]) /\ hist[c] <= Len(remote[c])
  /\ idx[c].objs = Listing(c, idx[c].ver)
  /\ idx[c].objs # {} => idx[c].dir # NoDir
  /\ idx[c].dir # NoDir => AllPublished(c, idx[c].ver, idx[c].dir)

\* The same for the entry a request has in its hands.
Asked ==
  /\ req.at = "path" => req.meta.dir # NoDir
  /\ req.at = "to" => req.op = "diff"
  /\ req.at # "done" => req.res = "none"
  /\ req.meta.dir # NoDir => AllPublished(req.c, req.meta.ver, req.meta.dir)
  /\ req.meta.dir # NoDir /\ req.meta.dir = gc[req.c] /\ disk[req.meta.dir].there =>
       req.meta.ver <= disk[req.meta.dir].last
  /\ AnswersArePublished

ClusterInv(c) == Whole(c) /\ Locals(c) /\ Loops(c) /\ Indexes(c)

ServerInv ==
  /\ TypeOK /\ Separate /\ Complete /\ Asked
  /\ \A c \in Clusters : ClusterInv(c)

-----------------------------------------------------------------------------
(* Types of the model's operators *)

LEMMA ConstantTypes ==
  /\ EmptyTree \in Tree
  /\ NoClone \in Clone
  /\ NoIndex \in Index
  /\ Idle \in Request
  <1>1. EmptyTree \in Tree
    BY DEF EmptyTree, Tree, Blob
  <1>2. NoClone \in Clone
    BY DEF NoClone, Clone, EmptyTree, Blob
  <1>3. NoIndex \in Index
    BY DEF NoIndex, Index
  <1>4. (CHOOSE c \in Clusters : TRUE) \in Clusters /\ (CHOOSE o \in Objs : TRUE) \in Objs
    BY ServerConstants
  <1>5. Idle \in Request
    BY <1>3, <1>4 DEF Idle, Request, Blob
  <1> QED
    BY <1>1, <1>2, <1>3, <1>5

LEMMA TreeAtType ==
  ASSUME TypeOK, NEW c \in Clusters, NEW n \in Nat, n <= Len(remote[c])
  PROVE  TreeAt(c, n) \in Tree
  <1>1. remote[c] \in Seq(Tree)
    BY DEF TypeOK
  <1>2. CASE n = 0
    BY <1>2, ConstantTypes DEF TreeAt
  <1>3. CASE n # 0
    BY <1>1, <1>3 DEF TreeAt
  <1> QED
    BY <1>2, <1>3

LEMMA ClonedType ==
  ASSUME TypeOK, NEW c \in Clusters
  PROVE  /\ Cloned(c) \in Clone
         /\ Cloned(c).there /\ Cloned(c).first = 1
         /\ Cloned(c).last = Len(remote[c])
         /\ Cloned(c).files = TreeAt(c, Len(remote[c]))
  <1>1. remote[c] \in Seq(Tree)
    BY DEF TypeOK
  <1>2. Len(remote[c]) \in Nat
    BY <1>1
  <1>3. TreeAt(c, Len(remote[c])) \in Tree
    BY <1>2, TreeAtType
  <1>4. TreeAt(c, Len(remote[c])) \in [Objs -> Blob \cup {Torn}]
    BY <1>3 DEF Tree
  <1> QED
    BY <1>2, <1>4 DEF Cloned, Clone

\* The number of resources recordPull reports is a number.
LEMMA CountType ==
  ASSUME NEW S \in SUBSET Objs
  PROVE  Cardinality(S) \in Nat
  BY ServerConstants, FS_Subset, FS_CardinalityType

LEMMA ListingType ==
  ASSUME NEW c, NEW n
  PROVE  Listing(c, n) \in SUBSET Objs
  BY DEF Listing

-----------------------------------------------------------------------------
(* What publishing leaves alone *)

\* The repository of a cluster is as it was, or longer.
Grown(c) ==
  /\ Len(remote[c]) <= Len(remote'[c])
  /\ \A n \in 1..Len(remote[c]) : remote'[c][n] = remote[c][n]

LEMMA GrownSame ==
  ASSUME TypeOK, NEW c \in Clusters, remote' = remote
  PROVE  Grown(c)
  <1>1. Len(remote[c]) \in Nat
    BY DEF TypeOK
  <1> QED
    BY <1>1 DEF Grown

LEMMA TreeAtKept ==
  ASSUME NEW c, Grown(c), Len(remote[c]) \in Nat, NEW n \in 0..Len(remote[c])
  PROVE  TreeAt(c, n)' = TreeAt(c, n)
  BY DEF TreeAt, Grown

LEMMA PublishedKept ==
  ASSUME NEW c, Grown(c), Len(remote[c]) \in Nat, Len(remote'[c]) \in Nat,
         NEW from \in Nat, NEW o, NEW blob, Published(c, from, o, blob)
  PROVE  Published(c, from, o, blob)'
  <1> SUFFICES ASSUME blob \notin {None, Torn}
      PROVE  \E n \in from..Len(remote'[c]) : n # 0 /\ TreeAt(c, n)'[o] = blob
    BY DEF Published
  <1>1. PICK n \in from..Len(remote[c]) : n # 0 /\ TreeAt(c, n)[o] = blob
    BY DEF Published
  <1>2. n \in from..Len(remote'[c]) /\ n \in 0..Len(remote[c])
    BY <1>1 DEF Grown
  <1>3. TreeAt(c, n)' = TreeAt(c, n)
    BY <1>2, TreeAtKept
  <1> QED
    BY <1>1, <1>2, <1>3

LEMMA AllPublishedKept ==
  ASSUME NEW c, Grown(c), Len(remote[c]) \in Nat, Len(remote'[c]) \in Nat,
         NEW from \in Nat, NEW d, disk'[d] = disk[d], AllPublished(c, from, d)
  PROVE  AllPublished(c, from, d)'
  <1> SUFFICES ASSUME NEW o \in Objs
      PROVE  Published(c, from, o, disk[d].files[o])'
    BY DEF AllPublished
  <1>1. PICK blob : blob = disk[d].files[o]
    OBVIOUS
  <1>2. Published(c, from, o, blob)
    BY <1>1 DEF AllPublished
  <1>3. Published(c, from, o, blob)'
    BY <1>2, PublishedKept
  <1> QED
    BY <1>1, <1>3 DEF Published

\* A cluster none of whose state a step touches keeps its invariant, also when
\* a backup is published.
LEMMA ClusterFrame ==
  ASSUME TypeOK, TypeOK', NEW e \in Clusters, ClusterInv(e), Grown(e),
         gc'[e] = gc[e], gcl'[e] = gcl[e], wd'[e] = wd[e], pc'[e] = pc[e],
         idx'[e] = idx[e], hist'[e] = hist[e], pulled'[e] = pulled[e],
         count'[e] = count[e],
         \A d \in Dirs : d \in {gc[e], idx[e].dir} => disk'[d] = disk[d]
  PROVE  ClusterInv(e)'
  <1>1. /\ Len(remote[e]) \in Nat /\ Len(remote'[e]) \in Nat
        /\ Len(remote[e]) <= Len(remote'[e])
        /\ gc[e] \in Dirs \cup {NoDir} /\ idx[e] \in Index
    BY DEF TypeOK, Grown
  <1>2. /\ idx[e].ver \in Nat /\ idx[e].dir \in Dirs \cup {NoDir}
        /\ idx[e].objs \in SUBSET Objs
    BY <1>1 DEF Index
  <1>3. gc[e] # NoDir => disk'[gc[e]] = disk[gc[e]] /\ disk[gc[e]].last \in Nat
    BY <1>1 DEF TypeOK, Clone
  <1>4. Whole(e)'
    <2>1. SUFFICES ASSUME gc[e] # NoDir, disk[gc[e]].there
          PROVE  Whole(e)'
      BY <1>3 DEF Whole
    <2>2. /\ gcl[e] = gc[e] /\ wd[e] = gc[e]
          /\ disk[gc[e]].last <= Len(remote[e])
          /\ hist[e] <= disk[gc[e]].last /\ idx[e].ver <= disk[gc[e]].last
          /\ pc[e] \notin {"checkout", "remove"} =>
               disk[gc[e]].files = TreeAt(e, disk[gc[e]].last)
      BY <2>1 DEF ClusterInv, Whole
    <2>3. TreeAt(e, disk[gc[e]].last)' = TreeAt(e, disk[gc[e]].last)
      <3>1. TreeAt(e, disk[gc[e]].last)' = IF disk[gc[e]].last = 0 THEN EmptyTree
                                           ELSE remote'[e][disk[gc[e]].last]
        BY <1>3, <2>1 DEF TreeAt
      <3> QED
        BY <1>1, <1>3, <2>1, <2>2, <3>1 DEF TreeAt, Grown
    <2>4. disk[gc[e]].last <= Len(remote'[e])
      BY <1>1, <1>3, <2>1, <2>2
    <2> QED
      BY <1>3, <2>1, <2>2, <2>3, <2>4 DEF Whole
  <1>5. Locals(e)'
    BY DEF ClusterInv, Locals
  <1>6. Loops(e)'
    <2>1. Indexed(e) => Indexed(e)'
      BY <1>3 DEF Indexed
    <2> QED
      BY <1>3, <2>1 DEF ClusterInv, Loops, Ready
  <1>7. Indexes(e)'
    <2>1. idx[e].ver <= Len(remote'[e]) /\ hist[e] <= Len(remote'[e])
      BY <1>1, <1>2 DEF ClusterInv, Indexes, TypeOK
    <2>2. Listing(e, idx[e].ver)' = Listing(e, idx[e].ver)
      <3>1. idx[e].ver \in 0..Len(remote[e])
        BY <1>1, <1>2 DEF ClusterInv, Indexes
      <3>2. TreeAt(e, idx[e].ver)' = TreeAt(e, idx[e].ver)
        BY <1>1, <3>1 DEF TreeAt, Grown
      <3> QED
        BY <3>2 DEF Listing
    <2>3. idx[e].dir # NoDir => AllPublished(e, idx[e].ver, idx[e].dir)'
      <3>1. PICK from, d : from = idx[e].ver /\ d = idx[e].dir
        OBVIOUS
      <3>2. idx[e].dir # NoDir => AllPublished(e, from, d)'
        BY <1>1, <1>2, <3>1, AllPublishedKept DEF ClusterInv, Indexes
      <3> QED
        BY <3>1, <3>2 DEF AllPublished, Published
    <2> QED
      BY <2>1, <2>2, <2>3 DEF ClusterInv, Indexes
  <1> QED
    BY <1>4, <1>5, <1>6, <1>7 DEF ClusterInv

\* The same for the request in progress.
LEMMA AnswersKept ==
  ASSUME TypeOK, TypeOK', Asked, Grown(req.c), req' = req
  PROVE  AnswersArePublished'
  <1> SUFFICES ASSUME req.op = "get", req.res = "ok", req.before # Torn
      PROVE  \E n \in req.meta.ver .. Len(remote'[req.c]) :
               n # 0 /\ TreeAt(req.c, n)'[req.o] = req.before
    BY DEF AnswersArePublished
  <1>1. PICK n \in req.meta.ver .. Len(remote[req.c]) :
          n # 0 /\ TreeAt(req.c, n)[req.o] = req.before
    BY DEF Asked, AnswersArePublished
  <1>2. /\ req.meta.ver \in Nat
        /\ Len(remote[req.c]) \in Nat /\ Len(remote'[req.c]) \in Nat
    BY DEF TypeOK, Request, Index
  <1>3. n \in req.meta.ver .. Len(remote'[req.c]) /\ n \in 1..Len(remote[req.c])
    BY <1>1, <1>2 DEF Grown
  <1>4. TreeAt(req.c, n)' = TreeAt(req.c, n)
    BY <1>3 DEF TreeAt, Grown
  <1> QED
    BY <1>1, <1>3, <1>4

LEMMA AskedFrame ==
  ASSUME TypeOK, TypeOK', Asked, Grown(req.c), req' = req,
         req.meta.dir # NoDir => disk'[req.meta.dir] = disk[req.meta.dir],
         gc'[req.c] = gc[req.c] \/ gc'[req.c] # req.meta.dir
  PROVE  Asked'
  <1>1. /\ req.c \in Clusters /\ req.meta.ver \in Nat
        /\ Len(remote[req.c]) \in Nat /\ Len(remote'[req.c]) \in Nat
    BY DEF TypeOK, Request, Index
  <1>2. req.meta.dir # NoDir => AllPublished(req.c, req.meta.ver, req.meta.dir)'
    <2>1. PICK c, from, d : c = req.c /\ from = req.meta.ver /\ d = req.meta.dir
      OBVIOUS
    <2>2. req.meta.dir # NoDir => AllPublished(c, from, d)'
      BY <1>1, <2>1, AllPublishedKept DEF Asked
    <2> QED
      BY <2>1, <2>2 DEF AllPublished, Published, TreeAt
  <1>3. AnswersArePublished'
    BY AnswersKept
  <1> QED
    BY <1>2, <1>3 DEF Asked

-----------------------------------------------------------------------------
(* The start, and every restart *)

\* The process knows nothing.
Blank ==
  /\ disk = [d \in Dirs |-> NoClone]
  /\ pc = [c \in Clusters |-> "setup"]
  /\ gcl = [c \in Clusters |-> NoDir]
  /\ wd = [c \in Clusters |-> NoDir]
  /\ gc = [c \in Clusters |-> NoDir]
  /\ idx = [c \in Clusters |-> NoIndex]
  /\ hist = [c \in Clusters |-> 0]
  /\ pulled = [c \in Clusters |-> "never"]
  /\ count = [c \in Clusters |-> 0]
  /\ serving = FALSE /\ up = FALSE
  /\ req = Idle

LEMMA BlankInv ==
  /\ Blank
  /\ remote \in [Clusters -> Seq(Tree)] /\ panicked \in BOOLEAN /\ faults \in Nat
  => ServerInv
  <1> SUFFICES ASSUME Blank, remote \in [Clusters -> Seq(Tree)], panicked \in BOOLEAN,
                      faults \in Nat
      PROVE  ServerInv
    OBVIOUS
  <1>1. TypeOK
    BY ConstantTypes DEF TypeOK, Blank
  <1>2. /\ req.op = "none" /\ req.at = "done" /\ req.meta = NoIndex
        /\ NoIndex.ver = 0 /\ NoIndex.dir = NoDir /\ NoIndex.objs = {}
    BY DEF Blank, Idle, NoIndex
  <1>3. Separate
    BY <1>2, ServerConstants DEF Separate, InUse, Blank
  <1>4. Complete
    BY DEF Complete, Blank, NoClone
  <1>5. Asked
    BY <1>2 DEF Asked, AnswersArePublished
  <1>6. ASSUME NEW c \in Clusters PROVE ClusterInv(c)
    <2>1. /\ gc[c] = NoDir /\ gcl[c] = NoDir /\ wd[c] = NoDir /\ idx[c] = NoIndex
          /\ hist[c] = 0 /\ pc[c] = "setup"
      BY DEF Blank
    <2>2. Whole(c) /\ Locals(c) /\ Loops(c)
      BY <2>1 DEF Whole, Locals, Loops
    <2>3. Listing(c, 0) = {}
      BY DEF Listing, TreeAt, EmptyTree
    <2>4. Len(remote[c]) \in Nat
      OBVIOUS
    <2>5. idx[c].ver = 0 /\ idx[c].dir = NoDir /\ idx[c].objs = {}
      BY <1>2, <2>1
    <2> QED
      BY <2>1, <2>2, <2>3, <2>4, <2>5 DEF ClusterInv, Indexes
  <1> QED
    BY <1>1, <1>3, <1>4, <1>5, <1>6 DEF ServerInv

LEMMA InitInv == Init => ServerInv
  <1> SUFFICES ASSUME Init PROVE ServerInv
    OBVIOUS
  <1>1. Blank
    BY DEF Init, Blank
  <1>2. panicked = FALSE /\ faults = 0
    BY DEF Init
  <1>3. remote \in [Clusters -> Seq(Tree)]
    BY DEF Init
  <1> QED
    BY <1>1, <1>2, <1>3, BlankInv

LEMMA DownStep ==
  ASSUME TypeOK, Down, panicked' \in BOOLEAN, UNCHANGED <<remote, faults>>
  PROVE  ServerInv'
  <1>1. Blank'
    BY DEF Down, Blank
  <1>2. remote' \in [Clusters -> Seq(Tree)] /\ faults' \in Nat
    BY DEF TypeOK
  <1>3. (/\ Blank
         /\ remote \in [Clusters -> Seq(Tree)] /\ panicked \in BOOLEAN /\ faults \in Nat
         => ServerInv)'
    BY BlankInv, PTL
  <1> QED
    BY <1>1, <1>2, <1>3

-----------------------------------------------------------------------------
(* Steps that leave the goroutines alone *)

LEMMA FrameStep ==
  ASSUME ServerInv, TypeOK', Separate', Asked', \A c \in Clusters : Grown(c),
         UNCHANGED <<disk, pc, gcl, wd, shared>>
  PROVE  ServerInv'
  <1>1. UNCHANGED <<disk, pc, gcl, wd, gc, idx, hist, pulled, count>>
    BY DEF shared
  <1>2. Complete'
    BY <1>1 DEF ServerInv, Complete
  <1>3. ASSUME NEW e \in Clusters PROVE ClusterInv(e)'
    BY <1>1, ClusterFrame DEF ServerInv
  <1> QED
    BY <1>2, <1>3 DEF ServerInv

LEMMA ProcessStep ==
  ASSUME ServerInv, Start \/ Serve \/ UNCHANGED vars
  PROVE  ServerInv'
  <1>1. UNCHANGED <<remote, disk, pc, gcl, wd, gc, idx, hist, pulled, count, req, faults>>
    BY DEF Start, Serve, shared, vars
  <1>2. serving' \in BOOLEAN /\ up' \in BOOLEAN /\ panicked' \in BOOLEAN
    BY DEF Start, Serve, vars, ServerInv, TypeOK
  <1>3. TypeOK'
    BY <1>1, <1>2 DEF ServerInv, TypeOK
  <1>4. Separate'
    BY <1>1 DEF ServerInv, Separate, InUse
  <1>5. \A c \in Clusters : Grown(c)
    BY <1>1, GrownSame DEF ServerInv
  <1>6. Asked'
    BY <1>1, <1>3, <1>5, AskedFrame DEF ServerInv, TypeOK, Request
  <1> QED
    BY <1>1, <1>3, <1>4, <1>5, <1>6, FrameStep DEF shared

LEMMA AppendGrows ==
  ASSUME NEW S, NEW s \in Seq(S), NEW x \in S
  PROVE  /\ Append(s, x) \in Seq(S)
         /\ Len(Append(s, x)) = Len(s) + 1
         /\ \A n \in 1..Len(s) : Append(s, x)[n] = s[n]
         /\ Append(s, x)[Len(s) + 1] = x
  OBVIOUS

LEMMA PublishStep ==
  ASSUME ServerInv, NEW c \in Clusters, Publish(c)
  PROVE  ServerInv'
  <1>1. UNCHANGED <<disk, pc, gcl, wd, gc, idx, hist, pulled, count, req, faults,
                    serving, up, panicked>>
    BY DEF Publish, shared, process
  <1>2. PICK t \in Tree : remote' = [remote EXCEPT ![c] = Append(@, t)]
    BY DEF Publish
  <1>3. remote \in [Clusters -> Seq(Tree)]
    BY DEF ServerInv, TypeOK
  <1>4. /\ Append(remote[c], t) \in Seq(Tree)
        /\ Len(Append(remote[c], t)) = Len(remote[c]) + 1
        /\ \A n \in 1..Len(remote[c]) : Append(remote[c], t)[n] = remote[c][n]
    BY <1>3, AppendGrows
  <1>5. TypeOK'
    <2>1. remote' \in [Clusters -> Seq(Tree)]
      BY <1>2, <1>3, <1>4
    <2> QED
      BY <1>1, <2>1 DEF ServerInv, TypeOK
  <1>6. ASSUME NEW e \in Clusters PROVE Grown(e)
    <2>1. Len(remote[e]) \in Nat
      BY <1>3
    <2>2. CASE e = c
      <3>1. remote'[e] = Append(remote[c], t)
        BY <1>2, <1>3, <2>2
      <3> QED
        BY <1>4, <2>1, <2>2, <3>1 DEF Grown
    <2>3. CASE e # c
      <3>1. remote'[e] = remote[e]
        BY <1>2, <1>3, <2>3
      <3> QED
        BY <2>1, <3>1 DEF Grown
    <2> QED
      BY <2>2, <2>3
  <1>7. Separate'
    BY <1>1 DEF ServerInv, Separate, InUse
  <1>8. Asked'
    BY <1>1, <1>5, <1>6, AskedFrame DEF ServerInv, TypeOK, Request
  <1> QED
    BY <1>1, <1>5, <1>6, <1>7, <1>8, FrameStep DEF shared

-----------------------------------------------------------------------------
(* Requests *)

\* A handler changes its own request only, and learns of no directory that is
\* not its cluster's.
LEMMA RequestStep ==
  ASSUME ServerInv, req' \in Request, Asked',
         UNCHANGED <<remote, disk, pc, gcl, wd, shared, process, faults>>,
         \/ req'.meta.dir = NoDir
         \/ req'.c = req.c /\ req'.meta.dir \in {req.meta.dir, idx[req.c].dir}
  PROVE  ServerInv'
  <1>1. UNCHANGED <<remote, disk, pc, gcl, wd, gc, idx, hist, pulled, count,
                    serving, up, panicked, faults>>
    BY DEF shared, process
  <1>2. TypeOK'
    BY <1>1 DEF ServerInv, TypeOK
  <1>3. Separate'
    <2> SUFFICES ASSUME NEW c \in Clusters, NEW e \in Clusters, NEW d \in Dirs,
                        InUse(d, c)', InUse(d, e)'
        PROVE  c = e
      BY DEF Separate
    <2>1. ASSUME NEW x \in Clusters, InUse(d, x)' PROVE InUse(d, x)
      BY <1>1, <2>1, ServerConstants DEF InUse
    <2> QED
      BY <2>1 DEF ServerInv, Separate
  <1>4. \A c \in Clusters : Grown(c)
    BY <1>1, GrownSame DEF ServerInv
  <1> QED
    BY <1>1, <1>2, <1>3, <1>4, FrameStep DEF shared

\* A step that keeps the request's cluster and entry keeps what is known of
\* the entry.
LEMMA AskedStep ==
  ASSUME ServerInv, UNCHANGED <<remote, disk, gc>>, req'.c = req.c, req'.meta = req.meta,
         req'.at = "path" => req.at = "path",
         req'.at = "to" => req'.op = "diff",
         req'.at # "done" => req'.res = "none",
         AnswersArePublished'
  PROVE  Asked'
  <1>1. AllPublished(req.c, req.meta.ver, req.meta.dir)
          => AllPublished(req.c, req.meta.ver, req.meta.dir)'
    BY DEF AllPublished, Published, TreeAt
  <1> QED
    BY <1>1 DEF ServerInv, Asked

LEMMA AskStep ==
  ASSUME ServerInv, Ask
  PROVE  ServerInv'
  <1>1. UNCHANGED <<remote, disk, pc, gcl, wd, shared, process, faults>>
    BY DEF Ask
  <1>2. PICK c \in Clusters, o \in Objs :
       \/ req' = [Idle EXCEPT !.op = "get", !.at = "start", !.c = c, !.o = o]
       \/ \E from, to \in 1..hist[c] :
            req' = [Idle EXCEPT !.op = "diff", !.at = "start", !.c = c, !.o = o,
                                !.from = from, !.to = to]
       \/ \E n \in 1..hist[c] :
            req' = [Idle EXCEPT !.op = "past", !.at = "from", !.c = c, !.o = o,
                                !.from = n]
    BY DEF Ask
  <1>3. hist[c] \in Nat
    BY DEF ServerInv, TypeOK
  <1>4. Idle \in Request /\ Idle.meta = NoIndex /\ Idle.res = "none"
    BY ConstantTypes DEF Idle
  <1>5. /\ req' \in Request /\ req'.meta = NoIndex /\ req'.res = "none"
        /\ req'.at \in {"start", "from"}
    <2>1. CASE req' = [Idle EXCEPT !.op = "get", !.at = "start", !.c = c, !.o = o]
      BY <1>4, <2>1 DEF Request
    <2>2. ASSUME NEW from \in 1..hist[c], NEW to \in 1..hist[c],
                 req' = [Idle EXCEPT !.op = "diff", !.at = "start", !.c = c, !.o = o,
                                     !.from = from, !.to = to]
          PROVE  /\ req' \in Request /\ req'.meta = NoIndex /\ req'.res = "none"
                 /\ req'.at \in {"start", "from"}
      <3>1. from \in Nat /\ to \in Nat
        BY <1>3
      <3> QED
        BY <1>4, <2>2, <3>1 DEF Request
    <2>3. ASSUME NEW n \in 1..hist[c],
                 req' = [Idle EXCEPT !.op = "past", !.at = "from", !.c = c, !.o = o,
                                     !.from = n]
          PROVE  /\ req' \in Request /\ req'.meta = NoIndex /\ req'.res = "none"
                 /\ req'.at \in {"start", "from"}
      <3>1. n \in Nat
        BY <1>3
      <3> QED
        BY <1>4, <2>3, <3>1 DEF Request
    <2> QED
      BY <1>2, <2>1, <2>2, <2>3
  <1>6. req'.meta.dir = NoDir
    BY <1>5 DEF NoIndex
  <1>7. Asked'
    BY <1>5, <1>6 DEF Asked, AnswersArePublished
  <1> QED
    BY <1>1, <1>5, <1>6, <1>7, RequestStep

LEMMA LookupStep ==
  ASSUME ServerInv, Lookup
  PROVE  ServerInv'
  <1>1. UNCHANGED <<remote, disk, pc, gcl, wd, shared, process, faults>>
    BY DEF Lookup
  <1>2. UNCHANGED <<remote, disk, gc>>
    BY <1>1 DEF shared
  <1>3. /\ req \in Request /\ req.c \in Clusters /\ idx[req.c] \in Index
        /\ req.res = "none" /\ req.at = "start"
    BY DEF ServerInv, TypeOK, Request, Lookup, Asked
  <1>4. CASE /\ req.o \in idx[req.c].objs
             /\ req' = [req EXCEPT !.at = "path", !.meta = idx[req.c]]
    <2>1. /\ req' \in Request /\ req'.c = req.c /\ req'.meta = idx[req.c]
          /\ req'.res = "none" /\ req'.at = "path"
      BY <1>3, <1>4 DEF Request
    <2>2. Whole(req.c) /\ Indexes(req.c)
      BY <1>3 DEF ServerInv, ClusterInv
    <2>3. idx[req.c].dir # NoDir
      BY <1>4, <2>2 DEF Indexes
    <2>4. AllPublished(req.c, req.meta.ver, req.meta.dir)'
      <3>1. AllPublished(req.c, idx[req.c].ver, idx[req.c].dir)
        BY <2>2, <2>3 DEF Indexes
      <3> QED
        BY <1>2, <2>1, <3>1 DEF AllPublished, Published, TreeAt
    <2>5. idx[req.c].dir = gc[req.c] /\ disk[gc[req.c]].there
            => idx[req.c].ver <= disk[gc[req.c]].last
      BY <2>2, <2>3 DEF Whole
    <2>6. Asked'
      BY <1>2, <2>1, <2>3, <2>4, <2>5 DEF Asked, AnswersArePublished
    <2> QED
      BY <1>1, <2>1, <2>6, RequestStep
  <1>5. CASE Answer("notfound") \/ (req' = [req EXCEPT !.at = "from"])
    <2>1. /\ req' \in Request /\ req'.c = req.c /\ req'.meta = req.meta
          /\ req'.at \in {"done", "from"} /\ req'.res \in {"none", "notfound"}
          /\ req'.at # "done" => req'.res = "none"
      BY <1>3, <1>5 DEF Request, Answer
    <2>2. Asked'
      BY <1>2, <2>1, AskedStep DEF AnswersArePublished
    <2> QED
      BY <1>1, <2>1, <2>2, RequestStep
  <1> QED
    BY <1>4, <1>5 DEF Lookup

LEMMA ReadFileStep ==
  ASSUME ServerInv, ReadFile
  PROVE  ServerInv'
  <1> DEFINE blob == disk[req.meta.dir].files[req.o]
  <1>1. /\ UNCHANGED <<remote, disk, pc, gcl, wd, shared, process, faults>>
        /\ req.at = "path" /\ req.op = "get"
        /\ req' = [req EXCEPT !.at = "done", !.before = blob,
                              !.res = IF blob = None THEN "error" ELSE "ok"]
    BY DEF ReadFile
  <1>2. UNCHANGED <<remote, disk, gc>>
    BY <1>1 DEF shared
  <1>3. /\ req \in Request /\ req.c \in Clusters /\ req.o \in Objs
        /\ req.meta.dir \in Dirs
    BY <1>1 DEF ServerInv, TypeOK, Request, Index, Asked
  <1>4. blob \in Blob \cup {Torn}
    BY <1>3 DEF ServerInv, TypeOK, Clone
  <1>5. Published(req.c, req.meta.ver, req.o, blob)
    BY <1>1, <1>3 DEF ServerInv, Asked, AllPublished
  <1> HIDE DEF blob
  <1>6. /\ req' \in Request /\ req'.c = req.c /\ req'.meta = req.meta /\ req'.o = req.o
        /\ req'.at = "done" /\ req'.op = "get" /\ req'.before = blob
        /\ req'.res = IF blob = None THEN "error" ELSE "ok"
    BY <1>1, <1>3, <1>4 DEF Request
  <1>7. AnswersArePublished'
    BY <1>2, <1>5, <1>6 DEF AnswersArePublished, Published, TreeAt
  <1>8. Asked'
    BY <1>2, <1>6, <1>7, AskedStep
  <1> QED
    BY <1>1, <1>6, <1>8, RequestStep

LEMMA RelPathStep ==
  ASSUME ServerInv, RelPath
  PROVE  ServerInv'
  <1>1. /\ UNCHANGED <<remote, disk, pc, gcl, wd, shared, process, faults>>
        /\ req.at = "path" /\ req.op = "diff"
        /\ Answer("notfound") \/ (req' = [req EXCEPT !.at = "from"])
    BY DEF RelPath
  <1>2. UNCHANGED <<remote, disk, gc>>
    BY <1>1 DEF shared
  <1>3. req \in Request /\ req.res = "none"
    BY <1>1 DEF ServerInv, TypeOK, Asked
  <1>4. /\ req' \in Request /\ req'.c = req.c /\ req'.meta = req.meta /\ req'.op = "diff"
        /\ req'.at \in {"done", "from"}
        /\ req'.at # "done" => req'.res = "none"
    BY <1>1, <1>3 DEF Request, Answer
  <1>5. Asked'
    BY <1>2, <1>4, AskedStep DEF AnswersArePublished
  <1> QED
    BY <1>1, <1>4, <1>5, RequestStep

\* A commit the clone of a cluster has was published.
LEMMA FoundType ==
  ASSUME ServerInv, NEW c \in Clusters, NEW n \in Nat, HasCommit(gc[c], n)
  PROVE  TreeAt(c, n) \in Tree
  <1>1. gc[c] # NoDir /\ gc[c] \in Dirs /\ disk[gc[c]].there /\ n <= disk[gc[c]].last
    BY DEF ServerInv, TypeOK, Clone, HasCommit
  <1>2. disk[gc[c]].last \in Nat /\ Len(remote[c]) \in Nat
    BY <1>1 DEF ServerInv, TypeOK, Clone
  <1>3. disk[gc[c]].last <= Len(remote[c])
    BY <1>1 DEF ServerInv, ClusterInv, Whole
  <1> QED
    BY <1>1, <1>2, <1>3, TreeAtType DEF ServerInv

LEMMA ReadFromStep ==
  ASSUME ServerInv, ReadFrom
  PROVE  ServerInv'
  <1> DEFINE found == HasCommit(gc[req.c], req.from)
             blob  == TreeAt(req.c, req.from)[req.o]
  <1>1. /\ UNCHANGED <<remote, disk, pc, gcl, wd, shared, process, faults>>
        /\ req.at = "from"
        /\ \/ /\ req.op = "past"
              /\ req' = [req EXCEPT !.at = "done", !.before = IF found THEN blob ELSE None,
                                    !.res = IF found THEN "ok" ELSE "empty"]
           \/ /\ req.op = "diff" /\ found /\ blob # None
              /\ req' = [req EXCEPT !.at = "to", !.before = blob]
           \/ /\ req.op = "diff"
              /\ Answer("error")
    BY DEF ReadFrom
  <1>2. UNCHANGED <<remote, disk, gc>>
    BY <1>1 DEF shared
  <1>3. /\ req \in Request /\ req.res = "none"
        /\ req.c \in Clusters /\ req.o \in Objs /\ req.from \in Nat
    BY <1>1 DEF ServerInv, TypeOK, Asked, Request
  <1>4. found => blob \in Blob \cup {Torn}
    BY <1>3, FoundType DEF Tree
  <1>5. None \in Blob \cup {Torn}
    BY DEF Blob
  <1> HIDE DEF found, blob
  <1>6. /\ req' \in Request /\ req'.c = req.c /\ req'.meta = req.meta
        /\ req'.op = req.op /\ req.op # "get" /\ req'.at \in {"done", "to"}
        /\ req'.at = "to" => req'.op = "diff"
        /\ req'.at # "done" => req'.res = "none"
    <2>1. CASE /\ req.op = "past"
               /\ req' = [req EXCEPT !.at = "done", !.before = IF found THEN blob ELSE None,
                                     !.res = IF found THEN "ok" ELSE "empty"]
      <3>1. (IF found THEN blob ELSE None) \in Blob \cup {Torn}
        BY <1>4, <1>5
      <3>2. (IF found THEN "ok" ELSE "empty") \in {"ok", "empty"}
        OBVIOUS
      <3> QED
        BY <1>3, <2>1, <3>1, <3>2 DEF Request
    <2>2. CASE /\ req.op = "diff" /\ found
               /\ req' = [req EXCEPT !.at = "to", !.before = blob]
      BY <1>3, <1>4, <2>2 DEF Request
    <2>3. CASE req.op = "diff" /\ Answer("error")
      BY <1>3, <2>3 DEF Request, Answer
    <2> QED
      BY <1>1, <2>1, <2>2, <2>3
  <1>7. Asked'
    BY <1>2, <1>6, AskedStep DEF AnswersArePublished
  <1> QED
    BY <1>1, <1>6, <1>7, RequestStep

LEMMA ReadToStep ==
  ASSUME ServerInv, ReadTo
  PROVE  ServerInv'
  <1> DEFINE blob == TreeAt(req.c, req.to)[req.o]
  <1>1. /\ UNCHANGED <<remote, disk, pc, gcl, wd, shared, process, faults>>
        /\ req.at = "to"
        /\ \/ /\ HasCommit(gc[req.c], req.to)
              /\ req' = [req EXCEPT !.at = "done", !.after = blob, !.res = "ok"]
           \/ Answer("error")
    BY DEF ReadTo
  <1>2. UNCHANGED <<remote, disk, gc>>
    BY <1>1 DEF shared
  <1>3. /\ req \in Request /\ req.op = "diff"
        /\ req.c \in Clusters /\ req.o \in Objs /\ req.to \in Nat
    BY <1>1 DEF ServerInv, TypeOK, Asked, Request
  <1>4. HasCommit(gc[req.c], req.to) => blob \in Blob \cup {Torn}
    BY <1>3, FoundType DEF Tree
  <1> HIDE DEF blob
  <1>5. /\ req' \in Request /\ req'.c = req.c /\ req'.meta = req.meta
        /\ req'.op = "diff" /\ req'.at = "done"
    BY <1>1, <1>3, <1>4 DEF Request, Answer
  <1>6. Asked'
    BY <1>2, <1>5, AskedStep DEF AnswersArePublished
  <1> QED
    BY <1>1, <1>5, <1>6, RequestStep

-----------------------------------------------------------------------------
(* Steps of a goroutine *)

\* Only the state of cluster c changes.
Others(c) ==
  /\ remote' = remote
  /\ \A e \in Clusters \ {c} :
       /\ gc'[e] = gc[e] /\ gcl'[e] = gcl[e] /\ wd'[e] = wd[e] /\ pc'[e] = pc[e]
       /\ idx'[e] = idx[e] /\ hist'[e] = hist[e] /\ pulled'[e] = pulled[e]
       /\ count'[e] = count[e]

LEMMA OthersKept ==
  ASSUME ServerInv, TypeOK', NEW c \in Clusters, Others(c),
         \A d \in Dirs, e \in Clusters \ {c} :
           d \in {gc[e], idx[e].dir} => disk'[d] = disk[d]
  PROVE  \A e \in Clusters \ {c} : ClusterInv(e)'
  <1> SUFFICES ASSUME NEW e \in Clusters \ {c}
      PROVE  ClusterInv(e)'
    OBVIOUS
  <1>1. Grown(e)
    BY GrownSame DEF Others, ServerInv
  <1>2. /\ gc'[e] = gc[e] /\ gcl'[e] = gcl[e] /\ wd'[e] = wd[e] /\ pc'[e] = pc[e]
        /\ idx'[e] = idx[e] /\ hist'[e] = hist[e] /\ pulled'[e] = pulled[e]
        /\ count'[e] = count[e]
    BY DEF Others
  <1>3. \A d \in Dirs : d \in {gc[e], idx[e].dir} => disk'[d] = disk[d]
    OBVIOUS
  <1> QED
    BY <1>1, <1>2, <1>3, ClusterFrame DEF ServerInv

\* A step that changes no directory and no name of one.
LEMMA StayStep ==
  ASSUME ServerInv, TypeOK', NEW c \in Clusters, Others(c), ClusterInv(c)',
         UNCHANGED <<disk, gc, idx, req>>
  PROVE  ServerInv'
  <1>1. \A e \in Clusters \ {c} : ClusterInv(e)'
    BY OthersKept
  <1>2. Separate'
    BY DEF ServerInv, Separate, InUse
  <1>3. Complete'
    BY DEF ServerInv, Complete
  <1>4. req.c \in Clusters
    BY DEF ServerInv, TypeOK, Request
  <1>5. Asked'
    BY <1>4, GrownSame, AskedFrame DEF ServerInv, Others
  <1> QED
    BY <1>1, <1>2, <1>3, <1>5 DEF ServerInv

\* A clone into a new directory.
LEMMA CloneStep ==
  ASSUME ServerInv, NEW c \in Clusters, NEW d \in Dirs, Fresh(d),
         disk' = [disk EXCEPT ![d] = Cloned(c)],
         gcl' = [gcl EXCEPT ![c] = d],
         wd' = [wd EXCEPT ![c] = d],
         gc' = [gc EXCEPT ![c] = d],
         Goto(c, "build"),
         UNCHANGED <<remote, idx, hist, pulled, count, process, req, faults>>
  PROVE  ServerInv'
  <1>1. /\ Cloned(c) \in Clone
        /\ Cloned(c).there /\ Cloned(c).first = 1
        /\ Cloned(c).last = Len(remote[c])
        /\ Cloned(c).files = TreeAt(c, Len(remote[c]))
    BY ClonedType DEF ServerInv
  <1>2. d # NoDir
    BY ServerConstants
  <1>3. /\ disk'[d] = Cloned(c) /\ \A x \in Dirs \ {d} : disk'[x] = disk[x]
        /\ gcl'[c] = d /\ wd'[c] = d /\ gc'[c] = d /\ pc'[c] = "build"
    BY DEF ServerInv, TypeOK, Goto
  <1>4. TypeOK'
    BY <1>1 DEF ServerInv, TypeOK, Goto, process
  <1>5. Others(c)
    BY DEF ServerInv, TypeOK, Goto, Others
  <1>6. Separate'
    <2> SUFFICES ASSUME NEW a \in Clusters, NEW e \in Clusters, NEW x \in Dirs,
                        InUse(x, a)', InUse(x, e)'
        PROVE  a = e
      BY DEF Separate
    <2>1. ASSUME NEW b \in Clusters, InUse(x, b)'
          PROVE  InUse(x, b) \/ (x = d /\ b = c)
      BY <1>3, <1>5, <2>1 DEF InUse, Others
    <2>2. ASSUME NEW b \in Clusters PROVE ~InUse(d, b)
      BY DEF Fresh, InUse
    <2> QED
      BY <2>1, <2>2 DEF ServerInv, Separate
  <1>7. Complete'
    BY <1>1, <1>3 DEF ServerInv, Complete
  <1>8. Asked'
    <2>1. req.c \in Clusters /\ req.meta.dir \in Dirs \cup {NoDir} /\ d # req.meta.dir
      BY DEF ServerInv, TypeOK, Request, Index, Fresh
    <2>2. Grown(req.c)
      BY <2>1, GrownSame DEF ServerInv
    <2>3. gc'[req.c] = gc[req.c] \/ gc'[req.c] # req.meta.dir
      BY <1>3, <1>5, <2>1 DEF Others
    <2>4. req.meta.dir # NoDir => disk'[req.meta.dir] = disk[req.meta.dir]
      BY <1>3, <2>1
    <2> QED
      BY <1>4, <2>2, <2>3, <2>4, AskedFrame DEF ServerInv
  <1>9. \A e \in Clusters \ {c} : ClusterInv(e)'
    <2>1. \A x \in Dirs, e \in Clusters \ {c} :
            x \in {gc[e], idx[e].dir} => disk'[x] = disk[x]
      BY <1>3 DEF Fresh
    <2> QED
      BY <1>4, <1>5, <2>1, OthersKept
  <1>10. ClusterInv(c)'
    <2>1. /\ idx[c] \in Index /\ idx[c].dir # d /\ idx[c].dir \in Dirs \cup {NoDir}
          /\ idx[c].ver \in Nat
      BY DEF Fresh, ServerInv, TypeOK, Index
    <2>2. Indexes(c)
      BY DEF ServerInv, ClusterInv
    <2>3. Indexes(c)'
      <3>1. Listing(c, idx[c].ver)' = Listing(c, idx[c].ver)
        BY DEF Listing, TreeAt
      <3>2. idx[c].dir # NoDir => AllPublished(c, idx[c].ver, idx[c].dir)'
        <4>1. idx[c].dir # NoDir => disk'[idx[c].dir] = disk[idx[c].dir]
          BY <1>3, <2>1
        <4> QED
          BY <2>2, <4>1 DEF Indexes, AllPublished, Published, TreeAt
      <3> QED
        BY <2>2, <3>1, <3>2 DEF Indexes
    <2>4. Whole(c)'
      <3>1. hist[c] <= Len(remote[c]) /\ idx[c].ver <= Len(remote[c])
        BY <2>2 DEF Indexes
      <3>2. Len(remote[c]) \in Nat
        BY DEF ServerInv, TypeOK
      <3>3. TreeAt(c, disk[gc[c]].last)' = TreeAt(c, Len(remote[c]))
        BY <1>1, <1>3 DEF TreeAt
      <3> QED
        BY <1>1, <1>3, <3>1, <3>2, <3>3 DEF Whole
    <2>5. Locals(c)' /\ Loops(c)'
      BY <1>3 DEF Locals, Loops
    <2> QED
      BY <2>3, <2>4, <2>5 DEF ClusterInv
  <1> QED
    BY <1>4, <1>6, <1>7, <1>8, <1>9, <1>10 DEF ServerInv

\* Files published in the backup number `n' are published since any earlier.
LEMMA TreeIsPublished ==
  ASSUME TypeOK, NEW c \in Clusters, NEW n \in Nat, n <= Len(remote[c]),
         NEW from \in Nat, from <= n, NEW o \in Objs
  PROVE  Published(c, from, o, TreeAt(c, n)[o])
  <1>1. Len(remote[c]) \in Nat
    BY DEF TypeOK
  <1>2. n = 0 => TreeAt(c, n)[o] = None
    BY DEF TreeAt, EmptyTree
  <1> QED
    BY <1>1, <1>2 DEF Published

\* A step that works on the cluster's own clone: every file stays, goes, is
\* torn or becomes that of the clone's last commit.
LEMMA DiskStep ==
  ASSUME ServerInv, TypeOK', NEW c \in Clusters, NEW d \in Dirs, d = gc[c], Others(c),
         \A x \in Dirs \ {d} : disk'[x] = disk[x],
         disk[d].there, disk'[d].first = 1,
         disk'[d].there => disk[d].last <= disk'[d].last,
         \A o \in Objs : disk'[d].files[o] \in
           {disk[d].files[o], None, Torn, TreeAt(c, disk[d].last)[o]},
         Whole(c)', Loops(c)',
         UNCHANGED <<gcl, wd, gc, idx, hist, req>>
  PROVE  ServerInv'
  <1> DEFINE last == disk[d].last
  <1>1. d # NoDir /\ remote' = remote
    BY ServerConstants DEF Others
  <1>2. /\ last \in Nat /\ disk'[d].last \in Nat /\ Len(remote[c]) \in Nat
        /\ idx[c].ver \in Nat /\ idx[c].dir \in Dirs \cup {NoDir}
        /\ req.c \in Clusters /\ req.meta.ver \in Nat
        /\ req.meta.dir \in Dirs \cup {NoDir}
    <2>1. /\ disk[d] \in Clone /\ disk'[d] \in Clone /\ remote[c] \in Seq(Tree)
          /\ idx[c] \in Index /\ req \in Request
      BY DEF ServerInv, TypeOK
    <2> QED
      BY <2>1 DEF Clone, Request, Index
  <1>3. last <= Len(remote[c]) /\ idx[c].ver <= last
    BY <1>1 DEF ServerInv, ClusterInv, Whole
  <1>4. ASSUME NEW from \in Nat, from <= last, AllPublished(c, from, d)
        PROVE  AllPublished(c, from, d)'
    <2> SUFFICES ASSUME NEW o \in Objs
        PROVE  Published(c, from, o, disk[d].files[o])'
      BY DEF AllPublished
    <2>1. Published(c, from, o, disk[d].files[o])
      BY <1>4 DEF AllPublished
    <2>2. Published(c, from, o, TreeAt(c, last)[o])
      BY <1>2, <1>3, <1>4, TreeIsPublished DEF ServerInv
    <2>3. Published(c, from, o, None) /\ Published(c, from, o, Torn)
      BY DEF Published
    <2>4. Published(c, from, o, disk'[d].files[o])
      BY <2>1, <2>2, <2>3
    <2> QED
      BY <1>1, <2>4 DEF Published, TreeAt
  <1>5. Separate'
    BY DEF ServerInv, Separate, InUse
  <1>6. Complete'
    BY DEF ServerInv, Complete
  <1>7. InUse(d, c) /\ \A e \in Clusters \ {c} : ~InUse(d, e)
    BY DEF ServerInv, Separate, InUse
  <1>8. \A e \in Clusters \ {c} : ClusterInv(e)'
    <2>1. \A x \in Dirs, e \in Clusters \ {c} :
            x \in {gc[e], idx[e].dir} => disk'[x] = disk[x]
      BY <1>7 DEF InUse
    <2> QED
      BY <2>1, OthersKept
  <1>9. Indexes(c)'
    <2>1. Indexes(c)
      BY DEF ServerInv, ClusterInv
    <2>2. Listing(c, idx[c].ver)' = Listing(c, idx[c].ver)
      BY <1>1 DEF Listing, TreeAt
    <2>3. idx[c].dir # NoDir => AllPublished(c, idx[c].ver, idx[c].dir)'
      <3>1. CASE idx[c].dir = d
        <4>1. PICK from : from = idx[c].ver
          OBVIOUS
        <4>2. AllPublished(c, from, d)'
          BY <1>1, <1>2, <1>3, <1>4, <2>1, <3>1, <4>1 DEF Indexes
        <4> QED
          BY <3>1, <4>1, <4>2 DEF AllPublished, Published
      <3>2. CASE idx[c].dir # d
        <4>1. idx[c].dir # NoDir => disk'[idx[c].dir] = disk[idx[c].dir]
          BY <1>2, <3>2
        <4> QED
          BY <1>1, <2>1, <4>1, SMTT(30) DEF Indexes, AllPublished, Published, TreeAt
      <3> QED
        BY <3>1, <3>2
    <2> QED
      BY <1>1, <2>1, <2>2, <2>3 DEF Indexes
  <1>10. Asked'
    <2>1. Grown(req.c)
      BY <1>1, <1>2, GrownSame DEF ServerInv
    <2>2. CASE req.meta.dir = d
      <3>1. req.c = c
        BY <1>2, <1>7, <2>2 DEF InUse
      <3>2. Asked
        BY DEF ServerInv
      <3>3. req.meta.ver <= last
        BY <1>1, <2>2, <3>1, <3>2 DEF Asked
      <3>4. PICK from : from = req.meta.ver
        OBVIOUS
      <3>5. AllPublished(c, from, d)
        BY <1>1, <2>2, <3>1, <3>2, <3>4 DEF Asked
      <3>6. AllPublished(c, from, d)'
        BY <1>2, <1>4, <3>3, <3>4, <3>5
      <3>7. AllPublished(req.c, req.meta.ver, req.meta.dir)'
        BY <2>2, <3>1, <3>4, <3>6 DEF AllPublished, Published, TreeAt
      <3>8. disk'[d].there => req.meta.ver <= disk'[d].last
        BY <1>2, <3>3
      <3>9. AnswersArePublished'
        BY <2>1, AnswersKept DEF ServerInv
      <3> QED
        BY <2>2, <3>2, <3>7, <3>8, <3>9 DEF Asked
    <2>3. CASE req.meta.dir # d
      <3>1. req.meta.dir # NoDir => disk'[req.meta.dir] = disk[req.meta.dir]
        BY <1>2, <2>3
      <3> QED
        BY <2>1, <3>1, AskedFrame DEF ServerInv
    <2> QED
      BY <2>2, <2>3
  <1>11. Locals(c)'
    BY DEF ServerInv, ClusterInv, Locals
  <1> QED
    BY <1>5, <1>6, <1>8, <1>9, <1>10, <1>11 DEF ServerInv, ClusterInv

\* recordPull of a failure leaves the count alone; of a success it sets it.
LEMMA RecordPullFacts ==
  ASSUME TypeOK, NEW c \in Clusters, NEW result \in {"ok", "err"}, RecordPull(c, result)
  PROVE  /\ pulled' \in [Clusters -> {"never", "ok", "err"}]
         /\ count' \in [Clusters -> Nat]
         /\ pulled'[c] = result
         /\ result = "ok" => count'[c] = Cardinality(idx[c].objs)
         /\ \A e \in Clusters \ {c} : pulled'[e] = pulled[e] /\ count'[e] = count[e]
  <1>1. Cardinality(idx[c].objs) \in Nat
    BY CountType DEF TypeOK, Index
  <1> QED
    BY <1>1 DEF RecordPull, TypeOK

LEMMA FaultFacts ==
  ASSUME TypeOK, NEW kind, NEW c, Fault(kind, c)
  PROVE  faults' \in Nat
  BY DEF TypeOK, Fault

\* A goroutine that gives up a round without touching its clone or its indexes.
LEMMA GiveUpStep ==
  ASSUME ServerInv, NEW c \in Clusters, RecordPull(c, "err"), Goto(c, "wait"),
         pc[c] \notin {"checkout", "remove"}, faults' \in Nat,
         gc[c] # NoDir /\ disk[gc[c]].there => UNCHANGED <<gcl, wd>>,
         gcl' \in {gcl, [gcl EXCEPT ![c] = NoDir]},
         wd' \in {wd, [wd EXCEPT ![c] = NoDir]},
         UNCHANGED <<remote, disk, gc, idx, hist, process, req>>
  PROVE  ServerInv'
  <1>1. /\ pulled' \in [Clusters -> {"never", "ok", "err"}]
        /\ count' \in [Clusters -> Nat]
        /\ pulled'[c] = "err"
        /\ \A e \in Clusters \ {c} : pulled'[e] = pulled[e] /\ count'[e] = count[e]
    BY RecordPullFacts DEF ServerInv
  <1>2. /\ gcl' \in [Clusters -> Dirs \cup {NoDir}] /\ wd' \in [Clusters -> Dirs \cup {NoDir}]
        /\ gcl'[c] \in {gcl[c], NoDir} /\ wd'[c] \in {wd[c], NoDir}
        /\ \A e \in Clusters \ {c} : gcl'[e] = gcl[e] /\ wd'[e] = wd[e]
    BY DEF ServerInv, TypeOK
  <1>3. /\ pc'[c] = "wait" /\ \A e \in Clusters \ {c} : pc'[e] = pc[e]
        /\ pc' \in [Clusters -> {"setup", "build", "history", "record", "wait",
                                 "checkout", "remove", "reclone", "dead"}]
    BY DEF ServerInv, TypeOK, Goto
  <1>4. TypeOK'
    BY <1>1, <1>2, <1>3 DEF ServerInv, TypeOK, process
  <1>5. Others(c)
    BY <1>1, <1>2, <1>3 DEF Others
  <1>6. ClusterInv(c)
    BY DEF ServerInv
  <1>7. ClusterInv(c)'
    <2>1. Whole(c)'
      BY <1>6 DEF ClusterInv, Whole, TreeAt
    <2>2. Locals(c)'
      BY <1>2, <1>6 DEF ClusterInv, Locals
    <2>3. Loops(c)'
      BY <1>1, <1>3 DEF Loops, Ready
    <2>4. Indexes(c)'
      BY <1>6 DEF ClusterInv, Indexes, Listing, AllPublished, Published, TreeAt
    <2> QED
      BY <2>1, <2>2, <2>3, <2>4 DEF ClusterInv
  <1> QED
    BY <1>4, <1>5, <1>7, StayStep

\* A goroutine that goes on with nothing changed but its place.
LEMMA GotoStep ==
  ASSUME ServerInv, NEW c \in Clusters, faults' \in Nat,
         NEW step \in {"build", "remove", "dead"}, Goto(c, step),
         step = "remove" => gc[c] # NoDir /\ disk[gc[c]].there,
         \/ pc[c] \notin {"checkout", "remove"} \/ step = "remove"
         \/ disk[gc[c]].files = TreeAt(c, disk[gc[c]].last),
         UNCHANGED <<remote, disk, gcl, wd, gc, idx, hist, pulled, count, process, req>>
  PROVE  ServerInv'
  <1>1. /\ pc'[c] = step /\ \A e \in Clusters \ {c} : pc'[e] = pc[e]
        /\ pc' \in [Clusters -> {"setup", "build", "history", "record", "wait",
                                 "checkout", "remove", "reclone", "dead"}]
    BY DEF ServerInv, TypeOK, Goto
  <1>2. TypeOK'
    BY <1>1 DEF ServerInv, TypeOK, process
  <1>3. Others(c)
    BY <1>1 DEF Others
  <1>4. ClusterInv(c)
    BY DEF ServerInv
  <1>5. ClusterInv(c)'
    <2>1. Whole(c)'
      BY <1>1, <1>4 DEF ClusterInv, Whole, TreeAt
    <2>2. Locals(c)'
      BY <1>4 DEF ClusterInv, Locals
    <2>3. Loops(c)'
      BY <1>1 DEF Loops
    <2>4. Indexes(c)'
      BY <1>4 DEF ClusterInv, Indexes, Listing, AllPublished, Published, TreeAt
    <2> QED
      BY <2>1, <2>2, <2>3, <2>4 DEF ClusterInv
  <1> QED
    BY <1>2, <1>3, <1>5, StayStep

LEMMA SetupStep ==
  ASSUME ServerInv, NEW c \in Clusters, Setup(c)
  PROVE  ServerInv'
  <1>1. pc[c] = "setup" /\ UNCHANGED <<remote, idx, hist, pulled, count, process, req>>
    BY DEF Setup, At
  <1>2. ASSUME NEW d \in Dirs, Fresh(d),
               disk' = [disk EXCEPT ![d] = Cloned(c)],
               gcl' = [gcl EXCEPT ![c] = d],
               wd' = [wd EXCEPT ![c] = d],
               gc' = [gc EXCEPT ![c] = d],
               Goto(c, "build"), UNCHANGED faults
        PROVE  ServerInv'
    BY <1>1, <1>2, CloneStep
  <1>3. CASE Fault("clone", c) /\ Goto(c, "dead") /\ UNCHANGED <<disk, gcl, wd, gc>>
    <2>1. faults' \in Nat
      BY <1>3, FaultFacts DEF ServerInv
    <2> QED
      BY <1>1, <1>3, <2>1, GotoStep
  <1> QED
    BY <1>2, <1>3 DEF Setup

LEMMA RecloneStep ==
  ASSUME ServerInv, NEW c \in Clusters, Reclone(c)
  PROVE  ServerInv'
  <1>1. pc[c] = "reclone" /\ UNCHANGED <<remote, idx, hist, process, req>>
    BY DEF Reclone, At
  <1>2. ASSUME NEW d \in Dirs, Fresh(d),
               disk' = [disk EXCEPT ![d] = Cloned(c)],
               gcl' = [gcl EXCEPT ![c] = d],
               wd' = [wd EXCEPT ![c] = d],
               gc' = [gc EXCEPT ![c] = d],
               Goto(c, "build"), UNCHANGED <<pulled, count, faults>>
        PROVE  ServerInv'
    BY <1>1, <1>2, CloneStep
  <1>3. ~(gc[c] # NoDir /\ disk[gc[c]].there)
    BY <1>1 DEF ServerInv, ClusterInv, Loops
  <1>4. CASE /\ Fault("clone", c) \/ Fault("mkdir", c)
             /\ gcl' \in {gcl, [gcl EXCEPT ![c] = NoDir]}
             /\ wd' = [wd EXCEPT ![c] = NoDir]
             /\ RecordPull(c, "err") /\ Goto(c, "wait")
             /\ UNCHANGED <<disk, gc>>
    <2>1. faults' \in Nat
      BY <1>4, FaultFacts DEF ServerInv
    <2> QED
      BY <1>1, <1>3, <1>4, <2>1, GiveUpStep
  <1> QED
    BY <1>2, <1>4 DEF Reclone

LEMMA BuildIndexStep ==
  ASSUME ServerInv, NEW c \in Clusters, BuildIndex(c)
  PROVE  ServerInv'
  <1>1. pc[c] = "build" /\ UNCHANGED <<remote, disk, gcl, wd, gc, hist, process, req>>
    BY DEF BuildIndex, At
  <1>2. CASE /\ \/ UNCHANGED faults
                \/ Fault("build", c)
             /\ RecordPull(c, "err") /\ Goto(c, "wait") /\ UNCHANGED idx
    <2>1. faults' \in Nat
      BY <1>2, FaultFacts DEF ServerInv, TypeOK
    <2> QED
      BY <1>1, <1>2, <2>1, GiveUpStep
  <1> DEFINE new == [ver  |-> disk[wd[c]].last, dir |-> wd[c],
                     objs |-> {o \in Objs : disk[wd[c]].files[o] # None}]
  <1>3. CASE /\ HasSubDir(wd[c]) /\ idx' = [idx EXCEPT ![c] = new]
             /\ Goto(c, "history") /\ UNCHANGED <<pulled, count, faults>>
    <2>1. ClusterInv(c) /\ Complete
      BY DEF ServerInv
    <2>2. /\ wd[c] # NoDir /\ wd[c] = gc[c] /\ wd[c] \in Dirs /\ disk[wd[c]].there
          /\ disk[wd[c]] \in Clone /\ disk[wd[c]].last \in Nat
      BY <1>3, <2>1 DEF HasSubDir, ClusterInv, Locals, ServerInv, TypeOK, Clone
    <2>3. PICK d \in Dirs, last \in Nat : d = gc[c] /\ last = disk[gc[c]].last
      BY <2>2
    <2>4. /\ d # NoDir /\ last <= Len(remote[c]) /\ Len(remote[c]) \in Nat
          /\ disk[d].files = TreeAt(c, last) /\ hist[c] <= last
          /\ gcl[c] = d /\ wd[c] = d /\ disk[d].there
      BY <1>1, <2>1, <2>2, <2>3 DEF ClusterInv, Whole, ServerInv, TypeOK
    <2>5. new = [ver |-> last, dir |-> d, objs |-> Listing(c, last)]
      BY <2>2, <2>3, <2>4 DEF Listing
    <2> HIDE DEF new
    <2>6. new \in Index
      BY <2>5, ListingType DEF Index
    <2>7. /\ idx'[c] = new /\ idx' \in [Clusters -> Index]
          /\ \A e \in Clusters \ {c} : idx'[e] = idx[e]
      BY <1>3, <2>6 DEF ServerInv, TypeOK
    <2>8. idx'[c].ver = last /\ idx'[c].dir = d /\ idx'[c].objs = Listing(c, last)
      BY <2>5, <2>7
    <2>9. /\ pc'[c] = "history" /\ \A e \in Clusters \ {c} : pc'[e] = pc[e]
          /\ pc' \in [Clusters -> {"setup", "build", "history", "record", "wait",
                                   "checkout", "remove", "reclone", "dead"}]
      BY <1>3 DEF ServerInv, TypeOK, Goto
    <2>10. TypeOK'
      BY <1>1, <1>3, <2>7, <2>9 DEF ServerInv, TypeOK, process
    <2>11. Others(c)
      BY <1>1, <1>3, <2>7, <2>9 DEF Others
    <2>12. \A e \in Clusters \ {c} : ClusterInv(e)'
      BY <1>1, <2>10, <2>11, OthersKept
    <2>13. Separate'
      <3> SUFFICES ASSUME NEW a \in Clusters, NEW e \in Clusters, NEW x \in Dirs,
                          InUse(x, a)', InUse(x, e)'
          PROVE  a = e
        BY DEF Separate
      <3>1. ASSUME NEW b \in Clusters, InUse(x, b)' PROVE InUse(x, b)
        BY <1>1, <2>3, <2>7, <2>8, <3>1 DEF InUse
      <3> QED
        BY <3>1 DEF ServerInv, Separate
    <2>14. Complete'
      BY <1>1, <2>1 DEF Complete
    <2>15. Asked'
      <3>1. req.c \in Clusters
        BY DEF ServerInv, TypeOK, Request
      <3> QED
        BY <1>1, <2>10, <3>1, GrownSame, AskedFrame DEF ServerInv
    <2>16. ClusterInv(c)'
      <3>1. Whole(c)'
        <4>1. TreeAt(c, last)' = TreeAt(c, last)
          BY <1>1 DEF TreeAt
        <4>2. TreeAt(c, disk[gc[c]].last)' = TreeAt(c, last)'
          BY <1>1, <2>3 DEF TreeAt
        <4> QED
          BY <1>1, <2>3, <2>4, <2>8, <4>1, <4>2 DEF Whole
      <3>2. Locals(c)'
        BY <1>1, <2>1 DEF ClusterInv, Locals
      <3>3. Loops(c)'
        BY <1>1, <2>3, <2>4, <2>8, <2>9 DEF Loops, Indexed
      <3>4. Indexes(c)'
        <4>1. Listing(c, idx[c].ver)' = Listing(c, last)
          BY <1>1, <2>8 DEF Listing, TreeAt
        <4>2. AllPublished(c, last, d)
          BY <2>4, TreeIsPublished DEF AllPublished, ServerInv
        <4>3. AllPublished(c, idx[c].ver, idx[c].dir)'
          BY <1>1, <2>8, <4>2 DEF AllPublished, Published, TreeAt
        <4>4. last <= Len(remote'[c]) /\ hist'[c] <= Len(remote'[c])
          BY <1>1, <2>1, <2>4 DEF ClusterInv, Indexes
        <4> QED
          BY <2>4, <2>8, <4>1, <4>3, <4>4 DEF Indexes
      <3> QED
        BY <3>1, <3>2, <3>3, <3>4 DEF ClusterInv
    <2> QED
      BY <2>10, <2>12, <2>13, <2>14, <2>15, <2>16 DEF ServerInv
  <1> QED
    BY <1>1, <1>2, <1>3 DEF BuildIndex

LEMMA BuildHistoryStep ==
  ASSUME ServerInv, NEW c \in Clusters, BuildHistory(c)
  PROVE  ServerInv'
  <1>1. pc[c] = "history" /\ UNCHANGED <<remote, disk, gcl, wd, gc, idx, process, req>>
    BY DEF BuildHistory, At
  <1>2. CASE /\ \/ UNCHANGED faults
                \/ Fault("git", c)
             /\ RecordPull(c, "err") /\ Goto(c, "wait") /\ UNCHANGED hist
    <2>1. faults' \in Nat
      BY <1>2, FaultFacts DEF ServerInv, TypeOK
    <2> QED
      BY <1>1, <1>2, <2>1, GiveUpStep
  <1>3. CASE /\ hist' = [hist EXCEPT ![c] = disk[gc[c]].last]
             /\ Goto(c, "record") /\ UNCHANGED <<pulled, count, faults>>
    <2>1. ClusterInv(c)
      BY DEF ServerInv
    <2>2. Indexed(c)
      BY <1>1, <2>1 DEF ClusterInv, Loops
    <2>3. gc[c] \in Dirs /\ disk[gc[c]].last \in Nat /\ disk[gc[c]].last <= Len(remote[c])
      BY <2>1, <2>2 DEF Indexed, ClusterInv, Whole, ServerInv, TypeOK, Clone
    <2>4. /\ hist'[c] = disk[gc[c]].last /\ hist' \in [Clusters -> Nat]
          /\ \A e \in Clusters \ {c} : hist'[e] = hist[e]
      BY <1>3, <2>3 DEF ServerInv, TypeOK
    <2>5. /\ pc'[c] = "record" /\ \A e \in Clusters \ {c} : pc'[e] = pc[e]
          /\ pc' \in [Clusters -> {"setup", "build", "history", "record", "wait",
                                   "checkout", "remove", "reclone", "dead"}]
      BY <1>3 DEF ServerInv, TypeOK, Goto
    <2>6. TypeOK'
      BY <1>1, <1>3, <2>4, <2>5 DEF ServerInv, TypeOK, process
    <2>7. Others(c)
      BY <1>1, <1>3, <2>4, <2>5 DEF Others
    <2>8. Whole(c)'
      BY <1>1, <2>1, <2>3, <2>4 DEF ClusterInv, Whole, TreeAt
    <2>9. Locals(c)'
      BY <1>1, <2>1 DEF ClusterInv, Locals
    <2>10. Loops(c)'
      BY <1>1, <2>2, <2>4, <2>5 DEF Loops, Indexed
    <2>11. Indexes(c)'
      BY <1>1, <2>1, <2>3, <2>4
         DEF ClusterInv, Indexes, Listing, AllPublished, Published, TreeAt
    <2> QED
      BY <1>1, <2>6, <2>7, <2>8, <2>9, <2>10, <2>11, StayStep DEF ClusterInv
  <1> QED
    BY <1>2, <1>3 DEF BuildHistory

LEMMA RecordStep ==
  ASSUME ServerInv, NEW c \in Clusters, Record(c)
  PROVE  ServerInv'
  <1>1. /\ pc[c] = "record" /\ RecordPull(c, "ok") /\ Goto(c, "wait")
        /\ UNCHANGED <<remote, disk, gcl, wd, gc, idx, hist, process, req, faults>>
    BY DEF Record, At
  <1>2. /\ pulled' \in [Clusters -> {"never", "ok", "err"}]
        /\ count' \in [Clusters -> Nat]
        /\ count'[c] = Cardinality(idx[c].objs)
        /\ \A e \in Clusters \ {c} : pulled'[e] = pulled[e] /\ count'[e] = count[e]
    BY <1>1, RecordPullFacts DEF ServerInv
  <1>3. /\ pc'[c] = "wait" /\ \A e \in Clusters \ {c} : pc'[e] = pc[e]
        /\ pc' \in [Clusters -> {"setup", "build", "history", "record", "wait",
                                 "checkout", "remove", "reclone", "dead"}]
    BY <1>1 DEF ServerInv, TypeOK, Goto
  <1>4. TypeOK'
    BY <1>1, <1>2, <1>3 DEF ServerInv, TypeOK, process
  <1>5. Others(c)
    BY <1>1, <1>2, <1>3 DEF Others
  <1>6. ClusterInv(c)
    BY DEF ServerInv
  <1>7. Indexed(c) /\ hist[c] = idx[c].ver
    BY <1>1, <1>6 DEF ClusterInv, Loops
  <1>8. Whole(c)'
    BY <1>1, <1>6 DEF ClusterInv, Whole, TreeAt
  <1>9. Locals(c)'
    BY <1>1, <1>6 DEF ClusterInv, Locals
  <1>10. Loops(c)'
    BY <1>1, <1>2, <1>3, <1>7 DEF Loops, Indexed
  <1>11. Indexes(c)'
    BY <1>1, <1>6 DEF ClusterInv, Indexes, Listing, AllPublished, Published, TreeAt
  <1> QED
    BY <1>1, <1>4, <1>5, <1>8, <1>9, <1>10, <1>11, StayStep DEF ClusterInv

LEMMA PullStep ==
  ASSUME ServerInv, NEW c \in Clusters, Pull(c)
  PROVE  ServerInv'
  <1>1. /\ pc[c] = "wait" /\ gcl[c] # NoDir
        /\ UNCHANGED <<remote, gcl, wd, gc, idx, hist, pulled, count, process, req>>
    BY DEF Pull, At, shared
  <1>2. ClusterInv(c) /\ gc[c] \in Dirs \cup {NoDir}
    BY DEF ServerInv, TypeOK
  <1>3. PICK d \in Dirs : d = gcl[c] /\ d = gc[c] /\ d # NoDir
    BY <1>1, <1>2 DEF ClusterInv, Locals
  <1>4. CASE Goto(c, "build") /\ UNCHANGED <<disk, faults>>
    BY <1>1, <1>4, GotoStep DEF ServerInv, TypeOK
  <1>5. CASE disk[d].there /\ Fault("pull", c) /\ Goto(c, "remove") /\ UNCHANGED disk
    <2>1. faults' \in Nat
      BY <1>5, FaultFacts DEF ServerInv
    <2> QED
      BY <1>1, <1>3, <1>5, <2>1, GotoStep
  <1>6. CASE /\ disk[d].there
             /\ disk' = [disk EXCEPT ![d].last = Len(remote[c])]
             /\ Goto(c, "checkout") /\ UNCHANGED faults
    <2>1. /\ disk[d] \in Clone /\ Len(remote[c]) \in Nat
          /\ disk[d].last \in Nat /\ hist[c] \in Nat /\ idx[c].ver \in Nat
      BY DEF ServerInv, TypeOK, Clone, Index
    <2>2. /\ disk'[d] \in Clone /\ disk'[d].there = disk[d].there
          /\ disk'[d].first = disk[d].first /\ disk'[d].files = disk[d].files
          /\ disk'[d].last = Len(remote[c])
          /\ \A x \in Dirs \ {d} : disk'[x] = disk[x]
          /\ disk' \in [Dirs -> Clone]
      <3>1. disk \in [Dirs -> Clone]
        BY DEF ServerInv, TypeOK
      <3>2. disk' = [disk EXCEPT ![d] = [@ EXCEPT !.last = Len(remote[c])]]
        BY <1>6
      <3>3. [disk[d] EXCEPT !.last = Len(remote[c])] \in Clone
        BY <2>1 DEF Clone
      <3>4. disk'[d] = [disk[d] EXCEPT !.last = Len(remote[c])]
        BY <3>1, <3>2
      <3>5. disk' \in [Dirs -> Clone] /\ \A x \in Dirs \ {d} : disk'[x] = disk[x]
        BY <3>1, <3>2, <3>3
      <3> QED
        BY <2>1, <3>3, <3>4, <3>5 DEF Clone
    <2>3. /\ pc'[c] = "checkout" /\ \A e \in Clusters \ {c} : pc'[e] = pc[e]
          /\ pc' \in [Clusters -> {"setup", "build", "history", "record", "wait",
                                   "checkout", "remove", "reclone", "dead"}]
      BY <1>6 DEF ServerInv, TypeOK, Goto
    <2>4. TypeOK'
      BY <1>1, <1>6, <2>2, <2>3 DEF ServerInv, TypeOK, process
    <2>5. Others(c)
      BY <1>1, <2>3 DEF Others
    <2>6. /\ disk[d].last <= Len(remote[c]) /\ hist[c] <= disk[d].last
          /\ idx[c].ver <= disk[d].last /\ gcl[c] = gc[c] /\ wd[c] = gc[c]
      BY <1>2, <1>3, <1>6 DEF ClusterInv, Whole
    <2>7. Whole(c)'
      BY <1>1, <1>3, <2>1, <2>2, <2>3, <2>6 DEF Whole
    <2>8. Loops(c)'
      BY <1>1, <1>3, <1>6, <2>2, <2>3 DEF Loops
    <2>9. disk'[d].first = 1
      BY <2>2 DEF ServerInv, Complete
    <2>10. disk'[d].there => disk[d].last <= disk'[d].last
      BY <2>2, <2>6
    <2>11. \A o \in Objs : disk'[d].files[o] \in
             {disk[d].files[o], None, Torn, TreeAt(c, disk[d].last)[o]}
      BY <2>2
    <2> QED
      BY <1>1, <1>3, <1>6, <2>2, <2>4, <2>5, <2>7, <2>8, <2>9, <2>10, <2>11, DiskStep
  <1> QED
    BY <1>3, <1>4, <1>5, <1>6 DEF Pull

LEMMA CheckoutStep ==
  ASSUME ServerInv, NEW c \in Clusters, Checkout(c)
  PROVE  ServerInv'
  <1>1. /\ pc[c] = "checkout"
        /\ UNCHANGED <<remote, gcl, wd, gc, idx, hist, pulled, count, process, req>>
    BY DEF Checkout, At, shared
  <1>2. ClusterInv(c) /\ gc[c] \in Dirs \cup {NoDir}
    BY DEF ServerInv, TypeOK
  <1>3. PICK d \in Dirs : d = gcl[c] /\ d = gc[c] /\ d # NoDir /\ disk[d].there
    BY <1>1, <1>2 DEF ClusterInv, Whole, Loops
  <1> DEFINE new == TreeAt(c, disk[d].last)
  <1>4. CASE disk[d].files = new /\ Goto(c, "build") /\ UNCHANGED <<disk, faults>>
    BY <1>1, <1>3, <1>4, GotoStep DEF ServerInv, TypeOK
  <1>5. CASE Fault("pull", c) /\ Goto(c, "remove") /\ UNCHANGED disk
    <2>1. faults' \in Nat
      BY <1>5, FaultFacts DEF ServerInv
    <2> QED
      BY <1>1, <1>3, <1>5, <2>1, GotoStep
  <1>6. ASSUME NEW o \in Objs, UNCHANGED <<pc, faults>>,
               disk' = [disk EXCEPT ![d].files[o] =
                          IF new[o] = None \/ @ = Torn THEN new[o] ELSE Torn]
        PROVE  ServerInv'
    <2>1. /\ disk \in [Dirs -> Clone] /\ disk[d] \in Clone
          /\ disk[d].files \in [Objs -> Blob \cup {Torn}]
          /\ disk[d].last \in Nat /\ Len(remote[c]) \in Nat
      BY DEF ServerInv, TypeOK, Clone
    <2>2. /\ disk[d].last <= Len(remote[c]) /\ hist[c] <= disk[d].last
          /\ idx[c].ver <= disk[d].last /\ gcl[c] = gc[c] /\ wd[c] = gc[c]
      BY <1>2, <1>3 DEF ClusterInv, Whole
    <2>3. new \in Tree
      BY <2>1, <2>2, TreeAtType DEF ServerInv
    <2> HIDE DEF new
    <2>4. PICK blob : blob = IF new[o] = None \/ disk[d].files[o] = Torn THEN new[o] ELSE Torn
      OBVIOUS
    <2>5. blob \in {new[o], Torn} /\ blob \in Blob \cup {Torn}
      BY <2>3, <2>4 DEF Tree
    <2>6. disk' = [disk EXCEPT ![d] =
                    [disk[d] EXCEPT !.files = [disk[d].files EXCEPT ![o] = blob]]]
      BY <1>6, <2>4
    <2>7. [disk[d].files EXCEPT ![o] = blob] \in [Objs -> Blob \cup {Torn}]
      BY <2>1, <2>5
    <2>8. [disk[d] EXCEPT !.files = [disk[d].files EXCEPT ![o] = blob]] \in Clone
      BY <2>1, <2>7 DEF Clone
    <2>9. /\ disk' \in [Dirs -> Clone]
          /\ disk'[d] = [disk[d] EXCEPT !.files = [disk[d].files EXCEPT ![o] = blob]]
          /\ \A x \in Dirs \ {d} : disk'[x] = disk[x]
      BY <2>1, <2>6, <2>8
    <2>10. /\ disk'[d].there /\ disk'[d].first = disk[d].first
           /\ disk'[d].last = disk[d].last
           /\ disk'[d].files = [disk[d].files EXCEPT ![o] = blob]
      BY <1>3, <2>1, <2>9 DEF Clone
    <2>11. \A x \in Objs : disk'[d].files[x] \in {disk[d].files[x], None, Torn, new[x]}
      BY <2>1, <2>5, <2>10
    <2>12. TypeOK'
      BY <1>1, <1>6, <2>9 DEF ServerInv, TypeOK, process
    <2>13. Others(c)
      BY <1>1, <1>6 DEF Others
    <2>14. Whole(c)'
      BY <1>1, <1>3, <1>6, <2>2, <2>10 DEF Whole
    <2>15. Loops(c)'
      BY <1>1, <1>3, <1>6, <2>10 DEF Loops
    <2>16. disk'[d].first = 1
      BY <2>10 DEF ServerInv, Complete
    <2>17. disk[d].last <= disk'[d].last
      BY <2>1, <2>10
    <2> QED
      BY <1>1, <1>3, <2>9, <2>11, <2>12, <2>13, <2>14, <2>15, <2>16, <2>17, DiskStep
         DEF new
  <1> QED
    BY <1>3, <1>4, <1>5, <1>6 DEF Checkout

LEMMA RemoveStep ==
  ASSUME ServerInv, NEW c \in Clusters, Remove(c)
  PROVE  ServerInv'
  <1>1. /\ pc[c] = "remove" /\ Goto(c, "reclone")
        /\ UNCHANGED <<remote, gcl, wd, gc, idx, hist, pulled, count, process, req, faults>>
    BY DEF Remove, At, shared
  <1>2. ClusterInv(c) /\ gc[c] \in Dirs \cup {NoDir} /\ disk \in [Dirs -> Clone]
    BY DEF ServerInv, TypeOK
  <1>3. PICK d \in Dirs : d = wd[c] /\ d = gc[c] /\ d # NoDir /\ disk[d].there
    BY <1>1, <1>2 DEF ClusterInv, Whole, Loops
  <1>4. /\ disk' \in [Dirs -> Clone] /\ disk'[d] = NoClone
        /\ \A x \in Dirs \ {d} : disk'[x] = disk[x]
    BY <1>2, <1>3, ConstantTypes DEF Remove
  <1>5. /\ ~disk'[d].there /\ disk'[d].first = 1
        /\ \A o \in Objs : disk'[d].files[o] = None
    BY <1>4 DEF NoClone, EmptyTree
  <1>6. /\ pc'[c] = "reclone" /\ \A e \in Clusters \ {c} : pc'[e] = pc[e]
        /\ pc' \in [Clusters -> {"setup", "build", "history", "record", "wait",
                                 "checkout", "remove", "reclone", "dead"}]
    BY <1>1 DEF ServerInv, TypeOK, Goto
  <1>7. TypeOK'
    BY <1>1, <1>4, <1>6 DEF ServerInv, TypeOK, process
  <1>8. Others(c)
    BY <1>1, <1>6 DEF Others
  <1>9. Whole(c)'
    BY <1>1, <1>3, <1>5 DEF Whole
  <1>10. Loops(c)'
    BY <1>1, <1>3, <1>5, <1>6 DEF Loops
  <1>11. \A o \in Objs : disk'[d].files[o] \in
           {disk[d].files[o], None, Torn, TreeAt(c, disk[d].last)[o]}
    BY <1>5
  <1> QED
    BY <1>1, <1>3, <1>4, <1>5, <1>7, <1>8, <1>9, <1>10, <1>11, DiskStep

-----------------------------------------------------------------------------
(* The theorems *)

LEMMA NextInv == ServerInv /\ [Next]_vars => ServerInv'
  <1> SUFFICES ASSUME ServerInv, [Next]_vars PROVE ServerInv'
    OBVIOUS
  <1>1. ASSUME NEW c \in Clusters, Loop(c) PROVE ServerInv'
    <2>1. CASE NilPull(c)
      BY <2>1, DownStep DEF NilPull, ServerInv
    <2> QED
      BY <1>1, <2>1, SetupStep, BuildIndexStep, BuildHistoryStep, RecordStep, PullStep,
         CheckoutStep, RemoveStep, RecloneStep DEF Loop
  <1>2. ASSUME NEW c \in Clusters, Publish(c) PROVE ServerInv'
    BY <1>2, PublishStep
  <1>3. CASE Start \/ Serve \/ UNCHANGED vars
    BY <1>3, ProcessStep
  <1>4. CASE ProbeRestart
    BY <1>4, DownStep DEF ProbeRestart, ServerInv
  <1>5. CASE Ask
    BY <1>5, AskStep
  <1>6. CASE Handler
    BY <1>6, LookupStep, ReadFileStep, RelPathStep, ReadFromStep, ReadToStep DEF Handler
  <1> QED
    BY <1>1, <1>2, <1>3, <1>4, <1>5, <1>6 DEF Next

LEMMA Invariance == Spec => []ServerInv
  BY InitInv, NextInv, PTL DEF Spec

\* Every variable of the server keeps its type whatever faults, restarts and
\* requests happen: the state of cmd/server/store.go is never malformed.
THEOREM TypesHold == Spec => []TypeOK
  <1>1. ServerInv => TypeOK
    BY DEF ServerInv
  <1> QED
    BY <1>1, Invariance, PTL

LEMMA ReadyFromInv == ServerInv => ReadyIsConsistent
  <1> SUFFICES ASSUME ServerInv, NEW c \in Clusters, pc[c] = "wait", Ready(c)
      PROVE  /\ idx[c].ver = hist[c] /\ hist[c] = disk[gc[c]].last
             /\ idx[c].dir = gc[c]
             /\ disk[gc[c]].files = TreeAt(c, hist[c])
             /\ count[c] = Cardinality(idx[c].objs)
    BY DEF ReadyIsConsistent
  <1>1. ClusterInv(c)
    BY DEF ServerInv
  <1>2. Indexed(c) /\ hist[c] = idx[c].ver /\ count[c] = Cardinality(idx[c].objs)
    BY <1>1 DEF ClusterInv, Loops
  <1>3. disk[gc[c]].files = TreeAt(c, disk[gc[c]].last)
    BY <1>1, <1>2 DEF ClusterInv, Whole, Indexed
  <1> QED
    BY <1>2, <1>3 DEF Indexed

\* Between two pulls, a cluster that the status and /healthz handlers call
\* ready has its resource list, its commit and change indexes and the files of
\* its clone from one commit of one clone, and reports the length of the list:
\* rebuildIndexes swaps them one after the other, yet recordPull(nil) is only
\* reached when they agree.
THEOREM ReadyConsistent == Spec => []ReadyIsConsistent
  BY ReadyFromInv, Invariance, PTL

LEMMA ReadableFromInv == ServerInv => HistoryIsReadable
  <1> SUFFICES ASSUME ServerInv, NEW c \in Clusters, gc[c] # NoDir, disk[gc[c]].there,
                      NEW n \in 1..hist[c]
      PROVE  HasCommit(gc[c], n)
    BY DEF HistoryIsReadable
  <1>1. gc[c] \in Dirs /\ hist[c] \in Nat /\ disk[gc[c]].last \in Nat
    BY DEF ServerInv, TypeOK, Clone
  <1>2. disk[gc[c]].first = 1 /\ hist[c] <= disk[gc[c]].last
    BY <1>1 DEF ServerInv, Complete, ClusterInv, Whole
  <1> QED
    BY <1>1, <1>2 DEF HasCommit

\* Every commit that the history handlers offer can be read from the clone
\* they share with the pull loop for as long as it exists: Clone fetches the
\* whole history and setCommitIndex never runs ahead of it.
THEOREM HistoryReadable == Spec => []HistoryIsReadable
  BY ReadableFromInv, Invariance, PTL

\* A file GetResource returns, unless it is read while the checkout rewrites
\* it, is one the object had in a published backup not older than the list in
\* which the handler found it, although the handler holds no lock between
\* index.Get and os.ReadFile.
THEOREM AnswersPublished == Spec => []AnswersArePublished
  <1>1. ServerInv => AnswersArePublished
    BY DEF ServerInv, Asked
  <1> QED
    BY <1>1, Invariance, PTL

-----------------------------------------------------------------------------
(* Refinement *)

HoldingsAreSeqs ==
  \A c \in Clusters :
    /\ Holdings[c] \in Seq(SUBSET Objs)
    /\ Len(Holdings[c]) = Len(remote[c])
    /\ \A n \in 1..Len(remote[c]) : Holdings[c][n] = Listing(c, n)

LEMMA HoldingsFacts == TypeOK => HoldingsAreSeqs
  <1> SUFFICES ASSUME TypeOK, NEW c \in Clusters
      PROVE  /\ Holdings[c] \in Seq(SUBSET Objs)
             /\ Len(Holdings[c]) = Len(remote[c])
             /\ \A n \in 1..Len(remote[c]) : Holdings[c][n] = Listing(c, n)
    BY DEF HoldingsAreSeqs
  <1>1. Len(remote[c]) \in Nat
    BY DEF TypeOK
  <1>2. Holdings[c] = [n \in 1..Len(remote[c]) |-> {o \in Objs : remote[c][n][o] # None}]
    BY DEF Holdings
  <1>3. Holdings[c] \in [1..Len(remote[c]) -> SUBSET Objs]
    BY <1>2
  <1>4. Holdings[c] \in Seq(SUBSET Objs) /\ Len(Holdings[c]) = Len(remote[c])
    BY <1>1, <1>3
  <1>5. \A n \in 1..Len(remote[c]) : Holdings[c][n] = Listing(c, n)
    BY <1>1, <1>2 DEF Listing, TreeAt
  <1> QED
    BY <1>4, <1>5

LEMMA InitRefines == Init => M!Init
  <1> SUFFICES ASSUME Init PROVE M!Init
    OBVIOUS
  <1>1. Holdings = [c \in Clusters |-> <<>>]
    <2>1. ASSUME NEW c \in Clusters PROVE Holdings[c] = <<>>
      <3>1. remote[c] = <<>>
        BY DEF Init
      <3>2. TypeOK
        BY InitInv DEF ServerInv
      <3>3. Holdings[c] \in Seq(SUBSET Objs) /\ Len(Holdings[c]) = 0
        BY <3>1, <3>2, HoldingsFacts DEF HoldingsAreSeqs
      <3> QED
        BY <3>3
    <2> QED
      BY <2>1 DEF Holdings
  <1>2. Shown = [c \in Clusters |-> [at |-> 0, objs |-> {}]]
    BY DEF Shown, Init, NoIndex
  <1> QED
    BY <1>1, <1>2 DEF M!Init, M!Nothing

LEMMA PublishRefines ==
  ASSUME TypeOK, TypeOK', NEW c \in Clusters, Publish(c)
  PROVE  M!Publish(c)
  <1>1. idx' = idx
    BY DEF Publish, shared
  <1>2. PICK t \in Tree : remote' = [remote EXCEPT ![c] = Append(@, t)]
    BY DEF Publish
  <1> DEFINE objs == {o \in Objs : t[o] # None}
  <1>3. remote \in [Clusters -> Seq(Tree)]
    BY DEF TypeOK
  <1>4. /\ remote'[c] = Append(remote[c], t) /\ Len(remote[c]) \in Nat
        /\ \A e \in Clusters \ {c} : remote'[e] = remote[e]
    BY <1>2, <1>3
  <1>5. /\ Len(remote'[c]) = Len(remote[c]) + 1
        /\ \A n \in 1..Len(remote[c]) : remote'[c][n] = remote[c][n]
        /\ remote'[c][Len(remote[c]) + 1] = t
    BY <1>3, <1>4, AppendGrows
  <1>6. HoldingsAreSeqs /\ HoldingsAreSeqs'
    <2>1. (TypeOK => HoldingsAreSeqs)'
      BY HoldingsFacts, PTL
    <2> QED
      BY <2>1, HoldingsFacts
  <1>7. /\ Append(Holdings[c], objs) \in Seq(SUBSET Objs)
        /\ Len(Append(Holdings[c], objs)) = Len(remote[c]) + 1
        /\ \A n \in 1..Len(remote[c]) : Append(Holdings[c], objs)[n] = Holdings[c][n]
        /\ Append(Holdings[c], objs)[Len(remote[c]) + 1] = objs
    <2>1. objs \in SUBSET Objs
      OBVIOUS
    <2> HIDE DEF objs
    <2> QED
      BY <1>6, <2>1, AppendGrows DEF HoldingsAreSeqs
  <1>8. Holdings'[c] = Append(Holdings[c], objs)
    <2>1. Holdings'[c] \in Seq(SUBSET Objs) /\ Len(Holdings'[c]) = Len(remote[c]) + 1
      BY <1>5, <1>6 DEF HoldingsAreSeqs
    <2>2. ASSUME NEW n \in 1..(Len(remote[c]) + 1)
          PROVE  Holdings'[c][n] = Append(Holdings[c], objs)[n]
      <3>1. Holdings'[c][n] = {o \in Objs : remote'[c][n][o] # None}
        BY <1>4, <1>5 DEF Holdings
      <3>2. CASE n = Len(remote[c]) + 1
        BY <1>5, <1>7, <3>1, <3>2
      <3>3. CASE n \in 1..Len(remote[c])
        <4>1. Holdings[c][n] = {o \in Objs : remote[c][n][o] # None}
          BY <3>3 DEF Holdings
        <4> QED
          BY <1>5, <1>7, <3>1, <3>3, <4>1
      <3>4. n = Len(remote[c]) + 1 \/ n \in 1..Len(remote[c])
        BY <1>4
      <3> QED
        BY <3>2, <3>3, <3>4
    <2> HIDE DEF objs
    <2> QED
      BY <1>7, <2>1, <2>2, SeqEqual
  <1>9. Holdings' = [Holdings EXCEPT ![c] = Append(@, objs)]
    <2>1. ASSUME NEW e \in Clusters \ {c} PROVE Holdings'[e] = Holdings[e]
      BY <1>4 DEF Holdings
    <2>2. Holdings' = [e \in Clusters |-> Holdings'[e]] /\ DOMAIN Holdings = Clusters
      BY DEF Holdings
    <2> HIDE DEF objs
    <2> QED
      BY <1>8, <2>1, <2>2, Zenon DEF Holdings
  <1>10. UNCHANGED Shown
    BY <1>1 DEF Shown
  <1> QED
    BY <1>9, <1>10 DEF M!Publish

LEMMA BuildIndexRefines ==
  ASSUME ServerInv, NEW c \in Clusters, BuildIndex(c)
  PROVE  M!Show(c) \/ UNCHANGED <<Holdings, Shown>>
  <1>1. pc[c] = "build" /\ UNCHANGED <<remote, disk>>
    BY DEF BuildIndex, At
  <1>2. UNCHANGED Holdings
    BY <1>1 DEF Holdings
  <1>3. CASE UNCHANGED idx
    BY <1>2, <1>3 DEF Shown
  <1> DEFINE last == disk[wd[c]].last
             objs == {o \in Objs : disk[wd[c]].files[o] # None}
  <1>4. CASE /\ HasSubDir(wd[c])
             /\ idx' = [idx EXCEPT ![c] = [ver |-> last, dir |-> wd[c], objs |-> objs]]
    <2>1. ClusterInv(c)
      BY DEF ServerInv
    <2>2. /\ wd[c] # NoDir /\ wd[c] = gc[c] /\ wd[c] \in Dirs /\ disk[wd[c]].there
      BY <1>4, <2>1 DEF HasSubDir, ClusterInv, Locals, ServerInv, TypeOK
    <2>3. /\ last \in Nat /\ Len(remote[c]) \in Nat /\ last <= Len(remote[c])
          /\ idx[c].ver <= last /\ disk[wd[c]].files = TreeAt(c, last)
          /\ idx[c].ver \in Nat
      BY <1>1, <2>1, <2>2 DEF ClusterInv, Whole, ServerInv, TypeOK, Clone, Index
    <2>4. objs = Listing(c, last)
      BY <2>3 DEF Listing
    <2> HIDE DEF last, objs
    <2>5. /\ Shown \in [Clusters -> [at : Nat, objs : SUBSET Objs]]
          /\ Shown[c] = [at |-> idx[c].ver, objs |-> idx[c].objs]
      BY DEF Shown, ServerInv, TypeOK, Index
    <2>6. Shown' = [Shown EXCEPT ![c] = [at |-> last, objs |-> objs]]
      <3>1. idx \in [Clusters -> Index]
        BY DEF ServerInv, TypeOK
      <3>2. /\ idx'[c].ver = last /\ idx'[c].objs = objs
            /\ \A e \in Clusters \ {c} : idx'[e] = idx[e]
        BY <1>4, <3>1
      <3> QED
        BY <3>2 DEF Shown
    <2>7. CASE last # 0
      <3>1. last \in 1..Len(remote[c])
        BY <2>3, <2>7
      <3>2. Len(Holdings[c]) = Len(remote[c]) /\ Holdings[c][last] = objs
        BY <2>4, <3>1, HoldingsFacts DEF HoldingsAreSeqs, ServerInv
      <3>3. last >= Shown[c].at
        BY <2>3, <2>5
      <3> QED
        BY <1>2, <2>6, <3>1, <3>2, <3>3 DEF M!Show
    <2>8. CASE last = 0
      <3>1. idx[c].ver = 0 /\ idx[c].objs = Listing(c, 0)
        BY <2>1, <2>3, <2>8 DEF ClusterInv, Indexes
      <3>2. Shown[c] = [at |-> last, objs |-> objs]
        BY <2>4, <2>5, <2>8, <3>1
      <3>3. Shown' = Shown
        BY <2>5, <2>6, <3>2
      <3> QED
        BY <1>2, <3>3
    <2> QED
      BY <2>7, <2>8
  <1> QED
    BY <1>3, <1>4 DEF BuildIndex

LEMMA DownRefines ==
  ASSUME Down, UNCHANGED remote
  PROVE  M!Restart
  <1>1. UNCHANGED Holdings
    BY DEF Holdings
  <1>2. Shown' = [c \in Clusters |-> [at |-> 0, objs |-> {}]]
    BY DEF Shown, Down, NoIndex
  <1> QED
    BY <1>1, <1>2 DEF M!Restart, M!Nothing

LEMMA NextRefines ==
  ServerInv /\ ServerInv' /\ [Next]_vars => [M!Next]_<<Holdings, Shown>>
  <1> SUFFICES ASSUME ServerInv, ServerInv', [Next]_vars
      PROVE  M!Next \/ UNCHANGED <<Holdings, Shown>>
    OBVIOUS
  <1>1. ASSUME NEW c \in Clusters, Publish(c) PROVE M!Next
    BY <1>1, PublishRefines DEF M!Next, ServerInv
  <1>2. ASSUME NEW c \in Clusters, BuildIndex(c) PROVE M!Next \/ UNCHANGED <<Holdings, Shown>>
    BY <1>2, BuildIndexRefines DEF M!Next
  <1>3. ASSUME Down, UNCHANGED remote PROVE M!Next
    BY <1>3, DownRefines DEF M!Next
  <1>4. ASSUME NEW c \in Clusters, NilPull(c) PROVE M!Next
    BY <1>3, <1>4 DEF NilPull
  <1>5. CASE ProbeRestart
    BY <1>3, <1>5 DEF ProbeRestart
  <1>6. ASSUME UNCHANGED <<remote, idx>> PROVE UNCHANGED <<Holdings, Shown>>
    BY <1>6 DEF Holdings, Shown
  <1>7. ASSUME NEW c \in Clusters,
               \/ Setup(c) \/ BuildHistory(c) \/ Record(c) \/ Pull(c) \/ Checkout(c)
               \/ Remove(c) \/ Reclone(c)
        PROVE  UNCHANGED <<remote, idx>>
    BY <1>7 DEF Setup, BuildHistory, Record, Pull, Checkout, Remove, Reclone, shared
  <1>8. CASE Start \/ Serve \/ Ask \/ Handler \/ UNCHANGED vars
    <2>1. UNCHANGED <<remote, idx>>
      BY <1>8 DEF Start, Serve, Ask, Handler, Lookup, ReadFile, RelPath, ReadFrom, ReadTo,
                  shared, vars
    <2> QED
      BY <1>6, <2>1
  <1> QED
    BY <1>1, <1>2, <1>4, <1>5, <1>6, <1>7, <1>8 DEF Next, Loop

\* The server implements Mirror: whatever index.Build swaps in is the complete
\* listing of one published backup and no older than the one it replaces, for
\* every interleaving of pulls, file by file checkouts, failed pulls and
\* re-clones of all clusters; only a restart forgets it.
THEOREM MirrorImplemented == Spec => MirrorsRepository
  BY Invariance, InitRefines, NextRefines, PTL DEF Spec, MirrorsRepository, M!Spec
=============================================================================
