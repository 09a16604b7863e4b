------------------------------- MODULE Server -------------------------------
(***************************************************************************)
(* The korpus server (cmd/server): one goroutine per cluster clones the    *)
(* cluster's backup repository, indexes it, and pulls and re-indexes it at *)
(* every tick; HTTP and MCP handlers read the shared ClusterState and the  *)
(* files of the clone at the same time, under locks that protect single    *)
(* fields only.                                                            *)
(*                                                                         *)
(* The history of a cluster's repository only grows (theorem               *)
(* HistoryImplemented of BackupProofs), so a clone is described by the     *)
(* number of commits it has; a commit is the tree of the cluster's files.  *)
(***************************************************************************)
EXTENDS Integers, Sequences, FiniteSets

CONSTANTS
  Clusters,      \* spec.clusters
  Objs,          \* the objects of a cluster, each with its file
  Specs,         \* contents of a file
  None,          \* no file
  Torn,          \* a file that is being rewritten
  Dirs,          \* names os.MkdirTemp may return
  NoDir,         \* no directory, a nil client
  SubDirIsRoot,  \* git.subDir is empty
  Probe,         \* the container is restarted when /healthz fails
  FaultKinds,    \* which faults may happen ...
  FaultyClusters,\* ... and for which clusters
  MaxFaults,     \* bound on their number
  MaxCommits     \* bound on the commits of each repository

ASSUME ServerConstants ==
  /\ None \notin Specs /\ Torn \notin Specs /\ Torn # None
  /\ NoDir \notin Dirs
  /\ Clusters # {} /\ Objs # {} /\ IsFiniteSet(Objs)
  /\ SubDirIsRoot \in BOOLEAN /\ Probe \in BOOLEAN
  /\ MaxFaults \in Nat /\ MaxCommits \in Nat

VARIABLES
  remote,   \* [Clusters -> Seq(Tree)]: the published backups
  disk,     \* [Dirs -> Clone]
  pc,       \* where each cluster's pull goroutine is
  gcl,      \* its local variable gc, as the directory it works on
  wd,       \* its local variable workDir
  gc,       \* ClusterState.gc and .workDir, set together by setGit
  idx,      \* ClusterState.idx: what the last index.Build has found
  hist,     \* ClusterState.commitIdx and .changeIdx, set together: the number
            \* of commits they cover, 0 for nil
  pulled,   \* ClusterState.lastPullAt and .lastPullErr: "never", "ok", "err"
  count,    \* ClusterState.resourceCount
  serving,  \* initWg.Wait() has returned and the HTTP server is started
  up,       \* the process runs
  panicked, \* ... and has ended by a panic
  req,      \* the request in progress, or the last one
  faults    \* number of faults so far

vars == <<remote, disk, pc, gcl, wd, gc, idx, hist, pulled, count, serving, up,
          panicked, req, faults>>
shared  == <<gc, idx, hist, pulled, count>>
process == <<serving, up, panicked>>

-----------------------------------------------------------------------------
(* Data *)

Blob  == Specs \cup {None}
Tree  == [Objs -> Blob]

\* A directory: its repository's first and last commits (last = 0: a
\* repository without commits; first > 1: a shallow one), the files, and
\* whether it is there at all.
Clone == [there : BOOLEAN, first : Nat, last : Nat, files : [Objs -> Blob \cup {Torn}]]

\* The in-memory index: the commit and directory it was built from and the
\* objects it lists.
Index == [ver : Nat, dir : Dirs \cup {NoDir}, objs : SUBSET Objs]

\* A request: "get" (GetResource, or a CEL query that needs the file), "diff"
\* (GetDiff) or "past" (GetHistoricalSnapshot).
Request == [op : {"none", "get", "diff", "past"}, at : {"start", "path", "from", "to", "done"},
            c : Clusters, o : Objs, from : Nat, to : Nat,
            meta : Index, res : {"none", "ok", "notfound", "error", "empty"},
            before : Blob \cup {Torn}, after : Blob \cup {Torn}]

EmptyTree == [o \in Objs |-> None]
NoClone   == [there |-> FALSE, first |-> 1, last |-> 0, files |-> EmptyTree]
NoIndex   == [ver |-> 0, dir |-> NoDir, objs |-> {}]
Idle      == [op |-> "none", at |-> "done", c |-> CHOOSE c \in Clusters : TRUE,
              o |-> CHOOSE o \in Objs : TRUE, from |-> 0, to |-> 0, meta |-> NoIndex,
              res |-> "none", before |-> None, after |-> None]

TreeAt(c, n) == IF n = 0 THEN EmptyTree ELSE remote[c][n]

\* Mutant: clone with depth 1.
ClonedShallow(c) == [there |-> TRUE, first |-> Len(remote[c]), last |-> Len(remote[c]),
                     files |-> TreeAt(c, Len(remote[c]))]

\* gitclient.Clone with depth 0: the whole history.
Cloned(c) == [there |-> TRUE, first |-> 1, last |-> Len(remote[c]),
              files |-> TreeAt(c, Len(remote[c]))]

\* A commit can be read from the repository in d.
HasCommit(d, n) == d # NoDir /\ disk[d].there /\ n \in disk[d].first .. disk[d].last

\* The directory index.Build walks exists: git keeps no empty directories.
HasSubDir(d) ==
  /\ d # NoDir
  /\ disk[d].there
  /\ SubDirIsRoot \/ \E o \in Objs : disk[d].files[o] # None

Fault(kind, c) ==
  /\ kind \in FaultKinds
  /\ c \in FaultyClusters
  /\ faults < MaxFaults
  /\ faults' = faults + 1

\* A name os.MkdirTemp returns; names nothing refers to any more stand for
\* new ones.
Fresh(d) ==
  /\ d \in Dirs
  /\ \A c \in Clusters : d \notin {gcl[c], wd[c], gc[c], idx[c].dir}
  /\ d # req.meta.dir

At(c, step) == up /\ pc[c] = step
Goto(c, step) == pc' = [pc EXCEPT ![c] = step]

-----------------------------------------------------------------------------
(* The pull goroutine of a cluster *)

\* Mutant: the error of a failed pull or build is dropped.
RecordPullDropsError(c, result) ==
  /\ pulled' = [pulled EXCEPT ![c] = "ok"]
  /\ count' = [count EXCEPT ![c] = Cardinality(idx[c].objs)]

\* Mutant: a failed pull marks the count as unknown.
RecordPullSentinel(c, result) ==
  /\ pulled' = [pulled EXCEPT ![c] = result]
  /\ count' = [count EXCEPT ![c] = IF result = "ok" THEN Cardinality(idx[c].objs)
                                                   ELSE 0 - 1]

\* ClusterState.recordPull.
RecordPull(c, result) ==
  /\ pulled' = [pulled EXCEPT ![c] = result]
  /\ count' = IF result = "ok" THEN [count EXCEPT ![c] = Cardinality(idx[c].objs)]
                               ELSE count

\* The first clone.  If it fails the goroutine returns, for good.
Setup(c) ==
  /\ At(c, "setup")
  /\ \/ /\ \E d \in Dirs : /\ Fresh(d)
                           /\ disk' = [disk EXCEPT ![d] = Cloned(c)]
                           /\ gcl' = [gcl EXCEPT ![c] = d]
                           /\ wd' = [wd EXCEPT ![c] = d]
                           /\ gc' = [gc EXCEPT ![c] = d]
        /\ Goto(c, "build")
        /\ UNCHANGED faults
     \/ /\ Fault("clone", c)
        /\ Goto(c, "dead")
        /\ UNCHANGED <<disk, gcl, wd, gc>>
  /\ UNCHANGED <<remote, idx, hist, pulled, count, process, req>>

\* Mutant: the new list is appended to the old one.
BuildIndexAppends(c) ==
  /\ At(c, "build")
  /\ \/ /\ HasSubDir(wd[c])
        /\ idx' = [idx EXCEPT ![c] =
             [ver  |-> disk[wd[c]].last, dir |-> wd[c],
              objs |-> @.objs \cup {o \in Objs : disk[wd[c]].files[o] # None}]]
        /\ Goto(c, "history")
        /\ UNCHANGED <<pulled, count>>
     \/ /\ ~HasSubDir(wd[c])
        /\ RecordPull(c, "err")
        /\ Goto(c, "wait")
        /\ UNCHANGED idx
  /\ UNCHANGED <<remote, disk, gcl, wd, gc, hist, process, req, faults>>

\* rebuildIndexes, first part: index.Build walks the clone and swaps the
\* list of resources.  A missing directory is an error.
BuildIndex(c) ==
  /\ At(c, "build")
  /\ \/ /\ HasSubDir(wd[c])
        /\ idx' = [idx EXCEPT ![c] =
             [ver  |-> disk[wd[c]].last, dir |-> wd[c],
              objs |-> {o \in Objs : disk[wd[c]].files[o] # None}]]
        /\ Goto(c, "history")
        /\ UNCHANGED <<pulled, count, faults>>
     \/ /\ ~HasSubDir(wd[c])
        /\ RecordPull(c, "err")
        /\ Goto(c, "wait")
        /\ UNCHANGED <<idx, faults>>
     \/ /\ Fault("build", c)
        /\ RecordPull(c, "err")
        /\ Goto(c, "wait")
        /\ UNCHANGED idx
  /\ UNCHANGED <<remote, disk, gcl, wd, gc, hist, process, req>>

\* rebuildIndexes, second part: the commit and change indexes are built from
\* the repository and swapped together.  git log fails without commits.
BuildHistory(c) ==
  /\ At(c, "history")
  /\ \/ /\ HasCommit(gc[c], disk[gc[c]].last)
        /\ hist' = [hist EXCEPT ![c] = disk[gc[c]].last]
        /\ Goto(c, "record")
        /\ UNCHANGED <<pulled, count, faults>>
     \/ /\ ~HasCommit(gc[c], disk[gc[c]].last)
        /\ RecordPull(c, "err")
        /\ Goto(c, "wait")
        /\ UNCHANGED <<hist, faults>>
     \/ /\ Fault("git", c)
        /\ RecordPull(c, "err")
        /\ Goto(c, "wait")
        /\ UNCHANGED hist
  /\ UNCHANGED <<remote, disk, gcl, wd, gc, idx, process, req>>

Record(c) ==
  /\ At(c, "record")
  /\ RecordPull(c, "ok")
  /\ Goto(c, "wait")
  /\ UNCHANGED <<remote, disk, gcl, wd, gc, idx, hist, process, req, faults>>

\* Mutant: the ticker only rebuilds the indexes.
PullNever(c) ==
  /\ At(c, "wait")
  /\ gcl[c] # NoDir
  /\ Goto(c, "build")
  /\ UNCHANGED <<remote, disk, gcl, wd, shared, process, req, faults>>

\* The ticker fires and the goroutine calls gc.Pull().  A repository without
\* commits, and a directory that is gone, do not fetch; otherwise the commits
\* are fetched and the working tree follows file by file.
Pull(c) ==
  /\ At(c, "wait")
  /\ gcl[c] # NoDir
  /\ LET d == gcl[c] IN
     \/ /\ ~disk[d].there \/ disk[d].last = 0
        /\ Goto(c, "build")
        /\ UNCHANGED <<disk, faults>>
     \/ /\ disk[d].there /\ disk[d].last # 0
        /\ disk' = [disk EXCEPT ![d].last = Len(remote[c])]
        /\ Goto(c, "checkout")
        /\ UNCHANGED faults
     \/ /\ disk[d].there /\ disk[d].last # 0
        /\ Fault("pull", c)
        /\ Goto(c, "remove")
        /\ UNCHANGED disk
  /\ UNCHANGED <<remote, gcl, wd, shared, process, req>>

\* Mutant: the commits are fetched, the working tree stays.
FetchOnly(c) ==
  /\ At(c, "checkout")
  /\ Goto(c, "build")
  /\ UNCHANGED <<remote, disk, gcl, wd, shared, process, req, faults>>

\* The checkout removes a file, or truncates and then fills it; it may fail
\* at any point.
Checkout(c) ==
  /\ At(c, "checkout")
  /\ LET d   == gcl[c]
         new == TreeAt(c, disk[d].last)
     IN \/ /\ \E o \in Objs :
                /\ disk[d].files[o] # new[o]
                /\ disk' = [disk EXCEPT ![d].files[o] =
                     IF new[o] = None \/ @ = Torn THEN new[o] ELSE Torn]
           /\ UNCHANGED <<pc, faults>>
        \/ /\ disk[d].files = new
           /\ Goto(c, "build")
           /\ UNCHANGED <<disk, faults>>
        \/ /\ Fault("pull", c)
           /\ Goto(c, "remove")
           /\ UNCHANGED disk
  /\ UNCHANGED <<remote, gcl, wd, shared, process, req>>

\* The pull failed: the goroutine removes its directory, which the shared
\* state and the index still name.
Remove(c) ==
  /\ At(c, "remove")
  /\ disk' = IF wd[c] = NoDir THEN disk ELSE [disk EXCEPT ![wd[c]] = NoClone]
  /\ Goto(c, "reclone")
  /\ UNCHANGED <<remote, gcl, wd, shared, process, req, faults>>

\* ... and clones again.  gc is nil after a failed clone.
Reclone(c) ==
  /\ At(c, "reclone")
  /\ \/ /\ \E d \in Dirs : /\ Fresh(d)
                           /\ disk' = [disk EXCEPT ![d] = Cloned(c)]
                           /\ gcl' = [gcl EXCEPT ![c] = d]
                           /\ wd' = [wd EXCEPT ![c] = d]
                           /\ gc' = [gc EXCEPT ![c] = d]
        /\ Goto(c, "build")
        /\ UNCHANGED <<pulled, count, faults>>
     \/ /\ Fault("clone", c)
        /\ gcl' = [gcl EXCEPT ![c] = NoDir]
        /\ wd' = [wd EXCEPT ![c] = NoDir]
        /\ RecordPull(c, "err")
        /\ Goto(c, "wait")
        /\ UNCHANGED <<disk, gc>>
     \/ /\ Fault("mkdir", c)
        /\ wd' = [wd EXCEPT ![c] = NoDir]
        /\ RecordPull(c, "err")
        /\ Goto(c, "wait")
        /\ UNCHANGED <<disk, gcl, gc>>
  /\ UNCHANGED <<remote, idx, hist, process, req>>

\* Everything the process knew is gone.
Down ==
  /\ up' = FALSE
  /\ serving' = FALSE
  /\ disk' = [d \in Dirs |-> NoClone]
  /\ pc' = [c \in Clusters |-> "setup"]
  /\ gcl' = [c \in Clusters |-> NoDir]
  /\ wd' = [c \in Clusters |-> NoDir]
  /\ gc' = [c \in Clusters |-> NoDir]
  /\ idx' = [c \in Clusters |-> NoIndex]
  /\ hist' = [c \in Clusters |-> 0]
  /\ pulled' = [c \in Clusters |-> "never"]
  /\ count' = [c \in Clusters |-> 0]
  /\ req' = Idle

\* gc.Pull() on the nil client of a failed re-clone ends the process.
NilPull(c) ==
  /\ At(c, "wait")
  /\ gcl[c] = NoDir
  /\ Down
  /\ panicked' = TRUE
  /\ UNCHANGED <<remote, faults>>

-----------------------------------------------------------------------------
(* The process *)

Start ==
  /\ ~up
  /\ up' = TRUE
  /\ panicked' = FALSE
  /\ UNCHANGED <<remote, disk, pc, gcl, wd, shared, serving, req, faults>>

\* initWg: every goroutine has built its first index, or has given up.
InitDone(c) == pc[c] \notin {"setup", "build", "history", "record"} \/ pulled[c] # "never"

Serve ==
  /\ up /\ ~serving
  /\ \A c \in Clusters : InitDone(c)
  /\ serving' = TRUE
  /\ UNCHANGED <<remote, disk, pc, gcl, wd, shared, up, panicked, req, faults>>

\* ClusterState.ready and the Healthz handler.
Ready(c) == pulled[c] = "ok"
Healthz == \A c \in Clusters : Ready(c)

\* The kubelet restarts a container whose liveness probe keeps failing.
ProbeRestart ==
  /\ Probe
  /\ serving
  /\ ~Healthz
  /\ Down
  /\ panicked' = FALSE
  /\ UNCHANGED <<remote, faults>>

\* The daemon publishes a backup.
Publish(c) ==
  /\ Len(remote[c]) < MaxCommits
  /\ \E t \in Tree :
       /\ t # TreeAt(c, Len(remote[c]))
       /\ remote' = [remote EXCEPT ![c] = Append(@, t)]
  /\ UNCHANGED <<disk, pc, gcl, wd, shared, process, req, faults>>

-----------------------------------------------------------------------------
(* Requests.  Handlers only read, so one at a time shows every answer. *)

\* A client asks for an object, or for the change between two commits of the
\* history it was shown, or for the state at one of them.
Ask ==
  /\ serving
  /\ req.at = "done"
  /\ \E c \in Clusters, o \in Objs :
       \/ req' = [Idle EXCEPT !.op = "get", !.at = "start", !.c = c, !.o = o]
       \/ \E from, to \in 1..hist[c] :
            req' = [Idle EXCEPT !.op = "diff", !.at = "start", !.c = c, !.o = o,
                                !.from = from, !.to = to]
       \/ \E n \in 1..hist[c] :
            req' = [Idle EXCEPT !.op = "past", !.at = "from", !.c = c, !.o = o,
                                !.from = n]
  /\ UNCHANGED <<remote, disk, pc, gcl, wd, shared, process, faults>>

Answer(res) == req' = [req EXCEPT !.at = "done", !.res = res]

\* index.Get, the first step of GetResource and GetDiff.  GetDiff looks for
\* an object the index does not list in the tree of the commit `from'.
Lookup ==
  /\ req.at = "start"
  /\ LET i == idx[req.c]
         there == HasCommit(gc[req.c], req.from) /\ TreeAt(req.c, req.from)[req.o] # None
     IN \/ /\ req.o \in i.objs
           /\ req' = [req EXCEPT !.at = "path", !.meta = i]
        \/ /\ req.o \notin i.objs
           /\ req.op = "get" \/ ~there
           /\ Answer("notfound")
        \/ /\ req.o \notin i.objs
           /\ req.op = "diff" /\ there
           /\ req' = [req EXCEPT !.at = "from"]
  /\ UNCHANGED <<remote, disk, pc, gcl, wd, shared, process, faults>>

\* GetResource reads the file the index entry names.
ReadFile ==
  /\ req.at = "path" /\ req.op = "get"
  /\ LET blob == disk[req.meta.dir].files[req.o]
     IN req' = [req EXCEPT !.at = "done", !.before = blob,
                           !.res = IF blob = None THEN "error" ELSE "ok"]
  /\ UNCHANGED <<remote, disk, pc, gcl, wd, shared, process, faults>>

\* GetDiff makes the entry's path relative to the current working directory.
RelPath ==
  /\ req.at = "path" /\ req.op = "diff"
  /\ IF req.meta.dir = gc[req.c] THEN req' = [req EXCEPT !.at = "from"]
                                 ELSE Answer("notfound")
  /\ UNCHANGED <<remote, disk, pc, gcl, wd, shared, process, faults>>

\* FileAt of the first commit; for a historical snapshot, the commit that
\* FindBefore gave, whose absence is skipped silently.
ReadFrom ==
  /\ req.at = "from"
  /\ LET found == HasCommit(gc[req.c], req.from)
         blob  == TreeAt(req.c, req.from)[req.o]
     IN \/ /\ req.op = "past"
           /\ req' = [req EXCEPT !.at = "done", !.before = IF found THEN blob ELSE None,
                                 !.res = IF found THEN "ok" ELSE "empty"]
        \/ /\ req.op = "diff" /\ found /\ blob # None
           /\ req' = [req EXCEPT !.at = "to", !.before = blob]
        \/ /\ req.op = "diff" /\ ~(found /\ blob # None)
           /\ Answer("error")
  /\ UNCHANGED <<remote, disk, pc, gcl, wd, shared, process, faults>>

ReadTo ==
  /\ req.at = "to"
  /\ LET blob == TreeAt(req.c, req.to)[req.o]
     IN IF HasCommit(gc[req.c], req.to) /\ blob # None
        THEN req' = [req EXCEPT !.at = "done", !.after = blob, !.res = "ok"]
        ELSE Answer("error")
  /\ UNCHANGED <<remote, disk, pc, gcl, wd, shared, process, faults>>

-----------------------------------------------------------------------------
Init ==
  /\ remote = [c \in Clusters |-> <<>>]
  /\ disk = [d \in Dirs |-> NoClone]
  /\ pc = [c \in Clusters |-> "setup"]
  /\ gcl = [c \in Clusters |-> NoDir]
  /\ wd = [c \in Clusters |-> NoDir]
  /\ gc = [c \in Clusters |-> NoDir]
  /\ idx = [c \in Clusters |-> NoIndex]
  /\ hist = [c \in Clusters |-> 0]
  /\ pulled = [c \in Clusters |-> "never"]
  /\ count = [c \in Clusters |-> 0]
  /\ serving = FALSE /\ up = FALSE /\ panicked = FALSE
  /\ req = Idle
  /\ faults = 0

Loop(c) ==
  \/ Setup(c) \/ BuildIndex(c) \/ BuildHistory(c) \/ Record(c) \/ Pull(c)
  \/ Checkout(c) \/ Remove(c) \/ Reclone(c) \/ NilPull(c)

Handler == Lookup \/ ReadFile \/ RelPath \/ ReadFrom \/ ReadTo

Next ==
  \/ \E c \in Clusters : Loop(c) \/ Publish(c)
  \/ Start \/ Serve \/ ProbeRestart \/ Ask \/ Handler

Spec == Init /\ [][Next]_vars

\* The tickers keep firing, the goroutines keep going and the container is
\* restarted; nothing makes the daemon publish.
FairSpec ==
  /\ Spec
  /\ \A c \in Clusters : WF_vars(Loop(c))
  /\ WF_vars(Start) /\ WF_vars(Serve) /\ WF_vars(ProbeRestart)

-----------------------------------------------------------------------------
(* Properties *)

TypeOK ==
  /\ remote \in [Clusters -> Seq(Tree)]
  /\ disk \in [Dirs -> Clone]
  /\ pc \in [Clusters -> {"setup", "build", "history", "record", "wait",
                          "checkout", "remove", "reclone", "dead"}]
  /\ gcl \in [Clusters -> Dirs \cup {NoDir}]
  /\ wd \in [Clusters -> Dirs \cup {NoDir}]
  /\ gc \in [Clusters -> Dirs \cup {NoDir}]
  /\ idx \in [Clusters -> Index]
  /\ hist \in [Clusters -> Nat]
  /\ pulled \in [Clusters -> {"never", "ok", "err"}]
  /\ count \in [Clusters -> Nat]
  /\ serving \in BOOLEAN /\ up \in BOOLEAN /\ panicked \in BOOLEAN
  /\ req \in Request
  /\ faults \in Nat

\* Between two pulls a cluster that status() and /healthz call ready answers
\* lists, history and files from one and the same commit of one clone, and
\* reports the number of resources it lists.
ReadyIsConsistent ==
  \A c \in Clusters : up /\ pc[c] = "wait" /\ Ready(c) =>
     /\ idx[c].ver = hist[c] /\ hist[c] = disk[gc[c]].last
     /\ idx[c].dir = gc[c]
     /\ disk[gc[c]].files = TreeAt(c, hist[c])
     /\ count[c] = Cardinality(idx[c].objs)

\* Every commit the history endpoints show can be read from the shared
\* repository for as long as its directory exists: re-clones are complete,
\* and a pull never leaves the commit index ahead of the repository.
HistoryIsReadable ==
  \A c \in Clusters : gc[c] # NoDir /\ disk[gc[c]].there =>
     \A n \in 1..hist[c] : HasCommit(gc[c], n)

\* A file GetResource returns, if it is not caught half-written, is one the
\* object had in a published backup, and no older one than the list in which
\* it was found, whatever pulls and re-clones happen in between.
AnswersArePublished ==
  req.op = "get" /\ req.res = "ok" /\ req.before # Torn =>
     \E n \in req.meta.ver .. Len(remote[req.c]) :
        n # 0 /\ TreeAt(req.c, n)[req.o] = req.before

\* No cluster's goroutine ends the process, and with it the index updates of
\* the other clusters.
NoPanic == ~panicked

Current(c) == /\ idx[c].ver = Len(remote[c])
              /\ hist[c] = Len(remote[c])
              /\ Ready(c)

\* The latest backup of a cluster has a file below subDir.
HasBackup(c) ==
  /\ remote[c] # <<>>
  /\ SubDirIsRoot \/ TreeAt(c, Len(remote[c])) # EmptyTree

\* Once every cluster has a backup and the faults end, every cluster is
\* eventually indexed at its latest commit and stays so: pulls, re-clones and
\* restarts by the probe on /healthz make up for failed pulls, clones and
\* builds, for an empty repository at the start and for panics.
CatchesUp ==
  (\A c \in Clusters : <>[]HasBackup(c)) => \A c \in Clusters : <>[]Current(c)

-----------------------------------------------------------------------------
(* Refinement *)

\* What Mirror sees of the published backups and of index.Index.
Holdings == [c \in Clusters |->
  [n \in 1..Len(remote[c]) |-> {o \in Objs : remote[c][n][o] # None}]]
Shown == [c \in Clusters |-> [at |-> idx[c].ver, objs |-> idx[c].objs]]

M == INSTANCE Mirror WITH history <- Holdings, shown <- Shown

\* Whatever index.Build swaps in is the complete listing of one published
\* backup and no older than the one it replaces, across failed pulls, file by
\* file checkouts and re-clones; only a restart forgets it.
MirrorsRepository == M!Spec
=============================================================================
