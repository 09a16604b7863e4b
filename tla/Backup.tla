------------------------------- MODULE Backup -------------------------------
(***************************************************************************)
(* The korpus daemon (cmd/korpus): a cron job lists the objects of a       *)
(* Kubernetes cluster, writes one YAML file per object under               *)
(* spec.git.subDir of a working clone, removes the files of objects it did *)
(* not see, and commits and pushes the result to a shared git repository.  *)
(*                                                                         *)
(* The cron library starts every run in a goroutine of its own and is      *)
(* created without a SkipIfStillRunning or Recover wrapper, so the runs of *)
(* one process (the set Runs) may overlap, share the runner's workDir and  *)
(* gc fields and the configuration's celCtx, and a panic of one ends the   *)
(* process.  With Runs a singleton every run ends before the next tick.    *)
(*                                                                         *)
(* A commit history is the sequence of its commits; a shallow clone        *)
(* (depth 1) knows only the last one but tells the same histories apart,   *)
(* because a commit names its parent.                                      *)
(***************************************************************************)
EXTENDS Naturals, FiniteSets, SequencesExt

CONSTANTS
  Objs,          \* the objects the cluster may hold; an object names its file
  Foreign,       \* files outside subDir: other clusters, READMEs
  Gvrs,          \* resource types
  GvrOf,         \* [Objs -> Gvrs]
  ExcludedGvrs,  \* types for which config.IsExcluded holds
  ExcludedObjs,  \* objects for which Is(Builtin)ObjectExcluded holds
  CelRuled,      \* objects that match a rule with an excludeIf program
  CelVerdict,    \* [Objs -> {"keep", "skip", "error"}]: the program's result
  Specs,         \* what remains of an object after its fields are stripped
  Noises,        \* the stripped fields (status, resourceVersion, ...)
  None,          \* no object, no file
  Runs,          \* run goroutines
  Dirs,          \* names os.MkdirTemp may return
  NoDir,         \* workDir = "": paths are relative to the process's cwd
  SubDirIsRoot,  \* spec.git.subDir is empty
  FaultKinds,    \* which faults may happen
  MaxFaults,     \* bound on their number
  MaxEdits,      \* bound on changes of the cluster's objects
  MaxOther,      \* bound on commits of other writers of the repository
  MaxHistory     \* no run starts once the branch has this many commits: only
                 \* overlapping runs, which may undo each other, get there

ASSUME ConstantTypes ==
  /\ Objs \cap Foreign = {}
  /\ GvrOf \in [Objs -> Gvrs]
  /\ CelVerdict \in [Objs -> {"keep", "skip", "error"}]
  /\ None \notin Specs
  /\ None \notin Objs
  /\ NoDir \notin Dirs
  /\ SubDirIsRoot \in BOOLEAN
  /\ MaxFaults \in Nat /\ MaxEdits \in Nat /\ MaxOther \in Nat
  /\ MaxHistory \in Nat

ASSUME NoneIsNoRecord ==
  \A s \in Specs, n \in Noises : [spec |-> s, noise |-> n] # None

VARIABLES
  cluster,   \* [Objs -> Raw \cup {None}]: the API server's objects
  seen,      \* history: what each object's file should have held at some
             \* time since the last published backup
  remote,    \* the commits of the configured branch, oldest first
  phase,     \* the process: "down", "up" or "stopping" (after SIGTERM)
  work,      \* runner.workDir; runner.gc is nil exactly when it is NoDir
  doomed,    \* the directory of main's deferred os.RemoveAll
  disk,      \* [Dirs \cup {NoDir} -> Dir]: the local file system
  run,       \* [Runs -> Run]: the local state of each run
  celItem,   \* celItemContext.item
  faults,    \* number of faults so far
  edits,     \* number of changes of cluster objects so far
  others,    \* number of commits of other writers so far
  panicked   \* a goroutine has panicked in the current process

vars == <<cluster, seen, remote, phase, work, doomed, disk, run,
          celItem, faults, edits, others, panicked>>
env  == <<cluster, seen, edits>>
proc == <<phase, doomed, panicked>>

-----------------------------------------------------------------------------
(* Data *)

Raw    == [spec : Specs, noise : Noises]
Blob   == Specs \cup {None}
Paths  == Objs \cup Foreign
Tree   == [Paths -> Blob]
Commit == [by : {"korpus", "other"}, tree : Tree]
Places == Dirs \cup {NoDir}

\* A directory: does it hold a repository, its branch's commits, the files
\* of the working tree, and does subDir exist in it?
Dir == [git : BOOLEAN, log : Seq(Commit), files : Tree, sub : BOOLEAN]

Steps == {"idle", "pull", "reset", "remove", "clone", "discover", "list",
          "items", "eval", "clean", "status", "commit", "push"}

\* pc: next step; then: where to go after a reset ("idle": return an error);
\* out: the last run's outcome; dir: the directory subDir was computed from;
\* tgt: the directory a reset or a push works on; todo: types still to list;
\* items: the objects of the type being processed; item: the one at hand;
\* curr: currPaths, with the content written at each path.
Run == [pc : Steps, then : {"idle", "discover"},
        out : {"none", "success", "failure"},
        dir : Places, tgt : Places, todo : SUBSET Gvrs,
        items : [Objs -> Raw \cup {None}], item : Objs \cup {None},
        curr : [Objs -> Blob]]

EmptyTree == [p \in Paths |-> None]
NoItems   == [o \in Objs |-> None]
Gone      == [git |-> FALSE, log |-> <<>>, files |-> EmptyTree, sub |-> FALSE]
IdleRun   == [pc |-> "idle", then |-> "idle", out |-> "none", dir |-> NoDir,
              tgt |-> NoDir, todo |-> {}, items |-> NoItems, item |-> None,
              curr |-> NoItems]

HeadTree(log) == IF log = <<>> THEN EmptyTree ELSE log[Len(log)].tree
Own(t)    == [o \in Objs |-> t[o]]
Others(t) == [p \in Foreign |-> t[p]]

\* Mutant: the fields are not stripped.
StripNothing(raw) == raw

\* sanitizer.DeleteFields followed by yaml.Marshal: what a file records.
Strip(raw) == raw.spec

\* What the file of each object should hold.
Want(objects) ==
  [o \in Objs |->
     IF \/ objects[o] = None
        \/ GvrOf[o] \in ExcludedGvrs
        \/ o \in ExcludedObjs
        \/ o \in CelRuled /\ CelVerdict[o] = "skip"
     THEN None ELSE objects[o].spec]

\* A file created in d: os.MkdirAll creates the directories on its path, and
\* so a directory that was removed comes back without its repository.
WriteFile(d, o, blob) ==
  [d EXCEPT !.files[o] = blob, !.sub = TRUE]

\* Mutant: obsolete files are searched from the root of the repository.
CleanWholeRepo(d, curr) ==
  [d EXCEPT !.files =
     [p \in Paths |-> IF p \in Objs /\ curr[p] # None THEN @[p] ELSE None]]

\* Mutant: obsolete files are never removed.
CleanNothing(d, curr) == d

\* store.CleanObsolete: the .yaml files under subDir at no path of currPaths
\* are removed; the directories stay.
CleanObsolete(d, curr) ==
  [d EXCEPT !.files =
     [p \in Paths |-> IF p \in Objs /\ curr[p] = None THEN None ELSE @[p]]]

\* gitclient.Clone: a repository with the remote's branch checked out; an
\* empty remote gives an empty repository.
Cloned(log) ==
  [git |-> TRUE, log |-> log, files |-> HeadTree(log),
   sub |-> SubDirIsRoot \/ \E o \in Objs : HeadTree(log)[o] # None]

\* gitclient.Pull has nothing to do: a repository without commits does not
\* fetch, and one with commits may be level with or ahead of the remote.
UpToDate(d) == d.log = <<>> \/ (remote # <<>> /\ IsPrefix(remote, d.log))

\* Files that differ from HEAD other than by being new.
Unstaged(d) ==
  \E p \in Paths : HeadTree(d.log)[p] # None /\ d.files[p] # HeadTree(d.log)[p]

\* The working trees a fast-forward to log may leave.  Files git does not
\* track are kept or removed, depending on the library's merge reset.
FastForwards(d, log) ==
  LET new == HeadTree(log)
      untracked(p) == HeadTree(d.log)[p] = None /\ new[p] = None
      kept == [p \in Paths |-> IF untracked(p) THEN d.files[p] ELSE new[p]]
  IN {[d EXCEPT !.log = log, !.files = f,
                !.sub = @ \/ \E o \in Objs : f[o] # None] : f \in {new, kept}}

-----------------------------------------------------------------------------
(* Faults of the environment, each taken from a common budget. *)

Fault(kind) == kind \in FaultKinds /\ faults < MaxFaults /\ faults' = faults + 1

At(r, pc) == phase # "down" /\ run[r].pc = pc

\* The local state of run r and the content of directory d change.
Local(r, rec) == run' = [run EXCEPT ![r] = rec]
Store(d, dir) == disk' = [disk EXCEPT ![d] = dir]

Goto(r, pc) == Local(r, [run[r] EXCEPT !.pc = pc])

\* runOnce returns and run() counts the outcome.
Finish(r, out) == Local(r, [IdleRun EXCEPT !.out = out])

\* The process ends, by a panic of a goroutine, a signal or an exit: its
\* goroutines are gone, and with them the names of its directories.
Die(byPanic) ==
  /\ phase' = "down"
  /\ work' = NoDir
  /\ doomed' = NoDir
  /\ disk' = [d \in Places |-> Gone]
  /\ run' = [r \in Runs |-> IdleRun]
  /\ celItem' = None
  /\ panicked' = byPanic

\* A method call through the nil pointer runner.gc.
NilGc(r) ==
  /\ run[r].pc \in {"pull", "status", "commit"}
  /\ phase # "down"
  /\ work = NoDir
  /\ Die(TRUE)
  /\ UNCHANGED <<env, remote, faults, others>>

-----------------------------------------------------------------------------
(* The cron job *)

\* The schedule fires.  c.Stop() in main's defers stops the schedule only.
Tick(r) ==
  /\ phase = "up"
  /\ run[r].pc = "idle"
  /\ Len(remote) < MaxHistory
  /\ Local(r, [IdleRun EXCEPT !.pc = "pull"])
  /\ UNCHANGED <<env, proc, remote, work, disk, celItem, faults, others>>

\* Mutant: a failed push leaves the clone, with its commit, for the next run.
ResetAfterPullOnly(r, then) ==
  IF then = "idle" THEN Finish(r, "failure")
                   ELSE Local(r, [IdleRun EXCEPT !.pc = "reset", !.then = then])

\* After a failed git operation: runner.reset, then `then'.
ResetThen(r, then) ==
  Local(r, [IdleRun EXCEPT !.pc = "reset", !.then = then])

\* gitclient.Pull: a history the remote does not extend, and changes of
\* tracked files when there is something to merge, are errors.  In a
\* directory that is gone HEAD may not be found, which Pull takes for a
\* repository without commits.
Pull(r) ==
  /\ At(r, "pull")
  /\ work # NoDir
  /\ LET d == disk[work]
         mergeable == IsPrefix(d.log, remote) /\ ~Unstaged(d)
     IN \/ /\ ~d.git \/ UpToDate(d)
           /\ Goto(r, "discover")
           /\ UNCHANGED <<disk, faults>>
        \/ /\ d.git /\ ~UpToDate(d) /\ mergeable
           /\ \E new \in FastForwards(d, remote) : Store(work, new)
           /\ Goto(r, "discover")
           /\ UNCHANGED faults
        \/ /\ ~d.git \/ (~UpToDate(d) /\ ~mergeable)
           /\ ResetThen(r, "discover")
           /\ UNCHANGED <<disk, faults>>
        \/ /\ d.log # <<>> /\ Fault("pull")
           /\ ResetThen(r, "discover")
           /\ UNCHANGED disk
  /\ UNCHANGED <<env, proc, remote, work, celItem, others>>

\* runner.reset reads workDir and starts to remove it.
Reset(r) ==
  /\ At(r, "reset")
  /\ Local(r, [run[r] EXCEPT !.pc = IF work = NoDir THEN "clone" ELSE "remove",
                             !.tgt = work])
  /\ UNCHANGED <<env, proc, remote, work, disk, celItem, faults, others>>

\* os.RemoveAll deletes entry by entry, in the order the directory is read.
EraseEntry(d) ==
  \/ \E p \in Paths : /\ disk[d].files[p] # None
                      /\ Store(d, [disk[d] EXCEPT !.files[p] = None])
  \/ /\ disk[d].git
     /\ Store(d, [disk[d] EXCEPT !.git = FALSE])

Erase(r) ==
  /\ At(r, "remove")
  /\ EraseEntry(run[r].tgt)
  /\ UNCHANGED <<env, proc, remote, work, run, celItem, faults, others>>

\* The directory is gone; runner.workDir and runner.gc are cleared.
Removed(r) ==
  /\ At(r, "remove")
  /\ Store(run[r].tgt, Gone)
  /\ work' = NoDir
  /\ Local(r, [run[r] EXCEPT !.pc = "clone", !.tgt = NoDir])
  /\ UNCHANGED <<env, proc, remote, celItem, faults, others>>

\* A name os.MkdirTemp returns.  Names nothing refers to any more stand for
\* new ones, so that directories overlapping runs leak need no bound.
Fresh(d) ==
  /\ d \in Dirs \ {work, doomed}
  /\ \A s \in Runs : d \notin {run[s].dir, run[s].tgt}

\* runner.init, called by reset.
InitRunner(r) ==
  /\ At(r, "clone")
  /\ \/ /\ \E d \in Dirs : /\ Fresh(d)
                           /\ Store(d, Cloned(remote))
                           /\ work' = d
        /\ IF run[r].then = "discover" THEN Goto(r, "discover")
                                       ELSE Finish(r, "failure")
        /\ UNCHANGED faults
     \/ /\ Fault("clone")
        /\ Finish(r, "failure")
        /\ UNCHANGED <<disk, work>>
  /\ UNCHANGED <<env, proc, remote, celItem, others>>

\* discovery.ListPreferredResources: an error leaves some types, or all of
\* them, out of the answer; the run goes on with the rest.  subDir is then
\* computed from workDir.
Discover(r) ==
  /\ At(r, "discover")
  /\ \E found \in SUBSET Gvrs :
       /\ \/ found = Gvrs /\ UNCHANGED faults
          \/ found # Gvrs /\ Fault("discovery")
       /\ Local(r, [run[r] EXCEPT !.pc = "list", !.dir = work,
                                  !.todo = found \ ExcludedGvrs])
  /\ UNCHANGED <<env, proc, remote, work, disk, celItem, others>>

\* fetcher.ListAll of one type: a consistent list, or an error that skips it.
ListAll(r) ==
  /\ At(r, "list")
  /\ \E g \in run[r].todo :
     \/ /\ Local(r, [run[r] EXCEPT !.pc = "items", !.todo = @ \ {g},
                       !.items = [o \in Objs |-> IF GvrOf[o] = g THEN cluster[o]
                                                                ELSE None]])
        /\ UNCHANGED faults
     \/ /\ Fault("list")
        /\ Local(r, [run[r] EXCEPT !.todo = @ \ {g}])
  /\ UNCHANGED <<env, proc, remote, work, disk, celItem, others>>

\* The loop over the types is over.
ListDone(r) ==
  /\ At(r, "list")
  /\ run[r].todo = {}
  /\ Goto(r, "clean")
  /\ UNCHANGED <<env, proc, remote, work, disk, celItem, faults, others>>

\* The loop over the items is over.
ItemsDone(r) ==
  /\ At(r, "items")
  /\ run[r].items = NoItems
  /\ Goto(r, "list")
  /\ UNCHANGED <<env, proc, remote, work, disk, celItem, faults, others>>

\* Mutant: celCtx is set once, to the first item that needs it.
ItemKeepsContext(r) ==
  /\ At(r, "items")
  /\ \E o \in Objs :
     /\ run[r].items[o] # None
     /\ \/ /\ o \in ExcludedObjs
           /\ Local(r, [run[r] EXCEPT !.items[o] = None])
           /\ UNCHANGED celItem
        \/ /\ o \notin ExcludedObjs
           /\ Local(r, [run[r] EXCEPT !.pc = "eval", !.item = o])
           /\ celItem' = IF o \in CelRuled /\ celItem = None THEN o ELSE celItem
  /\ UNCHANGED <<env, proc, remote, work, disk, faults, others>>

\* The next item: skipped by an object rule, or handed to the excludeIf
\* programs through the shared celCtx.
Item(r) ==
  /\ At(r, "items")
  /\ \E o \in Objs :
     /\ run[r].items[o] # None
     /\ \/ /\ o \in ExcludedObjs
           /\ Local(r, [run[r] EXCEPT !.items[o] = None])
           /\ UNCHANGED celItem
        \/ /\ o \notin ExcludedObjs
           /\ Local(r, [run[r] EXCEPT !.pc = "eval", !.item = o])
           /\ celItem' = IF o \in CelRuled THEN o ELSE celItem
  /\ UNCHANGED <<env, proc, remote, work, disk, faults, others>>

\* IsCELObjectExcluded: the program reads the object of celCtx; an
\* evaluation error includes the item.
CelExcludes(o) == o \in CelRuled /\ celItem # None /\ CelVerdict[celItem] = "skip"

\* Mutant: a file WriteSingle finds unchanged is not added to currPaths.
WriteItemIfChanged(r) ==
  /\ At(r, "eval")
  /\ LET o    == run[r].item
         blob == Strip(run[r].items[o])
         next == [run[r] EXCEPT !.pc = "items", !.items[o] = None, !.item = None]
     IN /\ Store(run[r].dir, WriteFile(disk[run[r].dir], o, blob))
        /\ Local(r, IF disk[run[r].dir].files[o] = blob
                    THEN next ELSE [next EXCEPT !.curr[o] = blob])
  /\ UNCHANGED <<env, proc, remote, work, celItem, faults, others>>

\* The item is excluded, or stripped of its fields and written.
WriteItem(r) ==
  /\ At(r, "eval")
  /\ LET o    == run[r].item
         blob == Strip(run[r].items[o])
         next == [run[r] EXCEPT !.pc = "items", !.items[o] = None, !.item = None]
     IN \/ /\ CelExcludes(o)
           /\ Local(r, next)
           /\ UNCHANGED <<disk, faults>>
        \/ /\ ~CelExcludes(o)
           /\ Store(run[r].dir, WriteFile(disk[run[r].dir], o, blob))
           /\ Local(r, [next EXCEPT !.curr[o] = blob])
           /\ UNCHANGED faults
        \/ /\ ~CelExcludes(o)
           /\ Fault("write")
           /\ Finish(r, "failure")
           /\ UNCHANGED disk
  /\ UNCHANGED <<env, proc, remote, work, celItem, others>>

\* store.CleanObsolete fails on a missing subDir and on an I/O error, after
\* having removed some of the files.
Clean(r) ==
  /\ At(r, "clean")
  /\ LET d == disk[run[r].dir] IN
     \/ /\ d.sub
        /\ Store(run[r].dir, CleanObsolete(d, run[r].curr))
        /\ Goto(r, "status")
        /\ UNCHANGED faults
     \/ /\ ~d.sub
        /\ Finish(r, "failure")
        /\ UNCHANGED <<disk, faults>>
     \/ /\ Fault("clean")
        /\ \E kept \in SUBSET Objs :
             Store(run[r].dir,
               CleanObsolete(d, [o \in Objs |-> IF o \in kept THEN d.files[o]
                                                              ELSE run[r].curr[o]]))
        /\ Finish(r, "failure")
  /\ UNCHANGED <<env, proc, remote, work, celItem, others>>

\* gitclient.IsClean: a clean working tree ends the run without a commit.
IsClean(r) ==
  /\ At(r, "status")
  /\ work # NoDir
  /\ LET d == disk[work] IN
     \/ /\ d.git /\ d.files = HeadTree(d.log)
        /\ Finish(r, "success")
        /\ UNCHANGED faults
     \/ /\ d.git /\ d.files # HeadTree(d.log)
        /\ Goto(r, "commit")
        /\ UNCHANGED faults
     \/ /\ ~d.git
        /\ Finish(r, "failure")
        /\ UNCHANGED faults
     \/ /\ Fault("status")
        /\ Finish(r, "failure")
  /\ UNCHANGED <<env, proc, remote, work, disk, celItem, others>>

\* gitclient.CommitAndPush, first half: stage and commit.  An empty commit
\* is an error, as is a directory without a repository.
CommitAll(r) ==
  /\ At(r, "commit")
  /\ work # NoDir
  /\ LET d == disk[work]
         c == [by |-> "korpus", tree |-> d.files]
     IN \/ /\ d.git /\ d.files # HeadTree(d.log)
           /\ Store(work, [d EXCEPT !.log = Append(@, c)])
           /\ Local(r, [run[r] EXCEPT !.pc = "push", !.tgt = work])
        \/ /\ ~d.git \/ d.files = HeadTree(d.log)
           /\ ResetThen(r, "idle")
           /\ UNCHANGED disk
  /\ UNCHANGED <<env, proc, remote, work, celItem, faults, others>>

\* Mutant: a forced push.
PublishForced(d) ==
  /\ d.git
  /\ remote' = d.log
  /\ seen' = [o \in Objs |-> {Want(cluster)[o]}]

\* The remote takes the commits of d and its history, a backup, is published.
Publish(d) ==
  /\ d.git /\ IsPrefix(remote, d.log)
  /\ remote' = d.log
  /\ seen' = [o \in Objs |-> {Want(cluster)[o]}]

\* CommitAndPush, second half: a push without force.  The answer of a push
\* that took effect may be lost.  Every error resets the clone.
Push(r) ==
  /\ At(r, "push")
  /\ LET d == disk[run[r].tgt]
     IN \/ /\ Publish(d)
           /\ Finish(r, "success")
           /\ UNCHANGED faults
        \/ /\ ~(d.git /\ IsPrefix(remote, d.log))
           /\ ResetThen(r, "idle")
           /\ UNCHANGED <<remote, seen, faults>>
        \/ /\ Fault("push")
           /\ ResetThen(r, "idle")
           /\ UNCHANGED <<remote, seen>>
        \/ /\ Fault("lostAck")
           /\ Publish(d)
           /\ ResetThen(r, "idle")
  /\ UNCHANGED <<cluster, edits, proc, work, disk, celItem, others>>

-----------------------------------------------------------------------------
(* The process *)

\* main: runner.init, the deferred RemoveAll of its directory, cron started.
\* A failed clone exits, and the container is started again.
Start ==
  /\ phase = "down"
  /\ \/ /\ \E d \in Dirs : /\ Fresh(d)
                           /\ Store(d, Cloned(remote))
                           /\ work' = d
                           /\ doomed' = d
        /\ phase' = "up"
        /\ UNCHANGED faults
     \/ /\ Fault("clone")
        /\ UNCHANGED <<disk, work, doomed, phase>>
  /\ panicked' = FALSE
  /\ UNCHANGED <<env, remote, run, celItem, others>>

\* SIGTERM.  The signal may find a run in progress: c.Stop() does not wait.
Terminate ==
  /\ phase = "up"
  /\ \/ Fault("term") /\ \A r \in Runs : run[r].pc = "idle"
     \/ Fault("termBusy")
  /\ phase' = "stopping"
  /\ UNCHANGED <<env, remote, work, doomed, disk, run, celItem, others, panicked>>

\* main's defers remove the directory of the first clone ...
EraseDoomed ==
  /\ phase = "stopping"
  /\ EraseEntry(doomed)
  /\ UNCHANGED <<env, proc, remote, work, run, celItem, faults, others>>

\* ... to its last entry, and main returns.
Exit ==
  /\ phase = "stopping"
  /\ Die(FALSE)
  /\ UNCHANGED <<env, remote, faults, others>>

\* The container is killed.
Crash ==
  /\ phase # "down"
  /\ Fault("crash")
  /\ Die(FALSE)
  /\ UNCHANGED <<env, remote, others>>

-----------------------------------------------------------------------------
(* The environment *)

\* A client of the API server creates, changes or deletes an object.
Edit ==
  /\ edits < MaxEdits
  /\ edits' = edits + 1
  /\ \E o \in Objs, v \in Raw \cup {None} :
       /\ v # cluster[o]
       /\ cluster' = [cluster EXCEPT ![o] = v]
       /\ seen' = [p \in Objs |-> seen[p] \cup {Want(cluster')[p]}]
  /\ UNCHANGED <<proc, remote, work, disk, run, celItem, faults, others>>

\* Another writer pushes a commit of files outside subDir.
Other ==
  /\ others < MaxOther
  /\ others' = others + 1
  /\ \E p \in Foreign, b \in Blob :
       /\ b # HeadTree(remote)[p]
       /\ remote' = Append(remote, [by   |-> "other",
                                    tree |-> [HeadTree(remote) EXCEPT ![p] = b]])
  /\ UNCHANGED <<env, proc, work, disk, run, celItem, faults>>

-----------------------------------------------------------------------------
Init ==
  /\ cluster \in [Objs -> Raw \cup {None}]
  /\ seen = [o \in Objs |-> {Want(cluster)[o]}]
  /\ remote = <<>>
  /\ phase = "down"
  /\ work = NoDir
  /\ doomed = NoDir
  /\ disk = [d \in Places |-> Gone]
  /\ run = [r \in Runs |-> IdleRun]
  /\ celItem = None
  /\ faults = 0 /\ edits = 0 /\ others = 0
  /\ panicked = FALSE

RunStep(r) ==
  \/ Pull(r) \/ Reset(r) \/ Erase(r) \/ Removed(r) \/ InitRunner(r) \/ Discover(r)
  \/ ListAll(r) \/ ListDone(r) \/ Item(r) \/ ItemsDone(r) \/ WriteItem(r)
  \/ Clean(r) \/ IsClean(r) \/ CommitAll(r) \/ Push(r) \/ NilGc(r)

Next ==
  \/ \E r \in Runs : Tick(r) \/ RunStep(r)
  \/ Start \/ Terminate \/ EraseDoomed \/ Exit \/ Crash
  \/ Edit \/ Other

Spec == Init /\ [][Next]_vars

\* The schedule keeps firing, a run keeps going, os.RemoveAll ends, and the
\* container is restarted: weak fairness of the process, none of the
\* environment.
Fairness ==
  /\ \A r \in Runs : WF_vars(Tick(r)) /\ WF_vars(RunStep(r)) /\ WF_vars(Removed(r))
  /\ WF_vars(Start)
  /\ WF_vars(Exit)

FairSpec == Spec /\ Fairness

-----------------------------------------------------------------------------
(* Properties *)

TypeOK ==
  /\ cluster \in [Objs -> Raw \cup {None}]
  /\ seen \in [Objs -> SUBSET Blob]
  /\ remote \in Seq(Commit)
  /\ phase \in {"down", "up", "stopping"}
  /\ work \in Places /\ doomed \in Places
  /\ disk \in [Places -> Dir]
  /\ run \in [Runs -> Run]
  /\ celItem \in Objs \cup {None}
  /\ faults \in Nat /\ edits \in Nat /\ others \in Nat
  /\ panicked \in BOOLEAN

\* An item is evaluated and written from the list it was taken from.
ItemAtHand ==
  \A r \in Runs : run[r].pc = "eval" =>
     run[r].item \in Objs /\ run[r].items[run[r].item] # None

IB == INSTANCE InfoBase WITH Absent <- None, want <- Want(cluster), hist <- remote

\* The daemon implements the abstract information base: see InfoBase.
InformationBase == IB!Spec

\* Whatever the API server answers, the published history only grows, one
\* commit at a time, and a backup (CommitAndPush after CleanObsolete and a
\* possible re-clone) leaves the files outside subDir as they were.
SharedHistory == IB!HistorySpec

\* What makes SharedHistory inductive while runs do not overlap: nothing runs
\* outside the "up" phase; the working clone's files outside subDir are those
\* of its HEAD; its history is one the remote extends, except between commit
\* and push, when it is one commit ahead of such a history, and from a failed
\* push to the end of the re-clone.
Sound(d) == Others(d.files) = Others(HeadTree(d.log))

Ahead(log) ==
  /\ log # <<>>
  /\ IsPrefix(Front(log), remote)
  /\ Last(log).by = "korpus"
  /\ Last(log).tree # HeadTree(Front(log))
  /\ Others(Last(log).tree) = Others(HeadTree(Front(log)))

CloneInv ==
  /\ phase # "up" => \A r \in Runs : run[r].pc = "idle"
  /\ \A r \in Runs : run[r].pc = "push" =>
       run[r].tgt = work /\ Ahead(disk[work].log)
  /\ phase = "up" /\ work # NoDir =>
       /\ (\A r \in Runs : run[r].pc # "remove") => Sound(disk[work])
       /\ (\A r \in Runs : run[r].pc \notin {"push", "reset", "remove"}) =>
            IsPrefix(disk[work].log, remote)

\* A push that takes effect publishes under subDir exactly the files the
\* pushing run wrote: nothing of a run that failed half-way, nothing stale.
PublishesSnapshot ==
  [][\A r \in Runs : run[r].pc = "push" /\ run'[r] # run[r] /\ remote' # remote
        => Own(HeadTree(remote')) = run[r].curr]_vars

\* A run that run() counts as a success, by a push or by finding the working
\* tree clean, leaves its snapshot as the latest state of the remote.
SuccessMeansPublished ==
  [][\A r \in Runs : run[r].out # "success" /\ run'[r].out = "success"
        => Own(HeadTree(remote')) = run[r].curr]_vars

\* The file of an object disappears in a published backup only if the object
\* was really missing at some time since the previous one.
DeletionsAreReal ==
  [][\A o \in Objs : HeadTree(remote)[o] # None /\ HeadTree(remote')[o] = None
        => None \in seen[o]]_vars

\* The excludeIf program evaluated for an item reads that item: the claim
\* of the comment on celItemContext.
CelSeesItsItem ==
  \A r \in Runs : run[r].pc = "eval" /\ run[r].item \in CelRuled
                    => celItem = run[r].item

\* No goroutine calls a method of the nil client a failed re-clone leaves.
NoPanic == ~panicked

\* No push, of whichever run and from whichever clone, drops a commit.
NothingLost == [][IsPrefix(remote, remote')]_vars

\* When the faults and the changes end, the repository ends up with what the
\* cluster holds, through failed pulls, pushes and clones, lost answers,
\* conflicts with other writers, panics and restarts.
Converges == <>[](Own(HeadTree(remote)) = Want(cluster))
=============================================================================
