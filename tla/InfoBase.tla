------------------------------ MODULE InfoBase ------------------------------
(***************************************************************************)
(* What korpus promises of the repository it writes, whatever the daemon   *)
(* does in between: the branch's history only grows, a backup is one new   *)
(* commit that changes something, touches only the cluster's own files,    *)
(* and records for every object a content the object had since the         *)
(* previous backup.                                                        *)
(***************************************************************************)
EXTENDS Naturals, Sequences

CONSTANTS Objs,     \* the cluster's own files
          Foreign,  \* everybody else's files
          Blob,     \* contents of a file, including its absence
          Absent    \* the absence of a file

VARIABLES want,     \* [Objs -> Blob]: what the files should hold now
          seen,     \* [Objs -> SUBSET Blob]: ... or held since the last backup
          hist      \* the published commits, oldest first

Tree  == [Objs \cup Foreign -> Blob]
First == [p \in Objs \cup Foreign |-> Absent]
Latest == IF hist = <<>> THEN First ELSE hist[Len(hist)].tree

Init ==
  /\ want \in [Objs -> Blob]
  /\ seen = [o \in Objs |-> {want[o]}]
  /\ hist = <<>>

\* The cluster changes, or the changed fields are none that are recorded.
Change ==
  /\ want' \in [Objs -> Blob]
  /\ seen' = [o \in Objs |-> seen[o] \cup {want'[o]}]
  /\ UNCHANGED hist

\* A commit by `by' on top of the history, with the files in `kept' as before.
Commit(by, kept) ==
  \E t \in Tree : /\ \A p \in kept : t[p] = Latest[p]
                  /\ t # Latest
                  /\ hist' = Append(hist, [by |-> by, tree |-> t])

Backup ==
  /\ Commit("korpus", Foreign)
  /\ \A o \in Objs : hist'[Len(hist')].tree[o] \in seen[o]
  /\ seen' = [o \in Objs |-> {want[o]}]
  /\ UNCHANGED want

Share ==
  /\ Commit("other", Objs)
  /\ UNCHANGED <<want, seen>>

Spec == Init /\ [][Change \/ Backup \/ Share]_<<want, seen, hist>>

\* The part of the promise that does not depend on what the API server
\* answers: who may write which files, and that nothing is rewritten.
HistorySpec ==
  hist = <<>> /\ [][Commit("korpus", Foreign) \/ Commit("other", Objs)]_hist
=============================================================================
