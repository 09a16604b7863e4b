---------------------------- MODULE BackupProofs ----------------------------
(***************************************************************************)
(* Theorems about the daemon for every cluster, configuration, fault of    *)
(* git or of the file system, and bound: its types, for any number of      *)
(* runs; and, while its runs do not overlap and no signal finds one at     *)
(* work, that it implements the history part of InfoBase.                  *)
(*                                                                         *)
(* Then what a run publishes, while runs do not overlap: exactly the files *)
(* it wrote, and, while the API server answers, for every object a content *)
(* it had since the backup before.  The daemon then implements the whole   *)
(* of InfoBase.                                                            *)
(***************************************************************************)
EXTENDS Backup, SequenceTheorems, TLAPS

-----------------------------------------------------------------------------
(* Types of the operators on directories *)

LEMMA ConstantTreeTypes ==
  /\ EmptyTree \in Tree
  /\ NoItems \in [Objs -> Raw \cup {None}]
  /\ NoItems \in [Objs -> Blob]
  /\ Gone \in Dir
  /\ IdleRun \in Run
  BY DEF EmptyTree, Tree, NoItems, Blob, Gone, Dir, IdleRun, Run, Steps, Places

\* The tree of a branch's last commit is a tree, as is that of an empty branch.
LEMMA HeadTreeType ==
  ASSUME NEW log \in Seq(Commit)
  PROVE  HeadTree(log) \in Tree
  <1>1. CASE log = <<>>
    BY <1>1, ConstantTreeTypes DEF HeadTree
  <1>2. CASE log # <<>>
    <2>1. Len(log) \in 1..Len(log)
      BY <1>2
    <2>2. log[Len(log)] \in Commit
      BY <2>1
    <2> QED
      BY <1>2, <2>2 DEF HeadTree, Commit
  <1> QED
    BY <1>1, <1>2

LEMMA ClonedType ==
  ASSUME NEW log \in Seq(Commit)
  PROVE  Cloned(log) \in Dir
  BY HeadTreeType, ConstantTypes DEF Cloned, Dir

LEMMA WriteFileType ==
  ASSUME NEW d \in Dir, NEW o \in Objs, NEW b \in Blob
  PROVE  WriteFile(d, o, b) \in Dir
  BY DEF WriteFile, Dir, Tree, Paths

LEMMA CleanObsoleteType ==
  ASSUME NEW d \in Dir, NEW curr \in [Objs -> Blob]
  PROVE  CleanObsolete(d, curr) \in Dir
  BY DEF CleanObsolete, Dir, Tree, Paths, Blob

LEMMA FastForwardsType ==
  ASSUME NEW d \in Dir, NEW log \in Seq(Commit), NEW new \in FastForwards(d, log)
  PROVE  new \in Dir
  <1> DEFINE old == HeadTree(d.log)
             fwd == HeadTree(log)
             kept == [p \in Paths |-> IF old[p] = None /\ fwd[p] = None
                                      THEN d.files[p] ELSE fwd[p]]
  <1>1. fwd \in Tree
    BY HeadTreeType
  <1>2. kept \in Tree
    BY <1>1 DEF Tree, Dir
  <1>3. PICK f \in {fwd, kept} :
          new = [d EXCEPT !.log = log, !.files = f,
                          !.sub = @ \/ \E o \in Objs : f[o] # None]
    BY DEF FastForwards
  <1>4. f \in Tree
    BY <1>1, <1>2, <1>3
  <1> QED
    BY <1>3, <1>4 DEF Dir

LEMMA WantType ==
  ASSUME NEW objects \in [Objs -> Raw \cup {None}]
  PROVE  Want(objects) \in [Objs -> Blob]
  BY DEF Want, Blob, Raw

-----------------------------------------------------------------------------
(* Type correctness *)

\* The local states of a run, with what holds of the item at hand.
GoodRun == {rec \in Run : rec.pc = "eval" => /\ rec.item \in Objs
                                             /\ rec.items[rec.item] # None}

\* TypeOK is not inductive: WriteItem's file has a type only because the item
\* at hand is one of the list.
TypeInv == TypeOK /\ run \in [Runs -> GoodRun]

\* The local states a run moves to when it ends, resets or goes on.
LEMMA RunRecords ==
  /\ IdleRun \in GoodRun
  /\ \A out \in {"none", "success", "failure"} : [IdleRun EXCEPT !.out = out] \in GoodRun
  /\ \A then \in {"idle", "discover"} :
        [IdleRun EXCEPT !.pc = "reset", !.then = then] \in GoodRun
  /\ [IdleRun EXCEPT !.pc = "pull"] \in GoodRun
  /\ \A rec \in Run, pc \in Steps \ {"eval"} : [rec EXCEPT !.pc = pc] \in GoodRun
  <1>1. IdleRun \in Run /\ IdleRun.pc = "idle"
    BY ConstantTreeTypes DEF IdleRun
  <1>2. IdleRun \in GoodRun
    BY <1>1 DEF GoodRun
  <1>3. \A out \in {"none", "success", "failure"} : [IdleRun EXCEPT !.out = out] \in GoodRun
    BY <1>1 DEF GoodRun, Run
  <1>4. \A then \in {"idle", "discover"} :
           [IdleRun EXCEPT !.pc = "reset", !.then = then] \in GoodRun
    BY <1>1 DEF GoodRun, Run, Steps
  <1>5. \A rec \in Run, pc \in Steps \ {"eval"} : [rec EXCEPT !.pc = pc] \in GoodRun
    BY DEF GoodRun, Run
  <1>6. [IdleRun EXCEPT !.pc = "pull"] \in GoodRun
    BY <1>1, <1>5 DEF Steps
  <1> QED
    BY <1>2, <1>3, <1>4, <1>5, <1>6

LEMMA LocalType ==
  ASSUME TypeInv, NEW r \in Runs, NEW rec \in GoodRun, Local(r, rec)
  PROVE  run' \in [Runs -> Run] /\ run' \in [Runs -> GoodRun]
  BY DEF TypeInv, Local, GoodRun

LEMMA StoreType ==
  ASSUME TypeInv, NEW d \in Places, NEW dir \in Dir, Store(d, dir)
  PROVE  disk' \in [Places -> Dir]
  BY DEF TypeInv, TypeOK, Store

LEMMA FinishType ==
  ASSUME TypeInv, NEW r \in Runs, NEW out \in {"none", "success", "failure"},
         Finish(r, out)
  PROVE  run' \in [Runs -> Run] /\ run' \in [Runs -> GoodRun]
  BY RunRecords, LocalType DEF Finish

LEMMA ResetThenType ==
  ASSUME TypeInv, NEW r \in Runs, NEW then \in {"idle", "discover"},
         ResetThen(r, then)
  PROVE  run' \in [Runs -> Run] /\ run' \in [Runs -> GoodRun]
  BY RunRecords, LocalType DEF ResetThen

LEMMA GotoType ==
  ASSUME TypeInv, NEW r \in Runs, NEW pc \in Steps \ {"eval"}, Goto(r, pc)
  PROVE  run' \in [Runs -> Run] /\ run' \in [Runs -> GoodRun]
  <1>1. run[r] \in Run
    BY DEF TypeInv, TypeOK
  <1> QED
    BY <1>1, RunRecords, LocalType DEF Goto

LEMMA DieType ==
  ASSUME TypeInv, NEW b \in BOOLEAN, Die(b), UNCHANGED <<cluster, seen, edits>>,
         remote' \in Seq(Commit), faults' \in Nat, UNCHANGED others
  PROVE  TypeInv'
  <1>1. run' \in [Runs -> Run] /\ run' \in [Runs -> GoodRun]
    BY RunRecords DEF Die, GoodRun
  <1>2. disk' \in [Places -> Dir]
    BY ConstantTreeTypes DEF Die
  <1> QED
    BY <1>1, <1>2 DEF TypeInv, TypeOK, Die, Places

LEMMA EraseEntryType ==
  ASSUME TypeInv, NEW d \in Places, EraseEntry(d)
  PROVE  disk' \in [Places -> Dir]
  <1>1. disk[d] \in Dir
    BY DEF TypeInv, TypeOK
  <1>2. \A p \in Paths : [disk[d] EXCEPT !.files[p] = None] \in Dir
    BY <1>1 DEF Dir, Tree, Blob
  <1>3. [disk[d] EXCEPT !.git = FALSE] \in Dir
    BY <1>1 DEF Dir
  <1> QED
    BY <1>2, <1>3, StoreType DEF EraseEntry

LEMMA FaultType ==
  ASSUME TypeInv, NEW k, Fault(k)
  PROVE  faults' \in Nat
  BY DEF TypeInv, TypeOK, Fault

LEMMA PublishType ==
  ASSUME TypeInv, NEW d \in Dir, Publish(d)
  PROVE  remote' \in Seq(Commit) /\ seen' \in [Objs -> SUBSET Blob]
  <1>1. Want(cluster) \in [Objs -> Blob]
    BY WantType DEF TypeInv, TypeOK
  <1> QED
    BY <1>1 DEF Publish, Dir

\* One step of the specification preserves the types.
LEMMA TypeStep ==
  ASSUME TypeInv, [Next]_vars
  PROVE  TypeInv'
  <1> USE DEF env, proc
  <1> DEFINE RunOK == run \in [Runs -> Run] /\ run \in [Runs -> GoodRun]
  <1>a. /\ work \in Places /\ remote \in Seq(Commit)
        /\ \A d \in Places : disk[d] \in Dir
        /\ \A r \in Runs : run[r] \in Run /\ run[r] \in GoodRun
    BY DEF TypeInv, TypeOK
  <1>0. CASE UNCHANGED vars
    BY <1>0 DEF TypeInv, TypeOK, vars
  <1>1. ASSUME NEW r \in Runs, Tick(r) PROVE TypeInv'
    <2>1. RunOK'
      BY <1>1, RunRecords, LocalType DEF Tick
    <2> QED
      BY <1>1, <2>1 DEF TypeInv, TypeOK, Tick
  <1>2. ASSUME NEW r \in Runs, Pull(r) PROVE TypeInv'
    <2>1. RunOK'
      BY <1>2, GotoType, ResetThenType DEF Pull, Steps
    <2>2. faults' \in Nat
      BY <1>2, FaultType DEF Pull, TypeInv, TypeOK
    <2>3. disk' \in [Places -> Dir]
      BY <1>2, <1>a, FastForwardsType, StoreType DEF Pull, TypeInv, TypeOK
    <2> QED
      BY <1>2, <2>1, <2>2, <2>3 DEF TypeInv, TypeOK, Pull
  <1>3. ASSUME NEW r \in Runs, Reset(r) PROVE TypeInv'
    <2>1. [run[r] EXCEPT !.pc = IF work = NoDir THEN "clone" ELSE "remove",
                     !.tgt = work] \in GoodRun
      <3> DEFINE pc == IF work = NoDir THEN "clone" ELSE "remove"
      <3>1. pc \in Steps /\ pc # "eval"
        BY DEF Steps
      <3>2. run[r] \in Run /\ work \in Places
        BY <1>a
      <3> HIDE DEF pc
      <3>3. [run[r] EXCEPT !.pc = pc, !.tgt = work] \in Run
        BY <3>1, <3>2 DEF Run
      <3>4. [run[r] EXCEPT !.pc = pc, !.tgt = work].pc = pc
        BY <3>2 DEF Run
      <3> QED
        BY <3>1, <3>3, <3>4 DEF GoodRun, pc
    <2>2. RunOK'
      BY <1>3, <2>1, LocalType DEF Reset
    <2> QED
      BY <1>3, <2>1, <2>2 DEF TypeInv, TypeOK, Reset
  <1>4. ASSUME NEW r \in Runs, Erase(r) PROVE TypeInv'
    <2>1. run[r].tgt \in Places
      BY <1>a DEF Run
    <2>2. disk' \in [Places -> Dir]
      BY <1>4, <2>1, EraseEntryType DEF Erase
    <2> QED
      BY <1>4, <2>1, <2>2 DEF TypeInv, TypeOK, Erase
  <1>5. ASSUME NEW r \in Runs, Removed(r) PROVE TypeInv'
    <2>1. [run[r] EXCEPT !.pc = "clone", !.tgt = NoDir] \in GoodRun
      BY <1>a, ZenonT(30) DEF GoodRun, Run, Steps, Places
    <2>2. RunOK'
      BY <1>5, <2>1, LocalType DEF Removed
    <2>3. run[r].tgt \in Places
      BY <1>a DEF Run
    <2>4. disk' \in [Places -> Dir]
      BY <1>5, <2>3, StoreType, ConstantTreeTypes DEF Removed
    <2>5. work' \in Places
      BY <1>5 DEF Removed, Places
    <2> QED
      BY <1>5, <2>1, <2>2, <2>3, <2>4, <2>5 DEF TypeInv, TypeOK, Removed
  <1>6. ASSUME NEW r \in Runs, InitRunner(r) PROVE TypeInv'
    <2>1. RunOK'
      BY <1>6, GotoType, FinishType DEF InitRunner, Steps
    <2>2. faults' \in Nat
      BY <1>6, FaultType DEF InitRunner, TypeInv, TypeOK
    <2>3. disk' \in [Places -> Dir]
      BY <1>6, <1>a, ClonedType, StoreType DEF InitRunner, TypeInv, TypeOK, Places
    <2>4. work' \in Places
      BY <1>6, <1>a DEF InitRunner, Places
    <2> QED
      BY <1>6, <2>1, <2>2, <2>3, <2>4 DEF TypeInv, TypeOK, InitRunner
  <1>7. ASSUME NEW r \in Runs, Discover(r) PROVE TypeInv'
    <2>1. \A found \in SUBSET Gvrs :
            [run[r] EXCEPT !.pc = "list", !.dir = work,
                           !.todo = found \ ExcludedGvrs] \in GoodRun
      BY <1>a, ZenonT(30) DEF GoodRun, Run, Steps
    <2>2. RunOK'
      BY <1>7, <2>1, LocalType DEF Discover
    <2>3. faults' \in Nat
      BY <1>7, FaultType DEF Discover, TypeInv, TypeOK
    <2> QED
      BY <1>7, <2>1, <2>2, <2>3 DEF TypeInv, TypeOK, Discover
  <1>8. ASSUME NEW r \in Runs, ListAll(r) PROVE TypeInv'
    <2>1. \A g : [o \in Objs |-> IF GvrOf[o] = g THEN cluster[o] ELSE None]
                 \in [Objs -> Raw \cup {None}]
      BY DEF TypeInv, TypeOK
    <2>2. \A todo \in SUBSET Gvrs, items \in [Objs -> Raw \cup {None}] :
            [run[r] EXCEPT !.pc = "items", !.todo = todo, !.items = items] \in GoodRun
      BY <1>a, ZenonT(30) DEF GoodRun, Run, Steps
    <2>3. \A g : run[r].todo \ {g} \in SUBSET Gvrs
      BY <1>a DEF Run
    <2>4. run[r].pc = "list" => \A g : [run[r] EXCEPT !.todo = @ \ {g}] \in GoodRun
      BY <1>a DEF GoodRun, Run
    <2>5. RunOK'
      BY <1>8, <2>1, <2>2, <2>3, <2>4, LocalType DEF ListAll, At
    <2>6. faults' \in Nat
      BY <1>8, FaultType DEF ListAll, TypeInv, TypeOK
    <2> QED
      BY <1>8, <2>1, <2>2, <2>3, <2>4, <2>5, <2>6 DEF TypeInv, TypeOK, ListAll
  <1>9. ASSUME NEW r \in Runs, ListDone(r) PROVE TypeInv'
    <2>1. RunOK'
      BY <1>9, GotoType DEF ListDone, Steps
    <2> QED
      BY <1>9, <2>1 DEF TypeInv, TypeOK, ListDone
  <1>10. ASSUME NEW r \in Runs, ItemsDone(r) PROVE TypeInv'
    <2>1. RunOK'
      BY <1>10, GotoType DEF ItemsDone, Steps
    <2> QED
      BY <1>10, <2>1 DEF TypeInv, TypeOK, ItemsDone
  <1>11. ASSUME NEW r \in Runs, Item(r) PROVE TypeInv'
    <2>1. run[r].pc = "items" => \A o \in Objs : [run[r] EXCEPT !.items[o] = None] \in GoodRun
      BY <1>a DEF GoodRun, Run
    <2>2. \A o \in Objs : run[r].items[o] # None =>
             [run[r] EXCEPT !.pc = "eval", !.item = o] \in GoodRun
      BY <1>a, ZenonT(30) DEF GoodRun, Run, Steps
    <2>3. RunOK'
      BY <1>11, <2>1, <2>2, LocalType DEF Item, At
    <2>4. celItem' \in Objs \cup {None}
      BY <1>11 DEF Item, TypeInv, TypeOK
    <2> QED
      BY <1>11, <2>1, <2>2, <2>3, <2>4 DEF TypeInv, TypeOK, Item
  <1>12. ASSUME NEW r \in Runs, WriteItem(r) PROVE TypeInv'
    <2> DEFINE o    == run[r].item
               blob == Strip(run[r].items[o])
               next == [run[r] EXCEPT !.pc = "items", !.items[o] = None, !.item = None]
    <2>1. o \in Objs /\ run[r].items[o] \in Raw
      BY <1>12, <1>a DEF WriteItem, At, GoodRun, Run
    <2>2. blob \in Blob
      BY <2>1 DEF Strip, Blob, Raw
    <2>3. next \in GoodRun /\ next \in Run
      BY <1>a, <2>1, ZenonT(30) DEF GoodRun, Run, Steps
    <2>4. [next EXCEPT !.curr[o] = blob] \in GoodRun
      BY <2>1, <2>2, <2>3 DEF GoodRun, Run
    <2>5. RunOK'
      BY <1>12, <2>3, <2>4, LocalType, FinishType DEF WriteItem
    <2>6. run[r].dir \in Places
      BY <1>a DEF Run
    <2>7. disk' \in [Places -> Dir]
      BY <1>12, <1>a, <2>1, <2>2, <2>6, WriteFileType, StoreType DEF WriteItem, TypeInv, TypeOK
    <2>8. faults' \in Nat
      BY <1>12, FaultType DEF WriteItem, TypeInv, TypeOK
    <2> QED
      BY <1>12, <2>5, <2>7, <2>8 DEF TypeInv, TypeOK, WriteItem
  <1>13. ASSUME NEW r \in Runs, Clean(r) PROVE TypeInv'
    <2>1. RunOK'
      BY <1>13, GotoType, FinishType DEF Clean, Steps
    <2>2. faults' \in Nat
      BY <1>13, FaultType DEF Clean, TypeInv, TypeOK
    <2>3. run[r].dir \in Places /\ run[r].curr \in [Objs -> Blob]
      BY <1>a DEF Run
    <2>4. \A kept \in SUBSET Objs :
            [o \in Objs |-> IF o \in kept THEN disk[run[r].dir].files[o]
                                           ELSE run[r].curr[o]] \in [Objs -> Blob]
      BY <1>a, <2>3 DEF Dir, Tree, Paths
    <2>5. disk' \in [Places -> Dir]
      BY <1>13, <1>a, <2>3, <2>4, CleanObsoleteType, StoreType DEF Clean, TypeInv, TypeOK
    <2> QED
      BY <1>13, <2>1, <2>2, <2>3, <2>4, <2>5 DEF TypeInv, TypeOK, Clean
  <1>14. ASSUME NEW r \in Runs, IsClean(r) PROVE TypeInv'
    <2>1. RunOK'
      BY <1>14, GotoType, FinishType DEF IsClean, Steps
    <2>2. faults' \in Nat
      BY <1>14, FaultType DEF IsClean, TypeInv, TypeOK
    <2> QED
      BY <1>14, <2>1, <2>2 DEF TypeInv, TypeOK, IsClean
  <1>15. ASSUME NEW r \in Runs, CommitAll(r) PROVE TypeInv'
    <2>1. [by |-> "korpus", tree |-> disk[work].files] \in Commit
      BY <1>a DEF Commit, Dir
    <2>2. \A c \in Commit : Append(disk[work].log, c) \in Seq(Commit)
      BY <1>a DEF Dir
    <2>3. \A log \in Seq(Commit) : [disk[work] EXCEPT !.log = log] \in Dir
      BY <1>a DEF Dir
    <2>4. disk' \in [Places -> Dir]
      BY <1>15, <1>a, <2>1, <2>2, <2>3, StoreType DEF CommitAll, TypeInv, TypeOK
    <2>5. [run[r] EXCEPT !.pc = "push", !.tgt = work] \in GoodRun
      BY <1>a, ZenonT(30) DEF GoodRun, Run, Steps
    <2>6. RunOK'
      BY <1>15, <2>5, LocalType, ResetThenType DEF CommitAll
    <2> QED
      BY <1>15, <2>1, <2>2, <2>3, <2>4, <2>5, <2>6 DEF TypeInv, TypeOK, CommitAll
  <1>16. ASSUME NEW r \in Runs, Push(r) PROVE TypeInv'
    <2>1. RunOK'
      BY <1>16, FinishType, ResetThenType DEF Push
    <2>2. faults' \in Nat
      BY <1>16, FaultType DEF Push, TypeInv, TypeOK
    <2>3. disk[run[r].tgt] \in Dir
      BY <1>a DEF Run
    <2>4. remote' \in Seq(Commit) /\ seen' \in [Objs -> SUBSET Blob]
      BY <1>16, <2>3, PublishType DEF Push, TypeInv, TypeOK
    <2> QED
      BY <1>16, <2>1, <2>2, <2>3, <2>4 DEF TypeInv, TypeOK, Push
  <1>17. ASSUME NEW r \in Runs, NilGc(r) PROVE TypeInv'
    BY <1>17, DieType DEF NilGc, TypeInv, TypeOK
  <1>18. CASE Start
    <2>1. faults' \in Nat
      BY <1>18, FaultType DEF Start, TypeInv, TypeOK
    <2>2. disk' \in [Places -> Dir]
      BY <1>18, <1>a, ClonedType, StoreType DEF Start, TypeInv, TypeOK, Places
    <2>3. work' \in Places /\ doomed' \in Places
      BY <1>18 DEF Start, TypeInv, TypeOK, Places
    <2> QED
      BY <1>18, <2>1, <2>2, <2>3 DEF TypeInv, TypeOK, Start
  <1>19. CASE Terminate
    BY <1>19, FaultType DEF Terminate, TypeInv, TypeOK
  <1>20. CASE EraseDoomed
    <2>1. disk' \in [Places -> Dir]
      BY <1>20, EraseEntryType DEF EraseDoomed, TypeInv, TypeOK
    <2> QED
      BY <1>20, <2>1 DEF TypeInv, TypeOK, EraseDoomed
  <1>21. CASE Exit
    BY <1>21, DieType DEF Exit, TypeInv, TypeOK
  <1>22. CASE Crash
    BY <1>22, DieType, FaultType DEF Crash, TypeInv, TypeOK
  <1>23. CASE Edit
    <2>1. cluster' \in [Objs -> Raw \cup {None}]
      BY <1>23 DEF Edit, TypeInv, TypeOK
    <2>2. Want(cluster') \in [Objs -> Blob]
      BY <2>1, WantType
    <2>3. seen' = [p \in Objs |-> seen[p] \cup {Want(cluster')[p]}]
      BY <1>23 DEF Edit
    <2>4. seen' \in [Objs -> SUBSET Blob]
      BY <2>2, <2>3 DEF TypeInv, TypeOK
    <2>5. edits' \in Nat
      BY <1>23 DEF Edit, TypeInv, TypeOK
    <2> QED
      BY <1>23, <2>1, <2>2, <2>3, <2>4, <2>5 DEF TypeInv, TypeOK, Edit
  <1>24. CASE Other
    <2>1. HeadTree(remote) \in Tree
      BY <1>a, HeadTreeType
    <2>2. \A p \in Foreign, b \in Blob :
            [by |-> "other", tree |-> [HeadTree(remote) EXCEPT ![p] = b]] \in Commit
      BY <2>1 DEF Commit, Tree
    <2>3. remote' \in Seq(Commit)
      BY <1>24, <1>a, <2>2 DEF Other
    <2> QED
      BY <1>24, <2>1, <2>2, <2>3 DEF TypeInv, TypeOK, Other
  <1> QED
    BY <1>0, <1>1, <1>2, <1>3, <1>4, <1>5, <1>6, <1>7, <1>8, <1>9,
       <1>10, <1>11, <1>12, <1>13, <1>14, <1>15, <1>16, <1>17, <1>18,
       <1>19, <1>20, <1>21, <1>22, <1>23, <1>24 DEF Next, RunStep

LEMMA InitTypes == Init => TypeInv
  <1> SUFFICES ASSUME Init PROVE TypeInv
    OBVIOUS
  <1>1. Want(cluster) \in [Objs -> Blob]
    BY WantType DEF Init
  <1>2. run \in [Runs -> Run] /\ run \in [Runs -> GoodRun]
    BY RunRecords DEF Init, GoodRun
  <1>3. seen \in [Objs -> SUBSET Blob]
    BY <1>1 DEF Init
  <1>4. disk \in [Places -> Dir]
    BY ConstantTreeTypes DEF Init
  <1>5. remote \in Seq(Commit)
    BY DEF Init
  <1>6. work \in Places /\ doomed \in Places
    BY DEF Init, Places
  <1> QED
    BY <1>2, <1>3, <1>4, <1>5, <1>6 DEF Init, TypeInv, TypeOK

\* The variables keep their types, whatever fails and however many runs of
\* the daemon overlap: no step of runOnce, main or the environment leaves
\* them.  In particular an item is written only from the list it came from.
THEOREM TypeCorrect == Spec => [](TypeOK /\ ItemAtHand)
  <1>1. Init => TypeInv
    BY InitTypes
  <1>2. TypeInv /\ [Next]_vars => TypeInv'
    BY TypeStep
  <1>3. TypeInv => TypeOK /\ ItemAtHand
    BY DEF TypeInv, GoodRun, ItemAtHand
  <1> QED
    BY <1>1, <1>2, <1>3, PTL DEF Spec


-----------------------------------------------------------------------------
(* Prefixes of histories *)

LEMMA PrefixPointwise ==
  ASSUME NEW S, NEW s \in Seq(S), NEW t \in Seq(S)
  PROVE  IsPrefix(s, t) <=> Len(s) <= Len(t) /\ \A i \in 1..Len(s) : s[i] = t[i]
  <1>1. SubSeq(s, 1, Len(s)) = s
    OBVIOUS
  <1>2. CASE Len(s) <= Len(t)
    <2>1. /\ SubSeq(t, 1, Len(s)) \in Seq(S)
          /\ Len(SubSeq(t, 1, Len(s))) = Len(s)
          /\ \A i \in 1..Len(s) : SubSeq(t, 1, Len(s))[i] = t[i]
      BY <1>2
    <2>2. s = SubSeq(t, 1, Len(s)) <=> \A i \in 1..Len(s) : s[i] = t[i]
      BY <2>1, SeqEqual
    <2> QED
      BY <1>1, <1>2, <2>2 DEF IsPrefix
  <1>3. CASE ~(Len(s) <= Len(t))
    BY <1>3 DEF IsPrefix
  <1> QED
    BY <1>2, <1>3

LEMMA PrefixOfItself ==
  ASSUME NEW S, NEW s \in Seq(S)
  PROVE  IsPrefix(s, s)
  BY PrefixPointwise

\* A history the remote extends stays one when the remote gets a commit.
LEMMA PrefixAppend ==
  ASSUME NEW S, NEW s \in Seq(S), NEW t \in Seq(S), NEW c \in S, IsPrefix(s, t)
  PROVE  IsPrefix(s, Append(t, c))
  <1>1. Append(t, c) \in Seq(S) /\ Len(Append(t, c)) = Len(t) + 1
        /\ \A i \in 1..Len(t) : Append(t, c)[i] = t[i]
    OBVIOUS
  <1>2. Len(s) <= Len(t) /\ \A i \in 1..Len(s) : s[i] = t[i]
    BY PrefixPointwise
  <1>3. Len(s) <= Len(Append(t, c)) /\ \A i \in 1..Len(s) : s[i] = Append(t, c)[i]
    BY <1>1, <1>2
  <1> QED
    BY <1>1, <1>3, PrefixPointwise

LEMMA FrontLast ==
  ASSUME NEW S, NEW s \in Seq(S), s # <<>>
  PROVE  /\ Front(s) \in Seq(S)
         /\ Len(Front(s)) = Len(s) - 1
         /\ \A i \in 1..(Len(s) - 1) : Front(s)[i] = s[i]
         /\ Last(s) = s[Len(s)] /\ Last(s) \in S
         /\ s = Append(Front(s), Last(s))
  <1>1. Len(s) \in Nat /\ Len(s) >= 1
    OBVIOUS
  <1>2. /\ Front(s) \in Seq(S) /\ Len(Front(s)) = Len(s) - 1
        /\ \A i \in 1..(Len(s) - 1) : Front(s)[i] = s[i]
    <2>1. PICK n \in Nat : Len(s) = n + 1
      <3>1. Len(s) - 1 \in Nat /\ Len(s) = (Len(s) - 1) + 1
        BY <1>1
      <3> QED
        BY <3>1
    <2>2. Len(s) - 1 = n
      BY <2>1
    <2>3. /\ SubSeq(s, 1, n) \in Seq(S) /\ Len(SubSeq(s, 1, n)) = n
          /\ \A i \in 1..n : SubSeq(s, 1, n)[i] = s[i]
      BY <2>1
    <2> QED
      BY <2>2, <2>3 DEF Front
  <1>3. Last(s) = s[Len(s)] /\ Last(s) \in S
    BY <1>1 DEF Last
  <1>4. s = Append(Front(s), Last(s))
    <2>1. /\ Append(Front(s), Last(s)) \in Seq(S)
          /\ Len(Append(Front(s), Last(s))) = Len(s)
      BY <1>1, <1>2, <1>3
    <2>2. \A i \in 1..Len(s) : s[i] = Append(Front(s), Last(s))[i]
      BY <1>1, <1>2, <1>3
    <2> QED
      BY <2>1, <2>2, SeqEqual
  <1> QED
    BY <1>2, <1>3, <1>4

LEMMA AppendFrontLast ==
  ASSUME NEW S, NEW s \in Seq(S), NEW c \in S
  PROVE  /\ Append(s, c) # <<>>
         /\ Front(Append(s, c)) = s
         /\ Last(Append(s, c)) = c
  <1>1. /\ Append(s, c) \in Seq(S) /\ Len(Append(s, c)) = Len(s) + 1
        /\ \A i \in 1..Len(s) : Append(s, c)[i] = s[i]
        /\ Append(s, c)[Len(s) + 1] = c
    OBVIOUS
  <1>2. Append(s, c) # <<>>
    BY <1>1
  <1>3. /\ Front(Append(s, c)) \in Seq(S) /\ Len(Front(Append(s, c))) = Len(s)
        /\ \A i \in 1..Len(s) : Front(Append(s, c))[i] = s[i]
    <2> DEFINE t == Append(s, c)
    <2>1. t \in Seq(S) /\ t # <<>> /\ Len(t) - 1 = Len(s)
      BY <1>1, <1>2
    <2>2. /\ Front(t) \in Seq(S) /\ Len(Front(t)) = Len(t) - 1
          /\ \A i \in 1..(Len(t) - 1) : Front(t)[i] = t[i]
      BY <2>1, FrontLast
    <2> QED
      BY <1>1, <2>1, <2>2
  <1>4. Front(Append(s, c)) = s
    BY <1>3, SeqEqual
  <1> QED
    BY <1>1, <1>2, <1>4 DEF Last

\* A history between another one's front and the other one is one of the two.
LEMMA BetweenFrontAndAll ==
  ASSUME NEW S, NEW s \in Seq(S), NEW t \in Seq(S), s # <<>>,
         IsPrefix(Front(s), t), IsPrefix(t, s)
  PROVE  t = s \/ t = Front(s)
  <1>1. /\ Front(s) \in Seq(S) /\ Len(Front(s)) = Len(s) - 1
        /\ \A i \in 1..(Len(s) - 1) : Front(s)[i] = s[i]
    BY FrontLast
  <1>2. Len(t) <= Len(s) /\ \A i \in 1..Len(t) : t[i] = s[i]
    BY PrefixPointwise
  <1>3. Len(s) - 1 <= Len(t)
    BY <1>1, PrefixPointwise
  <1>4. CASE Len(t) = Len(s)
    BY <1>2, <1>4, SeqEqual
  <1>5. CASE Len(t) = Len(s) - 1
    <2>1. \A i \in 1..Len(t) : t[i] = Front(s)[i]
      BY <1>1, <1>2, <1>5
    <2> QED
      BY <1>1, <1>5, <2>1, SeqEqual
  <1>6. Len(t) \in Nat /\ Len(s) \in Nat
    OBVIOUS
  <1> QED
    BY <1>2, <1>3, <1>4, <1>5, <1>6

-----------------------------------------------------------------------------
(* The working clone *)

\* Runs do not overlap, and a signal finds none in progress.
OneAtATime == (\A r, s \in Runs : r = s) /\ "termBusy" \notin FaultKinds

\* Writing an item and removing obsolete files leave the files outside subDir
\* and the history alone.
LEMMA WriteFileSound ==
  ASSUME NEW d \in Dir, NEW o \in Objs, NEW b \in Blob
  PROVE  /\ WriteFile(d, o, b).log = d.log
         /\ Others(WriteFile(d, o, b).files) = Others(d.files)
  <1>1. \A p \in Foreign : p # o /\ p \in Paths
    BY ConstantTypes DEF Paths
  <1> QED
    BY <1>1 DEF WriteFile, Others, Dir, Tree

LEMMA CleanObsoleteSound ==
  ASSUME NEW d \in Dir, NEW curr
  PROVE  /\ CleanObsolete(d, curr).log = d.log
         /\ Others(CleanObsolete(d, curr).files) = Others(d.files)
  <1>1. \A p \in Foreign : p \notin Objs /\ p \in Paths
    BY ConstantTypes DEF Paths
  <1> QED
    BY <1>1 DEF CleanObsolete, Others, Dir, Tree

LEMMA ClonedSound ==
  ASSUME NEW log \in Seq(Commit)
  PROVE  Sound(Cloned(log)) /\ Cloned(log).log = log
  BY DEF Sound, Cloned

\* A fast-forward of a sound clone is sound: a file outside subDir that git
\* does not track in the old tree is not there.
LEMMA FastForwardSound ==
  ASSUME NEW d \in Dir, Sound(d), NEW log \in Seq(Commit),
         NEW new \in FastForwards(d, log)
  PROVE  Sound(new) /\ new.log = log
  <1> DEFINE old == HeadTree(d.log)
             fwd == HeadTree(log)
             kept == [p \in Paths |-> IF old[p] = None /\ fwd[p] = None
                                      THEN d.files[p] ELSE fwd[p]]
  <1>1. PICK f \in {fwd, kept} :
          new = [d EXCEPT !.log = log, !.files = f,
                          !.sub = @ \/ \E o \in Objs : f[o] # None]
    BY DEF FastForwards
  <1>2. new.log = log /\ new.files = f
    BY <1>1 DEF Dir
  <1>3. \A p \in Foreign : d.files[p] = old[p] /\ p \in Paths
    BY DEF Sound, Others, Paths
  <1>4. \A p \in Foreign : f[p] = fwd[p]
    BY <1>1, <1>3
  <1> QED
    BY <1>2, <1>4 DEF Sound, Others

-----------------------------------------------------------------------------
(* The invariant of the working clone *)

\* What a step of the only run has to show.
LEMMA CloneInvLocal ==
  ASSUME OneAtATime, TypeInv, NEW r \in Runs, NEW rec, Local(r, rec),
         phase' = "up",
         rec.pc = "push" => rec.tgt = work' /\ Ahead(disk[work].log)',
         work' # NoDir /\ rec.pc # "remove" => Sound(disk[work])',
         work' # NoDir /\ rec.pc \notin {"push", "reset", "remove"} =>
           IsPrefix(disk[work].log, remote)'
  PROVE  CloneInv'
  <1>1. \A s \in Runs : run'[s] = rec
    BY DEF OneAtATime, Local, TypeInv, TypeOK
  <1> QED
    BY <1>1 DEF CloneInv

\* What a step of the only run may use.
LEMMA CloneInvUse ==
  ASSUME OneAtATime, TypeInv, CloneInv, NEW r \in Runs, run[r].pc # "idle"
  PROVE  /\ phase = "up"
         /\ run[r].pc = "push" => run[r].tgt = work /\ Ahead(disk[work].log)
         /\ work # NoDir /\ run[r].pc # "remove" => Sound(disk[work])
         /\ work # NoDir /\ run[r].pc \notin {"push", "reset", "remove"} =>
              IsPrefix(disk[work].log, remote)
  BY DEF OneAtATime, CloneInv

\* Ends, resets and gotos: the record they store.
LEMMA RecordFields ==
  /\ \A out : [IdleRun EXCEPT !.out = out].pc = "idle"
  /\ \A then : [IdleRun EXCEPT !.pc = "reset", !.then = then].pc = "reset"
  /\ [IdleRun EXCEPT !.pc = "pull"].pc = "pull"
  /\ \A rec \in Run : \A pc : [rec EXCEPT !.pc = pc].pc = pc
  BY DEF IdleRun, Run

LEMMA MoveFields ==
  ASSUME NEW r \in Runs, run[r] \in Run
  PROVE  /\ \A out : Finish(r, out) => \E rec : Local(r, rec) /\ rec.pc = "idle"
         /\ \A then : ResetThen(r, then) => \E rec : Local(r, rec) /\ rec.pc = "reset"
         /\ \A pc : Goto(r, pc) => \E rec : Local(r, rec) /\ rec.pc = pc
  <1>1. ASSUME NEW out, Finish(r, out)
        PROVE  \E rec : Local(r, rec) /\ rec.pc = "idle"
    <2> WITNESS [IdleRun EXCEPT !.out = out]
    <2> QED
      BY <1>1, RecordFields DEF Finish
  <1>2. ASSUME NEW then, ResetThen(r, then)
        PROVE  \E rec : Local(r, rec) /\ rec.pc = "reset"
    <2> WITNESS [IdleRun EXCEPT !.pc = "reset", !.then = then]
    <2> QED
      BY <1>2, RecordFields DEF ResetThen
  <1>3. ASSUME NEW pc, Goto(r, pc)
        PROVE  \E rec : Local(r, rec) /\ rec.pc = pc
    <2> WITNESS [run[r] EXCEPT !.pc = pc]
    <2> QED
      BY <1>3, RecordFields DEF Goto
  <1> QED
    BY <1>1, <1>2, <1>3

\* Steps that touch neither the remote nor the directories.
LEMMA QuietStep ==
  ASSUME OneAtATime, TypeInv, CloneInv, NEW r \in Runs, NEW rec, Local(r, rec),
         phase = "up", UNCHANGED <<phase, remote, work, disk>>,
         rec.pc \notin {"push", "remove"},
         run[r].pc # "remove",
         run[r].pc \in {"push", "reset"} => rec.pc = "reset" \/ work = NoDir
  PROVE  CloneInv'
  <1>1. \A s \in Runs : s = r
    BY DEF OneAtATime
  <1>2. /\ work # NoDir => Sound(disk[work])
        /\ work # NoDir /\ run[r].pc \notin {"push", "reset", "remove"} =>
             IsPrefix(disk[work].log, remote)
    BY <1>1 DEF CloneInv
  <1>3. /\ work' # NoDir /\ rec.pc # "remove" => Sound(disk[work])'
        /\ work' # NoDir /\ rec.pc \notin {"push", "reset", "remove"} =>
             IsPrefix(disk[work].log, remote)'
    BY <1>2
  <1> QED
    BY <1>3, CloneInvLocal

\* The process is gone: there is nothing left to say about its clone.
LEMMA DieCloneInv ==
  ASSUME NEW b, Die(b)
  PROVE  CloneInv'
  <1>1. phase' = "down" /\ \A r \in Runs : run'[r].pc = "idle"
    BY DEF Die, IdleRun
  <1> QED
    BY <1>1 DEF CloneInv

\* A file step of the run in its own directory, wherever that is.
LEMMA FileStep ==
  ASSUME OneAtATime, TypeInv, CloneInv, NEW r \in Runs, NEW rec, Local(r, rec),
         phase = "up", UNCHANGED <<phase, remote, work>>,
         NEW at \in Places, NEW d, Store(at, d), d.log = disk[at].log,
         Others(d.files) = Others(disk[at].files),
         run[r].pc \notin {"push", "reset", "remove"},
         rec.pc \notin {"push", "remove"}
  PROVE  CloneInv'
  <1>1. \A s \in Runs : s = r
    BY DEF OneAtATime
  <1>2. work # NoDir => Sound(disk[work]) /\ IsPrefix(disk[work].log, remote)
    BY <1>1 DEF CloneInv
  <1>3. /\ disk'[work].log = disk[work].log
        /\ Others(disk'[work].files) = Others(disk[work].files)
    BY DEF Store, TypeInv, TypeOK
  <1>4. work' # NoDir => Sound(disk[work])' /\ IsPrefix(disk[work].log, remote)'
    BY <1>2, <1>3 DEF Sound
  <1> QED
    BY <1>4, CloneInvLocal

\* One step preserves the invariant of the working clone.
LEMMA CloneInvStep ==
  ASSUME OneAtATime, TypeInv, CloneInv, [Next]_vars
  PROVE  CloneInv'
  <1> USE DEF env, proc
  <1>a. /\ work \in Places /\ remote \in Seq(Commit)
        /\ \A d \in Places : disk[d] \in Dir
        /\ \A r \in Runs : run[r] \in Run /\ run[r] \in GoodRun
    BY DEF TypeInv, TypeOK
  <1>b. disk[work] \in Dir /\ disk[work].log \in Seq(Commit)
    BY <1>a DEF Dir
  <1>0. CASE UNCHANGED vars
    BY <1>0 DEF CloneInv, vars, Ahead
  <1>1. ASSUME NEW r \in Runs, Tick(r) PROVE CloneInv'
    BY <1>1, RecordFields, QuietStep DEF Tick
  <1>2. ASSUME NEW r \in Runs, Pull(r) PROVE CloneInv'
    <2>1. /\ phase = "up" /\ UNCHANGED <<phase, remote, work>> /\ work # NoDir
          /\ run[r].pc = "pull" /\ Sound(disk[work])
      BY <1>2, CloneInvUse DEF Pull, At
    <2>2. CASE /\ Goto(r, "discover") \/ ResetThen(r, "discover")
               /\ UNCHANGED disk
      <3>1. \E rec : Local(r, rec) /\ rec.pc \in {"discover", "reset"}
        BY <1>a, <2>2, MoveFields
      <3> QED
        BY <2>1, <2>2, <3>1, QuietStep
    <2>3. ASSUME NEW new \in FastForwards(disk[work], remote),
                 Store(work, new), Goto(r, "discover")
          PROVE  CloneInv'
      <3>1. Sound(new) /\ new.log = remote
        BY <1>a, <1>b, <2>1, FastForwardSound
      <3>2. disk'[work'] = new
        BY <1>a, <2>1, <2>3 DEF Store, TypeInv, TypeOK
      <3>3. Sound(disk[work])' /\ IsPrefix(disk[work].log, remote)'
        BY <1>a, <2>1, <3>1, <3>2, PrefixOfItself
      <3>4. [run[r] EXCEPT !.pc = "discover"].pc = "discover"
        BY <1>a, RecordFields
      <3> QED
        BY <2>1, <2>3, <3>3, <3>4, CloneInvLocal DEF Goto
    <2> QED
      BY <1>2, <2>2, <2>3 DEF Pull
  <1>3. ASSUME NEW r \in Runs, Reset(r) PROVE CloneInv'
    <2> DEFINE rec == [run[r] EXCEPT !.pc = IF work = NoDir THEN "clone" ELSE "remove",
                                     !.tgt = work]
    <2>1. /\ phase = "up" /\ UNCHANGED <<phase, remote, work, disk>>
          /\ Local(r, rec)
      BY <1>3, CloneInvUse DEF Reset, At
    <2>2. rec.pc = IF work = NoDir THEN "clone" ELSE "remove"
      BY <1>a DEF Run
    <2> HIDE DEF rec
    <2> QED
      BY <2>1, <2>2, CloneInvLocal
  <1>4. ASSUME NEW r \in Runs, Erase(r) PROVE CloneInv'
    <2>1. /\ phase = "up" /\ run[r].pc = "remove"
          /\ UNCHANGED <<phase, remote, work, run>>
      BY <1>4, CloneInvUse DEF Erase, At
    <2>2. Local(r, run[r])
      BY <2>1 DEF Local, TypeInv, TypeOK
    <2> QED
      BY <2>1, <2>2, CloneInvLocal
  <1>5. ASSUME NEW r \in Runs, Removed(r) PROVE CloneInv'
    <2> DEFINE rec == [run[r] EXCEPT !.pc = "clone", !.tgt = NoDir]
    <2>1. phase = "up" /\ phase' = "up" /\ work' = NoDir /\ Local(r, rec)
      BY <1>5, CloneInvUse DEF Removed, At
    <2>2. rec.pc = "clone"
      BY <1>a DEF Run
    <2> HIDE DEF rec
    <2> QED
      BY <2>1, <2>2, CloneInvLocal
  <1>6. ASSUME NEW r \in Runs, InitRunner(r) PROVE CloneInv'
    <2>1. /\ phase = "up" /\ UNCHANGED <<phase, remote>> /\ run[r].pc = "clone"
      BY <1>6, CloneInvUse DEF InitRunner, At
    <2>2. CASE Finish(r, "failure") /\ UNCHANGED <<disk, work>>
      BY <2>1, <2>2, RecordFields, QuietStep DEF Finish
    <2>3. ASSUME NEW d \in Dirs, Store(d, Cloned(remote)), work' = d,
                 Goto(r, "discover") \/ Finish(r, "failure")
          PROVE  CloneInv'
      <3>1. disk'[work'] = Cloned(remote)
        BY <2>3 DEF Store, TypeInv, TypeOK, Places
      <3>2. Sound(disk[work])' /\ IsPrefix(disk[work].log, remote)'
        BY <1>a, <2>1, <3>1, ClonedSound, PrefixOfItself
      <3>3. CASE Goto(r, "discover")
        <4>1. \E rec : Local(r, rec) /\ rec.pc = "discover"
          BY <1>a, <3>3, MoveFields
        <4> QED
          BY <2>1, <3>2, <4>1, CloneInvLocal
      <3>4. CASE Finish(r, "failure")
        BY <2>1, <3>2, <3>4, RecordFields, CloneInvLocal DEF Finish
      <3> QED
        BY <2>3, <3>3, <3>4
    <2> QED
      BY <1>6, <2>2, <2>3 DEF InitRunner
  <1>7. ASSUME NEW r \in Runs, Discover(r) PROVE CloneInv'
    <2>1. /\ phase = "up" /\ UNCHANGED <<phase, remote, work, disk>>
          /\ run[r].pc = "discover"
      BY <1>7, CloneInvUse DEF Discover, At
    <2>2. \E rec : Local(r, rec) /\ rec.pc = "list"
      <3>1. PICK found \in SUBSET Gvrs :
              Local(r, [run[r] EXCEPT !.pc = "list", !.dir = work,
                                      !.todo = found \ ExcludedGvrs])
        BY <1>7 DEF Discover
      <3>2. [run[r] EXCEPT !.pc = "list", !.dir = work,
                           !.todo = found \ ExcludedGvrs].pc = "list"
        BY <1>a DEF Run
      <3> QED
        BY <3>1, <3>2, Zenon
    <2> QED
      BY <2>1, <2>2, QuietStep
  <1>8. ASSUME NEW r \in Runs, ListAll(r) PROVE CloneInv'
    <2>1. /\ phase = "up" /\ UNCHANGED <<phase, remote, work, disk>>
          /\ run[r].pc = "list"
      BY <1>8, CloneInvUse DEF ListAll, At
    <2>2. \E rec : Local(r, rec) /\ rec.pc \in {"list", "items"}
      <3> DEFINE list(g) == [o \in Objs |-> IF GvrOf[o] = g THEN cluster[o] ELSE None]
                 listed(g) == [run[r] EXCEPT !.pc = "items", !.todo = @ \ {g},
                                             !.items = list(g)]
                 skipped(g) == [run[r] EXCEPT !.todo = @ \ {g}]
      <3>1. PICK g \in run[r].todo : Local(r, listed(g)) \/ Local(r, skipped(g))
        BY <1>8 DEF ListAll
      <3>2. listed(g).pc = "items" /\ skipped(g).pc = "list"
        BY <1>a, <2>1 DEF Run
      <3> HIDE DEF listed, skipped
      <3> QED
        BY <3>1, <3>2
    <2> QED
      BY <2>1, <2>2, QuietStep
  <1>9. ASSUME NEW r \in Runs, ListDone(r) \/ ItemsDone(r) PROVE CloneInv'
    <2>1. /\ phase = "up" /\ UNCHANGED <<phase, remote, work, disk>>
          /\ run[r].pc \in {"list", "items"}
          /\ Goto(r, "clean") \/ Goto(r, "list")
      BY <1>9, CloneInvUse DEF ListDone, ItemsDone, At
    <2> QED
      <3>1. \E rec : Local(r, rec) /\ rec.pc \in {"clean", "list"}
        BY <1>a, <2>1, MoveFields
      <3> QED
        BY <2>1, <3>1, QuietStep
  <1>10. ASSUME NEW r \in Runs, Item(r) PROVE CloneInv'
    <2>1. /\ phase = "up" /\ UNCHANGED <<phase, remote, work, disk>>
          /\ run[r].pc = "items"
      BY <1>10, CloneInvUse DEF Item, At
    <2>2. \E rec : Local(r, rec) /\ rec.pc \in {"items", "eval"}
      <3> DEFINE skipped(o) == [run[r] EXCEPT !.items[o] = None]
                 taken(o) == [run[r] EXCEPT !.pc = "eval", !.item = o]
      <3>1. PICK o \in Objs : Local(r, skipped(o)) \/ Local(r, taken(o))
        BY <1>10 DEF Item
      <3>2. skipped(o).pc = "items" /\ taken(o).pc = "eval"
        BY <1>a, <2>1 DEF Run
      <3> HIDE DEF skipped, taken
      <3> QED
        BY <3>1, <3>2
    <2> QED
      BY <2>1, <2>2, QuietStep
  <1>11. ASSUME NEW r \in Runs, WriteItem(r) PROVE CloneInv'
    <2> DEFINE o    == run[r].item
               blob == Strip(run[r].items[o])
               next == [run[r] EXCEPT !.pc = "items", !.items[o] = None, !.item = None]
    <2>1. /\ phase = "up" /\ UNCHANGED <<phase, remote, work>>
          /\ run[r].pc = "eval"
      BY <1>11, CloneInvUse DEF WriteItem, At
    <2>2. o \in Objs /\ blob \in Blob /\ run[r].dir \in Places
      BY <1>a, <2>1 DEF GoodRun, Run, Strip, Blob, Raw
    <2>3. next.pc = "items" /\ [next EXCEPT !.curr[o] = blob].pc = "items"
      BY <1>a DEF Run
    <2>4. CASE Local(r, next) /\ UNCHANGED disk
      BY <2>1, <2>3, <2>4, QuietStep
    <2>5. CASE Finish(r, "failure") /\ UNCHANGED disk
      BY <2>1, <2>5, RecordFields, QuietStep DEF Finish
    <2>6. CASE /\ Local(r, [next EXCEPT !.curr[o] = blob])
               /\ Store(run[r].dir, WriteFile(disk[run[r].dir], o, blob))
      <3>1. disk[run[r].dir] \in Dir
        BY <1>a, <2>2
      <3>2. /\ WriteFile(disk[run[r].dir], o, blob).log = disk[run[r].dir].log
            /\ Others(WriteFile(disk[run[r].dir], o, blob).files)
                 = Others(disk[run[r].dir].files)
        BY <2>2, <3>1, WriteFileSound
      <3> QED
        BY <2>1, <2>2, <2>3, <2>6, <3>2, FileStep
    <2> QED
      BY <1>11, <2>4, <2>5, <2>6 DEF WriteItem
  <1>12. ASSUME NEW r \in Runs, Clean(r) PROVE CloneInv'
    <2>1. /\ phase = "up" /\ UNCHANGED <<phase, remote, work>>
          /\ run[r].pc = "clean"
      BY <1>12, CloneInvUse DEF Clean, At
    <2>2. run[r].dir \in Places /\ disk[run[r].dir] \in Dir
      BY <1>a DEF Run
    <2>3. \E rec : Local(r, rec) /\ rec.pc \in {"idle", "status"}
      BY <1>12, <1>a, MoveFields DEF Clean
    <2>4. CASE UNCHANGED disk
      BY <2>1, <2>3, <2>4, QuietStep
    <2>5. CASE \E curr : Store(run[r].dir, CleanObsolete(disk[run[r].dir], curr))
      BY <2>1, <2>2, <2>3, <2>5, CleanObsoleteSound, FileStep
    <2> QED
      BY <1>12, <2>4, <2>5 DEF Clean
  <1>13. ASSUME NEW r \in Runs, IsClean(r) PROVE CloneInv'
    <2>1. /\ phase = "up" /\ UNCHANGED <<phase, remote, work, disk>>
          /\ run[r].pc = "status"
      BY <1>13, CloneInvUse DEF IsClean, At
    <2>2. \E rec : Local(r, rec) /\ rec.pc \in {"idle", "commit"}
      BY <1>13, <1>a, MoveFields DEF IsClean
    <2> QED
      BY <2>1, <2>2, QuietStep
  <1>14. ASSUME NEW r \in Runs, CommitAll(r) PROVE CloneInv'
    <2> DEFINE d == disk[work]
               c == [by |-> "korpus", tree |-> d.files]
               new == [d EXCEPT !.log = Append(@, c)]
               rec == [run[r] EXCEPT !.pc = "push", !.tgt = work]
    <2>1. /\ phase = "up" /\ UNCHANGED <<phase, remote, work>> /\ work # NoDir
          /\ run[r].pc = "commit" /\ Sound(d) /\ IsPrefix(d.log, remote)
      BY <1>14, CloneInvUse DEF CommitAll, At
    <2>2. CASE ResetThen(r, "idle") /\ UNCHANGED disk
      BY <2>1, <2>2, RecordFields, QuietStep DEF ResetThen
    <2>3. CASE d.files # HeadTree(d.log) /\ Store(work, new) /\ Local(r, rec)
      <3>1. c \in Commit
        BY <1>b DEF Commit, Dir
      <3>2. new.log = Append(d.log, c) /\ new.files = d.files
        BY <1>b DEF Dir
      <3>3. /\ new.log # <<>> /\ Front(new.log) = d.log /\ Last(new.log) = c
        BY <1>b, <3>1, <3>2, AppendFrontLast
      <3>4. HeadTree(new.log) = d.files
        BY <3>3 DEF HeadTree, Last
      <3>5. Ahead(new.log)
        BY <2>1, <2>3, <3>3 DEF Ahead, Sound
      <3>6. Sound(new)
        BY <3>2, <3>4 DEF Sound
      <3>7. disk'[work'] = new
        BY <1>a, <2>1, <2>3 DEF Store, TypeInv, TypeOK
      <3>8. rec.pc = "push" /\ rec.tgt = work'
        BY <1>a, <2>1 DEF Run
      <3>9. Ahead(disk[work].log)' /\ Sound(disk[work])'
        BY <2>1, <3>5, <3>6, <3>7 DEF Ahead
      <3> HIDE DEF rec
      <3> QED
        BY <2>1, <2>3, <3>8, <3>9, CloneInvLocal
    <2> QED
      BY <1>14, <2>2, <2>3 DEF CommitAll
  <1>15. ASSUME NEW r \in Runs, Push(r) PROVE CloneInv'
    <2>1. /\ phase = "up" /\ UNCHANGED <<phase, work, disk>>
          /\ run[r].pc = "push" /\ run[r].tgt = work
      BY <1>15, CloneInvUse DEF Push, At
    <2>2. CASE ResetThen(r, "idle")
      BY <2>1, <2>2, RecordFields, CloneInvUse, CloneInvLocal, ZenonT(30) DEF ResetThen
    <2>3. CASE Publish(disk[work]) /\ Finish(r, "success")
      <3>1. work # NoDir => Sound(disk[work])'
        BY <2>1, CloneInvUse
      <3>2. IsPrefix(disk[work].log, remote)'
        BY <1>b, <2>1, <2>3, PrefixOfItself DEF Publish
      <3> QED
        BY <2>1, <2>3, <3>1, <3>2, RecordFields, CloneInvLocal DEF Finish
    <2> QED
      BY <1>15, <2>1, <2>2, <2>3 DEF Push
  <1>16. ASSUME NEW r \in Runs, NilGc(r) PROVE CloneInv'
    BY <1>16, DieCloneInv DEF NilGc
  <1>17. CASE Start
    <2>1. \A r \in Runs : run[r].pc = "idle" /\ run'[r].pc = "idle"
      BY <1>17 DEF Start, CloneInv
    <2>2. CASE UNCHANGED <<disk, work, phase>>
      BY <1>17, <2>1, <2>2 DEF Start, CloneInv
    <2>3. ASSUME NEW d \in Dirs, Store(d, Cloned(remote)), work' = d
          PROVE  CloneInv'
      <3>1. disk'[work'] = Cloned(remote)
        BY <2>3 DEF Store, TypeInv, TypeOK, Places
      <3>2. Sound(disk[work])' /\ IsPrefix(disk[work].log, remote)'
        BY <1>17, <1>a, <3>1, ClonedSound, PrefixOfItself DEF Start
      <3> QED
        BY <2>1, <3>2 DEF CloneInv
    <2> QED
      BY <1>17, <2>2, <2>3 DEF Start
  <1>18. CASE Terminate
    <2>1. \A r \in Runs : run'[r].pc = "idle"
      BY <1>18 DEF Terminate, Fault, OneAtATime
    <2> QED
      BY <1>18, <2>1 DEF Terminate, CloneInv
  <1>19. CASE EraseDoomed
    BY <1>19 DEF EraseDoomed, CloneInv
  <1>20. CASE Exit \/ Crash
    BY <1>20, DieCloneInv DEF Exit, Crash
  <1>21. CASE Edit
    BY <1>21 DEF Edit, CloneInv, Ahead
  <1>22. CASE Other
    <2>1. UNCHANGED <<phase, work, disk, run>>
      BY <1>22 DEF Other
    <2>2. PICK c \in Commit : remote' = Append(remote, c)
      <3>1. HeadTree(remote) \in Tree
        BY <1>a, HeadTreeType
      <3>2. \A p \in Foreign, b \in Blob :
              [by |-> "other", tree |-> [HeadTree(remote) EXCEPT ![p] = b]] \in Commit
        BY <3>1 DEF Commit, Tree
      <3> QED
        BY <1>22, <3>2 DEF Other
    <2>3. \A log \in Seq(Commit) : IsPrefix(log, remote) => IsPrefix(log, remote')
      BY <1>a, <2>2, PrefixAppend
    <2>4. disk[work].log # <<>> => Front(disk[work].log) \in Seq(Commit)
      BY <1>b, FrontLast
    <2>5. Ahead(disk[work].log) => Ahead(disk[work].log)'
      BY <2>1, <2>3, <2>4 DEF Ahead
    <2> QED
      BY <1>b, <2>1, <2>3, <2>5 DEF CloneInv
  <1> QED
    BY <1>0, <1>1, <1>2, <1>3, <1>4, <1>5, <1>6, <1>7, <1>8, <1>9, <1>10,
       <1>11, <1>12, <1>13, <1>14, <1>15, <1>16, <1>17, <1>18, <1>19, <1>20,
       <1>21, <1>22 DEF Next, RunStep

-----------------------------------------------------------------------------
(* The published history *)

LEMMA InitClone == Init => TypeInv /\ CloneInv
  <1> SUFFICES ASSUME Init PROVE TypeInv /\ CloneInv
    OBVIOUS
  <1>1. TypeInv
    BY InitTypes
  <1>2. phase = "down" /\ \A r \in Runs : run[r].pc = "idle"
    BY DEF Init, IdleRun
  <1> QED
    BY <1>1, <1>2 DEF CloneInv

\* A commit that adds tree t to the remote, as the abstract specification
\* sees it.
LEMMA CommitRefines ==
  ASSUME TypeInv, NEW by, NEW kept, NEW t \in Tree,
         \A p \in kept : t[p] = HeadTree(remote)[p], t # HeadTree(remote),
         remote' = Append(remote, [by |-> by, tree |-> t])
  PROVE  IB!Commit(by, kept)
  BY DEF IB!Commit, IB!Latest, IB!First, IB!Tree, HeadTree, EmptyTree, Tree, Paths

\* A push publishes nothing or exactly the one commit its run has made.
LEMMA PushRefines ==
  ASSUME TypeInv, Ahead(disk[work].log), work \in Places, Publish(disk[work])
  PROVE  IB!Commit("korpus", Foreign) \/ UNCHANGED remote
  <1> DEFINE log == disk[work].log
  <1>1. log \in Seq(Commit) /\ remote \in Seq(Commit) /\ log # <<>>
    BY DEF TypeInv, TypeOK, Dir, Ahead
  <1>2. remote' = log /\ (remote = log \/ remote = Front(log))
    BY <1>1, BetweenFrontAndAll DEF Publish, Ahead
  <1>3. CASE remote = log
    BY <1>2, <1>3
  <1>4. CASE remote = Front(log)
    <2>1. /\ remote' = Append(remote, Last(log))
          /\ Last(log) \in Commit
      BY <1>1, <1>2, <1>4, FrontLast
    <2>2. /\ Last(log).tree \in Tree /\ Last(log).by = "korpus"
          /\ Last(log) = [by |-> "korpus", tree |-> Last(log).tree]
      BY <2>1 DEF Commit, Ahead
    <2>3. Last(log).tree # HeadTree(remote)
      BY <1>4 DEF Ahead
    <2>4. \A p \in Foreign : Last(log).tree[p] = HeadTree(remote)[p]
      BY <1>4 DEF Ahead, Others
    <2> QED
      BY <2>1, <2>2, <2>3, <2>4, CommitRefines
  <1> QED
    BY <1>2, <1>3, <1>4

LEMMA HistoryStep ==
  ASSUME OneAtATime, TypeInv, CloneInv, [Next]_vars
  PROVE  IB!Commit("korpus", Foreign) \/ IB!Commit("other", Objs) \/ UNCHANGED remote
  <1> USE DEF env, proc
  <1>1. ASSUME NEW r \in Runs, Push(r)
        PROVE  IB!Commit("korpus", Foreign) \/ UNCHANGED remote
    <2>1. run[r].tgt = work /\ Ahead(disk[work].log) /\ work \in Places
      BY <1>1, CloneInvUse DEF Push, At, TypeInv, TypeOK
    <2>2. UNCHANGED remote \/ Publish(disk[work])
      BY <1>1, <2>1 DEF Push
    <2> QED
      BY <2>1, <2>2, PushRefines
  <1>2. CASE Other
    <2>1. HeadTree(remote) \in Tree
      BY HeadTreeType DEF TypeInv, TypeOK
    <2>2. PICK p \in Foreign, b \in Blob :
            /\ b # HeadTree(remote)[p]
            /\ remote' = Append(remote, [by   |-> "other",
                                         tree |-> [HeadTree(remote) EXCEPT ![p] = b]])
      BY <1>2 DEF Other
    <2> DEFINE t == [HeadTree(remote) EXCEPT ![p] = b]
    <2>3. p \notin Objs /\ p \in Paths
      BY ConstantTypes DEF Paths
    <2>4. t \in Tree /\ t # HeadTree(remote) /\ \A o \in Objs : t[o] = HeadTree(remote)[o]
      BY <2>1, <2>2, <2>3 DEF Tree, Paths
    <2> QED
      BY <2>2, <2>4, CommitRefines
  <1>3. ASSUME NEW r \in Runs, Tick(r) \/ (RunStep(r) /\ ~Push(r)) PROVE UNCHANGED remote
    BY <1>3 DEF RunStep, Tick, Pull, Reset, Erase, Removed, InitRunner, Discover,
                ListAll, ListDone, Item, ItemsDone, WriteItem, Clean, IsClean,
                CommitAll, NilGc
  <1>4. CASE Start \/ Terminate \/ EraseDoomed \/ Exit \/ Crash \/ Edit
    BY <1>4 DEF Start, Terminate, EraseDoomed, Exit, Crash, Edit
  <1>5. CASE UNCHANGED vars
    BY <1>5 DEF vars
  <1> QED
    BY <1>1, <1>2, <1>3, <1>4, <1>5 DEF Next

\* While the daemon's runs do not overlap and SIGTERM finds none at work, the
\* working clone satisfies CloneInv in every reachable state: runOnce never
\* changes a file outside subDir, and never commits on top of anything but a
\* history the remote has, through failed pulls, pushes, clones and restarts.
THEOREM CloneInvHolds ==
  ASSUME OneAtATime
  PROVE  Spec => []CloneInv
  <1>1. Init => TypeInv /\ CloneInv
    BY InitClone
  <1>2. TypeInv /\ CloneInv /\ [Next]_vars => TypeInv' /\ CloneInv'
    BY TypeStep, CloneInvStep
  <1> QED
    BY <1>1, <1>2, PTL DEF Spec

\* Under the same assumption the daemon implements the history part of the
\* information base: the branch only grows, by single commits, and a commit
\* of the daemon leaves everybody else's files as they were.
THEOREM HistoryImplemented ==
  ASSUME OneAtATime
  PROVE  Spec => SharedHistory
  <1>1. Init => TypeInv /\ CloneInv /\ remote = <<>>
    BY InitClone DEF Init
  <1>2. TypeInv /\ CloneInv /\ [Next]_vars => TypeInv' /\ CloneInv'
    BY TypeStep, CloneInvStep
  <1>3. TypeInv /\ CloneInv /\ [Next]_vars =>
          [IB!Commit("korpus", Foreign) \/ IB!Commit("other", Objs)]_remote
    BY HistoryStep
  <1> QED
    BY <1>1, <1>2, <1>3, PTL DEF Spec, SharedHistory, IB!HistorySpec
-----------------------------------------------------------------------------
(* The invariant of a run *)

Working  == {"list", "items", "eval", "clean", "status", "commit"}
Starting == {"pull", "reset", "remove", "clone", "discover"}
Undone   == {"push", "reset", "remove"}

\* What a run whose local state is k knows of runner.workDir (w), the clone in
\* it (d), celCtx (c) and the remote: it writes where git commits, what it has
\* written is there, after CleanObsolete nothing else is, and its commit has
\* just that.
Snap(k, w, d, c, rem) ==
  /\ k.pc \in {"discover", "push"} \cup Working => w # NoDir
  /\ k.pc \in Working => k.dir = w
  /\ k.pc \in Starting \cup {"list"} => k.items = NoItems
  /\ k.pc \in Starting => k.curr = NoItems
  /\ k.pc \in {"list", "items", "eval", "clean"} =>
       \A o \in Objs : k.curr[o] # None => d.files[o] = k.curr[o]
  /\ k.pc \in {"status", "commit"} => Own(d.files) = k.curr
  /\ k.pc = "push" => Own(Last(d.log).tree) = k.curr /\ rem # d.log
  /\ k.pc = "eval" /\ k.item \in CelRuled => c = k.item

\* What the remote has beyond the clone is of other writers.
LevelWith(log, rem) ==
  /\ Own(HeadTree(log)) = Own(HeadTree(rem))
  /\ \A i \in (Len(log) + 1)..Len(rem) : rem[i].by = "other"

Level ==
  phase = "up" /\ work # NoDir /\ (\A r \in Runs : run[r].pc \notin Undone) =>
    LevelWith(disk[work].log, remote)

SnapInv ==
  /\ Level
  /\ \A r \in Runs : Snap(run[r], work, disk[work], celItem, remote)

-----------------------------------------------------------------------------
(* Steps of the only run *)

LEMMA SnapIdle ==
  ASSUME NEW k, k.pc = "idle", NEW w, NEW d, NEW c, NEW rem
  PROVE  Snap(k, w, d, c, rem)
  BY DEF Snap, Working, Starting

\* The local states in which nothing of a snapshot is there yet.
LEMMA SnapStarting ==
  ASSUME NEW k, k.pc \in Starting, k.items = NoItems, k.curr = NoItems,
         NEW w, k.pc = "discover" => w # NoDir, NEW d, NEW c, NEW rem
  PROVE  Snap(k, w, d, c, rem)
  BY DEF Snap, Working, Starting

LEMMA LevelWithItself == ASSUME NEW log \in Seq(Commit) PROVE LevelWith(log, log)
  BY DEF LevelWith

\* What a step of the only run has to show.
LEMMA SnapLocal ==
  ASSUME OneAtATime, TypeInv, NEW r \in Runs, NEW rec, Local(r, rec),
         Snap(rec, work', disk'[work'], celItem', remote'),
         phase' = "up" /\ work' # NoDir /\ rec.pc \notin Undone =>
           LevelWith(disk'[work'].log, remote')
  PROVE  SnapInv'
  <1>1. \A s \in Runs : run'[s] = rec
    BY DEF OneAtATime, Local, TypeInv, TypeOK
  <1>2. Level'
    BY <1>1 DEF Level
  <1> QED
    BY <1>1, <1>2 DEF SnapInv

\* A step of the only run that leaves histories as they are.
LEMMA SnapQuiet ==
  ASSUME OneAtATime, TypeInv, SnapInv, NEW r \in Runs, NEW rec, Local(r, rec),
         UNCHANGED <<phase, work, remote>>, disk'[work].log = disk[work].log,
         run[r].pc \in Undone => rec.pc \in Undone \/ work = NoDir,
         Snap(rec, work, disk'[work], celItem', remote)
  PROVE  SnapInv'
  <1>1. \A s \in Runs : s = r
    BY DEF OneAtATime
  <1>2. phase = "up" /\ work # NoDir /\ run[r].pc \notin Undone =>
          LevelWith(disk[work].log, remote)
    BY <1>1 DEF SnapInv, Level
  <1>3. phase' = "up" /\ work' # NoDir /\ rec.pc \notin Undone =>
          LevelWith(disk'[work'].log, remote')
    BY <1>2
  <1>4. Snap(rec, work', disk'[work'], celItem', remote')
    OBVIOUS
  <1> QED
    BY <1>3, <1>4, SnapLocal

\* The records a run ends, resets or goes on with.
LEMMA MoveRecords ==
  /\ \A out : [IdleRun EXCEPT !.out = out].pc = "idle"
  /\ \A then : LET k == [IdleRun EXCEPT !.pc = "reset", !.then = then]
               IN  k.pc = "reset" /\ k.items = NoItems /\ k.curr = NoItems
  /\ LET k == [IdleRun EXCEPT !.pc = "pull"]
     IN  k.pc = "pull" /\ k.items = NoItems /\ k.curr = NoItems
  /\ \A k \in Run : \A pc :
       LET n == [k EXCEPT !.pc = pc]
       IN  /\ n.pc = pc /\ n.items = k.items /\ n.curr = k.curr
           /\ n.dir = k.dir /\ n.item = k.item /\ n.todo = k.todo /\ n.tgt = k.tgt
  <1>1. ASSUME NEW k \in Run, NEW pc
        PROVE  LET n == [k EXCEPT !.pc = pc]
               IN  /\ n.pc = pc /\ n.items = k.items /\ n.curr = k.curr
                   /\ n.dir = k.dir /\ n.item = k.item /\ n.todo = k.todo /\ n.tgt = k.tgt
    BY DEF Run
  <1>2. \A then : LET k == [IdleRun EXCEPT !.pc = "reset", !.then = then]
                  IN  k.pc = "reset" /\ k.items = NoItems /\ k.curr = NoItems
    BY DEF IdleRun
  <1>3. LET k == [IdleRun EXCEPT !.pc = "pull"]
        IN  k.pc = "pull" /\ k.items = NoItems /\ k.curr = NoItems
    BY DEF IdleRun
  <1> QED
    BY <1>1, <1>2, <1>3 DEF IdleRun

LEMMA FinishSnap ==
  ASSUME OneAtATime, TypeInv, SnapInv, NEW r \in Runs, NEW out, Finish(r, out),
         run[r].pc \notin Undone, UNCHANGED <<phase, work, remote>>,
         disk'[work].log = disk[work].log
  PROVE  SnapInv'
  BY MoveRecords, SnapIdle, SnapQuiet, ZenonT(30) DEF Finish

LEMMA ResetSnap ==
  ASSUME OneAtATime, TypeInv, SnapInv, NEW r \in Runs, NEW then, ResetThen(r, then)
  PROVE  SnapInv'
  <1> DEFINE rec == [IdleRun EXCEPT !.pc = "reset", !.then = then]
  <1>1. rec.pc = "reset" /\ rec.items = NoItems /\ rec.curr = NoItems /\ Local(r, rec)
    BY MoveRecords DEF ResetThen
  <1> HIDE DEF rec
  <1>2. Snap(rec, work', disk'[work'], celItem', remote')
    BY <1>1, SnapStarting DEF Starting
  <1> QED
    BY <1>1, <1>2, SnapLocal DEF Undone

\* The process is gone.
LEMMA DieSnap == ASSUME NEW b, Die(b) PROVE SnapInv'
  <1>1. phase' = "down" /\ \A r \in Runs : run'[r].pc = "idle"
    BY DEF Die, IdleRun
  <1> QED
    BY <1>1, SnapIdle DEF SnapInv, Level

\* What a step of the only run may use.
LEMMA SnapUse ==
  ASSUME TypeInv, CloneInv, SnapInv, OneAtATime, NEW r \in Runs
  PROVE  /\ run[r] \in Run /\ work \in Places /\ disk[work] \in Dir
         /\ remote \in Seq(Commit) /\ disk[work].log \in Seq(Commit)
         /\ Snap(run[r], work, disk[work], celItem, remote)
         /\ phase = "up" /\ work # NoDir /\ run[r].pc \notin Undone =>
              LevelWith(disk[work].log, remote)
  <1>1. /\ run[r] \in Run /\ work \in Places /\ disk[work] \in Dir
        /\ remote \in Seq(Commit)
    BY DEF TypeInv, TypeOK
  <1>2. disk[work].log \in Seq(Commit)
    BY <1>1 DEF Dir
  <1>3. \A s \in Runs : s = r
    BY DEF OneAtATime
  <1> QED
    BY <1>1, <1>2, <1>3 DEF SnapInv, Level

LEMMA TickSnap ==
  ASSUME OneAtATime, TypeInv, CloneInv, SnapInv, NEW r \in Runs, Tick(r)
  PROVE  SnapInv'
  <1> USE DEF env, proc
  <1> DEFINE rec == [IdleRun EXCEPT !.pc = "pull"]
  <1>1. /\ rec.pc = "pull" /\ rec.items = NoItems /\ rec.curr = NoItems /\ Local(r, rec)
        /\ UNCHANGED <<phase, work, remote, disk>> /\ run[r].pc = "idle"
    BY MoveRecords DEF Tick
  <1> HIDE DEF rec
  <1>2. Snap(rec, work, disk'[work], celItem', remote)
    BY <1>1, SnapStarting DEF Starting
  <1> QED
    BY <1>1, <1>2, SnapQuiet DEF Undone

LEMMA PullSnap ==
  ASSUME OneAtATime, TypeInv, CloneInv, SnapInv, NEW r \in Runs, Pull(r)
  PROVE  SnapInv'
  <1> USE DEF env, proc
  <1>1. /\ run[r].pc = "pull" /\ work # NoDir /\ UNCHANGED <<phase, work, remote>>
        /\ run[r] \in Run /\ work \in Places /\ disk[work] \in Dir /\ remote \in Seq(Commit)
    BY SnapUse DEF Pull, At
  <1>2. run[r].items = NoItems /\ run[r].curr = NoItems
    BY <1>1, SnapUse DEF Snap, Starting
  <1> DEFINE rec == [run[r] EXCEPT !.pc = "discover"]
  <1>3. rec.pc = "discover" /\ rec.items = NoItems /\ rec.curr = NoItems
    BY <1>1, <1>2, MoveRecords
  <1>4. Snap(rec, work, disk'[work], celItem', remote)
    <2> HIDE DEF rec
    <2> QED
      BY <1>1, <1>3, SnapStarting DEF Starting
  <1>5. CASE ResetThen(r, "discover")
    BY <1>5, ResetSnap
  <1>6. CASE Goto(r, "discover") /\ UNCHANGED disk
    <2>1. Local(r, rec)
      BY <1>6 DEF Goto
    <2> HIDE DEF rec
    <2> QED
      BY <1>1, <1>4, <1>6, <2>1, SnapQuiet DEF Undone
  <1>7. ASSUME NEW new \in FastForwards(disk[work], remote), Store(work, new),
               Goto(r, "discover")
        PROVE  SnapInv'
    <2>1. Local(r, rec)
      BY <1>7 DEF Goto
    <2>2. disk'[work] = new
      BY <1>1, <1>7 DEF Store, TypeInv, TypeOK
    <2>3. new.log = remote
      BY <1>1 DEF FastForwards, Dir
    <2>4. LevelWith(disk'[work'].log, remote')
      BY <1>1, <2>2, <2>3, LevelWithItself
    <2> HIDE DEF rec
    <2> QED
      BY <1>1, <1>4, <2>1, <2>4, SnapLocal
  <1> QED
    BY <1>5, <1>6, <1>7 DEF Pull

LEMMA ResetRunSnap ==
  ASSUME OneAtATime, TypeInv, CloneInv, SnapInv, NEW r \in Runs,
         Reset(r) \/ Erase(r) \/ Removed(r)
  PROVE  SnapInv'
  <1> USE DEF env, proc
  <1>1. /\ run[r] \in Run /\ run[r].pc \in {"reset", "remove"}
        /\ run[r].items = NoItems /\ run[r].curr = NoItems
    BY SnapUse DEF Reset, Erase, Removed, At, Snap, Starting
  <1>2. CASE Reset(r)
    <2> DEFINE rec == [run[r] EXCEPT !.pc = IF work = NoDir THEN "clone" ELSE "remove",
                                     !.tgt = work]
    <2>1. /\ rec.pc = IF work = NoDir THEN "clone" ELSE "remove"
          /\ rec.items = NoItems /\ rec.curr = NoItems
      BY <1>1 DEF Run
    <2>2. Local(r, rec) /\ UNCHANGED work
      BY <1>2 DEF Reset
    <2> HIDE DEF rec
    <2>3. Snap(rec, work', disk'[work'], celItem', remote')
      BY <2>1, SnapStarting DEF Starting
    <2> QED
      BY <2>1, <2>2, <2>3, SnapLocal DEF Undone
  <1>3. CASE Erase(r)
    <2>1. Local(r, run[r]) /\ run[r].pc = "remove"
      BY <1>3 DEF Erase, At, Local, TypeInv, TypeOK
    <2>2. Snap(run[r], work', disk'[work'], celItem', remote')
      BY <1>1, <2>1, SnapStarting DEF Starting
    <2> QED
      BY <2>1, <2>2, SnapLocal DEF Undone
  <1>4. CASE Removed(r)
    <2> DEFINE rec == [run[r] EXCEPT !.pc = "clone", !.tgt = NoDir]
    <2>1. rec.pc = "clone" /\ rec.items = NoItems /\ rec.curr = NoItems
      BY <1>1 DEF Run
    <2>2. Local(r, rec) /\ work' = NoDir
      BY <1>4 DEF Removed
    <2> HIDE DEF rec
    <2>3. Snap(rec, work', disk'[work'], celItem', remote')
      BY <2>1, SnapStarting DEF Starting
    <2> QED
      BY <2>2, <2>3, SnapLocal
  <1> QED
    BY <1>2, <1>3, <1>4

LEMMA InitRunnerSnap ==
  ASSUME OneAtATime, TypeInv, CloneInv, SnapInv, NEW r \in Runs, InitRunner(r)
  PROVE  SnapInv'
  <1> USE DEF env, proc
  <1>1. /\ run[r] \in Run /\ run[r].pc = "clone" /\ UNCHANGED <<phase, remote>>
        /\ run[r].items = NoItems /\ run[r].curr = NoItems /\ remote \in Seq(Commit)
    BY SnapUse DEF InitRunner, At, Snap, Starting
  <1>2. CASE Finish(r, "failure") /\ UNCHANGED <<disk, work>>
    BY <1>1, <1>2, FinishSnap DEF Undone
  <1>3. ASSUME NEW d \in Dirs, Store(d, Cloned(remote)), work' = d,
               Goto(r, "discover") \/ Finish(r, "failure")
        PROVE  SnapInv'
    <2>1. disk'[work'] = Cloned(remote) /\ work' # NoDir
      BY <1>3, ConstantTypes DEF Store, TypeInv, TypeOK, Places
    <2>2. LevelWith(disk'[work'].log, remote')
      BY <1>1, <2>1, ClonedSound, LevelWithItself
    <2>3. CASE Goto(r, "discover")
      <3> DEFINE rec == [run[r] EXCEPT !.pc = "discover"]
      <3>1. rec.pc = "discover" /\ rec.items = NoItems /\ rec.curr = NoItems
        BY <1>1, MoveRecords
      <3>2. Local(r, rec)
        BY <2>3 DEF Goto
      <3> HIDE DEF rec
      <3>3. Snap(rec, work', disk'[work'], celItem', remote')
        BY <2>1, <3>1, SnapStarting DEF Starting
      <3> QED
        BY <2>2, <3>2, <3>3, SnapLocal
    <2>4. CASE Finish(r, "failure")
      <3>1. Snap([IdleRun EXCEPT !.out = "failure"], work', disk'[work'], celItem', remote')
        BY MoveRecords, SnapIdle
      <3> QED
        BY <2>2, <2>4, <3>1, SnapLocal DEF Finish
    <2> QED
      BY <1>3, <2>3, <2>4
  <1> QED
    BY <1>2, <1>3 DEF InitRunner

\* The loops over types and items: only the local state and celCtx change.
LEMMA LoopSnap ==
  ASSUME OneAtATime, TypeInv, CloneInv, SnapInv, NEW r \in Runs,
         \/ Discover(r) \/ ListAll(r) \/ ListDone(r) \/ Item(r) \/ ItemsDone(r)
  PROVE  SnapInv'
  <1> USE DEF env, proc
  <1> DEFINE k == run[r]
  <1>1. /\ k \in Run /\ k.pc \in {"discover", "list", "items"} /\ work # NoDir
        /\ UNCHANGED <<phase, work, remote, disk>>
        /\ Snap(k, work, disk[work], celItem, remote)
    BY SnapUse DEF Discover, ListAll, ListDone, Item, ItemsDone, At, Snap, Working
  <1>2. k.pc # "discover" =>
          k.dir = work /\ \A o \in Objs : k.curr[o] # None => disk[work].files[o] = k.curr[o]
    BY <1>1 DEF Snap, Working
  <1>3. CASE Discover(r)
    <2>1. PICK found \in SUBSET Gvrs :
            Local(r, [k EXCEPT !.pc = "list", !.dir = work, !.todo = found \ ExcludedGvrs])
      BY <1>3 DEF Discover
    <2> DEFINE rec == [k EXCEPT !.pc = "list", !.dir = work, !.todo = found \ ExcludedGvrs]
    <2>2. rec.pc = "list" /\ rec.dir = work /\ rec.items = k.items /\ rec.curr = k.curr
      BY <1>1 DEF Run
    <2>3. k.items = NoItems /\ k.curr = NoItems
      BY <1>1, <1>3 DEF Snap, Starting, Discover, At
    <2>4. Local(r, rec)
      BY <2>1
    <2> HIDE DEF rec, k
    <2>5. Snap(rec, work, disk'[work], celItem', remote)
      BY <1>1, <2>2, <2>3 DEF Snap, Working, Starting, NoItems
    <2> QED
      BY <1>1, <2>4, <2>5, SnapQuiet DEF Undone, k
  <1>4. CASE ListAll(r)
    <2> DEFINE list(g) == [o \in Objs |-> IF GvrOf[o] = g THEN cluster[o] ELSE None]
               listed(g) == [k EXCEPT !.pc = "items", !.todo = @ \ {g}, !.items = list(g)]
               skipped(g) == [k EXCEPT !.todo = @ \ {g}]
    <2>1. PICK g \in k.todo : Local(r, listed(g)) \/ Local(r, skipped(g))
      BY <1>4 DEF ListAll
    <2>2. listed(g).pc = "items" /\ listed(g).dir = k.dir /\ listed(g).curr = k.curr
      BY <1>1 DEF Run
    <2>3. /\ skipped(g).pc = "list" /\ skipped(g).dir = k.dir
          /\ skipped(g).curr = k.curr /\ skipped(g).items = k.items
      BY <1>1, <1>4 DEF Run, ListAll, At
    <2>4. k.pc = "list" /\ k.items = NoItems
      BY <1>1, <1>4 DEF ListAll, At, Snap
    <2> HIDE DEF listed, skipped, k
    <2>5. Snap(listed(g), work, disk'[work], celItem', remote)
      BY <1>1, <1>2, <2>2, <2>4 DEF Snap, Working, Starting
    <2>6. Snap(skipped(g), work, disk'[work], celItem', remote)
      BY <1>1, <1>2, <2>3, <2>4 DEF Snap, Working, Starting
    <2>7. PICK rec : Local(r, rec) /\ Snap(rec, work, disk'[work], celItem', remote)
      BY <2>1, <2>5, <2>6
    <2> QED
      BY <1>1, <2>7, SnapQuiet DEF Undone, k
  <1>5. CASE ListDone(r) \/ ItemsDone(r)
    <2>1. PICK pc \in {"clean", "list"} :
            Goto(r, pc) /\ (pc = "list" => k.items = NoItems) /\ k.pc \in {"list", "items"}
      BY <1>5 DEF ListDone, ItemsDone, At
    <2> DEFINE rec == [k EXCEPT !.pc = pc]
    <2>2. rec.pc = pc /\ rec.dir = k.dir /\ rec.curr = k.curr /\ rec.items = k.items
      BY <1>1, MoveRecords
    <2>3. Local(r, rec)
      BY <2>1 DEF Goto
    <2> HIDE DEF rec, k
    <2>4. Snap(rec, work, disk'[work], celItem', remote)
      BY <1>1, <1>2, <2>1, <2>2 DEF Snap, Working, Starting
    <2> QED
      BY <1>1, <2>3, <2>4, SnapQuiet DEF Undone, k
  <1>6. CASE Item(r)
    <2> DEFINE skipped(o) == [k EXCEPT !.items[o] = None]
               chosen(o) == [k EXCEPT !.pc = "eval", !.item = o]
    <2>1. PICK o \in Objs :
            \/ Local(r, skipped(o))
            \/ Local(r, chosen(o)) /\ celItem' = IF o \in CelRuled THEN o ELSE celItem
      BY <1>6 DEF Item
    <2>2. skipped(o).pc = k.pc /\ skipped(o).dir = k.dir /\ skipped(o).curr = k.curr
      BY <1>1 DEF Run
    <2>3. /\ chosen(o).pc = "eval" /\ chosen(o).dir = k.dir /\ chosen(o).curr = k.curr
          /\ chosen(o).item = o
      BY <1>1 DEF Run
    <2>4. k.pc = "items"
      BY <1>6 DEF Item, At
    <2> HIDE DEF skipped, chosen, k
    <2>5. Snap(skipped(o), work, disk'[work], celItem', remote)
      BY <1>1, <1>2, <2>2, <2>4 DEF Snap, Working, Starting
    <2>6. celItem' = (IF o \in CelRuled THEN o ELSE celItem) =>
            Snap(chosen(o), work, disk'[work], celItem', remote)
      BY <1>1, <1>2, <2>3, <2>4 DEF Snap, Working, Starting
    <2>7. PICK rec : Local(r, rec) /\ Snap(rec, work, disk'[work], celItem', remote)
      BY <2>1, <2>5, <2>6
    <2> QED
      BY <1>1, <2>7, SnapQuiet DEF Undone, k
  <1> QED
    BY <1>3, <1>4, <1>5, <1>6

LEMMA WriteItemSnap ==
  ASSUME OneAtATime, TypeInv, CloneInv, SnapInv, NEW r \in Runs, WriteItem(r)
  PROVE  SnapInv'
  <1> USE DEF env, proc
  <1> DEFINE k == run[r]
             o == k.item
             blob == Strip(k.items[o])
             next == [k EXCEPT !.pc = "items", !.items[o] = None, !.item = None]
             done == [next EXCEPT !.curr[o] = blob]
             d == disk[work]
  <1>1. /\ k \in Run /\ k.pc = "eval" /\ work # NoDir /\ work \in Places /\ d \in Dir
        /\ UNCHANGED <<phase, work, remote, celItem>> /\ k.dir = work
        /\ \A p \in Objs : k.curr[p] # None => d.files[p] = k.curr[p]
    BY SnapUse DEF WriteItem, At, Snap, Working
  <1>2. o \in Objs /\ blob \in Specs
    <2>1. k \in GoodRun
      BY DEF TypeInv
    <2> QED
      BY <1>1, <2>1 DEF GoodRun, Run, Raw, Strip
  <1>3. /\ next.pc = "items" /\ next.dir = work /\ next.curr = k.curr
        /\ done.pc = "items" /\ done.dir = work /\ done.curr = [k.curr EXCEPT ![o] = blob]
    BY <1>1 DEF Run
  <1>4. CASE Local(r, next) /\ UNCHANGED disk
    <2> HIDE DEF next, k
    <2>1. Snap(next, work, disk'[work], celItem', remote)
      BY <1>1, <1>3, <1>4 DEF Snap, Working, Starting
    <2> QED
      BY <1>1, <1>4, <2>1, SnapQuiet DEF Undone, k
  <1>5. CASE Store(k.dir, WriteFile(disk[k.dir], o, blob)) /\ Local(r, done)
    <2>1. disk'[work] = WriteFile(d, o, blob)
      BY <1>1, <1>5 DEF Store, TypeInv, TypeOK
    <2>2. /\ disk'[work].log = d.log
          /\ \A p \in Objs : disk'[work].files[p] = IF p = o THEN blob ELSE d.files[p]
      BY <1>1, <2>1 DEF WriteFile, Dir, Tree, Paths
    <2>3. \A p \in Objs : done.curr[p] = IF p = o THEN blob ELSE k.curr[p]
      BY <1>1, <1>3 DEF Run
    <2> HIDE DEF done, k, d, o, blob, next
    <2>4. \A p \in Objs : done.curr[p] # None => disk'[work].files[p] = done.curr[p]
      BY <1>1, <2>2, <2>3
    <2>5. Snap(done, work, disk'[work], celItem', remote)
      BY <1>1, <1>3, <2>4 DEF Snap, Working, Starting
    <2> QED
      BY <1>1, <1>5, <2>2, <2>5, SnapQuiet DEF Undone, k, d
  <1>6. CASE Finish(r, "failure") /\ UNCHANGED disk
    BY <1>1, <1>6, FinishSnap DEF Undone
  <1> QED
    BY <1>4, <1>5, <1>6 DEF WriteItem

LEMMA CleanSnap ==
  ASSUME OneAtATime, TypeInv, CloneInv, SnapInv, NEW r \in Runs, Clean(r)
  PROVE  SnapInv'
  <1> USE DEF env, proc
  <1> DEFINE k == run[r]
             d == disk[work]
  <1>1. /\ k \in Run /\ k.pc = "clean" /\ work # NoDir /\ work \in Places /\ d \in Dir
        /\ UNCHANGED <<phase, work, remote, celItem>> /\ k.dir = work
        /\ \A p \in Objs : k.curr[p] # None => d.files[p] = k.curr[p]
    BY SnapUse DEF Clean, At, Snap, Working
  <1>2. ASSUME NEW curr PROVE CleanObsolete(d, curr).log = d.log
    BY <1>1, CleanObsoleteSound
  <1>3. CASE Store(k.dir, CleanObsolete(disk[k.dir], k.curr)) /\ Goto(r, "status")
    <2> DEFINE rec == [k EXCEPT !.pc = "status"]
    <2>1. disk'[work] = CleanObsolete(d, k.curr)
      BY <1>1, <1>3 DEF Store, TypeInv, TypeOK
    <2>2. \A p \in Objs : disk'[work].files[p] = IF k.curr[p] = None THEN None ELSE d.files[p]
      BY <1>1, <2>1 DEF CleanObsolete, Dir, Tree, Paths
    <2>3. rec.pc = "status" /\ rec.dir = work /\ rec.curr = k.curr
      BY <1>1, MoveRecords
    <2>4. k.curr = [p \in Objs |-> k.curr[p]]
      BY <1>1 DEF Run
    <2>5. Local(r, rec) /\ disk'[work].log = d.log
      BY <1>2, <1>3, <2>1 DEF Goto
    <2> HIDE DEF rec, k, d
    <2>6. Own(disk'[work].files) = k.curr
      <3>1. \A p \in Objs : disk'[work].files[p] = k.curr[p]
        BY <1>1, <2>2
      <3> QED
        BY <2>4, <3>1 DEF Own
    <2>7. Snap(rec, work, disk'[work], celItem', remote)
      BY <1>1, <2>3, <2>6 DEF Snap, Working, Starting
    <2> QED
      BY <1>1, <2>5, <2>7, SnapQuiet DEF Undone, k, d
  <1>4. CASE /\ Finish(r, "failure")
             /\ UNCHANGED disk \/ \E curr : Store(k.dir, CleanObsolete(disk[k.dir], curr))
    <2>1. disk'[work].log = d.log
      <3>1. ASSUME NEW curr, Store(k.dir, CleanObsolete(disk[k.dir], curr))
            PROVE  disk'[work] = CleanObsolete(d, curr)
        BY <1>1, <3>1 DEF Store, TypeInv, TypeOK
      <3> QED
        BY <1>2, <1>4, <3>1
    <2> QED
      BY <1>1, <1>4, <2>1, FinishSnap DEF Undone
  <1> QED
    BY <1>3, <1>4 DEF Clean

LEMMA IsCleanSnap ==
  ASSUME OneAtATime, TypeInv, CloneInv, SnapInv, NEW r \in Runs, IsClean(r)
  PROVE  SnapInv'
  <1> USE DEF env, proc
  <1> DEFINE k == run[r]
  <1>1. /\ k \in Run /\ k.pc = "status" /\ work # NoDir
        /\ UNCHANGED <<phase, work, remote, disk, celItem>> /\ k.dir = work
        /\ Own(disk[work].files) = k.curr
    BY SnapUse DEF IsClean, At, Snap, Working
  <1>2. CASE Goto(r, "commit")
    <2> DEFINE rec == [k EXCEPT !.pc = "commit"]
    <2>1. rec.pc = "commit" /\ rec.dir = work /\ rec.curr = k.curr
      BY <1>1, MoveRecords
    <2>2. Local(r, rec)
      BY <1>2 DEF Goto
    <2> HIDE DEF rec, k
    <2>3. Snap(rec, work, disk'[work], celItem', remote)
      BY <1>1, <2>1 DEF Snap, Working, Starting
    <2> QED
      BY <1>1, <2>2, <2>3, SnapQuiet DEF Undone, k
  <1>3. ASSUME NEW out, Finish(r, out) PROVE SnapInv'
    BY <1>1, <1>3, FinishSnap DEF Undone
  <1> QED
    BY <1>2, <1>3 DEF IsClean

\* The commit has the files of the snapshot, and no commit of the remote is it.
LEMMA CommitAllSnap ==
  ASSUME OneAtATime, TypeInv, CloneInv, SnapInv, NEW r \in Runs, CommitAll(r)
  PROVE  SnapInv'
  <1> USE DEF env, proc
  <1> DEFINE k == run[r]
             d == disk[work]
             c == [by |-> "korpus", tree |-> d.files]
             new == [d EXCEPT !.log = Append(@, c)]
             rec == [k EXCEPT !.pc = "push", !.tgt = work]
  <1>1. /\ k \in Run /\ k.pc = "commit" /\ work # NoDir /\ d \in Dir /\ work \in Places
        /\ UNCHANGED <<phase, work, remote, celItem>> /\ Own(d.files) = k.curr
        /\ d.log \in Seq(Commit) /\ remote \in Seq(Commit)
    BY SnapUse DEF CommitAll, At, Snap, Working
  <1>2. CASE ResetThen(r, "idle")
    BY <1>2, ResetSnap
  <1>3. CASE Store(work, new) /\ Local(r, rec)
    <2>1. disk'[work] = new
      BY <1>1, <1>3 DEF Store, TypeInv, TypeOK
    <2>2. new.log = Append(d.log, c) /\ rec.pc = "push" /\ rec.curr = k.curr
      BY <1>1 DEF Dir, Run
    <2>3. c \in Commit /\ c.tree = d.files /\ c.by = "korpus"
      BY <1>1 DEF Commit, Dir
    <2> HIDE DEF new, rec, k, c
    <2>4. Last(new.log) = c
      BY <1>1, <2>2, <2>3, AppendFrontLast
    <2>5. remote # new.log
      <3>1. LevelWith(d.log, remote)
        <4>1. phase = "up" /\ run[r].pc \notin Undone
          BY <1>1, CloneInvUse DEF Undone, k
        <4> QED
          BY <1>1, <4>1, SnapUse
      <3> SUFFICES ASSUME remote = new.log PROVE FALSE
        OBVIOUS
      <3> HIDE DEF d
      <3>2. remote = Append(d.log, c)
        BY <2>2
      <3>3. Len(remote) = Len(d.log) + 1 /\ remote[Len(d.log) + 1] = c
        BY <1>1, <2>3, <3>2
      <3>4. Len(d.log) + 1 \in (Len(d.log) + 1)..Len(remote)
        BY <1>1, <3>3
      <3> QED
        BY <2>3, <3>1, <3>3, <3>4 DEF LevelWith
    <2>6. Snap(rec, work', disk'[work'], celItem', remote')
      BY <1>1, <2>1, <2>2, <2>3, <2>4, <2>5 DEF Snap, Working, Starting
    <2> QED
      BY <1>3, <2>2, <2>6, SnapLocal DEF Undone
  <1> QED
    BY <1>2, <1>3 DEF CommitAll

LEMMA PushSnap ==
  ASSUME OneAtATime, TypeInv, CloneInv, SnapInv, NEW r \in Runs, Push(r)
  PROVE  SnapInv'
  <1> USE DEF env, proc
  <1>1. run[r].pc = "push" /\ run[r].tgt = work /\ UNCHANGED <<work, disk>>
    BY CloneInvUse DEF Push, At
  <1>2. ASSUME NEW then, ResetThen(r, then) PROVE SnapInv'
    BY <1>2, ResetSnap
  <1>3. CASE Publish(disk[run[r].tgt]) /\ Finish(r, "success")
    <2>1. remote' = disk'[work'].log /\ disk'[work'].log \in Seq(Commit)
      BY <1>1, <1>3, SnapUse DEF Publish
    <2>2. LevelWith(disk'[work'].log, remote')
      BY <2>1, LevelWithItself
    <2>3. Snap([IdleRun EXCEPT !.out = "success"], work', disk'[work'], celItem', remote')
      BY MoveRecords, SnapIdle
    <2> QED
      BY <1>3, <2>2, <2>3, SnapLocal DEF Finish
  <1> QED
    BY <1>2, <1>3 DEF Push

\* A commit of another writer leaves the clone level with the remote, and is
\* not the one about to be pushed.
LEMMA OtherSnap ==
  ASSUME OneAtATime, TypeInv, CloneInv, SnapInv, Other
  PROVE  SnapInv'
  <1> USE DEF env, proc
  <1>1. /\ UNCHANGED <<phase, work, disk, run, celItem>> /\ work \in Places
        /\ remote \in Seq(Commit) /\ disk[work] \in Dir
    BY DEF Other, TypeInv, TypeOK
  <1>2. disk[work].log \in Seq(Commit) /\ HeadTree(remote) \in Tree
    BY <1>1, HeadTreeType DEF Dir
  <1>3. PICK p \in Foreign, b \in Blob :
          remote' = Append(remote, [by |-> "other", tree |-> [HeadTree(remote) EXCEPT ![p] = b]])
    BY DEF Other
  <1> DEFINE t == [HeadTree(remote) EXCEPT ![p] = b]
             c == [by |-> "other", tree |-> t]
  <1>4. p \in Paths /\ p \notin Objs
    BY ConstantTypes DEF Paths
  <1>5. t \in Tree /\ c \in Commit /\ c.by = "other" /\ c.tree = t
    BY <1>2, <1>4 DEF Tree, Commit
  <1>6. Own(t) = Own(HeadTree(remote))
    <2>1. \A o \in Objs : t[o] = HeadTree(remote)[o]
      BY <1>2, <1>4 DEF Tree, Paths
    <2> QED
      BY <2>1 DEF Own
  <1> HIDE DEF t
  <1>7. remote' = Append(remote, c)
    BY <1>3 DEF t
  <1> HIDE DEF c
  <1>8. /\ Len(remote') = Len(remote) + 1 /\ remote'[Len(remote) + 1] = c
        /\ \A i \in 1..Len(remote) : remote'[i] = remote[i]
        /\ remote' \in Seq(Commit) /\ remote' # <<>>
    BY <1>1, <1>5, <1>7
  <1>9. Own(HeadTree(remote')) = Own(HeadTree(remote))
    BY <1>5, <1>6, <1>8 DEF HeadTree
  <1>10. ASSUME LevelWith(disk[work].log, remote) PROVE LevelWith(disk[work].log, remote')
    <2> DEFINE n == Len(disk[work].log)
    <2>1. n \in Nat /\ Len(remote) \in Nat
      BY <1>1, <1>2
    <2>2. ASSUME NEW i \in (n + 1)..Len(remote') PROVE remote'[i].by = "other"
      <3>1. CASE i = Len(remote) + 1
        BY <1>5, <1>8, <3>1
      <3>2. CASE i # Len(remote) + 1
        <4>1. i \in (n + 1)..Len(remote) /\ i \in 1..Len(remote)
          BY <1>8, <2>1, <3>2
        <4>2. remote[i].by = "other"
          BY <1>10, <4>1 DEF LevelWith
        <4> QED
          BY <1>8, <4>1, <4>2
      <3> QED
        BY <3>1, <3>2
    <2> QED
      BY <1>9, <1>10, <2>2 DEF LevelWith
  <1>11. Level'
    BY <1>1, <1>10 DEF SnapInv, Level
  <1>12. ASSUME NEW r \in Runs PROVE Snap(run[r], work, disk[work], celItem, remote)'
    <2>1. Snap(run[r], work, disk[work], celItem, remote)
      BY DEF SnapInv
    <2>2. run[r].pc = "push" => remote' # disk[work].log
      <3> SUFFICES ASSUME run[r].pc = "push", remote' = disk[work].log PROVE FALSE
        OBVIOUS
      <3>1. Last(disk[work].log).by = "korpus"
        BY CloneInvUse DEF Ahead
      <3>2. Last(remote') = c
        BY <1>8 DEF Last
      <3> QED
        BY <1>5, <3>1, <3>2
    <2> QED
      BY <1>1, <2>1, <2>2 DEF Snap
  <1> QED
    BY <1>11, <1>12 DEF SnapInv

LEMMA ProcessSnap ==
  ASSUME OneAtATime, TypeInv, CloneInv, SnapInv,
         Start \/ Terminate \/ EraseDoomed \/ Exit \/ Crash \/ Edit
  PROVE  SnapInv'
  <1> USE DEF env, proc
  <1>1. CASE Exit \/ Crash
    BY <1>1, DieSnap DEF Exit, Crash
  <1>2. CASE Terminate
    <2>1. phase' = "stopping" /\ UNCHANGED <<work, disk, run, celItem, remote>>
      BY <1>2 DEF Terminate
    <2> QED
      BY <2>1 DEF SnapInv, Level
  <1>3. CASE EraseDoomed
    <2>1. phase = "stopping" /\ UNCHANGED <<phase, run>>
      BY <1>3 DEF EraseDoomed
    <2>2. \A r \in Runs : run'[r].pc = "idle"
      BY <2>1 DEF CloneInv
    <2> QED
      BY <2>1, <2>2, SnapIdle DEF SnapInv, Level
  <1>4. CASE Edit
    <2>1. UNCHANGED <<phase, work, disk, run, celItem, remote>>
      BY <1>4 DEF Edit
    <2> QED
      BY <2>1 DEF SnapInv, Level
  <1>5. CASE Start
    <2>1. UNCHANGED <<run, celItem, remote>> /\ \A r \in Runs : run'[r].pc = "idle"
      BY <1>5 DEF Start, CloneInv
    <2>2. \A r \in Runs : Snap(run[r], work, disk[work], celItem, remote)'
      BY <2>1, SnapIdle
    <2>3. CASE UNCHANGED <<disk, work, phase>>
      BY <2>1, <2>2, <2>3 DEF SnapInv, Level
    <2>4. ASSUME NEW d \in Dirs, Store(d, Cloned(remote)), work' = d PROVE SnapInv'
      <3>1. disk'[work'] = Cloned(remote) /\ remote \in Seq(Commit)
        BY <2>4 DEF Store, TypeInv, TypeOK, Places
      <3>2. LevelWith(disk'[work'].log, remote')
        BY <2>1, <3>1, ClonedSound, LevelWithItself
      <3> QED
        BY <2>2, <3>2 DEF SnapInv, Level
    <2> QED
      BY <1>5, <2>3, <2>4 DEF Start
  <1> QED
    BY <1>1, <1>2, <1>3, <1>4, <1>5

LEMMA SnapStep ==
  ASSUME OneAtATime, TypeInv, CloneInv, SnapInv, [Next]_vars
  PROVE  SnapInv'
  <1>1. ASSUME NEW r \in Runs, Tick(r) \/ RunStep(r) PROVE SnapInv'
    <2>1. ASSUME NilGc(r) PROVE SnapInv'
      BY <2>1, DieSnap DEF NilGc
    <2> QED
      BY <1>1, <2>1, TickSnap, PullSnap, ResetRunSnap, InitRunnerSnap, LoopSnap,
         WriteItemSnap, CleanSnap, IsCleanSnap, CommitAllSnap, PushSnap DEF RunStep
  <1>2. CASE Other
    BY <1>2, OtherSnap
  <1>3. CASE UNCHANGED vars
    BY <1>3 DEF vars, SnapInv, Level
  <1> QED
    BY <1>1, <1>2, <1>3, ProcessSnap DEF Next

LEMMA InitSnap == Init => TypeInv /\ CloneInv /\ SnapInv
  <1> SUFFICES ASSUME Init PROVE TypeInv /\ CloneInv /\ SnapInv
    OBVIOUS
  <1>1. phase = "down" /\ \A r \in Runs : run[r].pc = "idle"
    BY DEF Init, IdleRun
  <1>2. SnapInv
    BY <1>1, SnapIdle DEF SnapInv, Level
  <1> QED
    BY <1>2, InitClone

-----------------------------------------------------------------------------
(* What a run publishes *)

\* The files of the commit a successful push publishes.
LEMMA PublishedSnapshot ==
  ASSUME OneAtATime, TypeInv, CloneInv, SnapInv, NEW r \in Runs, Push(r),
         Publish(disk[run[r].tgt])
  PROVE  Own(HeadTree(remote')) = run[r].curr /\ remote' # remote
  <1>1. /\ run[r].pc = "push" /\ run[r].tgt = work /\ disk[work].log # <<>>
        /\ disk[work].log \in Seq(Commit)
    BY CloneInvUse, SnapUse DEF Push, At, Ahead
  <1>2. remote' = disk[work].log
    BY <1>1 DEF Publish
  <1>3. HeadTree(remote') = Last(disk[work].log).tree
    BY <1>1, <1>2 DEF HeadTree, Last
  <1>4. Own(Last(disk[work].log).tree) = run[r].curr /\ remote # disk[work].log
    BY <1>1, SnapUse DEF Snap
  <1> QED
    BY <1>2, <1>3, <1>4

\* Who changes the remote.
LEMMA RemoteSteps ==
  ASSUME [Next]_vars, remote' # remote
  PROVE  Other \/ \E r \in Runs : Push(r) /\ Publish(disk[run[r].tgt])
  <1> USE DEF env, proc
  <1>1. ASSUME NEW r \in Runs, Tick(r) \/ (RunStep(r) /\ ~Push(r)) PROVE FALSE
    BY <1>1 DEF RunStep, Tick, Pull, Reset, Erase, Removed, InitRunner, Discover,
                ListAll, ListDone, Item, ItemsDone, WriteItem, Clean, IsClean,
                CommitAll, NilGc
  <1>2. ~(Start \/ Terminate \/ EraseDoomed \/ Exit \/ Crash \/ Edit)
    BY DEF Start, Terminate, EraseDoomed, Exit, Crash, Edit
  <1>3. ASSUME NEW r \in Runs, Push(r) PROVE Publish(disk[run[r].tgt])
    BY <1>3 DEF Push
  <1>4. \/ Other
        \/ \E r \in Runs : Push(r)
    BY <1>1, <1>2 DEF Next, vars
  <1> QED
    BY <1>3, <1>4

LEMMA PublishStep ==
  ASSUME OneAtATime, TypeInv, CloneInv, SnapInv, [Next]_vars, NEW r \in Runs,
         run[r].pc = "push", run'[r] # run[r], remote' # remote
  PROVE  Own(HeadTree(remote')) = run[r].curr
  <1>1. ~Other
    BY DEF Other
  <1>2. PICK s \in Runs : Push(s) /\ Publish(disk[run[s].tgt])
    BY <1>1, RemoteSteps
  <1>3. s = r
    BY DEF OneAtATime
  <1> QED
    BY <1>2, <1>3, PublishedSnapshot

\* Only a push and a clean working tree count as a success.
LEMMA OutcomeStep ==
  ASSUME OneAtATime, TypeInv, [Next]_vars, NEW r \in Runs,
         run[r].out # "success", run'[r].out = "success"
  PROVE  \/ Push(r) /\ Publish(disk[run[r].tgt])
         \/ IsClean(r) /\ disk[work].files = HeadTree(disk[work].log)
  <1> USE DEF env, proc
  <1>1. run[r] \in Run /\ \A s \in Runs : s = r
    BY DEF OneAtATime, TypeInv, TypeOK
  <1>2. run'[r] # run[r] /\ run'[r] # IdleRun
    BY DEF IdleRun
  <1>3. \A rec : Local(r, rec) => run'[r] = rec
    BY DEF Local, TypeInv, TypeOK
  <1>4. \A out : Finish(r, out) => out = "success"
    BY <1>3 DEF Finish, IdleRun
  <1>5. \A then : ~ResetThen(r, then)
    BY <1>3 DEF ResetThen, IdleRun
  <1>6. \A pc : ~Goto(r, pc)
    <2>1. \A pc : [run[r] EXCEPT !.pc = pc].out = run[r].out
      BY <1>1 DEF Run
    <2> QED
      BY <1>3, <2>1 DEF Goto
  <1>7. \A b : ~Die(b)
    BY <1>2 DEF Die
  <1>8. ~(Start \/ Terminate \/ EraseDoomed \/ Exit \/ Crash \/ Edit \/ Other)
    BY <1>2, <1>7 DEF Start, Terminate, EraseDoomed, Exit, Crash, Edit, Other
  <1>9. ~Tick(r)
    BY <1>3 DEF Tick, IdleRun
  <1>10. ~(Pull(r) \/ NilGc(r) \/ ListDone(r) \/ ItemsDone(r) \/ Erase(r) \/ CommitAll(r))
    <2>1. ~CommitAll(r)
      <3>1. [run[r] EXCEPT !.pc = "push", !.tgt = work].out = run[r].out
        BY <1>1 DEF Run
      <3> QED
        BY <1>3, <1>5, <3>1 DEF CommitAll
    <2> QED
      BY <1>2, <1>5, <1>6, <1>7, <2>1 DEF Pull, NilGc, ListDone, ItemsDone, Erase
  <1>11. ~(Reset(r) \/ Removed(r) \/ InitRunner(r))
    <2>1. /\ [run[r] EXCEPT !.pc = IF work = NoDir THEN "clone" ELSE "remove",
                            !.tgt = work].out = run[r].out
          /\ [run[r] EXCEPT !.pc = "clone", !.tgt = NoDir].out = run[r].out
      BY <1>1 DEF Run
    <2> QED
      BY <1>3, <1>4, <1>6, <2>1 DEF Reset, Removed, InitRunner
  <1>12. ~(Discover(r) \/ ListAll(r))
    <2>1. \A x : [run[r] EXCEPT !.pc = "list", !.dir = work, !.todo = x].out = run[r].out
      BY <1>1 DEF Run
    <2> DEFINE list(g) == [o \in Objs |-> IF GvrOf[o] = g THEN cluster[o] ELSE None]
               listed(g) == [run[r] EXCEPT !.pc = "items", !.todo = @ \ {g},
                                           !.items = list(g)]
               skipped(g) == [run[r] EXCEPT !.todo = @ \ {g}]
    <2>2. \A g : listed(g).out = run[r].out /\ skipped(g).out = run[r].out
      BY <1>1 DEF Run
    <2>3. ~Discover(r)
      BY <1>3, <2>1 DEF Discover
    <2>4. ListAll(r) => \E g : Local(r, listed(g)) \/ Local(r, skipped(g))
      BY DEF ListAll
    <2> HIDE DEF listed, skipped
    <2>5. ~ListAll(r)
      BY <1>3, <2>2, <2>4
    <2> QED
      BY <2>3, <2>5
  <1>13. ~Item(r)
    <2>1. \A o : /\ [run[r] EXCEPT !.items[o] = None].out = run[r].out
                 /\ [run[r] EXCEPT !.pc = "eval", !.item = o].out = run[r].out
      BY <1>1 DEF Run
    <2> QED
      BY <1>3, <2>1 DEF Item
  <1>14. ~WriteItem(r)
    <2> DEFINE o == run[r].item
               blob == Strip(run[r].items[o])
               next == [run[r] EXCEPT !.pc = "items", !.items[o] = None, !.item = None]
    <2>1. next.out = run[r].out /\ [next EXCEPT !.curr[o] = blob].out = run[r].out
      BY <1>1 DEF Run
    <2>2. WriteItem(r) => \/ Local(r, next) \/ Local(r, [next EXCEPT !.curr[o] = blob])
                          \/ Finish(r, "failure")
      BY DEF WriteItem
    <2> QED
      BY <1>3, <1>4, <2>1, <2>2
  <1>15. ~Clean(r)
    BY <1>4, <1>6 DEF Clean
  <1>16. Push(r) \/ IsClean(r)
    BY <1>1, <1>2, <1>8, <1>9, <1>10, <1>11, <1>12, <1>13, <1>14, <1>15
       DEF Next, RunStep, vars
  <1>17. CASE Push(r)
    BY <1>5, <1>17 DEF Push
  <1>18. CASE IsClean(r)
    BY <1>4, <1>6, <1>18 DEF IsClean
  <1> QED
    BY <1>16, <1>17, <1>18

LEMMA SuccessStep ==
  ASSUME OneAtATime, TypeInv, CloneInv, SnapInv, [Next]_vars, NEW r \in Runs,
         run[r].out # "success", run'[r].out = "success"
  PROVE  Own(HeadTree(remote')) = run[r].curr
  <1>1. CASE Push(r) /\ Publish(disk[run[r].tgt])
    BY <1>1, PublishedSnapshot
  <1>2. CASE IsClean(r) /\ disk[work].files = HeadTree(disk[work].log)
    <2>1. run[r].pc = "status" /\ work # NoDir /\ UNCHANGED remote
      BY <1>2 DEF IsClean, At
    <2>2. phase = "up" /\ run[r].pc \notin Undone
      BY <2>1, CloneInvUse DEF Undone
    <2>3. LevelWith(disk[work].log, remote)
      BY <2>1, <2>2, SnapUse
    <2>4. Own(disk[work].files) = run[r].curr
      BY <2>1, SnapUse DEF Snap
    <2> QED
      BY <1>2, <2>1, <2>3, <2>4 DEF LevelWith
  <1> QED
    BY <1>1, <1>2, OutcomeStep

\* One state and one step of the daemon with runs one at a time.
LEMMA SnapInvariance ==
  ASSUME OneAtATime
  PROVE  Spec => [](TypeInv /\ CloneInv /\ SnapInv)
  <1>1. TypeInv /\ CloneInv /\ SnapInv /\ [Next]_vars => TypeInv' /\ CloneInv' /\ SnapInv'
    BY TypeStep, CloneInvStep, SnapStep
  <1> QED
    BY <1>1, InitSnap, PTL DEF Spec

\* While runs do not overlap, the excludeIf program of an item reads that item
\* (celItemContext, which all runs share).
THEOREM CelSees ==
  ASSUME OneAtATime
  PROVE  Spec => []CelSeesItsItem
  <1>1. SnapInv => CelSeesItsItem
    BY DEF SnapInv, Snap, CelSeesItsItem
  <1> QED
    BY <1>1, SnapInvariance, PTL

\* While runs do not overlap, a push that takes effect publishes under subDir
\* the files its run wrote and no others, whatever earlier runs left behind
\* (runOnce: CleanObsolete, IsClean, CommitAndPush).
THEOREM SnapshotPublished ==
  ASSUME OneAtATime
  PROVE  Spec => PublishesSnapshot
  <1>1. TypeInv /\ CloneInv /\ SnapInv /\ [Next]_vars =>
          [\A r \in Runs : run[r].pc = "push" /\ run'[r] # run[r] /\ remote' # remote
             => Own(HeadTree(remote')) = run[r].curr]_vars
    BY PublishStep
  <1> QED
    BY <1>1, SnapInvariance, PTL DEF Spec, PublishesSnapshot

\* While runs do not overlap, a run that is counted as a success leaves its
\* snapshot as the latest state of the remote, also when it found nothing to
\* commit in a clone that had not fetched (run, IsClean).
THEOREM SuccessPublished ==
  ASSUME OneAtATime
  PROVE  Spec => SuccessMeansPublished
  <1>1. TypeInv /\ CloneInv /\ SnapInv /\ [Next]_vars =>
          [\A r \in Runs : run[r].out # "success" /\ run'[r].out = "success"
             => Own(HeadTree(remote')) = run[r].curr]_vars
    BY SuccessStep
  <1> QED
    BY <1>1, SnapInvariance, PTL DEF Spec, SuccessMeansPublished

\* No push of whichever run, overlapping or not, and from whichever clone drops
\* a commit of the branch (CommitAndPush pushes without force).
THEOREM NothingIsLost == Spec => NothingLost
  <1>1. ASSUME TypeInv, [Next]_vars PROVE IsPrefix(remote, remote')
    <2>1. remote \in Seq(Commit) /\ remote' \in Seq(Commit)
      BY <1>1, TypeStep DEF TypeInv, TypeOK
    <2>2. CASE remote' = remote
      BY <2>1, <2>2, PrefixOfItself
    <2>3. ASSUME NEW d, Publish(d) PROVE IsPrefix(remote, remote')
      BY <2>3 DEF Publish
    <2>4. CASE Other
      <3>1. PICK c : remote' = Append(remote, c)
        BY <2>4 DEF Other
      <3>2. Len(remote') = Len(remote) + 1 /\ \A i \in 1..Len(remote) : remote'[i] = remote[i]
        BY <2>1, <3>1
      <3> QED
        BY <2>1, <3>2, PrefixPointwise
    <2> QED
      BY <1>1, <2>2, <2>3, <2>4, RemoteSteps
  <1>2. TypeInv /\ [Next]_vars => TypeInv' /\ [IsPrefix(remote, remote')]_vars
    BY <1>1, TypeStep
  <1> QED
    BY <1>2, InitTypes, PTL DEF Spec, NothingLost

-----------------------------------------------------------------------------
(* What a snapshot says of the cluster *)

\* Discovery and every list call answer: what a failed one does is the run
\* daemon_spurious.
ApiAnswers == FaultKinds \cap {"discovery", "list"} = {}

\* What a run with local state k has recorded is what should have been in the
\* files at some time since the last backup (sn): of the types that are not
\* to be listed any more and the items that are not to be written any more,
\* and, once the loops are over, of all objects.
Taken(k, sn) ==
  /\ k.pc \in {"list", "items", "eval"} =>
       /\ k.todo \cap ExcludedGvrs = {}
       /\ \A o \in Objs :
            /\ GvrOf[o] \in k.todo \/ k.items[o] # None => k.curr[o] = None
            /\ k.items[o] # None => /\ Want(k.items)[o] \in sn[o]
                                    /\ GvrOf[o] \notin ExcludedGvrs \cup k.todo
            /\ GvrOf[o] \notin k.todo /\ k.items[o] = None => k.curr[o] \in sn[o]
  /\ k.pc = "eval" => k.item \notin ExcludedObjs
  /\ k.pc \in {"clean", "status", "commit", "push"} =>
       \A o \in Objs : k.curr[o] \in sn[o]

SeenNow == \A o \in Objs : Want(cluster)[o] \in seen[o]

SeenInv == SeenNow /\ \A r \in Runs : Taken(run[r], seen)

\* What should be in the file of an object depends on that object only.
LEMMA WantFacts ==
  ASSUME NEW objects, NEW o \in Objs
  PROVE  /\ objects[o] = None \/ GvrOf[o] \in ExcludedGvrs \/ o \in ExcludedObjs
              => Want(objects)[o] = None
         /\ o \in CelRuled /\ CelVerdict[o] = "skip" => Want(objects)[o] = None
         /\ objects[o] # None /\ GvrOf[o] \notin ExcludedGvrs /\ o \notin ExcludedObjs
              /\ ~(o \in CelRuled /\ CelVerdict[o] = "skip")
              => Want(objects)[o] = objects[o].spec
         /\ \A others2 : others2[o] = objects[o] => Want(others2)[o] = Want(objects)[o]
  BY DEF Want

LEMMA TakenOutside ==
  ASSUME NEW k, k.pc \in Starting \cup {"idle"}, NEW sn
  PROVE  Taken(k, sn)
  BY DEF Taken, Starting

LEMMA SeenLocal ==
  ASSUME OneAtATime, TypeInv, SeenInv, NEW r \in Runs, NEW rec, Local(r, rec),
         UNCHANGED <<cluster, seen>>, Taken(rec, seen)
  PROVE  SeenInv'
  <1>1. \A s \in Runs : run'[s] = rec
    BY DEF OneAtATime, Local, TypeInv, TypeOK
  <1>2. SeenNow'
    BY DEF SeenInv, SeenNow
  <1> QED
    BY <1>1, <1>2 DEF SeenInv

\* Steps that end with a run that has nothing recorded yet, or none any more.
LEMMA SeenOutside ==
  ASSUME OneAtATime, TypeInv, NEW r \in Runs, NEW rec, Local(r, rec), SeenNow',
         rec.pc \in Starting \cup {"idle"}
  PROVE  SeenInv'
  <1>1. \A s \in Runs : run'[s] = rec
    BY DEF OneAtATime, Local, TypeInv, TypeOK
  <1> QED
    BY <1>1, TakenOutside DEF SeenInv

LEMMA SeenStart ==
  ASSUME OneAtATime, ApiAnswers, TypeInv, CloneInv, SnapInv, SeenInv, NEW r \in Runs,
         \/ Tick(r) \/ Pull(r) \/ Reset(r) \/ Erase(r) \/ Removed(r) \/ InitRunner(r)
  PROVE  SeenInv'
  <1> USE DEF env, proc
  <1>1. /\ run[r] \in Run /\ UNCHANGED <<cluster, seen>>
    BY SnapUse DEF Tick, Pull, Reset, Erase, Removed, InitRunner
  <1>2. SeenNow'
    BY <1>1 DEF SeenInv, SeenNow
  <1>3. \E rec : Local(r, rec) /\ rec.pc \in Starting \cup {"idle"}
    <2>1. /\ [run[r] EXCEPT !.pc = IF work = NoDir THEN "clone" ELSE "remove", !.tgt = work].pc
                = IF work = NoDir THEN "clone" ELSE "remove"
          /\ [run[r] EXCEPT !.pc = "clone", !.tgt = NoDir].pc = "clone"
      BY <1>1 DEF Run
    <2>2. CASE Tick(r)
      <3> WITNESS [IdleRun EXCEPT !.pc = "pull"]
      <3> QED
        BY <2>2, MoveRecords DEF Tick, Starting
    <2>3. CASE Pull(r) \/ InitRunner(r)
      <3>1. ResetThen(r, "discover") \/ Goto(r, "discover") \/ Finish(r, "failure")
        BY <2>3 DEF Pull, InitRunner
      <3> QED
        BY <1>1, <3>1, MoveFields DEF Starting
    <2>4. CASE Reset(r)
      <3> WITNESS [run[r] EXCEPT !.pc = IF work = NoDir THEN "clone" ELSE "remove", !.tgt = work]
      <3> QED
        BY <2>1, <2>4 DEF Reset, Starting
    <2>5. CASE Erase(r)
      <3> WITNESS run[r]
      <3>1. Local(r, run[r]) /\ run[r].pc = "remove"
        BY <2>5 DEF Erase, At, Local, TypeInv, TypeOK
      <3> QED
        BY <3>1 DEF Starting
    <2>6. CASE Removed(r)
      <3> WITNESS [run[r] EXCEPT !.pc = "clone", !.tgt = NoDir]
      <3> QED
        BY <2>1, <2>6 DEF Removed, Starting
    <2> QED
      BY <2>2, <2>3, <2>4, <2>5, <2>6
  <1> QED
    BY <1>2, <1>3, SeenOutside

LEMMA SeenListing ==
  ASSUME OneAtATime, ApiAnswers, TypeInv, CloneInv, SnapInv, SeenInv, NEW r \in Runs,
         Discover(r) \/ ListAll(r) \/ ListDone(r) \/ ItemsDone(r)
  PROVE  SeenInv'
  <1> USE DEF env, proc
  <1> DEFINE k == run[r]
  <1>1. /\ k \in Run /\ UNCHANGED <<cluster, seen>> /\ SeenNow /\ Taken(k, seen)
        /\ Snap(k, work, disk[work], celItem, remote)
    BY SnapUse DEF SeenInv, Discover, ListAll, ListDone, ItemsDone
  <1>2. \A kind \in {"discovery", "list"} : ~Fault(kind)
    BY DEF ApiAnswers, Fault
  <1>3. CASE Discover(r)
    <2> DEFINE rec == [k EXCEPT !.pc = "list", !.dir = work, !.todo = Gvrs \ ExcludedGvrs]
    <2>1. Local(r, rec)
      BY <1>2, <1>3 DEF Discover
    <2>2. /\ rec.pc = "list" /\ rec.todo = Gvrs \ ExcludedGvrs
          /\ rec.items = k.items /\ rec.curr = k.curr
      BY <1>1 DEF Run
    <2>3. k.items = NoItems /\ k.curr = NoItems
      BY <1>1, <1>3 DEF Snap, Starting, Discover, At
    <2> HIDE DEF rec, k
    <2>4. ASSUME NEW o \in Objs, GvrOf[o] \notin Gvrs \ ExcludedGvrs PROVE None \in seen[o]
      <3>1. GvrOf[o] \in ExcludedGvrs
        BY <2>4, ConstantTypes
      <3> QED
        BY <1>1, <3>1, WantFacts DEF SeenNow
    <2>5. Taken(rec, seen)
      BY <2>2, <2>3, <2>4 DEF Taken, NoItems
    <2> QED
      BY <1>1, <2>1, <2>5, SeenLocal
  <1>4. CASE ListAll(r)
    <2> DEFINE list(g) == [o \in Objs |-> IF GvrOf[o] = g THEN cluster[o] ELSE None]
               listed(g) == [k EXCEPT !.pc = "items", !.todo = @ \ {g}, !.items = list(g)]
    <2>1. PICK g \in k.todo : Local(r, listed(g))
      BY <1>2, <1>4 DEF ListAll
    <2> DEFINE rec == listed(g)
    <2>2. /\ rec.pc = "items" /\ rec.todo = k.todo \ {g}
          /\ rec.items = list(g) /\ rec.curr = k.curr
      BY <1>1 DEF Run
    <2>3. k.pc = "list" /\ k.items = NoItems
      BY <1>1, <1>4 DEF ListAll, At, Snap
    <2>4. /\ k.todo \cap ExcludedGvrs = {}
          /\ \A o \in Objs : GvrOf[o] \in k.todo => k.curr[o] = None
          /\ \A o \in Objs : GvrOf[o] \notin k.todo => k.curr[o] \in seen[o]
      BY <1>1, <2>3 DEF Taken, NoItems
    <2>5. Local(r, rec)
      BY <2>1
    <2> HIDE DEF rec, k
    <2>6. ASSUME NEW o \in Objs
          PROVE  /\ GvrOf[o] \in rec.todo \/ rec.items[o] # None => rec.curr[o] = None
                 /\ rec.items[o] # None => /\ Want(rec.items)[o] \in seen[o]
                                           /\ GvrOf[o] \notin ExcludedGvrs \cup rec.todo
                 /\ GvrOf[o] \notin rec.todo /\ rec.items[o] = None => rec.curr[o] \in seen[o]
      <3>1. CASE GvrOf[o] = g
        <4>1. /\ rec.items[o] = cluster[o] /\ rec.curr[o] = None
              /\ g \notin ExcludedGvrs /\ g \notin rec.todo
          BY <2>1, <2>2, <2>4, <3>1
        <4>2. Want(rec.items)[o] = Want(cluster)[o] /\ Want(cluster)[o] \in seen[o]
          BY <1>1, <4>1, WantFacts DEF SeenNow
        <4>3. cluster[o] = None => Want(cluster)[o] = None
          BY WantFacts
        <4> QED
          BY <3>1, <4>1, <4>2, <4>3
      <3>2. CASE GvrOf[o] # g
        <4>1. rec.items[o] = None /\ (GvrOf[o] \in rec.todo <=> GvrOf[o] \in k.todo)
          BY <2>2, <3>2
        <4> QED
          BY <2>2, <2>4, <4>1
      <3> QED
        BY <3>1, <3>2
    <2>7. Taken(rec, seen)
      BY <2>2, <2>4, <2>6 DEF Taken
    <2> QED
      BY <1>1, <2>5, <2>7, SeenLocal
  <1>5. CASE ListDone(r)
    <2> DEFINE rec == [k EXCEPT !.pc = "clean"]
    <2>1. rec.pc = "clean" /\ rec.curr = k.curr /\ Local(r, rec)
      BY <1>1, <1>5, MoveRecords DEF ListDone, Goto
    <2>2. k.pc = "list" /\ k.items = NoItems /\ k.todo = {}
      BY <1>1, <1>5 DEF ListDone, At, Snap
    <2> HIDE DEF rec, k
    <2>3. \A o \in Objs : k.curr[o] \in seen[o]
      BY <1>1, <2>2 DEF Taken, NoItems
    <2>4. Taken(rec, seen)
      BY <2>1, <2>3 DEF Taken
    <2> QED
      BY <1>1, <2>1, <2>4, SeenLocal
  <1>6. CASE ItemsDone(r)
    <2> DEFINE rec == [k EXCEPT !.pc = "list"]
    <2>1. /\ rec.pc = "list" /\ rec.curr = k.curr /\ rec.items = k.items /\ rec.todo = k.todo
          /\ Local(r, rec)
      BY <1>1, <1>6, MoveRecords DEF ItemsDone, Goto
    <2>2. k.pc = "items"
      BY <1>6 DEF ItemsDone, At
    <2> HIDE DEF rec, k
    <2>3. Taken(rec, seen)
      BY <1>1, <2>1, <2>2 DEF Taken
    <2> QED
      BY <1>1, <2>1, <2>3, SeenLocal
  <1> QED
    BY <1>3, <1>4, <1>5, <1>6

\* An item is done with: its file is the one it should have.
LEMMA TakenItem ==
  ASSUME NEW k, k.pc \in {"items", "eval"}, Taken(k, seen), NEW o \in Objs,
         k.items[o] # None, k.items \in [Objs -> Raw \cup {None}], k.curr \in [Objs -> Blob],
         NEW rec, rec.pc = "items", rec.todo = k.todo,
         rec.items = [k.items EXCEPT ![o] = None],
         \A p \in Objs \ {o} : rec.curr[p] = k.curr[p],
         rec.curr[o] = Want(k.items)[o]
  PROVE  Taken(rec, seen)
  <1>1. ASSUME NEW p \in Objs
        PROVE  /\ GvrOf[p] \in rec.todo \/ rec.items[p] # None => rec.curr[p] = None
               /\ rec.items[p] # None => /\ Want(rec.items)[p] \in seen[p]
                                         /\ GvrOf[p] \notin ExcludedGvrs \cup rec.todo
               /\ GvrOf[p] \notin rec.todo /\ rec.items[p] = None => rec.curr[p] \in seen[p]
    <2>1. CASE p = o
      <3>1. rec.items[o] = None /\ Want(k.items)[o] \in seen[o] /\ GvrOf[o] \notin k.todo
        BY DEF Taken
      <3> QED
        BY <2>1, <3>1
    <2>2. CASE p # o
      <3>1. rec.items[p] = k.items[p] /\ rec.curr[p] = k.curr[p]
        BY <2>2
      <3>2. Want(rec.items)[p] = Want(k.items)[p]
        BY <3>1, WantFacts
      <3> QED
        BY <3>1, <3>2 DEF Taken
    <2> QED
      BY <2>1, <2>2
  <1> QED
    BY <1>1 DEF Taken

LEMMA SeenItem ==
  ASSUME OneAtATime, TypeInv, CloneInv, SnapInv, SeenInv, NEW r \in Runs, Item(r)
  PROVE  SeenInv'
  <1> USE DEF env, proc
  <1> DEFINE k == run[r]
             skipped(o) == [k EXCEPT !.items[o] = None]
             chosen(o) == [k EXCEPT !.pc = "eval", !.item = o]
  <1>1. /\ k \in Run /\ UNCHANGED <<cluster, seen>> /\ Taken(k, seen) /\ k.pc = "items"
    BY SnapUse DEF SeenInv, Item, At
  <1>2. PICK o \in Objs :
          /\ k.items[o] # None
          /\ \/ o \in ExcludedObjs /\ Local(r, skipped(o))
             \/ o \notin ExcludedObjs /\ Local(r, chosen(o))
    BY DEF Item
  <1>3. CASE o \in ExcludedObjs /\ Local(r, skipped(o))
    <2>1. /\ skipped(o).pc = "items" /\ skipped(o).todo = k.todo
          /\ skipped(o).items = [k.items EXCEPT ![o] = None] /\ skipped(o).curr = k.curr
          /\ k.items \in [Objs -> Raw \cup {None}] /\ k.curr \in [Objs -> Blob]
      BY <1>1 DEF Run
    <2>2. Want(k.items)[o] = None
      BY <1>3, WantFacts
    <2> HIDE DEF skipped, k
    <2>3. k.curr[o] = None
      BY <1>1, <1>2 DEF Taken
    <2>4. Taken(skipped(o), seen)
      BY <1>1, <1>2, <2>1, <2>2, <2>3, TakenItem
    <2> QED
      BY <1>1, <1>3, <2>4, SeenLocal
  <1>4. CASE o \notin ExcludedObjs /\ Local(r, chosen(o))
    <2>1. /\ chosen(o).pc = "eval" /\ chosen(o).todo = k.todo /\ chosen(o).item = o
          /\ chosen(o).items = k.items /\ chosen(o).curr = k.curr
      BY <1>1 DEF Run
    <2> HIDE DEF chosen, k
    <2>2. Taken(chosen(o), seen)
      BY <1>1, <1>4, <2>1 DEF Taken
    <2> QED
      BY <1>1, <1>4, <2>2, SeenLocal
  <1> QED
    BY <1>2, <1>3, <1>4

LEMMA SeenWrite ==
  ASSUME OneAtATime, TypeInv, CloneInv, SnapInv, SeenInv, NEW r \in Runs, WriteItem(r)
  PROVE  SeenInv'
  <1> USE DEF env, proc
  <1> DEFINE k == run[r]
             o == k.item
             blob == Strip(k.items[o])
             next == [k EXCEPT !.pc = "items", !.items[o] = None, !.item = None]
             done == [next EXCEPT !.curr[o] = blob]
  <1>1. /\ k \in Run /\ UNCHANGED <<cluster, seen>> /\ Taken(k, seen) /\ k.pc = "eval"
        /\ (o \in CelRuled => celItem = o)
        /\ k.items \in [Objs -> Raw \cup {None}] /\ k.curr \in [Objs -> Blob]
    BY SnapUse DEF SeenInv, WriteItem, At, Snap, Run
  <1>2. o \in Objs /\ k.items[o] # None
    <2>1. k \in GoodRun
      BY DEF TypeInv
    <2> QED
      BY <1>1, <2>1 DEF GoodRun
  <1>3. k.curr[o] = None /\ o \notin ExcludedObjs /\ GvrOf[o] \notin ExcludedGvrs
    <2> HIDE DEF k
    <2> QED
      BY <1>1, <1>2 DEF Taken
  <1>4. /\ next.pc = "items" /\ next.todo = k.todo /\ next.curr = k.curr
        /\ next.items = [k.items EXCEPT ![o] = None]
        /\ done.pc = "items" /\ done.todo = k.todo /\ done.curr = [k.curr EXCEPT ![o] = blob]
        /\ done.items = [k.items EXCEPT ![o] = None]
    BY <1>1 DEF Run
  <1>5. CelExcludes(o) <=> o \in CelRuled /\ CelVerdict[o] = "skip"
    <2>1. o # None
      BY <1>2, ConstantTypes
    <2> QED
      BY <1>1, <2>1 DEF CelExcludes
  <1>6. CASE CelExcludes(o) /\ Local(r, next)
    <2>1. Want(k.items)[o] = None
      BY <1>2, <1>5, <1>6, WantFacts
    <2> HIDE DEF next, k, o
    <2>2. Taken(next, seen)
      BY <1>1, <1>2, <1>3, <1>4, <2>1, TakenItem
    <2> QED
      BY <1>1, <1>6, <2>2, SeenLocal
  <1>7. CASE ~CelExcludes(o) /\ Local(r, done)
    <2>1. Want(k.items)[o] = blob
      BY <1>2, <1>3, <1>5, <1>7, WantFacts DEF Strip
    <2>2. done.curr[o] = blob /\ \A p \in Objs \ {o} : done.curr[p] = k.curr[p]
      BY <1>1, <1>2, <1>4
    <2> HIDE DEF next, done, k, o, blob
    <2>3. Taken(done, seen)
      BY <1>1, <1>2, <1>4, <2>1, <2>2, TakenItem
    <2> QED
      BY <1>1, <1>7, <2>3, SeenLocal
  <1>8. CASE Finish(r, "failure")
    <2>1. SeenNow'
      BY <1>1 DEF SeenInv, SeenNow
    <2>2. [IdleRun EXCEPT !.out = "failure"].pc = "idle"
      BY MoveRecords
    <2> QED
      BY <1>8, <2>1, <2>2, SeenOutside DEF Finish
  <1> QED
    BY <1>6, <1>7, <1>8 DEF WriteItem

\* From CleanObsolete to the push what was recorded stays.
LEMMA SeenSettled ==
  ASSUME OneAtATime, TypeInv, CloneInv, SnapInv, SeenInv, NEW r \in Runs,
         Clean(r) \/ IsClean(r) \/ CommitAll(r)
  PROVE  SeenInv'
  <1> USE DEF env, proc
  <1>1. /\ run[r] \in Run /\ UNCHANGED <<cluster, seen>> /\ Taken(run[r], seen)
        /\ run[r].pc \in {"clean", "status", "commit"}
    BY SnapUse DEF SeenInv, Clean, IsClean, CommitAll, At
  <1>2. SeenNow'
    BY <1>1 DEF SeenInv, SeenNow
  <1>3. \A o \in Objs : run[r].curr[o] \in seen[o]
    BY <1>1 DEF Taken
  <1>4. ASSUME NEW rec, Local(r, rec), rec.pc \in {"status", "commit", "push"},
               rec.curr = run[r].curr
        PROVE  SeenInv'
    <2>1. Taken(rec, seen)
      BY <1>3, <1>4 DEF Taken
    <2> QED
      BY <1>1, <1>4, <2>1, SeenLocal
  <1>5. ASSUME NEW out, Finish(r, out) PROVE SeenInv'
    BY <1>1, <1>2, <1>5, MoveFields, SeenOutside
  <1>6. ASSUME ResetThen(r, "idle") PROVE SeenInv'
    <2>1. PICK rec : Local(r, rec) /\ rec.pc = "reset"
      BY <1>1, <1>6, MoveFields
    <2> QED
      BY <1>2, <2>1, SeenOutside DEF Starting
  <1>7. ASSUME NEW pc \in {"status", "commit"}, Goto(r, pc) PROVE SeenInv'
    <2>1. /\ [run[r] EXCEPT !.pc = pc].pc = pc
          /\ [run[r] EXCEPT !.pc = pc].curr = run[r].curr
      BY <1>1, MoveRecords
    <2> QED
      BY <1>4, <1>7, <2>1 DEF Goto
  <1>8. ASSUME Local(r, [run[r] EXCEPT !.pc = "push", !.tgt = work]) PROVE SeenInv'
    <2>1. /\ [run[r] EXCEPT !.pc = "push", !.tgt = work].pc = "push"
          /\ [run[r] EXCEPT !.pc = "push", !.tgt = work].curr = run[r].curr
      BY <1>1 DEF Run
    <2> QED
      BY <1>4, <1>8, <2>1
  <1>9. CASE Clean(r)
    BY <1>5, <1>7, <1>9 DEF Clean
  <1>10. CASE IsClean(r)
    BY <1>5, <1>7, <1>10 DEF IsClean
  <1>11. CASE CommitAll(r)
    BY <1>6, <1>8, <1>11 DEF CommitAll
  <1> QED
    BY <1>9, <1>10, <1>11

\* A published backup starts a new interval, with what holds now.
LEMMA SeenPush ==
  ASSUME OneAtATime, TypeInv, CloneInv, SnapInv, SeenInv, NEW r \in Runs, Push(r)
  PROVE  SeenInv'
  <1>1. run[r] \in Run /\ UNCHANGED cluster
    BY SnapUse DEF Push
  <1>2. seen' = seen \/ seen' = [o \in Objs |-> {Want(cluster)[o]}]
    BY DEF Push, Publish
  <1>3. SeenNow'
    BY <1>1, <1>2 DEF SeenInv, SeenNow
  <1>4. Finish(r, "success") \/ ResetThen(r, "idle")
    BY DEF Push
  <1>5. PICK rec : Local(r, rec) /\ rec.pc \in {"idle", "reset"}
    BY <1>1, <1>4, MoveFields
  <1> QED
    BY <1>3, <1>5, SeenOutside DEF Starting

LEMMA SeenEdit ==
  ASSUME TypeInv, SeenInv, Edit
  PROVE  SeenInv'
  <1>1. UNCHANGED run /\ seen' = [p \in Objs |-> seen[p] \cup {Want(cluster')[p]}]
    BY DEF Edit
  <1>2. \A o \in Objs : seen[o] \subseteq seen'[o] /\ Want(cluster')[o] \in seen'[o]
    BY <1>1
  <1>3. ASSUME NEW k, Taken(k, seen) PROVE Taken(k, seen')
    BY <1>2, <1>3 DEF Taken
  <1> QED
    BY <1>1, <1>2, <1>3 DEF SeenInv, SeenNow

LEMMA SeenStep ==
  ASSUME OneAtATime, ApiAnswers, TypeInv, CloneInv, SnapInv, SeenInv, [Next]_vars
  PROVE  SeenInv'
  <1> USE DEF env, proc
  <1>1. ASSUME UNCHANGED <<cluster, seen, run>> PROVE SeenInv'
    BY <1>1 DEF SeenInv, SeenNow
  <1>2. ASSUME NEW byPanic, Die(byPanic), UNCHANGED <<cluster, seen>> PROVE SeenInv'
    <2>1. \A r \in Runs : run'[r].pc = "idle"
      BY <1>2 DEF Die, IdleRun
    <2>2. SeenNow'
      BY <1>2 DEF SeenInv, SeenNow
    <2> QED
      BY <2>1, <2>2, TakenOutside DEF SeenInv
  <1>3. ASSUME NEW r \in Runs, Tick(r) \/ RunStep(r) PROVE SeenInv'
    <2>1. ASSUME NilGc(r) PROVE SeenInv'
      BY <1>2, <2>1 DEF NilGc
    <2> QED
      BY <1>3, <2>1, SeenStart, SeenListing, SeenItem, SeenWrite, SeenSettled, SeenPush
      DEF RunStep
  <1>4. CASE Exit \/ Crash
    BY <1>2, <1>4 DEF Exit, Crash
  <1>5. CASE Start \/ Terminate \/ EraseDoomed \/ Other
    BY <1>1, <1>5 DEF Start, Terminate, EraseDoomed, Other
  <1>6. CASE UNCHANGED vars
    BY <1>1, <1>6 DEF vars
  <1> QED
    BY <1>3, <1>4, <1>5, <1>6, SeenEdit DEF Next

LEMMA InitSeen == Init => SeenInv
  <1> SUFFICES ASSUME Init PROVE SeenInv
    OBVIOUS
  <1>1. SeenNow
    BY DEF Init, SeenNow
  <1>2. \A r \in Runs : run[r].pc = "idle"
    BY DEF Init, IdleRun
  <1> QED
    BY <1>1, <1>2, TakenOutside DEF SeenInv

LEMMA SeenInvariance ==
  ASSUME OneAtATime, ApiAnswers
  PROVE  Spec => [](TypeInv /\ CloneInv /\ SnapInv /\ SeenInv)
  <1>1. TypeInv /\ CloneInv /\ SnapInv /\ SeenInv /\ [Next]_vars =>
          TypeInv' /\ CloneInv' /\ SnapInv' /\ SeenInv'
    BY TypeStep, CloneInvStep, SnapStep, SeenStep
  <1> QED
    BY <1>1, InitSnap, InitSeen, PTL DEF Spec

\* What a published backup holds was to be seen since the one before.
LEMMA PublishedWasSeen ==
  ASSUME OneAtATime, TypeInv, CloneInv, SnapInv, SeenInv, NEW r \in Runs, Push(r),
         Publish(disk[run[r].tgt])
  PROVE  \A o \in Objs : HeadTree(remote')[o] \in seen[o]
  <1>1. Own(HeadTree(remote')) = run[r].curr
    BY PublishedSnapshot
  <1>2. Taken(run[r], seen) /\ run[r].pc = "push"
    BY DEF SeenInv, Push, At
  <1>3. \A o \in Objs : run[r].curr[o] \in seen[o]
    BY <1>2 DEF Taken
  <1>4. \A o \in Objs : HeadTree(remote')[o] = Own(HeadTree(remote'))[o]
    BY DEF Own
  <1> QED
    BY <1>1, <1>3, <1>4

\* A commit of another writer, as a step of the information base.
LEMMA OtherShares ==
  ASSUME TypeInv, Other
  PROVE  /\ IB!Share
         /\ \A o \in Objs : HeadTree(remote')[o] = HeadTree(remote)[o]
  <1>1. HeadTree(remote) \in Tree /\ remote \in Seq(Commit)
    BY HeadTreeType DEF TypeInv, TypeOK
  <1>2. PICK p \in Foreign, b \in Blob :
          /\ b # HeadTree(remote)[p]
          /\ remote' = Append(remote, [by   |-> "other",
                                       tree |-> [HeadTree(remote) EXCEPT ![p] = b]])
    BY DEF Other
  <1> DEFINE t == [HeadTree(remote) EXCEPT ![p] = b]
  <1>3. p \notin Objs /\ p \in Paths
    BY ConstantTypes DEF Paths
  <1>4. t \in Tree /\ t # HeadTree(remote) /\ \A o \in Objs : t[o] = HeadTree(remote)[o]
    BY <1>1, <1>2, <1>3 DEF Tree, Paths
  <1>5. IB!Commit("other", Objs)
    BY <1>2, <1>4, CommitRefines
  <1>6. HeadTree(remote') = t
    <2> HIDE DEF t
    <2>1. remote' = Append(remote, [by |-> "other", tree |-> t])
      BY <1>2 DEF t
    <2> QED
      BY <1>1, <2>1 DEF HeadTree
  <1>7. UNCHANGED <<Want(cluster), seen>>
    BY DEF Other, env, Want
  <1> QED
    BY <1>4, <1>5, <1>6, <1>7 DEF IB!Share

\* While runs do not overlap and the API server answers, the file of an object
\* disappears only in a backup before which the object was really missing
\* (runOnce: the loops over the types and the items, CleanObsolete).
THEOREM OnlyRealDeletions ==
  ASSUME OneAtATime, ApiAnswers
  PROVE  Spec => DeletionsAreReal
  <1>1. ASSUME TypeInv, CloneInv, SnapInv, SeenInv, [Next]_vars, NEW o \in Objs,
               HeadTree(remote)[o] # None, HeadTree(remote')[o] = None
        PROVE  None \in seen[o]
    <2>1. remote' # remote
      BY <1>1
    <2>2. CASE Other
      BY <1>1, <2>2, OtherShares
    <2>3. ASSUME NEW r \in Runs, Push(r), Publish(disk[run[r].tgt]) PROVE None \in seen[o]
      BY <1>1, <2>3, PublishedWasSeen
    <2> QED
      BY <1>1, <2>1, <2>2, <2>3, RemoteSteps
  <1>2. TypeInv /\ CloneInv /\ SnapInv /\ SeenInv /\ [Next]_vars =>
          [\A o \in Objs : HeadTree(remote)[o] # None /\ HeadTree(remote')[o] = None
             => None \in seen[o]]_vars
    BY <1>1
  <1> QED
    BY <1>2, SeenInvariance, PTL DEF Spec, DeletionsAreReal

LEMMA InformationStep ==
  ASSUME OneAtATime, TypeInv, TypeInv', CloneInv, SnapInv, SeenInv, [Next]_vars
  PROVE  IB!Change \/ IB!Backup \/ IB!Share \/ UNCHANGED <<Want(cluster), seen, remote>>
  <1> USE DEF env, proc
  <1>1. CASE Other
    BY <1>1, OtherShares
  <1>2. CASE Edit
    <2>1. Want(cluster') \in [Objs -> Blob]
      BY WantType DEF TypeInv, TypeOK
    <2>2. UNCHANGED remote /\ seen' = [p \in Objs |-> seen[p] \cup {Want(cluster')[p]}]
      BY <1>2 DEF Edit
    <2> QED
      BY <2>1, <2>2 DEF IB!Change
  <1>3. ASSUME NEW r \in Runs, Push(r), Publish(disk[run[r].tgt]) PROVE IB!Backup
    <2>1. run[r].tgt = work /\ Ahead(disk[work].log) /\ work \in Places
      BY <1>3, CloneInvUse DEF Push, At, TypeInv, TypeOK
    <2>2. IB!Commit("korpus", Foreign)
      BY <1>3, <2>1, PushRefines, PublishedSnapshot
    <2>3. remote' # <<>>
      BY <1>3, <2>1 DEF Publish, Ahead
    <2>4. \A o \in Objs : remote'[Len(remote')].tree[o] \in seen[o]
      BY <1>3, <2>3, PublishedWasSeen DEF HeadTree
    <2>5. UNCHANGED Want(cluster) /\ seen' = [o \in Objs |-> {Want(cluster)[o]}]
      BY <1>3 DEF Push, Publish, Want
    <2> QED
      BY <2>2, <2>4, <2>5 DEF IB!Backup
  <1>4. ASSUME UNCHANGED <<cluster, seen, remote>>
        PROVE  UNCHANGED <<Want(cluster), seen, remote>>
    BY <1>4 DEF Want
  <1>5. ASSUME NEW r \in Runs, Push(r) PROVE Publish(disk[run[r].tgt]) \/ UNCHANGED <<cluster, seen, remote>>
    BY <1>5 DEF Push
  <1>6. ASSUME NEW r \in Runs, Tick(r) \/ (RunStep(r) /\ ~Push(r))
        PROVE  UNCHANGED <<cluster, seen, remote>>
    BY <1>6 DEF RunStep, Tick, Pull, Reset, Erase, Removed, InitRunner, Discover,
                ListAll, ListDone, Item, ItemsDone, WriteItem, Clean, IsClean,
                CommitAll, NilGc
  <1>7. CASE Start \/ Terminate \/ EraseDoomed \/ Exit \/ Crash
    BY <1>4, <1>7 DEF Start, Terminate, EraseDoomed, Exit, Crash
  <1>8. CASE UNCHANGED vars
    BY <1>4, <1>8 DEF vars
  <1> QED
    BY <1>1, <1>2, <1>3, <1>4, <1>5, <1>6, <1>7, <1>8 DEF Next

\* While runs do not overlap and the API server answers, the daemon implements
\* the abstract information base: every backup is one new commit that changes
\* something, leaves other writers' files alone and records, for every object,
\* a content it should have had since the previous backup.
THEOREM InformationBaseImplemented ==
  ASSUME OneAtATime, ApiAnswers
  PROVE  Spec => InformationBase
  <1>1. Init => IB!Init
    <2> SUFFICES ASSUME Init PROVE IB!Init
      OBVIOUS
    <2>1. Want(cluster) \in [Objs -> Blob]
      BY WantType DEF Init
    <2> QED
      BY <2>1 DEF Init, IB!Init
  <1>2. TypeInv /\ CloneInv /\ SnapInv /\ SeenInv /\ [Next]_vars =>
          [IB!Change \/ IB!Backup \/ IB!Share]_<<Want(cluster), seen, remote>>
    BY InformationStep, TypeStep
  <1> QED
    BY <1>1, <1>2, SeenInvariance, PTL DEF Spec, InformationBase, IB!Spec
=============================================================================
