------------------------------- MODULE Mirror -------------------------------
(***************************************************************************)
(* What the server promises about the resources it lists: for each cluster *)
(* the listing of one published backup, never a mixture of two, never one  *)
(* older than what it already showed, until a restart forgets all of it.   *)
(***************************************************************************)
EXTENDS Naturals, Sequences

CONSTANTS
  Clusters,  \* the clusters the server shows
  Objs       \* the objects a backup may hold

VARIABLES
  history,   \* [Clusters -> Seq(SUBSET Objs)]: what each backup holds
  shown      \* [Clusters -> [at, objs]]: the backup shown and its listing

Nothing == [at |-> 0, objs |-> {}]

Init ==
  /\ history = [c \in Clusters |-> <<>>]
  /\ shown = [c \in Clusters |-> Nothing]

\* A backup is published.
Publish(c) ==
  /\ \E objs \in SUBSET Objs : history' = [history EXCEPT ![c] = Append(@, objs)]
  /\ UNCHANGED shown

\* The server moves on to a backup at least as new as the one it shows.
Show(c) ==
  /\ \E n \in 1..Len(history[c]) :
       /\ n >= shown[c].at
       /\ shown' = [shown EXCEPT ![c] = [at |-> n, objs |-> history[c][n]]]
  /\ UNCHANGED history

\* The process ends; nothing is kept.
Restart ==
  /\ shown' = [c \in Clusters |-> Nothing]
  /\ UNCHANGED history

Next ==
  \/ \E c \in Clusters : Publish(c) \/ Show(c)
  \/ Restart

Spec == Init /\ [][Next]_<<history, shown>>
=============================================================================
