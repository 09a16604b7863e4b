------------------------------ MODULE MCBackup ------------------------------
(***************************************************************************)
(* Small instances of the daemon: two or three objects of two types, one   *)
(* file of another writer, one or two run goroutines.                      *)
(***************************************************************************)
EXTENDS Backup

\* o1 and o2 are of type g1; o3, if present, is the only one of g2.
MCGvrOf == [o \in Objs |-> IF ToString(o) = "o3" THEN "g2" ELSE "g1"]
MCGvrs  == {"g1", "g2"}
MCOneGvr == {"g1"}

\* The excludeIf program skips o2, fails on o3 and keeps o1.
MCCelVerdict == [o \in Objs |-> CASE ToString(o) = "o2" -> "skip"
                                  [] ToString(o) = "o3" -> "error"
                                  [] OTHER -> "keep"]

\* Run goroutines and directory names are interchangeable; only safety is
\* checked with this symmetry.
OverlapSymmetry == Permutations(Runs) \cup Permutations(Dirs)
=============================================================================
