----------------------------- MODULE MCHistory -----------------------------
(***************************************************************************)
(* Small histories: two files of two kinds of one API group, and two       *)
(* contents that differ in a field.                                        *)
(***************************************************************************)
EXTENDS History

MCFiles  == {"deployments/web", "statefulsets/web"}
MCOrder  == <<"deployments/web", "statefulsets/web">>
MCKindOf == [f \in Files |-> IF f = "deployments/web" THEN "Deployment" ELSE "StatefulSet"]
MCDoc    == [b \in Blobs |-> [x \in Fields |-> IF x = "replicas" THEN b ELSE "same"]]
MCFields == {"replicas", "image"}

\* Different names; kinds do not collide.
MCTwoIds == [f \in Files |-> f]
=============================================================================
