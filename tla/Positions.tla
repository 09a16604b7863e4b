----------------------------- MODULE Positions -----------------------------
(***************************************************************************)
(* Parts of a sequence, named by their positions, and sequences put        *)
(* together: the loops of the program that keep some elements of a slice   *)
(* or collect the elements of several.                                     *)
(***************************************************************************)
EXTENDS Naturals, Sequences, FiniteSets

\* The elements of s at the positions of keep, in their order.
SubSeqAt(s, keep) ==
  LET place(i) == Cardinality({j \in keep : j <= i})
  IN  [k \in 1..Cardinality(keep) |-> s[CHOOSE i \in keep : place(i) = k]]

\* The sequences F[1], ..., F[n], one after the other.
Chained(F, n) ==
  LET upTo[k \in Nat] == IF k = 0 THEN <<>> ELSE upTo[k - 1] \o F[k]
  IN  upTo[n]

\* The elements of s in the order where above[i] has the positions that come
\* before the i-th.
InOrder(s, above) ==
  [k \in DOMAIN s |-> s[CHOOSE i \in DOMAIN s : Cardinality(above[i]) = k - 1]]
=============================================================================
