------------------------------ MODULE MCServer ------------------------------
(***************************************************************************)
(* Small instances of the server: one cluster with two objects and every   *)
(* request, or two clusters that share a process.                          *)
(***************************************************************************)
EXTENDS Server
=============================================================================
