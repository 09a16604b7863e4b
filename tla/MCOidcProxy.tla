---------------------------- MODULE MCOidcProxy ----------------------------
(***************************************************************************)
(* An issuer with two versions of its document and a JSON error page, and  *)
(* a tab of a browser.                                                     *)
(***************************************************************************)
EXTENDS Login

MCDocs == {[reg |-> "reg", auth |-> "auth", rest |-> "v1"],
           [reg |-> "reg", auth |-> "auth", rest |-> "v2"],
           [reg |-> Missing, auth |-> Missing, rest |-> "error"]}
=============================================================================
