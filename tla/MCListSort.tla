----------------------------- MODULE MCListSort -----------------------------
(***************************************************************************)
(* Lists of a client that sorts with the comparison lists.h describes,     *)
(* "true if a < b", nodes of which two have the same value.                *)
(***************************************************************************)
EXTENDS Lists

MCValueOf == [n \in Nodes |-> n % 2]
=============================================================================
