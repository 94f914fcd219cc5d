------------------------------- MODULE MCTree -------------------------------
(***************************************************************************)
(* SflTree for model checking: up to six nodes, inserted in every order.   *)
(***************************************************************************)
EXTENDS SflTree
=============================================================================
