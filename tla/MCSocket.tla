------------------------------ MODULE MCSocket ------------------------------
(***************************************************************************)
(* SmtSock for model checking, with requests to close that have a timeout. *)
(***************************************************************************)
EXTENDS SmtSock

AskUsed ==
  [h \in Handle |-> {[type |-> t, repeat |-> FALSE, timed |-> TRUE] : t \in {"read", "close"}}]
=============================================================================
