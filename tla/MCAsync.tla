------------------------------ MODULE MCAsync ------------------------------
(***************************************************************************)
(* SmtAsync for model checking: one thread, and two functions of lower     *)
(* priority that are used as asynchronous and as polling functions.        *)
(***************************************************************************)
EXTENDS SmtAsync, TLC

CONSTANTS f, g, b1, b2, high

TheRank == high :> 3

AnyCalls ==
  [module |-> {"schedule", "recycle", "shutdown"}, async |-> {"schedule", "deschedule", "wake", "fail"},
   poll |-> {"unpoll", "fail"}, wait |-> {"wake"}, main |-> {"block", "poll"}]

Symmetric == Permutations(Block) \cup Permutations(Fn)
=============================================================================
