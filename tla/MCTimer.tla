------------------------------ MODULE MCTimer ------------------------------
(***************************************************************************)
(* SmtTimer for model checking: requests of one or two clients, made and   *)
(* dropped by the modules of one thread.                                    *)
(***************************************************************************)
EXTENDS SmtTimer, TLC

CONSTANTS r1, r2, r3, b1, b2, b3, b4, t1, q1, q2, x, y

TheRank == t1 :> 1

ClientCalls ==
  [module |-> {"schedule", "deschedule"}, async |-> {"schedule"}, poll |-> {},
   wait |-> {"wake"}, main |-> {}]

Symmetric == Permutations(Block) \cup Permutations(Fn)
=============================================================================
