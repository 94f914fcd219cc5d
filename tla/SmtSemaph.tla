------------------------------ MODULE SmtSemaph ------------------------------
(***************************************************************************)
(* The semaphores of SmtKernel implement FifoSemaphore.  A thread stands   *)
(* in line from the moment semaph_wait asks for its suspension, although   *)
(* smt_exec links it to the semaphore only after its module has returned.  *)
(***************************************************************************)
EXTENDS SmtKernel

Asking(s) == flags.break_wanted = "wait_semaph" /\ flags.break_semaph = s

Line(s) == IF Asking(s) THEN Append(waiters[s], cur) ELSE waiters[s]

Closing == {s \in Semaph : /\ stack # <<>>
                           /\ stack[1].op = "semaph_destroy"
                           /\ stack[1].semaph = s}

Fifo == INSTANCE FifoSemaphore
          WITH Client <- Thread, Sem <- Semaph, Supply <- InitValue,
               open <- live, closing <- Closing, free <- value,
               line <- [s \in Semaph |-> Line(s)],
               ended <- {t \in Thread : state[t] = "dead"}, halted <- pc = "exit"

(* What the two calls are for: semaph_wait takes a unit or puts its thread   *)
(* at the end of the line, and semaph_signal makes the first in line         *)
(* runnable or leaves a unit.                                                *)
CallsServe ==
  \A s \in Semaph :
    /\ SemaphWait(s) => Fifo!Acquire(s) \/ Fifo!Enter(running, s)
    /\ SemaphSignal(s) => /\ Fifo!Release(s)
                         /\ \/ waiters[s] = <<>>
                            \/ state'[Head(waiters[s])] = "active"

(* Each semaphore is a first-come-first-served one: no waiter is overtaken,  *)
(* skipped or let go before its turn, unless it ends or the semaphore is     *)
(* destroyed, and no call loses a unit or makes one up, across suspension,   *)
(* priorities, recycled modules and the end of threads.                      *)
SemaphoresAreFifo == Fifo!FSpec /\ [][CallsServe]_vars
=============================================================================
