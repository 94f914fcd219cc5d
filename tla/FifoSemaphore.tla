---------------------------- MODULE FifoSemaphore ----------------------------
(***************************************************************************)
(* What smtlib.c promises of its semaphores: each is a count of what is    *)
(* free and a line of clients served first come, first served.  A client   *)
(* gets out of a line in three ways only: it is the first when a unit is   *)
(* released, it is the first when the semaphore is being destroyed, or it  *)
(* ends.  So nobody overtakes and nobody is skipped.                       *)
(***************************************************************************)
EXTENDS SmtLists

CONSTANTS Client, Sem, Supply

VARIABLES open,     \* the semaphores that exist
          closing,  \* those being destroyed
          free,     \* the units left of each
          line,     \* who waits for one, in the order of asking
          ended,    \* the clients that are no more
          halted    \* the program was aborted

fvars == <<open, closing, free, line, ended, halted>>

FInit == /\ open = {} /\ closing = {} /\ ended = {} /\ halted = FALSE
         /\ free = [s \in Sem |-> 0]
         /\ line = [s \in Sem |-> <<>>]

Usable(s) == s \in open /\ s \notin closing

Open(s) == /\ s \notin open
           /\ line[s] = <<>>
           /\ open' = open \cup {s}
           /\ free' = [free EXCEPT ![s] = Supply[s]]
           /\ UNCHANGED <<closing, line, ended, halted>>

Acquire(s) == /\ Usable(s)
              /\ free[s] > 0
              /\ line[s] = <<>>
              /\ free' = [free EXCEPT ![s] = @ - 1]
              /\ UNCHANGED <<open, closing, line, ended, halted>>

Enter(c, s) == /\ Usable(s)
               /\ free[s] = 0
               /\ c \notin ended
               /\ \A r \in Sem : \A i \in DOMAIN line[r] : line[r][i] # c
               /\ line' = [line EXCEPT ![s] = Append(@, c)]
               /\ UNCHANGED <<open, closing, free, ended, halted>>

Release(s) ==
  /\ Usable(s)
  /\ IF line[s] = <<>>
       THEN free' = [free EXCEPT ![s] = @ + 1] /\ UNCHANGED line
       ELSE line' = [line EXCEPT ![s] = Tail(@)] /\ UNCHANGED free
  /\ UNCHANGED <<open, closing, ended, halted>>

(* A client that ends leaves the line it may be in.                         *)
End(c) == /\ c \notin ended
          /\ ended' = ended \cup {c}
          /\ line' = [s \in Sem |-> Unlink(line[s], c)]
          /\ UNCHANGED <<open, closing, free, halted>>

(* A semaphore that is destroyed lets its clients go, first come first.     *)
Close(s) == /\ Usable(s)
            /\ closing' = closing \cup {s}
            /\ UNCHANGED <<open, free, line, ended, halted>>

Dismiss(s) == /\ s \in closing
              /\ line[s] # <<>>
              /\ line' = [line EXCEPT ![s] = Tail(@)]
              /\ UNCHANGED <<open, closing, free, ended, halted>>

Closed(s) == /\ s \in closing
             /\ line[s] = <<>>
             /\ open' = open \ {s}
             /\ closing' = closing \ {s}
             /\ UNCHANGED <<free, line, ended, halted>>

(* An abort may find a semaphore half destroyed; nobody is let go any more. *)
Halt == /\ ~halted
        /\ halted' = TRUE
        /\ closing' = {}
        /\ UNCHANGED <<open, free, line, ended>>

FNext == \/ \E s \in Sem : \/ Open(s) \/ Acquire(s) \/ Release(s)
                           \/ \E c \in Client : Enter(c, s)
                           \/ Close(s) \/ Dismiss(s) \/ Closed(s)
         \/ \E c \in Client : End(c)
         \/ Halt

FSpec == FInit /\ [][FNext]_fvars
=============================================================================
