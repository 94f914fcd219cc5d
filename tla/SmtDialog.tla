------------------------------ MODULE SmtDialog ------------------------------
(***************************************************************************)
(* State transitions of dialogs (lookup_module_vector, lookup_next_event   *)
(* and the end of a module list in smt_exec).  The tables of an agent are  *)
(* shared by its threads and filled in as they run: what the defaults      *)
(* state says of an event is copied to the state that looked it up.        *)
(*                                                                         *)
(* The tables are arrays in row-major order, so the element for an event   *)
(* that is one too large is the first of the next state, and behind the    *)
(* last state there is none.                                                *)
(***************************************************************************)
EXTENDS DialogTables

CONSTANTS
  Thread,
  Supplied         \* numbers that modules and methods supply as events

VARIABLES
  LR_action, LR_nextst,  \* the tables
  thread                 \* [Thread -> state, event, index of the module list]

vars == <<LR_action, LR_nextst, thread>>

(* The element [state * maxevent + event].                                  *)
Element(s, e) == IF e = maxevent THEN <<s + 1, 0>> ELSE <<s, e>>

Idle    == [at |-> "start", state |-> 0, event |-> 0, index |-> 0]
Place   == {"start", "list", "refused", "outside"}

Init ==
  /\ LR_action = action /\ LR_nextst = nextst
  /\ thread = [t \in Thread |-> Idle]

(* Mutant: the next state is not copied.                                    *)
CopyActionOnly(i, j, s) ==
  /\ LR_action' = [LR_action EXCEPT ![i] = LR_action[j]]
  /\ LR_nextst' = LR_nextst

(* Mutant: a transition without next state goes on to the next one.         *)
CopyNextState(i, j, s) ==
  /\ LR_action' = [LR_action EXCEPT ![i] = LR_action[j]]
  /\ LR_nextst' = [LR_nextst EXCEPT ![i] = IF LR_nextst[j] = defaults THEN s + 1 ELSE LR_nextst[j]]

Copy(i, j, s) ==
  /\ LR_action' = [LR_action EXCEPT ![i] = LR_action[j]]
  /\ LR_nextst' = [LR_nextst EXCEPT ![i] = IF LR_nextst[j] = defaults THEN s ELSE LR_nextst[j]]

(* lookup_module_vector, for thread t in state s with event e.              *)
LookupModuleVector(t, s, e) ==
  LET i == Element(s, e)
      j == Element(defaults, e)
  IN  \/ /\ i \notin DOMAIN LR_action
         /\ thread' = [thread EXCEPT ![t].at = "outside"]
         /\ UNCHANGED <<LR_action, LR_nextst>>
      \/ /\ i \in DOMAIN LR_action
         /\ LR_action[i] = 0 /\ defaults # NullState /\ j \notin DOMAIN LR_action
         /\ thread' = [thread EXCEPT ![t].at = "outside"]
         /\ UNCHANGED <<LR_action, LR_nextst>>
      \/ /\ i \in DOMAIN LR_action
         /\ IF LR_action[i] = 0 /\ defaults # NullState
              THEN j \in DOMAIN LR_action /\ Copy(i, j, s)
              ELSE UNCHANGED <<LR_action, LR_nextst>>
         /\ thread' = [thread EXCEPT ![t] =
              [at |-> IF LR_action'[i] = 0 THEN "refused" ELSE "list",
               state |-> s, event |-> e, index |-> LR_action'[i]]]

InRange(e) == e =< maxevent /\ e >= 0

(* A thread begins, with the event its initialising function supplied.      *)
FirstEvent(t, e) ==
  /\ thread[t].at = "start"
  /\ InRange(e)
  /\ LookupModuleVector(t, 0, e)

(* At the end of a module list: the state changes by the event that led to *)
(* it, and the next one is looked up.                                       *)
NextEvent(t, e) ==
  /\ thread[t].at = "list"
  /\ InRange(e)
  /\ LET i == Element(thread[t].state, thread[t].event)
     IN  i \in DOMAIN LR_nextst /\ LookupModuleVector(t, LR_nextst[i], e)

(* A number that is out of range ends the program.                          *)
OutOfRange(t, e) ==
  /\ thread[t].at \in {"start", "list"}
  /\ ~InRange(e)
  /\ thread' = [thread EXCEPT ![t].at = "refused"]
  /\ UNCHANGED <<LR_action, LR_nextst>>

Next ==
  \E t \in Thread, e \in Supplied : FirstEvent(t, e) \/ NextEvent(t, e) \/ OutOfRange(t, e)

Spec == Init /\ [][Next]_vars

-----------------------------------------------------------------------------
(* What a dialog promises: the same with tables nobody writes to.           *)
Declared(t, e) ==
  \E s \in State :
    /\ thread[t].at = "start" => s = 0
    /\ thread[t].at = "list" => s = Target(thread[t].state, thread[t].event)
    /\ thread'[t] = [at |-> IF Index(s, e) = 0 THEN "refused" ELSE "list",
                     state |-> s, event |-> e, index |-> Index(s, e)]

TypeOK ==
  /\ LR_action \in [State \X Event -> Nat]
  /\ LR_nextst \in [State \X Event -> State]
  /\ thread \in [Thread -> [at : Place, state : State, event : Int, index : Nat]]

(* Whatever has been looked up, by whatever threads in whatever states, the *)
(* shared tables say what they said: an element is as it was, or holds what *)
(* the defaults state declares for it.                                      *)
TablesMeanTheSame ==
  \A s \in State, e \in Event :
    LET i == <<s, e>>
    IN  \/ LR_action[i] = action[i] /\ LR_nextst[i] = nextst[i] /\ ~HasDefault(s, e)
        \/ LR_action[i] = 0 /\ HasDefault(s, e) /\ (s = defaults => LR_nextst[i] = nextst[i])
        \/ LR_action[i] = Index(s, e) /\ HasDefault(s, e) /\ LR_nextst[i] = Target(s, e)

(* Every transition of every thread is the one its dialog declares.         *)
AsDeclared ==
  [][\A t \in Thread : thread'[t] # thread[t] =>
       \/ \E e \in Supplied \cap Event : Declared(t, e)
       \/ thread'[t].at = "refused" /\ \E e \in Supplied : e \notin Event]_vars
=============================================================================
