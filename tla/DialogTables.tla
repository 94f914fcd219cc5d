---------------------------- MODULE DialogTables ----------------------------
(***************************************************************************)
(* What a dialog's tables mean: a state accepts the events it lists, and   *)
(* those the defaults state lists; a transition of the defaults state that *)
(* names no next state stays where it is.                                   *)
(***************************************************************************)
EXTENDS Integers

CONSTANTS
  State,           \* states, numbered from 0
  maxevent,        \* events are numbered from 0 to below maxevent
  NullState,       \* SMT_NULL_STATE: no defaults state
  defaults,        \* the agent's LR_defaults
  action, nextst   \* [State \X Event -> Nat], [State \X Event -> State]

Event == 0 .. maxevent - 1

ASSUME TablesAssumption ==
  /\ State \subseteq Nat /\ 0 \in State /\ maxevent \in Nat
  /\ NullState \notin State
  /\ defaults \in State \cup {NullState}
  /\ action \in [State \X Event -> Nat]
  /\ nextst \in [State \X Event -> State]

HasDefault(s, e) == action[s, e] = 0 /\ defaults # NullState

(* The module list of a state and an event, 0 if it is not accepted.        *)
Index(s, e) == IF HasDefault(s, e) THEN action[defaults, e] ELSE action[s, e]

Target(s, e) ==
  CASE ~HasDefault(s, e) -> nextst[s, e]
    [] HasDefault(s, e) /\ nextst[defaults, e] = defaults -> s
    [] OTHER -> nextst[defaults, e]
=============================================================================
