------------------------- MODULE SmtContexts_proofs -------------------------
(***************************************************************************)
(* Theorems about the contexts of threads: where a dialog stands, where    *)
(* dialog_return goes back to, and the types of everything in SmtKernel;   *)
(* and about what a thread is given: the order of delivery and the answers *)
(* to clients, with the history variables of SmtHistory.                   *)
(*                                                                         *)
(* A location is stacked while a module runs, and names the module list    *)
(* smt_exec is in: ContextsInv says that the running thread stands on a    *)
(* list its state accepts, behind a module of it.                          *)
(*                                                                         *)
(* The scan of queue_deliver is interrupted by the answers it sends, and   *)
(* goes on in a queue that may have changed: OrderInv says that the best   *)
(* event so far goes before every event the scan has compared, AnswersInv  *)
(* that an answered event is still queued only while the activation that   *)
(* answered it is on the stack.                                            *)
(***************************************************************************)
EXTENDS SmtKernel_proofs

(* A place dialog_return may go back to.                                    *)
Resumable(t, l) ==
  /\ <<l.state, l.event>> \in DOMAIN Dialog[Agt(t)]
  /\ l.number \in 1 .. Dialog[Agt(t)][l.state, l.event].modules

LocationType == [state : State, event : Event, number : Nat]

ContextOK(t, c) ==
  /\ {"LR_state", "LR_event", "LR_number", "the_next_event", "event", "LR_location_stack"}
       \subseteq DOMAIN c
  /\ c.LR_state \in State \cup {NullState}
  /\ c.LR_event \in Event \cup {NullEvent}
  /\ c.LR_number \in Nat
  /\ c.LR_location_stack \in Seq(LocationType)
  /\ \A i \in DOMAIN c.LR_location_stack : Resumable(t, c.LR_location_stack[i])

(* The module that runs is one of a list its state accepts.                 *)
Placed(t, c) == Accepts(t, c) /\ c.LR_number \in 1 .. Modules(t, c)

ContextsInv ==
  /\ DOMAIN ctx = Thread
  /\ \A t \in Thread : ContextOK(t, ctx[t])
  /\ running # None => Placed(running, ctx[running])
  /\ {"the_exception_event", "the_next_event"} \subseteq DOMAIN flags
  /\ flags.the_exception_event \in Event \cup {NullEvent}
  /\ flags.exception_raised => flags.the_exception_event \in Event

-----------------------------------------------------------------------------
(* One context changes.                                                     *)
LEMMA OneContext ==
  ASSUME DOMAIN ctx = Thread, \A t \in Thread : ContextOK(t, ctx[t]),
         NEW t \in Thread, NEW c, ContextOK(t, c), ctx' = [ctx EXCEPT ![t] = c]
  PROVE  /\ DOMAIN ctx' = Thread /\ \A u \in Thread : ContextOK(u, ctx'[u])
         /\ ctx'[t] = c /\ \A u \in Thread : u # t => ctx'[u] = ctx[u]
BY DEF ContextOK

(* Neither the place in the dialog nor the stack of locations changes.      *)
SamePlace(c, d) ==
  /\ DOMAIN d = DOMAIN c
  /\ d.LR_state = c.LR_state /\ d.LR_event = c.LR_event /\ d.LR_number = c.LR_number
  /\ d.LR_location_stack = c.LR_location_stack

LEMMA SamePlaceKeeps ==
  ASSUME NEW t, NEW c, NEW d, SamePlace(c, d)
  PROVE  /\ ContextOK(t, c) => ContextOK(t, d)
         /\ Placed(t, c) => Placed(t, d)
BY DEF SamePlace, ContextOK, Placed, Accepts, Modules

(* What a dialog table holds for a list its state accepts.                  *)
LEMMA ListOf ==
  ASSUME NEW t \in Thread, NEW c, Accepts(t, c)
  PROVE  /\ <<c.LR_state, c.LR_event>> \in State \X Event
         /\ Modules(t, c) \in Nat
         /\ NextStates(t, c) \subseteq State
<1> DEFINE a  == Agt(t)
           se == <<c.LR_state, c.LR_event>>
<1>1. a \in Agent
  BY KernelAssumption DEF Agt
<1>2. se \in DOMAIN Dialog[a]
  BY DEF Accepts
<1> HIDE DEF a, se
<1>3. se \in State \X Event /\ Dialog[a][se].modules \in Nat /\ Dialog[a][se].next \in State
  BY <1>1, <1>2, KernelAssumption
<1> QED BY <1>3 DEF Modules, NextStates, a, se

(* A fresh context.                                                         *)
LEMMA FreshContext == \A t \in Thread : ContextOK(t, FreshCtx)
<1>1. <<>> \in Seq(LocationType) /\ DOMAIN <<>> = {}
  OBVIOUS
<1> QED BY <1>1 DEF FreshCtx, ContextOK

(* lookup_module_vector stands at the place it is asked for.                *)
LEMMA LookupContext ==
  ASSUME NEW t \in Thread, NEW c, ContextOK(t, c), Lookup(t, c)
  PROVE  \E d : ContextOK(t, d) /\ ctx' = [ctx EXCEPT ![t] = d]
<1> DEFINE d == [c EXCEPT !.the_next_event = NullEvent]
           e == [c EXCEPT !.event = None]
<1>1. ctx' = [ctx EXCEPT ![t] = d] \/ ctx' = [ctx EXCEPT ![t] = e]
  BY DEF Lookup
<1>2. SamePlace(c, d) /\ SamePlace(c, e)
  BY DEF ContextOK, SamePlace
<1> HIDE DEF d, e
<1> QED BY <1>1, <1>2, SamePlaceKeeps

(* What a step must show of the contexts: one is replaced by a sound one,   *)
(* and the running thread keeps its place.                                  *)
ContextsGoOn ==
  \E t \in Thread : \E c : /\ ContextOK(t, c) /\ ctx' = [ctx EXCEPT ![t] = c]
                           /\ running' \in {None, running, t}
                           /\ t = running' => Placed(t, c)

LEMMA ContextsStay ==
  ASSUME DOMAIN ctx = Thread, \A t \in Thread : ContextOK(t, ctx[t]),
         running # None => running \in Thread /\ Placed(running, ctx[running]),
         ContextsGoOn
  PROVE  /\ DOMAIN ctx' = Thread /\ \A t \in Thread : ContextOK(t, ctx'[t])
         /\ running' # None => Placed(running', ctx'[running'])
<1>1. SUFFICES ASSUME NEW t \in Thread, NEW c, ContextOK(t, c), ctx' = [ctx EXCEPT ![t] = c],
                      running' \in {None, running, t}, t = running' => Placed(t, c)
               PROVE  /\ DOMAIN ctx' = Thread /\ \A u \in Thread : ContextOK(u, ctx'[u])
                      /\ running' # None => Placed(running', ctx'[running'])
  BY DEF ContextsGoOn
<1>2. /\ DOMAIN ctx' = Thread /\ \A u \in Thread : ContextOK(u, ctx'[u])
      /\ ctx'[t] = c /\ \A u \in Thread : u # t => ctx'[u] = ctx[u]
  BY <1>1, OneContext
<1>3. ASSUME running' # None
      PROVE  Placed(running', ctx'[running'])
  <2>1. CASE running' = t
    BY <1>1, <1>2, <2>1
  <2>2. CASE running' # t
    <3>1. running' = running /\ running \in Thread /\ Placed(running, ctx[running])
      BY <1>1, <1>3, <2>2
    <3>2. ctx'[running] = ctx[running]
      BY <1>2, <2>2, <3>1
    <3> QED BY <3>1, <3>2
  <2> QED BY <2>1, <2>2
<1> QED BY <1>2, <1>3

(* A delivery touches the event of a thread alone; so does a fetch that     *)
(* fails.                                                                   *)
LEMMA DeliveryContexts ==
  ASSUME IInv, ContextsInv, TakeBest \/ FinishAccept \/ FetchFailed
  PROVE  ContextsGoOn
<1>1. ASSUME NEW t \in Thread, NEW x, NEW y,
             \/ ctx' = [ctx EXCEPT ![t].event = x]
             \/ ctx' = [ctx EXCEPT ![t].event = x, ![t].the_next_event = y],
             UNCHANGED running
      PROVE  ContextsGoOn
  <2> DEFINE c == [ctx[t] EXCEPT !.event = x]
             d == [ctx[t] EXCEPT !.event = x, !.the_next_event = y]
  <2>1. ctx' = [ctx EXCEPT ![t] = c] \/ ctx' = [ctx EXCEPT ![t] = d]
    BY <1>1 DEF ContextsInv
  <2>2. ContextOK(t, ctx[t]) /\ SamePlace(ctx[t], c) /\ SamePlace(ctx[t], d)
    BY DEF ContextsInv, ContextOK, SamePlace
  <2>3. t = running => Placed(t, ctx[t])
    BY KernelAssumption DEF ContextsInv
  <2> HIDE DEF c, d
  <2>4. /\ ContextOK(t, c) /\ (t = running => Placed(t, c))
        /\ ContextOK(t, d) /\ (t = running => Placed(t, d))
    BY <2>2, <2>3, SamePlaceKeeps
  <2> QED BY <1>1, <2>1, <2>4 DEF ContextsGoOn
<1>2. CASE TakeBest
  <2>1. Top.thread \in Thread
    BY <1>2, StackTop DEF TakeBest, Scanning, FrameOK, IInv, Alive
  <2>2. \E x, y : ctx' = [ctx EXCEPT ![Top.thread].event = x, ![Top.thread].the_next_event = y]
    BY <1>2 DEF TakeBest
  <2> QED BY <1>1, <1>2, <2>1, <2>2 DEF TakeBest, exec
<1>3. CASE FinishAccept
  <2>1. Top.thread \in Thread
    BY <1>3, StackTop DEF FinishAccept, FrameOK, IInv, Alive
  <2>2. \E x : ctx' = [ctx EXCEPT ![Top.thread].event = x]
    BY <1>3 DEF FinishAccept
  <2> QED BY <1>1, <1>3, <2>1, <2>2 DEF FinishAccept, exec
<1>4. CASE FetchFailed
  BY <1>1, <1>4 DEF FetchFailed, Here, IInv, ControlOK, Busy, Alive
<1> QED BY <1>2, <1>3, <1>4

(* thread_create and thread_destroy give a thread that does not run a fresh *)
(* context.                                                                 *)
LEMMA FreshContexts ==
  ASSUME IInv, ContextsInv, OnlyThreadsChange
  PROVE  ContextsGoOn
<1>1. ASSUME NEW t \in Thread, ctx' = [ctx EXCEPT ![t] = FreshCtx], UNCHANGED running, t # running
      PROVE  ContextsGoOn
  <2>1. ContextOK(t, FreshCtx)
    BY FreshContext
  <2> HIDE DEF ContextsInv
  <2> QED BY <1>1, <2>1 DEF ContextsGoOn
<1>2. CASE Terminate
  <2>1. cur \in Thread /\ running = None /\ UNCHANGED running /\ Destroy(cur)
    BY <1>2 DEF Terminate, Here, IInv, ControlOK, Busy, Alive
  <2>2. cur # running
    BY <2>1, KernelAssumption
  <2> QED BY <1>1, <2>1, <2>2 DEF Destroy
<1>3. ASSUME NEW t \in Thread, ThreadDestroy(t)
      PROVE  ContextsGoOn
  BY <1>1, <1>3 DEF ThreadDestroy, Destroy, exec
<1>4. ASSUME NEW t \in Thread, ThreadCreate(t)
      PROVE  ContextsGoOn
  <2>1. state[t] = "none" /\ ctx' = [ctx EXCEPT ![t] = FreshCtx] /\ UNCHANGED running
    BY <1>4 DEF ThreadCreate, exec
  <2>2. t # running
    BY <2>1, KernelAssumption DEF IInv, ControlOK, Busy, Alive
  <2> QED BY <1>1, <2>1, <2>2
<1> QED BY <1>2, <1>3, <1>4 DEF OnlyThreadsChange

(* The calls that stack a location, go back to one or forget one.           *)
LEMMA LocationContexts ==
  ASSUME IInv, ContextsInv, CallException \/ DialogReturn \/ DialogPop
  PROVE  ContextsGoOn
<1> DEFINE t == running
           s == ctx[t].LR_location_stack
<1>1. t \in Thread /\ UNCHANGED running /\ ContextOK(t, ctx[t]) /\ Placed(t, ctx[t])
  <2>1. t # None /\ UNCHANGED running
    BY DEF CallException, DialogReturn, DialogPop, InModule, exec
  <2>2. t \in Thread
    BY <2>1 DEF IInv, ControlOK, Busy, Alive
  <2> QED BY <2>1, <2>2 DEF ContextsInv
<1>2. s \in Seq(LocationType) /\ \A i \in DOMAIN s : Resumable(t, s[i])
  BY <1>1 DEF ContextOK
<1> HIDE DEF t, s
<1>3. ASSUME NEW q \in Seq(LocationType), \A i \in DOMAIN q : Resumable(t, q[i]),
             ctx' = [ctx EXCEPT ![t].LR_location_stack = q]
      PROVE  ContextsGoOn
  <2> DEFINE c == [ctx[t] EXCEPT !.LR_location_stack = q]
  <2>1. ctx' = [ctx EXCEPT ![t] = c]
    BY <1>1, <1>3 DEF ContextsInv
  <2>2. ContextOK(t, c) /\ Placed(t, c)
    BY <1>1, <1>3 DEF ContextOK, Placed, Accepts, Modules
  <2> HIDE DEF c
  <2> QED BY <1>1, <2>1, <2>2 DEF ContextsGoOn, t
<1>4. s # <<>> => /\ Tail(s) \in Seq(LocationType)
                  /\ \A i \in DOMAIN Tail(s) : Resumable(t, Tail(s)[i])
                  /\ Head(s) \in LocationType /\ Resumable(t, Head(s))
  <2> SUFFICES ASSUME s # <<>> PROVE /\ Tail(s) \in Seq(LocationType)
                                     /\ \A i \in DOMAIN Tail(s) : Resumable(t, Tail(s)[i])
                                     /\ Head(s) \in LocationType /\ Resumable(t, Head(s))
    OBVIOUS
  <2>1. Tail(s) \in Seq(LocationType) /\ Head(s) = s[1] /\ 1 \in DOMAIN s
    BY <1>2
  <2>2. \A i \in DOMAIN Tail(s) : i + 1 \in DOMAIN s /\ Tail(s)[i] = s[i + 1]
    BY <1>2
  <2>3. s[1] \in LocationType
    BY <1>2, <2>1
  <2> QED BY <1>2, <2>1, <2>2, <2>3
<1>5. CASE CallException
  <2> DEFINE l == Location(t)
             q == <<l>> \o s
  <2>1. l \in LocationType /\ Resumable(t, l)
    <3>1. <<ctx[t].LR_state, ctx[t].LR_event>> \in State \X Event
      BY <1>1, ListOf DEF Placed
    <3> QED BY <1>1, <3>1 DEF Location, LocationType, ContextOK, Placed, Accepts, Modules, Resumable
  <2> HIDE DEF l
  <2>2. q \in Seq(LocationType) /\ \A i \in DOMAIN q : Resumable(t, q[i])
    <3>1. DOMAIN q = 1 .. Len(s) + 1 /\ q[1] = l /\ \A i \in 2 .. Len(s) + 1 : q[i] = s[i - 1]
      BY <1>2, <2>1
    <3>2. q \in Seq(LocationType)
      BY <1>2, <2>1
    <3>3. ASSUME NEW i \in 1 .. Len(s) + 1, i # 1
          PROVE  i \in 2 .. Len(s) + 1 /\ i - 1 \in DOMAIN s
      BY <1>2, <3>3
    <3> HIDE DEF q
    <3> QED BY <1>2, <2>1, <3>1, <3>2, <3>3
  <2>3. ctx' = [ctx EXCEPT ![t].LR_location_stack = q]
    BY <1>5 DEF CallException, t, s, l
  <2> HIDE DEF q
  <2> QED BY <1>3, <2>2, <2>3
<1>6. CASE DialogPop
  <2>1. s # <<>> /\ ctx' = [ctx EXCEPT ![t].LR_location_stack = Tail(s)]
    BY <1>6 DEF DialogPop, t, s
  <2> DEFINE q == Tail(s)
  <2> HIDE DEF q
  <2> QED BY <1>3, <1>4, <2>1 DEF q
<1>7. CASE DialogReturn
  <2> DEFINE l == Head(s)
             q == Tail(s)
             c == [ctx[t] EXCEPT !.LR_location_stack = q, !.LR_state = l.state,
                                 !.LR_event = l.event, !.LR_number = l.number]
  <2>1. s # <<>> /\ ctx' = [ctx EXCEPT ![t].LR_location_stack = q, ![t].LR_state = l.state,
                                       ![t].LR_event = l.event, ![t].LR_number = l.number]
    BY <1>7 DEF DialogReturn, t, s
  <2>2. q \in Seq(LocationType) /\ (\A i \in DOMAIN q : Resumable(t, q[i]))
        /\ l \in LocationType /\ Resumable(t, l)
    BY <1>4, <2>1
  <2> HIDE DEF q, l
  <2>3. ctx' = [ctx EXCEPT ![t] = c]
    BY <1>1, <2>1 DEF ContextsInv
  <2>4. ContextOK(t, c) /\ Placed(t, c)
    BY <1>1, <2>2 DEF ContextOK, Placed, Accepts, Modules, LocationType, Resumable
  <2> HIDE DEF c
  <2> QED BY <1>1, <2>3, <2>4 DEF ContextsGoOn, t
<1> QED BY <1>5, <1>6, <1>7

(* smt_exec moves the thread at hand along its dialog.                      *)
LEMMA DialogContexts ==
  ASSUME IInv, ContextsInv,
         (Dispatch /\ ~UNCHANGED ctx) \/ FirstList \/ NextList \/ CallModule
  PROVE  ContextsGoOn
<1>1. ASSUME NEW t \in Thread, NEW c, ContextOK(t, c), running = None, UNCHANGED running,
             \/ ctx' = [ctx EXCEPT ![t] = c]
             \/ Lookup(t, c)
      PROVE  ContextsGoOn
  <2>1. t # running'
    BY <1>1, KernelAssumption
  <2>2. \E d : ContextOK(t, d) /\ ctx' = [ctx EXCEPT ![t] = d]
    BY <1>1, LookupContext
  <2> QED BY <1>1, <2>1, <2>2 DEF ContextsGoOn
<1>2. CASE Dispatch /\ ~UNCHANGED ctx
  <2> DEFINE t == Head(active)
             c(e) == [ctx[t] EXCEPT !.LR_state = FirstState, !.LR_event = NullEvent,
                                    !.the_next_event = e]
  <2>1. active # <<>> /\ running = None /\ UNCHANGED running
    BY <1>2 DEF Dispatch, Here
  <2>2. t \in Thread
    BY <2>1, FirstActive DEF IInv, Alive
  <2>3. ContextOK(t, ctx[t])
    BY <2>2 DEF ContextsInv
  <2>4. \A e : ContextOK(t, c(e))
    BY <2>3, KernelAssumption DEF ContextOK
  <2>5. \E e : ctx' = [ctx EXCEPT ![t].LR_state = FirstState, ![t].LR_event = NullEvent,
                                  ![t].the_next_event = e]
    BY <1>2, <2>1 DEF Dispatch
  <2>6. \E e : ctx' = [ctx EXCEPT ![t] = c(e)]
    BY <2>2, <2>5 DEF ContextsInv
  <2> HIDE DEF c, t
  <2> QED BY <1>1, <2>1, <2>2, <2>4, <2>6
<1>3. CASE FirstList \/ NextList \/ CallModule
  <2>1. cur \in Thread /\ ContextOK(cur, ctx[cur]) /\ running = None
    BY <1>3 DEF FirstList, NextList, CallModule, InLoop, HaveEvent, Here, IInv, ControlOK, Busy,
                Alive, ContextsInv
  <2>2. CASE FirstList
    <3> DEFINE c == [ctx[cur] EXCEPT !.LR_event = ctx[cur].the_next_event, !.LR_number = 0]
    <3>1. Lookup(cur, c) /\ UNCHANGED running /\ ctx[cur].the_next_event \in Event
      BY <2>2 DEF FirstList, HaveEvent
    <3>2. ContextOK(cur, c)
      BY <2>1, <3>1 DEF ContextOK
    <3> HIDE DEF c
    <3> QED BY <1>1, <2>1, <3>1, <3>2
  <2>3. CASE NextList
    <3> DEFINE c(s) == [ctx[cur] EXCEPT !.LR_state = s, !.LR_number = 0,
                                        !.LR_event = ctx[cur].the_next_event]
               d(s) == [c(s) EXCEPT !.the_next_event = NullEvent]
    <3>1. PICK s \in NextStates(cur, ctx[cur]) :
            ctx' = [ctx EXCEPT ![cur] = d(s)] \/ Lookup(cur, c(s))
      BY <2>3 DEF NextList
    <3>2. UNCHANGED running /\ ctx[cur].the_next_event \in Event
      BY <2>3 DEF NextList, HaveEvent
    <3>3. s \in State
      BY <2>1, ListOf DEF NextStates
    <3>4. ContextOK(cur, c(s)) /\ ContextOK(cur, d(s))
      BY <2>1, <3>2, <3>3 DEF ContextOK
    <3> HIDE DEF c, d
    <3> QED BY <1>1, <2>1, <3>1, <3>2, <3>4
  <2>4. CASE CallModule
    <3> DEFINE n == ctx[cur].LR_number
               c == [ctx[cur] EXCEPT !.LR_number = n + 1]
    <3>1. n < Modules(cur, ctx[cur]) /\ running' = cur /\ ctx' = [ctx EXCEPT ![cur] = c]
      BY <2>1, <2>4 DEF CallModule, ContextsInv
    <3>2. n \in Nat
      BY <2>1 DEF ContextOK
    <3>3. Accepts(cur, ctx[cur]) /\ Modules(cur, ctx[cur]) \in Nat
      <4> HIDE DEF n
      <4>1. ~Accepts(cur, ctx[cur]) => Modules(cur, ctx[cur]) = 0
        BY DEF Modules
      <4>2. Accepts(cur, ctx[cur])
        BY <3>1, <3>2, <4>1
      <4> QED BY <2>1, <4>2, ListOf
    <3>4. ContextOK(cur, c)
      BY <2>1, <3>2 DEF ContextOK
    <3>5. Accepts(cur, c) /\ Modules(cur, c) = Modules(cur, ctx[cur]) /\ c.LR_number = n + 1
      BY <2>1, <3>3 DEF ContextOK, Accepts, Modules
    <3>6. Placed(cur, c)
      BY <3>1, <3>2, <3>3, <3>5 DEF Placed
    <3> HIDE DEF c
    <3> QED BY <2>1, <3>1, <3>4, <3>6 DEF ContextsGoOn
  <2> QED BY <1>3, <2>2, <2>3, <2>4
<1> QED BY <1>2, <1>3

(* After a module the thread goes on at the place the module asked for.     *)
LEMMA ReturnContexts ==
  ASSUME IInv, ContextsInv, ModuleReturn
  PROVE  ContextsGoOn
<1>1. cur \in Thread /\ cur = running /\ running' = None /\ cur # None
  BY KernelAssumption DEF ModuleReturn, ReturnException, ReturnBreak, ReturnJump, ReturnPlain,
         Returning, IInv, ControlOK, Busy, Alive
<1>2. ContextOK(cur, ctx[cur]) /\ Placed(cur, ctx[cur])
  BY <1>1 DEF ContextsInv
<1>3. ContextOK(cur, Returned) /\ SamePlace(ctx[cur], Returned)
  BY <1>2 DEF Returned, ContextOK, SamePlace
<1> DEFINE r == Returned
           b == [r EXCEPT !.LR_number = @ - 1]
           e == [r EXCEPT !.event = None]
           x == [r EXCEPT !.LR_event = flags.the_exception_event, !.LR_number = 0]
<1>4. ContextOK(cur, r) /\ ContextOK(cur, b) /\ ContextOK(cur, e)
      /\ (flags.exception_raised => ContextOK(cur, x))
  <2>1. r.LR_number - 1 \in Nat /\ DOMAIN r = DOMAIN ctx[cur]
    <3>1. r.LR_number \in 1 .. Modules(cur, ctx[cur])
      BY <1>2, <1>3 DEF Placed, SamePlace
    <3>2. Modules(cur, ctx[cur]) \in Nat
      BY <1>1, <1>2, ListOf DEF Placed
    <3> QED BY <1>3, <3>1, <3>2 DEF SamePlace
  <2> HIDE DEF r
  <2> QED BY <1>3, <2>1 DEF ContextOK, ContextsInv, r
<1>5. \E c : ContextOK(cur, c) /\ (ctx' = [ctx EXCEPT ![cur] = c] \/ Lookup(cur, c))
  <2>1. ReturnException => Lookup(cur, x) /\ flags.exception_raised
    BY DEF ReturnException
  <2>2. ReturnBreak => ctx' = [ctx EXCEPT ![cur] = b] \/ ctx' = [ctx EXCEPT ![cur] = e]
    BY DEF ReturnBreak
  <2>3. ReturnJump \/ ReturnPlain => ctx' = [ctx EXCEPT ![cur] = r] \/ Lookup(cur, r)
    BY DEF ReturnJump, ReturnPlain
  <2> HIDE DEF r, b, e, x
  <2>4. CASE ReturnException
    BY <1>4, <2>1, <2>4
  <2>5. CASE ReturnBreak
    BY <1>4, <2>2, <2>5
  <2>6. CASE ReturnJump \/ ReturnPlain
    BY <1>4, <2>3, <2>6
  <2> QED BY <2>4, <2>5, <2>6 DEF ModuleReturn
<1>6. cur # running'
  BY <1>1
<1>7. \E c : ContextOK(cur, c) /\ ctx' = [ctx EXCEPT ![cur] = c]
  BY <1>1, <1>5, LookupContext
<1> QED BY <1>1, <1>6, <1>7 DEF ContextsGoOn

(* An exception that is raised names an event.                              *)
LEMMA ExceptionNamed ==
  ASSUME IInv, ContextsInv, [Next]_vars
  PROVE  /\ {"the_exception_event", "the_next_event"} \subseteq DOMAIN flags'
         /\ flags'.the_exception_event \in Event \cup {NullEvent}
         /\ flags'.exception_raised => flags'.the_exception_event \in Event
<1> DEFINE Kept == /\ {"the_exception_event", "the_next_event"} \subseteq DOMAIN flags'
                   /\ flags'.the_exception_event \in Event \cup {NullEvent}
                   /\ flags'.exception_raised => flags'.the_exception_event \in Event
<1>1. /\ {"the_exception_event", "the_next_event", "exception_raised", "break_wanted",
          "break_semaph", "dialog_jump"} \subseteq DOMAIN flags
      /\ flags.the_exception_event \in Event \cup {NullEvent}
      /\ flags.exception_raised => flags.the_exception_event \in Event
  BY DEF ContextsInv, IInv, FlagsOK
<1>2. CASE FlagCall \/ CallException
  <2>1. Agt(running) \in Agent
    BY <1>2, KernelAssumption DEF FlagCall, CallException, InModule, IInv, ControlOK, Busy, Alive, Agt
  <2>2. Raised[Agt(running)] \subseteq Event
    BY <2>1, KernelAssumption
  <2> QED BY <1>1, <1>2, <2>2 DEF FlagCall, CallException
<1>3. CASE SmtExec \/ CallModule
  BY <1>1, <1>3 DEF SmtExec, CallModule
<1>4. CASE ModuleReturn
  BY <1>1, <1>4 DEF ModuleReturn, ReturnException, ReturnBreak, ReturnJump, ReturnPlain
<1>5. CASE (\E s \in Semaph : SemaphWait(s)) \/ DialogReturn
  BY <1>1, <1>5 DEF SemaphWait, DialogReturn
<1>6. CASE UNCHANGED flags
  BY <1>1, <1>6
<1>7. CASE Exec
  <2>1. UNCHANGED flags \/ SmtExec \/ CallModule \/ ModuleReturn
    BY <1>7 DEF Exec, exec, RequestAllThreadsShutdown, ShutdownQueue, ShutdownDone, PollDone, Dispatch,
           FetchEvent, FetchFailed, Terminate, EventOutOfRange,
           FirstList, NextList, LeaveLoop, EndOfList, Idling, WaitReturn, SemaphDestroyStep,
           QueueStep, RejectUndeclared, AcceptNull, Compare, TakeBest, NothingToDeliver,
           FinishReject, FinishNull, FinishAccept
  <2> QED BY <1>3, <1>4, <1>6, <2>1
<1>8. CASE UserCall
  <2>1. \/ UNCHANGED flags \/ FlagCall \/ CallException \/ DialogReturn
        \/ \E s \in Semaph : SemaphWait(s)
    BY <1>8 DEF UserCall, exec, EventSend, SemaphCreate, SemaphSignal, SemaphDestroy, ThreadCreate,
           ThreadDestroy, SmtShutdown, SetFlag, DialogPop, DialogUnderflow
  <2> QED BY <1>2, <1>5, <1>6, <2>1
<1>9. CASE HandleSignal \/ UNCHANGED vars
  BY <1>6, <1>9 DEF HandleSignal, vars, exec
<1> QED BY <1>7, <1>8, <1>9 DEF Next, Finished

(* The steps that touch a context.                                          *)
LEMMA ContextKinds ==
  ASSUME IInv, [Next]_vars
  PROVE  \/ UNCHANGED ctx /\ running' \in {None, running}
         \/ TakeBest \/ FinishAccept \/ FetchFailed \/ OnlyThreadsChange
         \/ CallException \/ DialogReturn \/ DialogPop
         \/ FirstList \/ NextList \/ CallModule \/ ModuleReturn
         \/ (Dispatch /\ ~UNCHANGED ctx)
BY DEF OnlyThreadsChange, Next, Finished, HandleSignal, vars, exec, UserCall, EventSend, SemaphCreate,
       SemaphWait, SemaphSignal, SemaphDestroy, SmtShutdown, SetFlag, FlagCall,
       DialogUnderflow, Exec, SmtExec, RequestAllThreadsShutdown, ShutdownQueue,
       ShutdownDone, PollDone, Dispatch, FetchEvent, EventOutOfRange,
       LeaveLoop, EndOfList, Idling, WaitReturn, SemaphDestroyStep, Here,
       QueueStep, RejectUndeclared, AcceptNull, Compare, NothingToDeliver,
       FinishReject, FinishNull

(* Every step leaves every dialog in a place it can go on from.             *)
LEMMA ContextsStep ==
  ASSUME IInv, ContextsInv, [Next]_vars
  PROVE  ContextsInv'
<1>1. /\ {"the_exception_event", "the_next_event"} \subseteq DOMAIN flags'
      /\ flags'.the_exception_event \in Event \cup {NullEvent}
      /\ flags'.exception_raised => flags'.the_exception_event \in Event
  BY ExceptionNamed
<1>2. CASE ContextsGoOn
  <2>1. running # None => running \in Thread
    BY DEF IInv, ControlOK, Busy, Alive
  <2>2. /\ DOMAIN ctx' = Thread /\ \A t \in Thread : ContextOK(t, ctx'[t])
        /\ running' # None => Placed(running', ctx'[running'])
    BY <1>2, <2>1, ContextsStay DEF ContextsInv
  <2> QED BY <1>1, <2>2 DEF ContextsInv
<1>3. CASE UNCHANGED ctx /\ running' \in {None, running}
  BY <1>1, <1>3 DEF ContextsInv
<1> QED BY <1>2, <1>3, ContextKinds, DeliveryContexts, FreshContexts, LocationContexts, DialogContexts,
           ReturnContexts

(* smt_init: nobody runs, nothing is stacked.                               *)
LEMMA InitContexts == Init => ContextsInv
BY FreshContext DEF Init, ContextsInv, NoFlags

(* Contexts stay well placed, whatever modules call and supply.             *)
THEOREM ContextsInvariance == Spec => []ContextsInv
<1>1. Init => ContextsInv
  BY InitContexts
<1>2. IInv /\ ContextsInv /\ [Next]_vars => ContextsInv'
  BY ContextsStep
<1>3. Spec => []IInv
  BY Invariance
<1> QED BY <1>1, <1>2, <1>3, PTL DEF Spec

(* Wherever a dialog was left, dialog_return finds a list and a place in it.*)
THEOREM LocationsStayResumable == Spec => []LocationsResumable
<1>1. ContextsInv => LocationsResumable
  BY DEF ContextsInv, ContextOK, Resumable, LocationsResumable
<1> QED BY <1>1, ContextsInvariance, PTL

-----------------------------------------------------------------------------
(* The types of everything.                                                 *)

(* The rest of the state.                                                   *)
RestOK ==
  /\ live \in SUBSET Semaph
  /\ value \in [Semaph -> Nat]
  /\ cur \in Thread \cup {None}
  /\ shutdown_request \in BOOLEAN
  /\ waitfn \in BOOLEAN
  /\ signals \in 0 .. MaxSignals
  /\ delivered \in BOOLEAN
  /\ calls \in 0 .. MaxCalls

(* The events that are supplied exist.                                      *)
SupplyOK ==
  /\ \A t \in Thread : ctx[t].the_next_event \in NextEvents
  /\ flags.the_next_event \in NextEvents

LEMMA RestStep ==
  ASSUME IInv, RestOK, [Next]_vars
  PROVE  RestOK'
<1>1. MaxCalls \in Nat /\ MaxSignals \in Nat
  BY KernelAssumption
<1>2. 0 \in 0 .. MaxCalls /\ \A n \in 0 .. MaxCalls : n < MaxCalls => n + 1 \in 0 .. MaxCalls
  BY <1>1
<1>3. CASE UserCall
  <2>1. UNCHANGED <<cur, waitfn, signals, delivered>>
    <3>1. UNCHANGED delivered
      BY <1>3 DEF UserCall, EventSend, SemaphCreate, SemaphWait, SemaphSignal, SemaphDestroy,
         ThreadCreate, ThreadDestroy, SmtShutdown, SetFlag, CallException, DialogReturn, DialogPop,
         DialogUnderflow, nested
    <3> QED BY <1>3, <3>1 DEF UserCall, exec, global, EventSend, SemaphCreate, SemaphWait, SemaphSignal,
         SemaphDestroy, ThreadCreate, ThreadDestroy, SmtShutdown, SetFlag, CallException,
         DialogReturn, DialogPop, DialogUnderflow
  <2>2. \E c : Anywhere(c)
    BY <1>3 DEF UserCall, EventSend, SemaphCreate, SemaphWait, SemaphSignal, SemaphDestroy,
         ThreadCreate, ThreadDestroy, SmtShutdown, SetFlag, FlagCall, CallException,
         DialogReturn, DialogPop, DialogUnderflow, Anywhere
  <2>3. calls' \in 0 .. MaxCalls
    BY <1>2, <2>2 DEF Anywhere, InModule, Outside, RestOK
  <2>4. shutdown_request' \in BOOLEAN
    BY <1>3 DEF UserCall, global, EventSend, SemaphCreate, SemaphWait, SemaphSignal, SemaphDestroy,
         ThreadCreate, ThreadDestroy, SmtShutdown, SetFlag, CallException, DialogReturn, DialogPop,
         DialogUnderflow, RestOK
  <2>5. live' \in SUBSET Semaph /\ value' \in [Semaph -> Nat]
    <3>1. ASSUME NEW s \in Semaph, NEW n \in Nat, value' = [value EXCEPT ![s] = n]
          PROVE  value' \in [Semaph -> Nat]
      BY <3>1 DEF RestOK
    <3>2. ASSUME NEW s \in Semaph, SemaphCreate(s) \/ SemaphWait(s) \/ SemaphSignal(s)
          PROVE  live' \in SUBSET Semaph /\ value' \in [Semaph -> Nat]
      <4>1. live' \in SUBSET Semaph
        BY <3>2 DEF RestOK, SemaphCreate, SemaphWait, SemaphSignal
      <4>2. value[s] \in Nat /\ value \in [Semaph -> Nat] /\ InitValue[s] \in Nat
        BY KernelAssumption DEF RestOK
      <4>3. \/ UNCHANGED value
            \/ value' = [value EXCEPT ![s] = InitValue[s]]
            \/ value' = [value EXCEPT ![s] = value[s] + 1]
            \/ value[s] > 0 /\ value' = [value EXCEPT ![s] = value[s] - 1]
        BY <3>2 DEF SemaphCreate, SemaphWait, SemaphSignal
      <4>4. value[s] + 1 \in Nat /\ (value[s] > 0 => value[s] - 1 \in Nat)
        BY <4>2
      <4> QED BY <3>1, <4>1, <4>2, <4>3, <4>4
    <3>3. UNCHANGED <<live, value>> \/ \E s \in Semaph : SemaphCreate(s) \/ SemaphWait(s) \/ SemaphSignal(s)
      BY <1>3 DEF UserCall, sems, EventSend, SemaphDestroy, ThreadCreate, ThreadDestroy, SmtShutdown,
         SetFlag, CallException, DialogReturn, DialogPop, DialogUnderflow
    <3> QED BY <3>2, <3>3 DEF RestOK
  <2> QED BY <2>1, <2>3, <2>4, <2>5 DEF RestOK
<1>4. CASE Exec
  <2>1. UNCHANGED <<value, signals>> /\ live' \subseteq live
    BY <1>4 DEF sems, global, Exec, SmtExec, RequestAllThreadsShutdown, ShutdownQueue,
         ShutdownDone, PollDone, Dispatch, FetchEvent, FetchFailed, Terminate, EventOutOfRange,
         FirstList, NextList, LeaveLoop, EndOfList, CallModule, ModuleReturn, ReturnException,
         ReturnBreak, ReturnJump, ReturnPlain, Returning, Idling, WaitReturn, SemaphDestroyStep,
         QueueStep, RejectUndeclared, AcceptNull, Compare, TakeBest, NothingToDeliver,
         FinishReject, FinishNull, FinishAccept
  <2>2. UNCHANGED cur \/ Dispatch
    BY <1>4 DEF exec, Exec, SmtExec, RequestAllThreadsShutdown, ShutdownQueue,
         ShutdownDone, PollDone, FetchEvent, FetchFailed, Terminate, EventOutOfRange,
         FirstList, NextList, LeaveLoop, EndOfList, CallModule, ModuleReturn, ReturnException,
         ReturnBreak, ReturnJump, ReturnPlain, Returning, Idling, WaitReturn, SemaphDestroyStep,
         QueueStep, RejectUndeclared, AcceptNull, Compare, TakeBest, NothingToDeliver,
         FinishReject, FinishNull, FinishAccept
  <2>3. Dispatch => cur' \in Thread \cup {cur}
    BY FirstActive DEF Dispatch, IInv, Alive
  <2>4. calls' \in {0, calls}
    BY <1>4 DEF Exec, SmtExec, RequestAllThreadsShutdown, ShutdownQueue,
         ShutdownDone, PollDone, Dispatch, FetchEvent, FetchFailed, Terminate, EventOutOfRange,
         FirstList, NextList, LeaveLoop, EndOfList, CallModule, ModuleReturn, ReturnException,
         ReturnBreak, ReturnJump, ReturnPlain, Returning, Idling, WaitReturn, SemaphDestroyStep,
         QueueStep, RejectUndeclared, AcceptNull, Compare, TakeBest, NothingToDeliver,
         FinishReject, FinishNull, FinishAccept
  <2>5. shutdown_request' \in {TRUE, FALSE, shutdown_request} /\ waitfn' \in {FALSE, waitfn}
    BY <1>4 DEF global, Lookup, Exec, SmtExec, RequestAllThreadsShutdown, ShutdownQueue,
         ShutdownDone, PollDone, Dispatch, FetchEvent, FetchFailed, Terminate, EventOutOfRange,
         FirstList, NextList, LeaveLoop, EndOfList, CallModule, ModuleReturn, ReturnException,
         ReturnBreak, ReturnJump, ReturnPlain, Returning, Idling, WaitReturn, SemaphDestroyStep,
         QueueStep, RejectUndeclared, AcceptNull, Compare, TakeBest, NothingToDeliver,
         FinishReject, FinishNull, FinishAccept
  <2>6. delivered' \in {TRUE, FALSE, delivered}
    BY <1>4 DEF nested, Exec, SmtExec, RequestAllThreadsShutdown, ShutdownQueue,
         ShutdownDone, PollDone, Dispatch, FetchEvent, FetchFailed, Terminate, EventOutOfRange,
         FirstList, NextList, LeaveLoop, EndOfList, CallModule, ModuleReturn, ReturnException,
         ReturnBreak, ReturnJump, ReturnPlain, Returning, Idling, WaitReturn, SemaphDestroyStep,
         QueueStep, RejectUndeclared, AcceptNull, Compare, TakeBest, NothingToDeliver,
         FinishReject, FinishNull, FinishAccept
  <2> QED BY <1>2, <2>1, <2>2, <2>3, <2>4, <2>5, <2>6 DEF RestOK
<1>5. CASE HandleSignal
  <2>1. signals' \in 0 .. MaxSignals
    BY <1>1, <1>5 DEF HandleSignal, RestOK
  <2>2. UNCHANGED <<live, value, cur, waitfn, delivered, calls>>
        /\ shutdown_request' \in {TRUE, shutdown_request}
    BY <1>5 DEF HandleSignal, sems
  <2> QED BY <2>1, <2>2 DEF RestOK
<1>6. CASE UNCHANGED vars
  BY <1>6 DEF vars, exec, sems, global, nested, RestOK
<1> QED BY <1>3, <1>4, <1>5, <1>6 DEF Next, Finished

(* One context changes: what it has supplied is an event.                   *)
LEMMA SupplyKept ==
  ASSUME ContextsInv, SupplyOK, NEW t, NEW c, ctx' = [ctx EXCEPT ![t] = c],
         t \in Thread => c.the_next_event \in NextEvents
  PROVE  \A u \in Thread : ctx'[u].the_next_event \in NextEvents
BY DEF ContextsInv, SupplyOK

LEMMA ContextsSupplied ==
  ASSUME NEW level \in [Queue -> Nat], IInv, ContextsInv, SupplyOK, QInv(level), [Next]_vars
  PROVE  \A u \in Thread : ctx'[u].the_next_event \in NextEvents
<1> DEFINE Kept == \A u \in Thread : ctx'[u].the_next_event \in NextEvents
<1>1. {NullEvent, TermEvent, BadEvent} \subseteq NextEvents /\ Event \subseteq NextEvents
  BY DEF NextEvents
<1>2. \A t \in Thread : /\ ctx[t].the_next_event \in NextEvents
                        /\ {"LR_state", "LR_event", "LR_number", "the_next_event", "event",
                            "LR_location_stack"} \subseteq DOMAIN ctx[t]
  BY DEF SupplyOK, ContextsInv, ContextOK
<1>3. flags.the_next_event \in NextEvents /\ DOMAIN ctx = Thread
  BY DEF SupplyOK, ContextsInv
<1>4. CASE TakeBest
  <2> DEFINE e == EventAt(Top.queue, Top.best)
             T == Top.thread
             n == e.number
  <2>1. stack # <<>> /\ Top.op = "deliver" /\ Top.best # 0
        /\ ctx' = [ctx EXCEPT ![T].event = None, ![T].the_next_event = n]
    BY <1>4 DEF TakeBest, Scanning
  <2>2. Top.best \in Ids(Top.queue)
    BY <2>1, TopQueue DEF FrameSound
  <2>3. e \in EventType
    BY <2>1, <2>2, TopQueue, EventAtIs
  <2>4. n \in NextEvents
    BY <1>1, <2>3 DEF EventType
  <2> HIDE DEF n, T
  <2> QED BY <1>2, <1>3, <2>1, <2>4
<1>5. CASE FinishAccept \/ FetchFailed
  <2>1. \E t, x : ctx' = [ctx EXCEPT ![t].event = x]
    BY <1>5 DEF FinishAccept, FetchFailed
  <2> QED BY <1>2, <1>3, <2>1
<1>6. CASE OnlyThreadsChange
  <2>1. \E t : ctx' = [ctx EXCEPT ![t] = FreshCtx]
    BY <1>6 DEF OnlyThreadsChange, ThreadCreate, ThreadDestroy, Terminate, Destroy
  <2> QED BY <1>1, <2>1, SupplyKept DEF FreshCtx
<1>7. CASE CallException \/ DialogReturn \/ DialogPop
  <2> DEFINE t == running
             s == ctx[t].LR_location_stack
             l == Head(s)
             x == <<Location(t)>> \o s
             y == Tail(s)
  <2>1. \/ ctx' = [ctx EXCEPT ![t].LR_location_stack = x]
        \/ ctx' = [ctx EXCEPT ![t].LR_location_stack = y]
        \/ ctx' = [ctx EXCEPT ![t].LR_location_stack = y, ![t].LR_state = l.state,
                              ![t].LR_event = l.event, ![t].LR_number = l.number]
    BY <1>7 DEF CallException, DialogReturn, DialogPop
  <2> HIDE DEF t, l, x, y
  <2>2. CASE \/ ctx' = [ctx EXCEPT ![t].LR_location_stack = x]
             \/ ctx' = [ctx EXCEPT ![t].LR_location_stack = y]
    BY <1>2, <1>3, <2>2
  <2>3. CASE ctx' = [ctx EXCEPT ![t].LR_location_stack = y, ![t].LR_state = l.state,
                                ![t].LR_event = l.event, ![t].LR_number = l.number]
    BY <1>2, <1>3, <2>3
  <2> QED BY <2>1, <2>2, <2>3
<1>8. CASE Dispatch /\ ~UNCHANGED ctx
  <2> DEFINE t == Head(active)
  <2>1. t \in Thread /\ \E e \in InitEvents[Agt(t)] :
           ctx' = [ctx EXCEPT ![t].LR_state = FirstState, ![t].LR_event = NullEvent,
                              ![t].the_next_event = e]
    BY <1>8, FirstActive DEF Dispatch, IInv, Alive
  <2>2. InitEvents[Agt(t)] \subseteq NextEvents
    BY <2>1, KernelAssumption DEF Agt
  <2> HIDE DEF t
  <2> QED BY <1>2, <1>3, <2>1, <2>2
<1>9. ASSUME NEW t \in Thread, NEW c, Lookup(t, c), "the_next_event" \in DOMAIN c,
             c.the_next_event \in NextEvents
      PROVE  Kept
  <2> DEFINE d == [c EXCEPT !.the_next_event = NullEvent]
             e == [c EXCEPT !.event = None]
  <2>1. ctx' = [ctx EXCEPT ![t] = d] \/ ctx' = [ctx EXCEPT ![t] = e]
    BY <1>9 DEF Lookup
  <2>2. d.the_next_event \in NextEvents /\ e.the_next_event \in NextEvents
    BY <1>1, <1>9
  <2> HIDE DEF d, e
  <2> QED BY <2>1, <2>2, SupplyKept
<1>10. CASE FirstList \/ NextList \/ CallModule
  <2>1. cur \in Thread
    BY <1>10 DEF FirstList, NextList, CallModule, InLoop, HaveEvent, Here, IInv, ControlOK, Busy, Alive
  <2> DEFINE old == ctx[cur]
             n   == old.LR_number + 1
             c   == [old EXCEPT !.LR_event = old.the_next_event, !.LR_number = 0]
             d(s) == [old EXCEPT !.LR_state = s, !.LR_number = 0, !.LR_event = old.the_next_event]
             e(s) == [d(s) EXCEPT !.the_next_event = NullEvent]
  <2>2. \/ Lookup(cur, c)
        \/ \E s : ctx' = [ctx EXCEPT ![cur] = e(s)] \/ Lookup(cur, d(s))
        \/ ctx' = [ctx EXCEPT ![cur].LR_number = n]
    BY <1>10 DEF FirstList, NextList, CallModule
  <2>3. /\ "the_next_event" \in DOMAIN c /\ c.the_next_event \in NextEvents
        /\ \A s : /\ "the_next_event" \in DOMAIN d(s) /\ d(s).the_next_event \in NextEvents
                  /\ e(s).the_next_event \in NextEvents
    BY <1>1, <1>2, <2>1
  <2> HIDE DEF c, d, e, n
  <2>4. CASE ctx' = [ctx EXCEPT ![cur].LR_number = n]
    BY <1>2, <1>3, <2>4
  <2>5. CASE Lookup(cur, c)
    BY <1>9, <2>1, <2>3, <2>5
  <2>6. ASSUME NEW s, ctx' = [ctx EXCEPT ![cur] = e(s)] \/ Lookup(cur, d(s))
        PROVE  Kept
    <3>1. CASE Lookup(cur, d(s))
      BY <1>9, <2>1, <2>3, <3>1
    <3>2. CASE ctx' = [ctx EXCEPT ![cur] = e(s)]
      <4> DEFINE b == e(s)
      <4>1. b.the_next_event \in NextEvents
        BY <2>3
      <4> HIDE DEF b
      <4>2. ctx' = [ctx EXCEPT ![cur] = b]
        BY <3>2 DEF b
      <4> QED BY <4>1, <4>2, SupplyKept
    <3> QED BY <2>6, <3>1, <3>2
  <2> QED BY <2>2, <2>4, <2>5, <2>6
<1>11. CASE ModuleReturn
  <2>1. cur \in Thread
    BY <1>11, KernelAssumption DEF ModuleReturn, ReturnException, ReturnBreak, ReturnJump, ReturnPlain,
         Returning, IInv, ControlOK, Busy, Alive
  <2> DEFINE r == Returned
             b == [r EXCEPT !.LR_number = @ - 1]
             e == [r EXCEPT !.event = None]
             x == [r EXCEPT !.LR_event = flags.the_exception_event, !.LR_number = 0]
  <2>2. \E c \in {r, b, e, x} : ctx' = [ctx EXCEPT ![cur] = c] \/ Lookup(cur, c)
    <3>1. ReturnException => Lookup(cur, x)
      BY DEF ReturnException
    <3>2. ReturnBreak => ctx' = [ctx EXCEPT ![cur] = b] \/ ctx' = [ctx EXCEPT ![cur] = e]
      BY DEF ReturnBreak
    <3>3. ReturnJump \/ ReturnPlain => ctx' = [ctx EXCEPT ![cur] = r] \/ Lookup(cur, r)
      BY DEF ReturnJump, ReturnPlain
    <3> HIDE DEF r, b, e, x
    <3> QED BY <1>11, <3>1, <3>2, <3>3 DEF ModuleReturn
  <2>3. \A c \in {r, b, e, x} : "the_next_event" \in DOMAIN c /\ c.the_next_event \in NextEvents
    <3>1. "the_next_event" \in DOMAIN r /\ r.the_next_event \in NextEvents
      BY <1>2, <1>3, <2>1 DEF Returned
    <3> HIDE DEF r
    <3> QED BY <3>1
  <2> HIDE DEF r, b, e, x
  <2> QED BY <1>9, <2>1, <2>2, <2>3, SupplyKept
<1>12. CASE UNCHANGED ctx
  BY <1>2, <1>12
<1>13. \/ UNCHANGED ctx
       \/ TakeBest \/ FinishAccept \/ FetchFailed \/ OnlyThreadsChange
       \/ CallException \/ DialogReturn \/ DialogPop
       \/ FirstList \/ NextList \/ CallModule \/ ModuleReturn
       \/ (Dispatch /\ ~UNCHANGED ctx)
  BY DEF OnlyThreadsChange, Next, Finished, HandleSignal, vars, UserCall, EventSend, SemaphCreate,
         SemaphWait, SemaphSignal, SemaphDestroy, SmtShutdown, SetFlag,
         DialogUnderflow, Exec, SmtExec, RequestAllThreadsShutdown, ShutdownQueue,
         ShutdownDone, PollDone, FetchEvent, EventOutOfRange,
         LeaveLoop, EndOfList, Idling, WaitReturn, SemaphDestroyStep,
         QueueStep, RejectUndeclared, AcceptNull, Compare, NothingToDeliver,
         FinishReject, FinishNull
<1> QED BY <1>4, <1>5, <1>6, <1>7, <1>8, <1>10, <1>11, <1>12, <1>13

LEMMA FlagsSupplied ==
  ASSUME IInv, ContextsInv, SupplyOK, [Next]_vars
  PROVE  flags'.the_next_event \in NextEvents
<1>1. /\ {"the_exception_event", "the_next_event", "exception_raised", "break_wanted",
          "break_semaph", "dialog_jump"} \subseteq DOMAIN flags
      /\ flags.the_next_event \in NextEvents
      /\ NullEvent \in NextEvents
  BY DEF ContextsInv, IInv, FlagsOK, SupplyOK, NextEvents
<1>2. CASE FlagCall
  <2>1. Agt(running) \in Agent
    BY <1>2, KernelAssumption DEF FlagCall, InModule, IInv, ControlOK, Busy, Alive, Agt
  <2>2. Choices[Agt(running)] \subseteq NextEvents
    BY <2>1, KernelAssumption
  <2> QED BY <1>1, <1>2, <2>2 DEF FlagCall
<1>3. CASE CallModule
  <2> DEFINE c == ctx[cur]
             a == Agt(cur)
             se == <<c.LR_state, c.LR_event>>
             n == Supplied(cur, c)
  <2>1. cur \in Thread /\ c.LR_number < Modules(cur, c) /\ c.LR_number \in Nat
        /\ c.the_next_event \in NextEvents /\ flags' = [flags EXCEPT !.the_next_event = n]
    BY <1>3 DEF CallModule, InLoop, Here, IInv, ControlOK, Busy, Alive, ContextsInv, ContextOK, SupplyOK
  <2>2. Accepts(cur, c)
    <3> HIDE DEF c
    <3>1. ~Accepts(cur, c) => Modules(cur, c) = 0
      BY DEF Modules
    <3> QED BY <2>1, <3>1
  <2>3. Dialog[a][se].supply \in NextEvents
    <3>1. a \in Agent /\ se \in DOMAIN Dialog[a]
      BY <2>1, <2>2, KernelAssumption DEF Accepts, Agt
    <3> HIDE DEF a, se
    <3> QED BY <3>1, KernelAssumption
  <2>4. n \in {Dialog[a][se].supply, c.the_next_event}
    BY DEF Supplied
  <2> HIDE DEF n, c, a, se
  <2> QED BY <1>1, <2>1, <2>3, <2>4
<1>4. CASE ModuleReturn
  BY <1>1, <1>4 DEF ModuleReturn, ReturnException, ReturnBreak, ReturnJump, ReturnPlain
<1>5. CASE (\E s \in Semaph : SemaphWait(s)) \/ DialogReturn \/ CallException \/ SmtExec
  BY <1>1, <1>5 DEF SemaphWait, DialogReturn, CallException, SmtExec
<1>6. CASE UNCHANGED flags
  BY <1>1, <1>6
<1>7. CASE Exec
  <2>1. UNCHANGED flags \/ SmtExec \/ CallModule \/ ModuleReturn
    BY <1>7 DEF Exec, exec, RequestAllThreadsShutdown, ShutdownQueue, ShutdownDone, PollDone, Dispatch,
           FetchEvent, FetchFailed, Terminate, EventOutOfRange,
           FirstList, NextList, LeaveLoop, EndOfList, Idling, WaitReturn, SemaphDestroyStep,
           QueueStep, RejectUndeclared, AcceptNull, Compare, TakeBest, NothingToDeliver,
           FinishReject, FinishNull, FinishAccept
  <2> QED BY <1>3, <1>4, <1>5, <1>6, <2>1
<1>8. CASE UserCall
  <2>1. \/ UNCHANGED flags \/ FlagCall \/ CallException \/ DialogReturn
        \/ \E s \in Semaph : SemaphWait(s)
    BY <1>8 DEF UserCall, exec, EventSend, SemaphCreate, SemaphSignal, SemaphDestroy, ThreadCreate,
           ThreadDestroy, SmtShutdown, SetFlag, DialogPop, DialogUnderflow
  <2> QED BY <1>2, <1>5, <1>6, <2>1
<1>9. CASE HandleSignal \/ UNCHANGED vars
  BY <1>6, <1>9 DEF HandleSignal, vars, exec
<1> QED BY <1>7, <1>8, <1>9 DEF Next, Finished

LEMMA InitRest == Init => RestOK /\ SupplyOK
<1> SUFFICES ASSUME Init PROVE RestOK /\ SupplyOK
  OBVIOUS
<1>1. MaxCalls \in Nat /\ MaxSignals \in Nat /\ WaitFn \in BOOLEAN
  BY KernelAssumption
<1>2. /\ live = {} /\ value = [s \in Semaph |-> 0] /\ cur = None /\ shutdown_request = FALSE
      /\ waitfn = WaitFn /\ signals = 0 /\ delivered = FALSE /\ calls = 0
  BY DEF Init
<1>3. RestOK
  <2>1. value \in [Semaph -> Nat] /\ live \in SUBSET Semaph
    BY <1>2
  <2>2. signals \in 0 .. MaxSignals /\ calls \in 0 .. MaxCalls
    BY <1>1, <1>2
  <2>3. cur \in Thread \cup {None} /\ shutdown_request \in BOOLEAN /\ waitfn \in BOOLEAN
        /\ delivered \in BOOLEAN
    BY <1>1, <1>2
  <2> QED BY <2>1, <2>2, <2>3 DEF RestOK
<1>4. SupplyOK
  BY DEF Init, SupplyOK, FreshCtx, NoFlags, NextEvents
<1> QED BY <1>3, <1>4

(* What the invariants say of the queues.                                   *)
LEMMA QueuesTyped ==
  ASSUME NEW level \in [Queue -> Nat], QInv(level), NEW q \in Queue
  PROVE  /\ queue[q].status \in {"none", "open", "closed"}
         /\ Members(queue[q].events) \subseteq EventRecord
         /\ queue[q].cur_events \in Nat
         /\ queue[q].timed_events \in Nat
         /\ tally \in Nat
<1> DEFINE s == queue[q].events
<1>1. tally \in Nat /\ queue[q] \in QueueType /\ QueueSound(queue[q], level, level[q], tally)
  BY DEF QInv, QueuesOK
<1>2. s \in Seq(EventType) /\ queue[q].status \in {"none", "open", "closed"}
      /\ queue[q].cur_events = Len(s) /\ queue[q].timed_events \in Int
  BY <1>1 DEF QueueType, QueueSound
<1>3. 0 <= queue[q].timed_events
  <2>1. IsFiniteSet(TimedIds(s)) /\ Cardinality(TimedIds(s)) <= queue[q].timed_events
    BY <1>1 DEF QueueSound
  <2> QED BY <1>2, <2>1, FS_CardinalityType
<1>4. Members(s) \subseteq EventRecord
  <2>1. ASSUME NEW i \in DOMAIN s
        PROVE  s[i] \in EventRecord
    <3>1. s[i] \in EventType
      BY <1>2
    <3>2. s[i].id \in 1 .. tally
      BY <1>1 DEF QueueSound, IdsOf
    <3> HIDE DEF s
    <3> QED BY <3>1, <3>2 DEF EventType, EventRecord
  <2> QED BY <2>1 DEF Members
<1> QED BY <1>1, <1>2, <1>3, <1>4

(* Every variable is of its type, whatever is sent where, as long as        *)
(* requests for replies go up.                                              *)
THEOREM TypesKept ==
  ASSUME NEW level \in [Queue -> Nat], RequestsGoUp(level)
  PROVE  Spec => []TypeOK
<1>1. Init => RestOK /\ SupplyOK
  BY InitRest
<1>2. IInv /\ ContextsInv /\ QInv(level) /\ RestOK /\ SupplyOK /\ [Next]_vars => (RestOK /\ SupplyOK)'
  <2> SUFFICES ASSUME IInv, ContextsInv, QInv(level), RestOK, SupplyOK, [Next]_vars
               PROVE  RestOK' /\ SupplyOK'
    OBVIOUS
  <2>1. RestOK'
    BY RestStep
  <2>2. SupplyOK'
    BY ContextsSupplied, FlagsSupplied DEF SupplyOK
  <2> QED BY <2>1, <2>2
<1>3. IInv /\ ContextsInv /\ QInv(level) /\ RestOK /\ SupplyOK => TypeOK
  <2> SUFFICES ASSUME IInv, ContextsInv, QInv(level), RestOK, SupplyOK
               PROVE  TypeOK
    OBVIOUS
  <2>1. \A t \in Thread : /\ ctx[t].LR_state \in State \cup {NullState}
                          /\ ctx[t].LR_event \in Event \cup {NullEvent}
                          /\ ctx[t].LR_number \in Nat
                          /\ ctx[t].the_next_event \in NextEvents
    BY DEF ContextsInv, ContextOK, SupplyOK
  <2>2. tally \in Nat
    BY DEF QInv, QueuesOK
  <2>3. /\ active \in Seq(Thread) /\ waiting \in Seq(Thread) /\ waiters \in [Semaph -> Seq(Thread)]
        /\ state \in [Thread -> {"none", "active", "passive", "wait_event", "wait_semaph", "dead"}]
        /\ threads \in [Queue -> Seq(Thread)] /\ running \in {cur, None}
    BY DEF IInv, ListsInv, ListsType, States, ThreadsOK, ControlOK
  <2> QED BY <2>1, <2>2, <2>3, QueuesTyped DEF TypeOK, RestOK
<1>4. Spec => []IInv
  BY Invariance
<1>5. Spec => []ContextsInv
  BY ContextsInvariance
<1>6. Spec => []QInv(level)
  BY QueuesInvariance, PTL
<1> QED BY <1>1, <1>2, <1>3, <1>4, <1>5, <1>6, PTL DEF Spec

-----------------------------------------------------------------------------
(* The order of delivery.                                                   *)

(* The event b goes before the event e of the same queue q.                 *)
Precedes(q, b, e) ==
  Rank(q, b) > Rank(q, e) \/ (Rank(q, b) = Rank(q, e) /\ b.id < e.id)

(* No two queues hold an event of one identity.                             *)
IdsApart(qs) ==
  \A p, q \in Queue : p # q => IdsOf(qs[p].events) \cap IdsOf(qs[q].events) = {}

(* An event keeps no priority but that of its method.                       *)
Ranked(qs) ==
  \A q \in Queue : \A e \in Members(qs[q].events) : e.priority \in {0, Rank(q, e)}

(* The events an activation f has compared: those before the place it has   *)
(* come to, but the one it is refusing.                                     *)
Seen(f, id) ==
  /\ f.at = 0 \/ id < f.at
  /\ f.stage \in {"reject", "null"} => id # f.victim

(* Over the list s, `best' goes before everything f has compared.           *)
ChoiceSound(f, s) ==
  /\ \A e \in Members(s) : Seen(f, e.id) => e.priority = Rank(f.queue, e)
  /\ \A b, e \in Members(s) :
       b.id = f.best /\ Seen(f, e.id) /\ e # b => Precedes(f.queue, b, e)
  /\ f.stage = "accept" => f.at = 0 /\ f.victim = f.best

OrderSound(st, qs) ==
  /\ IdsApart(qs)
  /\ Ranked(qs)
  /\ \A i \in DOMAIN st : st[i].op = "deliver" => ChoiceSound(st[i], qs[st[i].queue].events)

(* An activation that has compared no more events than before, and whose    *)
(* best is the same, is still sound.                                        *)
LEMMA SeenLess ==
  ASSUME NEW g, NEW s, ChoiceSound(g, s), NEW f, NEW u, Members(u) \subseteq Members(s),
         f.queue = g.queue, f.best = g.best,
         \A e \in Members(u) : Seen(f, e.id) => Seen(g, e.id),
         f.stage = "accept" => f.at = 0 /\ f.victim = f.best
  PROVE  ChoiceSound(f, u)
BY DEF ChoiceSound

(* What event_send does when it queues an event: a younger one comes last,  *)
(* unranked, and one activation may be stacked for the queue.               *)
Added(qs, q) ==
  /\ tally' = tally + 1
  /\ \A p \in Queue : p # q => queue'[p].events = qs[p].events
  /\ \E e \in EventType : /\ e.id = tally + 1 /\ e.priority = 0
                          /\ queue'[q].events = Append(qs[q].events, e)

StackedFor(q, rest) ==
  \/ stack' = rest
  \/ \E f : /\ stack' = Append(rest, f) /\ f.queue = q /\ f.stage = "scan" /\ f.victim = 0
           /\ f.at = Head(queue'[q].events).id

LEMMA PostAdds ==
  ASSUME NEW level \in [Queue -> Nat], NEW qs, QueuesOK(qs, level, tally),
         NEW m, m.to \in Queue => m \in Message, NEW rest, Post(qs, m, rest), Sendable(qs, m)
  PROVE  m.to \in Queue /\ Added(qs, m.to) /\ StackedFor(m.to, rest)
<1> DEFINE q == m.to
           e == [id |-> tally + 1, name |-> m.name, sender |-> m.from,
                 accept |-> IF m.from = None THEN None ELSE m.accept,
                 reject |-> IF m.from = None THEN None ELSE m.reject,
                 timed |-> m.timed, priority |-> 0, number |-> NullEvent]
           a == Append(qs[q].events, e)
           c == qs[q].cur_events + 1
           d == IF m.timed THEN qs[q].timed_events + 1 ELSE qs[q].timed_events
<1>1. q \in Queue /\ m \in Message
  BY DEF Sendable
<1>2. tally \in Nat /\ qs \in [Queue -> QueueType] /\ qs[q] \in QueueType
  BY <1>1 DEF QueuesOK
<1>3. e \in EventType /\ e.id = tally + 1 /\ e.priority = 0
  BY <1>1, <1>2 DEF EventType, Message
<1>4. /\ tally' = tally + 1
      /\ queue' = [qs EXCEPT ![q].events = a, ![q].cur_events = c, ![q].timed_events = d]
  BY DEF Post
<1>5. StackedFor(q, rest)
  <2> DEFINE first == Head(queue'[q].events).id
             f(t)  == [DeliverFrame(q, t, TRUE) EXCEPT !.at = first]
  <2>1. stack' = rest \/ \E t : stack' = Append(rest, f(t))
    BY DEF Post
  <2> HIDE DEF first
  <2>2. ASSUME NEW t
        PROVE  f(t).queue = q /\ f(t).stage = "scan" /\ f(t).victim = 0 /\ f(t).at = first
    <3>1. f(t) = [op |-> "deliver", queue |-> q, thread |-> t, wake |-> TRUE,
                  stage |-> "scan", at |-> first, best |-> 0, victim |-> 0]
      BY ONLY FrameAt
    <3> HIDE DEF f
    <3> QED BY <3>1
  <2> HIDE DEF f
  <2> QED BY <2>1, <2>2 DEF StackedFor, first
<1> HIDE DEF q, e, c, d
<1> DEFINE list == a
<1> HIDE DEF list
<1>6. queue' = [qs EXCEPT ![q].events = list, ![q].cur_events = c, ![q].timed_events = d]
  BY <1>4 DEF list
<1>7. queue'[q].events = list /\ \A p \in Queue : p # q => queue'[p].events = qs[p].events
  BY <1>1, <1>2, <1>6 DEF QueueType
<1>8. Added(qs, q)
  BY <1>3, <1>4, <1>7 DEF Added, list
<1> QED BY <1>1, <1>5, <1>8 DEF q

(* A new event is behind everything the activations have compared.          *)
LEMMA PostOrder ==
  ASSUME NEW level \in [Queue -> Nat], NEW qs, QueuesOK(qs, level, tally),
         NEW m, m.to \in Queue => m \in Message,
         NEW rest, StackSound(rest, qs, level), OrderSound(rest, qs),
         \A i \in DOMAIN rest :
           m.to \in Queue /\ rest[i].op = "deliver" => level[m.to] < level[rest[i].queue],
         Post(qs, m, rest)
  PROVE  OrderSound(stack', queue')
<1>1. CASE ~Sendable(qs, m)
  BY <1>1 DEF Post
<1>2. CASE Sendable(qs, m)
  <2> DEFINE q == m.to
             s == qs[q].events
             a == queue'[q].events
  <2>0. q \in Queue /\ Added(qs, q) /\ StackedFor(q, rest)
    BY <1>2, PostAdds
  <2> HIDE DEF q
  <2>1. /\ q \in Queue /\ tally' = tally + 1
        /\ \A p \in Queue : p # q => queue'[p].events = qs[p].events
    BY <2>0 DEF Added
  <2>1a. PICK e \in EventType : e.id = tally + 1 /\ e.priority = 0 /\ a = Append(s, e)
    BY <2>0 DEF Added
  <2>2. /\ tally \in Nat /\ s \in Seq(EventType) /\ Increasing(s)
        /\ \A p \in Queue : IdsOf(qs[p].events) \subseteq 1 .. tally
    BY <2>1 DEF QueuesOK, QueueSound, QueueType
  <2>3. /\ a \in Seq(EventType) /\ Increasing(a) /\ Members(a) = Members(s) \cup {e}
        /\ IdsOf(a) = IdsOf(s) \cup {e.id} /\ a # <<>>
    <3>1. \A x \in IdsOf(s) : x < e.id
      <4>1. IdsOf(s) \subseteq 1 .. tally /\ e.id = tally + 1 /\ tally \in Nat
        BY <2>1, <2>1a, <2>2
      <4> QED BY ONLY <4>1
    <3>2. s \in Seq(EventType) /\ Increasing(s) /\ a = Append(s, e)
      BY <2>1a, <2>2
    <3> HIDE DEF a, s
    <3>3. a \in Seq(EventType) /\ Increasing(a) /\ Members(a) = Members(s) \cup {e}
          /\ IdsOf(a) = IdsOf(s) \cup {e.id} /\ Len(a) = Len(s) + 1
      BY <3>1, <3>2, AppendEvent
    <3> QED BY <3>2, <3>3
  <2> HIDE DEF a, s
  <2>4. IdsApart(queue')
    <3> SUFFICES ASSUME NEW p \in Queue, NEW r \in Queue, p # r, NEW x,
                        x \in IdsOf(queue'[p].events), x \in IdsOf(queue'[r].events)
                 PROVE  FALSE
      BY DEF IdsApart
    <3>1. \A o \in Queue : IdsOf(qs[o].events) \subseteq 1 .. tally /\ e.id \notin 1 .. tally
      BY <2>1a, <2>2
    <3>2. \A o \in Queue : IdsOf(queue'[o].events)
                             = IF o = q THEN IdsOf(qs[o].events) \cup {e.id} ELSE IdsOf(qs[o].events)
      BY <2>1, <2>3 DEF a, s
    <3>3. x \notin IdsOf(qs[p].events) \cap IdsOf(qs[r].events)
      BY DEF OrderSound, IdsApart
    <3> QED BY <3>1, <3>2, <3>3
  <2>5. Ranked(queue')
    <3> SUFFICES ASSUME NEW p \in Queue, NEW f \in Members(queue'[p].events)
                 PROVE  f.priority \in {0, Rank(p, f)}
      BY DEF Ranked
    <3>1. f = e \/ f \in Members(qs[p].events)
      BY <2>1, <2>3 DEF a, s
    <3> QED BY <2>1a, <3>1 DEF OrderSound, Ranked
  <2>6. ASSUME NEW i \in DOMAIN rest, rest[i].op = "deliver"
        PROVE  ChoiceSound(rest[i], queue'[rest[i].queue].events)
    <3>1. rest[i] \in FrameType
      BY DEF StackSound
    <3>2. rest[i].queue \in Queue
      BY <2>6, <3>1, FrameKinds DEF DeliverType
    <3>3. rest[i].queue # q
      BY <2>1, <2>6, <3>2 DEF q
    <3> QED BY <2>1, <2>6, <3>2, <3>3 DEF OrderSound
  <2>7. CASE stack' = rest
    BY <2>4, <2>5, <2>6, <2>7 DEF OrderSound
  <2>8. CASE stack' # rest
    <3>1. PICK f : /\ stack' = Append(rest, f) /\ f.queue = q /\ f.at = Head(a).id
                   /\ f.stage = "scan"
      BY <2>0, <2>8 DEF StackedFor, a
    <3>2. \A x \in IdsOf(a) : x \in Nat /\ x # 0 /\ Head(a).id <= x
      <4>1. \A x \in IdsOf(a) : x \in Nat /\ x # 0
        <5>1. IdsOf(s) \subseteq 1 .. tally /\ e.id = tally + 1 /\ tally \in Nat
          BY <2>1, <2>1a, <2>2 DEF s
        <5>2. IdsOf(a) = IdsOf(s) \cup {e.id}
          BY <2>3
        <5> QED BY ONLY <5>1, <5>2
      <4> QED BY <2>3, <4>1, HeadIsOldest
    <3>3. Head(a).id \in IdsOf(a)
      BY <2>3, HeadIsOldest
    <3>4. \A g \in Members(a) : ~Seen(f, g.id)
      <4>1. \A g \in Members(a) : g.id \in IdsOf(a)
        BY <2>3, IdIsUnique
      <4> QED BY <3>1, <3>2, <3>3, <4>1 DEF Seen
    <3>5. ChoiceSound(f, queue'[f.queue].events)
      BY <3>1, <3>4 DEF ChoiceSound, a
    <3>6. rest \in Seq(FrameType)
      BY DEF StackSound
    <3>7. \A i \in DOMAIN stack' : stack'[i] = f \/ (i \in DOMAIN rest /\ stack'[i] = rest[i])
      BY <3>1, <3>6
    <3> QED BY <2>4, <2>5, <2>6, <3>5, <3>7 DEF OrderSound
  <2> QED BY <2>7, <2>8
<1> QED BY <1>1, <1>2

(* The top activation goes on as f, having changed its own queue at most.   *)
LEMMA OrderGoesOn ==
  ASSUME NEW level \in [Queue -> Nat], NEW st, NEW qs, StackSound(st, qs, level),
         OrderSound(st, qs), st # <<>>, st[Len(st)].op = "deliver",
         NEW f, f.queue = st[Len(st)].queue,
         NEW rs, \A p \in Queue : p # f.queue => rs[p].events = qs[p].events,
         IdsApart(rs), Ranked(rs), ChoiceSound(f, rs[f.queue].events)
  PROVE  OrderSound([st EXCEPT ![Len(st)] = f], rs)
<1> DEFINE n == Len(st)
           s == [st EXCEPT ![n] = f]
<1>1. n \in DOMAIN st /\ DOMAIN s = DOMAIN st /\ st \in Seq(FrameType)
      /\ \A i \in DOMAIN st : s[i] = IF i = n THEN f ELSE st[i]
  BY DEF StackSound
<1> HIDE DEF n, s
<1>2. ASSUME NEW i \in DOMAIN st, i # n, st[i].op = "deliver"
      PROVE  ChoiceSound(st[i], rs[st[i].queue].events)
  <2>1. st[i] \in FrameType
    BY <1>1
  <2>2. st[i].queue \in Queue
    BY <1>2, <2>1, FrameKinds DEF DeliverType
  <2>3. st[i].queue # f.queue
    BY <1>2, OtherQueues DEF n
  <2> QED BY <1>2, <2>2, <2>3 DEF OrderSound
<1> QED BY <1>1, <1>2 DEF OrderSound, n, s

(* It returns.                                                              *)
LEMMA OrderReturns ==
  ASSUME NEW level \in [Queue -> Nat], NEW st, NEW qs, StackSound(st, qs, level),
         OrderSound(st, qs), st # <<>>,
         NEW rs, \A p \in Queue :
                   (st[Len(st)].op = "deliver" => p # st[Len(st)].queue) => rs[p].events = qs[p].events,
         IdsApart(rs), Ranked(rs)
  PROVE  OrderSound(SubSeq(st, 1, Len(st) - 1), rs)
<1> DEFINE n == Len(st)
           s == SubSeq(st, 1, n - 1)
<1>1. n \in Nat /\ DOMAIN st = 1 .. n /\ n # 0 /\ st \in Seq(FrameType)
  BY DEF StackSound
<1>2. DOMAIN s = 1 .. n - 1 /\ \A i \in 1 .. n - 1 : s[i] = st[i]
  <2>1. \A i \in 1 .. n - 1 : st[i] \in FrameType
    BY <1>1
  <2> QED BY <1>1, <2>1, SubSeqProperties
<1>2a. n \in Nat /\ n # 0
  BY <1>1
<1> HIDE DEF n, s
<1>3. \A i \in DOMAIN s : i \in DOMAIN st /\ i # n /\ s[i] = st[i]
  BY <1>1, <1>2
<1>4. ASSUME NEW i \in DOMAIN s, s[i].op = "deliver"
      PROVE  ChoiceSound(s[i], rs[s[i].queue].events)
  <2>1. i \in DOMAIN st /\ i # n /\ s[i] = st[i] /\ st[i] \in FrameType
    BY <1>1, <1>3
  <2>2. st[i].queue \in Queue
    BY <1>4, <2>1, FrameKinds DEF DeliverType
  <2>3. st[n].op = "deliver" => st[i].queue # st[n].queue
    BY <1>4, <2>1, OtherQueues DEF n
  <2> QED BY <1>4, <2>1, <2>2, <2>3 DEF OrderSound, n
<1> QED BY <1>4 DEF OrderSound, n, s

(* Queues that only lose events stay apart and ranked.                      *)
LEMMA FewerEvents ==
  ASSUME NEW qs, NEW rs, IdsApart(qs), Ranked(qs),
         \A q \in Queue : Members(rs[q].events) \subseteq Members(qs[q].events)
  PROVE  IdsApart(rs) /\ Ranked(rs)
<1>1. \A q \in Queue : IdsOf(rs[q].events) \subseteq IdsOf(qs[q].events)
  <2>1. \A r : IdsOf(r) = {e.id : e \in Members(r)}
    BY DEF IdsOf, Members
  <2> QED BY <2>1
<1> QED BY <1>1 DEF IdsApart, Ranked

OrderInv == OrderSound(stack, queue)

(* A reply is sent for the event the activation refuses, or for its best.   *)
LEMMA RepliesOrder ==
  ASSUME NEW level \in [Queue -> Nat], QInv(level), OrderInv, stack # <<>>, Top.op = "deliver",
         NEW f, NEW reply, Replies(f, reply)
  PROVE  OrderInv'
<1>1. PICK m : /\ Post(queue, m, SetTop(f))
               /\ m.from = None /\ (m.to \in Queue => m \in Message)
               /\ StackSound(SetTop(f), queue, level)
               /\ SetTop(f) # <<>> /\ Waits(SetTop(f)[Len(SetTop(f))])
               /\ \A i \in DOMAIN SetTop(f) :
                    m.to \in Queue /\ SetTop(f)[i].op = "deliver"
                      => level[m.to] < level[SetTop(f)[i].queue]
  BY ReplyGoesDown
<1>2. QueuesOK(queue, level, tally) /\ StackSound(stack, queue, level)
  BY DEF QInv
<1> DEFINE s == queue[Top.queue].events
<1>3. /\ s \in Seq(EventType) /\ Increasing(s) /\ Top \in DeliverType
      /\ IdsOf(s) = Ids(Top.queue) /\ \A x \in Ids(Top.queue) : x \in Nat /\ x # 0
      /\ FrameSound(Top, s)
  BY TopQueue
<1>4. ChoiceSound(Top, s)
  <2>1. Len(stack) \in DOMAIN stack
    BY <1>2 DEF StackSound
  <2> QED BY <2>1 DEF OrderInv, OrderSound, Top
<1>5. /\ f.queue = Top.queue /\ f.best = Top.best /\ Top.stage = "scan"
      /\ \/ f.stage = "accept" /\ Top.at = 0 /\ f.at = 0 /\ f.victim = f.best
         \/ /\ f.stage \in {"reject", "null"} /\ Top.at # 0 /\ f.victim = Top.at
            /\ f.at = IdAfter(Top.queue, Top.at)
  BY DEF Replies
<1> HIDE DEF s
<1>6. ASSUME NEW e \in Members(s), Seen(f, e.id)
      PROVE  Seen(Top, e.id)
  <2>1. e.id \in Ids(Top.queue) /\ e.id \in Nat
    BY <1>3, IdIsUnique
  <2>2. CASE f.stage = "accept"
    BY <1>5, <2>2 DEF Seen
  <2>3. CASE f.stage # "accept"
    <3>1. Top.at # 0 /\ Top.at \in Nat /\ f.victim = Top.at /\ f.at = IdAfter(Top.queue, Top.at)
          /\ f.stage \in {"reject", "null"}
      BY <1>3, <1>5, <2>3 DEF DeliverType
    <3>2. /\ f.at \in Nat
          /\ \A x \in Ids(Top.queue) : Top.at < x => f.at # 0 /\ f.at <= x
      BY <1>3, <3>1, IdAfterIs DEF s
    <3>3. e.id # Top.at /\ (f.at = 0 \/ e.id < f.at)
      BY <1>6, <3>1 DEF Seen
    <3>4. e.id < Top.at
      BY <2>1, <3>1, <3>2, <3>3
    <3> QED BY <1>5, <3>4 DEF Seen
  <2> QED BY <2>2, <2>3
<1>7. ChoiceSound(f, s)
  BY <1>4, <1>5, <1>6, SeenLess
<1>8. OrderSound(SetTop(f), queue)
  <2>1. IdsApart(queue) /\ Ranked(queue) /\ OrderSound(stack, queue)
    BY DEF OrderInv, OrderSound
  <2>2. f.queue = stack[Len(stack)].queue /\ stack[Len(stack)].op = "deliver"
    BY <1>5 DEF Top
  <2>3. ChoiceSound(f, queue[f.queue].events)
    BY <1>5, <1>7 DEF s
  <2> QED BY <1>2, <2>1, <2>2, <2>3, OrderGoesOn DEF SetTop
<1> DEFINE st == SetTop(f)
<1> HIDE DEF st
<1>9. OrderSound(stack', queue')
  BY <1>1, <1>2, <1>8, PostOrder DEF st
<1> QED BY <1>9 DEF OrderInv

(* The event r takes the place of another one.                              *)
LEMMA MarkMembers ==
  ASSUME NEW s \in Seq(EventType), Increasing(s), NEW i \in DOMAIN s, NEW r
  PROVE  Members([s EXCEPT ![i] = r]) = (Members(s) \ {s[i]}) \cup {r}
<1> DEFINE m == [s EXCEPT ![i] = r]
<1>1. NoDuplicates(s)
  BY IdIsUnique
<1>2. DOMAIN m = DOMAIN s /\ \A j \in DOMAIN s : m[j] = IF j = i THEN r ELSE s[j]
  OBVIOUS
<1> HIDE DEF m
<1>3. \A j \in DOMAIN s : j # i => s[j] # s[i]
  BY <1>1 DEF NoDuplicates
<1>4. Members(m) = (Members(s) \ {s[i]}) \cup {r}
  BY <1>2, <1>3 DEF Members
<1> QED BY <1>4 DEF m

(* The scan compares the event it has come to with the best one: the new    *)
(* best one goes before everything compared.                                *)
LEMMA CompareOrder ==
  ASSUME NEW level \in [Queue -> Nat], QInv(level), OrderInv, NEW e, Compare(e)
  PROVE  OrderInv'
<1> DEFINE q == Top.queue
           s == queue[q].events
           next == IdAfter(q, e.id)
           m == MethodsOf(q)[e.name]
           r == IF e.priority = 0
                  THEN [e EXCEPT !.priority = m.priority, !.number = m.event] ELSE e
           i == PlaceOf(s, e)
           b0 == EventAt(q, Top.best)
           wins == Top.best = 0 \/ r.priority > b0.priority
           best == IF wins THEN e.id ELSE Top.best
           f == [Top EXCEPT !.at = next, !.best = best]
           a == [s EXCEPT ![i] = r]
<1>1. /\ stack # <<>> /\ Top.op = "deliver" /\ Top.stage = "scan" /\ Top.at # 0
      /\ e = EventAt(q, Top.at)
      /\ e.priority = 0 => e.name \in DOMAIN MethodsOf(q)
      /\ queue' = [queue EXCEPT ![q].events[i] = r]
  BY DEF Compare, Looking, Scanning
<1>2. stack' = SetTop(f)
  <2> HIDE DEF wins
  <2>1. stack' = SetTop([Top EXCEPT !.at = next, !.best = IF wins THEN e.id ELSE @])
    BY DEF Compare, wins
  <2> QED BY <2>1
<1>3. /\ Top \in DeliverType /\ q \in Queue /\ queue \in [Queue -> QueueType]
      /\ FrameSound(Top, s) /\ queue[q] \in QueueType
      /\ s \in Seq(EventType) /\ Increasing(s) /\ IdsOf(s) = Ids(q)
      /\ \A x \in Ids(q) : x \in Nat /\ x # 0
  BY <1>1, TopQueue
<1>4. /\ Top.at \in Ids(q) /\ Top.at \in Nat /\ Top.best \in Nat /\ Top.best < Top.at
      /\ Top.victim = 0 /\ {Top.best} \ {0} \subseteq Ids(q)
      /\ Top.best = 0 => \A x \in Ids(q) : Top.at <= x
  BY <1>1, <1>3 DEF FrameSound, DeliverType
<1>5. e.id = Top.at /\ e \in Members(s) /\ e \in EventType /\ e.priority \in Nat
  <2>1. e.id = Top.at /\ e \in Members(s) /\ e \in EventType
    BY <1>1, <1>3, <1>4, EventAtIs
  <2> QED BY <2>1 DEF EventType
<1>6. \A x \in Ids(q) : e.id < x => next # 0 /\ next <= x
  BY <1>3, <1>4, <1>5, IdAfterIs
<1>7. QueuesOK(queue, level, tally) /\ StackSound(stack, queue, level) /\ OrderSound(stack, queue)
      /\ IdsApart(queue) /\ Ranked(queue) /\ ChoiceSound(Top, s)
  <2>1. QueuesOK(queue, level, tally) /\ StackSound(stack, queue, level) /\ OrderSound(stack, queue)
    BY DEF QInv, OrderInv
  <2>2. Len(stack) \in DOMAIN stack
    BY <1>1, <2>1 DEF StackSound
  <2> QED BY <1>1, <2>1, <2>2 DEF OrderSound, Top
<1>8. r.id = e.id /\ r.priority = Rank(q, e) /\ Rank(q, r) = Rank(q, e) /\ r.priority \in Nat
  <2>1. CASE e.priority = 0
    <3>1. m.priority \in Nat /\ m.priority = Rank(q, e)
      BY <1>1, <1>3, <2>1, KernelAssumption DEF MethodsOf, Rank
    <3> HIDE DEF m
    <3>2. r = [e EXCEPT !.priority = m.priority, !.number = m.event]
      BY <2>1
    <3>3. r.id = e.id /\ r.name = e.name /\ r.priority = m.priority
      BY <1>5, <3>2 DEF EventType
    <3> QED BY <3>1, <3>3 DEF Rank
  <2>2. CASE e.priority # 0
    <3>1. r = e
      BY <2>2
    <3>2. e.priority = Rank(q, e)
      BY <1>3, <1>5, <1>7, <2>2 DEF Ranked
    <3> QED BY <1>5, <3>1, <3>2
  <2> QED BY <2>1, <2>2
<1>9. Members(a) = (Members(s) \ {e}) \cup {r}
  <2>1. s \in Seq(EventType) /\ Increasing(s) /\ i \in DOMAIN s /\ s[i] = e
    BY <1>3, <1>5, PlaceOfMember
  <2> HIDE DEF s, r, i
  <2>2. Members(a) = (Members(s) \ {s[i]}) \cup {r}
    BY ONLY <2>1, MarkMembers
  <2> QED BY <2>1, <2>2
<1> HIDE DEF r, i
<1>10. queue'[q].events = a /\ \A p \in Queue : p # q => queue'[p].events = queue[p].events
  <2> DEFINE t == a
  <2>1. queue' = [queue EXCEPT ![q].events = t]
    BY <1>1
  <2> HIDE DEF t, q
  <2>2. queue'[q].events = t /\ \A p \in Queue : p # q => queue'[p].events = queue[p].events
    BY <1>3, <2>1 DEF QueueType
  <2> QED BY <2>2 DEF t
<1> HIDE DEF a
<1>11. IdsApart(queue') /\ Ranked(queue')
  <2>1. IdsOf(a) = IdsOf(s)
    <3>1. \A l : IdsOf(l) = {g.id : g \in Members(l)}
      BY DEF IdsOf, Members
    <3>2. IdsOf(a) = {g.id : g \in Members(a)} /\ IdsOf(s) = {g.id : g \in Members(s)}
      BY <3>1
    <3> QED BY <1>5, <1>8, <1>9, <3>2
  <2>2. \A p \in Queue : IdsOf(queue'[p].events) = IdsOf(queue[p].events)
    BY <1>10, <2>1 DEF s
  <2>3. IdsApart(queue')
    BY <1>7, <2>2 DEF IdsApart
  <2>4. ASSUME NEW p \in Queue, NEW g \in Members(queue'[p].events)
        PROVE  g.priority \in {0, Rank(p, g)}
    <3>1. CASE p # q
      BY <1>7, <1>10, <2>4, <3>1 DEF Ranked
    <3>2. CASE p = q
      <4>1. g = r \/ g \in Members(s)
        BY <1>9, <1>10, <2>4, <3>2
      <4> QED BY <1>7, <1>8, <3>2, <4>1 DEF Ranked, s
    <3> QED BY <3>1, <3>2
  <2> QED BY <2>3, <2>4 DEF Ranked
<1>12. f.queue = q /\ f.stage = "scan" /\ f.at = next /\ f.best = best
  BY <1>1, <1>3 DEF DeliverType
<1> HIDE DEF f
(* What f has compared is r, or was compared before.                        *)
<1>13. ASSUME NEW x \in Members(a), Seen(f, x.id), x # r
       PROVE  x \in Members(s) /\ x # e /\ x.id \in Nat /\ x.id < Top.at /\ Seen(Top, x.id)
  <2>1. x \in Members(s) /\ x # e
    BY <1>9, <1>13
  <2>2. x.id \in Ids(q) /\ x.id \in Nat /\ x.id # e.id
    BY <1>3, <1>5, <2>1, IdIsUnique
  <2>3. next = 0 \/ x.id < next
    BY <1>12, <1>13 DEF Seen
  <2>4. ~(e.id < x.id)
    <3>1. e.id < x.id => next # 0 /\ next <= x.id
      BY <1>6, <2>2
    <3>2. next \in Nat
      BY <1>3, <1>4, <1>5, IdAfterIs
    <3> HIDE DEF next
    <3> QED BY <2>2, <2>3, <3>1, <3>2
  <2>5. x.id < Top.at
    BY <1>4, <1>5, <2>2, <2>4
  <2> QED BY <1>1, <2>1, <2>2, <2>5 DEF Seen
<1>14. \A x \in Members(a) : Seen(f, x.id) => x.priority = Rank(q, x)
  BY <1>7, <1>8, <1>13 DEF ChoiceSound
<1>15. Top.best # 0 => /\ b0 \in Members(s) /\ b0.id = Top.best /\ b0 # e
                       /\ b0.priority = Rank(q, b0) /\ b0.priority \in Nat
                       /\ \A x \in Members(s) : x.id = Top.best => x = b0
  <2> SUFFICES ASSUME Top.best # 0
               PROVE  /\ b0 \in Members(s) /\ b0.id = Top.best /\ b0 # e
                      /\ b0.priority = Rank(q, b0) /\ b0.priority \in Nat
                      /\ \A x \in Members(s) : x.id = Top.best => x = b0
    OBVIOUS
  <2>1. b0 \in Members(s) /\ b0.id = Top.best /\ b0 \in EventType
        /\ \A x \in Members(s) : x.id = Top.best => x = b0
    BY <1>3, <1>4, EventAtIs
  <2> HIDE DEF b0
  <2>2. b0 # e /\ b0.priority \in Nat
    BY <1>4, <1>5, <2>1 DEF EventType
  <2>3. Seen(Top, b0.id)
    BY <1>1, <1>4, <2>1 DEF Seen
  <2> QED BY <1>7, <2>1, <2>2, <2>3 DEF ChoiceSound
<1> HIDE DEF b0, s
<1>16. ASSUME NEW x \in Members(a), Seen(f, x.id), NEW b \in Members(a), b.id = f.best, x # b
       PROVE  Precedes(q, b, x)
  <2>1. x # r => Top.best # 0
    BY <1>3, <1>4, <1>13, <1>16, IdIsUnique
  <2>2. x # r => x.priority = Rank(q, x) /\ (x # b0 => Precedes(q, b0, x))
    BY <1>7, <1>13, <1>15, <1>16, <2>1 DEF ChoiceSound
  <2>3. \A y \in Members(a) : y.id = e.id => y = r
    BY <1>3, <1>5, <1>9, IdIsUnique
  <2>4. CASE wins
    <3>1. b = r
      BY <1>12, <1>16, <2>3, <2>4
    <3>2. r.priority > b0.priority /\ Top.best # 0
      BY <1>16, <2>1, <2>4, <3>1
    <3>3. Rank(q, x) <= Rank(q, b0)
      <4>1. Rank(q, x) \in Int /\ Rank(q, b0) \in Int
        <5>1. x \in EventType
          BY <1>3, <1>13, <1>16, <3>1, EventsTyped DEF Members
        <5> QED BY <1>13, <1>15, <1>16, <2>2, <3>1, <3>2, <5>1 DEF EventType
      <4> QED BY <1>16, <2>2, <3>1, <4>1 DEF Precedes
    <3>4. Rank(q, r) > Rank(q, x)
      <4>1. Rank(q, x) \in Nat
        <5>1. x \in EventType
          BY <1>3, <1>13, <1>16, <3>1, EventsTyped DEF Members
        <5> QED BY <1>16, <2>2, <3>1, <5>1 DEF EventType
      <4> QED BY <1>8, <1>15, <3>2, <3>3, <4>1
    <3> QED BY <3>1, <3>4 DEF Precedes
  <2>5. CASE ~wins
    <3>1. Top.best # 0 /\ ~(r.priority > b0.priority)
      BY <2>5
    <3>2. b \in Members(s) /\ b = b0
      <4>1. b.id = Top.best
        BY <1>12, <1>16, <2>5
      <4>2. b # r
        BY <1>4, <1>5, <1>8, <4>1
      <4> QED BY <1>9, <1>15, <1>16, <3>1, <4>1, <4>2
    <3>3. CASE x = r
      BY <1>4, <1>5, <1>8, <1>15, <3>1, <3>2, <3>3 DEF Precedes
    <3>4. CASE x # r
      BY <1>16, <2>2, <3>2, <3>4
    <3> QED BY <3>3, <3>4
  <2> QED BY <2>4, <2>5
<1>17. ChoiceSound(f, queue'[f.queue].events)
  BY <1>10, <1>12, <1>14, <1>16 DEF ChoiceSound
<1>18. OrderSound(SetTop(f), queue')
  <2>1. f.queue = stack[Len(stack)].queue /\ stack[Len(stack)].op = "deliver"
    BY <1>1, <1>12 DEF Top
  <2>2. \A p \in Queue : p # f.queue => queue'[p].events = queue[p].events
    BY <1>10, <1>12
  <2> QED BY <1>1, <1>7, <1>11, <1>17, <2>1, <2>2, OrderGoesOn DEF SetTop
<1> QED BY <1>2, <1>18 DEF OrderInv

(* An event that leaves its queue leaves it without it.                     *)
LEMMA DequeuedMembers ==
  ASSUME NEW level \in [Queue -> Nat], QueuesOK(queue, level, tally),
         NEW q \in Queue, NEW id \in Ids(q), NEW timedToo \in BOOLEAN
  PROVE  /\ Members(Dequeued(q, id, timedToo)[q].events)
              = Members(queue[q].events) \ {EventAt(q, id)}
         /\ \A p \in Queue : p # q => Dequeued(q, id, timedToo)[p].events = queue[p].events
<1> DEFINE e == EventAt(q, id)
           rs == Dequeued(q, id, timedToo)
           u == Unlink(queue[q].events, e)
<1>1. queue \in [Queue -> QueueType] /\ queue[q] \in QueueType
      /\ queue[q].events \in Seq(EventType) /\ Increasing(queue[q].events)
  BY DEF QueuesOK, QueueSound, QueueType
<1>2. e \in Members(queue[q].events)
  BY <1>1, EventAtIs
<1>3. Members(u) = Members(queue[q].events) \ {e}
  BY <1>1, <1>2, UnlinkEvent
<1>4. rs = [queue EXCEPT ![q].events = Unlink(@, e), ![q].cur_events = @ - 1,
                         ![q].timed_events = IF timedToo /\ e.timed THEN @ - 1 ELSE @]
  BY DEF Dequeued
<1> HIDE DEF rs, e
<1>5. rs[q].events = u /\ \A p \in Queue : p # q => rs[p] = queue[p]
  BY <1>1, <1>4 DEF QueueType
<1> QED BY <1>3, <1>5 DEF rs, e

(* A refused event has gone: the scan goes on with what it knows.           *)
LEMMA RefusedOrder ==
  ASSUME NEW level \in [Queue -> Nat], QInv(level), OrderInv, FinishReject \/ FinishNull
  PROVE  OrderInv'
<1> DEFINE q == Top.queue
           s == queue[q].events
           f == [Top EXCEPT !.stage = "scan", !.victim = 0]
<1>1. /\ stack # <<>> /\ Top.op = "deliver" /\ Top.stage \in {"reject", "null"}
      /\ stack' = SetTop(f)
  BY DEF FinishReject, FinishNull
<1>2. PICK timedToo \in BOOLEAN : queue' = Dequeued(q, Top.victim, timedToo)
  BY DEF FinishReject, FinishNull
<1>3. /\ Top \in DeliverType /\ q \in Queue /\ FrameSound(Top, s)
      /\ s \in Seq(EventType) /\ Increasing(s) /\ IdsOf(s) = Ids(q)
      /\ \A x \in Ids(q) : x \in Nat /\ x # 0
  BY <1>1, TopQueue
<1>4. Top.victim \in Ids(q)
  BY <1>1, <1>3 DEF FrameSound
<1>5. f.queue = q /\ f.stage = "scan" /\ f.at = Top.at /\ f.best = Top.best
  BY <1>3 DEF DeliverType
<1> HIDE DEF f
<1>6. QueuesOK(queue, level, tally) /\ StackSound(stack, queue, level)
      /\ OrderSound(stack, queue) /\ IdsApart(queue) /\ Ranked(queue) /\ ChoiceSound(Top, s)
  <2>1. QueuesOK(queue, level, tally) /\ StackSound(stack, queue, level) /\ OrderSound(stack, queue)
    BY DEF QInv, OrderInv
  <2>2. Len(stack) \in DOMAIN stack
    BY <1>1, <2>1 DEF StackSound
  <2> QED BY <1>1, <2>1, <2>2 DEF OrderSound, Top
<1>7. /\ Members(queue'[q].events) = Members(s) \ {EventAt(q, Top.victim)}
      /\ \A p \in Queue : p # q => queue'[p].events = queue[p].events
  BY <1>2, <1>3, <1>4, <1>6, DequeuedMembers
<1>8. EventAt(q, Top.victim) \in Members(s)
      /\ \A e \in Members(s) : e.id = Top.victim => e = EventAt(q, Top.victim)
  BY <1>3, <1>4, EventAtIs
<1>9. ChoiceSound(f, queue'[q].events)
  <2>1. \A e \in Members(queue'[q].events) : e \in Members(s) /\ e.id # Top.victim
    BY <1>7, <1>8
  <2>2. \A e \in Members(queue'[q].events) : Seen(f, e.id) => Seen(Top, e.id)
    BY <1>5, <2>1 DEF Seen
  <2>3. Members(queue'[q].events) \subseteq Members(s)
    BY <2>1
  <2> DEFINE u == queue'[q].events
  <2>4. f.queue = Top.queue /\ f.best = Top.best /\ f.stage # "accept"
    BY <1>5
  <2> HIDE DEF s, q, u
  <2> QED BY <1>6, <2>2, <2>3, <2>4, SeenLess DEF u
<1>10. IdsApart(queue') /\ Ranked(queue')
  BY <1>6, <1>7, FewerEvents
<1>11. OrderSound(SetTop(f), queue')
  <2>1. f.queue = stack[Len(stack)].queue /\ stack[Len(stack)].op = "deliver"
    BY <1>1, <1>5 DEF Top
  <2>2. ChoiceSound(f, queue'[f.queue].events)
    BY <1>5, <1>9
  <2>3. \A p \in Queue : p # f.queue => queue'[p].events = queue[p].events
    BY <1>5, <1>7
  <2> QED BY <1>1, <1>6, <1>10, <2>1, <2>2, <2>3, OrderGoesOn DEF SetTop
<1> QED BY <1>1, <1>11 DEF OrderInv

(* queue_deliver returns.                                                   *)
LEMMA ReturnOrder ==
  ASSUME NEW level \in [Queue -> Nat], QInv(level), OrderInv, NothingToDeliver \/ FinishAccept
  PROVE  OrderInv'
<1>1. stack # <<>> /\ Top.op = "deliver" /\ stack' = Pop
  BY DEF NothingToDeliver, FinishAccept, Scanning
<1>2. QueuesOK(queue, level, tally) /\ StackSound(stack, queue, level)
      /\ OrderSound(stack, queue) /\ IdsApart(queue) /\ Ranked(queue)
  BY DEF QInv, OrderInv, OrderSound
<1>3. /\ \A p \in Queue : p # Top.queue => queue'[p].events = queue[p].events
      /\ \A p \in Queue : Members(queue'[p].events) \subseteq Members(queue[p].events)
  <2>1. CASE NothingToDeliver
    BY <2>1 DEF NothingToDeliver
  <2>2. CASE FinishAccept
    <3>1. Top.stage = "accept" /\ queue' = Dequeued(Top.queue, Top.victim, TRUE)
      BY <2>2 DEF FinishAccept
    <3>2. Top.queue \in Queue /\ Top.victim \in Ids(Top.queue)
      BY <1>1, <3>1, TopQueue DEF FrameSound
    <3> QED BY <1>2, <3>1, <3>2, DequeuedMembers
  <2> QED BY <2>1, <2>2
<1>4. IdsApart(queue') /\ Ranked(queue')
  BY <1>2, <1>3, FewerEvents
<1>5. OrderSound(Pop, queue')
  BY <1>1, <1>2, <1>3, <1>4, OrderReturns DEF Pop, Top
<1> QED BY <1>1, <1>5 DEF OrderInv

(* Every step of queue_deliver.                                             *)
LEMMA DeliverOrder ==
  ASSUME NEW level \in [Queue -> Nat], QInv(level), OrderInv, QueueStep
  PROVE  OrderInv'
BY RefuseBegins, TakeBegins, RepliesOrder, CompareOrder, RefusedOrder, ReturnOrder DEF QueueStep

(* event_send from a module, from outside, or of a SHUTDOWN event.          *)
LEMMA SendOrder ==
  ASSUME NEW level \in [Queue -> Nat], IInv, QInv(level), OrderInv,
         EventSend \/ \E q \in Queue : ShutdownQueue(q)
  PROVE  OrderInv'
<1> USE DEF IInv
<1>1. QueuesOK(queue, level, tally) /\ StackSound(stack, queue, level)
  BY DEF QInv
<1>2. CASE EventSend
  <2>1. PICK m \in (IF running = None THEN OutsideMessages ELSE Messages[Agt(running)]) :
          Post(queue, m, stack)
    BY <1>2 DEF EventSend
  <2>2. stack = <<>>
    BY <1>2 DEF EventSend, Anywhere, InModule, Outside
  <2>3. m \in OutsideMessages \cup UNION {Messages[a] : a \in Agent}
    <3>1. running # None => Agt(running) \in Agent
      BY KernelAssumption DEF ControlOK, Busy, Alive, Agt
    <3> QED BY <2>1, <3>1
  <2>4. m \in Message
    BY <2>3, KernelAssumption
  <2>5. OrderSound(stack', queue')
    BY <1>1, <2>1, <2>2, <2>4, PostOrder DEF OrderInv
  <2> QED BY <2>5 DEF OrderInv
<1>3. ASSUME NEW q \in Queue, ShutdownQueue(q)
      PROVE  OrderInv'
  <2> DEFINE qs == [queue EXCEPT ![q].shutdown = TRUE]
             m  == Msg(q, Shutdown)
  <2>1. stack # <<>> /\ Top.op = "shutdown" /\ Post(qs, m, stack)
    BY <1>3 DEF ShutdownQueue
  <2>2. \A i \in DOMAIN stack : stack[i].op # "deliver"
    BY <1>1, <2>1, AloneAtBottom
  <2>3. QueuesOK(qs, level, tally) /\ StackSound(stack, qs, level)
    BY <1>1, <1>3, ShutdownSent
  <2>4. m \in Message
    BY KernelAssumption DEF Msg, Message
  <2>5. \A p \in Queue : qs[p].events = queue[p].events
    <3>1. queue \in [Queue -> QueueType] /\ queue[q] \in QueueType
      BY <1>1 DEF QueuesOK
    <3> QED BY <3>1 DEF QueueType
  <2> HIDE DEF qs, m
  <2>6. OrderSound(stack, qs)
    BY <2>2, <2>5 DEF OrderInv, OrderSound, IdsApart, Ranked
  <2>7. OrderSound(stack', queue')
    BY <2>1, <2>2, <2>3, <2>4, <2>6, PostOrder
  <2> QED BY <2>7 DEF OrderInv
<1> QED BY <1>2, <1>3

(* thread_create and thread_destroy queue nothing.                          *)
LEMMA LifeEmpties ==
  ASSUME NEW level, IInv, QueuesOK(queue, level, tally), OnlyThreadsChange
  PROVE  \A p \in Queue : /\ Members(queue'[p].events) \subseteq Members(queue[p].events)
                          /\ IdsOf(queue'[p].events) \subseteq IdsOf(queue[p].events)
<1>1. PICK t \in Thread : ThreadCreate(t) \/ Destroy(t)
  <2>1. Terminate => cur \in Thread
    BY DEF Terminate, Here, IInv, ControlOK, Busy, Alive
  <2> QED BY <2>1 DEF OnlyThreadsChange, ThreadDestroy, Terminate
<1> DEFINE q == QueueOf[t]
           nothing == <<>>
           zero == 0
<1>2. Members(nothing) = {}
  BY EmptyList
<1>3. \/ UNCHANGED queue
      \/ queue' = [queue EXCEPT ![q].status = "open"]
      \/ queue' = [queue EXCEPT ![q].status = "closed", ![q].events = nothing, ![q].cur_events = zero]
  BY <1>1 DEF ThreadCreate, Destroy
<1> HIDE DEF nothing, zero
<1>4. q \in Queue /\ queue \in [Queue -> QueueType] /\ queue[q] \in QueueType
  BY KernelAssumption DEF QueuesOK
<1> HIDE DEF q
<1>5. \A p \in Queue : queue'[p].events \in {queue[p].events, nothing}
  <2>1. CASE queue' = [queue EXCEPT ![q].status = "open"]
    BY <1>4, <2>1 DEF QueueType
  <2>2. CASE queue' = [queue EXCEPT ![q].status = "closed", ![q].events = nothing, ![q].cur_events = zero]
    <3> DEFINE old == queue[q]
               g   == [old EXCEPT !.status = "closed", !.events = nothing, !.cur_events = zero]
    <3>1. queue' = [queue EXCEPT ![q] = g]
      BY <1>4, <2>2
    <3>2. g.events = nothing
      BY <1>4 DEF QueueType
    <3> HIDE DEF g
    <3> QED BY <1>4, <3>1, <3>2
  <2> QED BY <1>3, <2>1, <2>2
<1>6. \A p \in Queue : Members(queue'[p].events) \subseteq Members(queue[p].events)
  BY <1>2, <1>5
<1>7. \A r : IdsOf(r) = {e.id : e \in Members(r)}
  BY DEF IdsOf, Members
<1> QED BY <1>6, <1>7

(* What happens to threads empties queues; what smt_exec stacks for itself  *)
(* or fetches for a thread has compared nothing yet.                        *)
LEMMA OthersOrder ==
  ASSUME NEW level \in [Queue -> Nat], IInv, QInv(level), OrderInv, QInv(level)',
         \/ OnlyThreadsChange
         \/ \E s \in Semaph : SemaphDestroy(s)
         \/ RequestAllThreadsShutdown \/ WaitReturn \/ FetchEvent
         \/ SemaphDestroyStep \/ ShutdownDone \/ HandleSignal
  PROVE  OrderInv'
<1>1. QueuesOK(queue, level, tally) /\ StackSound(stack, queue, level)
      /\ QueuesOK(queue', level, tally') /\ StackSound(stack', queue', level)
      /\ IdsApart(queue) /\ Ranked(queue)
  BY DEF QInv, OrderInv, OrderSound
<1>2. CASE OnlyThreadsChange
  <2>1. stack' = <<>>
    BY <1>2 DEF OnlyThreadsChange, ThreadCreate, ThreadDestroy, Terminate, Anywhere, InModule,
           Outside, Here, nested
  <2>2. \A p \in Queue : Members(queue'[p].events) \subseteq Members(queue[p].events)
    BY <1>1, <1>2, LifeEmpties
  <2>3. IdsApart(queue') /\ Ranked(queue')
    BY <1>1, <2>2, FewerEvents
  <2> QED BY <2>1, <2>3 DEF OrderInv, OrderSound
<1>3. CASE ~OnlyThreadsChange
  <2>1. UNCHANGED queue
    BY <1>3 DEF OnlyThreadsChange, SemaphDestroy, RequestAllThreadsShutdown, WaitReturn, FetchEvent,
           SemaphDestroyStep, ShutdownDone, HandleSignal
  <2>2. ASSUME \A i \in DOMAIN stack' :
                 stack'[i].op = "deliver" => ChoiceSound(stack'[i], queue[stack'[i].queue].events)
        PROVE  OrderInv'
    BY <1>1, <2>1, <2>2 DEF OrderInv, OrderSound
  <2>3. CASE UNCHANGED stack \/ stack' = <<>>
    BY <2>2, <2>3 DEF OrderInv, OrderSound
  <2>4. CASE FetchEvent
    <3> DEFINE q == QueueOf[cur]
               s == queue[q].events
               at == IF s = <<>> THEN 0 ELSE Head(s).id
               f == [DeliverFrame(q, cur, FALSE) EXCEPT !.at = at]
    <3>1. stack' = <<f>> /\ cur \in Thread
      BY <2>4 DEF FetchEvent, Here, IInv, ControlOK, Busy, Alive
    <3>2. q \in Queue
      BY <3>1, KernelAssumption
    <3>3. s \in Seq(EventType) /\ Increasing(s) /\ IdsOf(s) \subseteq 1 .. tally /\ tally \in Nat
      BY <1>1, <3>2 DEF QueuesOK, QueueSound, QueueType
    <3> HIDE DEF q, s
    <3>4. \A e \in Members(s) : e.id \in Nat /\ at # 0 /\ at <= e.id /\ at \in Nat
      <4>1. \A e \in Members(s) : e.id \in IdsOf(s) /\ e.id \in Nat
        BY <3>3, IdIsUnique
      <4>2. CASE s = <<>>
        BY <4>1, <4>2 DEF IdsOf
      <4>3. CASE s # <<>>
        <5>1. Head(s).id \in IdsOf(s) /\ \A x \in IdsOf(s) : Head(s).id <= x
          BY <3>3, <4>3, HeadIsOldest
        <5> QED BY <3>3, <4>1, <4>3, <5>1
      <4> QED BY <4>2, <4>3
    <3> HIDE DEF at
    <3>5. f = [op |-> "deliver", queue |-> q, thread |-> cur, wake |-> FALSE,
               stage |-> "scan", at |-> at, best |-> 0, victim |-> 0]
      BY ONLY FrameAt
    <3> HIDE DEF f
    <3>6. f.queue = q /\ f.at = at /\ f.stage = "scan"
      BY <3>5
    <3>7. \A e \in Members(s) : ~Seen(f, e.id)
      BY <3>4, <3>6 DEF Seen
    <3>8. ChoiceSound(f, queue[f.queue].events)
      BY <3>6, <3>7 DEF ChoiceSound, s
    <3> QED BY <2>2, <3>1, <3>8
  <2>5. CASE (\E s \in Semaph : SemaphDestroy(s)) \/ RequestAllThreadsShutdown \/ WaitReturn
    <3>1. \/ UNCHANGED stack
          \/ \E f : f.op # "deliver" /\ (stack' = <<f>> \/ stack' = Append(<<>>, f))
      <4>1. ASSUME NEW s \in Semaph, SemaphDestroy(s)
            PROVE  \E f : f.op # "deliver" /\ stack' = Append(<<>>, f)
        <5>1. stack = <<>> /\ stack' = Append(stack, [op |-> "semaph_destroy", semaph |-> s])
          BY <4>1 DEF SemaphDestroy, Anywhere, InModule, Outside
        <5>2. [op |-> "semaph_destroy", semaph |-> s].op # "deliver"
          OBVIOUS
        <5> QED BY <5>1, <5>2
      <4>2. RequestAllThreadsShutdown \/ WaitReturn => UNCHANGED stack \/ stack' = <<[op |-> "shutdown"]>>
        BY DEF RequestAllThreadsShutdown, WaitReturn
      <4>3. [op |-> "shutdown"].op # "deliver"
        OBVIOUS
      <4> QED BY <2>5, <4>1, <4>2, <4>3
    <3>2. \A i \in DOMAIN stack' : stack'[i].op = "deliver" => UNCHANGED stack
      BY <3>1
    <3> QED BY <2>2, <2>3, <3>2
  <2>6. CASE SemaphDestroyStep \/ ShutdownDone
    <3>1. stack # <<>> /\ Top.op # "deliver" /\ (UNCHANGED stack \/ stack' = Pop)
      BY <2>6 DEF SemaphDestroyStep, ShutdownDone
    <3>2. Pop = <<>>
      BY <1>1, <3>1, AloneAtBottom
    <3> QED BY <2>3, <3>1, <3>2
  <2>7. CASE HandleSignal
    BY <2>3, <2>7 DEF HandleSignal
  <2> QED BY <1>3, <2>4, <2>5, <2>6, <2>7
<1> QED BY <1>2, <1>3

(* Every step.                                                              *)
LEMMA OrderStep ==
  ASSUME NEW level \in [Queue -> Nat], RequestsGoUp(level), IInv, ThreadsAgree, QInv(level),
         OrderInv, [Next]_vars
  PROVE  OrderInv'
<1>1. QInv(level)'
  BY QueuesStep
<1>2. CASE QueueStep
  BY <1>2, DeliverOrder
<1>3. CASE EventSend \/ \E q \in Queue : ShutdownQueue(q)
  BY <1>3, SendOrder
<1>4. CASE \/ OnlyThreadsChange
           \/ \E s \in Semaph : SemaphDestroy(s)
           \/ RequestAllThreadsShutdown \/ WaitReturn \/ FetchEvent
           \/ SemaphDestroyStep \/ ShutdownDone \/ HandleSignal
  BY <1>1, <1>4, OthersOrder
<1>5. CASE UNCHANGED <<queue, tally, stack>>
  BY <1>5 DEF OrderInv
<1> QED BY <1>2, <1>3, <1>4, <1>5, StepKinds

(* Only queue_deliver gives a thread an event.                              *)
LEMMA EventGiven ==
  ASSUME IInv, ContextsInv, [Next]_vars, NEW t \in Thread,
         ctx'[t].event # ctx[t].event, ctx'[t].event # None
  PROVE  FinishAccept
<1>1. DOMAIN ctx = Thread /\ \A u \in Thread : "event" \in DOMAIN ctx[u]
  BY DEF ContextsInv, ContextOK
<1> DEFINE Kept == ctx'[t].event \in {ctx[t].event, None}
<1>2. SUFFICES ASSUME ~FinishAccept PROVE Kept
  OBVIOUS
<1>3. ASSUME NEW u \in Thread, NEW c, c.event \in {ctx[u].event, None}, ctx' = [ctx EXCEPT ![u] = c]
      PROVE  Kept
  BY <1>1, <1>3
<1>4. ASSUME NEW u \in Thread, NEW c, "event" \in DOMAIN c, c.event \in {ctx[u].event, None}, Lookup(u, c)
      PROVE  Kept
  <2> DEFINE d == [c EXCEPT !.the_next_event = NullEvent]
             e == [c EXCEPT !.event = None]
  <2>1. ctx' = [ctx EXCEPT ![u] = d] \/ ctx' = [ctx EXCEPT ![u] = e]
    BY <1>4 DEF Lookup
  <2>2. d.event = c.event /\ e.event = None
    BY <1>4
  <2> HIDE DEF d, e
  <2> QED BY <1>3, <1>4, <2>1, <2>2
<1>5. CASE UNCHANGED ctx
  BY <1>5
<1>6. CASE TakeBest
  <2>1. Top.thread \in Thread
    BY <1>6, StackTop DEF TakeBest, Scanning, FrameOK, IInv, Alive
  <2>2. PICK x : ctx' = [ctx EXCEPT ![Top.thread].event = None, ![Top.thread].the_next_event = x]
    BY <1>6 DEF TakeBest
  <2> QED BY <1>1, <2>1, <2>2
<1>7. CASE FetchFailed
  BY <1>1, <1>7 DEF FetchFailed, Here, IInv, ControlOK, Busy, Alive
<1>8. CASE OnlyThreadsChange
  <2>1. \E u \in Thread : ctx' = [ctx EXCEPT ![u] = FreshCtx]
    BY <1>8 DEF OnlyThreadsChange, ThreadCreate, ThreadDestroy, Destroy, Terminate, Here, IInv,
                ControlOK, Busy, Alive
  <2> QED BY <1>3, <2>1 DEF FreshCtx
<1>9. CASE CallException \/ DialogReturn \/ DialogPop
  <2> DEFINE u == running
             s == ctx[u].LR_location_stack
  <2>1. u \in Thread
    BY <1>9 DEF CallException, DialogReturn, DialogPop, InModule, IInv, ControlOK, Busy, Alive
  <2>2. CASE CallException
    <3>1. \E q : ctx' = [ctx EXCEPT ![u].LR_location_stack = q]
      BY <2>2 DEF CallException
    <3> HIDE DEF u
    <3> QED BY <1>1, <2>1, <3>1
  <2>3. CASE DialogPop
    <3>1. \E q : ctx' = [ctx EXCEPT ![u].LR_location_stack = q]
      BY <2>3 DEF DialogPop
    <3> HIDE DEF u
    <3> QED BY <1>1, <2>1, <3>1
  <2>4. CASE DialogReturn
    <3>1. \E q, x, y, z : ctx' = [ctx EXCEPT ![u].LR_location_stack = q, ![u].LR_state = x,
                                             ![u].LR_event = y, ![u].LR_number = z]
      BY <2>4 DEF DialogReturn
    <3> HIDE DEF u
    <3> QED BY <1>1, <2>1, <3>1
  <2> QED BY <1>9, <2>2, <2>3, <2>4
<1>10. CASE Dispatch /\ ~UNCHANGED ctx
  <2> DEFINE u == Head(active)
  <2>1. active # <<>>
    BY <1>10 DEF Dispatch
  <2>2. u \in Thread
    BY <2>1, FirstActive DEF IInv, Alive
  <2>3. \E e : ctx' = [ctx EXCEPT ![u].LR_state = FirstState, ![u].LR_event = NullEvent,
                                  ![u].the_next_event = e]
    BY <1>10, <2>1 DEF Dispatch
  <2> HIDE DEF u
  <2> QED BY <1>1, <2>2, <2>3
<1>11. CASE FirstList \/ NextList \/ CallModule
  <2>1. cur \in Thread
    BY <1>11 DEF FirstList, NextList, CallModule, InLoop, HaveEvent, Here, IInv, ControlOK, Busy, Alive
  <2>2. CASE FirstList
    <3> DEFINE c == [ctx[cur] EXCEPT !.LR_event = ctx[cur].the_next_event, !.LR_number = 0]
    <3>1. Lookup(cur, c)
      BY <2>2 DEF FirstList
    <3>2. "event" \in DOMAIN c /\ c.event = ctx[cur].event
      BY <1>1, <2>1
    <3> HIDE DEF c
    <3> QED BY <1>4, <2>1, <3>1, <3>2
  <2>3. CASE NextList
    <3> DEFINE c(s) == [ctx[cur] EXCEPT !.LR_state = s, !.LR_number = 0,
                                        !.LR_event = ctx[cur].the_next_event]
               d(s) == [c(s) EXCEPT !.the_next_event = NullEvent]
    <3>1. PICK s \in NextStates(cur, ctx[cur]) :
            ctx' = [ctx EXCEPT ![cur] = d(s)] \/ Lookup(cur, c(s))
      BY <2>3 DEF NextList
    <3>2. "event" \in DOMAIN c(s) /\ c(s).event = ctx[cur].event /\ d(s).event = ctx[cur].event
      BY <1>1, <2>1
    <3> HIDE DEF c, d
    <3> QED BY <1>3, <1>4, <2>1, <3>1, <3>2
  <2>4. CASE CallModule
    <3>1. \E n : ctx' = [ctx EXCEPT ![cur].LR_number = n]
      BY <2>4 DEF CallModule
    <3> QED BY <1>1, <2>1, <3>1
  <2> QED BY <1>11, <2>2, <2>3, <2>4
<1>12. CASE ModuleReturn
  <2> DEFINE r == Returned
             b == [r EXCEPT !.LR_number = @ - 1]
             e == [r EXCEPT !.event = None]
             x == [r EXCEPT !.LR_event = flags.the_exception_event, !.LR_number = 0]
  <2>1. cur \in Thread
    BY <1>12, KernelAssumption DEF ModuleReturn, ReturnException, ReturnBreak, ReturnJump,
           ReturnPlain, Returning, IInv, ControlOK, Busy, Alive
  <2>2. "event" \in DOMAIN r /\ r.event = ctx[cur].event
    BY <1>1, <2>1 DEF Returned
  <2>3. ReturnException => Lookup(cur, x)
    BY DEF ReturnException
  <2>4. ReturnBreak => ctx' = [ctx EXCEPT ![cur] = b] \/ ctx' = [ctx EXCEPT ![cur] = e]
    BY DEF ReturnBreak
  <2>5. ReturnJump \/ ReturnPlain => ctx' = [ctx EXCEPT ![cur] = r] \/ Lookup(cur, r)
    BY DEF ReturnJump, ReturnPlain
  <2> HIDE DEF r
  <2>6. "event" \in DOMAIN x /\ x.event = r.event /\ b.event = r.event /\ e.event = None
    BY <2>2
  <2> HIDE DEF b, e, x
  <2>7. CASE ReturnException
    BY <1>4, <2>1, <2>2, <2>3, <2>6, <2>7
  <2>8. CASE ReturnBreak
    BY <1>3, <2>1, <2>2, <2>4, <2>6, <2>8
  <2>9. CASE ReturnJump \/ ReturnPlain
    BY <1>3, <1>4, <2>1, <2>2, <2>5, <2>9
  <2> QED BY <1>12, <2>7, <2>8, <2>9 DEF ModuleReturn
<1> HIDE DEF Kept
<1> QED BY <1>2, <1>5, <1>6, <1>7, <1>8, <1>9, <1>10, <1>11, <1>12, ContextKinds

(* The event a thread is given is the one the top activation works on.      *)
LEMMA GivenIsVictim ==
  ASSUME NEW level \in [Queue -> Nat], QInv(level), OrderInv, FinishAccept, ContextsInv,
         NEW q \in Queue, NEW e \in Members(queue[q].events),
         NEW t \in Thread, ctx'[t].event # ctx[t].event, ctx'[t].event.id = e.id
  PROVE  /\ stack # <<>> /\ Top.op = "deliver" /\ Top.stage = "accept" /\ Len(stack) \in DOMAIN stack
         /\ q = Top.queue /\ e.id = Top.victim
<1> DEFINE p == Top.queue
           s == queue[p].events
           g == EventAt(p, Top.victim)
<1>1. stack # <<>> /\ Top.op = "deliver" /\ Top.stage = "accept"
      /\ ctx' = [ctx EXCEPT ![Top.thread].event = [id |-> g.id, name |-> g.name]]
  BY DEF FinishAccept
<1>2. /\ Top \in DeliverType /\ p \in Queue /\ FrameSound(Top, s)
      /\ s \in Seq(EventType) /\ Increasing(s) /\ IdsOf(s) = Ids(p)
  BY <1>1, TopQueue
<1>3. Top.victim \in Ids(p)
  BY <1>1, <1>2 DEF FrameSound
<1>4. g \in Members(s) /\ g.id = Top.victim
  BY <1>2, <1>3, EventAtIs
<1>5. e.id = g.id
  <2>1. DOMAIN ctx = Thread /\ "event" \in DOMAIN ctx[t]
    BY DEF ContextsInv, ContextOK
  <2> HIDE DEF g
  <2>2. ctx'[t].event = [id |-> g.id, name |-> g.name]
    BY <1>1, <2>1
  <2> QED BY <2>2
<1>6. Len(stack) \in DOMAIN stack
  BY <1>1 DEF QInv, StackSound
<1>7. q = p
  <2>1. g.id \in IdsOf(queue[p].events) /\ e.id \in IdsOf(queue[q].events)
    BY <1>4 DEF IdsOf, Members
  <2> QED BY <1>2, <1>5, <2>1 DEF IdsApart, OrderInv, OrderSound
<1> HIDE DEF g
<1> QED BY <1>1, <1>4, <1>5, <1>6, <1>7

(* It is the best of its queue.                                             *)
LEMMA GivenInOrder ==
  ASSUME NEW level \in [Queue -> Nat], QInv(level), OrderInv, FinishAccept, ContextsInv,
         NEW q \in Queue, NEW e \in Members(queue[q].events), NEW f \in Members(queue[q].events),
         NEW t \in Thread, ctx'[t].event # ctx[t].event, ctx'[t].event.id = e.id, e # f
  PROVE  Precedes(q, e, f)
<1>1. /\ stack # <<>> /\ Top.op = "deliver" /\ Top.stage = "accept" /\ Len(stack) \in DOMAIN stack
      /\ q = Top.queue /\ e.id = Top.victim
  BY GivenIsVictim
<1>2. ChoiceSound(Top, queue[q].events)
  BY <1>1 DEF OrderInv, OrderSound, Top
<1>3. Top.at = 0 /\ Top.best = e.id /\ Seen(Top, f.id)
  BY <1>1, <1>2 DEF ChoiceSound, Seen
<1> QED BY <1>1, <1>2, <1>3 DEF ChoiceSound

(* What the order of delivery rests on.                                     *)
OrderRests(level) == IInv /\ ContextsInv /\ ThreadsAgree /\ QInv(level) /\ OrderInv

(* The choice of an activation stays sound, across the activations that its *)
(* answers start.                                                           *)
THEOREM OrderInvariance ==
  ASSUME NEW level \in [Queue -> Nat], RequestsGoUp(level)
  PROVE  Spec => []OrderRests(level)
<1>1. Init => OrderInv
  <2> SUFFICES ASSUME Init PROVE OrderInv
    OBVIOUS
  <2>1. stack = <<>> /\ \A q \in Queue : queue[q].events = <<>>
    BY DEF Init
  <2>2. Members(<<>>) = {} /\ IdsOf(<<>>) = {}
    BY EmptyList DEF IdsOf
  <2> QED BY <2>1, <2>2 DEF OrderInv, OrderSound, IdsApart, Ranked
<1>2. IInv /\ ThreadsAgree /\ QInv(level) /\ OrderInv /\ [Next]_vars => OrderInv'
  BY OrderStep
<1>3. Spec => []IInv /\ []ContextsInv /\ [](QInv(level) /\ ThreadsAgree)
  BY Invariance, ContextsInvariance, QueuesInvariance
<1> QED BY <1>1, <1>2, <1>3, PTL DEF Spec, OrderRests

(* Of the events in its queue a thread is given the one of the highest      *)
(* priority, and of these the oldest.                                       *)
THEOREM EventsComeInOrder ==
  ASSUME NEW level \in [Queue -> Nat], RequestsGoUp(level)
  PROVE  Spec => DeliveredInOrder
<1> DEFINE InOrder ==
             \A q \in Queue : \A e, f \in Members(queue[q].events) :
               (\E t \in Thread : ctx'[t].event # ctx[t].event /\ ctx'[t].event # None
                                    /\ ctx'[t].event.id = e.id)
               => \/ e = f
                  \/ Rank(q, e) > Rank(q, f)
                  \/ Rank(q, e) = Rank(q, f) /\ e.id < f.id
<1>1. OrderRests(level) /\ [Next]_vars => InOrder
  <2> SUFFICES ASSUME OrderRests(level), [Next]_vars, NEW q \in Queue,
                      NEW e \in Members(queue[q].events), NEW f \in Members(queue[q].events),
                      NEW t \in Thread, ctx'[t].event # ctx[t].event, ctx'[t].event # None,
                      ctx'[t].event.id = e.id, e # f
               PROVE  Precedes(q, e, f)
    BY DEF Precedes
  <2>1. FinishAccept
    BY EventGiven DEF OrderRests
  <2> QED BY <2>1, GivenInOrder DEF OrderRests
<1>2. Spec => []OrderRests(level)
  BY OrderInvariance
<1> QED BY <1>1, <1>2, PTL DEF Spec, DeliveredInOrder

-----------------------------------------------------------------------------
(* The answers.                                                             *)

(* An activation of queue_deliver on the stack st works on the event id of  *)
(* queue q.                                                                 *)
InHand(st, q, id) ==
  \E i \in DOMAIN st : st[i].op = "deliver" /\ st[i].queue = q /\ st[i].victim = id

(* What was answered has left its queue, unless the activation that sent    *)
(* the answer is still on the stack to take it out, or was cut short by the *)
(* end of the process.                                                      *)
AnswersOK ==
  /\ pc = "exit" => stack = <<>>
  /\ \A a \in answered : a[1] \in 1 .. tally
  /\ \A a \in answered : \A q \in Queue :
       a[1] \in IdsOf(queue[q].events) => pc = "exit" \/ InHand(stack, q, a[1])

(* The client of e wants to hear of it and there is nothing in the way.     *)
ToBeTold(e) ==
  e.accept # None /\ queue[e.sender].status = "open" /\ MaxEvents[e.sender] = 0

(* An activation that is about to hand an event over has told its client.   *)
ToldOK ==
  \A i \in DOMAIN stack : stack[i].op = "deliver" /\ stack[i].stage = "accept" =>
    \A e \in Members(queue[stack[i].queue].events) :
      e.id = stack[i].victim /\ ToBeTold(e) => <<e.id, "accept">> \in answered

AnswersInv == AnswersOK /\ ToldOK

(* event_send as the answers see it.                                        *)
Posted(qs, m, rest) ==
  /\ tally' = IF Sendable(qs, m) THEN tally + 1 ELSE tally
  /\ \A p \in Queue : IdsOf(queue'[p].events) \subseteq IdsOf(qs[p].events) \cup {tally + 1}
  /\ \A p \in Queue : p # m.to => queue'[p].events = qs[p].events
  /\ \A p \in Queue : queue'[p].status = qs[p].status
  /\ stack' = rest \/ \E g : stack' = Append(rest, g) /\ g.stage = "scan"

LEMMA PostKeeps ==
  ASSUME NEW level \in [Queue -> Nat], NEW qs, QueuesOK(qs, level, tally),
         NEW m, m.to \in Queue => m \in Message, NEW rest, Post(qs, m, rest)
  PROVE  Posted(qs, m, rest)
<1>1. CASE ~Sendable(qs, m)
  BY <1>1 DEF Post, Posted
<1>2. CASE Sendable(qs, m)
  <2> DEFINE q == m.to
             a == queue'[q].events
             s == qs[q].events
  <2>1. q \in Queue /\ Added(qs, q) /\ StackedFor(q, rest)
    BY <1>2, PostAdds
  <2>2. qs \in [Queue -> QueueType] /\ qs[q] \in QueueType /\ s \in Seq(EventType)
    BY <2>1 DEF QueuesOK, QueueType
  <2>3. \A p \in Queue : queue'[p].status = qs[p].status
    <3> DEFINE e == [id |-> tally + 1, name |-> m.name, sender |-> m.from,
                     accept |-> IF m.from = None THEN None ELSE m.accept,
                     reject |-> IF m.from = None THEN None ELSE m.reject,
                     timed |-> m.timed, priority |-> 0, number |-> NullEvent]
               x == Append(qs[q].events, e)
               y == qs[q].cur_events + 1
               z == IF m.timed THEN qs[q].timed_events + 1 ELSE qs[q].timed_events
    <3>1. queue' = [qs EXCEPT ![q].events = x, ![q].cur_events = y, ![q].timed_events = z]
      BY <1>2 DEF Post
    <3> HIDE DEF x, y, z
    <3> HIDE DEF q
    <3> QED BY <2>1, <2>2, <3>1 DEF QueueType
  <2>4. IdsOf(a) \subseteq IdsOf(s) \cup {tally + 1}
    <3>1. PICK e \in EventType : e.id = tally + 1 /\ a = Append(s, e)
      BY <2>1 DEF Added
    <3> HIDE DEF a, s
    <3>2. DOMAIN a = 1 .. Len(s) + 1 /\ DOMAIN s = 1 .. Len(s) /\ Len(s) \in Nat
          /\ \A i \in DOMAIN a : a[i] = IF i = Len(s) + 1 THEN e ELSE s[i]
      BY <2>2, <3>1
    <3> QED BY <3>1, <3>2 DEF IdsOf
  <2> HIDE DEF q
  <2>5. \A p \in Queue : p # q => queue'[p].events = qs[p].events
    BY <2>1 DEF Added
  <2>6. \A p \in Queue : IdsOf(queue'[p].events) \subseteq IdsOf(qs[p].events) \cup {tally + 1}
    BY <2>4, <2>5
  <2>7. tally' = tally + 1
    BY <2>1 DEF Added
  <2>8. stack' = rest \/ \E g : stack' = Append(rest, g) /\ g.stage = "scan"
    BY <2>1 DEF StackedFor
  <2> QED BY <1>2, <2>3, <2>5, <2>6, <2>7, <2>8 DEF q, Posted
<1> QED BY <1>1, <1>2

(* What leaves the stack of the activations that work on events.            *)
LEMMA InHandStays ==
  ASSUME NEW st \in Seq(FrameType), st # <<>>, NEW f, NEW q, NEW id, InHand(st, q, id),
         ~(st[Len(st)].op = "deliver" /\ st[Len(st)].queue = q /\ st[Len(st)].victim = id)
  PROVE  /\ InHand([st EXCEPT ![Len(st)] = f], q, id)
         /\ InHand(SubSeq(st, 1, Len(st) - 1), q, id)
<1>1. Len(st) \in Nat /\ DOMAIN st = 1 .. Len(st) /\ Len(st) # 0
  OBVIOUS
<1>2. PICK i \in DOMAIN st : st[i].op = "deliver" /\ st[i].queue = q /\ st[i].victim = id
  BY DEF InHand
<1>3. i # Len(st) /\ i \in 1 .. Len(st) - 1
  BY <1>1, <1>2
<1>4. \A j \in 1 .. Len(st) - 1 : st[j] \in FrameType
  BY <1>1
<1> DEFINE s == SubSeq(st, 1, Len(st) - 1)
           u == [st EXCEPT ![Len(st)] = f]
<1>5. i \in DOMAIN s /\ s[i] = st[i]
  BY <1>1, <1>3, <1>4, SubSeqProperties
<1>6. i \in DOMAIN u /\ u[i] = st[i]
  BY <1>3
<1> HIDE DEF s, u
<1>7. InHand(s, q, id) /\ InHand(u, q, id)
  BY <1>2, <1>5, <1>6 DEF InHand
<1> QED BY <1>7 DEF s, u

(* A frame on top hides none.                                               *)
LEMMA InHandUnder ==
  ASSUME NEW st \in Seq(FrameType), NEW g, NEW q, NEW id, InHand(st, q, id)
  PROVE  InHand(Append(st, g), q, id)
<1>1. PICK i \in DOMAIN st : st[i].op = "deliver" /\ st[i].queue = q /\ st[i].victim = id
  BY DEF InHand
<1> DEFINE u == Append(st, g)
<1>2. i \in DOMAIN u /\ u[i] = st[i]
  BY <1>1
<1> HIDE DEF u
<1>3. InHand(u, q, id)
  BY <1>1, <1>2 DEF InHand
<1> QED BY <1>3 DEF u

(* What is to be answered came from a queue.                                *)
LEMMA AskerIsQueue ==
  ASSUME NEW level, NEW qs, QueuesOK(qs, level, tally),
         NEW p \in Queue, NEW e \in Members(qs[p].events), e.accept # None
  PROVE  e.sender \in Queue
BY DEF QueuesOK, QueueSound, AsksFromBelow, Members

(* A step of HSpec is one of the kernel and records the answer it sends.    *)
LEMMA Recorded ==
  ASSUME [HNext]_hvars
  PROVE  /\ [Next]_vars
         /\ answered' = IF Replying THEN answered \cup {Reply} ELSE answered
<1>1. CASE HNext
  BY <1>1 DEF HNext
<1>2. CASE UNCHANGED hvars
  BY <1>2 DEF hvars, vars, nested, Replying
<1> QED BY <1>1, <1>2

(* The answer sent is the one to the event the top activation now works on. *)
LEMMA ReplyIs ==
  ASSUME NEW level \in [Queue -> Nat], QInv(level), stack # <<>>, Top.op = "deliver",
         NEW f, NEW reply, Replies(f, reply)
  PROVE  Victim = f.victim /\ Reply = <<f.victim, f.stage>>
<1> DEFINE st == SetTop(f)
<1>1. PICK m : /\ Post(queue, m, st)
               /\ (m.to \in Queue => m \in Message)
               /\ StackSound(st, queue, level)
  BY ReplyGoesDown
<1>2. QueuesOK(queue, level, tally)
  BY DEF QInv
<1>3. st \in Seq(FrameType) /\ Len(stack) \in DOMAIN st /\ st[Len(stack)] = f
  BY <1>1 DEF QInv, StackSound, SetTop
<1> HIDE DEF st
<1>4. Posted(queue, m, st)
  BY <1>1, <1>2, PostKeeps
<1>5. stack'[Len(stack)] = f
  BY <1>3, <1>4 DEF Posted
<1> QED BY <1>5 DEF Reply, Victim

(* An answer is sent: its event is in hand, and its client is told.         *)
LEMMA AnswerSent ==
  ASSUME NEW level \in [Queue -> Nat], QInv(level), OrderInv, AnswersInv,
         stack # <<>>, Top.op = "deliver", NEW f, NEW reply, Replies(f, reply),
         answered' = IF Replying THEN answered \cup {Reply} ELSE answered, pc' = pc
  PROVE  AnswersInv'
<1> DEFINE st == SetTop(f)
           q == Top.queue
           n == Len(stack)
<1>1. PICK m : /\ Post(queue, m, st)
               /\ m.to = IF reply = None THEN None ELSE EventAt(f.queue, f.victim).sender
               /\ (m.to \in Queue => m \in Message)
               /\ StackSound(st, queue, level)
               /\ \A i \in DOMAIN st :
                    m.to \in Queue /\ st[i].op = "deliver" => level[m.to] < level[st[i].queue]
  BY ReplyGoesDown
<1>2. QueuesOK(queue, level, tally) /\ tally \in Nat /\ IdsApart(queue)
  BY DEF QInv, QueuesOK, OrderInv, OrderSound
<1>3. /\ Top \in DeliverType /\ q \in Queue /\ Top.stage = "scan" /\ Top.victim = 0
      /\ queue[q].events \in Seq(EventType) /\ Increasing(queue[q].events)
      /\ IdsOf(queue[q].events) = Ids(q) /\ \A x \in Ids(q) : x # 0 /\ x \in 1 .. tally
  BY TopQueue DEF FrameSound, Replies
<1>4. /\ f.op = "deliver" /\ f.queue = q /\ f.stage # "scan" /\ f.victim \in Ids(q)
      /\ f.stage = "accept" => reply = EventAt(q, f.victim).accept
  <2>1. /\ f \in DeliverType /\ f.queue = q /\ f.stage # "scan"
        /\ FrameSound(f, queue[f.queue].events)
        /\ f.stage = "accept" => reply = EventAt(f.queue, f.victim).accept
    BY DEF Replies
  <2>2. f.op = "deliver" /\ f.victim # 0 /\ f.victim \in IdsOf(queue[f.queue].events)
    BY <2>1 DEF FrameSound, DeliverType
  <2> HIDE DEF q
  <2> QED BY <1>3, <2>1, <2>2
<1>5. /\ stack \in Seq(FrameType) /\ n \in Nat /\ n # 0 /\ DOMAIN stack = 1 .. n
      /\ DOMAIN st = 1 .. n /\ st[n] = f /\ \A i \in 1 .. n : i # n => st[i] = stack[i]
      /\ st \in Seq(FrameType) /\ Len(st) = n /\ stack[n] = Top
  BY <1>1 DEF QInv, StackSound, SetTop, Top
<1> HIDE DEF st
<1>6. /\ tally' = IF Sendable(queue, m) THEN tally + 1 ELSE tally
      /\ \A p \in Queue : IdsOf(queue'[p].events) \subseteq IdsOf(queue[p].events) \cup {tally + 1}
      /\ \A p \in Queue : p # m.to => queue'[p].events = queue[p].events
      /\ \A p \in Queue : queue'[p].status = queue[p].status
      /\ \/ stack' = st
         \/ \E g : stack' = Append(st, g) /\ g.stage = "scan"
  <2>1. Post(queue, m, st) /\ (m.to \in Queue => m \in Message) /\ QueuesOK(queue, level, tally)
    BY <1>1, <1>2
  <2>2. Posted(queue, m, st)
    BY <2>1, PostKeeps
  <2> QED BY <2>2 DEF Posted
<1>7. pc # "exit"
  BY DEF AnswersInv, AnswersOK
<1> HIDE DEF n
<1>8. /\ \A i \in 1 .. n : i \in DOMAIN stack' /\ stack'[i] = st[i]
      /\ \A i \in DOMAIN stack' : i \in 1 .. n \/ stack'[i].stage = "scan"
  BY <1>5, <1>6
<1>9. /\ Replying <=> Sendable(queue, m)
      /\ Reply = <<f.victim, f.stage>>
  <2>1. tally' # tally <=> Sendable(queue, m)
    BY <1>2, <1>6
  <2>2. Scanning
    BY <1>3 DEF Scanning
  <2> QED BY <2>1, <2>2, ReplyIs DEF Replying
<1> HIDE DEF q
<1>10. ASSUME NEW a \in answered', NEW p \in Queue, a[1] \in IdsOf(queue'[p].events)
       PROVE  InHand(stack', p, a[1])
  <2>1. CASE a \in answered
    <3>1. a[1] \in 1 .. tally
      BY <2>1 DEF AnswersInv, AnswersOK
    <3>2. a[1] \in IdsOf(queue[p].events)
      <4>1. a[1] # tally + 1
        BY <1>2, <3>1
      <4> QED BY <1>6, <1>10, <4>1
    <3>3. InHand(stack, p, a[1])
      BY <1>7, <2>1, <3>2 DEF AnswersInv, AnswersOK
    <3>4. Top.victim # a[1]
      BY <1>2, <1>3, <3>1
    <3>5. InHand(st, p, a[1])
      BY <1>5, <3>3, <3>4, InHandStays DEF st, SetTop, n
    <3> QED BY <1>5, <1>6, <3>5, InHandUnder
  <2>2. CASE a \notin answered
    <3>1. a[1] = f.victim
      BY <1>9, <2>2
    <3>2. f.victim \in 1 .. tally
      BY <1>3, <1>4
    <3>3. f.victim \in IdsOf(queue[p].events) /\ f.victim \in IdsOf(queue[q].events)
      <4>1. f.victim # tally + 1
        BY <1>2, <3>2
      <4>2. f.victim \in IdsOf(queue'[p].events)
        BY <1>10, <3>1
      <4> QED BY <1>3, <1>4, <1>6, <4>1, <4>2
    <3>4. p = q
      BY <1>2, <1>3, <3>3 DEF IdsApart
    <3>5. n \in DOMAIN stack' /\ stack'[n] = f
      BY <1>5, <1>8
    <3> QED BY <1>4, <3>1, <3>4, <3>5 DEF InHand
  <2> QED BY <2>1, <2>2
<1>11. \A a \in answered' : a[1] \in 1 .. tally'
  <2>1. \A a \in answered' : a[1] \in 1 .. tally
    BY <1>3, <1>4, <1>9 DEF AnswersInv, AnswersOK
  <2> QED BY <1>2, <1>6, <2>1
<1>12. AnswersOK'
  BY <1>7, <1>10, <1>11 DEF AnswersOK
<1>13. ASSUME NEW i \in DOMAIN stack', stack'[i].op = "deliver", stack'[i].stage = "accept",
              NEW e \in Members(queue'[stack'[i].queue].events), e.id = stack'[i].victim,
              e.accept # None, queue'[e.sender].status = "open", MaxEvents[e.sender] = 0
       PROVE  <<e.id, "accept">> \in answered'
  <2> DEFINE p == st[i].queue
  <2>1. i \in 1 .. n /\ stack'[i] = st[i]
    BY <1>8, <1>13
  <2>2. st[i] \in FrameType
    BY <1>5, <2>1
  <2>3. p \in Queue
    BY <1>13, <2>1, <2>2, FrameKinds DEF DeliverType
  <2>4. m.to \in Queue => p # m.to
    BY <1>1, <1>5, <1>13, <2>1, <2>3
  <2>5. e \in Members(queue[p].events)
    BY <1>6, <1>13, <2>1, <2>3, <2>4
  <2> HIDE DEF p
  <2>6. e.sender \in Queue
    BY <1>2, <1>13, <2>3, <2>5, AskerIsQueue
  <2>7. queue[e.sender].status = "open"
    BY <1>6, <1>13, <2>6
  <2>8. CASE i = n
    <3>1. p = q /\ e.id = f.victim /\ f.stage = "accept"
      BY <1>4, <1>5, <1>13, <2>1, <2>8 DEF p
    <3>2. e = EventAt(q, f.victim)
      BY <1>3, <1>4, <2>5, <3>1, EventAtIs
    <3>3. reply # None /\ m.to = e.sender
      BY <1>1, <1>4, <1>13, <3>1, <3>2
    <3>4. Sendable(queue, m)
      BY <1>13, <2>6, <2>7, <3>3 DEF Sendable
    <3> QED BY <1>9, <3>1, <3>4
  <2>9. CASE i # n
    <3>1. st[i] = stack[i] /\ i \in DOMAIN stack
      BY <1>5, <2>1, <2>9
    <3>2. <<e.id, "accept">> \in answered
      BY <1>13, <2>1, <2>5, <2>7, <3>1 DEF AnswersInv, ToldOK, ToBeTold, p
    <3> QED BY <3>2
  <2> QED BY <2>8, <2>9
<1>14. ToldOK'
  BY <1>13 DEF ToldOK, ToBeTold
<1> QED BY <1>12, <1>14 DEF AnswersInv

(* The top activation goes on with its scan, or returns; the event it was   *)
(* working on has left its queue, and nothing is sent.                      *)
Quiet ==
  /\ UNCHANGED tally
  /\ \A p \in Queue : p # Top.queue => queue'[p].events = queue[p].events
  /\ \A p \in Queue : queue'[p].status = queue[p].status
  /\ IdsOf(queue'[Top.queue].events) \subseteq Ids(Top.queue) \ {Top.victim}
  /\ stack' = Pop \/ \E f : f.stage = "scan" /\ stack' = SetTop(f)

LEMMA AnswerKept ==
  ASSUME NEW level \in [Queue -> Nat], QInv(level), AnswersInv,
         stack # <<>>, Top.op = "deliver", Quiet, answered' = answered, pc' = pc
  PROVE  AnswersInv'
<1> DEFINE n == Len(stack)
           q == Top.queue
<1>1. /\ stack \in Seq(FrameType) /\ n \in Nat /\ n # 0 /\ DOMAIN stack = 1 .. n /\ stack[n] = Top
      /\ StackSound(stack, queue, level)
  BY DEF QInv, StackSound, Top
<1>2. /\ tally' = tally
      /\ \A p \in Queue : p # q => queue'[p].events = queue[p].events
      /\ \A p \in Queue : queue'[p].status = queue[p].status
      /\ IdsOf(queue'[q].events) \subseteq IdsOf(queue[q].events) \ {Top.victim}
      /\ stack' = Pop \/ \E f : f.stage = "scan" /\ stack' = SetTop(f)
  BY DEF Quiet, Ids, IdsOf
<1>3. pc # "exit"
  BY DEF AnswersInv, AnswersOK
<1>4. \A i \in DOMAIN stack' : /\ i \in 1 .. n
                               /\ \/ i # n /\ stack'[i] = stack[i]
                                  \/ stack'[i].stage = "scan"
  <2>1. CASE stack' = Pop
    <3>1. \A i \in 1 .. n - 1 : stack[i] \in FrameType
      BY <1>1
    <3>2. DOMAIN stack' = 1 .. n - 1 /\ \A i \in 1 .. n - 1 : stack'[i] = stack[i]
      BY <1>1, <2>1, <3>1, SubSeqProperties DEF Pop
    <3> QED BY <1>1, <3>2
  <2>2. CASE \E f : f.stage = "scan" /\ stack' = SetTop(f)
    BY <1>1, <2>2 DEF SetTop
  <2> QED BY <1>2, <2>1, <2>2
<1>5. ASSUME NEW a \in answered, NEW p \in Queue, a[1] \in IdsOf(queue'[p].events)
      PROVE  InHand(stack', p, a[1])
  <2>1. a[1] \in IdsOf(queue[p].events) /\ ~(p = q /\ a[1] = Top.victim)
    BY <1>2, <1>5
  <2>2. InHand(stack, p, a[1])
    BY <1>3, <2>1 DEF AnswersInv, AnswersOK
  <2>3. ~(stack[Len(stack)].op = "deliver" /\ stack[Len(stack)].queue = p
            /\ stack[Len(stack)].victim = a[1])
    BY <1>1, <2>1
  <2>4. InHand(Pop, p, a[1]) /\ \A f : InHand(SetTop(f), p, a[1])
    BY <1>1, <2>2, <2>3, InHandStays DEF Pop, SetTop
  <2> QED BY <1>2, <2>4
<1>6. AnswersOK'
  BY <1>2, <1>3, <1>5 DEF AnswersInv, AnswersOK
<1> HIDE DEF n, q
<1>7. ASSUME NEW i \in DOMAIN stack', stack'[i].op = "deliver", stack'[i].stage = "accept",
             NEW e \in Members(queue'[stack'[i].queue].events), e.id = stack'[i].victim,
             e.accept # None, queue'[e.sender].status = "open", MaxEvents[e.sender] = 0
      PROVE  <<e.id, "accept">> \in answered
  <2> DEFINE p == stack[i].queue
  <2>1. i # n /\ i \in DOMAIN stack /\ stack'[i] = stack[i] /\ stack[i] \in FrameType
    BY <1>1, <1>4, <1>7
  <2>2. p \in Queue
    BY <1>7, <2>1, FrameKinds DEF DeliverType
  <2>3. p # q
    BY <1>1, <1>7, <2>1, OtherQueues DEF n, q
  <2>4. e \in Members(queue[p].events)
    BY <1>2, <1>7, <2>1, <2>2, <2>3
  <2>5. e.sender \in Queue
    BY <1>7, <2>2, <2>4, AskerIsQueue DEF QInv
  <2>6. queue[e.sender].status = "open"
    BY <1>2, <1>7, <2>5
  <2> QED BY <1>7, <2>1, <2>4, <2>6 DEF AnswersInv, ToldOK, ToBeTold
<1>8. ToldOK'
  BY <1>7 DEF ToldOK, ToBeTold
<1> QED BY <1>6, <1>8 DEF AnswersInv

(* An event that leaves its queue takes its identity along.                 *)
LEMMA DequeuedQuietly ==
  ASSUME NEW level \in [Queue -> Nat], QueuesOK(queue, level, tally),
         NEW q \in Queue, NEW id \in Ids(q), NEW timedToo \in BOOLEAN
  PROVE  /\ IdsOf(Dequeued(q, id, timedToo)[q].events) \subseteq Ids(q) \ {id}
         /\ \A p \in Queue : p # q => Dequeued(q, id, timedToo)[p].events = queue[p].events
         /\ \A p \in Queue : Dequeued(q, id, timedToo)[p].status = queue[p].status
<1> DEFINE rs == Dequeued(q, id, timedToo)
           e == EventAt(q, id)
           s == queue[q].events
<1>1. queue \in [Queue -> QueueType] /\ queue[q] \in QueueType
      /\ s \in Seq(EventType) /\ Increasing(s)
  BY DEF QueuesOK, QueueSound, QueueType
<1>2. /\ Members(rs[q].events) = Members(s) \ {e}
      /\ \A p \in Queue : p # q => rs[p].events = queue[p].events
  BY DequeuedMembers
<1>3. e \in Members(s) /\ e.id = id /\ \A f \in Members(s) : f.id = id => f = e
  BY <1>1, EventAtIs
<1>4. \A l : IdsOf(l) = {f.id : f \in Members(l)}
  BY DEF IdsOf, Members
<1>5. Ids(q) = {f.id : f \in Members(s)}
  BY <1>4 DEF Ids, IdsOf
<1> HIDE DEF e
<1>6. \A p \in Queue : rs[p].status = queue[p].status
  <2> DEFINE x == Unlink(queue[q].events, e)
             y == queue[q].cur_events - 1
             z == IF timedToo /\ e.timed THEN queue[q].timed_events - 1
                                         ELSE queue[q].timed_events
  <2>1. rs = [queue EXCEPT ![q].events = x, ![q].cur_events = y, ![q].timed_events = z]
    BY DEF Dequeued, e
  <2> HIDE DEF x, y, z, rs
  <2> QED BY <1>1, <2>1 DEF QueueType
<1> HIDE DEF rs, s
<1>7. IdsOf(rs[q].events) \subseteq Ids(q) \ {id}
  BY <1>2, <1>3, <1>4, <1>5
<1> QED BY <1>2, <1>6, <1>7 DEF rs

(* A step of queue_deliver sends an answer, or is quiet.                    *)
LEMMA DeliverAnswers ==
  ASSUME NEW level \in [Queue -> Nat], QInv(level), QueueStep
  PROVE  /\ stack # <<>> /\ Top.op = "deliver" /\ pc' = pc
         /\ Quiet \/ \E f, reply : Replies(f, reply)
<1>1. pc' = pc
  BY DEF QueueStep, RejectUndeclared, AcceptNull, Compare, TakeBest, NothingToDeliver,
         FinishReject, FinishNull, FinishAccept, exec
<1>2. QueuesOK(queue, level, tally) /\ StackSound(stack, queue, level)
  BY DEF QInv
<1>3. CASE (\E e : RejectUndeclared(e) \/ AcceptNull(e)) \/ TakeBest
  BY <1>1, <1>3, RefuseBegins, TakeBegins
<1>4. ASSUME NEW e, Compare(e)
      PROVE  stack # <<>> /\ Top.op = "deliver" /\ Quiet
  <2> DEFINE q == Top.queue
             s == queue[q].events
             r == IF e.priority = 0
                    THEN [e EXCEPT !.priority = MethodsOf(q)[e.name].priority,
                                   !.number = MethodsOf(q)[e.name].event] ELSE e
             i == PlaceOf(s, e)
             a == [s EXCEPT ![i] = r]
  <2>1. /\ stack # <<>> /\ Top.op = "deliver" /\ Top.stage = "scan" /\ Top.at # 0
        /\ e = EventAt(q, Top.at) /\ UNCHANGED tally
        /\ queue' = [queue EXCEPT ![q].events[i] = r]
    BY <1>4 DEF Compare, Looking, Scanning
  <2>2. /\ Top \in DeliverType /\ q \in Queue /\ queue \in [Queue -> QueueType]
        /\ FrameSound(Top, s) /\ queue[q] \in QueueType
        /\ s \in Seq(EventType) /\ Increasing(s) /\ IdsOf(s) = Ids(q)
        /\ \A x \in Ids(q) : x \in Nat /\ x # 0
    BY <2>1, TopQueue
  <2>3. Top.at \in Ids(q) /\ Top.victim = 0
    BY <2>1, <2>2 DEF FrameSound
  <2>4. e \in Members(s) /\ e \in EventType
    BY <2>1, <2>2, <2>3, EventAtIs
  <2>5. i \in DOMAIN s /\ s[i] = e
    BY <2>2, <2>4, PlaceOfMember
  <2>6. r.id = e.id
    <3> DEFINE x == MethodsOf(q)[e.name].priority
               y == MethodsOf(q)[e.name].event
    <3> HIDE DEF x, y
    <3>1. r = [e EXCEPT !.priority = x, !.number = y] \/ r = e
      BY DEF x, y
    <3> HIDE DEF r
    <3> QED BY <2>4, <3>1 DEF EventType
  <2> HIDE DEF r, i
  <2>7. IdsOf(a) = IdsOf(s)
    <3>1. DOMAIN a = DOMAIN s /\ \A j \in DOMAIN s : a[j].id = s[j].id
      BY <2>5, <2>6
    <3> HIDE DEF a, s
    <3> QED BY <3>1 DEF IdsOf
  <2>8. /\ queue'[q].events = a
        /\ \A p \in Queue : p # q => queue'[p].events = queue[p].events
        /\ \A p \in Queue : queue'[p].status = queue[p].status
    <3> DEFINE t == a
    <3>1. queue' = [queue EXCEPT ![q].events = t]
      BY <2>1
    <3> HIDE DEF t, q
    <3>2. /\ queue'[q].events = t
          /\ \A p \in Queue : p # q => queue'[p].events = queue[p].events
          /\ \A p \in Queue : queue'[p].status = queue[p].status
      BY <2>2, <3>1 DEF QueueType
    <3> QED BY <3>2 DEF t
  <2>9. \E f : f.stage = "scan" /\ stack' = SetTop(f)
    <3> DEFINE next == IdAfter(q, e.id)
               wins == Top.best = 0 \/ r.priority > EventAt(q, Top.best).priority
               best == IF wins THEN e.id ELSE Top.best
               f == [Top EXCEPT !.at = next, !.best = best]
    <3> HIDE DEF wins
    <3>1. stack' = SetTop([Top EXCEPT !.at = next, !.best = IF wins THEN e.id ELSE @])
      BY <1>4 DEF Compare, wins, r, i
    <3>2. stack' = SetTop(f)
      BY <3>1
    <3>3. f.stage = "scan"
      BY <2>1, <2>2 DEF DeliverType
    <3> HIDE DEF f
    <3> QED BY <3>2, <3>3
  <2> HIDE DEF a, s
  <2>10. IdsOf(queue'[q].events) \subseteq Ids(q) \ {Top.victim}
    BY <2>2, <2>3, <2>7, <2>8
  <2> QED BY <2>1, <2>8, <2>9, <2>10 DEF Quiet
<1>5. ASSUME FinishReject \/ FinishNull
      PROVE  stack # <<>> /\ Top.op = "deliver" /\ Quiet
  <2> DEFINE f == [Top EXCEPT !.stage = "scan", !.victim = 0]
  <2>1. /\ stack # <<>> /\ Top.op = "deliver" /\ Top.stage \in {"reject", "null"}
        /\ stack' = SetTop(f) /\ UNCHANGED tally
    BY <1>5 DEF FinishReject, FinishNull
  <2>2. PICK timedToo \in BOOLEAN : queue' = Dequeued(Top.queue, Top.victim, timedToo)
    BY <1>5 DEF FinishReject, FinishNull
  <2>3. Top.queue \in Queue /\ Top.victim \in Ids(Top.queue) /\ Top \in DeliverType
    BY <2>1, TopQueue DEF FrameSound
  <2>4. f.stage = "scan"
    BY <2>3 DEF DeliverType
  <2> HIDE DEF f
  <2> QED BY <1>2, <2>1, <2>2, <2>3, <2>4, DequeuedQuietly DEF Quiet
<1>6. ASSUME FinishAccept
      PROVE  stack # <<>> /\ Top.op = "deliver" /\ Quiet
  <2>1. /\ stack # <<>> /\ Top.op = "deliver" /\ Top.stage = "accept"
        /\ stack' = Pop /\ UNCHANGED tally
    BY <1>6 DEF FinishAccept
  <2>1a. PICK timedToo \in BOOLEAN : queue' = Dequeued(Top.queue, Top.victim, timedToo)
    BY <1>6 DEF FinishAccept
  <2>2. Top.queue \in Queue /\ Top.victim \in Ids(Top.queue)
    BY <2>1, TopQueue DEF FrameSound
  <2> QED BY <1>2, <2>1, <2>1a, <2>2, DequeuedQuietly DEF Quiet
<1>7. ASSUME NothingToDeliver
      PROVE  stack # <<>> /\ Top.op = "deliver" /\ Quiet
  <2>1. /\ stack # <<>> /\ Top.op = "deliver" /\ Top.stage = "scan"
        /\ stack' = Pop /\ UNCHANGED <<tally, queue>>
    BY <1>7 DEF NothingToDeliver, Scanning
  <2>2. Top.victim = 0 /\ 0 \notin Ids(Top.queue)
    BY <2>1, TopQueue DEF FrameSound
  <2> QED BY <2>1, <2>2 DEF Quiet, IdsOf, Ids
<1> QED BY <1>1, <1>3, <1>4, <1>5, <1>6, <1>7 DEF QueueStep

(* Nothing happens once the process has ended.                              *)
LEMMA EndedForGood ==
  ASSUME IInv, AnswersOK, [Next]_vars, pc = "exit"
  PROVE  UNCHANGED vars
<1>1. stack = <<>> /\ running = None /\ ControlOK
  BY DEF AnswersOK, IInv, ControlOK
<1>2. ~Exec
  BY <1>1, KernelAssumption
     DEF Exec, SmtExec, RequestAllThreadsShutdown, ShutdownQueue, ShutdownDone, PollDone,
         Dispatch, FetchEvent, FetchFailed, Terminate, EventOutOfRange, FirstList, NextList,
         HaveEvent, LeaveLoop, EndOfList, CallModule, InLoop, ModuleReturn, ReturnException,
         ReturnBreak, ReturnJump, ReturnPlain, Returning, Idling, WaitReturn, QueueStep,
         RejectUndeclared, AcceptNull, Compare, Looking, TakeBest, NothingToDeliver, Scanning,
         FinishReject, FinishNull, FinishAccept, SemaphDestroyStep, Here
<1>3. \A c : ~Anywhere(c)
  BY <1>1, CallsNotAfterExit
<1>4. ~UserCall
  BY <1>3 DEF UserCall, EventSend, SemaphCreate, SemaphWait, SemaphSignal, SemaphDestroy,
              ThreadCreate, ThreadDestroy, SmtShutdown, SetFlag, FlagCall, CallException,
              DialogReturn, DialogPop, DialogUnderflow, Anywhere
<1> QED BY <1>2, <1>4 DEF Next, HandleSignal, Finished

(* It ends between two modules, or drops what it was doing.                 *)
LEMMA EndsEmpty ==
  ASSUME [Next]_vars, pc # "exit", pc' = "exit"
  PROVE  stack' = <<>>
<1>1. CASE DialogUnderflow
  BY <1>1 DEF DialogUnderflow, InModule, nested
<1>2. CASE HandleSignal
  BY <1>2 DEF HandleSignal
<1>3. ~UserCall \/ DialogUnderflow
  BY DEF UserCall, EventSend, SemaphCreate, SemaphWait, SemaphSignal, SemaphDestroy,
         ThreadCreate, ThreadDestroy, SmtShutdown, SetFlag, CallException,
         DialogReturn, DialogPop, exec
<1>4. ~Exec
  BY DEF Exec, SmtExec, RequestAllThreadsShutdown, ShutdownQueue, ShutdownDone, PollDone,
         Dispatch, FetchEvent, FetchFailed, Terminate, EventOutOfRange, GiveUp, FirstList,
         NextList, LeaveLoop, EndOfList, CallModule, ModuleReturn, ReturnException,
         ReturnBreak, ReturnJump, ReturnPlain, Idling, WaitReturn, QueueStep,
         RejectUndeclared, AcceptNull, Compare, TakeBest, NothingToDeliver,
         FinishReject, FinishNull, FinishAccept, SemaphDestroyStep, exec
<1> QED BY <1>1, <1>2, <1>3, <1>4 DEF Next, Finished, vars, exec

(* The other steps send no answer and do not touch what is being answered.  *)
LEMMA OthersAnswer ==
  ASSUME NEW level \in [Queue -> Nat], IInv, QInv(level), AnswersInv, [Next]_vars,
         ~QueueStep, pc # "exit", answered' = IF Replying THEN answered \cup {Reply} ELSE answered
  PROVE  AnswersInv'
<1>1. QueuesOK(queue, level, tally) /\ StackSound(stack, queue, level) /\ tally \in Nat
      /\ queue \in [Queue -> QueueType]
  BY DEF QInv, QueuesOK
<1> DEFINE NoDelivery(st) == \A i \in DOMAIN st : st[i].op # "deliver"
           NoneAccepts(st) == \A i \in DOMAIN st : st[i].op = "deliver" => st[i].stage # "accept"
           Fewer == \A q \in Queue : IdsOf(queue'[q].events) \subseteq IdsOf(queue[q].events)
(* What the step does, in three kinds.                                      *)
<1>2. CASE UNCHANGED <<queue, tally, stack>> \/ (HandleSignal /\ stack' = <<>>)
  <2>1. tally' = tally /\ queue' = queue /\ (stack' = stack \/ (pc' = "exit" /\ stack' = <<>>))
    BY <1>2 DEF HandleSignal
  <2>2. answered' = answered
    BY <2>1 DEF Replying
  <2>3. pc' = "exit" => stack' = <<>>
    BY EndsEmpty
  <2>4. AnswersOK'
    BY <2>1, <2>2, <2>3 DEF AnswersInv, AnswersOK
  <2>5. ToldOK'
    BY <2>1, <2>2 DEF AnswersInv, ToldOK, ToBeTold
  <2> QED BY <2>4, <2>5 DEF AnswersInv
<1>3. ASSUME tally' = tally, Fewer, NoDelivery(stack), NoneAccepts(stack')
      PROVE  AnswersInv'
  <2>1. answered' = answered
    BY <1>3 DEF Replying
  <2>2. \A a \in answered, q \in Queue : a[1] \notin IdsOf(queue[q].events)
    BY <1>3 DEF AnswersInv, AnswersOK, InHand
  <2>3. pc' = "exit" => stack' = <<>>
    BY EndsEmpty
  <2>4. \A a \in answered', q \in Queue : a[1] \notin IdsOf(queue'[q].events)
    BY <1>3, <2>1, <2>2
  <2>5. AnswersOK'
    BY <1>3, <2>1, <2>3, <2>4 DEF AnswersInv, AnswersOK
  <2>6. ToldOK'
    BY <1>3 DEF ToldOK
  <2> QED BY <2>5, <2>6 DEF AnswersInv
<1>4. ASSUME NEW qs, QueuesOK(qs, level, tally), \A q \in Queue : qs[q].events = queue[q].events,
             NEW m, m.to \in Queue => m \in Message, Post(qs, m, stack), NoDelivery(stack)
      PROVE  AnswersInv'
  <2>1. Posted(qs, m, stack)
    BY <1>4, PostKeeps
  <2>2. tally' \in {tally, tally + 1}
        /\ \A q \in Queue : IdsOf(queue'[q].events) \subseteq IdsOf(queue[q].events) \cup {tally + 1}
    BY <1>4, <2>1 DEF Posted
  <2>3. answered' = answered
    <3>1. Len(stack) \in DOMAIN stack \/ stack = <<>>
      BY <1>1 DEF StackSound
    <3> QED BY <1>4, <3>1 DEF Replying, Scanning, Top
  <2>4. \A a \in answered : a[1] \in 1 .. tally /\ a[1] # tally + 1
    BY <1>1 DEF AnswersInv, AnswersOK
  <2>5. \A a \in answered, q \in Queue : a[1] \notin IdsOf(queue[q].events)
    BY <1>4 DEF AnswersInv, AnswersOK, InHand
  <2>6. \A a \in answered, q \in Queue : a[1] \notin IdsOf(queue'[q].events)
    BY <2>2, <2>4, <2>5
  <2>7. \A a \in answered : a[1] \in 1 .. tally'
    BY <1>1, <2>2, <2>4
  <2>8. pc' = "exit" => stack' = <<>>
    BY EndsEmpty
  <2>9. AnswersOK'
    BY <2>3, <2>6, <2>7, <2>8 DEF AnswersOK
  <2>10. NoneAccepts(stack')
    <3>1. stack \in Seq(FrameType)
      BY <1>1 DEF StackSound
    <3> QED BY <1>4, <2>1, <3>1 DEF Posted
  <2>11. ToldOK'
    BY <2>10 DEF ToldOK
  <2> QED BY <2>9, <2>11 DEF AnswersInv
<1>5. CASE EventSend
  <2>1. PICK m \in (IF running = None THEN OutsideMessages ELSE Messages[Agt(running)]) :
          Post(queue, m, stack)
    BY <1>5 DEF EventSend
  <2>2. stack = <<>>
    BY <1>5 DEF EventSend, Anywhere, InModule, Outside
  <2>3. m \in OutsideMessages \cup UNION {Messages[a] : a \in Agent}
    <3>1. running # None => Agt(running) \in Agent
      BY KernelAssumption DEF IInv, ControlOK, Busy, Alive, Agt
    <3> QED BY <2>1, <3>1
  <2>4. m \in Message
    BY <2>3, KernelAssumption
  <2>5. NoDelivery(stack)
    BY <2>2
  <2> HIDE DEF NoDelivery
  <2> QED BY <1>1, <1>4, <2>1, <2>4, <2>5
<1>6. ASSUME NEW q \in Queue, ShutdownQueue(q)
      PROVE  AnswersInv'
  <2> DEFINE qs == [queue EXCEPT ![q].shutdown = TRUE]
             m  == Msg(q, Shutdown)
  <2>1. stack # <<>> /\ Top.op = "shutdown" /\ Post(qs, m, stack)
    BY <1>6 DEF ShutdownQueue
  <2>2. NoDelivery(stack)
    BY <1>1, <2>1, AloneAtBottom
  <2>3. QueuesOK(qs, level, tally)
    BY <1>1, <1>6, ShutdownSent
  <2>4. m \in Message
    BY KernelAssumption DEF Msg, Message
  <2>5. \A p \in Queue : qs[p].events = queue[p].events
    BY <1>1 DEF QueueType
  <2> HIDE DEF qs, m, NoDelivery
  <2> QED BY <1>4, <2>1, <2>2, <2>3, <2>4, <2>5
<1>7. CASE OnlyThreadsChange
  <2>1. stack = <<>> /\ stack' = <<>> /\ tally' = tally
    BY <1>7 DEF OnlyThreadsChange, ThreadCreate, ThreadDestroy, Terminate, Anywhere, InModule,
           Outside, Here, nested
  <2>2. Fewer
    BY <1>1, <1>7, LifeEmpties
  <2>3. NoDelivery(stack) /\ NoneAccepts(stack')
    BY <2>1
  <2> HIDE DEF NoDelivery, NoneAccepts, Fewer
  <2> QED BY <1>3, <2>1, <2>2, <2>3
<1>8. CASE \/ \E s \in Semaph : SemaphDestroy(s)
           \/ RequestAllThreadsShutdown \/ WaitReturn \/ FetchEvent
           \/ SemaphDestroyStep \/ ShutdownDone
  <2>1. UNCHANGED <<queue, tally>>
    BY <1>8 DEF SemaphDestroy, RequestAllThreadsShutdown, WaitReturn, FetchEvent,
           SemaphDestroyStep, ShutdownDone
  <2>2. CASE stack' = stack
    BY <1>2, <2>1, <2>2
  <2>3. CASE stack' # stack
    <3>1. NoDelivery(stack)
      <4>1. \/ stack = <<>>
            \/ stack # <<>> /\ Top.op # "deliver"
        BY <1>8 DEF SemaphDestroy, Anywhere, InModule, Outside, RequestAllThreadsShutdown,
               WaitReturn, FetchEvent, Here, SemaphDestroyStep, ShutdownDone
      <4> QED BY <1>1, <4>1, AloneAtBottom
    <3>2. NoneAccepts(stack')
      <4>1. CASE SemaphDestroyStep \/ ShutdownDone
        <5>1. stack # <<>> /\ Top.op # "deliver" /\ stack' = Pop
          BY <2>3, <4>1 DEF SemaphDestroyStep, ShutdownDone
        <5>2. stack' = <<>>
          BY <1>1, <5>1, AloneAtBottom
        <5> QED BY <5>2
      <4>2. CASE RequestAllThreadsShutdown \/ WaitReturn
        <5>1. stack' = <<[op |-> "shutdown"]>>
          BY <2>3, <4>2 DEF RequestAllThreadsShutdown, WaitReturn
        <5> QED BY <5>1
      <4>3. ASSUME NEW s \in Semaph, SemaphDestroy(s)
            PROVE  NoneAccepts(stack')
        <5> DEFINE f == [op |-> "semaph_destroy", semaph |-> s]
        <5>1. stack = <<>> /\ stack' = Append(stack, f)
          BY <4>3 DEF SemaphDestroy, Anywhere, InModule, Outside
        <5>2. f.op # "deliver"
          OBVIOUS
        <5> HIDE DEF f
        <5> QED BY <5>1, <5>2
      <4>4. CASE FetchEvent
        <5> DEFINE at == IF queue[QueueOf[cur]].events = <<>> THEN 0
                         ELSE Head(queue[QueueOf[cur]].events).id
                   f == [DeliverFrame(QueueOf[cur], cur, FALSE) EXCEPT !.at = at]
        <5>1. stack' = <<f>>
          BY <4>4 DEF FetchEvent
        <5> HIDE DEF at
        <5>2. f.stage = "scan"
          BY DEF DeliverFrame
        <5> HIDE DEF f
        <5> QED BY <5>1, <5>2
      <4> QED BY <1>8, <4>1, <4>2, <4>3, <4>4
    <3> HIDE DEF NoDelivery, NoneAccepts
    <3> QED BY <1>3, <2>1, <3>1, <3>2
  <2> QED BY <2>2, <2>3
<1>9. CASE HandleSignal
  BY <1>2, <1>9 DEF HandleSignal
<1> QED BY <1>2, <1>5, <1>6, <1>7, <1>8, <1>9, StepKinds

(* Every step.                                                              *)
LEMMA AnswersStep ==
  ASSUME NEW level \in [Queue -> Nat], OrderRests(level), AnswersInv, [HNext]_hvars
  PROVE  AnswersInv'
<1>1. [Next]_vars /\ answered' = IF Replying THEN answered \cup {Reply} ELSE answered
  BY Recorded
<1>2. IInv /\ QInv(level) /\ OrderInv
  BY DEF OrderRests
<1>3. CASE pc = "exit"
  <2>1. UNCHANGED vars
    BY <1>1, <1>2, <1>3, EndedForGood DEF AnswersInv
  <2>2. UNCHANGED <<pc, stack, queue, tally>> /\ answered' = answered
    BY <1>1, <2>1 DEF vars, exec, nested, Replying
  <2> QED BY <2>2 DEF AnswersInv, AnswersOK, ToldOK, ToBeTold
<1>4. CASE pc # "exit" /\ QueueStep
  <2>1. /\ stack # <<>> /\ Top.op = "deliver" /\ pc' = pc
        /\ Quiet \/ \E f, reply : Replies(f, reply)
    BY <1>2, <1>4, DeliverAnswers
  <2>2. CASE Quiet
    <3>1. answered' = answered
      BY <1>1, <2>2 DEF Quiet, Replying
    <3> QED BY <1>2, <2>1, <2>2, <3>1, AnswerKept
  <2>3. CASE \E f, reply : Replies(f, reply)
    BY <1>1, <1>2, <2>1, <2>3, AnswerSent
  <2> QED BY <2>1, <2>2, <2>3
<1>5. CASE pc # "exit" /\ ~QueueStep
  BY <1>1, <1>2, <1>5, OthersAnswer
<1> QED BY <1>3, <1>4, <1>5

(* With its history the kernel keeps what the answers need.                 *)
THEOREM AnswersInvariance ==
  ASSUME NEW level \in [Queue -> Nat], RequestsGoUp(level)
  PROVE  HSpec => []OrderRests(level) /\ []AnswersInv
<1>1. HInit => Init /\ AnswersInv
  <2> SUFFICES ASSUME HInit PROVE Init /\ AnswersInv
    OBVIOUS
  <2>1. Init /\ answered = {} /\ stack = <<>>
    BY DEF HInit, Init
  <2> QED BY <2>1 DEF AnswersInv, AnswersOK, ToldOK
<1>2. OrderRests(level) /\ AnswersInv /\ [HNext]_hvars => AnswersInv'
  BY AnswersStep
<1>3. [HNext]_hvars => [Next]_vars
  BY Recorded
<1>4. Spec => []OrderRests(level)
  BY OrderInvariance
<1> QED BY <1>1, <1>2, <1>3, <1>4, PTL DEF HSpec, Spec

(* event_accept and event_reject: no event is answered twice, whatever the  *)
(* deliveries nested in the sending of its answer do.                       *)
THEOREM AnswersAreOnce ==
  ASSUME NEW level \in [Queue -> Nat], RequestsGoUp(level)
  PROVE  HSpec => AnsweredOnce
<1>1. ASSUME OrderRests(level), AnswersInv, [HNext]_hvars, Replying, NEW a \in answered
      PROVE  a[1] # Victim
  <2>1. [Next]_vars /\ IInv /\ QInv(level)
    BY <1>1, Recorded DEF OrderRests
  <2>2. stack # <<>> /\ Top.op = "deliver" /\ Top.stage = "scan" /\ tally' # tally
    BY <1>1 DEF Replying, Scanning
  <2>3. QueueStep
    BY <2>1, <2>2, StepKinds
       DEF EventSend, Anywhere, InModule, Outside, ShutdownQueue, OnlyThreadsChange,
           ThreadCreate, ThreadDestroy, Terminate, SemaphDestroy, RequestAllThreadsShutdown,
           WaitReturn, FetchEvent, SemaphDestroyStep, ShutdownDone, HandleSignal, nested
  <2>4. PICK f, reply : Replies(f, reply)
    BY <2>1, <2>2, <2>3, DeliverAnswers DEF Quiet
  <2>5. Victim = f.victim
    BY <2>1, <2>2, <2>4, ReplyIs
  <2> SUFFICES ASSUME a[1] = f.victim PROVE FALSE
    BY <2>5
  <2>6. f.queue = Top.queue /\ f.stage # "scan" /\ FrameSound(f, queue[f.queue].events)
    BY <2>4 DEF Replies
  <2>7. f.victim # 0 /\ f.victim \in IdsOf(queue[Top.queue].events) /\ Top.queue \in Queue
        /\ Top.victim = 0
    BY <2>1, <2>2, <2>6, TopQueue DEF FrameSound
  <2>8. pc # "exit"
    BY <1>1, <2>2 DEF AnswersInv, AnswersOK
  <2>9. InHand(stack, Top.queue, f.victim)
    BY <1>1, <2>7, <2>8 DEF AnswersInv, AnswersOK
  <2>10. PICK i \in DOMAIN stack :
           stack[i].op = "deliver" /\ stack[i].queue = Top.queue /\ stack[i].victim = f.victim
    BY <2>9 DEF InHand
  <2>11. i = Len(stack)
    BY <2>1, <2>2, <2>10, OtherQueues DEF QInv, Top
  <2> QED BY <2>7, <2>10, <2>11 DEF Top
<1>2. OrderRests(level) /\ AnswersInv /\ [HNext]_hvars
        => (Replying => \A a \in answered : a[1] # Victim)
  BY <1>1
<1>3. HSpec => []OrderRests(level) /\ []AnswersInv
  BY AnswersInvariance
<1> QED BY <1>2, <1>3, PTL DEF HSpec, AnsweredOnce

(* queue_deliver: the client that asked for it hears that its event was     *)
(* accepted before a thread is given the event.                             *)
THEOREM AcceptancesAreAnswered ==
  ASSUME NEW level \in [Queue -> Nat], RequestsGoUp(level)
  PROVE  HSpec => AcceptedIsAnswered
<1> DEFINE Told ==
             \A q \in Queue : \A e \in Members(queue[q].events) :
               /\ e.accept # None
               /\ queue[e.sender].status = "open"
               /\ MaxEvents[e.sender] = 0
               /\ \E t \in Thread : /\ ctx'[t].event # ctx[t].event
                                    /\ ctx'[t].event # None
                                    /\ ctx'[t].event.id = e.id
               => <<e.id, "accept">> \in answered
<1>1. OrderRests(level) /\ AnswersInv /\ [HNext]_hvars => Told
  <2> SUFFICES ASSUME OrderRests(level), AnswersInv, [HNext]_hvars,
                      NEW q \in Queue, NEW e \in Members(queue[q].events), ToBeTold(e),
                      NEW t \in Thread, ctx'[t].event # ctx[t].event, ctx'[t].event # None,
                      ctx'[t].event.id = e.id
               PROVE  <<e.id, "accept">> \in answered
    BY DEF ToBeTold
  <2>1. [Next]_vars
    BY Recorded
  <2>2. FinishAccept
    BY <2>1, EventGiven DEF OrderRests
  <2>3. /\ Top.op = "deliver" /\ Top.stage = "accept" /\ Len(stack) \in DOMAIN stack
        /\ q = Top.queue /\ e.id = Top.victim
    BY <2>2, GivenIsVictim DEF OrderRests
  <2> QED BY <2>3 DEF AnswersInv, ToldOK, Top
<1>2. HSpec => []OrderRests(level) /\ []AnswersInv
  BY AnswersInvariance
<1> QED BY <1>1, <1>2, PTL DEF HSpec, AcceptedIsAnswered
=============================================================================
