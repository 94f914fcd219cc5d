------------------------------ MODULE SmtKernel ------------------------------
(***************************************************************************)
(* The SMT multi-threading kernel (libsmt/smtlib.c): agents, threads,      *)
(* event queues, semaphores and the dispatch loop smt_exec.                *)
(*                                                                         *)
(* SMT threads are not OS threads.  A thread is a finite-state dialog; for *)
(* a state and an event the dialog gives a list of action modules (C       *)
(* functions) and the next state.  smt_exec runs the modules of the first  *)
(* thread of the active list one by one.  A module calls the kernel: it    *)
(* may send events, wait on semaphores, raise exceptions.  Some calls only *)
(* set a global flag, which smt_exec reads when the module has returned.   *)
(*                                                                         *)
(* Modelled as values: an event body does not matter; an action module is  *)
(* any sequence of at most MaxCalls of the calls its agent may make; the   *)
(* tables of a dialog are a constant (`defaults' state already resolved).  *)
(* Timer functions, polling functions and the wait function are user code  *)
(* that makes calls at `poll' and at `wait' of the loop.                   *)
(*                                                                         *)
(* Sending an event may deliver one, and delivering one may send a reply,  *)
(* so event_send and queue_deliver are mutually recursive.  `stack' holds  *)
(* their activations; while it is not empty nothing else runs.             *)
(***************************************************************************)
EXTENDS SmtLists, FiniteSets

CONSTANTS
  Agent, Queue, Thread, Semaph,   \* identities: blocks that may be allocated
  Name,                           \* names of events and methods
  Event, State,                   \* the numbers of the dialogs' tables
  NullEvent, TermEvent, BadEvent, \* SMT_NULL_EVENT, SMT_TERM_EVENT, out of range
  NullState,                      \* SMT_NULL_STATE: the thread is fresh
  FirstState,                     \* state 0
  None,                           \* a null pointer
  Shutdown,                       \* the name of the event "SMTLIB SHUTDOWN"
  AgentOf,        \* [Queue -> Agent]
  QueueOf,        \* [Thread -> Queue]: same queue, same router and name
  Priority,       \* [Agent -> Nat]
  MaxThreads,     \* [Agent -> Nat], 0 = no limit
  MaxEvents,      \* [Queue -> Nat], 0 = no limit
  Methods,        \* [Agent -> [subset of Name -> [event, priority]]]
  Dialog,         \* [Agent -> [subset of State \X Event -> [modules, next, supply]]]
  InitEvents,     \* [Agent -> set of events the initialise hook may set]
  InitValue,      \* [Semaph -> Nat \ {0}]
  Calls,          \* [Agent -> set of the kernel calls its modules make]
  OutsideCalls,   \* ["main", "poll", "wait" -> set of calls made there]
  Choices,        \* [Agent -> set of events its modules supply]
  Raised,         \* [Agent -> set of events its modules raise]
  Messages,       \* [Agent -> set of the messages its modules send]
  OutsideMessages,\* set of the messages sent from outside any module
  WaitFn,         \* whether a blocking function is registered
  LastStatement,  \* whether a call that breaks or raises ends its module
  MaxCalls,       \* bound: calls per module, and per stay at poll or wait
  MaxValue,       \* bound: value a signal may raise a semaphore to
  MaxSends,       \* bound: sends by modules and callbacks
  MaxLocations,   \* bound: depth of a dialog's call stack
  MaxSignals      \* bound: signals the process receives

VARIABLES
  active,         \* active_threads
  waiting,        \* waiting_threads
  waiters,        \* semaph-> threads
  state,          \* thread-> state, "none" before and "dead" after its life
  ctx,            \* the dialog context of each thread
  threads,        \* queue-> threads
  queue,          \* the rest of each queue
  live,           \* the semaphores that exist
  value,          \* semaph-> value
  pc,             \* where smt_exec is
  cur,            \* its local `thread'
  running,        \* the thread whose module is being called
  flags,          \* _exception_raised, break_wanted, _dialog_jump and partners
  shutdown_request,
  waitfn,         \* whether the blocking function is still registered
  signals,        \* signals received so far
  stack,          \* activations of queue_deliver and of the shutdown loop
  delivered,      \* the value the last queue_deliver returned
  tally,          \* events sent so far; the last one's identity
  calls           \* calls made by the user code now running

lists  == <<active, waiting, waiters, state>>
sems   == <<live, value>>
exec   == <<pc, cur, running, flags>>
global == <<shutdown_request, waitfn, signals>>
nested == <<stack, delivered, tally>>
vars   == <<lists, ctx, threads, queue, sems, exec, global, nested, calls>>

-----------------------------------------------------------------------------
(* Data.                                                                    *)

Agt(t)  == AgentOf[QueueOf[t]]
rank    == [t \in Thread |-> Priority[Agt(t)]]
Alive   == {t \in Thread : state[t] \notin {"none", "dead"}}
NextEvents == Event \cup {NullEvent, TermEvent, BadEvent}

Message == [to : Queue \cup {None}, from : Queue \cup {None}, name : Name,
            accept : Name \cup {None}, reject : Name \cup {None}, timed : BOOLEAN]

ASSUME KernelAssumption ==
  /\ AgentOf \in [Queue -> Agent]
  /\ QueueOf \in [Thread -> Queue]
  /\ Priority \in [Agent -> Nat]
  /\ MaxThreads \in [Agent -> Nat]
  /\ MaxEvents \in [Queue -> Nat]
  /\ InitValue \in [Semaph -> Nat \ {0}]
  /\ FirstState \in State
  /\ NullState \notin State
  /\ {NullEvent, TermEvent, BadEvent} \cap Event = {}
  /\ Cardinality({NullEvent, TermEvent, BadEvent}) = 3
  /\ None \notin Thread \cup Queue \cup Semaph \cup Name
  /\ Shutdown \in Name
  /\ \A a \in Agent :
       /\ \A n \in DOMAIN Methods[a] : /\ n \in Name
                                      /\ Methods[a][n].priority \in Nat \ {0}
                                      /\ Methods[a][n].event \in Event \cup {NullEvent}
       /\ \A se \in DOMAIN Dialog[a] : /\ se \in State \X Event
                                      /\ Dialog[a][se].modules \in Nat
                                      /\ Dialog[a][se].next \in State
                                      /\ Dialog[a][se].supply \in NextEvents
       /\ InitEvents[a] \subseteq NextEvents
       /\ Choices[a] \subseteq NextEvents
       /\ Raised[a] \subseteq Event
       /\ Messages[a] \subseteq Message
  /\ OutsideMessages \subseteq Message
  /\ DOMAIN OutsideCalls \subseteq {"main", "poll", "wait"}
  /\ WaitFn \in BOOLEAN
  /\ LastStatement \in BOOLEAN
  /\ {MaxCalls, MaxValue, MaxSends, MaxLocations, MaxSignals} \subseteq Nat

(* A message is what event_send is given; `to' may be the null queue.       *)
Msg(to, name) ==
  [to |-> to, from |-> None, name |-> name, accept |-> None, reject |-> None,
   timed |-> FALSE]

FreshCtx ==
  [LR_state |-> NullState, LR_event |-> NullEvent, LR_number |-> 0,
   the_next_event |-> NullEvent, event |-> None, LR_location_stack |-> <<>>]

NoFlags ==
  [break_wanted |-> "continue", break_semaph |-> None,
   exception_raised |-> FALSE, the_exception_event |-> NullEvent,
   dialog_jump |-> FALSE, the_next_event |-> NullEvent]

(* The module list of a context; index 0, the list of a thread that has     *)
(* none yet, is empty.                                                      *)
Accepts(t, c)  == <<c.LR_state, c.LR_event>> \in DOMAIN Dialog[Agt(t)]
Modules(t, c)  == IF Accepts(t, c)
                    THEN Dialog[Agt(t)][c.LR_state, c.LR_event].modules ELSE 0

(* The states an exhausted list may lead to.  With LR_event never set, the  *)
(* table is read before its first element: any number may come back.        *)
NextStates(t, c) == IF Accepts(t, c)
                      THEN {Dialog[Agt(t)][c.LR_state, c.LR_event].next} ELSE State

Ids(q)     == {queue[q].events[i].id : i \in DOMAIN queue[q].events}
EventAt(q, id) == CHOOSE e \in Members(queue[q].events) : e.id = id
IdAfter(q, id) ==
  LET later == {i \in DOMAIN queue[q].events : queue[q].events[i].id > id}
  IN  IF later = {} THEN 0
      ELSE queue[q].events[CHOOSE i \in later : \A j \in later : i <= j].id

Top == stack[Len(stack)]
Pop == SubSeq(stack, 1, Len(stack) - 1)
SetTop(f) == [stack EXCEPT ![Len(stack)] = f]

DeliverFrame(q, t, wake) ==
  [op |-> "deliver", queue |-> q, thread |-> t, wake |-> wake,
   stage |-> "scan", at |-> 0, best |-> 0, victim |-> 0]

-----------------------------------------------------------------------------
(* The lists of threads.                                                    *)

UnlinkedWaiters(t) == [s \in Semaph |-> Unlink(waiters[s], t)]

(* Mutant: the thread is linked to the active list, never unlinked.         *)
ActivateLinkedOnly(t) ==
  /\ active'  = Requeue(active, rank, t)
  /\ waiting' = Unlink(waiting, t)
  /\ state'   = [state EXCEPT ![t] = "active"]
  /\ UNCHANGED waiters

Activate(t) ==
  /\ active'  = Requeue(active, rank, t)
  /\ waiting' = Unlink(waiting, t)
  /\ waiters' = UnlinkedWaiters(t)
  /\ state'   = [state EXCEPT ![t] = "active"]

(* Mutant: last come, first served.                                         *)
SuspendFirst(t, why, s) ==
  /\ active'  = Unlink(active, t)
  /\ waiting' = IF why = "wait_event" THEN Append(Unlink(waiting, t), t)
                                      ELSE Unlink(waiting, t)
  /\ waiters' = IF why = "wait_semaph" THEN [waiters EXCEPT ![s] = <<t>> \o @]
                                       ELSE waiters
  /\ state'   = [state EXCEPT ![t] = why]

(* suspend_thread, and for a semaphore s the relink smt_exec adds to it.    *)
Suspend(t, why, s) ==
  /\ active'  = Unlink(active, t)
  /\ waiting' = IF why = "wait_event" THEN Append(Unlink(waiting, t), t)
                                      ELSE Unlink(waiting, t)
  /\ waiters' = IF why = "wait_semaph"
                  THEN [UnlinkedWaiters(t) EXCEPT ![s] = Append(@, t)]
                  ELSE UnlinkedWaiters(t)
  /\ state'   = [state EXCEPT ![t] = why]

(* Mutant: a thread that dies is only taken off the active list.            *)
DestroyActiveOnly(t) ==
  /\ active'  = Unlink(active, t)
  /\ state'   = [state EXCEPT ![t] = "dead"]
  /\ ctx'     = [ctx EXCEPT ![t] = FreshCtx]
  /\ threads' = [threads EXCEPT ![QueueOf[t]] = Unlink(@, t)]
  /\ UNCHANGED <<waiting, waiters, queue>>

(* thread_destroy with cleanup: the last thread takes the queue, and the    *)
(* events in it, along.                                                     *)
Destroy(t) ==
  LET q    == QueueOf[t]
      left == Unlink(threads[q], t)
  IN  /\ active'  = Unlink(active, t)
      /\ waiting' = Unlink(waiting, t)
      /\ waiters' = UnlinkedWaiters(t)
      /\ state'   = [state EXCEPT ![t] = "dead"]
      /\ ctx'     = [ctx EXCEPT ![t] = FreshCtx]
      /\ threads' = [threads EXCEPT ![q] = left]
      /\ queue'   = IF left = <<>>
                      THEN [queue EXCEPT ![q].status = "closed",
                                         ![q].events = <<>>, ![q].cur_events = 0]
                      ELSE queue

-----------------------------------------------------------------------------
(* Events.                                                                  *)

(* Mutant: only threads in event_wait are looked for.                       *)
IdleInWait(q) == {i \in DOMAIN threads[q] : state[threads[q][i]] = "wait_event"}

Idle(q) == {i \in DOMAIN threads[q] : state[threads[q][i]] \in {"passive", "wait_event"}}

(* event_send: queue m on qs, and try to deliver to the first idle thread   *)
(* of the target.  A null target is ignored; an unknown or full queue is an *)
(* error that leaves everything alone.  `rest' is the caller's stack.       *)
Sendable(qs, m) ==
  /\ m.to \in Queue
  /\ qs[m.to].status = "open"
  /\ ~(MaxEvents[m.to] > 0 /\ MaxEvents[m.to] = qs[m.to].cur_events)

Post(qs, m, rest) ==
  IF ~Sendable(qs, m)
    THEN queue' = qs /\ stack' = rest /\ UNCHANGED tally
    ELSE LET e == [id |-> tally + 1, name |-> m.name, sender |-> m.from,
                   accept |-> IF m.from = None THEN None ELSE m.accept,
                   reject |-> IF m.from = None THEN None ELSE m.reject,
                   timed |-> m.timed, priority |-> 0, number |-> NullEvent]
             q == [qs EXCEPT ![m.to].events = Append(@, e),
                             ![m.to].cur_events = @ + 1,
                             ![m.to].timed_events = IF m.timed THEN @ + 1 ELSE @]
             i == CHOOSE k \in Idle(m.to) : \A j \in Idle(m.to) : k <= j
         IN  /\ tally' = e.id
             /\ queue' = q
             /\ stack' = IF Idle(m.to) = {} THEN rest
                         ELSE Append(rest,
                                [DeliverFrame(m.to, threads[m.to][i], TRUE)
                                   EXCEPT !.at = Head(q[m.to].events).id])

(* Mutants: an event that leaves is counted twice, or not at all.           *)
DequeuedTwice(q, id, timedToo) ==
  [queue EXCEPT ![q].events = Unlink(@, EventAt(q, id)), ![q].cur_events = @ - 2]
DequeuedUncounted(q, id, timedToo) ==
  [queue EXCEPT ![q].events = Unlink(@, EventAt(q, id))]

Dequeued(q, id, timedToo) ==
  LET e == EventAt(q, id)
  IN  [queue EXCEPT ![q].events = Unlink(@, e),
                    ![q].cur_events = @ - 1,
                    ![q].timed_events = IF timedToo /\ e.timed THEN @ - 1 ELSE @]

(* queue_deliver.  The scan looks up each event it meets for the first      *)
(* time: an undeclared one is rejected, one whose method has no event is    *)
(* accepted and freed, any other competes, the first of the highest         *)
(* priority wins.  A reply is sent before its event leaves the queue.       *)
Scanning == /\ stack # <<>>
            /\ Top.op = "deliver"
            /\ Top.stage = "scan"

Begin(f, reply) ==
  Post(queue,
       Msg(IF reply = None THEN None ELSE EventAt(f.queue, f.victim).sender, reply),
       SetTop(f))

Looking(e) == /\ Scanning
              /\ Top.at # 0
              /\ e = EventAt(Top.queue, Top.at)

MethodsOf(q) == Methods[AgentOf[q]]

(* Mutant: the place in the queue is not kept.                              *)
RejectInPlace(e) ==
  /\ Looking(e)
  /\ e.priority = 0
  /\ e.name \notin DOMAIN MethodsOf(Top.queue)
  /\ Begin([Top EXCEPT !.stage = "reject", !.victim = e.id], e.reject)
  /\ UNCHANGED <<lists, ctx, threads, sems, exec, global, delivered, calls>>

RejectUndeclared(e) ==
  /\ Looking(e)
  /\ e.priority = 0
  /\ e.name \notin DOMAIN MethodsOf(Top.queue)
  /\ Begin([Top EXCEPT !.stage = "reject", !.victim = e.id,
                       !.at = IdAfter(Top.queue, e.id)], e.reject)
  /\ UNCHANGED <<lists, ctx, threads, sems, exec, global, delivered, calls>>

AcceptNull(e) ==
  /\ Looking(e)
  /\ e.priority = 0
  /\ e.name \in DOMAIN MethodsOf(Top.queue)
  /\ MethodsOf(Top.queue)[e.name].event = NullEvent
  /\ Begin([Top EXCEPT !.stage = "null", !.victim = e.id,
                       !.at = IdAfter(Top.queue, e.id)], e.accept)
  /\ UNCHANGED <<lists, ctx, threads, sems, exec, global, delivered, calls>>

(* Mutant: of events of one priority the last wins.                         *)
CompareLast(e) ==
  /\ Looking(e)
  /\ e.name \in DOMAIN MethodsOf(Top.queue)
  /\ MethodsOf(Top.queue)[e.name].event # NullEvent
  /\ LET m == MethodsOf(Top.queue)[e.name]
         r == [e EXCEPT !.priority = m.priority, !.number = m.event]
         i == PlaceOf(queue[Top.queue].events, e)
         wins == Top.best = 0 \/ r.priority >= EventAt(Top.queue, Top.best).priority
     IN  /\ queue' = [queue EXCEPT ![Top.queue].events[i] = r]
         /\ stack' = SetTop([Top EXCEPT !.at = IdAfter(Top.queue, e.id),
                                        !.best = IF wins THEN e.id ELSE @])
  /\ UNCHANGED <<lists, ctx, threads, sems, exec, global, delivered, tally, calls>>

Compare(e) ==
  /\ Looking(e)
  /\ e.priority = 0 => /\ e.name \in DOMAIN MethodsOf(Top.queue)
                      /\ MethodsOf(Top.queue)[e.name].event # NullEvent
  /\ LET m == MethodsOf(Top.queue)[e.name]
         r == IF e.priority = 0
                THEN [e EXCEPT !.priority = m.priority, !.number = m.event] ELSE e
         i == PlaceOf(queue[Top.queue].events, e)
         wins == Top.best = 0 \/ r.priority > EventAt(Top.queue, Top.best).priority
     IN  /\ queue' = [queue EXCEPT ![Top.queue].events[i] = r]
         /\ stack' = SetTop([Top EXCEPT !.at = IdAfter(Top.queue, e.id),
                                        !.best = IF wins THEN e.id ELSE @])
  /\ UNCHANGED <<lists, ctx, threads, sems, exec, global, delivered, tally, calls>>

(* Mutant: the acceptance is not sent.                                      *)
TakeSilently ==
  /\ Scanning
  /\ Top.at = 0
  /\ Top.best # 0
  /\ LET e == EventAt(Top.queue, Top.best)
     IN  /\ ctx' = [ctx EXCEPT ![Top.thread].event = None,
                               ![Top.thread].the_next_event = e.number]
         /\ Begin([Top EXCEPT !.stage = "accept", !.victim = e.id], None)
  /\ UNCHANGED <<lists, threads, sems, exec, global, delivered, calls>>

TakeBest ==
  /\ Scanning
  /\ Top.at = 0
  /\ Top.best # 0
  /\ LET e == EventAt(Top.queue, Top.best)
     IN  /\ ctx' = [ctx EXCEPT ![Top.thread].event = None,
                               ![Top.thread].the_next_event = e.number]
         /\ Begin([Top EXCEPT !.stage = "accept", !.victim = e.id], e.accept)
  /\ UNCHANGED <<lists, threads, sems, exec, global, delivered, calls>>

NothingToDeliver ==
  /\ Scanning
  /\ Top.at = 0
  /\ Top.best = 0
  /\ stack' = Pop
  /\ delivered' = FALSE
  /\ UNCHANGED <<lists, ctx, threads, queue, sems, exec, global, tally, calls>>

(* event_reject ends in event_discard, which does not count timed events.   *)
FinishReject ==
  /\ stack # <<>>
  /\ Top.op = "deliver"
  /\ Top.stage = "reject"
  /\ queue' = Dequeued(Top.queue, Top.victim, FALSE)
  /\ stack' = SetTop([Top EXCEPT !.stage = "scan", !.victim = 0])
  /\ UNCHANGED <<lists, ctx, threads, sems, exec, global, delivered, tally, calls>>

(* Mutant: the event stays in the queue.                                    *)
FinishNullKept ==
  /\ stack # <<>>
  /\ Top.op = "deliver"
  /\ Top.stage = "null"
  /\ stack' = SetTop([Top EXCEPT !.stage = "scan", !.victim = 0])
  /\ UNCHANGED <<lists, ctx, threads, queue, sems, exec, global, delivered, tally, calls>>

FinishNull ==
  /\ stack # <<>>
  /\ Top.op = "deliver"
  /\ Top.stage = "null"
  /\ queue' = Dequeued(Top.queue, Top.victim, TRUE)
  /\ stack' = SetTop([Top EXCEPT !.stage = "scan", !.victim = 0])
  /\ UNCHANGED <<lists, ctx, threads, sems, exec, global, delivered, tally, calls>>

(* The event goes to the thread; event_send then activates it.              *)
FinishAccept ==
  /\ stack # <<>>
  /\ Top.op = "deliver"
  /\ Top.stage = "accept"
  /\ LET e == EventAt(Top.queue, Top.victim)
     IN  ctx' = [ctx EXCEPT ![Top.thread].event = [id |-> e.id, name |-> e.name]]
  /\ queue' = Dequeued(Top.queue, Top.victim, TRUE)
  /\ stack' = Pop
  /\ delivered' = TRUE
  /\ IF Top.wake THEN Activate(Top.thread) ELSE UNCHANGED lists
  /\ UNCHANGED <<threads, sems, exec, global, tally, calls>>

QueueStep ==
  \/ \E q \in Queue : \E e \in Members(queue[q].events) :
       RejectUndeclared(e) \/ AcceptNull(e) \/ Compare(e)
  \/ TakeBest
  \/ NothingToDeliver
  \/ FinishReject
  \/ FinishNull
  \/ FinishAccept

-----------------------------------------------------------------------------
(* Calls made by user code: by the module of `running', or from outside.    *)

NothingPending ==
  /\ flags.break_wanted = "continue"
  /\ ~flags.exception_raised
  /\ ~flags.dialog_jump

InModule(c) ==
  /\ stack = <<>>
  /\ running # None
  /\ c \in Calls[Agt(running)]
  /\ LastStatement => NothingPending
  /\ calls < MaxCalls
  /\ calls' = calls + 1

Outside(c) ==
  /\ stack = <<>>
  /\ running = None
  /\ pc \in DOMAIN OutsideCalls
  /\ c \in OutsideCalls[pc]
  /\ IF pc = "main" THEN UNCHANGED calls ELSE calls < MaxCalls /\ calls' = calls + 1

Anywhere(c) == InModule(c) \/ Outside(c)

EventSend ==
  /\ Anywhere("event_send")
  /\ tally < MaxSends
  /\ \E m \in IF running = None THEN OutsideMessages ELSE Messages[Agt(running)] :
       Post(queue, m, stack)
  /\ UNCHANGED <<lists, ctx, threads, sems, exec, global, delivered>>

SemaphCreate(s) ==
  /\ Anywhere("semaph_create")
  /\ s \notin live
  /\ live' = live \cup {s}
  /\ value' = [value EXCEPT ![s] = InitValue[s]]
  /\ UNCHANGED <<lists, ctx, threads, queue, exec, global, nested>>

SemaphWait(s) ==
  /\ InModule("semaph_wait")
  /\ s \in live
  /\ IF value[s] > 0
       THEN value' = [value EXCEPT ![s] = @ - 1] /\ UNCHANGED flags
       ELSE /\ flags' = [flags EXCEPT !.break_wanted = "wait_semaph",
                                      !.break_semaph = s]
            /\ UNCHANGED value
  /\ UNCHANGED <<lists, ctx, threads, queue, live, pc, cur, running, global, nested>>

(* Mutant: the unit goes to the waiter and to the value.                    *)
SemaphSignalBoth(s) ==
  /\ Anywhere("semaph_signal")
  /\ s \in live
  /\ value[s] < MaxValue
  /\ value' = [value EXCEPT ![s] = @ + 1]
  /\ IF waiters[s] # <<>> THEN Activate(Head(waiters[s])) ELSE UNCHANGED lists
  /\ UNCHANGED <<ctx, threads, queue, live, exec, global, nested>>

SemaphSignal(s) ==
  /\ Anywhere("semaph_signal")
  /\ s \in live
  /\ value[s] < MaxValue
  /\ IF value[s] + 1 > 0 /\ waiters[s] # <<>>
       THEN Activate(Head(waiters[s])) /\ UNCHANGED value
       ELSE value' = [value EXCEPT ![s] = @ + 1] /\ UNCHANGED lists
  /\ UNCHANGED <<ctx, threads, queue, live, exec, global, nested>>

(* semaph_destroy runs every waiter, one by one, and then frees the block.  *)
SemaphDestroy(s) ==
  /\ Anywhere("semaph_destroy")
  /\ s \in live
  /\ stack' = Append(stack, [op |-> "semaph_destroy", semaph |-> s])
  /\ UNCHANGED <<lists, ctx, threads, queue, sems, exec, global, delivered, tally>>

SemaphDestroyStep ==
  /\ stack # <<>>
  /\ Top.op = "semaph_destroy"
  /\ IF waiters[Top.semaph] # <<>>
       THEN Activate(Head(waiters[Top.semaph])) /\ UNCHANGED <<live, stack>>
       ELSE live' = live \ {Top.semaph} /\ stack' = Pop /\ UNCHANGED lists
  /\ UNCHANGED <<ctx, threads, queue, value, exec, global, delivered, tally, calls>>

(* thread_create: the threads of one router name share a queue.  A queue    *)
(* once closed never comes back: its identifier is not used again.          *)
ThreadCreate(t) ==
  LET q == QueueOf[t]
      a == Agt(t)
  IN  /\ Anywhere("thread_create")
      /\ state[t] = "none"
      /\ queue[q].status # "closed"
      /\ ~(MaxThreads[a] > 0 /\ MaxThreads[a] = Cardinality({u \in Alive : Agt(u) = a}))
      /\ Activate(t)
      /\ ctx' = [ctx EXCEPT ![t] = FreshCtx]
      /\ threads' = [threads EXCEPT ![q] = Append(@, t)]
      /\ queue' = [queue EXCEPT ![q].status = "open"]
      /\ UNCHANGED <<sems, exec, global, nested>>

(* A module may destroy any thread but its own.                             *)
ThreadDestroy(t) ==
  /\ Anywhere("thread_destroy")
  /\ t \in Alive
  /\ t # running
  /\ Destroy(t)
  /\ UNCHANGED <<sems, exec, global, nested>>

SmtShutdown ==
  /\ Anywhere("smt_shutdown")
  /\ shutdown_request' = TRUE
  /\ UNCHANGED <<lists, ctx, threads, queue, sems, exec, waitfn, signals, nested>>

(* The calls that only set what smt_exec reads afterwards.                  *)
FlagCall ==
  \/ /\ InModule("the_next_event")
     /\ \E e \in Choices[Agt(running)] : flags' = [flags EXCEPT !.the_next_event = e]
  \/ /\ InModule("raise_exception")
     /\ \E e \in Raised[Agt(running)] :
          flags' = [flags EXCEPT !.exception_raised = TRUE, !.the_exception_event = e]
  \/ /\ InModule("event_wait")
     /\ flags' = [flags EXCEPT !.break_wanted = "wait_event"]
  \/ /\ InModule("recycle_module")
     /\ \E wanted \in BOOLEAN :
          flags' = [flags EXCEPT !.break_wanted = IF wanted THEN "recycle" ELSE "continue"]

SetFlag == FlagCall /\ UNCHANGED <<lists, ctx, threads, queue, sems, pc, cur, running,
                                   global, nested>>

(* The call stack of a dialog: call_exception stacks the position after the *)
(* calling module, dialog_return goes back to it, dialog_pop forgets it.    *)
(* Mutant, of Location: the module after the next.                          *)
LocationBeyond(t) == [state  |-> ctx[t].LR_state, event |-> ctx[t].LR_event,
                      number |-> ctx[t].LR_number + 1]

Location(t) == [state  |-> ctx[t].LR_state, event |-> ctx[t].LR_event,
                number |-> ctx[t].LR_number]

CallException ==
  /\ InModule("call_exception")
  /\ Len(ctx[running].LR_location_stack) < MaxLocations
  /\ \E e \in Raised[Agt(running)] :
       flags' = [flags EXCEPT !.exception_raised = TRUE, !.the_exception_event = e]
  /\ ctx' = [ctx EXCEPT ![running].LR_location_stack = <<Location(running)>> \o @]
  /\ UNCHANGED <<lists, threads, queue, sems, pc, cur, running, global, nested>>

DialogReturn ==
  /\ InModule("dialog_return")
  /\ ctx[running].LR_location_stack # <<>>
  /\ LET l == Head(ctx[running].LR_location_stack)
     IN  ctx' = [ctx EXCEPT ![running].LR_location_stack = Tail(@),
                            ![running].LR_state = l.state,
                            ![running].LR_event = l.event,
                            ![running].LR_number = l.number]
  /\ flags' = [flags EXCEPT !.dialog_jump = TRUE]
  /\ UNCHANGED <<lists, threads, queue, sems, pc, cur, running, global, nested>>

DialogPop ==
  /\ InModule("dialog_pop")
  /\ ctx[running].LR_location_stack # <<>>
  /\ ctx' = [ctx EXCEPT ![running].LR_location_stack = Tail(@)]
  /\ UNCHANGED <<lists, threads, queue, sems, exec, global, nested>>

(* Nothing to return to: the program exits.                                 *)
DialogUnderflow ==
  /\ InModule("dialog_return") \/ InModule("dialog_pop")
  /\ ctx[running].LR_location_stack = <<>>
  /\ pc' = "exit"
  /\ running' = None
  /\ UNCHANGED <<lists, ctx, threads, queue, sems, cur, flags, global, nested>>

UserCall ==
  \/ EventSend
  \/ \E s \in Semaph : \/ SemaphCreate(s)
                        \/ SemaphWait(s)
                        \/ SemaphSignal(s)
                        \/ SemaphDestroy(s)
  \/ \E t \in Thread : ThreadCreate(t) \/ ThreadDestroy(t)
  \/ SmtShutdown
  \/ SetFlag
  \/ CallException
  \/ DialogReturn
  \/ DialogPop
  \/ DialogUnderflow

-----------------------------------------------------------------------------
(* smt_exec (SMT_EXEC_FULL).                                                *)
(*                                                                          *)
(*   main      before smt_exec is called                                    *)
(*   poll      polling and asynchronous functions                           *)
(*   dispatch  the first thread of the active list is chosen                *)
(*   init      lookup_next_event for a fresh thread; init_fetch while it    *)
(*             runs queue_deliver                                           *)
(*   modules   the loop over the modules of `cur'                           *)
(*   stop      lookup_next_event at the end of a list; stop_fetch likewise  *)
(*   idle      the end of the big loop's body                               *)
(*   wait      the blocking function                                        *)
(*   done      smt_exec has returned;  exit: the process has ended          *)

Here(at) == /\ pc \in at
            /\ stack = <<>>
            /\ running = None

SmtExec ==
  /\ Here({"main"})
  /\ pc' = "poll"
  /\ flags' = [flags EXCEPT !.exception_raised = FALSE, !.dialog_jump = FALSE,
                            !.break_wanted = "continue"]
  /\ calls' = 0
  /\ UNCHANGED <<lists, ctx, threads, queue, sems, cur, running, global, nested>>

(* request_all_threads_shutdown: one SHUTDOWN event for each queue that was *)
(* not sent one before; whether event_send managed to queue it is not       *)
(* looked at.  The order of the queues does not matter here.                *)
RequestAllThreadsShutdown ==
  /\ Here({"poll", "idle"})
  /\ shutdown_request
  /\ stack' = <<[op |-> "shutdown"]>>
  /\ UNCHANGED <<lists, ctx, threads, queue, sems, exec, global, delivered, tally, calls>>

ToShutDown == {q \in Queue : queue[q].status = "open" /\ ~queue[q].shutdown}

ShutdownQueue(q) ==
  /\ stack # <<>>
  /\ Top.op = "shutdown"
  /\ q \in ToShutDown
  /\ Post([queue EXCEPT ![q].shutdown = TRUE], Msg(q, Shutdown), stack)
  /\ UNCHANGED <<lists, ctx, threads, sems, exec, global, delivered, calls>>

(* Mutant: the blocking function stays registered.                          *)
ShutdownKeepsWaitFn ==
  /\ stack # <<>>
  /\ Top.op = "shutdown"
  /\ ToShutDown = {}
  /\ stack' = Pop
  /\ shutdown_request' = FALSE
  /\ UNCHANGED <<lists, ctx, threads, queue, sems, exec, waitfn, signals, delivered, tally, calls>>

ShutdownDone ==
  /\ stack # <<>>
  /\ Top.op = "shutdown"
  /\ ToShutDown = {}
  /\ stack' = Pop
  /\ waitfn' = FALSE
  /\ shutdown_request' = FALSE
  /\ UNCHANGED <<lists, ctx, threads, queue, sems, exec, signals, delivered, tally, calls>>

PollDone ==
  /\ Here({"poll"})
  /\ ~shutdown_request
  /\ pc' = "dispatch"
  /\ calls' = 0
  /\ UNCHANGED <<lists, ctx, threads, queue, sems, cur, running, flags, global, nested>>

(* The first active thread is taken; a fresh one is initialised first.      *)
Dispatch ==
  /\ Here({"dispatch"})
  /\ IF active = <<>>
       THEN pc' = "idle" /\ UNCHANGED <<cur, ctx>>
       ELSE LET t == Head(active)
            IN  /\ cur' = t
                /\ IF ctx[t].LR_state # NullState
                     THEN pc' = "modules" /\ UNCHANGED ctx
                     ELSE /\ pc' = "init"
                          /\ \E e \in InitEvents[Agt(t)] :
                               ctx' = [ctx EXCEPT ![t].LR_state = FirstState,
                                                  ![t].LR_event = NullEvent,
                                                  ![t].the_next_event = e]
  /\ UNCHANGED <<lists, threads, queue, sems, running, flags, global, nested, calls>>

(* lookup_next_event: without an event supplied, one is fetched from the    *)
(* queue; with none there the thread becomes passive.                       *)
GiveUp == IF pc \in {"init", "init_fetch"} THEN "poll" ELSE "idle"

FetchEvent ==
  /\ Here({"init", "stop"})
  /\ ctx[cur].the_next_event = NullEvent
  /\ LET q == QueueOf[cur]
     IN  stack' = <<[DeliverFrame(q, cur, FALSE) EXCEPT
                      !.at = IF queue[q].events = <<>> THEN 0
                             ELSE Head(queue[q].events).id]>>
  /\ pc' = IF pc = "init" THEN "init_fetch" ELSE "stop_fetch"
  /\ UNCHANGED <<lists, ctx, threads, queue, sems, cur, running, flags, global,
                 delivered, tally, calls>>

FetchFailed ==
  /\ Here({"init_fetch", "stop_fetch"})
  /\ ~delivered
  /\ Suspend(cur, "passive", None)
  /\ ctx' = [ctx EXCEPT ![cur].event = None]
  /\ pc' = GiveUp
  /\ UNCHANGED <<threads, queue, sems, cur, running, flags, global, nested, calls>>

Terminate ==
  /\ Here({"init", "stop"})
  /\ ctx[cur].the_next_event = TermEvent
  /\ Destroy(cur)
  /\ pc' = GiveUp
  /\ UNCHANGED <<sems, cur, running, flags, global, nested, calls>>

(* The thread stays first in the active list.                               *)
EventOutOfRange ==
  /\ Here({"init", "stop"})
  /\ ctx[cur].the_next_event = BadEvent
  /\ shutdown_request' = TRUE
  /\ pc' = GiveUp
  /\ UNCHANGED <<lists, ctx, threads, queue, sems, cur, running, flags, waitfn, signals, nested, calls>>

(* lookup_module_vector for the context c: an event the state does not      *)
(* accept asks for a shutdown and suspends the thread.                      *)
Lookup(t, c) ==
  IF Accepts(t, c)
    THEN /\ ctx' = [ctx EXCEPT ![t] = [c EXCEPT !.the_next_event = NullEvent]]
         /\ UNCHANGED <<lists, shutdown_request>>
    ELSE /\ ctx' = [ctx EXCEPT ![t] = [c EXCEPT !.event = None]]
         /\ Suspend(t, "wait_event", None)
         /\ shutdown_request' = TRUE

HaveEvent(at, fetched) ==
  /\ \/ Here({at})
     \/ Here({fetched}) /\ delivered
  /\ ctx[cur].the_next_event \in Event

FirstList ==
  /\ HaveEvent("init", "init_fetch")
  /\ Lookup(cur, [ctx[cur] EXCEPT !.LR_event = ctx[cur].the_next_event, !.LR_number = 0])
  /\ pc' = "modules"
  /\ UNCHANGED <<threads, queue, sems, cur, running, flags, waitfn, signals, nested, calls>>

(* At the end of a list the thread changes state and goes behind the other  *)
(* active threads of its priority.                                          *)
NextList ==
  /\ HaveEvent("stop", "stop_fetch")
  /\ \E s \in NextStates(cur, ctx[cur]) :
       LET c == [ctx[cur] EXCEPT !.LR_state = s, !.LR_number = 0,
                                 !.LR_event = ctx[cur].the_next_event]
       IN  IF Accepts(cur, c)
             THEN /\ ctx' = [ctx EXCEPT ![cur] = [c EXCEPT !.the_next_event = NullEvent]]
                  /\ Activate(cur)
                  /\ UNCHANGED shutdown_request
             ELSE Lookup(cur, c)
  /\ pc' = "idle"
  /\ UNCHANGED <<threads, queue, sems, cur, running, flags, waitfn, signals, nested, calls>>

(* The loop over the modules of `cur': left when another thread has become  *)
(* the first one.                                                           *)
(* Mutant: the loop goes on with a thread that is no longer the first.      *)
InLoopAnyway == Here({"modules"}) /\ state[cur] = "active"

InLoop == /\ Here({"modules"})
          /\ active # <<>>
          /\ cur = Head(active)

LeaveLoop ==
  /\ Here({"modules"})
  /\ ~(active # <<>> /\ cur = Head(active))
  /\ pc' = "idle"
  /\ UNCHANGED <<lists, ctx, threads, queue, sems, cur, running, flags, global, nested, calls>>

EndOfList ==
  /\ InLoop
  /\ ctx[cur].LR_number >= Modules(cur, ctx[cur])
  /\ pc' = "stop"
  /\ UNCHANGED <<lists, ctx, threads, queue, sems, cur, running, flags, global, nested, calls>>

(* A list may end in a module that always supplies the next event.          *)
Supplied(t, c) ==
  LET m == Dialog[Agt(t)][c.LR_state, c.LR_event]
  IN  IF m.supply # NullEvent /\ c.LR_number + 1 = m.modules THEN m.supply
      ELSE c.the_next_event

CallModule ==
  /\ InLoop
  /\ ctx[cur].LR_number < Modules(cur, ctx[cur])
  /\ ctx' = [ctx EXCEPT ![cur].LR_number = @ + 1]
  /\ flags' = [flags EXCEPT !.the_next_event = Supplied(cur, ctx[cur])]
  /\ running' = cur
  /\ calls' = 0
  /\ UNCHANGED <<lists, threads, queue, sems, pc, cur, global, nested>>

(* After the module: its exception, else its break, else its jump.  Only    *)
(* the flag that is acted upon is reset.                                    *)
Returning ==
  /\ stack = <<>>
  /\ running # None
  /\ running' = None
  /\ calls' = 0
  /\ UNCHANGED <<threads, queue, sems, cur, waitfn, signals, nested>>

Returned == [ctx[cur] EXCEPT !.the_next_event = flags.the_next_event]

(* Mutant: the exception is acted upon and stays raised.                    *)
ReturnStillRaised ==
  /\ Returning
  /\ flags.exception_raised
  /\ flags' = [flags EXCEPT !.the_next_event = NullEvent]
  /\ Lookup(cur, [Returned EXCEPT !.LR_event = flags.the_exception_event, !.LR_number = 0])
  /\ pc' = "idle"

ReturnException ==
  /\ Returning
  /\ flags.exception_raised
  /\ flags' = [flags EXCEPT !.exception_raised = FALSE, !.the_next_event = NullEvent,
                            !.the_exception_event = NullEvent]
  /\ Lookup(cur, [Returned EXCEPT !.LR_event = flags.the_exception_event, !.LR_number = 0])
  /\ pc' = "idle"

ReturnBreak ==
  /\ Returning
  /\ ~flags.exception_raised
  /\ flags.break_wanted # "continue"
  /\ flags' = [flags EXCEPT !.break_wanted = "continue", !.break_semaph = None,
                            !.the_next_event = NullEvent]
  /\ IF flags.break_wanted = "recycle"
       THEN /\ Activate(cur)
            /\ ctx' = [ctx EXCEPT ![cur] = [Returned EXCEPT !.LR_number = @ - 1]]
       ELSE /\ Suspend(cur, flags.break_wanted, flags.break_semaph)
            /\ ctx' = [ctx EXCEPT ![cur] = [Returned EXCEPT !.event = None]]
  /\ UNCHANGED <<pc, shutdown_request>>

ReturnJump ==
  /\ Returning
  /\ ~flags.exception_raised
  /\ flags.break_wanted = "continue"
  /\ flags.dialog_jump
  /\ flags' = [flags EXCEPT !.dialog_jump = FALSE, !.the_next_event = NullEvent]
  /\ Lookup(cur, Returned)
  /\ pc' = "idle"

(* An asynchronous function of a higher priority may be due.                *)
ReturnPlain ==
  /\ Returning
  /\ NothingPending
  /\ flags' = [flags EXCEPT !.the_next_event = NullEvent]
  /\ ctx' = [ctx EXCEPT ![cur] = Returned]
  /\ pc' \in {"modules", "idle"}
  /\ UNCHANGED <<lists, shutdown_request>>

ModuleReturn == ReturnException \/ ReturnBreak \/ ReturnJump \/ ReturnPlain

(* With no thread active the blocking function is called; with none         *)
(* registered smt_exec returns.                                             *)
Idling ==
  /\ Here({"idle"})
  /\ ~shutdown_request
  /\ pc' = IF active # <<>> THEN "poll" ELSE IF waitfn THEN "wait" ELSE "done"
  /\ calls' = 0
  /\ UNCHANGED <<lists, ctx, threads, queue, sems, cur, running, flags, global, nested>>

(* It returns 0 when it saw nothing: with nothing scheduled either, the     *)
(* program is over.  A negative value is an error.                          *)
WaitReturn ==
  /\ Here({"wait"})
  /\ \/ /\ shutdown_request
        /\ stack' = <<[op |-> "shutdown"]>>
        /\ pc' = "poll"
     \/ /\ ~shutdown_request
        /\ \/ pc' = "poll" /\ UNCHANGED stack
           \/ calls = 0 /\ pc' = "done" /\ UNCHANGED stack
           \/ pc' = "poll" /\ stack' = <<[op |-> "shutdown"]>>
  /\ calls' = 0
  /\ UNCHANGED <<lists, ctx, threads, queue, sems, cur, running, flags, global,
                 delivered, tally>>

(* handle_signal: SIGINT and SIGTERM, at any moment.  A signal that comes   *)
(* long enough after the first one aborts the program.                      *)
HandleSignal ==
  /\ pc \notin {"main", "done", "exit"}
  /\ signals < MaxSignals
  /\ signals' = signals + 1
  /\ \/ shutdown_request' = TRUE /\ UNCHANGED <<pc, running, stack>>
     \/ /\ signals > 0
        /\ pc' = "exit" /\ running' = None /\ stack' = <<>>
        /\ UNCHANGED shutdown_request
  /\ UNCHANGED <<lists, ctx, threads, queue, sems, cur, flags, waitfn, delivered, tally, calls>>

Finished == pc \in {"done", "exit"} /\ UNCHANGED vars

Init ==
  /\ active = <<>> /\ waiting = <<>>
  /\ waiters = [s \in Semaph |-> <<>>]
  /\ state = [t \in Thread |-> "none"]
  /\ ctx = [t \in Thread |-> FreshCtx]
  /\ threads = [q \in Queue |-> <<>>]
  /\ queue = [q \in Queue |-> [status |-> "none", events |-> <<>>, cur_events |-> 0,
                               timed_events |-> 0, shutdown |-> FALSE]]
  /\ live = {} /\ value = [s \in Semaph |-> 0]
  /\ pc = "main" /\ cur = None /\ running = None /\ flags = NoFlags
  /\ shutdown_request = FALSE /\ waitfn = WaitFn /\ signals = 0
  /\ stack = <<>> /\ delivered = FALSE /\ tally = 0 /\ calls = 0

Exec ==
  \/ SmtExec \/ RequestAllThreadsShutdown
  \/ \E q \in Queue : ShutdownQueue(q)
  \/ ShutdownDone \/ PollDone \/ Dispatch
  \/ FetchEvent \/ FetchFailed \/ Terminate \/ EventOutOfRange
  \/ FirstList \/ NextList \/ LeaveLoop \/ EndOfList
  \/ CallModule \/ ModuleReturn
  \/ Idling \/ WaitReturn
  \/ QueueStep \/ SemaphDestroyStep

Next == Exec \/ UserCall \/ HandleSignal \/ Finished

Spec == Init /\ [][Next]_vars

(* The blocking function may stay in select for as long as nothing happens  *)
(* there.  Once it has seen something, and sent an event, it returns.       *)
Blocked == Here({"wait"}) /\ calls = 0

(* The kernel is one OS thread that never stops between two steps, and a    *)
(* module always returns; the blocking function need not.                   *)
FairSpec == Spec /\ WF_vars(Exec /\ ~Blocked)

-----------------------------------------------------------------------------
(* What every state is made of.                                             *)

EventRecord ==
  [id : 1 .. tally, name : Name, sender : Queue \cup {None},
   accept : Name \cup {None}, reject : Name \cup {None}, timed : BOOLEAN,
   priority : Nat, number : Event \cup {NullEvent}]

TypeOK ==
  /\ active \in Seq(Thread)
  /\ waiting \in Seq(Thread)
  /\ waiters \in [Semaph -> Seq(Thread)]
  /\ state \in [Thread -> {"none", "active", "passive", "wait_event", "wait_semaph", "dead"}]
  /\ threads \in [Queue -> Seq(Thread)]
  /\ \A q \in Queue : /\ queue[q].status \in {"none", "open", "closed"}
                      /\ Members(queue[q].events) \subseteq EventRecord
                      /\ queue[q].cur_events \in Nat
                      /\ queue[q].timed_events \in Nat
  /\ \A t \in Thread : /\ ctx[t].LR_state \in State \cup {NullState}
                       /\ ctx[t].LR_event \in Event \cup {NullEvent}
                       /\ ctx[t].LR_number \in Nat
                       /\ ctx[t].the_next_event \in NextEvents
  /\ live \in SUBSET Semaph
  /\ value \in [Semaph -> Nat]
  /\ cur \in Thread \cup {None}
  /\ running \in {cur, None}
  /\ shutdown_request \in BOOLEAN
  /\ waitfn \in BOOLEAN
  /\ signals \in 0 .. MaxSignals
  /\ delivered \in BOOLEAN
  /\ tally \in Nat
  /\ calls \in 0 .. MaxCalls

(* A thread is on the list its state names, on no other and only once: it is *)
(* runnable exactly when it is active, and it cannot be woken through a list *)
(* it was left on.  thread_relink, activate_thread and suspend_thread.       *)
ListsAgree ==
  /\ NoDuplicates(active)
  /\ NoDuplicates(waiting)
  /\ \A s \in Semaph : NoDuplicates(waiters[s])
  /\ \A t \in Thread :
       /\ t \in Members(active) <=> state[t] = "active"
       /\ t \in Members(waiting) <=> state[t] = "wait_event"
       /\ (\E s \in Semaph : t \in Members(waiters[s])) <=> state[t] = "wait_semaph"
       /\ \A r, s \in Semaph :
            t \in Members(waiters[r]) /\ t \in Members(waiters[s]) => r = s

(* The active list never has a thread of a lower priority before one of a    *)
(* higher, whatever is woken, recycled or created, and in whatever order.    *)
ActiveSorted == SortedBy(active, rank)

(* A thread waiting on a semaphore waits because its value is 0: no signal   *)
(* is lost between semaph_wait, which only asks for the suspension, and      *)
(* smt_exec, which carries it out after the module.                          *)
NoLostSignal == \A s \in live : value[s] > 0 => waiters[s] = <<>>

(* A thread passive for lack of events has none in its queue, so the next    *)
(* one sent finds it and is delivered: no event waits for another one.       *)
(* (A second signal may end the process in the middle of a delivery.)        *)
PassiveMeansEmpty ==
  stack = <<>> /\ pc # "exit" =>
    \A t \in Thread : state[t] = "passive" => queue[QueueOf[t]].events = <<>>

(* cur_events, which decides that a queue is full, counts the events in it,  *)
(* through deliveries, rejections and replies that re-enter the kernel.      *)
CurEventsCounts == \A q \in Queue : queue[q].cur_events = Len(queue[q].events)

(* No event that an activation of queue_deliver still points to has left the *)
(* queue under it, delivered by a nested activation.                         *)
PointersValid ==
  \A i \in DOMAIN stack : stack[i].op = "deliver" =>
     {stack[i].at, stack[i].best, stack[i].victim} \ {0} \subseteq Ids(stack[i].queue)

(* What PointersValid rests on: no circle of requests that ask for replies.  *)
(* A reply is sent, and perhaps delivered, while its request is still queued *)
(* and pointed to; along a circle a nested activation would come back to the *)
(* same queue and free the request first.                                    *)
RequestsGoUp(level) ==
  \A m \in OutsideMessages \cup UNION {Messages[a] : a \in Agent} :
    m.to # None /\ m.from # None /\ (m.accept # None \/ m.reject # None)
      => level[m.from] < level[m.to]

(* Wherever a dialog was left by call_exception, dialog_return finds a list  *)
(* the state accepts, and not past its end.                                  *)
LocationsResumable ==
  \A t \in Thread : \A i \in DOMAIN ctx[t].LR_location_stack :
    LET l == ctx[t].LR_location_stack[i]
    IN  /\ <<l.state, l.event>> \in DOMAIN Dialog[Agt(t)]
        /\ l.number \in 1 .. Dialog[Agt(t)][l.state, l.event].modules

(* What a module asked for is done when that module returns: between two     *)
(* modules no exception, break or jump is pending, to hit the next one.      *)
FlagsBelongToModule == running = None /\ pc # "exit" => NothingPending

(* The event a thread is given is, among those in its queue, of the highest  *)
(* priority and of these the oldest.                                         *)
Rank(q, e) == LET m == Methods[AgentOf[q]]
              IN  IF e.name \in DOMAIN m THEN m[e.name].priority ELSE 0
DeliveredInOrder ==
  [][\A q \in Queue : \A e, f \in Members(queue[q].events) :
       (\E t \in Thread : ctx'[t].event # ctx[t].event /\ ctx'[t].event # None
                            /\ ctx'[t].event.id = e.id)
       => \/ e = f
          \/ Rank(q, e) > Rank(q, f)
          \/ Rank(q, e) = Rank(q, f) /\ e.id < f.id]_vars

(* A module is only called for a thread no active thread has priority over.  *)
TopPriorityRuns ==
  [][running' # running /\ running' # None =>
       \A t \in Thread : state[t] = "active" => rank[t] <= rank[running']]_vars

(* A thread block that was freed is never linked, woken or run again, from   *)
(* no list, no activation of queue_deliver and no local of smt_exec.         *)
DeadForGood == [][\A t \in Thread : state[t] = "dead" => state'[t] = "dead"]_vars

(* Among threads of one priority every active thread gets to run, whatever   *)
(* the others do: recycle, loop on events of their own, or are destroyed.    *)
ActiveRuns == \A t \in Thread : state[t] = "active" ~> running = t \/ state[t] # "active"

(* After a shutdown was asked for, by a module or a signal, smt_exec comes   *)
(* to an end with all its threads gone, when their dialogs end on SHUTDOWN.  *)
(* A request made while the blocking function is in select, or just before,  *)
(* waits until that function returns: nothing else looks at it.              *)
ShuttingDown == \/ shutdown_request
                \/ stack # <<>> /\ stack[1].op = "shutdown"

StopsWhenAsked ==
  ShuttingDown /\ ~Blocked ~> (pc = "done" /\ Alive = {}) \/ pc = "exit"
=============================================================================
