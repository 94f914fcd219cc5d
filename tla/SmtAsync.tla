------------------------------ MODULE SmtAsync ------------------------------
(***************************************************************************)
(* The asynchronous side of the SMT kernel (libsmt/smtlib.c): functions    *)
(* scheduled for a date, polling functions, the blocking function, and the *)
(* steps of smt_exec that call them around the modules of the threads.     *)
(*                                                                         *)
(* SmtKernel has the threads, queues and semaphores and takes the called   *)
(* functions as outside code.  Here it is the other way round: a thread is *)
(* fresh or busy (on the active list), passive or ended; its modules and   *)
(* the functions are user code that makes at most MaxCalls calls of these: *)
(* schedule, deschedule, wake a thread, ask for the shutdown, fail.        *)
(*                                                                         *)
(* A date with its time is one number.  Zero is the date 0, Never the date *)
(* 99999999; the clock stays between them.  A function pointer and its     *)
(* argument are one value of Fn, None is the null pointer.                 *)
(***************************************************************************)
EXTENDS SmtLists, FiniteSets

CONSTANTS
  Fn, None,        \* functions with their arguments; the null pointer
  Block,           \* the ASYNC blocks memory has room for
  ListHead,        \* the address of the list head async_by_time
  Thread,          \* threads, each of an agent of its own
  rank,            \* [Thread -> Nat]: thread-> queue-> agent-> priority
  Prio,            \* priorities functions are scheduled with
  Delay,           \* how far from now functions are scheduled
  Never,           \* the date 99999999: only when all threads are idle
  Special,         \* which of the special dates 0 and Never are used
  Interval,        \* polling intervals used
  MAX_POLLFNS,     \* size of the table of polling functions
  ExecTypes,       \* the arguments smt_exec is called with
  Calls,           \* ["module", "async", "poll", "wait", "main" -> set of calls]
  MaxClock,        \* bound: the last moment
  MaxCalls         \* bound: calls made by one module or function

ASSUME AsyncAssumption ==
  /\ None \notin Fn /\ ListHead \notin Block
  /\ rank \in [Thread -> Nat] /\ Prio \subseteq Nat
  /\ Never \in Nat /\ MaxClock \in Nat \ {0} /\ MaxClock < Never
  /\ Delay \subseteq Nat /\ Special \subseteq {0, Never}
  /\ Interval \subseteq Nat /\ MaxCalls \in Nat

VARIABLES
  pc,              \* where smt_exec is
  caller,          \* what called the user code now running
  thread,          \* "fresh" (has not run yet), "busy", "passive" or "ended"
  cur,             \* smt_exec's local `thread' while its modules run
  byTime,          \* async_by_time, the first function first
  byPriority,      \* async_by_priority, likewise
  entry,           \* what the blocks hold
  async,           \* smt_exec's local pointer into async_by_time
  async_removed,   \* whether some function has been descheduled
  cur_date,        \* smt_exec's reading of the clock, 0 before it is read
  timeRead,        \* whether smt_exec's cur_time has ever been assigned
  first_date,      \* what the blocking function is told to wait for
  clock,
  pollfns,         \* the polling functions in use
  i,               \* the one being looked at
  waitfn,          \* whether a blocking function is registered
  shutdown_request,
  told,            \* whether the queues have been sent SHUTDOWN
  exec_type,       \* the argument of smt_exec
  result,          \* what it returned last: "more", "done" or "none"
  smt_errno,
  calls            \* calls made by the user code now running

lists == <<byTime, byPriority, entry, async_removed>>
reading == <<cur_date, timeRead>>
local == <<cur, async, reading, first_date, i, exec_type>>
rest  == <<thread, waitfn, shutdown_request, told>>
vars  == <<pc, caller, lists, local, pollfns, rest, clock, result, smt_errno, calls>>

-----------------------------------------------------------------------------
(* Data.                                                                    *)

Async  == [fn : Fn \cup {None}, priority : Nat, date : Nat]
Active == {"fresh", "busy"}
Busy   == {t \in Thread : thread[t] \in Active}

(* active_threads.right: a busy thread no busy thread has priority over.   *)
IsTop(t) == t \in Busy /\ \A u \in Busy : rank[u] =< rank[t]

Functions == {entry[b].fn : b \in Members(byTime)} \ {None}
Scheduled(b) == b \in Members(byTime) /\ entry[b].fn # None

(* Where a list goes on behind a block, and what it comes from.             *)
NextOf(s, b) == IF PlaceOf(s, b) = Len(s) THEN ListHead ELSE s[PlaceOf(s, b) + 1]
PrevOf(s, b) == IF PlaceOf(s, b) = 1 THEN ListHead ELSE s[PlaceOf(s, b) - 1]
First(s)     == IF s = << >> THEN ListHead ELSE s[1]

(* A list without the members in S: its n-th node is the n-th one kept.     *)
Without(s, S) ==
  LET kept == {k \in DOMAIN s : s[k] \notin S}
  IN  [n \in 1 .. Cardinality(kept) |->
         s[CHOOSE k \in kept : Cardinality({j \in kept : j =< k}) = n]]

-----------------------------------------------------------------------------
(* The two orders.                                                          *)

(* Mutant: behind, not in front of, the first later function.               *)
TimeSlotLate(d) ==
  CHOOSE k \in 1 .. Len(byTime) + 1 :
    /\ \A j \in 1 .. k - 1 : j = 1 \/ entry[byTime[j - 1]].date < d
    /\ k \in DOMAIN byTime /\ k > 1 => entry[byTime[k - 1]].date >= d

(* Where schedule_async_nonblock links a function due at d: in front of    *)
(* the first that is due at d or later.                                    *)
TimeSlot(d) ==
  CHOOSE k \in 1 .. Len(byTime) + 1 :
    /\ \A j \in 1 .. k - 1 : entry[byTime[j]].date < d
    /\ k \in DOMAIN byTime => entry[byTime[k]].date >= d

(* The same for the list by priority, and by date within a priority.        *)
Precedes(p, d, e) == e.priority < p \/ (e.priority = p /\ e.date >= d)

PrioritySlot(p, d) ==
  CHOOSE k \in 1 .. Len(byPriority) + 1 :
    /\ \A j \in 1 .. k - 1 : ~Precedes(p, d, entry[byPriority[j]])
    /\ k \in DOMAIN byPriority => Precedes(p, d, entry[byPriority[k]])

Free == [fn |-> None, priority |-> 0, date |-> 0]

(* Mutant: unlinked from the list by time only.                             *)
DestroyByTimeOnly(S) ==
  /\ byTime' = Without(byTime, S)
  /\ byPriority' = byPriority
  /\ entry' = [b \in Block |-> IF b \in S THEN Free ELSE entry[b]]

(* async_destroy of the blocks in S: out of both lists, and freed.          *)
Destroy(S) ==
  /\ byTime' = Without(byTime, S)
  /\ byPriority' = Without(byPriority, S)
  /\ entry' = [b \in Block |-> IF b \in S THEN Free ELSE entry[b]]

(* request_all_threads_shutdown: queues not yet told get a SHUTDOWN, which *)
(* wakes their thread; the scheduled functions are lost.                    *)
RequestAllThreadsShutdown ==
  /\ thread' = [t \in Thread |-> IF thread[t] = "passive" /\ ~told
                                  THEN "busy" ELSE thread[t]]
  /\ told' = TRUE
  /\ Destroy(Members(byTime))
  /\ waitfn' = FALSE
  /\ shutdown_request' = FALSE

(* `if (shutdown_request) request_all_threads_shutdown ()', and what else   *)
(* happens to the lists where it does not.                                  *)
ShutdownIfRequested ==
  IF shutdown_request
    THEN RequestAllThreadsShutdown
    ELSE UNCHANGED <<rest, byTime, byPriority, entry>>
-----------------------------------------------------------------------------
Init ==
  /\ pc = "main" /\ caller = "main"
  /\ cur = None
  /\ thread = [t \in Thread |-> "fresh"]
  /\ byTime = << >> /\ byPriority = << >>
  /\ entry = [b \in Block |-> Free]
  /\ async = ListHead /\ async_removed = FALSE
  /\ cur_date = 0 /\ timeRead = FALSE /\ first_date = Never
  /\ clock = 1
  /\ pollfns = << >> /\ i = 1
  /\ waitfn \in BOOLEAN
  /\ shutdown_request = FALSE /\ told = FALSE
  /\ exec_type \in ExecTypes /\ result = "none" /\ smt_errno = "none"
  /\ calls = 0

-----------------------------------------------------------------------------
(* User code: modules, called functions, and main around smt_exec.          *)

Allowed == Calls[IF caller = "idle" THEN "async" ELSE caller]

MayCall(c) ==
  /\ pc \in {"call", "main"}
  /\ c \in Allowed
  /\ calls < MaxCalls
  /\ calls' = calls + 1
  /\ UNCHANGED <<pc, caller, local, clock, result>>

(* f goes on both lists, in block b.                                        *)
Insert(b, f, p, d) ==
  /\ entry' = [entry EXCEPT ![b] = [fn |-> f, priority |-> p, date |-> d]]
  /\ byTime' = LinkBefore(byTime, TimeSlot(d), b)
  /\ byPriority' = LinkBefore(byPriority, PrioritySlot(p, d), b)

(* schedule_async_nonblock (f, p, d) with a block that is free.             *)
ScheduleAsync(f, p, d) ==
  /\ MayCall("schedule")
  /\ \E b \in Block \ Members(byTime) : Insert(b, f, p, d)
  /\ UNCHANGED <<async_removed, pollfns, rest, smt_errno>>

(* ... and when there is no memory for one.                                 *)
ScheduleAsyncFails ==
  /\ MayCall("schedule")
  /\ Block = Members(byTime)
  /\ smt_errno' = "OUTOFMEMORY"
  /\ UNCHANGED <<lists, pollfns, rest>>

(* The entries of the functions F stay where they are with a null pointer, *)
(* until smt_exec next looks at the list.                                   *)
Nullify(F) ==
  /\ entry' = [b \in Block |-> IF b \in Members(byTime) /\ entry[b].fn \in F
                                THEN [entry[b] EXCEPT !.fn = None] ELSE entry[b]]
  /\ async_removed' = (async_removed \/ F \cap Functions # {})
  /\ UNCHANGED <<byTime, byPriority>>

(* deschedule_async_nonblock (f).                                           *)
DescheduleAsync(f) ==
  /\ MayCall("deschedule")
  /\ Nullify({f})
  /\ UNCHANGED <<pollfns, rest, smt_errno>>

(* schedule_polling_function (f, n): one that is there gets the interval.   *)
SchedulePolling(f, n) ==
  LET at == {j \in DOMAIN pollfns : pollfns[j].fn = f}
      p  == [fn |-> f, interval |-> n, togo |-> n]
  IN  /\ MayCall("poll")
      /\ \/ /\ at # {}
            /\ pollfns' = [pollfns EXCEPT ![CHOOSE j \in at : \A k \in at : j =< k] = p]
            /\ UNCHANGED smt_errno
         \/ /\ at = {} /\ Len(pollfns) < MAX_POLLFNS - 1
            /\ pollfns' = Append(pollfns, p)
            /\ UNCHANGED smt_errno
         \/ /\ at = {} /\ Len(pollfns) >= MAX_POLLFNS - 1
            /\ smt_errno' = "OUTOFMEMORY"
            /\ UNCHANGED pollfns
      /\ UNCHANGED <<lists, rest>>

(* deschedule_polling_function (f): flagged, removed by the next pass.      *)
DeschedulePolling(f) ==
  /\ MayCall("unpoll")
  /\ pollfns' = [j \in DOMAIN pollfns |->
                   IF pollfns[j].fn = f THEN [pollfns[j] EXCEPT !.fn = None]
                                        ELSE pollfns[j]]
  /\ UNCHANGED <<lists, rest, smt_errno>>

(* An event sent to a thread that was waiting for one.                      *)
WakeThread(t) ==
  /\ MayCall("wake")
  /\ thread[t] = "passive"
  /\ thread' = [thread EXCEPT ![t] = "busy"]
  /\ UNCHANGED <<lists, pollfns, waitfn, shutdown_request, told, smt_errno>>

(* register_async_blocking.                                                 *)
RegisterBlocking ==
  /\ MayCall("block")
  /\ waitfn' = TRUE
  /\ UNCHANGED <<lists, pollfns, thread, shutdown_request, told, smt_errno>>

(* smt_shutdown.                                                            *)
SmtShutdown ==
  /\ MayCall("shutdown")
  /\ shutdown_request' = TRUE
  /\ UNCHANGED <<lists, pollfns, thread, waitfn, told, smt_errno>>

UserCall ==
  \/ \E f \in Fn, p \in Prio :
       \/ \E n \in Delay : ScheduleAsync(f, p, clock + n)
       \/ \E d \in Special : ScheduleAsync(f, p, d)
  \/ ScheduleAsyncFails
  \/ \E f \in Fn : DescheduleAsync(f) \/ DeschedulePolling(f)
  \/ \E f \in Fn, n \in Interval : SchedulePolling(f, n)
  \/ \E t \in Thread : WakeThread(t)
  \/ RegisterBlocking
  \/ SmtShutdown

-----------------------------------------------------------------------------
(* smt_exec.  Each action is one step of the big loop.                      *)

Goto(place) == pc' = place /\ UNCHANGED <<caller, calls>>
Enter(who)  == pc' = "call" /\ caller' = who /\ calls' = 0
Steady      == UNCHANGED <<clock, smt_errno, exec_type, first_date, result>>
In(who)     == pc = "call" /\ caller = who

(* Time passes, also while user code runs.                                  *)
Tick ==
  /\ clock < MaxClock
  /\ clock' = clock + 1
  /\ UNCHANGED <<pc, caller, lists, local, pollfns, rest, result, smt_errno, calls>>

(* main calls smt_exec.                                                     *)
SmtExec ==
  /\ pc = "main"
  /\ exec_type' \in ExecTypes
  /\ timeRead' = FALSE
  /\ result' = "none"
  /\ Goto("polls")
  /\ UNCHANGED <<lists, cur, async, cur_date, first_date, i, pollfns, rest, clock, smt_errno>>

Return(value) ==
  /\ pc' = "main" /\ caller' = "main" /\ calls' = 0
  /\ result' = value
  /\ UNCHANGED <<clock, smt_errno, exec_type>>

(* The end of the loop's body.                                              *)
LoopEnd ==
  /\ pc = "loop"
  /\ IF exec_type = "step"
       THEN Return("more") /\ UNCHANGED first_date
       ELSE Goto("polls") /\ Steady
  /\ UNCHANGED <<lists, cur, async, reading, i, pollfns, rest>>

(* Polling functions.                                                       *)

Polling == pc = "polls" /\ i \in DOMAIN pollfns

(* Mutant: goes on behind the function that was moved here.                 *)
PollRemoveSkips ==
  /\ Polling /\ pollfns[i].fn = None
  /\ pollfns' = SubSeq([pollfns EXCEPT ![i] = pollfns[Len(pollfns)]], 1, Len(pollfns) - 1)
  /\ i' = i + 1
  /\ Goto("polls") /\ Steady
  /\ UNCHANGED <<lists, cur, async, reading, rest>>

(* A polling function flagged for removal: the last one takes its place,   *)
(* and is looked at next.                                                   *)
PollRemove ==
  /\ Polling /\ pollfns[i].fn = None
  /\ pollfns' = SubSeq([pollfns EXCEPT ![i] = pollfns[Len(pollfns)]], 1, Len(pollfns) - 1)
  /\ Goto("polls") /\ Steady
  /\ UNCHANGED <<lists, cur, async, reading, i, rest>>

(* Mutant: counts down functions that are never to be called, too.          *)
PollCountDownAll ==
  /\ Polling /\ pollfns[i].fn # None /\ pollfns[i].togo # 1
  /\ pollfns' = [pollfns EXCEPT ![i].togo = @ - 1]
  /\ i' = i + 1
  /\ Goto("polls") /\ Steady
  /\ UNCHANGED <<lists, cur, async, reading, rest>>

(* Not due yet, or idle with a count of zero.                               *)
PollCountDown ==
  /\ Polling /\ pollfns[i].fn # None /\ pollfns[i].togo # 1
  /\ pollfns' = [pollfns EXCEPT ![i].togo = IF @ > 0 THEN @ - 1 ELSE @]
  /\ i' = i + 1
  /\ Goto("polls") /\ Steady
  /\ UNCHANGED <<lists, cur, async, reading, rest>>

(* Due: the counter is reset, then the function is called.                  *)
PollCall ==
  /\ Polling /\ pollfns[i].fn # None /\ pollfns[i].togo = 1
  /\ pollfns' = [pollfns EXCEPT ![i].togo = pollfns[i].interval]
  /\ Enter("poll") /\ Steady
  /\ UNCHANGED <<lists, cur, async, reading, i, rest>>

PollReturn ==
  /\ In("poll")
  /\ i' = i + 1
  /\ Goto("polls") /\ Steady
  /\ UNCHANGED <<lists, cur, async, reading, pollfns, rest>>

(* It failed: the other polling functions are left out this time.           *)
PollFails ==
  /\ In("poll") /\ "fail" \in Allowed
  /\ RequestAllThreadsShutdown
  /\ i' = Len(pollfns) + 1
  /\ Goto("polls") /\ Steady
  /\ UNCHANGED <<async_removed, cur, async, reading, pollfns>>

(* Asynchronous functions.                                                  *)

(* Mutant: step 1 removes nothing.                                          *)
StartAsyncKeeps ==
  /\ pc = "polls" /\ i > Len(pollfns)
  /\ ShutdownIfRequested
  /\ async_removed' = FALSE
  /\ async' = First(byTime')
  /\ cur_date' = 0 /\ i' = 1
  /\ Goto("due") /\ Steady
  /\ UNCHANGED <<cur, timeRead, pollfns>>

(* The end of the polling functions; a shutdown if asked for; then step 1  *)
(* takes the descheduled functions off the list.                            *)
StartAsync ==
  /\ pc = "polls" /\ i > Len(pollfns)
  /\ IF shutdown_request
       THEN RequestAllThreadsShutdown
       ELSE /\ Destroy({b \in Block : async_removed /\ entry[b].fn = None})
            /\ UNCHANGED rest
  /\ async_removed' = FALSE
  /\ async' = First(byTime')
  /\ cur_date' = 0 /\ i' = 1
  /\ Goto("due") /\ Steady
  /\ UNCHANGED <<cur, timeRead, pollfns>>

(* cur_date when dates are compared with d: the clock is read at most once. *)
Reading(d) == IF d \notin {0, Never} /\ cur_date = 0 THEN clock ELSE cur_date

Read(d) ==
  /\ cur_date' = Reading(d)
  /\ timeRead' = (timeRead \/ Reading(d) # 0)

IsDue(d) == d # Never /\ Reading(d) >= d

(* With a date of zero cur_time is compared, which may not have a value yet. *)
MayBeNotDue(d) == ~IsDue(d) \/ (d = 0 /\ cur_date = 0 /\ ~timeRead)

Outranked(p) == \E t \in Busy : rank[t] > p

(* Mutant: calls it, whatever the priority of the active thread.            *)
DueCallAnyway ==
  /\ pc = "due" /\ async # ListHead
  /\ IsDue(entry[async].date)
  /\ Read(entry[async].date)
  /\ IF entry[async].fn = None THEN Goto("null_call") ELSE Enter("async")
  /\ Steady
  /\ UNCHANGED <<lists, cur, async, i, pollfns, rest>>

(* Step 2, a function that is due and whose priority suffices.  A null     *)
(* pointer is called like any other.                                        *)
DueCall ==
  /\ pc = "due" /\ async # ListHead
  /\ IsDue(entry[async].date)
  /\ ~Outranked(entry[async].priority)
  /\ Read(entry[async].date)
  /\ IF entry[async].fn = None THEN Goto("null_call") ELSE Enter("async")
  /\ Steady
  /\ UNCHANGED <<lists, cur, async, i, pollfns, rest>>

(* ... whose priority does not suffice.                                     *)
DueOutranked ==
  /\ pc = "due" /\ async # ListHead
  /\ IsDue(entry[async].date)
  /\ Outranked(entry[async].priority)
  /\ Read(entry[async].date)
  /\ async' = NextOf(byTime, async)
  /\ Goto("due") /\ Steady
  /\ UNCHANGED <<lists, cur, i, pollfns, rest>>

(* Step 2 ends at the first function that is not due, or at the head.       *)
DueEnd ==
  /\ pc = "due"
  /\ IF async = ListHead
       THEN UNCHANGED timeRead
       ELSE /\ MayBeNotDue(entry[async].date)
            /\ timeRead' = (timeRead \/ Reading(entry[async].date) # 0)
  /\ cur_date' = 0
  /\ Goto("idle") /\ Steady
  /\ UNCHANGED <<lists, cur, async, i, pollfns, rest>>

(* Mutant: the next function is taken before the call.                      *)
AsyncReturnStale ==
  /\ pc = "call" /\ caller \in {"async", "idle"}
  /\ Destroy({async})
  /\ async' = async
  /\ Goto(IF caller = "async" THEN "due" ELSE "idle")
  /\ Steady
  /\ UNCHANGED <<async_removed, cur, reading, i, pollfns, rest>>

(* The called function has returned; it is descheduled.                     *)
AsyncReturn ==
  /\ pc = "call" /\ caller \in {"async", "idle"}
  /\ Destroy({async})
  /\ async' = NextOf(byTime, async)
  /\ Goto(IF caller = "async" THEN "due" ELSE "idle")
  /\ Steady
  /\ UNCHANGED <<async_removed, cur, reading, i, pollfns, rest>>

(* It failed: all functions are descheduled, and `async' points to the one *)
(* that was in front of it, which is freed, or to the head.                 *)
AsyncFails ==
  /\ pc = "call" /\ caller \in {"async", "idle"}
  /\ "fail" \in Allowed
  /\ RequestAllThreadsShutdown
  /\ \/ /\ caller = "async" /\ Goto("idle")
        /\ async' = PrevOf(byTime, async)
     \/ /\ caller = "idle" /\ Goto("dialog")
        /\ async' = ListHead
  /\ cur_date' = 0
  /\ Steady
  /\ UNCHANGED <<async_removed, cur, timeRead, i, pollfns>>

(* Step 3: while no thread is active, the functions for idle time.  The    *)
(* walk goes on from where step 2 left `async'.                             *)
IdleCall ==
  /\ pc = "idle" /\ Busy = {} /\ async \in Members(byTime)
  /\ entry[async].date = Never
  /\ IF entry[async].fn = None THEN Goto("null_call") ELSE Enter("idle")
  /\ Steady
  /\ UNCHANGED <<lists, cur, async, reading, i, pollfns, rest>>

IdleSkip ==
  /\ pc = "idle" /\ Busy = {} /\ async \in Members(byTime)
  /\ entry[async].date # Never
  /\ async' = NextOf(byTime, async)
  /\ Goto("idle") /\ Steady
  /\ UNCHANGED <<lists, cur, reading, i, pollfns, rest>>

(* The walk follows a pointer into memory that AsyncFails has freed.        *)
IdleDangles ==
  /\ pc = "idle" /\ Busy = {}
  /\ async # ListHead /\ async \notin Members(byTime)
  /\ Goto("freed_read") /\ Steady
  /\ UNCHANGED <<lists, cur, async, reading, i, pollfns, rest>>

IdleEnd ==
  /\ pc = "idle" /\ (Busy # {} \/ async = ListHead)
  /\ async' = ListHead
  /\ Goto("dialog") /\ Steady
  /\ UNCHANGED <<lists, cur, reading, i, pollfns, rest>>

(* Dialogs.                                                                 *)

(* The shutdown, if asked for; then the first active thread, if any.        *)
StartDialog ==
  /\ pc = "dialog"
  /\ ShutdownIfRequested
  /\ LET busy == {t \in Thread : thread'[t] \in Active}
     IN  \/ busy = {} /\ Goto("dialog_end") /\ UNCHANGED cur
         \/ /\ cur' \in {t \in busy : \A u \in busy : rank[u] =< rank[t]}
            /\ Goto("modules")
  /\ Steady
  /\ UNCHANGED <<async_removed, async, reading, i, pollfns>>

(* A thread that has not run yet looks up its first event; without one the *)
(* big loop starts anew, past the blocking function and the end of a step.  *)
FirstEvent ==
  /\ pc = "modules" /\ thread[cur] = "fresh"
  /\ \/ /\ thread' = [thread EXCEPT ![cur] = "busy"]
        /\ Goto("modules") /\ UNCHANGED cur
     \/ /\ thread' = [thread EXCEPT ![cur] = "passive"]
        /\ Goto("polls") /\ cur' = None
  /\ Steady
  /\ UNCHANGED <<lists, async, reading, i, pollfns, waitfn, shutdown_request, told>>

(* The next module of its list is called.                                   *)
Module ==
  /\ pc = "modules" /\ thread[cur] = "busy"
  /\ Enter("module") /\ Steady
  /\ UNCHANGED <<lists, cur, async, reading, i, pollfns, rest>>

(* The entries the scan of the list by priority gets to: those in front of *)
(* the first null pointer or priority that does not outrank the thread.     *)
Scanned ==
  {k \in DOMAIN byPriority :
     \A j \in 1 .. k : /\ entry[byPriority[j]].fn # None
                       /\ entry[byPriority[j]].priority > rank[cur]}

DueNow(d) == d # Never /\ d =< clock

BreakForAsync == \E k \in Scanned : DueNow(entry[byPriority[k]].date)

(* The module has returned: the thread goes on while it is the first and   *)
(* no function that outranks it is due.                                     *)
ReturnPlain ==
  /\ In("module")
  /\ IF BreakForAsync \/ ~IsTop(cur)
       THEN Goto("dialog_end") /\ cur' = None
       ELSE Goto("modules") /\ UNCHANGED cur
  /\ timeRead' = (timeRead \/ \E k \in Scanned : entry[byPriority[k]].date # 0)
  /\ Steady
  /\ UNCHANGED <<lists, async, cur_date, i, pollfns, rest>>

(* It is to be recycled: the thread goes behind its peers.  If it has none *)
(* the module is called again at once.                                      *)
ReturnRecycled ==
  /\ In("module") /\ "recycle" \in Allowed
  /\ IF \E t \in Busy \ {cur} : rank[t] >= rank[cur]
       THEN Goto("dialog_end") /\ cur' = None
       ELSE Goto("modules") /\ UNCHANGED cur
  /\ Steady
  /\ UNCHANGED <<lists, async, reading, i, pollfns, rest>>

(* It raised an exception, or waits.                                        *)
ReturnBroken ==
  /\ In("module")
  /\ \E s \in {"busy", "passive"} : thread' = [thread EXCEPT ![cur] = s]
  /\ cur' = None
  /\ Goto("dialog_end") /\ Steady
  /\ UNCHANGED <<lists, async, reading, i, pollfns, waitfn, shutdown_request, told>>

(* The list has ended: there is a next event, or none, or it was the last.  *)
ListEnd ==
  /\ pc = "modules" /\ thread[cur] = "busy"
  /\ \E s \in {"busy", "passive", "ended"} : thread' = [thread EXCEPT ![cur] = s]
  /\ cur' = None
  /\ Goto("dialog_end") /\ Steady
  /\ UNCHANGED <<lists, async, reading, i, pollfns, waitfn, shutdown_request, told>>

(* The shutdown, if asked for; step 4 only if no thread is active.          *)
DialogEnd ==
  /\ pc = "dialog_end"
  /\ ShutdownIfRequested
  /\ Goto(IF \E t \in Thread : thread'[t] \in Active THEN "loop" ELSE "wait")
  /\ Steady
  /\ UNCHANGED <<async_removed, cur, async, reading, i, pollfns>>

(* The date of the first function that has one.                             *)
FirstDate ==
  LET dated == {k \in DOMAIN byTime : entry[byTime[k]].fn # None /\ entry[byTime[k]].date # 0}
  IN  IF dated = {} THEN Never
      ELSE entry[byTime[CHOOSE k \in dated : \A j \in dated : k =< j]].date

(* Step 4: the blocking function is called, if there is one ...             *)
WaitCall ==
  /\ pc = "wait" /\ waitfn /\ exec_type # "noblock"
  /\ first_date' = FirstDate
  /\ Enter("wait")
  /\ UNCHANGED <<lists, cur, async, reading, i, pollfns, rest, clock, smt_errno, exec_type,
                 result>>

(* ... and allowed to block; else smt_exec returns.                         *)
NoWait ==
  /\ pc = "wait"
  /\ \/ waitfn /\ exec_type = "noblock" /\ Return("more")
     \/ ~waitfn /\ Return("done")
  /\ UNCHANGED <<lists, cur, async, reading, first_date, i, pollfns, rest>>

(* The blocking function returns rc, 0 when it saw nothing.                 *)
WaitReturns(rc) ==
  /\ In("wait")
  /\ \/ /\ shutdown_request \/ rc = -1
        /\ RequestAllThreadsShutdown
        /\ Goto("loop") /\ UNCHANGED <<clock, smt_errno, exec_type, result>>
     \/ /\ ~shutdown_request /\ rc = 0 /\ first_date = Never
        /\ Return("done")
        /\ UNCHANGED <<rest, byTime, byPriority, entry>>
     \/ /\ ~shutdown_request /\ (rc = 1 \/ (rc = 0 /\ first_date # Never))
        /\ Goto("loop") /\ UNCHANGED <<clock, smt_errno, exec_type, result>>
        /\ UNCHANGED <<rest, byTime, byPriority, entry>>
  /\ first_date' = Never
  /\ UNCHANGED <<async_removed, cur, async, reading, i, pollfns>>

WaitReturn ==
  \E rc \in {0, 1} \cup (IF "fail" \in Allowed THEN {-1} ELSE {}) : WaitReturns(rc)

-----------------------------------------------------------------------------
Exec ==
  \/ LoopEnd
  \/ PollRemove \/ PollCountDown \/ PollCall \/ PollReturn \/ PollFails
  \/ StartAsync \/ DueCall \/ DueOutranked \/ DueEnd \/ AsyncReturn \/ AsyncFails
  \/ IdleCall \/ IdleSkip \/ IdleDangles \/ IdleEnd
  \/ StartDialog \/ FirstEvent \/ Module
  \/ ReturnPlain \/ ReturnRecycled \/ ReturnBroken \/ ListEnd
  \/ DialogEnd \/ WaitCall \/ NoWait \/ WaitReturn

Next == UserCall \/ Exec \/ SmtExec \/ Tick

Spec == Init /\ [][Next]_vars

-----------------------------------------------------------------------------
(* Properties.                                                              *)

TypeOK ==
  /\ pc \in {"main", "polls", "due", "idle", "dialog", "modules", "call", "dialog_end", "loop",
             "wait", "null_call", "freed_read"}
  /\ caller \in {"main", "poll", "async", "idle", "module", "wait"}
  /\ thread \in [Thread -> {"fresh", "busy", "passive", "ended"}] /\ cur \in Thread \cup {None}
  /\ entry \in [Block -> Async]
  /\ Members(byTime) \subseteq Block /\ Members(byPriority) \subseteq Block
  /\ async \in Block \cup {ListHead}
  /\ cur_date \in 0 .. MaxClock /\ clock \in 0 .. MaxClock /\ first_date \in Nat
  /\ \A k \in DOMAIN pollfns :
       pollfns[k] \in [fn : Fn \cup {None}, interval : Interval, togo : Nat]
  /\ {async_removed, timeRead, waitfn, shutdown_request, told} \subseteq BOOLEAN
  /\ exec_type \in ExecTypes /\ result \in {"none", "more", "done"}
  /\ smt_errno \in {"none", "OUTOFMEMORY"}
  /\ calls \in 0 .. MaxCalls /\ i \in Nat \ {0}

(* schedule_async_nonblock keeps one set of functions in two orders, and   *)
(* async_destroy takes a function out of both: neither list ever has a     *)
(* function the other has not, or one twice.                                *)
OrdersAgree ==
  /\ NoDuplicates(byTime) /\ NoDuplicates(byPriority)
  /\ Members(byTime) = Members(byPriority)

(* The list steps 2 and 4 stop early on is in order of date, the one the   *)
(* scan after a module stops early on in order of priority, then date,     *)
(* descheduled functions included.                                          *)
OrdersSorted ==
  /\ \A j, k \in DOMAIN byTime : j < k => entry[byTime[j]].date =< entry[byTime[k]].date
  /\ \A j, k \in DOMAIN byPriority :
       LET a == entry[byPriority[j]]
           b == entry[byPriority[k]]
       IN  j < k => a.priority > b.priority \/ (a.priority = b.priority /\ a.date =< b.date)

(* The two orders of the asynchronous functions, together.                  *)
OrdersKept == OrdersAgree /\ OrdersSorted

(* While smt_exec walks the list of functions, which the called functions  *)
(* change under it, its pointer is to a function of the list or the head.  *)
WalkIsSafe ==
  /\ pc # "freed_read"
  /\ pc \in {"due", "idle"} \/ In("async") \/ In("idle")
       => async \in Members(byTime) \cup {ListHead}

(* smt_exec never calls a null pointer: a function that was descheduled is *)
(* off the list before it would be called.                                  *)
NoNullCall == pc # "null_call"

(* A function is called when its date has come and no active thread        *)
(* outranks it at that moment, although the clock was read and the list    *)
(* entered before other functions ran and woke threads.                     *)
CalledInTime ==
  [][In("async")' /\ ~In("async")
       => /\ entry[async].date =< clock
          /\ \A t \in Busy : rank[t] =< entry[async].priority]_vars

(* The blocking function is never told to sleep past a function that has a *)
(* date (it is for functions of date zero, which step 4 skips).             *)
SleepsUntilFirst ==
  In("wait") /\ calls = 0 =>
    \A b \in Members(byTime) :
      Scheduled(b) /\ entry[b].date # 0 => first_date =< entry[b].date

(* A pass over the polling functions comes to each of them, although a     *)
(* removal moves the last one forward and the functions called on the way  *)
(* schedule and deschedule others.                                          *)
ToCome == {pollfns[j].fn : j \in {j \in DOMAIN pollfns : j >= i}} \ {None}

NobodySkipped ==
  [][pc = "polls" \/ In("poll") =>
       \A f \in ToCome : \/ f \in ToCome' \/ f = pollfns[i].fn
                         \/ f \notin {pollfns'[j].fn : j \in DOMAIN pollfns'}
                         \/ told']_vars
=============================================================================
