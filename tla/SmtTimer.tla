------------------------------ MODULE SmtTimer ------------------------------
(***************************************************************************)
(* The timer agent (libsmt/smttime.c): the list of requests, and for each  *)
(* request an asynchronous function of the kernel, generate_response_event *)
(* with the request as its argument.  SmtAsync is the kernel it runs in;   *)
(* this module says what its functions do: modules of clients make and     *)
(* drop requests, generate_response_event answers one, and                 *)
(* sleep_until_time is the blocking function unless another agent, such as *)
(* the socket agent, has registered its own.                               *)
(*                                                                         *)
(* Fn is the set of addresses of requests; an address is not used twice.   *)
(***************************************************************************)
EXTENDS SmtAsync

CONSTANTS
  Client,          \* queues that ask
  Tag,             \* tags they tell their requests apart with
  Cycles,          \* cycle counts asked for, 0 is for ever
  Blocking,        \* which of "timer", "other" may have registered the blocking function
  MaxSleep         \* 48 days

(* No clock reaches the date 99999999, and generate_response_event returns *)
(* 1: it never fails.                                                       *)
ASSUME TimerAssumption ==
  /\ Prio # {} /\ Cycles \subseteq Nat
  /\ \A n \in Delay \cup {1} : MaxClock + n < Never
  /\ "fail" \notin Calls["async"]

VARIABLES
  requests,        \* the list, oldest first
  req,             \* what the addresses hold
  cur_time,        \* the agent's cur_date and cur_time, 0 at first
  loopreq,         \* how far sleep_until_time is in the list, 0 outside it
  rc,              \* what it is going to return
  blocking,        \* whose function it is
  asked, answers,  \* replies asked for (0: any number) and sent, by request
  dropped          \* requests taken away by their client

timer == <<requests, req, cur_time, loopreq, rc, blocking, asked, answers, dropped>>
tvars == <<vars, timer>>

PriorityMax == CHOOSE p \in Prio : TRUE     \* SMT_PRIORITY_MAX

Live   == Members(requests)
Unused == [reply_to |-> None, tag |-> None, delay |-> 0, cycles |-> 0, date |-> 0]

TInit ==
  /\ Init
  /\ waitfn = TRUE
  /\ requests = << >> /\ req = [r \in Fn |-> Unused]
  /\ cur_time = 0 /\ loopreq = 0 /\ rc = 0 /\ blocking \in Blocking
  /\ asked = [r \in Fn |-> 0] /\ answers = [r \in Fn |-> 0] /\ dropped = {}

-----------------------------------------------------------------------------
(* Requests.                                                                *)

(* relative_request_create and absolute_request_create.                     *)
RequestCreate(r, q, tag, delay, cycles, date) ==
  /\ requests' = Append(requests, r)
  /\ req' = [req EXCEPT ![r] = [reply_to |-> q, tag |-> tag, delay |-> delay,
                                cycles |-> cycles, date |-> date]]
  /\ asked' = [asked EXCEPT ![r] = cycles]
  /\ UNCHANGED <<cur_time, loopreq, rc, blocking, answers, dropped>>

(* create_cycled_clock_request, and create_single_alarm_request, which has *)
(* one cycle.  Without memory the request is made but never scheduled.      *)
CreateClock(r, q, tag, n, cycles) ==
  LET delay == IF n = 0 THEN 1 ELSE n
  IN  /\ ScheduleAsync(r, PriorityMax, clock + delay) \/ ScheduleAsyncFails
      /\ RequestCreate(r, q, tag, delay, cycles, clock + delay)

(* create_single_wakeup_request.                                            *)
CreateWakeup(r, q, tag, date) ==
  /\ ScheduleAsync(r, PriorityMax, date) \/ ScheduleAsyncFails
  /\ RequestCreate(r, q, tag, 0, 1, date)

(* Mutant: the requests stay scheduled.                                     *)
DropUnlinkedOnly(S) ==
  /\ MayCall("deschedule")
  /\ requests' = Without(requests, S)
  /\ dropped' = dropped \cup S
  /\ UNCHANGED <<lists, pollfns, rest, smt_errno>>
  /\ UNCHANGED <<req, cur_time, loopreq, rc, blocking, asked, answers>>

(* Requests are descheduled, unlinked and freed.                            *)
Drop(S) ==
  /\ MayCall("deschedule")
  /\ Nullify(S)
  /\ requests' = Without(requests, S)
  /\ dropped' = dropped \cup S
  /\ UNCHANGED <<pollfns, rest, smt_errno>>
  /\ UNCHANGED <<req, cur_time, loopreq, rc, blocking, asked, answers>>

FlushRequestsForClient(q) == Drop({r \in Live : req[r].reply_to = q})

ClearRequestsMatchingTag(q, tag) ==
  Drop({r \in Live : req[r].reply_to = q /\ req[r].tag = tag})

ClientCall ==
  /\ In("module")
  /\ \/ \E r \in {r \in Fn : req[r] = Unused}, q \in Client, tag \in Tag, n \in Delay :
          \/ \E c \in Cycles : CreateClock(r, q, tag, n, c)
          \/ CreateWakeup(r, q, tag, clock + n)
     \/ \E q \in Client : \/ FlushRequestsForClient(q)
                          \/ \E tag \in Tag : ClearRequestsMatchingTag(q, tag)

-----------------------------------------------------------------------------
(* Answers.                                                                 *)

(* future_date, from the agent's present when from the past is not enough. *)
NextDate(x) ==
  IF x.date + x.delay < cur_time' THEN cur_time' + x.delay ELSE x.date + x.delay

(* The request is scheduled, if there is memory for that.                   *)
Schedule(r, date) ==
  \/ /\ \E b \in Block \ Members(byTime) : Insert(b, r, PriorityMax, date)
     /\ UNCHANGED smt_errno
  \/ /\ Block = Members(byTime)
     /\ smt_errno' = "OUTOFMEMORY"
     /\ UNCHANGED <<byTime, byPriority, entry>>

(* Mutant: what has cycles left is not scheduled again.                     *)
AnswerForgets(r) ==
  /\ answers' = [answers EXCEPT ![r] = @ + 1]
  /\ requests' = IF req[r].cycles = 1 THEN Unlink(requests, r) ELSE requests
  /\ req' = [req EXCEPT ![r].date = NextDate(req[r]), ![r].cycles = IF @ > 1 THEN @ - 1 ELSE @]
  /\ UNCHANGED <<byTime, byPriority, entry, smt_errno, blocking, asked, dropped>>

(* The reply and cancel_or_reschedule_request.  A request that was freed is *)
(* read as it was left: it is answered too.                                 *)
Answer(r) ==
  /\ answers' = [answers EXCEPT ![r] = @ + 1]
  /\ \/ /\ req[r].cycles = 1
        /\ requests' = Unlink(requests, r)
        /\ req' = req
        /\ UNCHANGED <<byTime, byPriority, entry, smt_errno>>
     \/ /\ req[r].cycles # 1
        /\ Schedule(r, NextDate(req[r]))
        /\ req' = [req EXCEPT ![r].date = NextDate(req[r]),
                              ![r].cycles = IF @ > 1 THEN @ - 1 ELSE @]
        /\ UNCHANGED requests
  /\ UNCHANGED <<blocking, asked, dropped>>

(* generate_response_event.  (The clock is not set back here, so the dates *)
(* of the requests need no correction.)                                     *)
GenerateResponseEvent ==
  /\ In("async") /\ calls = 0
  /\ calls' = 1
  /\ UNCHANGED cur_time
  /\ Answer(entry[async].fn)
  /\ UNCHANGED <<pc, caller, async_removed, local, pollfns, rest, clock, result>>
  /\ UNCHANGED <<loopreq, rc>>

(* sleep_until_time is entered: nothing to wait for, too much, or it sleeps *)
(* until the moment after the date, or a signal.                            *)
Sleeping == In("wait") /\ blocking = "timer" /\ loopreq = 0

SleepForever ==
  /\ Sleeping /\ first_date = Never
  /\ WaitReturns(0)
  /\ UNCHANGED timer

SleepTooLong ==
  /\ Sleeping /\ first_date # Never /\ first_date + 1 - clock > MaxSleep
  /\ WaitReturns(-1)
  /\ cur_time' = clock
  /\ UNCHANGED <<requests, req, loopreq, rc, blocking, asked, answers, dropped>>

Sleep ==
  /\ Sleeping /\ first_date # Never /\ first_date + 1 - clock =< MaxSleep
  /\ clock > first_date \/ "interrupt" \in Allowed
  /\ cur_time' = clock
  /\ loopreq' = 1
  /\ UNCHANGED vars
  /\ UNCHANGED <<requests, req, rc, blocking, asked, answers, dropped>>

(* The loop over the requests: each one past its date is answered.          *)
SleepAnswer ==
  /\ loopreq \in DOMAIN requests
  /\ req[requests[loopreq]].date < cur_time
  /\ UNCHANGED cur_time
  /\ Answer(requests[loopreq])
  /\ loopreq' = IF req[requests[loopreq]].cycles = 1 THEN loopreq ELSE loopreq + 1
  /\ rc' = 1
  /\ UNCHANGED <<pc, caller, async_removed, local, pollfns, rest, clock, result, calls>>

SleepSkip ==
  /\ loopreq \in DOMAIN requests
  /\ req[requests[loopreq]].date >= cur_time
  /\ loopreq' = loopreq + 1
  /\ UNCHANGED vars
  /\ UNCHANGED <<requests, req, cur_time, rc, blocking, asked, answers, dropped>>

SleepEnd ==
  /\ loopreq > Len(requests)
  /\ WaitReturns(rc)
  /\ loopreq' = 0 /\ rc' = 0
  /\ UNCHANGED <<requests, req, cur_time, blocking, asked, answers, dropped>>

-----------------------------------------------------------------------------
(* The kernel, the called functions apart.                                  *)
Kernel ==
  /\ Exec \/ SmtExec
  /\ In("async") => calls = 1
  /\ ~(In("wait") /\ blocking = "timer")
  /\ UNCHANGED timer

TimePasses == Tick /\ UNCHANGED timer

Agent ==
  \/ GenerateResponseEvent
  \/ SleepForever \/ SleepTooLong \/ Sleep \/ SleepAnswer \/ SleepSkip \/ SleepEnd

ThreadWakes ==
  /\ \E t \in Thread : In("wait") /\ blocking # "timer" /\ WakeThread(t)
  /\ UNCHANGED timer

TNext ==
  \/ ClientCall \/ GenerateResponseEvent
  \/ SleepForever \/ SleepTooLong \/ Sleep \/ SleepAnswer \/ SleepSkip \/ SleepEnd
  \/ Kernel \/ TimePasses \/ ThreadWakes

TSpec == TInit /\ [][TNext]_tvars

(* The program runs on: main calls smt_exec again while there is more to   *)
(* do, functions return, time passes, and the lists of modules are finite.  *)
TFairSpec ==
  /\ TSpec
  /\ WF_tvars(Kernel /\ Exec) /\ WF_tvars(Agent)
  /\ WF_tvars(Kernel /\ SmtExec /\ result # "done")
  /\ WF_tvars(TimePasses)
  /\ SF_tvars(Kernel /\ ListEnd)

-----------------------------------------------------------------------------
(* Properties.                                                              *)

(* Entries that are still to be called.                                     *)
Ahead == {b \in Members(byTime) : Scheduled(b) /\ ~(In("async") /\ calls = 1 /\ b = async)}

(* Two structures hold a request, the agent's list and the kernel's: what  *)
(* is scheduled is in the list, once, at the same date, and what is in the *)
(* list is scheduled unless memory ran out or the program shuts down.  This *)
(* is so as long as sleep_until_time does not answer requests too.          *)
RequestsScheduled ==
  blocking = "other" =>
    /\ NoDuplicates(requests)
    /\ \A b \in Ahead : entry[b].fn \in Live /\ entry[b].date = req[entry[b].fn].date
    /\ \A b, c \in Ahead : entry[b].fn = entry[c].fn => b = c
    /\ \A r \in Live : told \/ smt_errno # "none" \/ \E b \in Ahead : entry[b].fn = r

(* A client gets no more replies than it asked for.                         *)
AnsweredOnce == \A r \in Fn : asked[r] > 0 => answers[r] =< asked[r]

(* No reply is sent early, or for a request its client has flushed or      *)
(* cleared, although the functions of the kernel may still be under way.   *)
(* This, too, is so as long as sleep_until_time does not answer requests:  *)
(* the function that answered late then answers the next cycle early.       *)
AnsweredRightly ==
  [][blocking = "other" =>
       \A r \in Fn : answers'[r] # answers[r] =>
         /\ req[r].date =< clock
         /\ r \in Live /\ r \notin dropped]_tvars

(* No request stays in the list while its time passes: it is answered, each *)
(* answer moving it to a later date, until it is done or lies beyond the    *)
(* last moment (sleep_until_time wakes up a moment after the date), or its  *)
(* client drops it.                                                         *)
LastDate == IF blocking = "timer" THEN MaxClock - 1 ELSE MaxClock

AnswerComes ==
  \A r \in Fn :
    r \in Live /\ req[r].date =< LastDate
      ~> r \notin Live \/ req[r].date > LastDate \/ told \/ smt_errno # "none"
=============================================================================
