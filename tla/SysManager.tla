----------------------------- MODULE SysManager -----------------------------
(***************************************************************************)
(* The system manager: the daemon (libsmt/sysmana.c), its clients           *)
(* (sysclia.c) and the time slots of the tasks (smtslot.c).                 *)
(*                                                                         *)
(* Every task has a thread that starts, watches and stops a process; every *)
(* connected client has a control thread that passes its commands to the   *)
(* tasks, one after the other, and waits for their answers.  The threads    *)
(* meet in their queues.  The hazards: commands of several clients, alarms, *)
(* time slots, stops of all tasks and the ends of processes come in any     *)
(* order; files, processes and clients fail at any step; and a thread that  *)
(* ends leaves its queue unanswered.                                        *)
(*                                                                         *)
(* The system is one record, sys.  Each event of a thread is one step.      *)
(***************************************************************************)
EXTENDS Integers, Sequences, SequencesExt, FiniteSetsExt

CONSTANTS NULL,
  Plans             \* what happens from outside: records of the tasks in sysman.ini, a sequence;
                    \* their setup (required, restart, slots); the script of each client;
                    \* and bounds on the things that fail, processes that end by themselves,
                    \* looks at the time, answers of tasks, and clients that leave

VARIABLE sys

(* task_create: a new thread has its first event in its queue.              *)
task_create ==
  [state |-> "Start", pid |-> FALSE, required |-> FALSE, restart |-> FALSE,
   alarms |-> 0, queue |-> <<[ev |-> "Task", from |-> NULL]>>,
   slot |-> [state |-> "Expect", inbox |-> << >>, ticks |-> 0, reply_to |-> FALSE]]

MInit == \E plan \in Plans :
  sys = [plan |-> plan,                                        \* what is left of it
         tasks |-> plan.tasks,                                 \* the list
         task  |-> [t \in ToSet(plan.tasks) |-> task_create],
         running |-> [t \in ToSet(plan.tasks) |-> 0],          \* the processes there are
         unkilled |-> {},
         active |-> FALSE,                                     \* system_active_flag
         ending |-> FALSE,
         client  |-> [c \in DOMAIN plan.script |-> "Making"],
         control |-> [c \in DOMAIN plan.script |-> [state |-> "New", command |-> NULL, asked |-> NULL, inbox |-> << >>]],
         up   |-> [c \in DOMAIN plan.script |-> << >>],
         down |-> [c \in DOMAIN plan.script |-> << >>]]

TaskNames == DOMAIN sys.task
Clients   == DOMAIN sys.client

-----------------------------------------------------------------------------
(* The task threads.                                                       *)

Live(s, t) == t \in ToSet(s.tasks)

Post(s, t, ev) == [s EXCEPT !.task[t].queue = Append(@, [ev |-> ev, from |-> NULL])]

(* A reply goes to the queue of a control thread; the master and the timer  *)
(* reject it.                                                               *)
Reply(s, c, kind, t) ==
  IF c = NULL \/ s.control[c].state = "Gone" THEN s
  ELSE [s EXCEPT !.control[c].inbox = Append(@, [kind |-> kind, of |-> t])]

system_active(s) == \E t \in ToSet(s.tasks) : s.task[t].required /\ s.task[t].pid

refresh_logical_system_state(s) == [s EXCEPT !.active = system_active(s)]

broadcast_stop_all_tasks(s) ==
  [s EXCEPT !.task = [t \in DOMAIN @ |-> IF Live(s, t) THEN Post(s, t, "Stop-Force").task[t] ELSE @[t]]]

(* The list keeps its order.                                                *)
destroy_the_task(s, t) ==
  LET place == CHOOSE i \in DOMAIN s.tasks : s.tasks[i] = t
  IN  [s EXCEPT !.tasks = RemoveAt(@, place), !.task[t].state = "Gone"]

(* Task-Not-Running: a required task takes all others with it.              *)
NotRunning(s, t) ==
  refresh_logical_system_state(
    IF s.task[t].required THEN broadcast_stop_all_tasks([s EXCEPT !.task[t].state = "Stopped"])
    ELSE [s EXCEPT !.task[t].state = "Paused"])

Failed(s, t, from) == NotRunning(Reply(s, from, "error", t), t)

(* Without its file a task keeps the values it had.                         *)
load_task_values(s, t, fault) ==
  IF fault = "missing" THEN s
  ELSE [s EXCEPT !.task[t].required = s.plan.setup[t].required, !.task[t].restart = s.plan.setup[t].restart]

load_task_time_slots(s, t) ==
  [s EXCEPT !.task[t].slot.inbox = @ \o IF s.plan.setup[t].slots THEN <<"Specify", "Off">> ELSE <<"Off">>]

run_task_startup_command(s, t, fault) ==
  IF fault = "command" THEN [s EXCEPT !.task[t].pid = FALSE]
  ELSE [s EXCEPT !.task[t].pid = TRUE, !.running[t] = @ + 1]

monitor_active_task_status(s, t) == [s EXCEPT !.task[t].alarms = @ + 1]

Started(s, t, from, fault) ==
  LET u == run_task_startup_command(s, t, fault)
  IN  IF ~u.task[t].pid THEN Failed(u, t, from)
      ELSE monitor_active_task_status(refresh_logical_system_state([u EXCEPT !.task[t].state = "Running"]), t)

Start(s, t, from, fault, slots) ==
  LET loaded == load_task_values(s, t, fault)
  IN  IF fault \in {"missing", "nocommand"} THEN Failed(loaded, t, from)
      ELSE Started(IF slots THEN load_task_time_slots(loaded, t) ELSE loaded, t, from, fault)

Answered(s, t, from) == IF s.task[t].state = "Running" THEN Reply(s, from, "ok", t) ELSE s

(* shut_down_child_task and what follows it; a process that cannot be       *)
(* killed ends the thread, and nobody is told.                              *)
Killed(s, t) == [s EXCEPT !.running[t] = 0, !.task[t].pid = FALSE]
Unkilled(s, t) == destroy_the_task([s EXCEPT !.unkilled = @ \cup {t}, !.task[t].pid = FALSE], t)

Stop(s, t, from, fault, next) ==
  IF fault = "kill" THEN Unkilled(s, t)
  ELSE Reply(refresh_logical_system_state([Killed(s, t) EXCEPT !.task[t].state = next]), from, "ok", t)

(* An alarm finds the process ended, or asks for another one.               *)
check_task_still_running(s, t, fault) ==
  CASE s.running[t] > 0 -> monitor_active_task_status(s, t)
    [] s.running[t] = 0 /\ s.task[t].restart -> Started([s EXCEPT !.task[t].pid = FALSE], t, NULL, fault)
    [] OTHER -> NotRunning([s EXCEPT !.task[t].pid = FALSE], t)

(* A task thread takes an event; what is not here is ignored.               *)
TaskStep(s, t, e, fault) ==
  LET state == s.task[t].state
      ev    == e.ev
  IN  CASE state = "Start" ->
             IF fault \in {"missing", "nocommand"} THEN Failed(load_task_values(s, t, fault), t, NULL)
             ELSE refresh_logical_system_state([load_task_values(s, t, fault) EXCEPT !.task[t].state = "Stopped"])
        [] state \in {"Stopped", "Paused"} /\ ev \in {"Start-Req", "Start-Force"} ->
             Answered(Start(s, t, e.from, fault, TRUE), t, e.from)
        [] state = "Paused" /\ ev = "Start-Auto" -> Start(s, t, NULL, fault, FALSE)
        [] state = "Paused" /\ ev = "Stop-Force" -> [s EXCEPT !.task[t].state = "Stopped"]
        [] state \in {"Stopped", "Paused"} /\ ev \in {"Pause-Req", "Stop-Req"} -> Reply(s, e.from, "error", t)
        [] state = "Running" /\ ev = "Start-Req" -> Reply(s, e.from, "error", t)
        [] state = "Running" /\ ev \in {"Pause-Req", "Pause-Auto"} -> Stop(s, t, e.from, fault, "Paused")
        [] state = "Running" /\ ev \in {"Stop-Req", "Stop-Force"} -> Stop(s, t, e.from, fault, "Stopped")
        [] state = "Running" /\ ev = "Alarm" -> check_task_still_running(s, t, fault)
        [] ev = "Status-Req" -> Reply(s, e.from, state, t)
        [] OTHER -> s

(* What can fail in a step: a file, a command, or a kill of what runs.      *)
Faults(s, t, ev) ==
  LET state == s.task[t].state
  IN  CASE state = "Start" -> {"missing", "nocommand"}
        [] state \in {"Stopped", "Paused"} /\ ev \in {"Start-Req", "Start-Force"} -> {"missing", "nocommand", "command"}
        [] state = "Paused" /\ ev = "Start-Auto" -> {"missing", "nocommand", "command"}
        [] state = "Running" /\ ev = "Alarm" /\ s.running[t] = 0 /\ s.task[t].restart -> {"command"}
        [] state = "Running" /\ ev \in {"Pause-Req", "Pause-Auto", "Stop-Req", "Stop-Force", "Shutdown"}
             /\ s.running[t] > 0 -> {"kill"}
        [] OTHER -> {}

OrFault(s, t, ev, Do(_, _)) ==
  \/ sys' = Do(s, "none")
  \/ s.plan.faults > 0 /\ \E f \in Faults(s, t, ev) : sys' = Do([s EXCEPT !.plan.faults = @ - 1], f)

TaskEvent(t) ==
  LET q == sys.task[t].queue
  IN  /\ Live(sys, t) /\ ~sys.ending /\ q /= << >>
      /\ OrFault([sys EXCEPT !.task[t].queue = Tail(q)], t, q[1].ev,
                 LAMBDA s, fault : TaskStep(s, t, q[1], fault))

(* The shutdown overtakes what is in the queue.                             *)
TaskShutdown(t) ==
  /\ Live(sys, t) /\ sys.ending
  /\ OrFault(sys, t, "Shutdown",
             LAMBDA s, fault : CASE s.task[t].state /= "Running" -> destroy_the_task(s, t)
                                 [] s.task[t].state = "Running" /\ fault = "kill" -> Unkilled(s, t)
                                 [] OTHER -> destroy_the_task(Stop(s, t, NULL, fault, "Running"), t))

Alarm(t) ==
  /\ Live(sys, t) /\ sys.task[t].alarms > 0
  /\ sys' = Post([sys EXCEPT !.task[t].alarms = @ - 1], t, "Alarm")

ProcessEnds(t) ==
  /\ sys.running[t] > 0 /\ sys.plan.ends > 0
  /\ sys' = [sys EXCEPT !.running[t] = @ - 1, !.plan.ends = @ - 1]

-----------------------------------------------------------------------------
(* The time slots of a task: a thread that says when to start and pause it. *)
(* Every word that switches it asks for an alarm of its own.                *)
SlotStep(s, t, ev) ==
  LET slot == s.task[t].slot
      to(state) == [s EXCEPT !.task[t].slot.state = state, !.task[t].slot.ticks = @ + 1]
      tell(u, what) == IF slot.reply_to THEN Post(u, t, what) ELSE u
  IN  CASE ev = "Specify" -> [s EXCEPT !.task[t].slot.state = "Expect", !.task[t].slot.reply_to = TRUE]
        [] ev = "Off" /\ slot.state = "Expect" -> to("Off")
        [] ev = "Off" /\ slot.state /= "Expect" -> tell(to("Off"), "Pause-Auto")
        [] ev = "On"  -> tell(to("On"), "Start-Auto")

SlotEvent(t) ==
  LET slot == sys.task[t].slot
  IN  /\ Live(sys, t) /\ slot.inbox /= << >>
      /\ sys' = SlotStep([sys EXCEPT !.task[t].slot.inbox = Tail(@)], t, slot.inbox[1])

(* A tick looks at the time, which is in a slot or not; not between a       *)
(* specification and the word that follows it in the queue.                 *)
Tick(t, filled) ==
  LET slot == sys.task[t].slot
      s    == [sys EXCEPT !.plan.looks = @ - 1, !.task[t].slot.ticks = @ - 1]
  IN  /\ Live(sys, t) /\ slot.ticks > 0 /\ slot.state /= "Expect" /\ sys.plan.looks > 0
      /\ (slot.state = "On") /= filled
      /\ sys' = SlotStep(s, t, IF filled THEN "On" ELSE "Off")

-----------------------------------------------------------------------------
(* The control threads of the daemon.                                      *)

Put(s, c, kind, t) ==
  IF s.client[c] = "Gone" THEN [s EXCEPT !.control[c].inbox = Append(@, [kind |-> "closed", of |-> NULL])]
  ELSE [s EXCEPT !.down[c] = Append(@, [kind |-> kind, of |-> t])]

control_ready_for_command(s, c) == Put([s EXCEPT !.control[c].state = "Reading"], c, "ready", NULL)

(* The places in the list that get_first_affected_task and                  *)
(* get_next_affected_task look for.                                         *)
Affected(s, arg) == {i \in DOMAIN s.tasks : arg \in {s.tasks[i], NULL}}

Request == [status |-> "Status-Req", start |-> "Start-Req", pause |-> "Pause-Req",
            stop |-> "Stop-Req", refresh |-> "Stop-Req"]

create_task_threads(s) == [s EXCEPT !.tasks = s.plan.tasks, !.task = [t \in DOMAIN @ |-> task_create]]

(* The task that comes next is always the first one that is affected.       *)
get_next_affected_task(s, c) ==
  LET op    == s.control[c].command.op
      to    == Affected(s, s.control[c].command.arg)
      first == s.tasks[Min(to)]
  IN  CASE to /= {} ->
             [s EXCEPT !.control[c].state = "Waiting", !.control[c].asked = first,
                       !.task[first].queue = Append(@, [ev |-> Request[op], from |-> c])]
        [] to = {} /\ op = "refresh" -> control_ready_for_command(create_task_threads(s), c)
        [] OTHER -> control_ready_for_command(s, c)

(* One message for each task; if the client is gone, one answer for each.   *)
control_list_of_tasks(s, c) ==
  IF s.client[c] = "Gone"
  THEN [s EXCEPT !.control[c].inbox = @ \o [i \in DOMAIN s.tasks |-> [kind |-> "closed", of |-> NULL]]]
  ELSE [s EXCEPT !.down[c] = @ \o [i \in DOMAIN s.tasks |-> [kind |-> "task", of |-> s.tasks[i]]]]

(* A refresh is one of all tasks, whatever it names.                        *)
force_all_tasks(command) == [command EXCEPT !.arg = NULL]

(* The commit goes to a method nobody has, and its answer never comes.      *)
Command(s, c, command) ==
  LET meant == IF command.op = "refresh" THEN force_all_tasks(command) ELSE command
      u     == [s EXCEPT !.control[c].command = meant]
  IN  CASE command.op = "list" -> control_ready_for_command(control_list_of_tasks(u, c), c)
        [] command.op = "halt" -> Put([u EXCEPT !.control[c].state = "Committing"], c, "halting", NULL)
        [] OTHER -> get_next_affected_task(u, c)

Connect(c) ==
  /\ sys.control[c].state = "New" /\ ~sys.ending
  /\ sys' = control_ready_for_command(sys, c)

ControlReads(c) ==
  /\ ~sys.ending
  /\ sys.control[c].state = "Reading" /\ sys.up[c] /= << >>
  /\ sys' = Command([sys EXCEPT !.up[c] = Tail(@)], c, sys.up[c][1])

(* Answers of a task go on to the client; an error of a status does not.    *)
Passed(s, c, kind) == IF s.control[c].command.op = "status" THEN kind /= "error" ELSE TRUE

ControlHears(c) ==
  LET r == sys.control[c].inbox[1]
      s == [sys EXCEPT !.control[c].inbox = Tail(@), !.plan.answers = @ - 1]
  IN  /\ sys.control[c].inbox /= << >> /\ sys.control[c].state = "Waiting" /\ r.kind /= "closed"
      /\ ~sys.ending /\ sys.plan.answers > 0
      /\ sys' = get_next_affected_task(IF Passed(sys, c, r.kind) THEN Put(s, c, r.kind, r.of) ELSE s, c)

EndControl(s, c) == [s EXCEPT !.control[c] = [@ EXCEPT !.state = "Gone", !.inbox = << >>]]

(* The end of the connection, at a read or in the answer to a put; the      *)
(* thread that waits for a commit goes on to halt the system.               *)
ControlCloses(c) ==
  LET k == sys.control[c]
  IN  /\ k.state \notin {"New", "Gone"} /\ ~sys.ending
      /\ \/ k.state = "Reading" /\ sys.client[c] = "Gone" /\ sys.up[c] = << >>
         \/ k.inbox /= << >> /\ k.inbox[1].kind = "closed"
         \/ k.state = "Committing" /\ sys.client[c] = "Gone" /\ sys.down[c] /= << >>
      /\ sys' = [EndControl(sys, c) EXCEPT !.ending = @ \/ k.state = "Committing"]

ControlShutdown(c) ==
  /\ sys.ending /\ sys.control[c].state /= "Gone"
  /\ sys' = EndControl(sys, c)

(* A connection that cannot be accepted ends the master and the system.     *)
AcceptFails(c) ==
  /\ sys.control[c].state = "New" /\ ~sys.ending /\ sys.plan.faults > 0
  /\ sys' = [EndControl(sys, c) EXCEPT !.plan.faults = @ - 1, !.ending = TRUE]

-----------------------------------------------------------------------------
(* The clients.                                                            *)
Awaited(state) ==
  CASE state = "Making"  -> {"ready"}
    [] state = "Reading" -> {"ready", "task", "ok", "error", "Running", "Paused", "Stopped"}
    [] state = "Halting" -> {"halting"}
    [] OTHER -> {}

check_daemon_message(state, m) ==
  CASE m.kind \notin Awaited(state) -> "Unexpected"
    [] m.kind \in Awaited(state) /\ m.kind = "ready"   -> "Command"
    [] m.kind \in Awaited(state) /\ m.kind = "halting" -> "Gone"
    [] OTHER -> state

ClientReads(c) ==
  /\ sys.client[c] \in {"Making", "Reading", "Halting"} /\ sys.down[c] /= << >>
  /\ sys' = [sys EXCEPT !.client[c] = check_daemon_message(@, sys.down[c][1]), !.down[c] = Tail(@)]

(* Halting, and stopping all, have to be confirmed.                         *)
get_user_command_input(c) ==
  LET command == sys.plan.script[c][1]
      rest    == [sys EXCEPT !.plan.script[c] = Tail(@)]
      state   == IF command.op = "halt" THEN "Halting" ELSE "Reading"
      sure    == command.op = "halt" \/ (command.op = "stop" /\ command.arg = NULL)
  IN  /\ sys.client[c] = "Command" /\ sys.plan.script[c] /= << >>
      /\ \/ sys' = [rest EXCEPT !.client[c] = state, !.up[c] = Append(@, command)]
         \/ sure /\ sys' = rest

(* A user leaves at any time; the end of the daemon ends a client.          *)
ClientLeaves(c) ==
  /\ sys.client[c] \notin {"Gone", "Unexpected"} /\ sys.plan.leaves > 0
  /\ sys' = [sys EXCEPT !.client[c] = "Gone", !.plan.leaves = @ - 1]

MNext ==
  \/ \E t \in TaskNames : \/ TaskEvent(t) \/ TaskShutdown(t) \/ Alarm(t) \/ ProcessEnds(t) \/ SlotEvent(t)
                          \/ \E filled \in BOOLEAN : Tick(t, filled)
  \/ \E c \in Clients : \/ Connect(c) \/ AcceptFails(c) \/ ControlReads(c) \/ ControlHears(c) \/ ControlCloses(c)
                        \/ ControlShutdown(c) \/ ClientReads(c) \/ get_user_command_input(c) \/ ClientLeaves(c)

-----------------------------------------------------------------------------
Queued(t, ev) == \E i \in DOMAIN sys.task[t].queue : sys.task[t].queue[i].ev = ev

(* sysmana.c:1382: the manager thinks a task runs exactly when it has its   *)
(* process, and then an alarm is always to come that will find it ended.    *)
TasksWatched ==
  \A t \in ToSet(sys.tasks) :
    /\ (sys.task[t].state = "Running") <=> sys.task[t].pid
    /\ sys.task[t].pid => sys.task[t].alarms > 0 \/ Queued(t, "Alarm")

(* sysmana.c:1413: no process runs that the manager does not know of, and   *)
(* never two for one task, but those that could not be killed.              *)
NoOrphans ==
  \A t \in TaskNames \ sys.unkilled :
    /\ sys.running[t] <= 1
    /\ sys.running[t] = 1 => Live(sys, t) /\ sys.task[t].pid

(* sysmana.c:619: the state of the system that the startup and shutdown     *)
(* commands were last told is the state it has, unless a task thread has    *)
(* ended, or all have just been created anew.                               *)
ActiveKnown ==
  ToSet(sys.tasks) = TaskNames /\ (\E t \in TaskNames : sys.task[t].state /= "Start") =>
    sys.active = system_active(sys)

(* sysmana.c:799: a control thread that waits has its request in the queue  *)
(* of a task, or the answer in its own, unless the thread of the task has   *)
(* ended: another of this name, created by a refresh, knows nothing of it.  *)
AnswerToCome ==
  \A c \in Clients :
    LET k == sys.control[c]
    IN  k.state = "Waiting" =>
          \/ k.inbox /= << >>
          \/ ~Live(sys, k.asked) \/ k.asked \in sys.unkilled
          \/ \E i \in DOMAIN sys.task[k.asked].queue : sys.task[k.asked].queue[i].from = c

(* sysclia.c:170: client and daemon take turns, so a client never gets what *)
(* it does not expect.                                                      *)
TurnsTaken ==
  \A c \in Clients :
    /\ sys.client[c] /= "Unexpected"
    /\ sys.client[c] = "Command" =>
         /\ sys.up[c] = << >> /\ sys.down[c] = << >>
         /\ sys.control[c].state \in {"Reading", "Gone"} /\ sys.control[c].inbox = << >>

-----------------------------------------------------------------------------
(* The states of the system: what the records hold, for tasks T and         *)
(* clients C.                                                               *)
MSpec == MInit /\ [][MNext]_sys

Requests      == {"Status-Req", "Start-Req", "Pause-Req", "Stop-Req"}
Signals       == {"Task", "Alarm", "Stop-Force", "Start-Auto", "Pause-Auto"}
TaskStates    == {"Start", "Stopped", "Paused", "Running", "Gone"}
ControlStates == {"New", "Reading", "Waiting", "Committing", "Gone"}
ClientStates  == {"Making", "Command", "Reading", "Halting", "Gone", "Unexpected"}
Answers       == {"ok", "error", "Stopped", "Paused", "Running"}
Kinds         == Answers \cup {"ready", "task", "halting", "closed"}

(* The names that commands of the plans have for arguments.                 *)
Names == {NULL} \cup UNION {UNION {{plan.script[c][i].arg : i \in DOMAIN plan.script[c]} :
                                   c \in DOMAIN plan.script} : plan \in Plans}

Commands == [op : DOMAIN Request \cup {"list", "halt"}, arg : Names]

PlanRec(T, C) ==
  [tasks : Seq(T), setup : [T -> [required : BOOLEAN, restart : BOOLEAN, slots : BOOLEAN]],
   script : [C -> Seq(Commands)], faults : Int, ends : Int, looks : Int, answers : Int, leaves : Int]

EventRec(C) == [ev : Requests, from : C] \cup [ev : Signals, from : {NULL}]
Words       == {"Specify", "Off"}
SlotRec     == [state : {"Expect", "Off", "On"}, inbox : Seq(Words), ticks : Int, reply_to : BOOLEAN]

TaskRec(C) ==
  [state : TaskStates, pid : BOOLEAN, required : BOOLEAN, restart : BOOLEAN, alarms : Nat,
   queue : Seq(EventRec(C)), slot : SlotRec]

MessageRec(T) == [kind : Kinds, of : T \cup {NULL}]
ControlRec(T) ==
  [state : ControlStates, command : Commands \cup {NULL}, asked : T \cup {NULL}, inbox : Seq(MessageRec(T))]

SysOf(T, C) ==
  [plan : PlanRec(T, C), tasks : Seq(T), task : [T -> TaskRec(C)], running : [T -> Nat],
   unkilled : SUBSET T, active : BOOLEAN, ending : BOOLEAN, client : [C -> ClientStates],
   control : [C -> ControlRec(T)], up : [C -> Seq(Commands)], down : [C -> Seq(MessageRec(T))]]

Distinct(q) == \A i, j \in DOMAIN q : q[i] = q[j] => i = j

(* What can come from outside: every task is named once in sysman.ini, and  *)
(* no task and no client is NULL.                                           *)
GoodPlans ==
  \A plan \in Plans :
    LET T == ToSet(plan.tasks)
        C == DOMAIN plan.script
    IN  plan \in PlanRec(T, C) /\ Distinct(plan.tasks) /\ NULL \notin T \cup C

-----------------------------------------------------------------------------
(* What holds of the tasks from one event to the next.                      *)
HasAlarm(q) == \E i \in DOMAIN q : q[i].ev = "Alarm"

(* A new thread has nothing before the event it was created with.           *)
NewOK(r) == r.state = "Start" => r.queue /= << >> /\ r.queue[1].from = NULL

WatchedOK(s, t) ==
  /\ (s.task[t].state = "Running") <=> s.task[t].pid
  /\ s.task[t].pid => s.task[t].alarms > 0 \/ HasAlarm(s.task[t].queue)

OrphansOK(s, t) ==
  t \notin s.unkilled => s.running[t] <= 1 /\ (s.running[t] = 1 => Live(s, t) /\ s.task[t].pid)

ActiveOK(T, s) ==
  ToSet(s.tasks) = T /\ (\E t \in T : s.task[t].state /= "Start") => s.active = system_active(s)

(* Only a shutdown, and a process that cannot be killed, end a thread.      *)
EndedOK(T, s) == \A t \in T : ~Live(s, t) => s.ending \/ t \in s.unkilled

PlanOK(T, s) == Distinct(s.plan.tasks) /\ ToSet(s.plan.tasks) = T

TaskOK(s, t) ==
  /\ Live(s, t) => s.task[t].state /= "Gone" /\ NewOK(s.task[t]) /\ WatchedOK(s, t)
  /\ OrphansOK(s, t)

TasksOK(T, C, s) ==
  /\ s \in SysOf(T, C) /\ Distinct(s.tasks) /\ PlanOK(T, s)
  /\ \A t \in T : TaskOK(s, t)
  /\ ActiveOK(T, s) /\ EndedOK(T, s)

(* What holds of the control threads.                                       *)
AsksAt(s, t, c) == {i \in DOMAIN s.task[t].queue : s.task[t].queue[i].from = c}
NoneAsked(T, s, c) == \A t \in T : AsksAt(s, t, c) = {}

(* A thread that waits asked for all tasks with a refresh, and its answer   *)
(* is to come, or was lost with the thread of the task.                     *)
WaitsOK(s, c) ==
  LET k == s.control[c]
  IN  k.state = "Waiting" =>
        /\ k.asked /= NULL
        /\ k.command \in Commands /\ k.command.op \in DOMAIN Request
        /\ k.command.op = "refresh" => k.command.arg = NULL
        /\ \/ k.inbox /= << >>
           \/ ~Live(s, k.asked) \/ k.asked \in s.unkilled
           \/ AsksAt(s, k.asked, c) /= {}

(* What is between a client and its control thread, while the client        *)
(* follows: one question or its answers, and one request or its reply.      *)
PendingOK(T, s, c) ==
  LET k == s.control[c]
  IN  /\ k.state \in {"New", "Reading", "Committing"} => k.inbox = << >> /\ NoneAsked(T, s, c)
      /\ k.state = "Gone" => k.inbox = << >>
      /\ k.state = "Waiting" =>
           /\ \A t \in T \ {k.asked} : AsksAt(s, t, c) = {}
           /\ \A i, j \in AsksAt(s, k.asked, c) : i = j
           /\ k.inbox /= << >> => Len(k.inbox) = 1 /\ k.inbox[1].kind \in Answers /\ NoneAsked(T, s, c)

AllIn(q, kinds) == \A i \in DOMAIN q : q[i].kind \in kinds
Complete(q)     == q /= << >> /\ q[Len(q)].kind = "ready"
OnlyLast(q)     == \A i \in DOMAIN q : q[i].kind = "ready" => i = Len(q)

DialogOK(s, c) ==
  LET k    == s.control[c].state
      up   == s.up[c]
      down == s.down[c]
  IN  CASE s.client[c] = "Making" ->
             /\ up = << >> /\ AllIn(down, {"ready"}) /\ OnlyLast(down)
             /\ k \in {"New", "Reading", "Gone"} /\ (k = "New" => down = << >>)
        [] s.client[c] = "Command" -> up = << >> /\ down = << >> /\ k \in {"Reading", "Gone"}
        [] s.client[c] = "Reading" ->
             /\ AllIn(down, Answers \cup {"task", "ready"}) /\ OnlyLast(down)
             /\ Complete(down) => up = << >>
             /\ k = "Waiting" => up = << >> /\ ~Complete(down)
             /\ k = "Reading" /\ up /= << >> => Len(up) = 1 /\ up[1].op /= "halt" /\ down = << >>
             /\ k = "Reading" /\ up = << >>  => Complete(down)
             /\ k \in {"Reading", "Waiting", "Gone"}
        [] s.client[c] = "Halting" ->
             /\ AllIn(down, {"halting"})
             /\ k = "Reading"    => Len(up) = 1 /\ up[1].op = "halt"
             /\ k = "Committing" => up = << >>
             /\ k \in {"Reading", "Committing", "Gone"}
        [] OTHER -> s.client[c] = "Gone"

Follows(s, c) == s.client[c] /= "Gone"

ClientOK(T, s, c) == WaitsOK(s, c) /\ DialogOK(s, c) /\ (Follows(s, c) => PendingOK(T, s, c))

ManagerOK(T, C, s) == TasksOK(T, C, s) /\ \A c \in C : ClientOK(T, s, c)

(* All of it, in every state.                                               *)
ManagerKept == ManagerOK(TaskNames, Clients, sys)
=============================================================================
