------------------------- MODULE SysManager_proofs -------------------------
(***************************************************************************)
(* The system manager, for any tasks, any clients and any commands, and     *)
(* whatever fails.                                                          *)
(*                                                                         *)
(* ManagerOK has one part about the tasks, TasksOK, and one about each      *)
(* client with its control thread, ClientOK.  A step of a task changes the  *)
(* record of that task, and posts to the queues of others only events that  *)
(* no client asked for; a step of a client leaves the tasks alone, but for  *)
(* a request to one of them.  The lemmas say what each operation changes,   *)
(* and then what such a change keeps.                                       *)
(***************************************************************************)
EXTENDS SysManager, WellFoundedInduction, TLAPS

(* u differs from s at most in ...                                          *)
TaskOnly(s, u)    == u = [s EXCEPT !.task = u.task]
-----------------------------------------------------------------------------
LEMMA SetTask ==
  ASSUME NEW T, NEW C, NEW s \in SysOf(T, C), NEW f \in [T -> TaskRec(C)]
  PROVE  /\ [s EXCEPT !.task = f] \in SysOf(T, C)
         /\ [s EXCEPT !.task = f].task = f
         /\ TaskOnly(s, [s EXCEPT !.task = f])
  BY DEF SysOf, TaskOnly

LEMMA SetOneTask ==
  ASSUME NEW T, NEW C, NEW s \in SysOf(T, C), NEW t \in T, NEW r \in TaskRec(C)
  PROVE  LET u == [s EXCEPT !.task = [@ EXCEPT ![t] = r]]
         IN  /\ u \in SysOf(T, C)
             /\ TaskOnly(s, u)
             /\ u.task = [s.task EXCEPT ![t] = r]
             /\ u.task[t] = r
             /\ \A x \in T \ {t} : u.task[x] = s.task[x]
<1> DEFINE f == [s.task EXCEPT ![t] = r]
<1>1. s.task \in [T -> TaskRec(C)]
  BY DEF SysOf
<1>2. f \in [T -> TaskRec(C)] /\ f[t] = r /\ \A x \in T \ {t} : f[x] = s.task[x]
  BY <1>1
<1> HIDE DEF f
<1>3. [s EXCEPT !.task = f] \in SysOf(T, C) /\ [s EXCEPT !.task = f].task = f /\ TaskOnly(s, [s EXCEPT !.task = f])
  BY <1>2, SetTask
<1> QED BY <1>2, <1>3 DEF f

LEMMA Posting ==
  ASSUME NEW T, NEW C, NEW s \in SysOf(T, C), NEW t \in T, NEW ev \in Signals
  PROVE  LET u == Post(s, t, ev)
         IN  /\ u \in SysOf(T, C)
             /\ TaskOnly(s, u)
             /\ u.task[t] = [s.task[t] EXCEPT !.queue = Append(@, [ev |-> ev, from |-> NULL])]
             /\ \A x \in T \ {t} : u.task[x] = s.task[x]
<1> DEFINE e == [ev |-> ev, from |-> NULL]
           r == [s.task[t] EXCEPT !.queue = Append(@, e)]
<1>0. s.task[t] \in TaskRec(C)
  BY DEF SysOf
<1>1. e \in EventRec(C)
  BY DEF EventRec
<1>2. s.task[t].queue \in Seq(EventRec(C))
  BY <1>0 DEF TaskRec
<1>3. Append(s.task[t].queue, e) \in Seq(EventRec(C))
  BY <1>1, <1>2
<1>4. r \in TaskRec(C)
  BY <1>0, <1>3 DEF TaskRec
<1>5. Post(s, t, ev) = [s EXCEPT !.task = [@ EXCEPT ![t] = r]]
  BY DEF Post
<1> HIDE DEF r
<1>6. LET u == [s EXCEPT !.task = [@ EXCEPT ![t] = r]]
         IN  /\ u \in SysOf(T, C)
             /\ TaskOnly(s, u)
             /\ u.task[t] = r
             /\ \A x \in T \ {t} : u.task[x] = s.task[x]
  BY <1>4, SetOneTask
<1> QED BY <1>5, <1>6 DEF r


(* What a step of a task thread leaves alone.                               *)
Alike(s, u) ==
  /\ u.plan = s.plan /\ u.ending = s.ending
  /\ u.client = s.client /\ u.up = s.up /\ u.down = s.down

(* The record of a task but for its queue, or but for that and its state.   *)
SameTask(r, q) ==
  /\ r.state = q.state /\ r.pid = q.pid /\ r.required = q.required /\ r.alarms = q.alarms

StopForce == [ev |-> "Stop-Force", from |-> NULL]

LEMMA TaskFields ==
  ASSUME NEW T, NEW C, NEW s \in SysOf(T, C), NEW u, TaskOnly(s, u)
  PROVE  /\ Alike(s, u) /\ u.tasks = s.tasks /\ u.running = s.running
         /\ u.unkilled = s.unkilled /\ u.active = s.active /\ u.control = s.control
  BY DEF SysOf, TaskOnly, Alike

LEMMA Replying ==
  ASSUME NEW T, NEW C, NEW s \in SysOf(T, C), NEW t \in T, NEW c \in C \cup {NULL}, NEW kind \in Kinds
  PROVE  LET u == Reply(s, c, kind, t)
         IN  /\ u \in SysOf(T, C) /\ Alike(s, u)
             /\ u.tasks = s.tasks /\ u.task = s.task /\ u.running = s.running
             /\ u.unkilled = s.unkilled /\ u.active = s.active
             /\ c = NULL => u.control = s.control
<1>1. CASE c = NULL \/ s.control[c].state = "Gone"
  BY <1>1 DEF Reply, Alike
<1>2. CASE ~(c = NULL \/ s.control[c].state = "Gone")
  <2> DEFINE m == [kind |-> kind, of |-> t]
             k == [s.control[c] EXCEPT !.inbox = Append(@, m)]
             f == [s.control EXCEPT ![c] = k]
  <2>1. s.control \in [C -> ControlRec(T)] /\ c \in C /\ s.control[c] \in ControlRec(T)
    BY <1>2 DEF SysOf
  <2>2. m \in MessageRec(T)
    BY DEF MessageRec
  <2>3. s.control[c].inbox \in Seq(MessageRec(T))
    BY <2>1 DEF ControlRec
  <2>4. Append(s.control[c].inbox, m) \in Seq(MessageRec(T))
    BY <2>2, <2>3
  <2>5. k \in ControlRec(T)
    BY <2>1, <2>4 DEF ControlRec
  <2>6. Reply(s, c, kind, t) = [s EXCEPT !.control = f]
    BY <1>2 DEF Reply
  <2> HIDE DEF k
  <2>7. f \in [C -> ControlRec(T)]
    BY <2>1, <2>5
  <2> HIDE DEF f
  <2> QED BY <1>2, <2>6, <2>7 DEF SysOf, Alike
<1> QED BY <1>1, <1>2

(* What a reply changes depends on the control threads alone.               *)
LEMMA ReplyControl ==
  ASSUME NEW T, NEW C, NEW s \in SysOf(T, C), NEW u \in SysOf(T, C), u.control = s.control,
         NEW t, NEW c, NEW kind
  PROVE  Reply(u, c, kind, t).control = Reply(s, c, kind, t).control
  BY DEF Reply, SysOf

LEMMA SystemActive ==
  ASSUME NEW T, NEW C, NEW s \in SysOf(T, C), NEW u \in SysOf(T, C), u.tasks = s.tasks,
         \A x \in T : u.task[x].required = s.task[x].required /\ u.task[x].pid = s.task[x].pid
  PROVE  system_active(u) = system_active(s)
<1>1. ToSet(s.tasks) \subseteq T
  BY DEF SysOf, ToSet
<1> QED BY <1>1 DEF system_active

LEMMA Refreshing ==
  ASSUME NEW T, NEW C, NEW s \in SysOf(T, C)
  PROVE  LET u == refresh_logical_system_state(s)
         IN  /\ u \in SysOf(T, C) /\ Alike(s, u)
             /\ u.tasks = s.tasks /\ u.task = s.task /\ u.running = s.running
             /\ u.unkilled = s.unkilled /\ u.control = s.control
             /\ u.active = system_active(u)
<1> DEFINE a == system_active(s)
           u == [s EXCEPT !.active = a]
<1>1. a \in BOOLEAN
  BY DEF system_active
<1> HIDE DEF a
<1>2. /\ u \in SysOf(T, C) /\ Alike(s, u)
      /\ u.tasks = s.tasks /\ u.task = s.task /\ u.running = s.running
      /\ u.unkilled = s.unkilled /\ u.control = s.control /\ u.active = a
  BY <1>1 DEF SysOf, Alike
<1>3. refresh_logical_system_state(s) = u
  BY DEF refresh_logical_system_state, a
<1> HIDE DEF u
<1>4. system_active(u) = a
  BY <1>2, SystemActive DEF a
<1> QED BY <1>2, <1>3, <1>4

LEMMA Broadcasting ==
  ASSUME NEW T, NEW C, NEW s \in SysOf(T, C)
  PROVE  LET u == broadcast_stop_all_tasks(s)
         IN  /\ u \in SysOf(T, C)
             /\ TaskOnly(s, u)
             /\ \A x \in T : \/ u.task[x] = s.task[x]
                             \/ u.task[x] = [s.task[x] EXCEPT !.queue = Append(@, StopForce)]
<1> DEFINE f == [t \in T |-> IF Live(s, t) THEN Post(s, t, "Stop-Force").task[t] ELSE s.task[t]]
<1>1. s.task \in [T -> TaskRec(C)]
  BY DEF SysOf
<1>2. \A t \in T : /\ Post(s, t, "Stop-Force") \in SysOf(T, C)
                   /\ Post(s, t, "Stop-Force").task[t] = [s.task[t] EXCEPT !.queue = Append(@, StopForce)]
  <2> HIDE DEF f
  <2> TAKE t \in T
  <2>1. "Stop-Force" \in Signals
    BY DEF Signals
  <2>2. LET u == Post(s, t, "Stop-Force")
        IN  /\ u \in SysOf(T, C)
            /\ u.task[t] = [s.task[t] EXCEPT !.queue = Append(@, [ev |-> "Stop-Force", from |-> NULL])]
    BY <2>1, Posting
  <2> QED BY <2>2 DEF StopForce
<1>3. \A t \in T : Post(s, t, "Stop-Force").task[t] \in TaskRec(C)
  BY <1>2 DEF SysOf
<1>4. f \in [T -> TaskRec(C)]
  BY <1>1, <1>3
<1>5. broadcast_stop_all_tasks(s) = [s EXCEPT !.task = f]
  BY <1>1 DEF broadcast_stop_all_tasks
<1>6. \A x \in T : f[x] = s.task[x] \/ f[x] = [s.task[x] EXCEPT !.queue = Append(@, StopForce)]
  BY <1>2
<1> HIDE DEF f
<1> QED BY <1>4, <1>5, <1>6, SetTask

-----------------------------------------------------------------------------
(* The parts of a task thread's step.                                       *)

Posted(r, q) == q.queue = r.queue \/ q.queue = Append(r.queue, StopForce)

Others(T, s, u, t) ==
  \A x \in T \ {t} : /\ SameTask(u.task[x], s.task[x]) /\ Posted(s.task[x], u.task[x])
                     /\ u.running[x] = s.running[x]

(* The fields of a task's record.                                           *)
LEMMA TaskRecord ==
  ASSUME NEW C, NEW r \in TaskRec(C)
  PROVE  /\ \A v \in TaskStates : LET q == [r EXCEPT !.state = v]
                                IN  /\ q \in TaskRec(C) /\ q.state = v /\ q.pid = r.pid /\ q.required = r.required
                                    /\ q.restart = r.restart /\ q.alarms = r.alarms /\ q.queue = r.queue
         /\ \A v \in BOOLEAN : LET q == [r EXCEPT !.pid = v]
                             IN  /\ q \in TaskRec(C) /\ q.state = r.state /\ q.pid = v /\ q.required = r.required
                                 /\ q.restart = r.restart /\ q.alarms = r.alarms /\ q.queue = r.queue
         /\ \A v \in Nat : LET q == [r EXCEPT !.alarms = v]
                         IN  /\ q \in TaskRec(C) /\ q.state = r.state /\ q.pid = r.pid /\ q.required = r.required
                             /\ q.restart = r.restart /\ q.alarms = v /\ q.queue = r.queue
         /\ \A v \in Seq(EventRec(C)) : LET q == [r EXCEPT !.queue = v]
                         IN  /\ q \in TaskRec(C) /\ q.state = r.state /\ q.pid = r.pid /\ q.required = r.required
                             /\ q.restart = r.restart /\ q.alarms = r.alarms /\ q.queue = v
  BY DEF TaskRec

LEMMA QueueRecord ==
  ASSUME NEW C, NEW r \in TaskRec(C), NEW v
  PROVE  LET q == [r EXCEPT !.queue = v]
         IN  SameTask(q, r) /\ q.queue = v
  BY DEF TaskRec, SameTask

(* A step that leaves the list as it is.                                    *)
Within(T, C, s, u, t) ==
  /\ u \in SysOf(T, C) /\ Alike(s, u) /\ u.tasks = s.tasks /\ u.unkilled = s.unkilled
  /\ Others(T, s, u, t) /\ Posted(s.task[t], u.task[t])

LEMMA NotRunningIs ==
  ASSUME NEW T, NEW C, NEW s \in SysOf(T, C), NEW t \in T
  PROVE  LET u == NotRunning(s, t)
         IN  /\ Within(T, C, s, u, t)
             /\ u.task[t].state \in {"Stopped", "Paused"}
             /\ u.task[t].pid = s.task[t].pid
             /\ u.running = s.running
             /\ u.control = s.control
             /\ u.active = system_active(u)
<1> DEFINE Marked(v) == [s EXCEPT !.task[t].state = v]
           b == broadcast_stop_all_tasks(Marked("Stopped"))
           p == Marked("Paused")
           v == IF s.task[t].required THEN b ELSE p
           u == refresh_logical_system_state(v)
<1>1. ASSUME NEW w \in {"Stopped", "Paused"}
      PROVE  /\ Marked(w) \in SysOf(T, C) /\ TaskOnly(s, Marked(w))
             /\ Marked(w).task[t] = [s.task[t] EXCEPT !.state = w]
             /\ \A x \in T \ {t} : Marked(w).task[x] = s.task[x]
  <2> DEFINE r == [s.task[t] EXCEPT !.state = w]
  <2>0. s.task[t] \in TaskRec(C) /\ w \in TaskStates
    BY DEF SysOf, TaskStates
  <2>1. r \in TaskRec(C)
    BY <2>0, TaskRecord
  <2>2. Marked(w) = [s EXCEPT !.task = [@ EXCEPT ![t] = r]]
    OBVIOUS
  <2> HIDE DEF r, Marked
  <2>3. LET y == [s EXCEPT !.task = [@ EXCEPT ![t] = r]]
         IN  /\ y \in SysOf(T, C)
             /\ TaskOnly(s, y)
             /\ y.task[t] = r
             /\ \A x \in T \ {t} : y.task[x] = s.task[x]
    BY <2>1, SetOneTask
  <2> QED BY <2>2, <2>3 DEF r
<1> DEFINE Here(y) == /\ y \in SysOf(T, C) /\ Alike(s, y) /\ y.tasks = s.tasks /\ y.unkilled = s.unkilled
                      /\ y.running = s.running /\ y.control = s.control
                      /\ y.task[t].state \in {"Stopped", "Paused"} /\ y.task[t].pid = s.task[t].pid
                      /\ Posted(s.task[t], y.task[t])
                      /\ \A x \in T \ {t} : SameTask(y.task[x], s.task[x]) /\ Posted(s.task[x], y.task[x])
<1> HIDE DEF Marked
<1>2. \A x \in T : s.task[x] \in TaskRec(C)
  BY DEF SysOf
<1>3. Here(p)
  <2>1. Alike(s, p) /\ p.tasks = s.tasks /\ p.running = s.running /\ p.unkilled = s.unkilled /\ p.control = s.control
    BY <1>1, TaskFields
  <2> QED BY <1>1, <1>2, <2>1 DEF TaskRec, SameTask, Posted
<1>4. Here(b)
  <2> DEFINE m == Marked("Stopped")
  <2>1. /\ m \in SysOf(T, C) /\ TaskOnly(s, m) /\ m.task[t] = [s.task[t] EXCEPT !.state = "Stopped"]
        /\ \A x \in T \ {t} : m.task[x] = s.task[x]
    BY <1>1
  <2>2. Alike(s, m) /\ m.tasks = s.tasks /\ m.running = s.running /\ m.unkilled = s.unkilled /\ m.control = s.control
    BY <2>1, TaskFields
  <2> HIDE DEF m
  <2>3. /\ b \in SysOf(T, C)
        /\ TaskOnly(m, b)
        /\ \A x \in T : b.task[x] = m.task[x] \/ b.task[x] = [m.task[x] EXCEPT !.queue = Append(@, StopForce)]
    BY <2>1, Broadcasting DEF m
  <2> HIDE DEF b
  <2>4. Alike(m, b) /\ b.tasks = m.tasks /\ b.running = m.running /\ b.unkilled = m.unkilled /\ b.control = m.control
    BY <2>1, <2>3, TaskFields
  <2>5. Alike(s, b) /\ b.tasks = s.tasks /\ b.running = s.running /\ b.unkilled = s.unkilled /\ b.control = s.control
    BY <2>2, <2>4 DEF Alike
  <2>6. ASSUME NEW x \in T \ {t} PROVE SameTask(b.task[x], s.task[x]) /\ Posted(s.task[x], b.task[x])
    <3>1. m.task[x] = s.task[x] /\ s.task[x] \in TaskRec(C)
      BY <2>1, <1>2
    <3>2. LET q == [s.task[x] EXCEPT !.queue = Append(s.task[x].queue, StopForce)]
          IN  SameTask(q, s.task[x]) /\ q.queue = Append(s.task[x].queue, StopForce)
      BY <3>1, QueueRecord
    <3> QED BY <2>3, <3>1, <3>2 DEF SameTask, Posted
  <2>7. b.task[t].state \in {"Stopped", "Paused"} /\ b.task[t].pid = s.task[t].pid /\ Posted(s.task[t], b.task[t])
    <3>1. m.task[t] \in TaskRec(C)
      BY <2>1 DEF SysOf
    <3>2. m.task[t].state = "Stopped" /\ m.task[t].pid = s.task[t].pid /\ m.task[t].queue = s.task[t].queue
      BY <2>1, <1>2 DEF TaskRec
    <3>3. LET q == [m.task[t] EXCEPT !.queue = Append(m.task[t].queue, StopForce)]
          IN  SameTask(q, m.task[t]) /\ q.queue = Append(m.task[t].queue, StopForce)
      BY <3>1, QueueRecord
    <3>4. CASE b.task[t] = m.task[t]
      BY <3>2, <3>4 DEF Posted
    <3>5. CASE b.task[t] = [m.task[t] EXCEPT !.queue = Append(@, StopForce)]
      BY <3>2, <3>3, <3>5 DEF Posted, SameTask
    <3> QED BY <2>3, <3>4, <3>5
  <2> QED BY <2>3, <2>5, <2>6, <2>7
<1>5. Here(v)
  BY <1>3, <1>4
<1>6. NotRunning(s, t) = u
  BY DEF NotRunning, Marked
<1> HIDE DEF v, p, b
<1>7. /\ u \in SysOf(T, C) /\ Alike(v, u)
      /\ u.tasks = v.tasks /\ u.task = v.task /\ u.running = v.running
      /\ u.unkilled = v.unkilled /\ u.control = v.control
      /\ u.active = system_active(u)
  BY <1>5, Refreshing
<1> HIDE DEF u
<1>8. Alike(s, u)
  BY <1>5, <1>7 DEF Alike
<1> QED BY <1>5, <1>6, <1>7, <1>8 DEF Within, Others

LEMMA FailedIs ==
  ASSUME NEW T, NEW C, NEW s \in SysOf(T, C), NEW t \in T, NEW from \in C \cup {NULL}
  PROVE  LET u == Failed(s, t, from)
         IN  /\ Within(T, C, s, u, t)
             /\ u.task[t].state \in {"Stopped", "Paused"}
             /\ u.task[t].pid = s.task[t].pid
             /\ u.running = s.running
             /\ u.control = Reply(s, from, "error", t).control
             /\ u.active = system_active(u)
<1> DEFINE r == Reply(s, from, "error", t)
           u == NotRunning(r, t)
<1>1. "error" \in Kinds
  BY DEF Kinds, Answers
<1>2. /\ r \in SysOf(T, C) /\ Alike(s, r)
      /\ r.tasks = s.tasks /\ r.task = s.task /\ r.running = s.running
      /\ r.unkilled = s.unkilled
  BY <1>1, Replying
<1>3. Failed(s, t, from) = u
  BY DEF Failed
<1> HIDE DEF r
<1>4. /\ Within(T, C, r, u, t)
      /\ u.task[t].state \in {"Stopped", "Paused"}
      /\ u.task[t].pid = r.task[t].pid
      /\ u.running = r.running
      /\ u.control = r.control
      /\ u.active = system_active(u)
  BY <1>2, NotRunningIs
<1> HIDE DEF u
<1>5. Within(T, C, s, u, t)
  BY <1>2, <1>4 DEF Within, Others, Alike
<1> QED BY <1>2, <1>3, <1>4, <1>5 DEF r

Silent(T, s, u) == \A x \in T : u.task[x].queue = s.task[x].queue

(* A change of the record of t that leaves its queue alone.                 *)
LEMMA OwnRecord ==
  ASSUME NEW T, NEW C, NEW s \in SysOf(T, C), NEW t \in T, NEW r \in TaskRec(C), r.queue = s.task[t].queue
  PROVE  LET u == [s EXCEPT !.task = [@ EXCEPT ![t] = r]]
         IN  /\ Within(T, C, s, u, t) /\ Silent(T, s, u)
             /\ u.task[t] = r
             /\ u.running = s.running /\ u.control = s.control /\ u.active = s.active
<1> DEFINE u == [s EXCEPT !.task = [@ EXCEPT ![t] = r]]
<1>1. /\ u \in SysOf(T, C)
      /\ TaskOnly(s, u)
      /\ u.task[t] = r
      /\ \A x \in T \ {t} : u.task[x] = s.task[x]
  BY SetOneTask
<1> HIDE DEF u
<1>2. /\ Alike(s, u) /\ u.tasks = s.tasks /\ u.running = s.running
      /\ u.unkilled = s.unkilled /\ u.active = s.active /\ u.control = s.control
  BY <1>1, TaskFields
<1>3. Within(T, C, s, u, t) /\ Silent(T, s, u)
  BY <1>1, <1>2 DEF Within, Others, SameTask, Posted, Silent
<1> QED BY <1>1, <1>2, <1>3 DEF u

LEMMA StartupIs ==
  ASSUME NEW T, NEW C, NEW s \in SysOf(T, C), NEW t \in T, NEW fault
  PROVE  LET u == run_task_startup_command(s, t, fault)
         IN  /\ Within(T, C, s, u, t) /\ Silent(T, s, u)
             /\ u.task[t] = [s.task[t] EXCEPT !.pid = fault /= "command"]
             /\ u.running[t] = IF fault = "command" THEN s.running[t] ELSE s.running[t] + 1
             /\ u.control = s.control /\ u.active = s.active
<1> DEFINE p == fault /= "command"
           r == [s.task[t] EXCEPT !.pid = p]
           m == [s EXCEPT !.task = [@ EXCEPT ![t] = r]]
           u == run_task_startup_command(s, t, fault)
<1>1. s.task[t] \in TaskRec(C)
  BY DEF SysOf
<1>p. p \in BOOLEAN
  OBVIOUS
<1> HIDE DEF p
<1>2. r \in TaskRec(C) /\ r.queue = s.task[t].queue
  BY <1>1, <1>p, TaskRecord
<1> HIDE DEF r
<1>3. /\ Within(T, C, s, m, t) /\ Silent(T, s, m)
      /\ m.task[t] = r
      /\ m.running = s.running /\ m.control = s.control /\ m.active = s.active
  BY <1>2, OwnRecord
<1>4. CASE fault = "command"
  <2>1. u = m
    BY <1>4 DEF run_task_startup_command, r, p
  <2> QED BY <1>3, <1>4, <2>1 DEF r, p
<1>5. CASE fault /= "command"
  <2> DEFINE f == [s.running EXCEPT ![t] = @ + 1]
  <2>1. u = [m EXCEPT !.running = f]
    BY <1>5 DEF run_task_startup_command, r, p, SysOf
  <2>2. s.running \in [T -> Nat]
    BY DEF SysOf
  <2>3. f \in [T -> Nat] /\ f[t] = s.running[t] + 1 /\ \A x \in T \ {t} : f[x] = s.running[x]
    BY <2>2
  <2> HIDE DEF f, m, u
  <2>4. /\ u \in SysOf(T, C) /\ Alike(m, u) /\ u.tasks = m.tasks /\ u.unkilled = m.unkilled
        /\ u.task = m.task /\ u.running = f /\ u.control = m.control /\ u.active = m.active
    BY <1>3, <2>1, <2>3 DEF Within, SysOf, Alike
  <2>5. Within(T, C, s, u, t) /\ Silent(T, s, u)
    BY <1>3, <2>3, <2>4 DEF Within, Others, Alike, Silent
  <2> QED BY <1>3, <1>5, <2>3, <2>4, <2>5 DEF r, u, p
<1> QED BY <1>4, <1>5

(* Steps of one task thread, one after the other; one of them may           *)
(* broadcast.                                                               *)
LEMMA WithinTwice ==
  ASSUME NEW T, NEW C, NEW s, NEW m, NEW u, NEW t \in T,
         Within(T, C, s, m, t), Within(T, C, m, u, t),
         Silent(T, s, m) \/ Silent(T, m, u)
  PROVE  Within(T, C, s, u, t)
<1>1. \A x \in T : Posted(s.task[x], m.task[x]) /\ Posted(m.task[x], u.task[x])
  BY DEF Within, Others
<1>2. \A x \in T : Posted(s.task[x], u.task[x])
  BY <1>1 DEF Posted, Silent
<1>3. \A x \in T \ {t} : SameTask(u.task[x], s.task[x]) /\ u.running[x] = s.running[x]
  BY DEF Within, Others, SameTask
<1> QED BY <1>2, <1>3 DEF Within, Others, Alike

LEMMA LoadValuesIs ==
  ASSUME NEW T, NEW C, NEW s \in SysOf(T, C), NEW t \in T, NEW fault
  PROVE  LET u == load_task_values(s, t, fault)
         IN  /\ Within(T, C, s, u, t) /\ Silent(T, s, u)
             /\ u.task[t].state = s.task[t].state /\ u.task[t].pid = s.task[t].pid
             /\ u.task[t].alarms = s.task[t].alarms
             /\ u.running = s.running /\ u.control = s.control
<1> DEFINE u == load_task_values(s, t, fault)
<1>1. CASE fault = "missing"
  BY <1>1 DEF load_task_values, Within, Others, Silent, SameTask, Posted, Alike
<1>2. CASE fault /= "missing"
  <2> DEFINE a == s.plan.setup[t].required
             b == s.plan.setup[t].restart
             r == [s.task[t] EXCEPT !.required = a, !.restart = b]
  <2>1. s.task[t] \in TaskRec(C) /\ s.plan \in PlanRec(T, C)
    BY DEF SysOf
  <2>2. a \in BOOLEAN /\ b \in BOOLEAN
    BY <2>1 DEF PlanRec
  <2>3. u = [s EXCEPT !.task = [@ EXCEPT ![t] = r]]
    BY <1>2 DEF load_task_values, SysOf
  <2> HIDE DEF a, b, u
  <2>4. /\ r \in TaskRec(C) /\ r.queue = s.task[t].queue /\ r.state = s.task[t].state
        /\ r.pid = s.task[t].pid /\ r.alarms = s.task[t].alarms
    BY <2>1, <2>2 DEF TaskRec
  <2> HIDE DEF r
  <2> QED BY <2>3, <2>4, OwnRecord DEF u
<1> QED BY <1>1, <1>2

LEMMA LoadSlotsIs ==
  ASSUME NEW T, NEW C, NEW s \in SysOf(T, C), NEW t \in T
  PROVE  LET u == load_task_time_slots(s, t)
         IN  /\ Within(T, C, s, u, t) /\ Silent(T, s, u)
             /\ u.task[t].state = s.task[t].state /\ u.task[t].pid = s.task[t].pid
             /\ u.task[t].required = s.task[t].required
             /\ u.task[t].alarms = s.task[t].alarms
             /\ u.running = s.running /\ u.control = s.control /\ u.active = s.active
<1> DEFINE w == IF s.plan.setup[t].slots THEN <<"Specify", "Off">> ELSE <<"Off">>
           x == [s.task[t].slot EXCEPT !.inbox = @ \o w]
           r == [s.task[t] EXCEPT !.slot = x]
<1>1. s.task[t] \in TaskRec(C)
  BY DEF SysOf
<1>2. w \in Seq(Words)
  <2>1. "Specify" \in Words /\ "Off" \in Words
    BY DEF Words
  <2>2. <<"Specify", "Off">> \in Seq(Words) /\ <<"Off">> \in Seq(Words)
    BY <2>1
  <2> QED BY <2>2
<1>3. load_task_time_slots(s, t) = [s EXCEPT !.task = [@ EXCEPT ![t] = r]]
  BY DEF load_task_time_slots
<1> HIDE DEF w
<1>4. s.task[t].slot \in SlotRec
  BY <1>1 DEF TaskRec
<1>5. s.task[t].slot.inbox \in Seq(Words)
  BY <1>4 DEF SlotRec
<1>6. x \in SlotRec
  <2> DEFINE y == s.task[t].slot.inbox \o w
  <2>1. y \in Seq(Words)
    BY <1>2, <1>5
  <2> HIDE DEF y
  <2>2. [s.task[t].slot EXCEPT !.inbox = y] \in SlotRec
    BY <1>4, <2>1 DEF SlotRec
  <2> QED BY <2>2 DEF y
<1> HIDE DEF x
<1>7. /\ r \in TaskRec(C) /\ r.queue = s.task[t].queue /\ r.state = s.task[t].state
      /\ r.pid = s.task[t].pid /\ r.alarms = s.task[t].alarms /\ r.required = s.task[t].required
  BY <1>1, <1>6 DEF TaskRec
<1> HIDE DEF r
<1> QED BY <1>3, <1>7, OwnRecord

LEMMA MonitorIs ==
  ASSUME NEW T, NEW C, NEW s \in SysOf(T, C), NEW t \in T
  PROVE  LET u == monitor_active_task_status(s, t)
         IN  /\ Within(T, C, s, u, t) /\ Silent(T, s, u)
             /\ u.task[t].state = s.task[t].state /\ u.task[t].pid = s.task[t].pid
             /\ u.task[t].required = s.task[t].required
             /\ u.task[t].alarms > 0
             /\ u.running = s.running /\ u.control = s.control /\ u.active = s.active
<1> DEFINE a == s.task[t].alarms + 1
           r == [s.task[t] EXCEPT !.alarms = a]
<1>1. s.task[t] \in TaskRec(C)
  BY DEF SysOf
<1>2. a \in Nat /\ a > 0
  BY <1>1 DEF TaskRec
<1>3. monitor_active_task_status(s, t) = [s EXCEPT !.task = [@ EXCEPT ![t] = r]]
  BY DEF monitor_active_task_status
<1> HIDE DEF a
<1>4. /\ r \in TaskRec(C) /\ r.queue = s.task[t].queue /\ r.state = s.task[t].state
      /\ r.pid = s.task[t].pid /\ r.alarms = a /\ r.required = s.task[t].required
  BY <1>1, <1>2, TaskRecord
<1> HIDE DEF r
<1> QED BY <1>2, <1>3, <1>4, OwnRecord

(* The task has been started, or could not be.                              *)
Up(s, u, t) ==
  /\ u.task[t].state = "Running" /\ u.task[t].pid /\ u.task[t].alarms > 0
  /\ u.running[t] = s.running[t] + 1

Down(u, t) == u.task[t].state \in {"Stopped", "Paused"} /\ ~u.task[t].pid

LEMMA StartedIs ==
  ASSUME NEW T, NEW C, NEW s \in SysOf(T, C), NEW t \in T, NEW from \in C \cup {NULL}, NEW fault
  PROVE  LET u == Started(s, t, from, fault)
         IN  /\ Within(T, C, s, u, t)
             /\ u.active = system_active(u)
             /\ \/ Up(s, u, t) /\ u.control = s.control
                \/ /\ Down(u, t) /\ u.running[t] = s.running[t]
                   /\ u.control = Reply(s, from, "error", t).control
<1> DEFINE v == run_task_startup_command(s, t, fault)
           f == Failed(v, t, from)
           m == [v EXCEPT !.task[t].state = "Running"]
           r == refresh_logical_system_state(m)
           w == monitor_active_task_status(r, t)
<1>0. s.task[t] \in TaskRec(C)
  BY DEF SysOf
<1>1. /\ Within(T, C, s, v, t) /\ Silent(T, s, v)
      /\ v.task[t] = [s.task[t] EXCEPT !.pid = fault /= "command"]
      /\ v.running[t] = IF fault = "command" THEN s.running[t] ELSE s.running[t] + 1
      /\ v.control = s.control /\ v.active = s.active
  BY StartupIs
<1>2. v.task[t].pid = (fault /= "command")
  BY <1>0, <1>1 DEF TaskRec
<1>3. v \in SysOf(T, C)
  BY <1>1 DEF Within
<1>4. Started(s, t, from, fault) = IF ~v.task[t].pid THEN f ELSE w
  BY DEF Started
<1> HIDE DEF v
<1>5. CASE ~v.task[t].pid
  <2>1. /\ Within(T, C, v, f, t)
        /\ f.task[t].state \in {"Stopped", "Paused"}
        /\ f.task[t].pid = v.task[t].pid
        /\ f.running = v.running
        /\ f.control = Reply(v, from, "error", t).control
        /\ f.active = system_active(f)
    BY <1>3, FailedIs
  <2> HIDE DEF f
  <2>2. f.control = Reply(s, from, "error", t).control
    BY <1>1, <1>3, <2>1, ReplyControl
  <2>3. Within(T, C, s, f, t)
    BY <1>1, <2>1, WithinTwice
  <2> QED BY <1>1, <1>2, <1>4, <1>5, <2>1, <2>2, <2>3 DEF Down
<1>6. CASE v.task[t].pid
  <2> DEFINE q == [v.task[t] EXCEPT !.state = "Running"]
  <2>0. v.task[t] \in TaskRec(C) /\ "Running" \in TaskStates
    BY <1>3 DEF SysOf, TaskStates
  <2>1. q \in TaskRec(C) /\ q.queue = v.task[t].queue /\ q.state = "Running" /\ q.pid = v.task[t].pid
    BY <2>0, TaskRecord
  <2>2. m = [v EXCEPT !.task = [@ EXCEPT ![t] = q]]
    OBVIOUS
  <2> HIDE DEF m, q
  <2>3. /\ Within(T, C, v, m, t) /\ Silent(T, v, m)
        /\ m.task[t] = q
        /\ m.running = v.running /\ m.control = v.control
    BY <1>3, <2>1, <2>2, OwnRecord
  <2>4. m \in SysOf(T, C)
    BY <2>3 DEF Within
  <2>5. /\ r \in SysOf(T, C) /\ Alike(m, r)
        /\ r.tasks = m.tasks /\ r.task = m.task /\ r.running = m.running
        /\ r.unkilled = m.unkilled /\ r.control = m.control
        /\ r.active = system_active(r)
    BY <2>4, Refreshing
  <2> HIDE DEF r
  <2>6. Within(T, C, m, r, t) /\ Silent(T, m, r)
    BY <2>5 DEF Within, Others, Silent, Posted, SameTask
  <2>7. /\ Within(T, C, r, w, t) /\ Silent(T, r, w)
        /\ w.task[t].state = r.task[t].state /\ w.task[t].pid = r.task[t].pid
        /\ w.task[t].required = r.task[t].required
        /\ w.task[t].alarms > 0
        /\ w.running = r.running /\ w.control = r.control /\ w.active = r.active
    BY <2>5, MonitorIs
  <2> HIDE DEF w
  <2>8. w.active = system_active(w)
    <3>1. w \in SysOf(T, C) /\ w.tasks = r.tasks
      BY <2>7 DEF Within
    <3>2. \A x \in T : w.task[x].required = r.task[x].required /\ w.task[x].pid = r.task[x].pid
      BY <2>7 DEF Within, Others, SameTask
    <3>3. system_active(w) = system_active(r)
      BY <3>1, <3>2, <2>5, SystemActive
    <3> QED BY <2>5, <2>7, <3>3
  <2>9. Within(T, C, s, w, t)
    <3>1. Within(T, C, m, w, t) /\ Silent(T, m, w)
      BY <2>6, <2>7, WithinTwice DEF Silent
    <3>2. Within(T, C, v, w, t)
      BY <2>3, <3>1, WithinTwice
    <3> QED BY <1>1, <3>2, WithinTwice
  <2>10. fault /= "command"
    BY <1>2, <1>6
  <2>11. Up(s, w, t)
    BY <1>1, <1>6, <2>1, <2>3, <2>5, <2>7, <2>10 DEF Up
  <2>12. w.control = s.control
    BY <1>1, <2>3, <2>5, <2>7
  <2> QED BY <1>4, <1>6, <2>8, <2>9, <2>11, <2>12
<1> QED BY <1>5, <1>6

Told(s, u, c, t) == \E kind \in Answers : u.control = Reply(s, c, kind, t).control

LEMMA StartIs ==
  ASSUME NEW T, NEW C, NEW s \in SysOf(T, C), NEW t \in T, NEW from \in C \cup {NULL}, NEW fault,
         NEW slots \in BOOLEAN, ~s.task[t].pid
  PROVE  LET u == Start(s, t, from, fault, slots)
         IN  /\ Within(T, C, s, u, t)
             /\ u.active = system_active(u)
             /\ \/ Up(s, u, t) /\ u.control = s.control
                \/ /\ Down(u, t) /\ u.running[t] = s.running[t]
                   /\ u.control = Reply(s, from, "error", t).control
<1> DEFINE v == load_task_values(s, t, fault)
           w == IF slots THEN load_task_time_slots(v, t) ELSE v
           u == Start(s, t, from, fault, slots)
<1>1. /\ Within(T, C, s, v, t) /\ Silent(T, s, v)
      /\ v.task[t].pid = s.task[t].pid
      /\ v.running = s.running /\ v.control = s.control
  BY LoadValuesIs
<1>2. u = IF fault \in {"missing", "nocommand"} THEN Failed(v, t, from) ELSE Started(w, t, from, fault)
  BY DEF Start
<1>3. v \in SysOf(T, C)
  BY <1>1 DEF Within
<1> HIDE DEF v
<1>4. /\ Within(T, C, s, w, t) /\ Silent(T, s, w) /\ w.running = s.running /\ w.control = s.control
  <2>1. CASE slots
    <3>1. LET y == load_task_time_slots(v, t)
          IN  Within(T, C, v, y, t) /\ Silent(T, v, y) /\ y.running = v.running /\ y.control = v.control
      BY <1>3, LoadSlotsIs
    <3>2. Within(T, C, v, w, t) /\ Silent(T, v, w) /\ w.running = v.running /\ w.control = v.control
      BY <2>1, <3>1
    <3> HIDE DEF w
    <3> QED BY <1>1, <3>2, WithinTwice DEF Silent
  <2>2. CASE ~slots
    BY <1>1, <2>2
  <2> QED BY <2>1, <2>2
<1> HIDE DEF w, u
<1>5. w \in SysOf(T, C)
  BY <1>4 DEF Within
<1>6. CASE fault \in {"missing", "nocommand"}
  <2> DEFINE f == Failed(v, t, from)
  <2>1. /\ Within(T, C, v, f, t)
        /\ f.task[t].state \in {"Stopped", "Paused"}
        /\ f.task[t].pid = v.task[t].pid
        /\ f.running = v.running
        /\ f.control = Reply(v, from, "error", t).control
        /\ f.active = system_active(f)
    BY <1>3, FailedIs
  <2> HIDE DEF f
  <2>2. f.control = Reply(s, from, "error", t).control
    BY <1>1, <1>3, <2>1, ReplyControl
  <2>3. Within(T, C, s, f, t)
    BY <1>1, <2>1, WithinTwice
  <2>4. u = f
    BY <1>2, <1>6 DEF f
  <2> QED BY <1>1, <2>1, <2>2, <2>3, <2>4 DEF Down, u
<1>7. CASE fault \notin {"missing", "nocommand"}
  <2>1. u = Started(w, t, from, fault)
    BY <1>2, <1>7
  <2>2. /\ Within(T, C, w, u, t)
        /\ u.active = system_active(u)
        /\ \/ Up(w, u, t) /\ u.control = w.control
           \/ /\ Down(u, t) /\ u.running[t] = w.running[t]
              /\ u.control = Reply(w, from, "error", t).control
    BY <1>5, <2>1, StartedIs
  <2>3. Reply(w, from, "error", t).control = Reply(s, from, "error", t).control
    BY <1>4, <1>5, ReplyControl
  <2>4. Within(T, C, s, u, t)
    BY <1>4, <2>2, WithinTwice
  <2> QED BY <1>4, <2>2, <2>3, <2>4 DEF Up, u
<1> QED BY <1>6, <1>7

LEMMA AnsweringIs ==
  ASSUME NEW T, NEW C, NEW s \in SysOf(T, C), NEW t \in T, NEW c \in C \cup {NULL}, NEW kind \in Kinds
  PROVE  LET u == Reply(s, c, kind, t)
         IN  /\ Within(T, C, s, u, t) /\ Silent(T, s, u)
             /\ u.task = s.task /\ u.running = s.running /\ u.active = s.active
             /\ system_active(u) = system_active(s)
<1> DEFINE u == Reply(s, c, kind, t)
<1>1. /\ u \in SysOf(T, C) /\ Alike(s, u)
      /\ u.tasks = s.tasks /\ u.task = s.task /\ u.running = s.running
      /\ u.unkilled = s.unkilled /\ u.active = s.active
  BY Replying
<1> HIDE DEF u
<1>2. system_active(u) = system_active(s)
  BY <1>1, SystemActive
<1> QED BY <1>1, <1>2 DEF Within, Others, SameTask, Posted, Silent, u

(* A task that has been asked to start, with its answer.                    *)
LEMMA AskedToStart ==
  ASSUME NEW T, NEW C, NEW s \in SysOf(T, C), NEW t \in T, NEW from \in C \cup {NULL}, NEW fault,
         NEW slots \in BOOLEAN, ~s.task[t].pid
  PROVE  LET u == Answered(Start(s, t, from, fault, slots), t, from)
         IN  /\ Within(T, C, s, u, t)
             /\ u.active = system_active(u)
             /\ Told(s, u, from, t)
             /\ Up(s, u, t) \/ (Down(u, t) /\ u.running[t] = s.running[t])
<1> DEFINE v == Start(s, t, from, fault, slots)
           a == Reply(v, from, "ok", t)
<1>1. /\ Within(T, C, s, v, t)
      /\ v.active = system_active(v)
      /\ \/ Up(s, v, t) /\ v.control = s.control
         \/ /\ Down(v, t) /\ v.running[t] = s.running[t]
            /\ v.control = Reply(s, from, "error", t).control
  BY StartIs
<1>2. Answered(v, t, from) = IF v.task[t].state = "Running" THEN a ELSE v
  BY DEF Answered
<1> HIDE DEF v
<1>3. v \in SysOf(T, C)
  BY <1>1 DEF Within
<1>4. "ok" \in Answers /\ "error" \in Answers /\ "ok" \in Kinds
  BY DEF Answers, Kinds
<1>5. CASE v.task[t].state = "Running"
  <2>1. Up(s, v, t) /\ v.control = s.control
    BY <1>1, <1>5 DEF Down
  <2>2. /\ Within(T, C, v, a, t) /\ Silent(T, v, a)
        /\ a.task = v.task /\ a.running = v.running /\ a.active = v.active
        /\ system_active(a) = system_active(v)
    BY <1>3, <1>4, AnsweringIs
  <2>3. a.control = Reply(s, from, "ok", t).control
    BY <1>3, <2>1, ReplyControl
  <2> HIDE DEF a
  <2>4. Within(T, C, s, a, t)
    BY <1>1, <2>2, WithinTwice
  <2> QED BY <1>1, <1>2, <1>4, <1>5, <2>1, <2>2, <2>3, <2>4 DEF Told, Up, v
<1>6. CASE v.task[t].state /= "Running"
  <2>1. /\ Down(v, t) /\ v.running[t] = s.running[t]
        /\ v.control = Reply(s, from, "error", t).control
    BY <1>1, <1>6 DEF Up
  <2> QED BY <1>1, <1>2, <1>4, <1>6, <2>1 DEF Told, v
<1> QED BY <1>5, <1>6

-----------------------------------------------------------------------------
(* The list of tasks.                                                       *)

LEMMA RemovedAt ==
  ASSUME NEW T, NEW q \in Seq(T), Distinct(q), NEW p \in DOMAIN q
  PROVE  /\ RemoveAt(q, p) \in Seq(T)
         /\ Distinct(RemoveAt(q, p))
         /\ ToSet(RemoveAt(q, p)) = ToSet(q) \ {q[p]}
<1> DEFINE a == SubSeq(q, 1, p - 1)
           b == SubSeq(q, p + 1, Len(q))
           r == a \o b
<1>1. Len(q) \in Nat /\ p \in 1 .. Len(q) /\ DOMAIN q = 1 .. Len(q)
  OBVIOUS
<1>2. a \in Seq(T) /\ Len(a) = p - 1 /\ \A i \in 1 .. p - 1 : a[i] = q[i]
  BY <1>1
<1>3. b \in Seq(T) /\ Len(b) = Len(q) - p /\ \A i \in 1 .. Len(q) - p : b[i] = q[p + i]
  BY <1>1
<1> HIDE DEF a, b
<1>4. r \in Seq(T) /\ Len(r) = Len(q) - 1 /\ DOMAIN r = 1 .. Len(q) - 1
  <2>1. r \in Seq(T)
    BY <1>2, <1>3
  <2>2. Len(r) = Len(a) + Len(b)
    <3>1. a \in Seq(T) /\ b \in Seq(T)
      BY <1>2, <1>3
    <3> QED BY <3>1
  <2>3. Len(r) = Len(q) - 1
    BY <2>2, <1>1, <1>2, <1>3
  <2>4. DOMAIN r = 1 .. Len(r)
    BY <2>1
  <2> QED BY <2>1, <2>3, <2>4
<1>5. \A i \in 1 .. Len(q) - 1 : r[i] = IF i < p THEN q[i] ELSE q[i + 1]
  <2> TAKE i \in 1 .. Len(q) - 1
  <2>1. CASE i < p
    BY <2>1, <1>1, <1>2, <1>3
  <2>2. CASE ~(i < p)
    <3>1. r[i] = b[i - (p - 1)]
      BY <2>2, <1>1, <1>2, <1>3
    <3>2. i - (p - 1) \in 1 .. Len(q) - p
      BY <2>2, <1>1
    <3>3. b[i - (p - 1)] = q[p + (i - (p - 1))]
      BY <3>2, <1>3
    <3>4. p + (i - (p - 1)) = i + 1
      BY <1>1
    <3> QED BY <2>2, <3>1, <3>3, <3>4, <1>1
  <2> QED BY <2>1, <2>2
<1>6. RemoveAt(q, p) = r
  BY DEF RemoveAt, a, b
<1> HIDE DEF r
<1>7. Distinct(r)
  <2> SUFFICES ASSUME NEW i \in 1 .. Len(q) - 1, NEW j \in 1 .. Len(q) - 1, r[i] = r[j]
               PROVE  i = j
    BY <1>4 DEF Distinct
  <2> DEFINE at(k) == IF k < p THEN k ELSE k + 1
  <2>1. at(i) \in 1 .. Len(q) /\ at(j) \in 1 .. Len(q)
    BY <1>1
  <2>2. q[at(i)] = q[at(j)]
    BY <1>5, <1>1
  <2>3. at(i) = at(j)
    BY <2>1, <2>2, <1>1 DEF Distinct
  <2> QED BY <2>3, <1>1
<1>8. ASSUME NEW x \in ToSet(r) PROVE x \in ToSet(q) \ {q[p]}
  <2>1. PICK i \in 1 .. Len(q) - 1 : x = r[i]
    BY <1>4, <1>8 DEF ToSet
  <2> DEFINE k == IF i < p THEN i ELSE i + 1
  <2>2. k \in 1 .. Len(q) /\ k /= p /\ x = q[k]
    BY <2>1, <1>5, <1>1
  <2> HIDE DEF k
  <2>3. x /= q[p]
    BY <2>2, <1>1 DEF Distinct
  <2> QED BY <2>2, <2>3, <1>1 DEF ToSet
<1>9. ASSUME NEW x \in ToSet(q) \ {q[p]} PROVE x \in ToSet(r)
  <2>1. PICK k \in 1 .. Len(q) : x = q[k]
    BY <1>1 DEF ToSet
  <2>2. k /= p
    BY <2>1
  <2> DEFINE i == IF k < p THEN k ELSE k - 1
  <2>3. i \in 1 .. Len(q) - 1 /\ r[i] = q[k]
    <3>1. CASE k < p
      BY <3>1, <1>1, <1>5
    <3>2. CASE k > p
      <4>1. i = k - 1 /\ i \in 1 .. Len(q) - 1 /\ ~(i < p) /\ i + 1 = k
        BY <3>2, <1>1
      <4> QED BY <4>1, <1>5
    <3> QED BY <2>2, <3>1, <3>2, <1>1
  <2> QED BY <2>1, <2>3, <1>4 DEF ToSet
<1> QED BY <1>4, <1>6, <1>7, <1>8, <1>9

(* The thread of a task ends.                                               *)
LEMMA DestroyIs ==
  ASSUME NEW T, NEW C, NEW s \in SysOf(T, C), NEW t \in T, Live(s, t), Distinct(s.tasks)
  PROVE  LET u == destroy_the_task(s, t)
         IN  /\ u \in SysOf(T, C) /\ Alike(s, u)
             /\ ToSet(u.tasks) = ToSet(s.tasks) \ {t} /\ Distinct(u.tasks)
             /\ \A x \in T \ {t} : u.task[x] = s.task[x]
             /\ u.task[t].queue = s.task[t].queue /\ u.task[t].pid = s.task[t].pid
             /\ u.running = s.running /\ u.unkilled = s.unkilled
             /\ u.control = s.control /\ u.active = s.active
<1> DEFINE place == CHOOSE i \in DOMAIN s.tasks : s.tasks[i] = t
           l == RemoveAt(s.tasks, place)
           q == [s.task[t] EXCEPT !.state = "Gone"]
           m == [s EXCEPT !.task = [@ EXCEPT ![t] = q]]
           u == destroy_the_task(s, t)
<1>1. s.tasks \in Seq(T) /\ s.task[t] \in TaskRec(C) /\ "Gone" \in TaskStates
  BY DEF SysOf, TaskStates
<1>2. place \in DOMAIN s.tasks /\ s.tasks[place] = t
  BY DEF Live, ToSet
<1>3. u = [m EXCEPT !.tasks = l]
  <2> DEFINE f == [s.task EXCEPT ![t] = q]
  <2>1. u = [s EXCEPT !.tasks = l, !.task[t].state = "Gone"]
    BY DEF destroy_the_task
  <2> HIDE DEF l, u
  <2>2. u = [s EXCEPT !.tasks = l, !.task = f]
    BY <2>1 DEF SysOf
  <2>3. m = [s EXCEPT !.task = f]
    OBVIOUS
  <2> HIDE DEF f, m
  <2> QED BY <2>2, <2>3 DEF SysOf
<1> HIDE DEF place, u
<1>4. l \in Seq(T) /\ Distinct(l) /\ ToSet(l) = ToSet(s.tasks) \ {t}
  BY <1>1, <1>2, RemovedAt
<1>5. q \in TaskRec(C) /\ q.queue = s.task[t].queue /\ q.pid = s.task[t].pid
  BY <1>1, TaskRecord
<1> HIDE DEF l, q
<1>6. /\ m \in SysOf(T, C) /\ TaskOnly(s, m) /\ m.task[t] = q
      /\ \A x \in T \ {t} : m.task[x] = s.task[x]
  BY <1>5, SetOneTask
<1> HIDE DEF m
<1>7. /\ Alike(s, m) /\ m.running = s.running
      /\ m.unkilled = s.unkilled /\ m.active = s.active /\ m.control = s.control
  BY <1>6, TaskFields
<1>8. /\ u \in SysOf(T, C) /\ Alike(m, u) /\ u.tasks = l /\ u.task = m.task /\ u.running = m.running
      /\ u.unkilled = m.unkilled /\ u.active = m.active /\ u.control = m.control
  BY <1>3, <1>4, <1>6 DEF SysOf, Alike
<1> QED BY <1>4, <1>5, <1>6, <1>7, <1>8 DEF Alike, u

-----------------------------------------------------------------------------
(* The step of a task thread.                                               *)

(* Its process could not be killed.                                         *)
Ended(T, C, s, u, t) ==
  /\ u \in SysOf(T, C) /\ Alike(s, u) /\ u.unkilled = s.unkilled \cup {t}
  /\ ToSet(u.tasks) = ToSet(s.tasks) \ {t} /\ Distinct(u.tasks)
  /\ Others(T, s, u, t) /\ Posted(s.task[t], u.task[t])
  /\ u.control = s.control

LEMMA UnkilledIs ==
  ASSUME NEW T, NEW C, NEW s \in SysOf(T, C), NEW t \in T, Live(s, t), Distinct(s.tasks)
  PROVE  Ended(T, C, s, Unkilled(s, t), t)
<1> DEFINE k == s.unkilled \cup {t}
           m == [s EXCEPT !.unkilled = k, !.task[t].pid = FALSE]
           q == [s.task[t] EXCEPT !.pid = FALSE]
           f == [s.task EXCEPT ![t] = q]
           u == destroy_the_task(m, t)
<1>0. s.task \in [T -> TaskRec(C)] /\ s.task[t] \in TaskRec(C) /\ k \in SUBSET T
  BY DEF SysOf
<1>1. q \in TaskRec(C) /\ q.queue = s.task[t].queue
  BY <1>0 DEF TaskRec
<1>2. m = [s EXCEPT !.unkilled = k, !.task = f]
  BY DEF SysOf
<1>3. Unkilled(s, t) = u
  BY DEF Unkilled
<1> HIDE DEF k, q, m, u
<1>4. f \in [T -> TaskRec(C)] /\ f[t] = q /\ \A x \in T \ {t} : f[x] = s.task[x]
  BY <1>0, <1>1
<1> HIDE DEF f
<1>5. /\ m \in SysOf(T, C) /\ Alike(s, m) /\ m.tasks = s.tasks /\ m.task = f /\ m.running = s.running
      /\ m.unkilled = k /\ m.control = s.control
  BY <1>0, <1>2, <1>4 DEF SysOf, Alike
<1>6. Live(m, t) /\ Distinct(m.tasks)
  BY <1>5 DEF Live
<1>7. /\ u \in SysOf(T, C) /\ Alike(m, u)
      /\ ToSet(u.tasks) = ToSet(m.tasks) \ {t} /\ Distinct(u.tasks)
      /\ \A x \in T \ {t} : u.task[x] = m.task[x]
      /\ u.task[t].queue = m.task[t].queue
      /\ u.running = m.running /\ u.unkilled = m.unkilled /\ u.control = m.control
  BY <1>5, <1>6, DestroyIs DEF u
<1> QED BY <1>1, <1>3, <1>4, <1>5, <1>7 DEF Ended, Alike, Others, SameTask, Posted, k

(* A task that is stopped; with a process that is not killed its thread     *)
(* ends.                                                                    *)
Halted(T, C, s, u, t, from, next) ==
  /\ Within(T, C, s, u, t) /\ u.active = system_active(u) /\ Told(s, u, from, t)
  /\ u.task[t].state = next /\ ~u.task[t].pid /\ u.running[t] = 0

LEMMA StopIs ==
  ASSUME NEW T, NEW C, NEW s \in SysOf(T, C), NEW t \in T, Live(s, t), Distinct(s.tasks),
         NEW from \in C \cup {NULL}, NEW fault, NEW next \in TaskStates
  PROVE  LET u == Stop(s, t, from, fault, next)
         IN  IF fault = "kill" THEN Ended(T, C, s, u, t) ELSE Halted(T, C, s, u, t, from, next)
<1> DEFINE u == Stop(s, t, from, fault, next)
<1>1. CASE fault = "kill"
  BY <1>1, UnkilledIs DEF Stop
<1>2. CASE fault /= "kill"
  <2> DEFINE k == Killed(s, t)
             m == [k EXCEPT !.task[t].state = next]
             r == refresh_logical_system_state(m)
             a == Reply(r, from, "ok", t)
             q == [s.task[t] EXCEPT !.pid = FALSE]
             w == [q EXCEPT !.state = next]
             f == [s.task EXCEPT ![t] = w]
             g == [s.running EXCEPT ![t] = 0]
  <2>1. u = a
    BY <1>2 DEF Stop
  <2>2. s.task \in [T -> TaskRec(C)] /\ s.task[t] \in TaskRec(C) /\ s.running \in [T -> Nat]
    BY DEF SysOf
  <2>3. q \in TaskRec(C) /\ q.queue = s.task[t].queue /\ ~q.pid
    BY <2>2 DEF TaskRec
  <2>4. w \in TaskRec(C) /\ w.queue = s.task[t].queue /\ ~w.pid /\ w.state = next
    <3> HIDE DEF q
    <3> QED BY <2>3, TaskRecord
  <2>5. m = [s EXCEPT !.running = g, !.task = f]
    <3>1. k = [s EXCEPT !.running = g, !.task = [@ EXCEPT ![t] = q]]
      BY DEF Killed, SysOf
    <3> HIDE DEF k, g, q
    <3>2. [s.task EXCEPT ![t] = q][t] = q
      BY <2>2
    <3>3. k.task = [s.task EXCEPT ![t] = q]
      BY <3>1 DEF SysOf
    <3>4. m = [k EXCEPT !.task = [k.task EXCEPT ![t] = w]]
      BY <3>2, <3>3
    <3>5. [k.task EXCEPT ![t] = w] = f
      BY <3>3, <2>2
    <3> HIDE DEF f, m, w
    <3> QED BY <3>1, <3>4, <3>5 DEF SysOf
  <2> HIDE DEF w, q, k, m, u
  <2>6. f \in [T -> TaskRec(C)] /\ f[t] = w /\ \A x \in T \ {t} : f[x] = s.task[x]
    BY <2>2, <2>4
  <2>7. g \in [T -> Nat] /\ g[t] = 0 /\ \A x \in T \ {t} : g[x] = s.running[x]
    BY <2>2
  <2> HIDE DEF f, g
  <2>8. /\ m \in SysOf(T, C) /\ Alike(s, m) /\ m.tasks = s.tasks /\ m.task = f /\ m.running = g
        /\ m.unkilled = s.unkilled /\ m.control = s.control
    BY <2>5, <2>6, <2>7 DEF SysOf, Alike
  <2>9. /\ r \in SysOf(T, C) /\ Alike(m, r)
        /\ r.tasks = m.tasks /\ r.task = m.task /\ r.running = m.running
        /\ r.unkilled = m.unkilled /\ r.control = m.control
        /\ r.active = system_active(r)
    BY <2>8, Refreshing
  <2> HIDE DEF r
  <2>10. "ok" \in Answers /\ "ok" \in Kinds
    BY DEF Answers, Kinds
  <2>11. /\ Within(T, C, r, a, t) /\ Silent(T, r, a)
         /\ a.task = r.task /\ a.running = r.running /\ a.active = r.active
         /\ system_active(a) = system_active(r)
    BY <2>9, <2>10, AnsweringIs
  <2>12. a.control = Reply(s, from, "ok", t).control
    BY <2>8, <2>9, ReplyControl
  <2> HIDE DEF a
  <2>13. Within(T, C, s, r, t)
    BY <2>4, <2>6, <2>7, <2>8, <2>9 DEF Within, Others, SameTask, Posted, Alike
  <2>14. Within(T, C, s, a, t)
    BY <2>11, <2>13, WithinTwice
  <2> QED BY <1>2, <2>1, <2>4, <2>6, <2>7, <2>8, <2>9, <2>10, <2>11, <2>12, <2>14 DEF Halted, Told, u
<1> QED BY <1>1, <1>2

(* An alarm of a task that runs: it is watched further, or has been         *)
(* started again, or is down.                                               *)
Still(s, u, t) ==
  /\ u.task[t].pid = s.task[t].pid /\ u.task[t].required = s.task[t].required
  /\ u.running[t] = s.running[t] /\ u.active = s.active

Calm(s, t) == s.running[t] = 0 \/ s.task[t].state /= "Running"

Outcome(s, u, t) ==
  \/ /\ Still(s, u, t) /\ u.task[t].state = s.task[t].state /\ u.task[t].alarms > 0
  \/ /\ u.active = system_active(u) /\ Calm(s, t) /\ Up(s, u, t)
  \/ /\ u.active = system_active(u) /\ Calm(s, t) /\ Down(u, t) /\ u.running[t] = s.running[t]

LEMMA CheckIs ==
  ASSUME NEW T, NEW C, NEW s \in SysOf(T, C), NEW t \in T, NEW fault
  PROVE  LET u == check_task_still_running(s, t, fault)
         IN  /\ Within(T, C, s, u, t) /\ u.control = s.control /\ Outcome(s, u, t)
<1> DEFINE q == [s.task[t] EXCEPT !.pid = FALSE]
           m == [s EXCEPT !.task[t].pid = FALSE]
           u == check_task_still_running(s, t, fault)
<1>0. s.task[t] \in TaskRec(C) /\ s.running[t] \in Nat
  BY DEF SysOf
<1>1. q \in TaskRec(C) /\ q.queue = s.task[t].queue /\ ~q.pid
  BY <1>0 DEF TaskRec
<1>2. m = [s EXCEPT !.task = [@ EXCEPT ![t] = q]]
  OBVIOUS
<1>3. u = CASE s.running[t] > 0 -> monitor_active_task_status(s, t)
            [] s.running[t] = 0 /\ s.task[t].restart -> Started(m, t, NULL, fault)
            [] OTHER -> NotRunning(m, t)
  BY DEF check_task_still_running
<1> HIDE DEF q, m, u
<1>4. /\ Within(T, C, s, m, t) /\ Silent(T, s, m) /\ m.task[t] = q
      /\ m.running = s.running /\ m.control = s.control /\ m.active = s.active
  BY <1>1, <1>2, OwnRecord
<1>5. m \in SysOf(T, C)
  BY <1>4 DEF Within
<1>6. CASE s.running[t] > 0
  <2>1. u = monitor_active_task_status(s, t)
    BY <1>3, <1>6
  <2> QED BY <2>1, MonitorIs DEF Outcome, Still, u
<1>7. CASE s.running[t] = 0 /\ s.task[t].restart
  <2>1. u = Started(m, t, NULL, fault)
    BY <1>3, <1>7
  <2>2. NULL \in C \cup {NULL}
    OBVIOUS
  <2>3. /\ Within(T, C, m, u, t)
        /\ u.active = system_active(u)
        /\ \/ Up(m, u, t) /\ u.control = m.control
           \/ /\ Down(u, t) /\ u.running[t] = m.running[t]
              /\ u.control = Reply(m, NULL, "error", t).control
    BY <1>5, <2>1, <2>2, StartedIs
  <2>4. Reply(m, NULL, "error", t) = m
    BY DEF Reply
  <2>5. Within(T, C, s, u, t)
    BY <1>4, <2>3, WithinTwice
  <2> QED BY <1>4, <1>7, <2>3, <2>4, <2>5 DEF Outcome, Calm, Up, u
<1>8. CASE ~(s.running[t] > 0) /\ ~(s.running[t] = 0 /\ s.task[t].restart)
  <2>1. u = NotRunning(m, t)
    BY <1>3, <1>8
  <2>2. /\ Within(T, C, m, u, t)
        /\ u.task[t].state \in {"Stopped", "Paused"}
        /\ u.task[t].pid = m.task[t].pid
        /\ u.running = m.running
        /\ u.control = m.control
        /\ u.active = system_active(u)
    BY <1>5, <2>1, NotRunningIs
  <2>3. Within(T, C, s, u, t)
    BY <1>4, <2>2, WithinTwice
  <2>4. s.running[t] = 0
    BY <1>0, <1>8
  <2> QED BY <1>1, <1>4, <2>2, <2>3, <2>4 DEF Outcome, Calm, Down, u
<1> QED BY <1>6, <1>7, <1>8

(* What a thread does with the event that it has taken from its queue.      *)
Stepped(s, u, t, e) ==
  \/ /\ Still(s, u, t) /\ s.task[t].state /= "Start" /\ u.task[t].state = s.task[t].state
     /\ u.task[t].alarms > 0 \/ (u.task[t].alarms = s.task[t].alarms /\ (e.ev = "Alarm" => s.task[t].state /= "Running"))
  \/ Still(s, u, t) /\ s.task[t].state = "Paused" /\ u.task[t].state = "Stopped"
  \/ u.active = system_active(u) /\ Calm(s, t) /\ Up(s, u, t)
  \/ u.active = system_active(u) /\ Calm(s, t) /\ Down(u, t) /\ u.running[t] = s.running[t]
  \/ u.active = system_active(u) /\ Down(u, t) /\ u.running[t] = 0

LEMMA TaskStepIs ==
  ASSUME NEW T, NEW C, NULL \notin C,
         NEW s \in SysOf(T, C), NEW t \in T, Live(s, t), Distinct(s.tasks),
         NEW e \in EventRec(C), NEW fault,
         s.task[t].state \in {"Start", "Stopped", "Paused", "Running"},
         s.task[t].pid => s.task[t].state = "Running",
         s.task[t].state = "Start" => e.from = NULL
  PROVE  LET u == TaskStep(s, t, e, fault)
         IN  \/ Ended(T, C, s, u, t)
             \/ Within(T, C, s, u, t) /\ Told(s, u, e.from, t) /\ Stepped(s, u, t, e)
<1> DEFINE u == TaskStep(s, t, e, fault)
           state == s.task[t].state
           Goal == \/ Ended(T, C, s, u, t)
                   \/ Within(T, C, s, u, t) /\ Told(s, u, e.from, t) /\ Stepped(s, u, t, e)
<1> SUFFICES Goal
  OBVIOUS
<1>0. s.task[t] \in TaskRec(C) /\ e.from \in C \cup {NULL} /\ "ok" \in Answers /\ "error" \in Answers
  BY DEF SysOf, EventRec, Answers
<1>1. /\ e.from \in C => e.ev \in {"Status-Req", "Start-Req", "Pause-Req", "Stop-Req"}
      /\ e.from = NULL => e.ev \in {"Task", "Alarm", "Stop-Force", "Start-Auto", "Pause-Auto"}
  BY DEF EventRec, Requests, Signals
<1>2. \A kind, v : v.control = s.control /\ e.from = NULL => Told(s, v, e.from, t)
  BY <1>0 DEF Told, Reply
<1>3. /\ Within(T, C, s, s, t)
      /\ \A kind \in Answers : kind \in Kinds
  BY DEF Within, Others, SameTask, Posted, Alike, Kinds
<1>4. ASSUME NEW kind \in Answers, u = Reply(s, e.from, kind, t), state /= "Start", e.ev /= "Alarm"
      PROVE  Goal
  <2>1. Within(T, C, s, u, t) /\ u.task = s.task /\ u.running = s.running /\ u.active = s.active
    BY <1>0, <1>3, <1>4, AnsweringIs
  <2>2. Told(s, u, e.from, t)
    BY <1>4 DEF Told
  <2> HIDE DEF u
  <2> QED BY <1>4, <2>1, <2>2 DEF Stepped, Still
<1>5. CASE state = "Start"
  <2>0. e.from = NULL /\ e.ev /= "Status-Req"
    BY <1>1, <1>5
  <2>a. ~s.task[t].pid /\ Calm(s, t)
    BY <1>5 DEF Calm
  <2> DEFINE v == load_task_values(s, t, fault)
  <2>1. /\ Within(T, C, s, v, t) /\ Silent(T, s, v)
        /\ v.task[t].state = s.task[t].state /\ v.task[t].pid = s.task[t].pid
        /\ v.running = s.running /\ v.control = s.control
    BY LoadValuesIs
  <2>2. CASE fault \in {"missing", "nocommand"}
    <3>1. u = Failed(v, t, NULL)
      BY <1>5, <2>0, <2>2 DEF TaskStep
    <3> HIDE DEF v, u
    <3>2. v \in SysOf(T, C) /\ NULL \in C \cup {NULL}
      BY <2>1 DEF Within
    <3>3. /\ Within(T, C, v, u, t)
          /\ u.task[t].state \in {"Stopped", "Paused"}
          /\ u.task[t].pid = v.task[t].pid
          /\ u.running = v.running
          /\ u.control = Reply(v, NULL, "error", t).control
          /\ u.active = system_active(u)
      BY <3>1, <3>2, FailedIs
    <3>4. u.control = s.control
      BY <2>1, <3>3 DEF Reply
    <3>5. Within(T, C, s, u, t)
      BY <2>1, <3>3, WithinTwice
    <3> QED BY <1>2, <2>0, <2>a, <2>1, <3>3, <3>4, <3>5 DEF Stepped, Down
  <2>3. CASE fault \notin {"missing", "nocommand"}
    <3> DEFINE q == [v.task[t] EXCEPT !.state = "Stopped"]
               m == [v EXCEPT !.task[t].state = "Stopped"]
    <3>1. u = refresh_logical_system_state(m)
      BY <1>5, <2>0, <2>3 DEF TaskStep
    <3>2. m = [v EXCEPT !.task = [@ EXCEPT ![t] = q]]
      OBVIOUS
    <3> HIDE DEF v, u
    <3>3. v \in SysOf(T, C) /\ v.task[t] \in TaskRec(C) /\ "Stopped" \in TaskStates
      BY <2>1 DEF Within, SysOf, TaskStates
    <3>4. q \in TaskRec(C) /\ q.queue = v.task[t].queue /\ q.state = "Stopped" /\ q.pid = v.task[t].pid
      BY <3>3, TaskRecord
    <3> HIDE DEF m, q
    <3>5. /\ Within(T, C, v, m, t) /\ Silent(T, v, m) /\ m.task[t] = q
          /\ m.running = v.running /\ m.control = v.control /\ m.active = v.active
      BY <3>2, <3>3, <3>4, OwnRecord
    <3>6. m \in SysOf(T, C)
      BY <3>5 DEF Within
    <3>7. /\ u \in SysOf(T, C) /\ Alike(m, u)
          /\ u.tasks = m.tasks /\ u.task = m.task /\ u.running = m.running
          /\ u.unkilled = m.unkilled /\ u.control = m.control
          /\ u.active = system_active(u)
      BY <3>1, <3>6, Refreshing
    <3>8. Within(T, C, m, u, t)
      BY <3>7 DEF Within, Others, SameTask, Posted
    <3>9. Within(T, C, s, u, t)
      BY <2>1, <3>5, <3>8, WithinTwice DEF Silent
    <3> QED BY <1>2, <2>0, <2>a, <2>1, <3>4, <3>5, <3>7, <3>9 DEF Stepped, Down
  <2> QED BY <2>2, <2>3
<1>6. CASE state \in {"Stopped", "Paused"} /\ e.ev = "Start-Req"
  <2>1. u = Answered(Start(s, t, e.from, fault, TRUE), t, e.from)
    BY <1>6 DEF TaskStep
  <2>2. ~s.task[t].pid /\ Calm(s, t)
    BY <1>6 DEF Calm
  <2>3. /\ Within(T, C, s, u, t)
        /\ u.active = system_active(u)
        /\ Told(s, u, e.from, t)
        /\ Up(s, u, t) \/ (Down(u, t) /\ u.running[t] = s.running[t])
    <3> DEFINE from  == e.from
               slots == TRUE
    <3>1. from \in C \cup {NULL} /\ slots \in BOOLEAN /\ ~s.task[t].pid
      BY <1>0, <2>2
    <3>0. u = Answered(Start(s, t, from, fault, slots), t, from)
      BY <2>1
    <3> HIDE DEF from, slots, u, state, Goal
    <3>2. LET y == Answered(Start(s, t, from, fault, slots), t, from)
          IN  /\ Within(T, C, s, y, t)
              /\ y.active = system_active(y)
              /\ Told(s, y, from, t)
              /\ Up(s, y, t) \/ (Down(y, t) /\ y.running[t] = s.running[t])
      BY <3>1, AskedToStart
    <3> QED BY <3>0, <3>2 DEF from
  <2> HIDE DEF u
  <2> QED BY <2>2, <2>3 DEF Stepped
<1>7. CASE state = "Paused" /\ e.ev = "Start-Auto"
  <2> DEFINE slots == FALSE
  <2>1. u = Start(s, t, NULL, fault, slots)
    BY <1>7 DEF TaskStep
  <2>2. ~s.task[t].pid /\ Calm(s, t) /\ slots \in BOOLEAN /\ NULL \in C \cup {NULL} /\ e.from = NULL
    BY <1>0, <1>1, <1>7 DEF Calm
  <2> HIDE DEF u, slots
  <2>3. /\ Within(T, C, s, u, t)
        /\ u.active = system_active(u)
        /\ \/ Up(s, u, t) /\ u.control = s.control
           \/ /\ Down(u, t) /\ u.running[t] = s.running[t]
              /\ u.control = Reply(s, NULL, "error", t).control
    BY <2>1, <2>2, StartIs
  <2>4. u.control = s.control
    BY <2>3 DEF Reply
  <2> QED BY <1>2, <2>2, <2>3, <2>4 DEF Stepped
<1>8. CASE state = "Paused" /\ e.ev = "Stop-Force"
  <2> DEFINE q == [s.task[t] EXCEPT !.state = "Stopped"]
  <2>1. u = [s EXCEPT !.task = [@ EXCEPT ![t] = q]]
    BY <1>8 DEF TaskStep
  <2>2. "Stopped" \in TaskStates
    BY DEF TaskStates
  <2>3. /\ q \in TaskRec(C) /\ q.queue = s.task[t].queue /\ q.state = "Stopped" /\ q.pid = s.task[t].pid
        /\ q.required = s.task[t].required
    BY <1>0, <2>2, TaskRecord
  <2> HIDE DEF u, q
  <2>4. /\ Within(T, C, s, u, t) /\ u.task[t] = q
        /\ u.running = s.running /\ u.control = s.control /\ u.active = s.active
    BY <2>1, <2>3, OwnRecord
  <2>5. e.from = NULL
    BY <1>0, <1>1, <1>8
  <2> QED BY <1>2, <1>8, <2>3, <2>4, <2>5 DEF Stepped, Still
<1>9. CASE state \in {"Stopped", "Paused"} /\ e.ev \in {"Pause-Req", "Stop-Req"}
  <2>1. u = Reply(s, e.from, "error", t)
    BY <1>9 DEF TaskStep
  <2> HIDE DEF u, Goal
  <2> QED BY <1>0, <1>4, <1>9, <2>1
<1>10. CASE state = "Running" /\ e.ev = "Start-Req"
  <2>1. u = Reply(s, e.from, "error", t)
    BY <1>10 DEF TaskStep
  <2> HIDE DEF u, Goal
  <2> QED BY <1>0, <1>4, <1>10, <2>1
<1>11. ASSUME NEW next \in {"Stopped", "Paused"}, u = Stop(s, t, e.from, fault, next)
       PROVE  Goal
  <2>1. next \in TaskStates
    BY DEF TaskStates
  <2>2. IF fault = "kill" THEN Ended(T, C, s, u, t) ELSE Halted(T, C, s, u, t, e.from, next)
    BY <1>0, <1>11, <2>1, StopIs
  <2> HIDE DEF u
  <2> QED BY <2>2 DEF Halted, Stepped, Down
<1>12. CASE state = "Running" /\ e.ev \in {"Pause-Req", "Pause-Auto"}
  <2>1. u = Stop(s, t, e.from, fault, "Paused")
    BY <1>12 DEF TaskStep
  <2> HIDE DEF u, Goal
  <2> QED BY <1>11, <2>1
<1>13. CASE state = "Running" /\ e.ev \in {"Stop-Req", "Stop-Force"}
  <2>1. u = Stop(s, t, e.from, fault, "Stopped")
    BY <1>13 DEF TaskStep
  <2> HIDE DEF u, Goal
  <2> QED BY <1>11, <2>1
<1>14. CASE state = "Running" /\ e.ev = "Alarm"
  <2>1. u = check_task_still_running(s, t, fault)
    BY <1>14 DEF TaskStep
  <2>2. Within(T, C, s, u, t) /\ u.control = s.control /\ Outcome(s, u, t)
    BY <2>1, CheckIs
  <2>3. e.from = NULL
    BY <1>0, <1>1, <1>14
  <2> HIDE DEF u
  <2> QED BY <1>2, <1>14, <2>2, <2>3 DEF Outcome, Stepped
<1>15. CASE state /= "Start" /\ e.ev = "Status-Req"
  <2>1. u = Reply(s, e.from, state, t)
    BY <1>15 DEF TaskStep
  <2>2. state \in Answers
    BY <1>15 DEF Answers
  <2> HIDE DEF u, Goal, state
  <2> QED BY <1>4, <1>15, <2>1, <2>2
<1>16. CASE /\ state /= "Start"
            /\ \/ e.ev = "Task"
               \/ state /= "Running" /\ e.ev \in {"Alarm", "Pause-Auto"}
               \/ state = "Stopped" /\ e.ev \in {"Stop-Force", "Start-Auto"}
               \/ state = "Running" /\ e.ev = "Start-Auto"
  <2>1. u = s
    BY <1>16 DEF TaskStep
  <2>2. e.from = NULL
    BY <1>0, <1>1, <1>16
  <2>3. Told(s, u, e.from, t)
    BY <1>2, <2>1, <2>2
  <2>4. Stepped(s, u, t, e)
    BY <1>16, <2>1 DEF Stepped, Still
  <2> QED BY <1>3, <2>1, <2>3, <2>4
<1>17. \/ state = "Start"
       \/ state \in {"Stopped", "Paused"} /\ e.ev = "Start-Req"
       \/ state = "Paused" /\ e.ev = "Start-Auto"
       \/ state = "Paused" /\ e.ev = "Stop-Force"
       \/ state \in {"Stopped", "Paused"} /\ e.ev \in {"Pause-Req", "Stop-Req"}
       \/ state = "Running" /\ e.ev = "Start-Req"
       \/ state = "Running" /\ e.ev \in {"Pause-Req", "Pause-Auto"}
       \/ state = "Running" /\ e.ev \in {"Stop-Req", "Stop-Force"}
       \/ state = "Running" /\ e.ev = "Alarm"
       \/ state /= "Start" /\ e.ev = "Status-Req"
       \/ /\ state /= "Start"
          /\ \/ e.ev = "Task"
             \/ state /= "Running" /\ e.ev \in {"Alarm", "Pause-Auto"}
             \/ state = "Stopped" /\ e.ev \in {"Stop-Force", "Start-Auto"}
             \/ state = "Running" /\ e.ev = "Start-Auto"
  <2>1. e.ev \in {"Status-Req", "Start-Req", "Pause-Req", "Stop-Req", "Task", "Alarm", "Stop-Force", "Start-Auto", "Pause-Auto"}
    BY <1>0, <1>1
  <2>2. state \in {"Start", "Stopped", "Paused", "Running"}
    OBVIOUS
  <2> HIDE DEF state
  <2> QED BY <2>1, <2>2
<1> HIDE DEF Goal, u, state
<1> QED BY <1>5, <1>6, <1>7, <1>8, <1>9, <1>10, <1>12, <1>13, <1>14, <1>15, <1>16, <1>17

-----------------------------------------------------------------------------
(* A change of the queue of one task and of the plan's bounds.              *)
SamePlan(s, u) == u.plan.tasks = s.plan.tasks /\ u.plan.setup = s.plan.setup /\ u.plan.script = s.plan.script

LEMMA Faulty ==
  ASSUME NEW T, NEW C, NEW s \in SysOf(T, C)
  PROVE  LET u == [s EXCEPT !.plan.faults = @ - 1]
         IN  /\ u \in SysOf(T, C) /\ SamePlan(s, u)
             /\ u.tasks = s.tasks /\ u.task = s.task /\ u.running = s.running /\ u.unkilled = s.unkilled
             /\ u.active = s.active /\ u.ending = s.ending /\ u.client = s.client /\ u.control = s.control
             /\ u.up = s.up /\ u.down = s.down
<1> DEFINE a == s.plan.faults - 1
           p == [s.plan EXCEPT !.faults = a]
<1>1. s.plan \in PlanRec(T, C)
  BY DEF SysOf
<1>2. a \in Int
  BY <1>1 DEF PlanRec
<1>3. [s EXCEPT !.plan.faults = @ - 1] = [s EXCEPT !.plan = p]
  OBVIOUS
<1> HIDE DEF a
<1>4. p \in PlanRec(T, C) /\ p.tasks = s.plan.tasks /\ p.setup = s.plan.setup /\ p.script = s.plan.script
  BY <1>1, <1>2 DEF PlanRec
<1> HIDE DEF p
<1> QED BY <1>3, <1>4 DEF SysOf, SamePlan

LEMMA Unqueued ==
  ASSUME NEW T, NEW C, NEW s \in SysOf(T, C), NEW t \in T, NEW q \in Seq(EventRec(C))
  PROVE  LET u == [s EXCEPT !.task[t].queue = q]
         IN  /\ u \in SysOf(T, C) /\ Alike(s, u)
             /\ u.tasks = s.tasks /\ u.running = s.running /\ u.unkilled = s.unkilled
             /\ u.active = s.active /\ u.control = s.control
             /\ SameTask(u.task[t], s.task[t]) /\ u.task[t].queue = q
             /\ \A x \in T \ {t} : u.task[x] = s.task[x]
             /\ system_active(u) = system_active(s)
<1> DEFINE r == [s.task[t] EXCEPT !.queue = q]
           u == [s EXCEPT !.task[t].queue = q]
<1>1. s.task[t] \in TaskRec(C)
  BY DEF SysOf
<1>2. r \in TaskRec(C) /\ SameTask(r, s.task[t]) /\ r.queue = q
  <2>1. r \in TaskRec(C)
    BY <1>1, TaskRecord
  <2> QED BY <1>1, <2>1, QueueRecord
<1>3. u = [s EXCEPT !.task = [@ EXCEPT ![t] = r]]
  OBVIOUS
<1> HIDE DEF r, u
<1>4. /\ u \in SysOf(T, C)
      /\ TaskOnly(s, u)
      /\ u.task[t] = r
      /\ \A x \in T \ {t} : u.task[x] = s.task[x]
  BY <1>2, <1>3, SetOneTask
<1>5. /\ Alike(s, u) /\ u.tasks = s.tasks /\ u.running = s.running
      /\ u.unkilled = s.unkilled /\ u.active = s.active /\ u.control = s.control
  BY <1>4, TaskFields
<1>6. system_active(u) = system_active(s)
  BY <1>2, <1>4, <1>5, SystemActive DEF SameTask
<1> QED BY <1>2, <1>4, <1>5, <1>6 DEF u

(* What an event leaves of the state before it is handled.                  *)
Popped(T, C, s, u, t) ==
  /\ u \in SysOf(T, C) /\ SamePlan(s, u)
  /\ u.tasks = s.tasks /\ u.running = s.running /\ u.unkilled = s.unkilled
  /\ u.active = s.active /\ u.ending = s.ending /\ u.client = s.client /\ u.control = s.control
  /\ u.up = s.up /\ u.down = s.down
  /\ SameTask(u.task[t], s.task[t]) /\ u.task[t].queue = Tail(s.task[t].queue)
  /\ \A x \in T \ {t} : u.task[x] = s.task[x]
  /\ system_active(u) = system_active(s)

LEMMA TaskEventIs ==
  ASSUME NEW T, NEW C, sys \in SysOf(T, C), NEW t \in T, TaskEvent(t)
  PROVE  /\ sys.task[t].queue /= << >> /\ Live(sys, t) /\ ~sys.ending
         /\ sys.task[t].queue[1] \in EventRec(C)
         /\ \E s \in SysOf(T, C) : \E fault :
              Popped(T, C, sys, s, t) /\ sys' = TaskStep(s, t, sys.task[t].queue[1], fault)
<1> DEFINE q == sys.task[t].queue
           p == Tail(q)
           s == [sys EXCEPT !.task[t].queue = p]
           w == [s EXCEPT !.plan.faults = @ - 1]
<1>1. q /= << >> /\ Live(sys, t) /\ ~sys.ending
  BY DEF TaskEvent
<1>2. sys.task[t] \in TaskRec(C)
  BY DEF SysOf
<1>3. q \in Seq(EventRec(C))
  BY <1>2 DEF TaskRec
<1>4. p \in Seq(EventRec(C)) /\ q[1] \in EventRec(C)
  BY <1>1, <1>3
<1>5. \/ sys' = TaskStep(s, t, q[1], "none")
      \/ \E f : sys' = TaskStep(w, t, q[1], f)
  BY DEF TaskEvent, OrFault
<1> HIDE DEF p
<1>6. Popped(T, C, sys, s, t)
  <2>1. /\ s \in SysOf(T, C) /\ Alike(sys, s)
        /\ s.tasks = sys.tasks /\ s.running = sys.running /\ s.unkilled = sys.unkilled
        /\ s.active = sys.active /\ s.control = sys.control
        /\ SameTask(s.task[t], sys.task[t]) /\ s.task[t].queue = p
        /\ \A x \in T \ {t} : s.task[x] = sys.task[x]
        /\ system_active(s) = system_active(sys)
    BY <1>4, Unqueued
  <2> HIDE DEF s
  <2> QED BY <2>1 DEF Popped, Alike, SamePlan, p
<1> HIDE DEF s
<1>7. Popped(T, C, sys, w, t)
  <2>1. s \in SysOf(T, C)
    BY <1>6 DEF Popped
  <2>2. /\ w \in SysOf(T, C) /\ SamePlan(s, w)
        /\ w.tasks = s.tasks /\ w.task = s.task /\ w.running = s.running /\ w.unkilled = s.unkilled
        /\ w.active = s.active /\ w.ending = s.ending /\ w.client = s.client /\ w.control = s.control
        /\ w.up = s.up /\ w.down = s.down
    BY <2>1, Faulty
  <2> HIDE DEF w
  <2>3. system_active(w) = system_active(s)
    BY <2>1, <2>2, SystemActive
  <2> QED BY <1>6, <2>2, <2>3 DEF Popped, SamePlan
<1> HIDE DEF w
<1>8. s \in SysOf(T, C) /\ w \in SysOf(T, C)
  BY <1>6, <1>7 DEF Popped
<1> QED BY <1>1, <1>4, <1>5, <1>6, <1>7, <1>8

LEMMA PostedKeeps ==
  ASSUME NEW C, NEW r \in TaskRec(C), NEW q \in TaskRec(C), Posted(r, q)
  PROVE  /\ HasAlarm(r.queue) => HasAlarm(q.queue)
         /\ r.queue /= << >> => q.queue /= << >> /\ q.queue[1] = r.queue[1]
<1>1. r.queue \in Seq(EventRec(C)) /\ q.queue \in Seq(EventRec(C))
  BY DEF TaskRec
<1>2. CASE q.queue = r.queue
  BY <1>2
<1>3. CASE q.queue = Append(r.queue, StopForce)
  <2> DEFINE a == r.queue
             b == Append(a, StopForce)
  <2>1. StopForce \in EventRec(C)
    BY DEF StopForce, EventRec, Signals
  <2> HIDE DEF a
  <2>2. a \in Seq(EventRec(C))
    BY <1>1 DEF a
  <2>3. /\ Len(b) = Len(a) + 1 /\ \A i \in 1 .. Len(a) : b[i] = a[i]
        /\ DOMAIN a = 1 .. Len(a) /\ DOMAIN b = 1 .. Len(a) + 1
    BY <2>1, <2>2
  <2>4. HasAlarm(a) => HasAlarm(b)
    BY <2>2, <2>3 DEF HasAlarm
  <2>5. a /= << >> => b /= << >> /\ b[1] = a[1]
    BY <2>2, <2>3
  <2> QED BY <1>3, <2>4, <2>5 DEF a
<1> QED BY <1>2, <1>3 DEF Posted

LEMMA OtherKept ==
  ASSUME NEW T, NEW C, NEW s \in SysOf(T, C), NEW u \in SysOf(T, C), NEW x \in T, TaskOK(s, x),
         SameTask(u.task[x], s.task[x]), Posted(s.task[x], u.task[x]), u.running[x] = s.running[x],
         Live(u, x) <=> Live(s, x), x \in s.unkilled => x \in u.unkilled
  PROVE  TaskOK(u, x)
<1>1. s.task[x] \in TaskRec(C) /\ u.task[x] \in TaskRec(C)
  BY DEF SysOf
<1>2. /\ HasAlarm(s.task[x].queue) => HasAlarm(u.task[x].queue)
      /\ s.task[x].queue /= << >> => u.task[x].queue /= << >> /\ u.task[x].queue[1] = s.task[x].queue[1]
  BY <1>1, PostedKeeps
<1> QED BY <1>2 DEF TaskOK, NewOK, WatchedOK, OrphansOK, SameTask

LEMMA TailAlarm ==
  ASSUME NEW C, NEW q \in Seq(EventRec(C)), q /= << >>, HasAlarm(q), q[1].ev /= "Alarm"
  PROVE  HasAlarm(Tail(q))
<1>1. PICK i \in DOMAIN q : q[i].ev = "Alarm"
  BY DEF HasAlarm
<1>2. i \in 2 .. Len(q) /\ Len(q) \in Nat
  BY <1>1
<1>3. /\ DOMAIN Tail(q) = 1 .. Len(q) - 1
      /\ \A j \in 1 .. Len(q) - 1 : Tail(q)[j] = q[j + 1]
  OBVIOUS
<1>4. i - 1 \in 1 .. Len(q) - 1 /\ (i - 1) + 1 = i
  BY <1>2
<1>5. Tail(q)[i - 1].ev = "Alarm"
  BY <1>1, <1>3, <1>4
<1> QED BY <1>3, <1>4, <1>5 DEF HasAlarm

LEMMA TaskEventKeeps ==
  ASSUME NEW T, NEW C, NULL \notin C, TasksOK(T, C, sys), NEW t \in T, TaskEvent(t)
  PROVE  LET e == sys.task[t].queue[1]
         IN  /\ TasksOK(T, C, sys')
             /\ sys.task[t].queue /= << >> /\ e \in EventRec(C)
             /\ \E s \in SysOf(T, C) :
                  /\ Popped(T, C, sys, s, t)
                  /\ Ended(T, C, s, sys', t) \/ (Within(T, C, s, sys', t) /\ Told(s, sys', e.from, t))
<1> DEFINE e == sys.task[t].queue[1]
           u == sys'
<1>1. /\ sys \in SysOf(T, C) /\ Distinct(sys.tasks) /\ PlanOK(T, sys)
      /\ \A x \in T : TaskOK(sys, x)
      /\ ActiveOK(T, sys) /\ EndedOK(T, sys)
  BY DEF TasksOK
<1>2. /\ sys.task[t].queue /= << >> /\ Live(sys, t)
      /\ e \in EventRec(C)
      /\ \E s \in SysOf(T, C) : \E fault : Popped(T, C, sys, s, t) /\ sys' = TaskStep(s, t, e, fault)
  BY <1>1, TaskEventIs
<1>3. PICK s \in SysOf(T, C) : \E fault : Popped(T, C, sys, s, t) /\ sys' = TaskStep(s, t, e, fault)
  BY <1>2
<1>4. PICK fault : Popped(T, C, sys, s, t) /\ sys' = TaskStep(s, t, e, fault)
  BY <1>3
<1>a. s.tasks = sys.tasks /\ s.running = sys.running /\ s.unkilled = sys.unkilled /\ s.active = sys.active
      /\ SamePlan(sys, s) /\ s.ending = sys.ending
  BY <1>4 DEF Popped
<1>b. SameTask(s.task[t], sys.task[t]) /\ s.task[t].queue = Tail(sys.task[t].queue)
      /\ (\A x \in T \ {t} : s.task[x] = sys.task[x])
  BY <1>4 DEF Popped
<1>c. \A x \in T : Live(s, x) <=> Live(sys, x)
  BY <1>a DEF Live
<1>d. system_active(s) = system_active(sys)
  BY <1>4 DEF Popped
<1>5. /\ Live(s, t) /\ Distinct(s.tasks)
      /\ s.task[t].state \in {"Start", "Stopped", "Paused", "Running"}
      /\ s.task[t].pid => s.task[t].state = "Running"
      /\ s.task[t].state = "Start" => e.from = NULL
  <2>1. s.task[t] \in TaskRec(C)
    BY DEF SysOf
  <2>2. s.task[t].state \in TaskStates
    BY <2>1 DEF TaskRec
  <2>3. sys.task[t].state /= "Gone" /\ NewOK(sys.task[t]) /\ WatchedOK(sys, t)
    BY <1>1, <1>2 DEF TaskOK
  <2> QED BY <1>1, <1>2, <1>a, <1>b, <1>c, <2>2, <2>3 DEF TaskStates, SameTask, NewOK, WatchedOK
<1>6. \/ Ended(T, C, s, u, t)
      \/ Within(T, C, s, u, t) /\ Told(s, u, e.from, t) /\ Stepped(s, u, t, e)
  BY <1>2, <1>4, <1>5, TaskStepIs
<1> HIDE DEF e, u
<1>7. \A x \in T \ {t} : TaskOK(s, x)
  BY <1>1, <1>a, <1>b, <1>c DEF TaskOK, NewOK, WatchedOK, OrphansOK
<1>8. ASSUME Ended(T, C, s, u, t) PROVE TasksOK(T, C, u)
  <2>1. /\ u \in SysOf(T, C) /\ Alike(s, u) /\ u.unkilled = s.unkilled \cup {t}
        /\ ToSet(u.tasks) = ToSet(s.tasks) \ {t} /\ Distinct(u.tasks)
        /\ Others(T, s, u, t)
    BY <1>8 DEF Ended
  <2>2. ~Live(u, t) /\ (\A x \in T \ {t} : Live(u, x) <=> Live(s, x))
    BY <2>1 DEF Live
  <2>3. \A x \in T \ {t} : TaskOK(u, x)
    BY <1>7, <2>1, <2>2, OtherKept DEF Others
  <2>4. TaskOK(u, t)
    BY <2>1, <2>2 DEF TaskOK, OrphansOK
  <2>5. PlanOK(T, u)
    BY <1>1, <1>a, <2>1 DEF PlanOK, SamePlan, Alike
  <2>6. ActiveOK(T, u)
    BY <2>1 DEF ActiveOK
  <2>7. EndedOK(T, u)
    BY <1>1, <1>a, <1>c, <2>1, <2>2 DEF EndedOK, Alike
  <2> QED BY <2>1, <2>3, <2>4, <2>5, <2>6, <2>7 DEF TasksOK
<1>9. ASSUME Within(T, C, s, u, t), Stepped(s, u, t, e) PROVE TasksOK(T, C, u)
  <2>1. /\ u \in SysOf(T, C) /\ Alike(s, u) /\ u.tasks = s.tasks /\ u.unkilled = s.unkilled
        /\ Others(T, s, u, t) /\ Posted(s.task[t], u.task[t])
    BY <1>9 DEF Within
  <2>2. \A x \in T : Live(u, x) <=> Live(s, x)
    BY <2>1 DEF Live
  <2>3. \A x \in T \ {t} : TaskOK(u, x)
    BY <1>7, <2>1, <2>2, OtherKept DEF Others
  <2>4. PlanOK(T, u)
    BY <1>1, <1>a, <2>1 DEF PlanOK, SamePlan, Alike
  <2>5. EndedOK(T, u)
    BY <1>1, <1>a, <1>c, <2>1, <2>2 DEF EndedOK, Alike
  <2>6. Distinct(u.tasks)
    BY <1>5, <2>1
  <2>7. Still(s, u, t) => system_active(u) = system_active(s)
    <3> SUFFICES ASSUME Still(s, u, t) PROVE system_active(u) = system_active(s)
      OBVIOUS
    <3>1. \A x \in T : u.task[x].required = s.task[x].required /\ u.task[x].pid = s.task[x].pid
      BY <2>1 DEF Still, Others, SameTask
    <3> QED BY <2>1, <3>1, SystemActive
  <2>8. ActiveOK(T, u)
    <3>1. CASE u.active = system_active(u)
      BY <3>1 DEF ActiveOK
    <3>2. CASE Still(s, u, t) /\ s.task[t].state /= "Start"
      <4>1. s.active = system_active(s) \/ ToSet(s.tasks) /= T
        BY <1>1, <1>a, <1>b, <1>d, <3>2 DEF ActiveOK, SameTask
      <4> QED BY <2>1, <2>7, <3>2, <4>1 DEF ActiveOK, Still
    <3> QED BY <1>9, <3>1, <3>2 DEF Stepped
  <2>9. TaskOK(u, t)
    <3>0. /\ s.task[t] \in TaskRec(C) /\ u.task[t] \in TaskRec(C) /\ sys.task[t] \in TaskRec(C)
          /\ s.running[t] \in Nat
      BY <1>1, <2>1 DEF SysOf
    <3>1. HasAlarm(s.task[t].queue) => HasAlarm(u.task[t].queue)
      BY <2>1, <3>0, PostedKeeps
    <3>2. e.ev /= "Alarm" /\ HasAlarm(sys.task[t].queue) => HasAlarm(s.task[t].queue)
      <4>1. sys.task[t].queue \in Seq(EventRec(C))
        BY <3>0 DEF TaskRec
      <4> QED BY <1>2, <1>b, <4>1, TailAlarm DEF e
    <3>3. /\ s.task[t].state = "Running" <=> s.task[t].pid
          /\ s.task[t].pid => sys.task[t].alarms > 0 \/ HasAlarm(sys.task[t].queue)
          /\ t \notin s.unkilled => s.running[t] <= 1 /\ (s.running[t] = 1 => s.task[t].pid)
          /\ s.task[t].alarms = sys.task[t].alarms
      BY <1>1, <1>2, <1>a, <1>b DEF TaskOK, WatchedOK, OrphansOK, SameTask
    <3>4. Live(u, t) /\ (t \notin u.unkilled <=> t \notin s.unkilled)
      BY <1>5, <2>1, <2>2
    <3>5. CASE Still(s, u, t) /\ s.task[t].state /= "Start" /\ u.task[t].state = s.task[t].state
               /\ (u.task[t].alarms > 0 \/ (u.task[t].alarms = s.task[t].alarms /\ (e.ev = "Alarm" => s.task[t].state /= "Running")))
      <4>1. u.task[t].state /= "Gone" /\ u.task[t].state /= "Start"
        BY <1>5, <3>5
      <4>2. WatchedOK(u, t)
        BY <3>1, <3>2, <3>3, <3>5 DEF WatchedOK, Still
      <4>3. OrphansOK(u, t)
        BY <3>3, <3>4, <3>5 DEF OrphansOK, Still
      <4> QED BY <4>1, <4>2, <4>3 DEF TaskOK, NewOK
    <3>6. CASE Still(s, u, t) /\ s.task[t].state = "Paused" /\ u.task[t].state = "Stopped"
      BY <3>3, <3>4, <3>6 DEF TaskOK, NewOK, WatchedOK, OrphansOK, Still
    <3>7. CASE Calm(s, t) /\ Up(s, u, t)
      <4>1. t \notin s.unkilled => s.running[t] = 0
        BY <3>0, <3>3, <3>7 DEF Calm
      <4> QED BY <3>0, <3>4, <3>7, <4>1 DEF TaskOK, NewOK, WatchedOK, OrphansOK, Up
    <3>8. CASE Calm(s, t) /\ Down(u, t) /\ u.running[t] = s.running[t]
      <4>1. t \notin s.unkilled => s.running[t] = 0
        BY <3>0, <3>3, <3>8 DEF Calm
      <4> QED BY <3>0, <3>4, <3>8, <4>1 DEF TaskOK, NewOK, WatchedOK, OrphansOK, Down
    <3>9. CASE Down(u, t) /\ u.running[t] = 0
      BY <3>4, <3>9 DEF TaskOK, NewOK, WatchedOK, OrphansOK, Down
    <3> QED BY <1>9, <3>5, <3>6, <3>7, <3>8, <3>9 DEF Stepped
  <2> QED BY <2>1, <2>3, <2>4, <2>5, <2>6, <2>8, <2>9 DEF TasksOK
<1>10. TasksOK(T, C, u)
  BY <1>6, <1>8, <1>9
<1> QED BY <1>2, <1>4, <1>6, <1>10 DEF e, u

-----------------------------------------------------------------------------
(* The other steps of the tasks.                                            *)
SameTasks(s, u) ==
  /\ u.tasks = s.tasks /\ u.task = s.task /\ u.running = s.running
  /\ u.unkilled = s.unkilled /\ u.active = s.active
  /\ u.plan.tasks = s.plan.tasks /\ (s.ending => u.ending)

LEMMA SameTasksKeeps ==
  ASSUME NEW T, NEW C, NEW s, TasksOK(T, C, s), NEW u \in SysOf(T, C), SameTasks(s, u)
  PROVE  TasksOK(T, C, u)
<1>1. \A x \in T : Live(u, x) <=> Live(s, x)
  BY DEF SameTasks, Live
<1>2. \A x \in T : TaskOK(u, x)
  BY <1>1 DEF TasksOK, TaskOK, NewOK, WatchedOK, OrphansOK, SameTasks
<1>3. s \in SysOf(T, C)
  BY DEF TasksOK
<1>4. system_active(u) = system_active(s)
  BY <1>3, SystemActive DEF SameTasks
<1>5. ActiveOK(T, u)
  BY <1>4 DEF TasksOK, ActiveOK, SameTasks
<1>6. EndedOK(T, u)
  BY <1>1 DEF TasksOK, EndedOK, SameTasks
<1> QED BY <1>2, <1>5, <1>6 DEF TasksOK, PlanOK, SameTasks

(* What a destroyed thread leaves.                                          *)
Destroyed(T, C, s, u, t) ==
  /\ u \in SysOf(T, C) /\ Alike(s, u) /\ u.unkilled = s.unkilled
  /\ ToSet(u.tasks) = ToSet(s.tasks) \ {t} /\ Distinct(u.tasks)
  /\ Others(T, s, u, t) /\ Posted(s.task[t], u.task[t]) /\ u.running[t] = 0
  /\ u.control = s.control

LEMMA ThreadGone ==
  ASSUME NEW T, NEW C, NEW s, TasksOK(T, C, s), NEW t \in T, s.ending, Live(s, t),
         NEW u, Ended(T, C, s, u, t) \/ Destroyed(T, C, s, u, t)
  PROVE  TasksOK(T, C, u)
<1>1. /\ u \in SysOf(T, C) /\ Alike(s, u) /\ (u.unkilled = s.unkilled \/ u.unkilled = s.unkilled \cup {t})
      /\ ToSet(u.tasks) = ToSet(s.tasks) \ {t} /\ Distinct(u.tasks)
      /\ Others(T, s, u, t)
      /\ t \in u.unkilled \/ u.running[t] = 0
  BY DEF Ended, Destroyed
<1>2. ~Live(u, t) /\ (\A x \in T \ {t} : Live(u, x) <=> Live(s, x))
  BY <1>1 DEF Live
<1>3. \A x \in T \ {t} : TaskOK(u, x)
  BY <1>1, <1>2, OtherKept DEF Others, TasksOK
<1>4. TaskOK(u, t)
  BY <1>1, <1>2 DEF TaskOK, OrphansOK
<1>5. PlanOK(T, u) /\ ActiveOK(T, u) /\ EndedOK(T, u)
  BY <1>1 DEF PlanOK, ActiveOK, EndedOK, Alike, TasksOK
<1> QED BY <1>1, <1>3, <1>4, <1>5 DEF TasksOK

LEMMA TaskShutdownIs ==
  ASSUME NEW T, NEW C, TasksOK(T, C, sys), NEW t \in T, TaskShutdown(t)
  PROVE  \E s \in SysOf(T, C) :
           /\ TasksOK(T, C, s) /\ s.ending /\ Live(s, t)
           /\ s.client = sys.client /\ s.control = sys.control /\ s.up = sys.up /\ s.down = sys.down
           /\ SameTasks(sys, s)
           /\ Ended(T, C, s, sys', t) \/ Destroyed(T, C, s, sys', t)
<1> DEFINE Do(s, f) == CASE s.task[t].state /= "Running" -> destroy_the_task(s, t)
                         [] s.task[t].state = "Running" /\ f = "kill" -> Unkilled(s, t)
                         [] OTHER -> destroy_the_task(Stop(s, t, NULL, f, "Running"), t)
           w == [sys EXCEPT !.plan.faults = @ - 1]
           From(s) == /\ s \in SysOf(T, C) /\ TasksOK(T, C, s) /\ s.ending /\ Live(s, t)
                      /\ s.client = sys.client /\ s.control = sys.control /\ s.up = sys.up /\ s.down = sys.down
                      /\ SameTasks(sys, s)
<1>1. sys \in SysOf(T, C) /\ Live(sys, t) /\ sys.ending
  BY DEF TasksOK, TaskShutdown
<1>2. From(sys)
  BY <1>1 DEF SameTasks
<1>3. From(w)
  <2>1. /\ w \in SysOf(T, C) /\ SamePlan(sys, w)
        /\ w.tasks = sys.tasks /\ w.task = sys.task /\ w.running = sys.running /\ w.unkilled = sys.unkilled
        /\ w.active = sys.active /\ w.ending = sys.ending /\ w.client = sys.client /\ w.control = sys.control
        /\ w.up = sys.up /\ w.down = sys.down
    BY <1>1, Faulty
  <2> HIDE DEF w
  <2>2. SameTasks(sys, w)
    BY <2>1 DEF SameTasks, SamePlan
  <2>3. TasksOK(T, C, w)
    BY <2>1, <2>2, SameTasksKeeps
  <2> QED BY <1>1, <2>1, <2>2, <2>3 DEF Live
<1>4. sys' = Do(sys, "none") \/ \E f : sys' = Do(w, f)
  BY DEF TaskShutdown, OrFault
<1>5. ASSUME NEW s, From(s), NEW f
      PROVE  Ended(T, C, s, Do(s, f), t) \/ Destroyed(T, C, s, Do(s, f), t)
  <2> DEFINE u == Do(s, f)
             h == Stop(s, t, NULL, f, "Running")
  <2> SUFFICES Ended(T, C, s, u, t) \/ Destroyed(T, C, s, u, t)
    OBVIOUS
  <2>1. Distinct(s.tasks) /\ s.task[t].state /= "Gone" /\ WatchedOK(s, t) /\ OrphansOK(s, t)
        /\ s.running[t] \in Nat /\ s \in SysOf(T, C)
    BY <1>5 DEF TasksOK, TaskOK, SysOf
  <2>2. CASE f = "kill" /\ s.task[t].state = "Running"
    <3>1. u = Unkilled(s, t)
      BY <2>2
    <3> HIDE DEF u
    <3> QED BY <1>5, <2>1, <3>1, UnkilledIs
  <2>3. CASE s.task[t].state /= "Running"
    <3>1. u = destroy_the_task(s, t)
      BY <2>3
    <3> HIDE DEF u
    <3>2. /\ u \in SysOf(T, C) /\ Alike(s, u)
          /\ ToSet(u.tasks) = ToSet(s.tasks) \ {t} /\ Distinct(u.tasks)
          /\ \A x \in T \ {t} : u.task[x] = s.task[x]
          /\ u.task[t].queue = s.task[t].queue
          /\ u.running = s.running /\ u.unkilled = s.unkilled
          /\ u.control = s.control
      BY <1>5, <2>1, <3>1, DestroyIs
    <3>3. t \in s.unkilled \/ s.running[t] = 0
      BY <2>1, <2>3 DEF WatchedOK, OrphansOK
    <3>4. CASE s.running[t] = 0
      BY <3>2, <3>4 DEF Destroyed, Others, SameTask, Posted
    <3>5. CASE t \in s.unkilled
      <4>1. u.unkilled = s.unkilled \cup {t}
        BY <3>2, <3>5
      <4> QED BY <3>2, <4>1 DEF Ended, Others, SameTask, Posted
    <3> QED BY <3>3, <3>4, <3>5
  <2>4. CASE f /= "kill" /\ s.task[t].state = "Running"
    <3>1. u = destroy_the_task(h, t)
      BY <2>4
    <3>2. NULL \in C \cup {NULL} /\ "Running" \in TaskStates
      BY DEF TaskStates
    <3>3. Halted(T, C, s, h, t, NULL, "Running")
      BY <1>5, <2>1, <2>4, <3>2, StopIs
    <3> HIDE DEF u, h
    <3>4. /\ Within(T, C, s, h, t) /\ h.running[t] = 0 /\ h.control = s.control
      BY <3>3 DEF Halted, Told, Reply
    <3>5. Live(h, t) /\ Distinct(h.tasks) /\ h \in SysOf(T, C)
      BY <1>5, <2>1, <3>4 DEF Within, Live
    <3>6. /\ u \in SysOf(T, C) /\ Alike(h, u)
          /\ ToSet(u.tasks) = ToSet(h.tasks) \ {t} /\ Distinct(u.tasks)
          /\ \A x \in T \ {t} : u.task[x] = h.task[x]
          /\ u.task[t].queue = h.task[t].queue
          /\ u.running = h.running /\ u.unkilled = h.unkilled
          /\ u.control = h.control
      BY <3>1, <3>5, DestroyIs
    <3>7. Alike(s, h) /\ h.tasks = s.tasks /\ h.unkilled = s.unkilled /\ Others(T, s, h, t) /\ Posted(s.task[t], h.task[t])
      BY <3>4 DEF Within
    <3>8. Alike(s, u)
      BY <3>6, <3>7 DEF Alike
    <3>9. Others(T, s, u, t)
      BY <3>6, <3>7 DEF Others
    <3>10. Posted(s.task[t], u.task[t])
      BY <3>6, <3>7 DEF Posted
    <3> QED BY <3>4, <3>6, <3>7, <3>8, <3>9, <3>10 DEF Destroyed
  <2> QED BY <2>2, <2>3, <2>4
<1> HIDE DEF Do, w
<1>6. CASE sys' = Do(sys, "none")
  BY <1>2, <1>5, <1>6
<1>7. CASE \E f : sys' = Do(w, f)
  BY <1>3, <1>5, <1>7
<1> QED BY <1>4, <1>6, <1>7

(* A step beside the task threads: an event of nobody's is queued at most.  *)
Posts(r, q) == q.queue = r.queue \/ \E ev \in Signals : q.queue = Append(r.queue, [ev |-> ev, from |-> NULL])

Aside(T, C, s, u) ==
  /\ u \in SysOf(T, C)
  /\ u.tasks = s.tasks /\ u.unkilled = s.unkilled /\ u.active = s.active /\ u.ending = s.ending
  /\ u.plan.tasks = s.plan.tasks
  /\ u.client = s.client /\ u.control = s.control /\ u.up = s.up /\ u.down = s.down
  /\ \A x \in T : /\ u.task[x].state = s.task[x].state /\ u.task[x].pid = s.task[x].pid
                  /\ u.task[x].required = s.task[x].required
                  /\ Posts(s.task[x], u.task[x]) /\ u.running[x] <= s.running[x]
                  /\ u.task[x].alarms = s.task[x].alarms \/ HasAlarm(u.task[x].queue)

(* A queue that has one event more, whosever it is.                         *)
Longer(C, r, q) == q.queue = r.queue \/ \E e \in EventRec(C) : q.queue = Append(r.queue, e)

LEMMA LongerKeeps ==
  ASSUME NEW C, NEW r \in TaskRec(C), NEW q \in TaskRec(C), Longer(C, r, q)
  PROVE  /\ HasAlarm(r.queue) => HasAlarm(q.queue)
         /\ r.queue /= << >> => q.queue /= << >> /\ q.queue[1] = r.queue[1]
<1>1. r.queue \in Seq(EventRec(C)) /\ q.queue \in Seq(EventRec(C))
  BY DEF TaskRec
<1>2. CASE q.queue = r.queue
  BY <1>2
<1>3. ASSUME NEW e \in EventRec(C), q.queue = Append(r.queue, e)
      PROVE  /\ HasAlarm(r.queue) => HasAlarm(q.queue)
             /\ r.queue /= << >> => q.queue /= << >> /\ q.queue[1] = r.queue[1]
  <2> DEFINE a == r.queue
             b == Append(a, e)
  <2> HIDE DEF a
  <2>2. a \in Seq(EventRec(C))
    BY <1>1 DEF a
  <2>3. /\ Len(b) = Len(a) + 1 /\ \A i \in 1 .. Len(a) : b[i] = a[i]
        /\ DOMAIN a = 1 .. Len(a) /\ DOMAIN b = 1 .. Len(a) + 1
    BY <2>2
  <2>4. HasAlarm(a) => HasAlarm(b)
    BY <2>2, <2>3 DEF HasAlarm
  <2>5. a /= << >> => b /= << >> /\ b[1] = a[1]
    BY <2>2, <2>3
  <2> QED BY <1>3, <2>4, <2>5 DEF a
<1> QED BY <1>2, <1>3 DEF Longer

Lengthened(T, C, s, u) ==
  /\ u \in SysOf(T, C)
  /\ u.tasks = s.tasks /\ u.unkilled = s.unkilled /\ u.active = s.active /\ u.ending = s.ending
  /\ u.plan.tasks = s.plan.tasks
  /\ \A x \in T : /\ u.task[x].state = s.task[x].state /\ u.task[x].pid = s.task[x].pid
                  /\ u.task[x].required = s.task[x].required
                  /\ Longer(C, s.task[x], u.task[x]) /\ u.running[x] <= s.running[x]
                  /\ u.task[x].alarms = s.task[x].alarms \/ HasAlarm(u.task[x].queue)

LEMMA LengthenedKeeps ==
  ASSUME NEW T, NEW C, NEW s, TasksOK(T, C, s), NEW u, Lengthened(T, C, s, u)
  PROVE  TasksOK(T, C, u)
<1>1. s \in SysOf(T, C) /\ u \in SysOf(T, C)
  BY DEF TasksOK, Lengthened
<1>2. \A x \in T : Live(u, x) <=> Live(s, x)
  BY DEF Lengthened, Live
<1>3. ASSUME NEW x \in T PROVE TaskOK(u, x)
  <2>1. s.task[x] \in TaskRec(C) /\ u.task[x] \in TaskRec(C) /\ s.running[x] \in Nat /\ u.running[x] \in Nat
    BY <1>1 DEF SysOf
  <2>2. /\ HasAlarm(s.task[x].queue) => HasAlarm(u.task[x].queue)
        /\ s.task[x].queue /= << >> => u.task[x].queue /= << >> /\ u.task[x].queue[1] = s.task[x].queue[1]
    BY <2>1, LongerKeeps DEF Lengthened
  <2>3. /\ u.task[x].state = s.task[x].state /\ u.task[x].pid = s.task[x].pid
        /\ u.running[x] <= s.running[x] /\ u.unkilled = s.unkilled
        /\ u.task[x].alarms = s.task[x].alarms \/ HasAlarm(u.task[x].queue)
    BY DEF Lengthened
  <2>4. TaskOK(s, x)
    BY DEF TasksOK
  <2>5. OrphansOK(u, x)
    BY <1>2, <2>1, <2>3, <2>4 DEF TaskOK, OrphansOK
  <2> QED BY <1>2, <2>2, <2>3, <2>4, <2>5 DEF TaskOK, NewOK, WatchedOK
<1>4. system_active(u) = system_active(s)
  BY <1>1, SystemActive DEF Lengthened
<1>5. ActiveOK(T, u)
  BY <1>4 DEF TasksOK, ActiveOK, Lengthened
<1>6. EndedOK(T, u)
  BY <1>2 DEF TasksOK, EndedOK, Lengthened
<1> QED BY <1>1, <1>3, <1>5, <1>6 DEF TasksOK, PlanOK, Lengthened

LEMMA AsideKeeps ==
  ASSUME NEW T, NEW C, NEW s, TasksOK(T, C, s), NEW u, Aside(T, C, s, u)
  PROVE  TasksOK(T, C, u)
<1>1. \A ev \in Signals : [ev |-> ev, from |-> NULL] \in EventRec(C)
  BY DEF EventRec
<1>2. \A x \in T : Longer(C, s.task[x], u.task[x])
  BY <1>1 DEF Aside, Posts, Longer
<1>3. Lengthened(T, C, s, u)
  BY <1>2 DEF Aside, Lengthened
<1> QED BY <1>3, LengthenedKeeps

LEMMA AlarmIs ==
  ASSUME NEW T, NEW C, sys \in SysOf(T, C), NEW t \in T, Alarm(t)
  PROVE  Aside(T, C, sys, sys')
<1> DEFINE n == sys.task[t].alarms - 1
           r == [sys.task[t] EXCEPT !.alarms = n]
           s == [sys EXCEPT !.task[t].alarms = @ - 1]
           u == Post(s, t, "Alarm")
           e == [ev |-> "Alarm", from |-> NULL]
<1>1. sys.task[t] \in TaskRec(C) /\ sys.running \in [T -> Nat]
  BY DEF SysOf
<1>2. n \in Nat
  BY <1>1 DEF Alarm, TaskRec
<1>3. s = [sys EXCEPT !.task = [@ EXCEPT ![t] = r]]
  OBVIOUS
<1>4. sys' = u
  BY DEF Alarm
<1> HIDE DEF n, s, u
<1>5. /\ r \in TaskRec(C) /\ r.state = sys.task[t].state /\ r.pid = sys.task[t].pid
      /\ r.required = sys.task[t].required /\ r.queue = sys.task[t].queue
  BY <1>1, <1>2, TaskRecord
<1> HIDE DEF r
<1>6. /\ Within(T, C, sys, s, t) /\ Silent(T, sys, s)
      /\ s.task[t] = r
      /\ s.running = sys.running /\ s.control = sys.control /\ s.active = sys.active
  BY <1>3, <1>5, OwnRecord
<1>7. s \in SysOf(T, C) /\ Alike(sys, s) /\ s.tasks = sys.tasks /\ s.unkilled = sys.unkilled
  BY <1>6 DEF Within
<1>8. /\ u \in SysOf(T, C)
      /\ TaskOnly(s, u)
      /\ u.task[t] = [s.task[t] EXCEPT !.queue = Append(@, e)]
      /\ \A x \in T \ {t} : u.task[x] = s.task[x]
  <2>1. "Alarm" \in Signals
    BY DEF Signals
  <2> QED BY <1>7, <2>1, Posting DEF u
<1>9. /\ Alike(s, u) /\ u.tasks = s.tasks /\ u.running = s.running
      /\ u.unkilled = s.unkilled /\ u.active = s.active /\ u.control = s.control
  BY <1>7, <1>8, TaskFields
<1>10. SameTask(u.task[t], r) /\ u.task[t].queue = Append(sys.task[t].queue, e)
  <2> DEFINE v == Append(sys.task[t].queue, e)
             q == [r EXCEPT !.queue = v]
  <2>1. u.task[t] = q
    BY <1>5, <1>6, <1>8
  <2> HIDE DEF v
  <2>2. SameTask(q, r) /\ q.queue = v
    BY <1>5, QueueRecord
  <2> HIDE DEF q
  <2> QED BY <2>1, <2>2 DEF v
<1>11. HasAlarm(u.task[t].queue)
  <2>1. sys.task[t].queue \in Seq(EventRec(C))
    BY <1>1 DEF TaskRec
  <2>2. e \in EventRec(C) /\ e.ev = "Alarm"
    BY DEF EventRec, Signals
  <2> DEFINE a == sys.task[t].queue
             b == Append(a, e)
  <2> HIDE DEF a, e
  <2>3. Len(a) + 1 \in DOMAIN b /\ b[Len(a) + 1] = e
    BY <2>1, <2>2 DEF a
  <2> QED BY <1>10, <2>2, <2>3 DEF HasAlarm, a
<1>12. "Alarm" \in Signals
  BY DEF Signals
<1>13. ASSUME NEW x \in T
       PROVE  /\ u.task[x].state = sys.task[x].state /\ u.task[x].pid = sys.task[x].pid
              /\ u.task[x].required = sys.task[x].required
              /\ Posts(sys.task[x], u.task[x]) /\ u.running[x] <= sys.running[x]
              /\ u.task[x].alarms = sys.task[x].alarms \/ HasAlarm(u.task[x].queue)
  <2>1. u.running[x] <= sys.running[x]
    BY <1>1, <1>6, <1>9
  <2>2. CASE x = t
    BY <1>5, <1>10, <1>11, <1>12, <2>1, <2>2 DEF SameTask, Posts
  <2>3. CASE x /= t
    BY <1>6, <1>8, <2>1, <2>3 DEF Within, Others, SameTask, Silent, Posts
  <2> QED BY <2>2, <2>3
<1> QED BY <1>4, <1>6, <1>7, <1>8, <1>9, <1>13 DEF Aside, Alike

LEMMA ProcessEndsIs ==
  ASSUME NEW T, NEW C, sys \in SysOf(T, C), NEW t \in T, ProcessEnds(t)
  PROVE  Aside(T, C, sys, sys')
<1> DEFINE n == sys.plan.ends - 1
           p == [sys.plan EXCEPT !.ends = n]
           k == sys.running[t] - 1
           g == [sys.running EXCEPT ![t] = k]
           u == sys'
<1>1. sys.plan \in PlanRec(T, C) /\ sys.running \in [T -> Nat]
  BY DEF SysOf
<1>2. n \in Int /\ k \in Nat /\ k <= sys.running[t]
  BY <1>1 DEF ProcessEnds, PlanRec
<1>3. u = [sys EXCEPT !.running = g, !.plan = p]
  BY DEF ProcessEnds
<1> HIDE DEF n, k, u
<1>4. p \in PlanRec(T, C) /\ p.tasks = sys.plan.tasks
  BY <1>1, <1>2 DEF PlanRec
<1>5. g \in [T -> Nat] /\ \A x \in T : g[x] <= sys.running[x]
  BY <1>1, <1>2
<1> HIDE DEF p, g
<1>6. u \in SysOf(T, C) /\ u.plan = p /\ u.running = g
  BY <1>3, <1>4, <1>5 DEF SysOf
<1>7. /\ u.tasks = sys.tasks /\ u.unkilled = sys.unkilled /\ u.active = sys.active /\ u.ending = sys.ending
      /\ u.client = sys.client /\ u.control = sys.control /\ u.up = sys.up /\ u.down = sys.down
      /\ u.task = sys.task
  BY <1>3
<1> QED BY <1>4, <1>5, <1>6, <1>7 DEF Aside, Posts, u

(* The slots of a task: its own record, but for a word to the task.         *)
LEMMA Slotted ==
  ASSUME NEW T, NEW C, NEW s \in SysOf(T, C), NEW t \in T, NEW y \in SlotRec
  PROVE  LET u == [s EXCEPT !.task[t].slot = y]
         IN  Aside(T, C, s, u) /\ u.task[t].slot = y
<1> DEFINE r == [s.task[t] EXCEPT !.slot = y]
           u == [s EXCEPT !.task[t].slot = y]
<1>1. s.task[t] \in TaskRec(C) /\ s.running \in [T -> Nat]
  BY DEF SysOf
<1>2. /\ r \in TaskRec(C) /\ r.state = s.task[t].state /\ r.pid = s.task[t].pid
      /\ r.required = s.task[t].required /\ r.alarms = s.task[t].alarms /\ r.queue = s.task[t].queue
      /\ r.slot = y
  BY <1>1 DEF TaskRec
<1>3. u = [s EXCEPT !.task = [@ EXCEPT ![t] = r]]
  OBVIOUS
<1> HIDE DEF r, u
<1>4. /\ Within(T, C, s, u, t) /\ Silent(T, s, u) /\ u.task[t] = r
      /\ u.running = s.running /\ u.control = s.control /\ u.active = s.active
  BY <1>2, <1>3, OwnRecord
<1>5. /\ u \in SysOf(T, C) /\ Alike(s, u) /\ u.tasks = s.tasks /\ u.unkilled = s.unkilled
      /\ Others(T, s, u, t)
  BY <1>4 DEF Within
<1>6. ASSUME NEW x \in T
      PROVE  /\ u.task[x].state = s.task[x].state /\ u.task[x].pid = s.task[x].pid
             /\ u.task[x].required = s.task[x].required
             /\ Posts(s.task[x], u.task[x]) /\ u.running[x] <= s.running[x]
             /\ u.task[x].alarms = s.task[x].alarms \/ HasAlarm(u.task[x].queue)
  <2>1. u.running[x] <= s.running[x] /\ u.task[x].queue = s.task[x].queue
    BY <1>1, <1>4 DEF Silent
  <2> QED BY <1>2, <1>4, <1>5, <2>1 DEF Others, SameTask, Posts
<1> QED BY <1>2, <1>4, <1>5, <1>6 DEF Aside, Alike, u

LEMMA Telling ==
  ASSUME NEW T, NEW C, NEW s \in SysOf(T, C), NEW t \in T, NEW y \in SlotRec, NEW ev \in Signals
  PROVE  Aside(T, C, s, Post([s EXCEPT !.task[t].slot = y], t, ev))
<1> DEFINE v == [s EXCEPT !.task[t].slot = y]
           r == [s.task[t] EXCEPT !.slot = y]
           u == Post(v, t, ev)
           e == [ev |-> ev, from |-> NULL]
<1>1. s.task[t] \in TaskRec(C) /\ s.running \in [T -> Nat]
  BY DEF SysOf
<1>2. /\ r \in TaskRec(C) /\ r.state = s.task[t].state /\ r.pid = s.task[t].pid
      /\ r.required = s.task[t].required /\ r.alarms = s.task[t].alarms /\ r.queue = s.task[t].queue
  BY <1>1 DEF TaskRec
<1>3. v = [s EXCEPT !.task = [@ EXCEPT ![t] = r]]
  OBVIOUS
<1> HIDE DEF r, u, v
<1>4. /\ Within(T, C, s, v, t) /\ Silent(T, s, v) /\ v.task[t] = r
      /\ v.running = s.running /\ v.control = s.control /\ v.active = s.active
  BY <1>2, <1>3, OwnRecord
<1>5. /\ v \in SysOf(T, C) /\ Alike(s, v) /\ v.tasks = s.tasks /\ v.unkilled = s.unkilled
      /\ Others(T, s, v, t)
  BY <1>4 DEF Within
<1>6. /\ u \in SysOf(T, C)
      /\ TaskOnly(v, u)
      /\ u.task[t] = [v.task[t] EXCEPT !.queue = Append(@, e)]
      /\ \A x \in T \ {t} : u.task[x] = v.task[x]
  BY <1>5, Posting DEF u
<1>7. /\ Alike(v, u) /\ u.tasks = v.tasks /\ u.running = v.running
      /\ u.unkilled = v.unkilled /\ u.active = v.active /\ u.control = v.control
  BY <1>5, <1>6, TaskFields
<1>8. SameTask(u.task[t], r) /\ u.task[t].queue = Append(s.task[t].queue, e)
  <2> DEFINE z == Append(s.task[t].queue, e)
             q == [r EXCEPT !.queue = z]
  <2>1. u.task[t] = q
    BY <1>2, <1>4, <1>6
  <2> HIDE DEF z
  <2>2. SameTask(q, r) /\ q.queue = z
    BY <1>2, QueueRecord
  <2> HIDE DEF q
  <2> QED BY <2>1, <2>2 DEF z
<1>9. ASSUME NEW x \in T
      PROVE  /\ u.task[x].state = s.task[x].state /\ u.task[x].pid = s.task[x].pid
             /\ u.task[x].required = s.task[x].required
             /\ Posts(s.task[x], u.task[x]) /\ u.running[x] <= s.running[x]
             /\ u.task[x].alarms = s.task[x].alarms \/ HasAlarm(u.task[x].queue)
  <2>1. u.running[x] <= s.running[x]
    BY <1>1, <1>4, <1>7
  <2>2. CASE x = t
    BY <1>2, <1>8, <2>1, <2>2 DEF SameTask, Posts
  <2>3. CASE x /= t
    <3>1. u.task[x] = v.task[x] /\ SameTask(v.task[x], s.task[x]) /\ v.task[x].queue = s.task[x].queue
      BY <1>4, <1>5, <1>6, <2>3 DEF Others, Silent
    <3> QED BY <2>1, <3>1 DEF SameTask, Posts
  <2> QED BY <2>2, <2>3
<1> QED BY <1>4, <1>5, <1>6, <1>7, <1>9 DEF Aside, Alike, u, v

LEMMA SlotStepIs ==
  ASSUME NEW T, NEW C, NEW s \in SysOf(T, C), NEW t \in T, NEW ev \in {"Specify", "Off", "On"}
  PROVE  Aside(T, C, s, SlotStep(s, t, ev))
<1> DEFINE slot == s.task[t].slot
           Put0(state) == [slot EXCEPT !.state = state, !.ticks = @ + 1]
           To(state) == [s EXCEPT !.task[t].slot.state = state, !.task[t].slot.ticks = @ + 1]
           u == SlotStep(s, t, ev)
<1>0. s.task[t] \in TaskRec(C) /\ s.task \in [T -> TaskRec(C)]
  BY DEF SysOf
<1>1. slot \in SlotRec
  BY <1>0 DEF TaskRec
<1>2. ASSUME NEW state \in {"Off", "On"}
      PROVE  Put0(state) \in SlotRec /\ To(state) = [s EXCEPT !.task[t].slot = Put0(state)]
  <2>1. Put0(state) \in SlotRec
    <3> DEFINE n == slot.ticks + 1
    <3>1. n \in Int /\ state \in {"Expect", "Off", "On"}
      BY <1>1 DEF SlotRec
    <3> HIDE DEF n
    <3>2. [slot EXCEPT !.state = state, !.ticks = n] \in SlotRec
      BY <1>1, <3>1 DEF SlotRec
    <3> QED BY <3>2 DEF n
  <2> DEFINE a == [s EXCEPT !.task[t].slot.state = state]
             r == [s.task[t] EXCEPT !.slot = [slot EXCEPT !.state = state]]
             q == [s.task[t] EXCEPT !.slot = Put0(state)]
  <2>2. To(state) = [a EXCEPT !.task[t].slot.ticks = @ + 1]
    OBVIOUS
  <2>3. a = [s EXCEPT !.task = [@ EXCEPT ![t] = r]]
    OBVIOUS
  <2>4. r.slot = [slot EXCEPT !.state = state]
    BY <1>0 DEF TaskRec
  <2>5. q = [r EXCEPT !.slot = Put0(state)]
    BY <1>0 DEF TaskRec
  <2>6. [r.slot EXCEPT !.ticks = @ + 1] = Put0(state)
    BY <1>1, <2>4 DEF SlotRec
  <2>7. a.task = [s.task EXCEPT ![t] = r]
    BY <2>3 DEF SysOf
  <2> HIDE DEF To, r, a, q, Put0
  <2>8. a.task[t] = r
    BY <1>0, <2>7
  <2>9. To(state) = [a EXCEPT !.task = [@ EXCEPT ![t] = [r EXCEPT !.slot = [r.slot EXCEPT !.ticks = @ + 1]]]]
    BY <2>2, <2>8
  <2>10. To(state) = [a EXCEPT !.task = [@ EXCEPT ![t] = q]]
    BY <2>5, <2>6, <2>9
  <2>11. [a.task EXCEPT ![t] = q] = [s.task EXCEPT ![t] = q]
    BY <1>0, <2>7
  <2>12. To(state) = [s EXCEPT !.task = [@ EXCEPT ![t] = q]]
    <3> DEFINE f == [s.task EXCEPT ![t] = q]
    <3>1. To(state) = [a EXCEPT !.task = f]
      BY <2>10, <2>11
    <3> HIDE DEF f
    <3>2. [a EXCEPT !.task = f] = [s EXCEPT !.task = f]
      BY <2>3 DEF SysOf
    <3> QED BY <3>1, <3>2 DEF f
  <2> QED BY <2>1, <2>12 DEF q
<1>3. CASE ev = "Specify"
  <2> DEFINE y == [slot EXCEPT !.state = "Expect", !.reply_to = TRUE]
  <2>1. y \in SlotRec
    BY <1>1 DEF SlotRec
  <2>2. u = [s EXCEPT !.task[t].slot.state = "Expect", !.task[t].slot.reply_to = TRUE]
    BY <1>3 DEF SlotStep
  <2>3. u = [s EXCEPT !.task[t].slot = y]
    <3> DEFINE a == [s EXCEPT !.task[t].slot.state = "Expect"]
               r == [s.task[t] EXCEPT !.slot = [slot EXCEPT !.state = "Expect"]]
               q == [s.task[t] EXCEPT !.slot = y]
    <3>2. u = [a EXCEPT !.task[t].slot.reply_to = TRUE]
      BY <2>2
    <3>3. a = [s EXCEPT !.task = [@ EXCEPT ![t] = r]]
      OBVIOUS
    <3>4. r.slot = [slot EXCEPT !.state = "Expect"]
      BY <1>0 DEF TaskRec
    <3>5. q = [r EXCEPT !.slot = y]
      BY <1>0 DEF TaskRec
    <3>6. [r.slot EXCEPT !.reply_to = TRUE] = y
      BY <1>1, <3>4 DEF SlotRec
    <3>7. a.task = [s.task EXCEPT ![t] = r]
      BY <3>3 DEF SysOf
    <3> HIDE DEF u, r, a, q, y
    <3>8. a.task[t] = r
      BY <1>0, <3>7
    <3>9. u = [a EXCEPT !.task = [@ EXCEPT ![t] = [r EXCEPT !.slot = [r.slot EXCEPT !.reply_to = TRUE]]]]
      BY <3>2, <3>8
    <3>10. u = [a EXCEPT !.task = [@ EXCEPT ![t] = q]]
      BY <3>5, <3>6, <3>9
    <3>11. [a.task EXCEPT ![t] = q] = [s.task EXCEPT ![t] = q]
      BY <1>0, <3>7
    <3>12. u = [s EXCEPT !.task = [@ EXCEPT ![t] = q]]
      <4> DEFINE f == [s.task EXCEPT ![t] = q]
      <4>1. u = [a EXCEPT !.task = f]
        BY <3>10, <3>11
      <4> HIDE DEF f
      <4>2. [a EXCEPT !.task = f] = [s EXCEPT !.task = f]
        BY <3>3 DEF SysOf
      <4> QED BY <4>1, <4>2 DEF f
    <3> QED BY <3>12 DEF q
  <2> HIDE DEF y, u
  <2>4. Aside(T, C, s, u)
    BY <2>1, <2>3, Slotted
  <2> QED BY <2>4 DEF u
<1>4. ASSUME NEW state \in {"Off", "On"}, u = To(state)
      PROVE  Aside(T, C, s, u)
  <2>1. Put0(state) \in SlotRec /\ u = [s EXCEPT !.task[t].slot = Put0(state)]
    BY <1>2, <1>4
  <2> HIDE DEF u, Put0
  <2> QED BY <2>1, Slotted
<1>5. ASSUME NEW state \in {"Off", "On"}, NEW what \in Signals, u = Post(To(state), t, what)
      PROVE  Aside(T, C, s, u)
  <2>1. Put0(state) \in SlotRec /\ u = Post([s EXCEPT !.task[t].slot = Put0(state)], t, what)
    BY <1>2, <1>5
  <2> HIDE DEF u, Put0
  <2> QED BY <2>1, Telling
<1>6. "Pause-Auto" \in Signals /\ "Start-Auto" \in Signals
  BY DEF Signals
<1>7. CASE ev = "Off"
  <2>1. u = To("Off") \/ u = Post(To("Off"), t, "Pause-Auto")
    BY <1>7 DEF SlotStep
  <2> HIDE DEF u, To
  <2> QED BY <1>4, <1>5, <1>6, <2>1 DEF u
<1>8. CASE ev = "On"
  <2>1. u = To("On") \/ u = Post(To("On"), t, "Start-Auto")
    BY <1>8 DEF SlotStep
  <2> HIDE DEF u, To
  <2> QED BY <1>4, <1>5, <1>6, <2>1 DEF u
<1> QED BY <1>3, <1>7, <1>8

LEMMA SlotEventIs ==
  ASSUME NEW T, NEW C, sys \in SysOf(T, C), NEW t \in T, SlotEvent(t)
  PROVE  \E s \in SysOf(T, C) : Aside(T, C, sys, s) /\ Aside(T, C, s, sys')
<1> DEFINE slot == sys.task[t].slot
           p == Tail(slot.inbox)
           y == [slot EXCEPT !.inbox = p]
           s == [sys EXCEPT !.task[t].slot.inbox = Tail(@)]
           ev == slot.inbox[1]
<1>1. sys.task[t] \in TaskRec(C)
  BY DEF SysOf
<1>2. slot \in SlotRec
  BY <1>1 DEF TaskRec
<1>3. slot.inbox \in Seq(Words) /\ slot.inbox /= << >>
  BY <1>2 DEF SlotRec, SlotEvent
<1>4. p \in Seq(Words) /\ ev \in {"Specify", "Off", "On"}
  BY <1>3 DEF Words
<1>5. s = [sys EXCEPT !.task[t].slot = y]
  OBVIOUS
<1>6. sys' = SlotStep(s, t, ev)
  BY DEF SlotEvent
<1>7. y \in SlotRec
  <2> HIDE DEF p, slot
  <2> QED BY <1>2, <1>4 DEF SlotRec
<1> HIDE DEF y, s, ev
<1>8. Aside(T, C, sys, s)
  BY <1>5, <1>7, Slotted
<1>9. s \in SysOf(T, C)
  BY <1>8 DEF Aside
<1>11. Aside(T, C, s, sys')
  BY <1>4, <1>6, <1>9, SlotStepIs
<1> QED BY <1>8, <1>9, <1>11

LEMMA TickIs ==
  ASSUME NEW T, NEW C, sys \in SysOf(T, C), NEW t \in T, NEW filled \in BOOLEAN, Tick(t, filled)
  PROVE  \E a, s \in SysOf(T, C) : Aside(T, C, sys, a) /\ Aside(T, C, a, s) /\ Aside(T, C, s, sys')
<1> DEFINE slot == sys.task[t].slot
           n == sys.plan.looks - 1
           p == [sys.plan EXCEPT !.looks = n]
           m == slot.ticks - 1
           y == [slot EXCEPT !.ticks = m]
           a == [sys EXCEPT !.plan = p]
           s == [sys EXCEPT !.plan.looks = @ - 1, !.task[t].slot.ticks = @ - 1]
           ev == IF filled THEN "On" ELSE "Off"
<1>1. sys.task[t] \in TaskRec(C) /\ sys.plan \in PlanRec(T, C) /\ sys.running \in [T -> Nat]
  BY DEF SysOf
<1>2. slot \in SlotRec
  BY <1>1 DEF TaskRec
<1>3. n \in Int /\ m \in Int
  BY <1>1, <1>2 DEF SlotRec, PlanRec
<1>4. ev \in {"Specify", "Off", "On"}
  OBVIOUS
<1>5. s = [a EXCEPT !.task[t].slot = y]
  BY DEF SysOf
<1>6. sys' = SlotStep(s, t, ev)
  BY DEF Tick
<1> HIDE DEF n, m
<1>7. y \in SlotRec
  <2> HIDE DEF slot
  <2> QED BY <1>2, <1>3 DEF SlotRec
<1>8. p \in PlanRec(T, C) /\ p.tasks = sys.plan.tasks
  BY <1>1, <1>3 DEF PlanRec
<1> HIDE DEF p, y, s, ev
<1>9. a \in SysOf(T, C) /\ a.plan = p
  BY <1>8 DEF SysOf
<1>10. Aside(T, C, sys, a)
  <2>1. /\ a.tasks = sys.tasks /\ a.unkilled = sys.unkilled /\ a.active = sys.active /\ a.ending = sys.ending
        /\ a.client = sys.client /\ a.control = sys.control /\ a.up = sys.up /\ a.down = sys.down
        /\ a.task = sys.task /\ a.running = sys.running
    OBVIOUS
  <2> HIDE DEF a
  <2> QED BY <1>1, <1>8, <1>9, <2>1 DEF Aside, Posts
<1> HIDE DEF a
<1>11. Aside(T, C, a, s)
  BY <1>5, <1>7, <1>9, Slotted
<1>12. s \in SysOf(T, C)
  BY <1>11 DEF Aside
<1>13. Aside(T, C, s, sys')
  BY <1>4, <1>6, <1>12, SlotStepIs
<1> QED BY <1>9, <1>10, <1>11, <1>12, <1>13

-----------------------------------------------------------------------------
(* What a step may do to a client and control thread it is not of.          *)
Unique(s, t, c) == \A i, j \in AsksAt(s, t, c) : i = j
Lost(s, t)      == ~Live(s, t) \/ t \in s.unkilled

Kept(T, s, u, c) ==
  /\ u.client[c] = s.client[c] /\ u.control[c] = s.control[c] /\ u.up[c] = s.up[c] /\ u.down[c] = s.down[c]
  /\ \A x \in T : /\ AsksAt(s, x, c) = {} => AsksAt(u, x, c) = {}
                  /\ Unique(s, x, c) => Unique(u, x, c)
  /\ s.control[c].state = "Waiting" /\ s.control[c].asked \in T =>
       LET x == s.control[c].asked
       IN  Lost(u, x) \/ (~Lost(s, x) /\ (AsksAt(s, x, c) /= {} => AsksAt(u, x, c) /= {}))

LEMMA KeptIs ==
  ASSUME NEW T, NEW C, NEW s \in SysOf(T, C), NEW u, NEW c \in C, ClientOK(T, s, c), Kept(T, s, u, c)
  PROVE  ClientOK(T, u, c)
<1>1. u.client[c] = s.client[c] /\ u.control[c] = s.control[c] /\ u.up[c] = s.up[c] /\ u.down[c] = s.down[c]
  BY DEF Kept
<1>2. DialogOK(u, c)
  BY <1>1 DEF ClientOK, DialogOK
<1>3. s.control[c].state = "Waiting" => s.control[c].asked \in T
  <2>1. s.control[c] \in ControlRec(T)
    BY DEF SysOf
  <2> QED BY <2>1 DEF ControlRec, ClientOK, WaitsOK
<1>4. WaitsOK(u, c)
  BY <1>1, <1>3 DEF ClientOK, WaitsOK, Kept, Lost
<1>5. NoneAsked(T, s, c) => NoneAsked(T, u, c)
  BY DEF Kept, NoneAsked
<1>6. Follows(s, c) /\ PendingOK(T, s, c) => PendingOK(T, u, c)
  <2> SUFFICES ASSUME PendingOK(T, s, c) PROVE PendingOK(T, u, c)
    OBVIOUS
  <2> DEFINE k == s.control[c]
  <2>1. CASE k.state = "Waiting"
    <3>1. (\A x \in T \ {k.asked} : AsksAt(u, x, c) = {}) /\ Unique(u, k.asked, c)
      BY <1>3, <2>1 DEF PendingOK, Kept, Unique
    <3> QED BY <1>1, <1>5, <2>1, <3>1 DEF PendingOK, Unique
  <2>2. CASE k.state /= "Waiting"
    BY <1>1, <1>5, <2>2 DEF PendingOK
  <2> QED BY <2>1, <2>2
<1> QED BY <1>1, <1>2, <1>4, <1>6 DEF ClientOK, Follows

LEMMA PostsAsks ==
  ASSUME NEW T, NEW C, NULL \notin C, NEW s \in SysOf(T, C), NEW u \in SysOf(T, C), NEW x \in T, NEW c \in C,
         Posts(s.task[x], u.task[x])
  PROVE  AsksAt(u, x, c) = AsksAt(s, x, c)
<1> DEFINE q == s.task[x].queue
<1>1. q \in Seq(EventRec(C)) /\ c /= NULL
  <2>1. s.task[x] \in TaskRec(C)
    BY DEF SysOf
  <2> QED BY <2>1 DEF TaskRec
<1>2. CASE u.task[x].queue = q
  BY <1>2 DEF AsksAt
<1>3. ASSUME NEW ev \in Signals, u.task[x].queue = Append(q, [ev |-> ev, from |-> NULL])
      PROVE  AsksAt(u, x, c) = AsksAt(s, x, c)
  <2> DEFINE e == [ev |-> ev, from |-> NULL]
             b == Append(q, e)
  <2>1. e.from = NULL
    OBVIOUS
  <2>2. u.task[x].queue = b
    BY <1>3
  <2> HIDE DEF e, q
  <2>3. DOMAIN q = 1 .. Len(q) /\ Len(q) \in Nat /\ DOMAIN b = 1 .. Len(q) + 1
        /\ b[Len(q) + 1] = e /\ \A i \in 1 .. Len(q) : b[i] = q[i]
    BY <1>1
  <2> HIDE DEF b
  <2>4. {i \in DOMAIN b : b[i].from = c} = {i \in DOMAIN q : q[i].from = c}
    BY <1>1, <2>1, <2>3
  <2> QED BY <2>2, <2>4 DEF AsksAt, q
<1> QED BY <1>2, <1>3 DEF Posts

LEMMA PostedPosts ==
  ASSUME NEW r, NEW q, Posted(r, q)
  PROVE  Posts(r, q)
<1>1. "Stop-Force" \in Signals
  BY DEF Signals
<1> QED BY <1>1 DEF Posted, Posts, StopForce

(* The event that a task takes from its queue.                              *)
LEMMA TailAsks ==
  ASSUME NEW T, NEW C, NEW s \in SysOf(T, C), NEW u \in SysOf(T, C), NEW x \in T, NEW c \in C,
         s.task[x].queue /= << >>, u.task[x].queue = Tail(s.task[x].queue)
  PROVE  /\ AsksAt(s, x, c) = {} => AsksAt(u, x, c) = {}
         /\ Unique(s, x, c) => Unique(u, x, c)
         /\ s.task[x].queue[1].from /= c /\ AsksAt(s, x, c) /= {} => AsksAt(u, x, c) /= {}
         /\ s.task[x].queue[1].from = c => AsksAt(s, x, c) /= {} /\ (Unique(s, x, c) => AsksAt(u, x, c) = {})
<1> DEFINE q == s.task[x].queue
           r == u.task[x].queue
           A == AsksAt(s, x, c)
           B == AsksAt(u, x, c)
<1>1. q \in Seq(EventRec(C)) /\ q /= << >> /\ r = Tail(q)
  <2>1. s.task[x] \in TaskRec(C)
    BY DEF SysOf
  <2> QED BY <2>1 DEF TaskRec
<1>2. A = {i \in DOMAIN q : q[i].from = c} /\ B = {i \in DOMAIN r : r[i].from = c}
  BY DEF AsksAt
<1>3. /\ Len(q) \in Nat /\ Len(q) > 0 /\ DOMAIN q = 1 .. Len(q) /\ DOMAIN r = 1 .. Len(q) - 1
      /\ \A i \in 1 .. Len(q) - 1 : r[i] = q[i + 1]
  BY <1>1
<1> HIDE DEF q, r, A, B
<1>4. \A i \in B : i \in Nat /\ i > 0 /\ i + 1 \in A
  BY <1>2, <1>3
<1>5. \A i \in A : i \in Nat /\ i > 0 /\ (i /= 1 => i - 1 \in B)
  BY <1>2, <1>3
<1>6. 1 \in A <=> q[1].from = c
  BY <1>2, <1>3
<1>7. A = {} => B = {}
  BY <1>4
<1>8. (\A i, j \in A : i = j) => (\A i, j \in B : i = j)
  BY <1>4
<1>9. q[1].from /= c /\ A /= {} => B /= {}
  BY <1>5, <1>6
<1>10. q[1].from = c => A /= {} /\ ((\A i, j \in A : i = j) => B = {})
  <2> SUFFICES ASSUME q[1].from = c, \A i, j \in A : i = j, NEW b \in B PROVE FALSE
    BY <1>6
  <2> QED BY <1>4, <1>6
<1> QED BY <1>7, <1>8, <1>9, <1>10 DEF A, B, q, Unique

LEMMA AsideKept ==
  ASSUME NEW T, NEW C, NULL \notin C, NEW s \in SysOf(T, C), NEW u, Aside(T, C, s, u), NEW c \in C
  PROVE  Kept(T, s, u, c)
<1>1. \A x \in T : AsksAt(u, x, c) = AsksAt(s, x, c)
  BY PostsAsks DEF Aside
<1>2. \A x : Lost(u, x) <=> Lost(s, x)
  BY DEF Aside, Lost, Live
<1> QED BY <1>1, <1>2 DEF Kept, Aside, Unique

LEMMA BesideKeeps ==
  ASSUME NEW T, NEW C, NULL \notin C, NEW s, ManagerOK(T, C, s), NEW u, Aside(T, C, s, u)
  PROVE  ManagerOK(T, C, u)
<1>1. TasksOK(T, C, s) /\ s \in SysOf(T, C)
  BY DEF ManagerOK, TasksOK
<1>2. TasksOK(T, C, u)
  BY <1>1, AsideKeeps
<1>3. ASSUME NEW c \in C PROVE ClientOK(T, u, c)
  <2>1. Kept(T, s, u, c)
    BY <1>1, AsideKept
  <2> QED BY <1>1, <2>1, KeptIs DEF ManagerOK
<1> QED BY <1>2, <1>3 DEF ManagerOK

LEMMA ShutdownKeeps ==
  ASSUME NEW T, NEW C, NULL \notin C, ManagerOK(T, C, sys), NEW t \in T, TaskShutdown(t)
  PROVE  ManagerOK(T, C, sys')
<1>1. TasksOK(T, C, sys) /\ sys \in SysOf(T, C)
  BY DEF ManagerOK, TasksOK
<1>2. PICK s \in SysOf(T, C) :
           /\ TasksOK(T, C, s) /\ s.ending /\ Live(s, t)
           /\ s.client = sys.client /\ s.control = sys.control /\ s.up = sys.up /\ s.down = sys.down
           /\ SameTasks(sys, s)
           /\ Ended(T, C, s, sys', t) \/ Destroyed(T, C, s, sys', t)
  BY <1>1, TaskShutdownIs
<1> DEFINE u == sys'
<1>3. TasksOK(T, C, u)
  BY <1>2, ThreadGone
<1>4. ASSUME NEW c \in C PROVE ClientOK(T, u, c)
  <2>1. /\ u \in SysOf(T, C) /\ Alike(s, u) /\ u.control = s.control /\ s.unkilled \subseteq u.unkilled
        /\ ToSet(u.tasks) \subseteq ToSet(s.tasks)
        /\ \A x \in T : Posted(s.task[x], u.task[x])
    BY <1>2 DEF Ended, Destroyed, Others
  <2> HIDE DEF u
  <2>2. \A x \in T : AsksAt(u, x, c) = AsksAt(s, x, c)
    BY <1>2, <2>1, PostsAsks, PostedPosts
  <2>3. \A x \in T : AsksAt(s, x, c) = AsksAt(sys, x, c)
    BY <1>2 DEF AsksAt, SameTasks
  <2>4. \A x \in T : Lost(sys, x) => Lost(u, x)
    BY <1>2, <2>1 DEF Lost, Live, SameTasks
  <2>5. Kept(T, sys, u, c)
    BY <1>2, <2>1, <2>2, <2>3, <2>4 DEF Kept, Alike, Unique
  <2> QED BY <1>1, <2>5, KeptIs DEF ManagerOK
<1> QED BY <1>3, <1>4 DEF ManagerOK

(* What a reply changes.                                                    *)
LEMMA ReplyIs ==
  ASSUME NEW T, NEW C, NEW s \in SysOf(T, C), NEW c \in C, c /= NULL, NEW kind, NEW t
  PROVE  LET k == Reply(s, c, kind, t).control
         IN  /\ \A d \in C \ {c} : k[d] = s.control[d]
             /\ s.control[c].state = "Gone" => k[c] = s.control[c]
             /\ s.control[c].state /= "Gone" =>
                  /\ k[c].state = s.control[c].state /\ k[c].asked = s.control[c].asked
                  /\ k[c].command = s.control[c].command
                  /\ k[c].inbox = Append(s.control[c].inbox, [kind |-> kind, of |-> t])
<1> DEFINE k == Reply(s, c, kind, t).control
<1>1. s.control \in [C -> ControlRec(T)] /\ s.control[c] \in ControlRec(T)
  BY DEF SysOf
<1>2. CASE s.control[c].state = "Gone"
  BY <1>2 DEF Reply
<1>3. CASE s.control[c].state /= "Gone"
  <2> DEFINE m == [kind |-> kind, of |-> t]
             v == Append(s.control[c].inbox, m)
             r == [s.control[c] EXCEPT !.inbox = v]
  <2>1. k = [s.control EXCEPT ![c] = r]
    BY <1>3 DEF Reply, SysOf
  <2> HIDE DEF v, k
  <2>2. r.state = s.control[c].state /\ r.asked = s.control[c].asked /\ r.command = s.control[c].command /\ r.inbox = v
    BY <1>1 DEF ControlRec
  <2> HIDE DEF r
  <2>3. k[c] = r /\ \A d \in C \ {c} : k[d] = s.control[d]
    BY <1>1, <2>1
  <2> QED BY <1>3, <2>2, <2>3 DEF v, k
<1> QED BY <1>2, <1>3

LEMMA EventKeeps ==
  ASSUME NEW T, NEW C, NULL \notin C, ManagerOK(T, C, sys), NEW t \in T, TaskEvent(t)
  PROVE  ManagerOK(T, C, sys')
<1> DEFINE e == sys.task[t].queue[1]
           u == sys'
<1>1. TasksOK(T, C, sys) /\ sys \in SysOf(T, C) /\ \A c \in C : ClientOK(T, sys, c)
  BY DEF ManagerOK, TasksOK
<1>2. /\ TasksOK(T, C, u)
      /\ sys.task[t].queue /= << >> /\ e \in EventRec(C)
      /\ \E s \in SysOf(T, C) :
           /\ Popped(T, C, sys, s, t)
           /\ Ended(T, C, s, u, t) \/ (Within(T, C, s, u, t) /\ Told(s, u, e.from, t))
  BY <1>1, TaskEventKeeps
<1> HIDE DEF e, u
<1>3. PICK s \in SysOf(T, C) :
           /\ Popped(T, C, sys, s, t)
           /\ Ended(T, C, s, u, t) \/ (Within(T, C, s, u, t) /\ Told(s, u, e.from, t))
  BY <1>2
<1>4. /\ s.tasks = sys.tasks /\ s.unkilled = sys.unkilled
      /\ s.client = sys.client /\ s.control = sys.control /\ s.up = sys.up /\ s.down = sys.down
      /\ s.task[t].queue = Tail(sys.task[t].queue)
      /\ \A x \in T \ {t} : s.task[x] = sys.task[x]
  BY <1>3 DEF Popped
<1>5. /\ u \in SysOf(T, C) /\ u.client = s.client /\ u.up = s.up /\ u.down = s.down
      /\ s.unkilled \subseteq u.unkilled /\ ToSet(u.tasks) \subseteq ToSet(s.tasks)
      /\ \A x \in T : Posted(s.task[x], u.task[x])
  BY <1>3 DEF Ended, Within, Others, Alike
<1>6. \A x \in T : Lost(sys, x) => Lost(u, x)
  BY <1>4, <1>5 DEF Lost, Live
<1>7. ASSUME NEW c \in C
      PROVE  /\ \A x \in T : /\ AsksAt(sys, x, c) = {} => AsksAt(u, x, c) = {}
                             /\ Unique(sys, x, c) => Unique(u, x, c)
                             /\ (x /= t \/ e.from /= c) /\ AsksAt(sys, x, c) /= {} => AsksAt(u, x, c) /= {}
             /\ e.from = c => AsksAt(sys, t, c) /= {} /\ (Unique(sys, t, c) => AsksAt(u, t, c) = {})
  <2>1. \A x \in T : AsksAt(u, x, c) = AsksAt(s, x, c)
    BY <1>5, PostsAsks, PostedPosts
  <2>2. \A x \in T \ {t} : AsksAt(s, x, c) = AsksAt(sys, x, c)
    BY <1>4 DEF AsksAt
  <2>3. /\ AsksAt(sys, t, c) = {} => AsksAt(s, t, c) = {}
        /\ Unique(sys, t, c) => Unique(s, t, c)
        /\ e.from /= c /\ AsksAt(sys, t, c) /= {} => AsksAt(s, t, c) /= {}
        /\ e.from = c => AsksAt(sys, t, c) /= {} /\ (Unique(sys, t, c) => AsksAt(s, t, c) = {})
    BY <1>1, <1>2, <1>4, TailAsks DEF e
  <2> QED BY <2>1, <2>2, <2>3 DEF Unique
<1>8. ASSUME NEW c \in C, u.control[c] = sys.control[c], e.from /= c \/ t \in u.unkilled
      PROVE  ClientOK(T, u, c)
  <2>1. Kept(T, sys, u, c)
    <3>1. ASSUME NEW x \in T
          PROVE  Lost(u, x) \/ (~Lost(sys, x) /\ (AsksAt(sys, x, c) /= {} => AsksAt(u, x, c) /= {}))
      <4>1. CASE t \in u.unkilled /\ x = t
        BY <4>1 DEF Lost
      <4>2. CASE x /= t \/ e.from /= c
        BY <1>6, <1>7, <4>2
      <4> QED BY <1>8, <4>1, <4>2
    <3> QED BY <1>4, <1>5, <1>7, <1>8, <3>1 DEF Kept
  <2> QED BY <1>1, <2>1, KeptIs
<1>9. CASE Ended(T, C, s, u, t)
  <2>1. u.control = sys.control /\ t \in u.unkilled
    BY <1>4, <1>9 DEF Ended
  <2>2. \A c \in C : ClientOK(T, u, c)
    BY <1>8, <2>1
  <2> QED BY <1>2, <2>2 DEF ManagerOK, u
<1>10. CASE Within(T, C, s, u, t) /\ Told(s, u, e.from, t)
  <2>1. PICK kind \in Answers : u.control = Reply(s, e.from, kind, t).control
    BY <1>10 DEF Told
  <2>2. CASE e.from = NULL
    <3>1. u.control = sys.control
      BY <1>4, <2>1, <2>2 DEF Reply
    <3>2. \A c \in C : ClientOK(T, u, c)
      BY <1>8, <2>2, <3>1
    <3> QED BY <1>2, <3>2 DEF ManagerOK, u
  <2>3. ASSUME NEW c \in C, c = e.from
        PROVE  ManagerOK(T, C, u)
    <3> DEFINE k == sys.control[c]
               m == [kind |-> kind, of |-> t]
    <3>1. kind \in Kinds /\ c /= NULL
      BY DEF Kinds
    <3>2. /\ \A d \in C \ {c} : u.control[d] = sys.control[d]
          /\ k.state = "Gone" => u.control[c] = k
          /\ k.state /= "Gone" =>
               /\ u.control[c].state = k.state /\ u.control[c].asked = k.asked
               /\ u.control[c].command = k.command
               /\ u.control[c].inbox = Append(k.inbox, m)
      <4> DEFINE w == Reply(s, c, kind, t).control
      <4>1. u.control = w
        BY <2>1, <2>3
      <4>2. /\ \A d \in C \ {c} : w[d] = s.control[d]
            /\ s.control[c].state = "Gone" => w[c] = s.control[c]
            /\ s.control[c].state /= "Gone" =>
                 /\ w[c].state = s.control[c].state /\ w[c].asked = s.control[c].asked
                 /\ w[c].command = s.control[c].command
                 /\ w[c].inbox = Append(s.control[c].inbox, m)
        BY <3>1, ReplyIs
      <4> HIDE DEF w, m
      <4> QED BY <1>4, <4>1, <4>2
    <3>3. \A d \in C \ {c} : ClientOK(T, u, d)
      BY <1>8, <2>3, <3>2
    <3>4. /\ u.client[c] = sys.client[c] /\ u.up[c] = sys.up[c] /\ u.down[c] = sys.down[c]
      BY <1>4, <1>5
    <3>5. k.inbox \in Seq(MessageRec(T)) /\ u.control[c].state = k.state /\ ClientOK(T, sys, c)
      <4>1. k \in ControlRec(T)
        BY <1>1 DEF SysOf
      <4> QED BY <1>1, <3>2, <4>1 DEF ControlRec
    <3>6. DialogOK(u, c)
      BY <3>4, <3>5 DEF ClientOK, DialogOK
    <3>7. k.state /= "Gone" => u.control[c].inbox /= << >>
      BY <3>2, <3>5
    <3>8. WaitsOK(u, c)
      BY <3>2, <3>5, <3>7 DEF ClientOK, WaitsOK
    <3>9. ASSUME PendingOK(T, sys, c) PROVE PendingOK(T, u, c)
      <4>1. AsksAt(sys, t, c) /= {} /\ (Unique(sys, t, c) => AsksAt(u, t, c) = {})
        BY <1>7, <2>3
      <4>2. k.state \in {"Waiting", "Gone"}
        <5>1. k.state \in ControlStates
          BY <1>1 DEF SysOf, ControlRec
        <5> QED BY <3>9, <4>1, <5>1 DEF PendingOK, NoneAsked, ControlStates
      <4>3. CASE k.state = "Gone"
        BY <3>2, <3>9, <4>3 DEF PendingOK
      <4>4. CASE k.state = "Waiting"
        <5>1. (\A x \in T \ {k.asked} : AsksAt(sys, x, c) = {}) /\ Unique(sys, k.asked, c) /\ k.asked = t
              /\ k.inbox = << >>
          BY <3>9, <4>1, <4>4 DEF PendingOK, Unique, NoneAsked
        <5>2. NoneAsked(T, u, c)
          BY <1>7, <4>1, <5>1 DEF NoneAsked
        <5>3. u.control[c].inbox = <<m>>
          BY <3>2, <4>4, <5>1
        <5>4. Len(u.control[c].inbox) = 1 /\ u.control[c].inbox[1].kind \in Answers
          BY <5>3
        <5>5. Unique(u, k.asked, c) /\ \A x \in T \ {k.asked} : AsksAt(u, x, c) = {}
          BY <5>1, <5>2 DEF NoneAsked, Unique
        <5> QED BY <3>2, <4>4, <5>2, <5>4, <5>5 DEF PendingOK, Unique
      <4> QED BY <4>2, <4>3, <4>4
    <3>10. ClientOK(T, u, c)
      BY <3>4, <3>5, <3>6, <3>8, <3>9 DEF ClientOK, Follows
    <3> QED BY <1>2, <3>3, <3>10 DEF ManagerOK
  <2>4. e.from \in C \cup {NULL}
    BY <1>2 DEF EventRec
  <2> QED BY <2>2, <2>3, <2>4 DEF u
<1> QED BY <1>3, <1>9, <1>10

-----------------------------------------------------------------------------
(* The steps of a client and its control thread, which leave the tasks      *)
(* alone, but for a request to one of them.                                 *)
Apart(T, C, s, u, c) ==
  /\ u \in SysOf(T, C) /\ SameTasks(s, u)
  /\ \A d \in C \ {c} : /\ u.client[d] = s.client[d] /\ u.control[d] = s.control[d]
                        /\ u.up[d] = s.up[d] /\ u.down[d] = s.down[d]

LEMMA ApartTwice ==
  ASSUME NEW T, NEW C, NEW s, NEW v, NEW u, NEW c \in C, Apart(T, C, s, v, c), Apart(T, C, v, u, c)
  PROVE  Apart(T, C, s, u, c)
  BY DEF Apart, SameTasks

LEMMA ApartKept ==
  ASSUME NEW T, NEW C, NEW s, NEW u, NEW c \in C, Apart(T, C, s, u, c), NEW d \in C \ {c}
  PROVE  Kept(T, s, u, d)
<1>1. \A x : AsksAt(u, x, d) = AsksAt(s, x, d)
  BY DEF AsksAt, Apart, SameTasks
<1>2. \A x : Lost(u, x) <=> Lost(s, x)
  BY DEF Apart, SameTasks, Lost, Live
<1> QED BY <1>1, <1>2 DEF Kept, Apart, Unique

LEMMA ApartKeeps ==
  ASSUME NEW T, NEW C, NEW s, ManagerOK(T, C, s), NEW u, NEW c \in C, Apart(T, C, s, u, c), ClientOK(T, u, c)
  PROVE  ManagerOK(T, C, u)
<1>1. TasksOK(T, C, s) /\ s \in SysOf(T, C)
  BY DEF ManagerOK, TasksOK
<1>2. TasksOK(T, C, u)
  BY <1>1, SameTasksKeeps DEF Apart
<1>3. ASSUME NEW d \in C \ {c} PROVE ClientOK(T, u, d)
  <2>1. Kept(T, s, u, d)
    BY ApartKept
  <2> QED BY <1>1, <2>1, KeptIs DEF ManagerOK
<1> QED BY <1>2, <1>3 DEF ManagerOK

LEMMA SetControl ==
  ASSUME NEW T, NEW C, NEW s \in SysOf(T, C), NEW c \in C, NEW k \in ControlRec(T)
  PROVE  LET u == [s EXCEPT !.control = [@ EXCEPT ![c] = k]]
         IN  /\ Apart(T, C, s, u, c) /\ u.control[c] = k
             /\ u.client = s.client /\ u.up = s.up /\ u.down = s.down /\ u.plan = s.plan /\ u.ending = s.ending
<1> DEFINE f == [s.control EXCEPT ![c] = k]
           u == [s EXCEPT !.control = f]
<1>1. s.control \in [C -> ControlRec(T)]
  BY DEF SysOf
<1>2. f \in [C -> ControlRec(T)] /\ f[c] = k /\ \A d \in C \ {c} : f[d] = s.control[d]
  BY <1>1
<1> HIDE DEF f
<1>3. /\ u \in SysOf(T, C) /\ u.control = f /\ SameTasks(s, u)
      /\ u.client = s.client /\ u.up = s.up /\ u.down = s.down /\ u.plan = s.plan /\ u.ending = s.ending
  BY <1>2 DEF SysOf, SameTasks
<1> HIDE DEF u
<1>4. Apart(T, C, s, u, c) /\ u.control[c] = k
  BY <1>2, <1>3 DEF Apart
<1> QED BY <1>3, <1>4 DEF u, f

Mail(T) == Seq(MessageRec(T))
Orders  == Seq(Commands)

LEMMA SetDown ==
  ASSUME NEW T, NEW C, NEW s \in SysOf(T, C), NEW c \in C, NEW q \in Mail(T)
  PROVE  LET u == [s EXCEPT !.down = [@ EXCEPT ![c] = q]]
         IN  /\ Apart(T, C, s, u, c) /\ u.down[c] = q
             /\ u.client = s.client /\ u.up = s.up /\ u.control = s.control /\ u.plan = s.plan /\ u.ending = s.ending
<1> DEFINE f == [s.down EXCEPT ![c] = q]
           u == [s EXCEPT !.down = f]
<1>1. s.down \in [C -> Seq(MessageRec(T))] /\ q \in Seq(MessageRec(T))
  BY DEF SysOf, Mail
<1>2. f \in [C -> Seq(MessageRec(T))] /\ f[c] = q /\ \A d \in C \ {c} : f[d] = s.down[d]
  BY <1>1
<1> HIDE DEF f
<1>3. /\ u \in SysOf(T, C) /\ u.down = f /\ SameTasks(s, u)
      /\ u.client = s.client /\ u.up = s.up /\ u.control = s.control /\ u.plan = s.plan /\ u.ending = s.ending
  BY <1>2 DEF SysOf, SameTasks
<1> HIDE DEF u
<1>4. Apart(T, C, s, u, c) /\ u.down[c] = q
  BY <1>2, <1>3 DEF Apart
<1> QED BY <1>3, <1>4 DEF u, f

LEMMA SetUp ==
  ASSUME NEW T, NEW C, NEW s \in SysOf(T, C), NEW c \in C, NEW q \in Orders
  PROVE  LET u == [s EXCEPT !.up = [@ EXCEPT ![c] = q]]
         IN  /\ Apart(T, C, s, u, c) /\ u.up[c] = q
             /\ u.client = s.client /\ u.down = s.down /\ u.control = s.control /\ u.plan = s.plan /\ u.ending = s.ending
<1> DEFINE f == [s.up EXCEPT ![c] = q]
           u == [s EXCEPT !.up = f]
<1>1. s.up \in [C -> Seq(Commands)] /\ q \in Seq(Commands)
  BY DEF SysOf, Orders
<1>2. f \in [C -> Seq(Commands)] /\ f[c] = q /\ \A d \in C \ {c} : f[d] = s.up[d]
  BY <1>1
<1> HIDE DEF f
<1>3. /\ u \in SysOf(T, C) /\ u.up = f /\ SameTasks(s, u)
      /\ u.client = s.client /\ u.down = s.down /\ u.control = s.control /\ u.plan = s.plan /\ u.ending = s.ending
  BY <1>2 DEF SysOf, SameTasks
<1> HIDE DEF u
<1>4. Apart(T, C, s, u, c) /\ u.up[c] = q
  BY <1>2, <1>3 DEF Apart
<1> QED BY <1>3, <1>4 DEF u, f

LEMMA SetClient ==
  ASSUME NEW T, NEW C, NEW s \in SysOf(T, C), NEW c \in C, NEW v \in ClientStates
  PROVE  LET u == [s EXCEPT !.client = [@ EXCEPT ![c] = v]]
         IN  /\ Apart(T, C, s, u, c) /\ u.client[c] = v
             /\ u.up = s.up /\ u.down = s.down /\ u.control = s.control /\ u.plan = s.plan /\ u.ending = s.ending
<1> DEFINE f == [s.client EXCEPT ![c] = v]
           u == [s EXCEPT !.client = f]
<1>1. s.client \in [C -> ClientStates]
  BY DEF SysOf
<1>2. f \in [C -> ClientStates] /\ f[c] = v /\ \A d \in C \ {c} : f[d] = s.client[d]
  BY <1>1
<1> HIDE DEF f
<1>3. /\ u \in SysOf(T, C) /\ u.client = f /\ SameTasks(s, u)
      /\ u.up = s.up /\ u.down = s.down /\ u.control = s.control /\ u.plan = s.plan /\ u.ending = s.ending
  BY <1>2 DEF SysOf, SameTasks
<1> HIDE DEF u
<1>4. Apart(T, C, s, u, c) /\ u.client[c] = v
  BY <1>2, <1>3 DEF Apart
<1> QED BY <1>3, <1>4 DEF u, f

LEMMA SetPlan ==
  ASSUME NEW T, NEW C, NEW s \in SysOf(T, C), NEW p \in PlanRec(T, C), p.tasks = s.plan.tasks, NEW c \in C
  PROVE  LET u == [s EXCEPT !.plan = p]
         IN  /\ Apart(T, C, s, u, c) /\ u.plan = p /\ u.ending = s.ending
             /\ u.client = s.client /\ u.up = s.up /\ u.down = s.down /\ u.control = s.control
  BY DEF SysOf, Apart, SameTasks

(* A message to a client, or, if there is none any more, its end.           *)
LEMMA PutIs ==
  ASSUME NEW T, NEW C, NEW s \in SysOf(T, C), NEW c \in C, NEW kind \in Kinds, NEW t \in T \cup {NULL}
  PROVE  LET u == Put(s, c, kind, t)
         IN  /\ Apart(T, C, s, u, c)
             /\ u.client = s.client /\ u.up = s.up /\ u.plan = s.plan /\ u.ending = s.ending
             /\ u.control[c].state = s.control[c].state /\ u.control[c].asked = s.control[c].asked
             /\ u.control[c].command = s.control[c].command
             /\ s.client[c] /= "Gone" =>
                  /\ u.control = s.control
                  /\ u.down[c] = Append(s.down[c], [kind |-> kind, of |-> t])
<1> DEFINE u == Put(s, c, kind, t)
           closed == [kind |-> "closed", of |-> NULL]
           said == [kind |-> kind, of |-> t]
           v == Append(s.control[c].inbox, closed)
           k == [s.control[c] EXCEPT !.inbox = v]
           q == Append(s.down[c], said)
<1>1. s.control[c] \in ControlRec(T) /\ s.down[c] \in Seq(MessageRec(T))
  BY DEF SysOf
<1>2. closed \in MessageRec(T) /\ said \in MessageRec(T)
  BY DEF MessageRec, Kinds
<1>3. CASE s.client[c] = "Gone"
  <2>1. u = [s EXCEPT !.control = [@ EXCEPT ![c] = k]]
    BY <1>3 DEF Put
  <2> HIDE DEF closed, u
  <2>2. s.control[c].inbox \in Seq(MessageRec(T))
    BY <1>1 DEF ControlRec
  <2>3. v \in Seq(MessageRec(T))
    BY <1>2, <2>2
  <2> HIDE DEF v
  <2>4. /\ k \in ControlRec(T)
        /\ k.state = s.control[c].state /\ k.asked = s.control[c].asked /\ k.command = s.control[c].command
    BY <1>1, <2>3 DEF ControlRec
  <2> HIDE DEF k
  <2>5. /\ Apart(T, C, s, u, c) /\ u.control[c] = k
        /\ u.client = s.client /\ u.up = s.up /\ u.down = s.down /\ u.plan = s.plan /\ u.ending = s.ending
    BY <2>1, <2>4, SetControl
  <2> QED BY <1>3, <2>4, <2>5 DEF u
<1>4. CASE s.client[c] /= "Gone"
  <2>1. u = [s EXCEPT !.down[c] = q]
    BY <1>4 DEF Put
  <2> HIDE DEF said, u
  <2>2. q \in Mail(T)
    BY <1>1, <1>2 DEF Mail
  <2> HIDE DEF q
  <2>3. /\ Apart(T, C, s, u, c) /\ u.down[c] = q
        /\ u.client = s.client /\ u.up = s.up /\ u.control = s.control /\ u.plan = s.plan /\ u.ending = s.ending
    <3> DEFINE w == [s EXCEPT !.down = [@ EXCEPT ![c] = q]]
    <3>1. /\ Apart(T, C, s, w, c) /\ w.down[c] = q
          /\ w.client = s.client /\ w.up = s.up /\ w.control = s.control /\ w.plan = s.plan /\ w.ending = s.ending
      BY <2>2, SetDown
    <3>2. u = w
      BY <2>1
    <3> HIDE DEF w
    <3> QED BY <3>1, <3>2
  <2> QED BY <2>3 DEF u, q, said
<1> QED BY <1>3, <1>4

LEMMA ReadyIs ==
  ASSUME NEW T, NEW C, NEW s \in SysOf(T, C), NEW c \in C
  PROVE  LET u == control_ready_for_command(s, c)
         IN  /\ Apart(T, C, s, u, c)
             /\ u.client = s.client /\ u.up = s.up /\ u.plan = s.plan /\ u.ending = s.ending
             /\ u.control[c].state = "Reading"
             /\ s.client[c] /= "Gone" =>
                  /\ u.control[c].inbox = s.control[c].inbox
                  /\ u.down[c] = Append(s.down[c], [kind |-> "ready", of |-> NULL])
<1> DEFINE k == [s.control[c] EXCEPT !.state = "Reading"]
           v == [s EXCEPT !.control = [@ EXCEPT ![c] = k]]
           u == Put(v, c, "ready", NULL)
<1>1. s.control[c] \in ControlRec(T) /\ "ready" \in Kinds
  BY DEF SysOf, Kinds
<1>2. k \in ControlRec(T) /\ k.state = "Reading" /\ k.inbox = s.control[c].inbox
  BY <1>1 DEF ControlRec, ControlStates
<1>3. control_ready_for_command(s, c) = u
  BY DEF control_ready_for_command
<1> HIDE DEF k
<1>4. /\ Apart(T, C, s, v, c) /\ v.control[c] = k
      /\ v.client = s.client /\ v.up = s.up /\ v.down = s.down /\ v.plan = s.plan /\ v.ending = s.ending
  BY <1>2, SetControl
<1> HIDE DEF v
<1>5. v \in SysOf(T, C)
  BY <1>4 DEF Apart
<1>6. /\ Apart(T, C, v, u, c)
      /\ u.client = v.client /\ u.up = v.up /\ u.plan = v.plan /\ u.ending = v.ending
      /\ u.control[c].state = v.control[c].state
      /\ v.client[c] /= "Gone" =>
           /\ u.control = v.control
           /\ u.down[c] = Append(v.down[c], [kind |-> "ready", of |-> NULL])
  BY <1>1, <1>5, PutIs
<1> HIDE DEF u
<1>7. Apart(T, C, s, u, c)
  BY <1>4, <1>6, ApartTwice
<1> QED BY <1>2, <1>3, <1>4, <1>6, <1>7

(* The thread of a client's connection ends.                                *)
LEMMA ControlGone ==
  ASSUME NEW T, NEW C, NEW s, ManagerOK(T, C, s), NEW u, NEW c \in C, Apart(T, C, s, u, c),
         u.client[c] = s.client[c], u.up[c] = s.up[c], u.down[c] = s.down[c],
         u.control[c].state = "Gone", u.control[c].inbox = << >>
  PROVE  ManagerOK(T, C, u)
<1>1. ClientOK(T, s, c)
  BY DEF ManagerOK
<1>2. DialogOK(u, c)
  BY <1>1 DEF ClientOK, DialogOK
<1>3. WaitsOK(u, c) /\ PendingOK(T, u, c)
  BY DEF WaitsOK, PendingOK
<1>4. ClientOK(T, u, c)
  BY <1>2, <1>3 DEF ClientOK
<1> QED BY <1>4, ApartKeeps

LEMMA EndControlIs ==
  ASSUME NEW T, NEW C, NEW s \in SysOf(T, C), NEW c \in C
  PROVE  LET u == EndControl(s, c)
         IN  /\ Apart(T, C, s, u, c) /\ u.control[c].state = "Gone" /\ u.control[c].inbox = << >>
             /\ u.client = s.client /\ u.up = s.up /\ u.down = s.down /\ u.plan = s.plan /\ u.ending = s.ending
<1> DEFINE k == [s.control[c] EXCEPT !.state = "Gone", !.inbox = << >>]
           u == [s EXCEPT !.control = [@ EXCEPT ![c] = k]]
<1>1. s.control[c] \in ControlRec(T)
  BY DEF SysOf
<1>2. k \in ControlRec(T) /\ k.state = "Gone" /\ k.inbox = << >>
  <2> DEFINE none == << >>
             gone == "Gone"
  <2>1. none \in Seq(MessageRec(T)) /\ gone \in ControlStates
    BY DEF ControlStates
  <2> HIDE DEF none, gone
  <2>2. LET y == [s.control[c] EXCEPT !.state = gone, !.inbox = none]
        IN  y \in ControlRec(T) /\ y.state = gone /\ y.inbox = none
    BY <1>1, <2>1 DEF ControlRec
  <2> QED BY <2>2 DEF none, gone
<1>3. EndControl(s, c) = u
  BY DEF EndControl
<1> HIDE DEF k
<1>4. /\ Apart(T, C, s, u, c) /\ u.control[c] = k
      /\ u.client = s.client /\ u.up = s.up /\ u.down = s.down /\ u.plan = s.plan /\ u.ending = s.ending
  BY <1>2, SetControl
<1> HIDE DEF u
<1> QED BY <1>2, <1>3, <1>4

LEMMA SetEnding ==
  ASSUME NEW T, NEW C, NEW s \in SysOf(T, C), NEW b \in BOOLEAN, s.ending => b, NEW c \in C
  PROVE  LET u == [s EXCEPT !.ending = b]
         IN  /\ Apart(T, C, s, u, c) /\ u.ending = b
             /\ u.client = s.client /\ u.up = s.up /\ u.down = s.down /\ u.control = s.control
  BY DEF SysOf, Apart, SameTasks

LEMMA ControlShutdownKeeps ==
  ASSUME NEW T, NEW C, ManagerOK(T, C, sys), NEW c \in C, ControlShutdown(c)
  PROVE  ManagerOK(T, C, sys')
<1>1. sys \in SysOf(T, C)
  BY DEF ManagerOK, TasksOK
<1>2. sys' = EndControl(sys, c)
  BY DEF ControlShutdown
<1> DEFINE u == sys'
<1> HIDE DEF u
<1>3. /\ Apart(T, C, sys, u, c) /\ u.control[c].state = "Gone" /\ u.control[c].inbox = << >>
      /\ u.client = sys.client /\ u.up = sys.up /\ u.down = sys.down
  BY <1>1, <1>2, EndControlIs DEF u
<1>4. ManagerOK(T, C, u)
  BY <1>3, ControlGone
<1> QED BY <1>4 DEF u

LEMMA ControlClosesKeeps ==
  ASSUME NEW T, NEW C, ManagerOK(T, C, sys), NEW c \in C, ControlCloses(c)
  PROVE  ManagerOK(T, C, sys')
<1> DEFINE b == sys.ending \/ sys.control[c].state = "Committing"
           v == EndControl(sys, c)
           u == [v EXCEPT !.ending = b]
<1>1. sys \in SysOf(T, C)
  BY DEF ManagerOK, TasksOK
<1>2. /\ Apart(T, C, sys, v, c) /\ v.control[c].state = "Gone" /\ v.control[c].inbox = << >>
      /\ v.client = sys.client /\ v.up = sys.up /\ v.down = sys.down /\ v.ending = sys.ending
  BY <1>1, EndControlIs
<1>3. sys' = [v EXCEPT !.ending = v.ending \/ sys.control[c].state = "Committing"]
  BY DEF ControlCloses
<1> HIDE DEF v
<1>4. sys' = u
  BY <1>2, <1>3
<1>5. b \in BOOLEAN /\ (v.ending => b) /\ v \in SysOf(T, C)
  BY <1>1, <1>2 DEF Apart, SysOf
<1> HIDE DEF b
<1>6. /\ Apart(T, C, v, u, c)
      /\ u.client = v.client /\ u.up = v.up /\ u.down = v.down /\ u.control = v.control
  BY <1>5, SetEnding
<1> HIDE DEF u
<1>7. Apart(T, C, sys, u, c)
  BY <1>2, <1>6, ApartTwice
<1>8. ManagerOK(T, C, u)
  BY <1>2, <1>6, <1>7, ControlGone
<1> QED BY <1>4, <1>8

LEMMA AcceptFailsKeeps ==
  ASSUME NEW T, NEW C, ManagerOK(T, C, sys), NEW c \in C, AcceptFails(c)
  PROVE  ManagerOK(T, C, sys')
<1> DEFINE b == TRUE
           v == EndControl(sys, c)
           w == [v EXCEPT !.plan.faults = @ - 1]
           u == [w EXCEPT !.ending = b]
<1>1. sys \in SysOf(T, C)
  BY DEF ManagerOK, TasksOK
<1>2. /\ Apart(T, C, sys, v, c) /\ v.control[c].state = "Gone" /\ v.control[c].inbox = << >>
      /\ v.client = sys.client /\ v.up = sys.up /\ v.down = sys.down
  BY <1>1, EndControlIs
<1>3. sys' = u
  BY DEF AcceptFails
<1>4. v \in SysOf(T, C)
  BY <1>2 DEF Apart
<1> HIDE DEF v
<1>5. /\ w \in SysOf(T, C) /\ SamePlan(v, w)
      /\ w.tasks = v.tasks /\ w.task = v.task /\ w.running = v.running /\ w.unkilled = v.unkilled
      /\ w.active = v.active /\ w.ending = v.ending /\ w.client = v.client /\ w.control = v.control
      /\ w.up = v.up /\ w.down = v.down
  BY <1>4, Faulty
<1> HIDE DEF w
<1>6. Apart(T, C, v, w, c)
  BY <1>5 DEF Apart, SameTasks, SamePlan
<1>7. b \in BOOLEAN /\ (w.ending => b)
  OBVIOUS
<1> HIDE DEF b
<1>8. /\ Apart(T, C, w, u, c)
      /\ u.client = w.client /\ u.up = w.up /\ u.down = w.down /\ u.control = w.control
  BY <1>5, <1>7, SetEnding
<1> HIDE DEF u
<1>9. Apart(T, C, sys, u, c)
  BY <1>2, <1>6, <1>8, ApartTwice
<1>10. ManagerOK(T, C, u)
  BY <1>2, <1>5, <1>8, <1>9, ControlGone
<1> QED BY <1>3, <1>10

LEMMA ClientLeavesKeeps ==
  ASSUME NEW T, NEW C, ManagerOK(T, C, sys), NEW c \in C, ClientLeaves(c)
  PROVE  ManagerOK(T, C, sys')
<1> DEFINE n == sys.plan.leaves - 1
           p == [sys.plan EXCEPT !.leaves = n]
           v == [sys EXCEPT !.client = [@ EXCEPT ![c] = "Gone"]]
           u == [v EXCEPT !.plan = p]
<1>1. sys \in SysOf(T, C) /\ sys.plan \in PlanRec(T, C) /\ "Gone" \in ClientStates
  BY DEF ManagerOK, TasksOK, SysOf, ClientStates
<1>2. n \in Int
  BY <1>1 DEF PlanRec
<1>3. sys' = u
  BY DEF ClientLeaves, SysOf
<1> HIDE DEF n
<1>4. p \in PlanRec(T, C) /\ p.tasks = sys.plan.tasks
  BY <1>1, <1>2 DEF PlanRec
<1> HIDE DEF p
<1>5. /\ Apart(T, C, sys, v, c) /\ v.client[c] = "Gone"
      /\ v.up = sys.up /\ v.down = sys.down /\ v.control = sys.control /\ v.plan = sys.plan
  BY <1>1, SetClient
<1> HIDE DEF v
<1>6. v \in SysOf(T, C)
  BY <1>5 DEF Apart
<1>7. Apart(T, C, v, u, c) /\ u.client = v.client /\ u.control = v.control
  BY <1>4, <1>5, <1>6, SetPlan
<1> HIDE DEF u
<1>8. Apart(T, C, sys, u, c)
  BY <1>5, <1>7, ApartTwice
<1>9. ClientOK(T, u, c)
  <2>1. WaitsOK(sys, c)
    BY DEF ManagerOK, ClientOK
  <2>2. \A x : AsksAt(u, x, c) = AsksAt(sys, x, c) /\ (Lost(u, x) <=> Lost(sys, x))
    BY <1>8 DEF Apart, SameTasks, AsksAt, Lost, Live
  <2>3. WaitsOK(u, c)
    BY <1>5, <1>7, <2>1, <2>2 DEF WaitsOK, Lost
  <2> QED BY <1>5, <1>7, <2>3 DEF ClientOK, DialogOK, Follows
<1>10. ManagerOK(T, C, u)
  BY <1>8, <1>9, ApartKeeps
<1> QED BY <1>3, <1>10

LEMMA ConnectKeeps ==
  ASSUME NEW T, NEW C, ManagerOK(T, C, sys), NEW c \in C, Connect(c)
  PROVE  ManagerOK(T, C, sys')
<1> DEFINE u == sys'
           m == [kind |-> "ready", of |-> NULL]
<1>1. sys \in SysOf(T, C) /\ ClientOK(T, sys, c)
  BY DEF ManagerOK, TasksOK
<1>2. sys.control[c].state = "New" /\ u = control_ready_for_command(sys, c)
  BY DEF Connect
<1> HIDE DEF u
<1>3. /\ Apart(T, C, sys, u, c)
      /\ u.client = sys.client /\ u.up = sys.up
      /\ u.control[c].state = "Reading"
      /\ sys.client[c] /= "Gone" =>
           /\ u.control[c].inbox = sys.control[c].inbox
           /\ u.down[c] = Append(sys.down[c], m)
  BY <1>1, <1>2, ReadyIs
<1>4. WaitsOK(u, c)
  BY <1>3 DEF WaitsOK
<1>5. CASE sys.client[c] = "Gone"
  <2>1. ClientOK(T, u, c)
    BY <1>3, <1>4, <1>5 DEF ClientOK, DialogOK, Follows
  <2> QED BY <1>3, <2>1, ApartKeeps DEF u
<1>6. CASE sys.client[c] /= "Gone"
  <2>1. sys.client[c] = "Making" /\ sys.up[c] = << >> /\ sys.down[c] = << >>
    BY <1>1, <1>2, <1>6 DEF ClientOK, DialogOK
  <2>2. u.down[c] = <<m>> /\ m.kind = "ready"
    BY <1>3, <1>6, <2>1
  <2> HIDE DEF m
  <2>3. AllIn(u.down[c], {"ready"}) /\ OnlyLast(u.down[c])
    BY <2>2 DEF AllIn, OnlyLast
  <2>4. DialogOK(u, c)
    BY <1>3, <2>1, <2>3 DEF DialogOK
  <2>5. PendingOK(T, u, c)
    <3>1. sys.control[c].inbox = << >> /\ NoneAsked(T, sys, c)
      BY <1>1, <1>2, <1>6 DEF ClientOK, PendingOK, Follows
    <3>2. NoneAsked(T, u, c)
      BY <1>3, <3>1 DEF NoneAsked, AsksAt, Apart, SameTasks
    <3> QED BY <1>3, <1>6, <3>1, <3>2 DEF PendingOK
  <2>6. ClientOK(T, u, c)
    BY <1>4, <2>4, <2>5 DEF ClientOK
  <2> QED BY <1>3, <2>6, ApartKeeps DEF u
<1> QED BY <1>5, <1>6

LEMMA TailDown ==
  ASSUME NEW T, NEW q \in Mail(T), q /= << >>
  PROVE  /\ Tail(q) \in Mail(T)
         /\ \A kinds : AllIn(q, kinds) => AllIn(Tail(q), kinds) /\ q[1].kind \in kinds
         /\ OnlyLast(q) => OnlyLast(Tail(q))
         /\ OnlyLast(q) /\ q[1].kind = "ready" => Tail(q) = << >> /\ Complete(q)
         /\ q[1].kind /= "ready" => (Complete(q) <=> Complete(Tail(q)))
<1> DEFINE r == Tail(q)
<1>1. q \in Seq(MessageRec(T)) /\ r \in Seq(MessageRec(T))
  BY DEF Mail
<1>2. /\ Len(q) \in Nat /\ Len(q) > 0 /\ DOMAIN q = 1 .. Len(q)
      /\ Len(r) = Len(q) - 1 /\ DOMAIN r = 1 .. Len(q) - 1
      /\ \A i \in 1 .. Len(q) - 1 : r[i] = q[i + 1]
      /\ r = << >> <=> Len(q) = 1
  <2>1. /\ Len(q) \in Nat /\ Len(q) > 0 /\ DOMAIN q = 1 .. Len(q)
        /\ Len(r) = Len(q) - 1 /\ DOMAIN r = 1 .. Len(q) - 1
    BY <1>1
  <2>2. \A i \in 1 .. Len(q) - 1 : r[i] = q[i + 1]
    BY <1>1
  <2> HIDE DEF r
  <2>3. r = << >> <=> Len(r) = 0
    BY <1>1
  <2> QED BY <2>1, <2>2, <2>3
<1> HIDE DEF r
<1>3. ASSUME NEW kinds, AllIn(q, kinds) PROVE AllIn(r, kinds) /\ q[1].kind \in kinds
  <2>1. ASSUME NEW i \in DOMAIN r PROVE r[i].kind \in kinds
    <3>1. i \in 1 .. Len(q) - 1 /\ i + 1 \in DOMAIN q /\ r[i] = q[i + 1]
      BY <1>2
    <3> QED BY <1>3, <3>1 DEF AllIn
  <2>2. 1 \in DOMAIN q
    BY <1>2
  <2> QED BY <1>3, <2>1, <2>2 DEF AllIn
<1>4. ASSUME OnlyLast(q) PROVE OnlyLast(r)
  BY <1>2, <1>4 DEF OnlyLast
<1>5. ASSUME OnlyLast(q), q[1].kind = "ready" PROVE r = << >> /\ Complete(q)
  BY <1>2, <1>5 DEF OnlyLast, Complete
<1>6. ASSUME q[1].kind /= "ready" PROVE Complete(q) <=> Complete(r)
  <2>1. CASE Len(q) = 1
    BY <1>2, <1>6, <2>1 DEF Complete
  <2>2. CASE Len(q) > 1
    <3>1. r /= << >> /\ r[Len(r)] = q[Len(q)]
      BY <1>2, <2>2
    <3> QED BY <3>1 DEF Complete
  <2> QED BY <1>2, <2>1, <2>2
<1> QED BY <1>1, <1>3, <1>4, <1>5, <1>6 DEF r, Mail

LEMMA ClientReadsKeeps ==
  ASSUME NEW T, NEW C, ManagerOK(T, C, sys), NEW c \in C, ClientReads(c)
  PROVE  ManagerOK(T, C, sys')
<1> DEFINE q == sys.down[c]
           r == Tail(q)
           kind == q[1].kind
           state == check_daemon_message(sys.client[c], q[1])
           v == [sys EXCEPT !.client = [@ EXCEPT ![c] = state]]
           u == [v EXCEPT !.down = [@ EXCEPT ![c] = r]]
           k == sys.control[c]
<1>1. sys \in SysOf(T, C) /\ ClientOK(T, sys, c)
  BY DEF ManagerOK, TasksOK
<1>2. sys.client[c] \in {"Making", "Reading", "Halting"} /\ q /= << >>
  BY DEF ClientReads
<1>3. sys' = u
  BY DEF ClientReads, SysOf
<1>4. q \in Mail(T)
  BY <1>1 DEF SysOf, Mail
<1>5. /\ r \in Mail(T)
      /\ \A kinds : AllIn(q, kinds) => AllIn(r, kinds) /\ kind \in kinds
      /\ OnlyLast(q) => OnlyLast(r)
      /\ OnlyLast(q) /\ kind = "ready" => r = << >> /\ Complete(q)
      /\ kind /= "ready" => (Complete(q) <=> Complete(r))
  BY <1>2, <1>4, TailDown
<1> HIDE DEF q, r, kind, state
<1>6. \/ state = "Command" /\ kind = "ready" /\ r = << >> /\ sys.up[c] = << >> /\ k.state \in {"Reading", "Gone"}
      \/ state = "Reading" /\ sys.client[c] = "Reading" /\ kind /= "ready"
      \/ state = "Gone"
  <2>1. CASE sys.client[c] = "Making"
    <3>1. /\ sys.up[c] = << >> /\ AllIn(q, {"ready"}) /\ OnlyLast(q)
          /\ k.state \in {"New", "Reading", "Gone"} /\ k.state /= "New"
      BY <1>1, <1>2, <2>1 DEF ClientOK, DialogOK, q
    <3>2. kind = "ready"
      BY <1>5, <3>1
    <3>3. state = "Command"
      BY <2>1, <3>2 DEF state, check_daemon_message, Awaited, kind
    <3> QED BY <1>5, <3>1, <3>2, <3>3
  <2>2. CASE sys.client[c] = "Reading"
    <3>1. /\ AllIn(q, Answers \cup {"task", "ready"}) /\ OnlyLast(q)
          /\ Complete(q) => sys.up[c] = << >>
          /\ k.state = "Waiting" => ~Complete(q)
          /\ k.state \in {"Reading", "Waiting", "Gone"}
      BY <1>1, <2>2 DEF ClientOK, DialogOK, q
    <3>2. kind \in Answers \cup {"task", "ready"}
      BY <1>5, <3>1
    <3>3. CASE kind = "ready"
      <4>1. state = "Command"
        BY <2>2, <3>3 DEF state, check_daemon_message, Awaited, kind
      <4> QED BY <1>5, <3>1, <3>3, <4>1
    <3>4. CASE kind /= "ready"
      <4>1. state = "Reading"
        BY <2>2, <3>2, <3>4 DEF state, check_daemon_message, Awaited, kind, Answers
      <4> QED BY <2>2, <3>4, <4>1
    <3> QED BY <3>3, <3>4
  <2>3. CASE sys.client[c] = "Halting"
    <3>1. AllIn(q, {"halting"})
      BY <1>1, <2>3 DEF ClientOK, DialogOK, q
    <3>2. kind = "halting"
      BY <1>5, <3>1
    <3>3. state = "Gone"
      BY <2>3, <3>2 DEF state, check_daemon_message, Awaited, kind
    <3> QED BY <3>3
  <2> QED BY <1>2, <2>1, <2>2, <2>3
<1>7. state \in ClientStates
  BY <1>6 DEF ClientStates
<1>8. /\ Apart(T, C, sys, v, c) /\ v.client[c] = state
      /\ v.up = sys.up /\ v.down = sys.down /\ v.control = sys.control
  BY <1>1, <1>7, SetClient
<1> HIDE DEF v
<1>9. v \in SysOf(T, C)
  BY <1>8 DEF Apart
<1>10. /\ Apart(T, C, v, u, c) /\ u.down[c] = r
       /\ u.client = v.client /\ u.up = v.up /\ u.control = v.control
  BY <1>5, <1>9, SetDown
<1> HIDE DEF u
<1>11. Apart(T, C, sys, u, c)
  BY <1>8, <1>10, ApartTwice
<1>12. u.client[c] = state /\ u.up[c] = sys.up[c] /\ u.control[c] = k
  BY <1>8, <1>10
<1>13. WaitsOK(u, c)
  <2>1. \A x : AsksAt(u, x, c) = AsksAt(sys, x, c) /\ (Lost(u, x) <=> Lost(sys, x))
    BY <1>11 DEF Apart, SameTasks, AsksAt, Lost, Live
  <2> QED BY <1>1, <1>12, <2>1 DEF ClientOK, WaitsOK, Lost
<1>14. PendingOK(T, u, c)
  <2>1. \A x : AsksAt(u, x, c) = AsksAt(sys, x, c)
    BY <1>11 DEF Apart, SameTasks, AsksAt
  <2>2. PendingOK(T, sys, c)
    BY <1>1, <1>2 DEF ClientOK, Follows
  <2> QED BY <1>12, <2>1, <2>2 DEF PendingOK, NoneAsked
<1>15. DialogOK(u, c)
  <2>1. CASE state = "Command" /\ kind = "ready" /\ r = << >> /\ sys.up[c] = << >> /\ k.state \in {"Reading", "Gone"}
    BY <1>10, <1>12, <2>1 DEF DialogOK
  <2>2. CASE state = "Reading" /\ sys.client[c] = "Reading" /\ kind /= "ready"
    <3>1. /\ AllIn(q, Answers \cup {"task", "ready"}) /\ OnlyLast(q)
          /\ Complete(q) => sys.up[c] = << >>
          /\ k.state = "Waiting" => sys.up[c] = << >> /\ ~Complete(q)
          /\ k.state = "Reading" /\ sys.up[c] /= << >> => q = << >>
          /\ k.state = "Reading" /\ sys.up[c] = << >>  => Complete(q)
          /\ k.state \in {"Reading", "Waiting", "Gone"}
      BY <1>1, <2>2 DEF ClientOK, DialogOK, q
    <3>2. AllIn(r, Answers \cup {"task", "ready"}) /\ OnlyLast(r) /\ (Complete(q) <=> Complete(r))
      BY <1>5, <2>2, <3>1
    <3> QED BY <1>2, <1>10, <1>12, <2>2, <3>1, <3>2 DEF DialogOK
  <2>3. CASE state = "Gone"
    BY <1>12, <2>3 DEF DialogOK
  <2> QED BY <1>6, <2>1, <2>2, <2>3
<1>16. ManagerOK(T, C, u)
  BY <1>11, <1>13, <1>14, <1>15, ApartKeeps DEF ClientOK
<1> QED BY <1>3, <1>16

LEMMA CommandInputKeeps ==
  ASSUME NEW T, NEW C, ManagerOK(T, C, sys), NEW c \in C, get_user_command_input(c)
  PROVE  ManagerOK(T, C, sys')
<1> DEFINE command == sys.plan.script[c][1]
           left  == Tail(sys.plan.script[c])
           p     == [sys.plan EXCEPT !.script[c] = left]
           state == IF command.op = "halt" THEN "Halting" ELSE "Reading"
           rest  == [sys EXCEPT !.plan.script[c] = Tail(@)]
           b     == Append(sys.up[c], command)
           v     == [rest EXCEPT !.client = [@ EXCEPT ![c] = state]]
           u     == [v EXCEPT !.up = [@ EXCEPT ![c] = b]]
           k     == sys.control[c]
<1>1. sys \in SysOf(T, C) /\ ClientOK(T, sys, c) /\ sys.plan \in PlanRec(T, C)
  BY DEF ManagerOK, TasksOK, SysOf
<1>2. sys.client[c] = "Command" /\ sys.plan.script[c] /= << >>
  BY DEF get_user_command_input
<1>3. sys.up[c] = << >> /\ sys.down[c] = << >> /\ k.state \in {"Reading", "Gone"}
  BY <1>1, <1>2 DEF ClientOK, DialogOK
<1>4. sys.plan.script \in [C -> Seq(Commands)]
  BY <1>1 DEF PlanRec
<1>5. command \in Commands /\ left \in Seq(Commands)
  BY <1>2, <1>4
<1>6. rest = [sys EXCEPT !.plan = p]
  OBVIOUS
<1>7. sys' = rest \/ sys' = u
  <2>1. sys' = rest \/ sys' = [rest EXCEPT !.client[c] = state, !.up[c] = Append(@, command)]
    BY DEF get_user_command_input
  <2>2. rest.up = sys.up /\ rest.client = sys.client
    OBVIOUS
  <2> HIDE DEF rest, command, state
  <2>3. [rest EXCEPT !.client[c] = state, !.up[c] = Append(@, command)] = u
    <3>1. rest.up[c] = sys.up[c]
      BY <2>2
    <3> DEFINE f == [rest.client EXCEPT ![c] = state]
               g == [rest.up EXCEPT ![c] = b]
    <3>2. [rest EXCEPT !.client[c] = state, !.up[c] = Append(@, command)] = [rest EXCEPT !.client = f, !.up = g]
      BY <3>1
    <3>3. v = [rest EXCEPT !.client = f]
      OBVIOUS
    <3> HIDE DEF f
    <3>4. v.up = rest.up
      BY <3>3
    <3>5. u = [v EXCEPT !.up = g]
      BY <3>4
    <3> HIDE DEF g, v, u
    <3> QED BY <3>2, <3>3, <3>5
  <2> QED BY <2>1, <2>3
<1>8. p \in PlanRec(T, C) /\ p.tasks = sys.plan.tasks
  <2> HIDE DEF left
  <2> DEFINE f == [sys.plan.script EXCEPT ![c] = left]
  <2>1. f \in [C -> Seq(Commands)]
    BY <1>4, <1>5
  <2>2. p = [sys.plan EXCEPT !.script = f]
    OBVIOUS
  <2> HIDE DEF f, p
  <2> QED BY <1>1, <2>1, <2>2 DEF PlanRec
<1> HIDE DEF p, command, left
<1>9. /\ Apart(T, C, sys, rest, c)
      /\ rest.client = sys.client /\ rest.up = sys.up /\ rest.down = sys.down /\ rest.control = sys.control
  <2> HIDE DEF rest
  <2> QED BY <1>1, <1>6, <1>8, SetPlan
<1> HIDE DEF rest
<1>10. ASSUME NEW w, Apart(T, C, sys, w, c), w.control = sys.control
       PROVE  WaitsOK(w, c) /\ PendingOK(T, w, c)
  <2>1. WaitsOK(w, c)
    BY <1>3, <1>10 DEF WaitsOK
  <2>2. \A x : AsksAt(w, x, c) = AsksAt(sys, x, c)
    BY <1>10 DEF Apart, SameTasks, AsksAt
  <2>3. PendingOK(T, sys, c)
    BY <1>1, <1>2 DEF ClientOK, Follows
  <2> QED BY <1>10, <2>1, <2>2, <2>3 DEF PendingOK, NoneAsked
<1>11. ManagerOK(T, C, rest)
  <2>1. DialogOK(rest, c)
    BY <1>1, <1>9 DEF ClientOK, DialogOK
  <2> QED BY <1>9, <1>10, <2>1, ApartKeeps DEF ClientOK
<1>12. ManagerOK(T, C, u)
  <2>1. rest \in SysOf(T, C) /\ state \in ClientStates
    BY <1>9 DEF Apart, ClientStates
  <2>2. b = <<command>>
    BY <1>3
  <2>3. b \in Orders
    BY <1>5, <2>2 DEF Orders
  <2>4. Len(b) = 1 /\ b[1] = command /\ b /= << >>
    BY <2>2
  <2>5. \/ state = "Halting" /\ command.op = "halt"
        \/ state = "Reading" /\ command.op /= "halt"
    OBVIOUS
  <2> HIDE DEF b, state
  <2>6. /\ Apart(T, C, rest, v, c) /\ v.client[c] = state
        /\ v.up = rest.up /\ v.down = rest.down /\ v.control = rest.control
    BY <2>1, SetClient
  <2> HIDE DEF v
  <2>7. v \in SysOf(T, C)
    BY <2>6 DEF Apart
  <2>8. /\ Apart(T, C, v, u, c) /\ u.up[c] = b
        /\ u.client = v.client /\ u.down = v.down /\ u.control = v.control
    BY <2>3, <2>7, SetUp
  <2> HIDE DEF u
  <2>9. Apart(T, C, sys, u, c)
    BY <1>9, <2>6, <2>8, ApartTwice
  <2>10. /\ u.client[c] = state /\ u.up[c] = b /\ u.down[c] = << >> /\ u.control = sys.control
    BY <1>3, <1>9, <2>6, <2>8
  <2>11. AllIn(u.down[c], {"halting"}) /\ AllIn(u.down[c], Answers \cup {"task", "ready"}) /\ OnlyLast(u.down[c])
         /\ ~Complete(u.down[c])
    BY <2>10 DEF AllIn, OnlyLast, Complete
  <2>12. DialogOK(u, c)
    BY <1>3, <2>4, <2>5, <2>10, <2>11 DEF DialogOK
  <2> QED BY <1>10, <2>9, <2>10, <2>12, ApartKeeps DEF ClientOK
<1> HIDE DEF u
<1> QED BY <1>7, <1>11, <1>12

-----------------------------------------------------------------------------
(* The commands.                                                            *)

(* A control thread at work on a command, and what the others are in.       *)
Serves(T, C, s, c) ==
  /\ TasksOK(T, C, s) /\ ~s.ending
  /\ \A d \in C \ {c} : ClientOK(T, s, d)
  /\ \/ s.client[c] = "Gone"
     \/ /\ s.client[c] = "Reading" /\ s.up[c] = << >> /\ AllIn(s.down[c], Answers \cup {"task"})
        /\ s.control[c].inbox = << >> /\ NoneAsked(T, s, c)

LEMMA ApartLeaves ==
  ASSUME NEW T, NEW C, NEW s, NEW u, NEW c \in C, TasksOK(T, C, s), \A d \in C \ {c} : ClientOK(T, s, d),
         Apart(T, C, s, u, c)
  PROVE  TasksOK(T, C, u) /\ (\A d \in C \ {c} : ClientOK(T, u, d)) /\ (NoneAsked(T, s, c) => NoneAsked(T, u, c))
<1>1. s \in SysOf(T, C)
  BY DEF TasksOK
<1>2. TasksOK(T, C, u)
  BY SameTasksKeeps DEF Apart
<1>3. ASSUME NEW d \in C \ {c} PROVE ClientOK(T, u, d)
  <2>1. Kept(T, s, u, d)
    BY ApartKept
  <2> QED BY <1>1, <2>1, KeptIs
<1>4. NoneAsked(T, s, c) => NoneAsked(T, u, c)
  BY DEF NoneAsked, AsksAt, Apart, SameTasks
<1> QED BY <1>2, <1>3, <1>4

LEMMA AppendDown ==
  ASSUME NEW T, NEW q \in Mail(T), NEW m, AllIn(q, Answers \cup {"task"})
  PROVE  LET r == Append(q, m)
         IN  /\ m.kind \in Answers \cup {"task"} => AllIn(r, Answers \cup {"task"})
             /\ m.kind = "ready" => AllIn(r, Answers \cup {"task", "ready"}) /\ OnlyLast(r) /\ Complete(r)
             /\ ~Complete(q) /\ AllIn(q, Answers \cup {"task", "ready"}) /\ OnlyLast(q)
<1> DEFINE r == Append(q, m)
<1>1. q \in Seq(MessageRec(T)) /\ "ready" \notin Answers \cup {"task"}
  BY DEF Mail, Answers
<1>2. /\ Len(q) \in Nat /\ DOMAIN q = 1 .. Len(q) /\ (q /= << >> => Len(q) > 0)
      /\ Len(r) = Len(q) + 1 /\ DOMAIN r = 1 .. Len(q) + 1 /\ r /= << >>
      /\ r[Len(q) + 1] = m /\ \A i \in 1 .. Len(q) : r[i] = q[i]
  <2>1. Len(q) \in Nat /\ DOMAIN q = 1 .. Len(q) /\ (q /= << >> => Len(q) > 0)
    BY <1>1
  <2>2. Len(r) = Len(q) + 1 /\ DOMAIN r = 1 .. Len(q) + 1
    BY <1>1
  <2>3. r[Len(q) + 1] = m /\ \A i \in 1 .. Len(q) : r[i] = q[i]
    BY <1>1
  <2> HIDE DEF r
  <2>4. r /= << >>
    BY <2>1, <2>2
  <2> QED BY <2>1, <2>2, <2>3, <2>4
<1> HIDE DEF r
<1>3. \A i \in 1 .. Len(q) : q[i].kind \in Answers \cup {"task"} /\ q[i].kind /= "ready"
  BY <1>1, <1>2 DEF AllIn
<1>4. m.kind \in Answers \cup {"task"} => AllIn(r, Answers \cup {"task"})
  BY <1>2, <1>3 DEF AllIn
<1>5. m.kind = "ready" => AllIn(r, Answers \cup {"task", "ready"}) /\ OnlyLast(r) /\ Complete(r)
  <2> SUFFICES ASSUME m.kind = "ready" PROVE AllIn(r, Answers \cup {"task", "ready"}) /\ OnlyLast(r) /\ Complete(r)
    OBVIOUS
  <2>1. \A i \in 1 .. Len(q) + 1 : (i \in 1 .. Len(q) /\ r[i].kind \in Answers \cup {"task"} /\ r[i].kind /= "ready")
                                   \/ (i = Len(r) /\ r[i].kind = "ready")
    BY <1>2, <1>3
  <2>2. AllIn(r, Answers \cup {"task", "ready"})
    BY <1>2, <2>1 DEF AllIn
  <2>3. OnlyLast(r)
    BY <1>2, <2>1 DEF OnlyLast
  <2> QED BY <1>2, <2>2, <2>3 DEF Complete
<1>6. ~Complete(q) /\ AllIn(q, Answers \cup {"task", "ready"}) /\ OnlyLast(q)
  <2>1. ~Complete(q)
    BY <1>2, <1>3 DEF Complete
  <2> QED BY <1>2, <1>3, <2>1 DEF AllIn, OnlyLast
<1> QED BY <1>4, <1>5, <1>6 DEF r

LEMMA ServedReady ==
  ASSUME NEW T, NEW C, NEW s, NEW c \in C, Serves(T, C, s, c)
  PROVE  ManagerOK(T, C, control_ready_for_command(s, c))
<1> DEFINE u == control_ready_for_command(s, c)
           m == [kind |-> "ready", of |-> NULL]
           r == Append(s.down[c], m)
<1>1. s \in SysOf(T, C) /\ TasksOK(T, C, s) /\ (\A d \in C \ {c} : ClientOK(T, s, d))
  BY DEF Serves, TasksOK
<1>2. /\ Apart(T, C, s, u, c)
      /\ u.client = s.client /\ u.up = s.up
      /\ u.control[c].state = "Reading"
      /\ s.client[c] /= "Gone" =>
           /\ u.control[c].inbox = s.control[c].inbox
           /\ u.down[c] = r
  BY <1>1, ReadyIs
<1> HIDE DEF u
<1>3. TasksOK(T, C, u) /\ (\A d \in C \ {c} : ClientOK(T, u, d)) /\ (NoneAsked(T, s, c) => NoneAsked(T, u, c))
  BY <1>1, <1>2, ApartLeaves
<1>4. WaitsOK(u, c)
  BY <1>2 DEF WaitsOK
<1>5. CASE s.client[c] = "Gone"
  <2>1. ClientOK(T, u, c)
    BY <1>2, <1>4, <1>5 DEF ClientOK, DialogOK, Follows
  <2> QED BY <1>3, <2>1 DEF ManagerOK, u
<1>6. CASE s.client[c] /= "Gone"
  <2>1. /\ s.client[c] = "Reading" /\ s.up[c] = << >> /\ AllIn(s.down[c], Answers \cup {"task"})
        /\ s.control[c].inbox = << >> /\ NoneAsked(T, s, c)
    BY <1>6 DEF Serves
  <2>2. s.down[c] \in Mail(T) /\ m.kind = "ready"
    BY <1>1 DEF SysOf, Mail
  <2>3. AllIn(r, Answers \cup {"task", "ready"}) /\ OnlyLast(r) /\ Complete(r)
    <3> HIDE DEF m
    <3> QED BY <2>1, <2>2, AppendDown
  <2> HIDE DEF r
  <2>4. DialogOK(u, c)
    BY <1>2, <1>6, <2>1, <2>3 DEF DialogOK
  <2>5. PendingOK(T, u, c)
    BY <1>2, <1>3, <1>6, <2>1 DEF PendingOK
  <2>6. ClientOK(T, u, c)
    BY <1>4, <2>4, <2>5 DEF ClientOK
  <2> QED BY <1>3, <2>6 DEF ManagerOK, u
<1> QED BY <1>5, <1>6

(* A new thread, whose queue has the event it was created with.            *)
LEMMA NewTask ==
  ASSUME NEW C
  PROVE  /\ task_create \in TaskRec(C) /\ task_create.state = "Start" /\ ~task_create.pid
         /\ NewOK(task_create) /\ \A i \in DOMAIN task_create.queue : task_create.queue[i].from = NULL
<1> DEFINE e == [ev |-> "Task", from |-> NULL]
           q == <<e>>
           none == << >>
           slot == [state |-> "Expect", inbox |-> none, ticks |-> 0, reply_to |-> FALSE]
<1>1. e \in EventRec(C) /\ e.from = NULL
  BY DEF EventRec, Signals
<1>2. q \in Seq(EventRec(C)) /\ q /= << >> /\ q[1] = e /\ DOMAIN q = {1}
  <2> HIDE DEF e
  <2> QED BY <1>1
<1>3. none \in Seq(Words)
  OBVIOUS
<1>4. task_create = [state |-> "Start", pid |-> FALSE, required |-> FALSE, restart |-> FALSE,
                     alarms |-> 0, queue |-> q, slot |-> slot]
  BY DEF task_create
<1> HIDE DEF e, q, none
<1>5. slot \in SlotRec
  BY <1>3 DEF SlotRec
<1> HIDE DEF slot
<1> QED BY <1>1, <1>2, <1>4, <1>5 DEF TaskRec, TaskStates, NewOK

(* New threads for all tasks, when there is none left.                      *)
LEMMA Created ==
  ASSUME NEW T, NEW C, NULL \notin C, NEW s, NEW c \in C, Serves(T, C, s, c), s.tasks = << >>
  PROVE  Serves(T, C, create_task_threads(s), c)
<1> DEFINE u == create_task_threads(s)
           f == [t \in T |-> task_create]
<1>1. s \in SysOf(T, C) /\ TasksOK(T, C, s)
  BY DEF Serves, TasksOK
<1>2. s.task \in [T -> TaskRec(C)] /\ s.plan \in PlanRec(T, C) /\ s.running \in [T -> Nat]
  BY <1>1 DEF SysOf
<1>5. /\ task_create \in TaskRec(C) /\ task_create.state = "Start" /\ ~task_create.pid
      /\ NewOK(task_create) /\ \A i \in DOMAIN task_create.queue : task_create.queue[i].from = NULL
  BY NewTask
<1>6. u = [s EXCEPT !.tasks = s.plan.tasks, !.task = f]
  BY <1>2 DEF create_task_threads
<1> HIDE DEF u
<1>7. f \in [T -> TaskRec(C)] /\ \A t \in T : f[t] = task_create
  BY <1>5
<1> HIDE DEF f
<1>8. Distinct(s.plan.tasks) /\ ToSet(s.plan.tasks) = T /\ s.plan.tasks \in Seq(T)
  BY <1>1, <1>2 DEF TasksOK, PlanOK, PlanRec
<1>9. /\ u \in SysOf(T, C) /\ u.tasks = s.plan.tasks /\ u.task = f /\ u.running = s.running
      /\ u.unkilled = s.unkilled /\ u.plan = s.plan /\ u.ending = s.ending
      /\ u.client = s.client /\ u.control = s.control /\ u.up = s.up /\ u.down = s.down
  BY <1>1, <1>6, <1>7, <1>8 DEF SysOf
<1>10. \A t \in T : Live(u, t) /\ ~Live(s, t)
  BY <1>8, <1>9 DEF Live, ToSet
<1>11. \A t \in T : t \in s.unkilled
  BY <1>1, <1>10 DEF Serves, TasksOK, EndedOK
<1>12. \A t \in T : TaskOK(u, t)
  <2> SUFFICES ASSUME NEW t \in T PROVE TaskOK(u, t)
    OBVIOUS
  <2>1. u.task[t] = task_create
    BY <1>7, <1>9
  <2>2. NewOK(u.task[t]) /\ WatchedOK(u, t) /\ u.task[t].state /= "Gone"
    BY <1>5, <2>1 DEF WatchedOK
  <2>3. OrphansOK(u, t)
    BY <1>9, <1>11 DEF OrphansOK
  <2> QED BY <2>2, <2>3 DEF TaskOK
<1>13. TasksOK(T, C, u)
  <2>1. ActiveOK(T, u)
    BY <1>5, <1>7, <1>9 DEF ActiveOK
  <2>2. EndedOK(T, u)
    BY <1>10 DEF EndedOK
  <2>3. PlanOK(T, u) /\ Distinct(u.tasks)
    BY <1>8, <1>9 DEF PlanOK
  <2> QED BY <1>9, <1>12, <2>1, <2>2, <2>3 DEF TasksOK
<1>14. \A t \in T, d \in C : AsksAt(u, t, d) = {}
  <2> SUFFICES ASSUME NEW t \in T, NEW d \in C PROVE AsksAt(u, t, d) = {}
    OBVIOUS
  <2>1. u.task[t] = task_create /\ d /= NULL
    BY <1>7, <1>9
  <2> QED BY <1>5, <2>1 DEF AsksAt
<1>15. ASSUME NEW d \in C \ {c} PROVE ClientOK(T, u, d)
  <2>1. \A t \in T : Lost(u, t)
    BY <1>9, <1>11 DEF Lost
  <2>2. Kept(T, s, u, d)
    BY <1>9, <1>14, <2>1 DEF Kept, Unique
  <2> QED BY <1>1, <2>2, KeptIs DEF Serves
<1> QED BY <1>9, <1>13, <1>14, <1>15 DEF Serves, NoneAsked, u

LEMMA SmallestNumber ==
  ASSUME NEW N \in SUBSET Nat, N /= {}
  PROVE  Min(N) \in N
<1>1. \E j \in N : \A k \in N : ~(<<k, j>> \in OpToRel(<, Nat))
  BY NatLessThanWellFounded, WFMin
<1>2. PICK j \in N : \A k \in N : ~(<<k, j>> \in OpToRel(<, Nat))
  BY <1>1
<1>3. \A k \in N : j =< k
  <2> SUFFICES ASSUME NEW k \in N PROVE j =< k
    OBVIOUS
  <2>1. j \in Nat /\ k \in Nat
    OBVIOUS
  <2>2. ~(k < j)
    BY <1>2, <2>1 DEF OpToRel
  <2> QED BY <2>1, <2>2
<1> QED BY <1>3 DEF Min

(* What get_next_affected_task does of the three.                           *)
Requested(s, u, c, t, ev) ==
  LET k == s.control[c]
      q == s.task[t].queue
      r == [s.task[t] EXCEPT !.queue = Append(q, [ev |-> ev, from |-> c])]
  IN  u = [s EXCEPT !.control = [@ EXCEPT ![c] = [k EXCEPT !.state = "Waiting", !.asked = t]],
                    !.task = [@ EXCEPT ![t] = r]]

LEMMA NextIs ==
  ASSUME NEW T, NEW C, NULL \notin T, NEW s \in SysOf(T, C), NEW c \in C,
         s.control[c].command \in Commands, s.control[c].command.op \in DOMAIN Request,
         s.control[c].command.op = "refresh" => s.control[c].command.arg = NULL
  PROVE  LET u == get_next_affected_task(s, c)
         IN  \/ u = control_ready_for_command(s, c)
             \/ s.tasks = << >> /\ u = control_ready_for_command(create_task_threads(s), c)
             \/ \E t \in T, ev \in Requests : Live(s, t) /\ Requested(s, u, c, t, ev)
<1> DEFINE op    == s.control[c].command.op
           arg   == s.control[c].command.arg
           to    == Affected(s, arg)
           first == s.tasks[Min(to)]
           ev    == Request[op]
           u     == get_next_affected_task(s, c)
<1>1. s.tasks \in Seq(T)
  BY DEF SysOf
<1>2. to \in SUBSET Nat /\ to \subseteq DOMAIN s.tasks
  BY <1>1 DEF Affected
<1>3. CASE to /= {}
  <2>1. Min(to) \in DOMAIN s.tasks
    BY <1>2, <1>3, SmallestNumber
  <2>2. first \in T /\ Live(s, first)
    BY <1>1, <2>1 DEF Live, ToSet
  <2>3. ev \in Requests
    BY DEF Request, Requests
  <2>4. u = [s EXCEPT !.control[c].state = "Waiting", !.control[c].asked = first,
                      !.task[first].queue = Append(@, [ev |-> ev, from |-> c])]
    BY <1>3 DEF get_next_affected_task
  <2> HIDE DEF u, first, ev
  <2>5. Requested(s, u, c, first, ev)
    BY <2>2, <2>4 DEF Requested, SysOf
  <2> QED BY <2>2, <2>3, <2>5 DEF u
<1>4. CASE to = {} /\ op = "refresh"
  <2>1. s.tasks = << >>
    BY <1>1, <1>4 DEF Affected
  <2>2. u = control_ready_for_command(create_task_threads(s), c)
    BY <1>4 DEF get_next_affected_task
  <2> QED BY <2>1, <2>2
<1>5. CASE to = {} /\ op /= "refresh"
  <2>1. u = control_ready_for_command(s, c)
    BY <1>5 DEF get_next_affected_task
  <2> QED BY <2>1
<1> QED BY <1>3, <1>4, <1>5

LEMMA RequestedKeeps ==
  ASSUME NEW T, NEW C, NULL \notin T \cup C, NEW s, NEW c \in C, Serves(T, C, s, c),
         s.control[c].command \in Commands, s.control[c].command.op \in DOMAIN Request,
         s.control[c].command.op = "refresh" => s.control[c].command.arg = NULL,
         NEW t \in T, Live(s, t), NEW ev \in Requests, NEW u, Requested(s, u, c, t, ev)
  PROVE  ManagerOK(T, C, u)
<1> DEFINE waiting == "Waiting"
           e == [ev |-> ev, from |-> c]
           q == s.task[t].queue
           b == Append(q, e)
           r == [s.task[t] EXCEPT !.queue = b]
           f == [s.task EXCEPT ![t] = r]
           k == [s.control[c] EXCEPT !.state = waiting, !.asked = t]
           g == [s.control EXCEPT ![c] = k]
<1>1. s \in SysOf(T, C) /\ TasksOK(T, C, s) /\ (\A d \in C \ {c} : ClientOK(T, s, d))
  BY DEF Serves, TasksOK
<1>2. s.task \in [T -> TaskRec(C)] /\ s.control \in [C -> ControlRec(T)]
  BY <1>1 DEF SysOf
<1>3. u = [s EXCEPT !.control = g, !.task = f]
  BY DEF Requested
<1>4. e \in EventRec(C) /\ e.from = c /\ e.ev /= "Alarm"
  BY DEF EventRec, Requests
<1>5. waiting \in ControlStates /\ waiting = "Waiting"
  BY DEF ControlStates
<1> HIDE DEF e, waiting
<1>6. q \in Seq(EventRec(C))
  BY <1>2 DEF TaskRec
<1>7. b \in Seq(EventRec(C))
  BY <1>4, <1>6
<1>8. /\ DOMAIN q = 1 .. Len(q) /\ Len(q) \in Nat /\ DOMAIN b = 1 .. Len(q) + 1
      /\ b[Len(q) + 1] = e /\ \A i \in 1 .. Len(q) : b[i] = q[i]
  BY <1>4, <1>6
<1>9. b = Append(q, e)
  OBVIOUS
<1> HIDE DEF b
<1>10. /\ r \in TaskRec(C) /\ r.queue = b
       /\ r.state = s.task[t].state /\ r.pid = s.task[t].pid /\ r.required = s.task[t].required
       /\ r.alarms = s.task[t].alarms
  BY <1>2, <1>7 DEF TaskRec
<1>11. /\ k \in ControlRec(T) /\ k.state = "Waiting" /\ k.asked = t
       /\ k.command = s.control[c].command /\ k.inbox = s.control[c].inbox
  BY <1>2, <1>5 DEF ControlRec
<1> HIDE DEF r, k
<1>12. f \in [T -> TaskRec(C)] /\ f[t] = r /\ \A x \in T \ {t} : f[x] = s.task[x]
  BY <1>2, <1>10
<1>13. g \in [C -> ControlRec(T)] /\ g[c] = k /\ \A d \in C \ {c} : g[d] = s.control[d]
  BY <1>2, <1>11
<1> HIDE DEF f, g
<1>14. /\ u \in SysOf(T, C) /\ u.task = f /\ u.control = g
       /\ u.tasks = s.tasks /\ u.running = s.running /\ u.unkilled = s.unkilled /\ u.active = s.active
       /\ u.ending = s.ending /\ u.plan = s.plan
       /\ u.client = s.client /\ u.up = s.up /\ u.down = s.down
  BY <1>1, <1>3, <1>12, <1>13 DEF SysOf
<1>15. TasksOK(T, C, u)
  <2>1. \A x \in T : Longer(C, s.task[x], u.task[x])
    BY <1>4, <1>9, <1>10, <1>12, <1>14 DEF Longer
  <2>2. \A x \in T : s.running[x] \in Nat /\ u.running[x] <= s.running[x]
    BY <1>1, <1>14 DEF SysOf
  <2>3. \A x \in T : /\ u.task[x].state = s.task[x].state /\ u.task[x].pid = s.task[x].pid
                     /\ u.task[x].required = s.task[x].required /\ u.task[x].alarms = s.task[x].alarms
    BY <1>10, <1>12, <1>14
  <2>4. Lengthened(T, C, s, u)
    BY <1>14, <2>1, <2>2, <2>3 DEF Lengthened
  <2> QED BY <1>1, <2>4, LengthenedKeeps
<1>16. \A x : Lost(u, x) <=> Lost(s, x)
  BY <1>14 DEF Lost, Live
<1>17. \A x \in T \ {t}, d \in C : AsksAt(u, x, d) = AsksAt(s, x, d)
  BY <1>12, <1>14 DEF AsksAt
<1>18. u.task[t].queue = b
  BY <1>10, <1>12, <1>14
<1>19. ASSUME NEW d \in C \ {c} PROVE AsksAt(u, t, d) = AsksAt(s, t, d)
  <2>1. {i \in DOMAIN b : b[i].from = d} = {i \in DOMAIN q : q[i].from = d}
    <3> HIDE DEF q
    <3> QED BY <1>4, <1>8
  <2> QED BY <1>18, <2>1 DEF AsksAt
<1>20. ASSUME NEW d \in C \ {c} PROVE ClientOK(T, u, d)
  <2>1. \A x \in T : AsksAt(u, x, d) = AsksAt(s, x, d)
    BY <1>17, <1>19
  <2>2. u.control[d] = s.control[d]
    BY <1>13, <1>14
  <2>3. s.control[d].state = "Waiting" => s.control[d].asked /= NULL
    BY <1>1 DEF ClientOK, WaitsOK
  <2>4. Kept(T, s, u, d)
    BY <1>14, <1>16, <2>1, <2>2 DEF Kept, Unique
  <2> QED BY <1>1, <2>4, KeptIs
<1>21. AsksAt(u, t, c) /= {}
  <2>1. Len(q) + 1 \in DOMAIN b /\ b[Len(q) + 1].from = c
    BY <1>4, <1>8
  <2> QED BY <1>18, <2>1 DEF AsksAt
<1>22. u.control[c] = k
  BY <1>13, <1>14
<1>23. WaitsOK(u, c)
  <2>1. t /= NULL /\ k.command \in Commands
    BY <1>11
  <2> QED BY <1>11, <1>21, <1>22, <2>1 DEF WaitsOK
<1>24. CASE s.client[c] = "Gone"
  <2>1. ClientOK(T, u, c)
    BY <1>14, <1>23, <1>24 DEF ClientOK, DialogOK, Follows
  <2> QED BY <1>15, <1>20, <2>1 DEF ManagerOK
<1>25. CASE s.client[c] /= "Gone"
  <2>1. /\ s.client[c] = "Reading" /\ s.up[c] = << >> /\ AllIn(s.down[c], Answers \cup {"task"})
        /\ s.control[c].inbox = << >> /\ NoneAsked(T, s, c)
    BY <1>25 DEF Serves
  <2>2. s.down[c] \in Mail(T)
    BY <1>1 DEF SysOf, Mail
  <2>3. ~Complete(s.down[c]) /\ AllIn(s.down[c], Answers \cup {"task", "ready"}) /\ OnlyLast(s.down[c])
    BY <2>1, <2>2, AppendDown
  <2>4. DialogOK(u, c)
    BY <1>11, <1>14, <1>22, <2>1, <2>3 DEF DialogOK
  <2>5. \A x \in T \ {t} : AsksAt(u, x, c) = {}
    BY <1>17, <2>1 DEF NoneAsked
  <2>6. \A i \in AsksAt(u, t, c) : i = Len(q) + 1
    <3>1. \A i \in DOMAIN q : q[i].from /= c
      BY <2>1 DEF NoneAsked, AsksAt
    <3>2. \A i \in DOMAIN b : b[i].from = c => i = Len(q) + 1
      <4> HIDE DEF q
      <4> QED BY <1>8, <3>1
    <3> QED BY <1>18, <3>2 DEF AsksAt
  <2>7. PendingOK(T, u, c)
    <3> HIDE DEF q
    <3> QED BY <1>11, <1>22, <2>1, <2>5, <2>6 DEF PendingOK
  <2> QED BY <1>15, <1>20, <1>23, <2>4, <2>7 DEF ManagerOK, ClientOK
<1> QED BY <1>24, <1>25

LEMMA ServedNext ==
  ASSUME NEW T, NEW C, NULL \notin T \cup C, NEW s, NEW c \in C, Serves(T, C, s, c),
         s.control[c].command \in Commands, s.control[c].command.op \in DOMAIN Request,
         s.control[c].command.op = "refresh" => s.control[c].command.arg = NULL
  PROVE  ManagerOK(T, C, get_next_affected_task(s, c))
<1> DEFINE u == get_next_affected_task(s, c)
<1>1. s \in SysOf(T, C)
  BY DEF Serves, TasksOK
<1>2. \/ u = control_ready_for_command(s, c)
      \/ s.tasks = << >> /\ u = control_ready_for_command(create_task_threads(s), c)
      \/ \E t \in T, ev \in Requests : Live(s, t) /\ Requested(s, u, c, t, ev)
  BY <1>1, NextIs
<1>3. CASE u = control_ready_for_command(s, c)
  BY <1>3, ServedReady
<1>4. CASE s.tasks = << >> /\ u = control_ready_for_command(create_task_threads(s), c)
  <2>1. Serves(T, C, create_task_threads(s), c)
    BY <1>4, Created
  <2>2. ManagerOK(T, C, control_ready_for_command(create_task_threads(s), c))
    BY <2>1, ServedReady
  <2> QED BY <1>4, <2>2
<1>5. ASSUME NEW t \in T, NEW ev \in Requests, Live(s, t), Requested(s, u, c, t, ev) PROVE ManagerOK(T, C, u)
  BY <1>5, RequestedKeeps
<1> QED BY <1>2, <1>3, <1>4, <1>5

LEMMA Incomplete ==
  ASSUME NEW T, NEW q \in Mail(T), AllIn(q, Answers \cup {"task", "ready"}), OnlyLast(q), ~Complete(q)
  PROVE  AllIn(q, Answers \cup {"task"})
<1>1. q \in Seq(MessageRec(T))
  BY DEF Mail
<1>2. Len(q) \in Nat /\ DOMAIN q = 1 .. Len(q)
  BY <1>1
<1>3. ASSUME NEW i \in DOMAIN q, q[i].kind = "ready" PROVE FALSE
  <2>1. i = Len(q) /\ q /= << >>
    BY <1>2, <1>3 DEF OnlyLast
  <2> QED BY <1>3, <2>1 DEF Complete
<1> QED BY <1>3 DEF AllIn

LEMMA HearsKeeps ==
  ASSUME NEW T, NEW C, NULL \notin T \cup C, ManagerOK(T, C, sys), NEW c \in C, ControlHears(c)
  PROVE  ManagerOK(T, C, sys')
<1> DEFINE r == sys.control[c].inbox[1]
           q == Tail(sys.control[c].inbox)
           k == [sys.control[c] EXCEPT !.inbox = q]
           n == sys.plan.answers - 1
           p == [sys.plan EXCEPT !.answers = n]
           v == [sys EXCEPT !.control = [@ EXCEPT ![c] = k]]
           s == [v EXCEPT !.plan = p]
           w == IF Passed(sys, c, r.kind) THEN Put(s, c, r.kind, r.of) ELSE s
<1>1. sys \in SysOf(T, C) /\ TasksOK(T, C, sys) /\ \A d \in C : ClientOK(T, sys, d)
  BY DEF ManagerOK, TasksOK
<1>2. sys.control[c] \in ControlRec(T) /\ sys.plan \in PlanRec(T, C)
  BY <1>1 DEF SysOf
<1>3. sys.control[c].inbox /= << >> /\ sys.control[c].state = "Waiting" /\ ~sys.ending
  BY DEF ControlHears
<1>4. sys.control[c].inbox \in Seq(MessageRec(T))
  BY <1>2 DEF ControlRec
<1>5. q \in Seq(MessageRec(T)) /\ r \in MessageRec(T) /\ Len(q) = Len(sys.control[c].inbox) - 1
  BY <1>3, <1>4
<1>6. sys' = get_next_affected_task(w, c)
  <2> DEFINE x == [sys EXCEPT !.control[c].inbox = Tail(@), !.plan.answers = @ - 1]
  <2>1. x = s
    BY DEF SysOf
  <2>2. sys' = get_next_affected_task(IF Passed(sys, c, r.kind) THEN Put(x, c, r.kind, r.of) ELSE x, c)
    BY DEF ControlHears
  <2> HIDE DEF x, s
  <2> QED BY <2>1, <2>2
<1> HIDE DEF q, r
<1>7. /\ k \in ControlRec(T) /\ k.inbox = q /\ k.state = "Waiting" /\ k.command = sys.control[c].command
  BY <1>2, <1>3, <1>5 DEF ControlRec
<1>8. p \in PlanRec(T, C) /\ p.tasks = sys.plan.tasks
  <2>1. n \in Int
    BY <1>2 DEF PlanRec
  <2> HIDE DEF n
  <2> QED BY <1>2, <2>1 DEF PlanRec
<1> HIDE DEF k, p
<1>9. /\ Apart(T, C, sys, v, c) /\ v.control[c] = k
      /\ v.client = sys.client /\ v.up = sys.up /\ v.down = sys.down /\ v.plan = sys.plan /\ v.ending = sys.ending
  BY <1>1, <1>7, SetControl
<1> HIDE DEF v
<1>10. v \in SysOf(T, C)
  BY <1>9 DEF Apart
<1>11. /\ Apart(T, C, v, s, c) /\ s.ending = v.ending
       /\ s.client = v.client /\ s.up = v.up /\ s.down = v.down /\ s.control = v.control
  BY <1>8, <1>9, <1>10, SetPlan
<1> HIDE DEF s
<1>12. Apart(T, C, sys, s, c) /\ s \in SysOf(T, C)
  BY <1>9, <1>11, ApartTwice DEF Apart
<1> DEFINE kind == r.kind
           of   == r.of
           u    == Put(s, c, kind, of)
           m    == [kind |-> kind, of |-> of]
<1>13. kind \in Kinds /\ of \in T \cup {NULL}
  BY <1>5 DEF MessageRec
<1> HIDE DEF kind, of
<1>14. /\ Apart(T, C, s, u, c)
       /\ u.client = s.client /\ u.up = s.up /\ u.ending = s.ending
       /\ u.control[c].command = s.control[c].command
       /\ s.client[c] /= "Gone" => u.control = s.control /\ u.down[c] = Append(s.down[c], m)
  BY <1>12, <1>13, PutIs
<1>15. w = u \/ w = s
  BY DEF kind, of
<1> HIDE DEF u, w
<1>16. Apart(T, C, sys, u, c)
  BY <1>12, <1>14, ApartTwice
<1>17. /\ Apart(T, C, sys, w, c) /\ w.client = sys.client /\ w.up = sys.up /\ w.ending = sys.ending
       /\ w.control[c].command = sys.control[c].command
  BY <1>7, <1>9, <1>11, <1>12, <1>14, <1>15, <1>16
<1>18. /\ TasksOK(T, C, w) /\ (\A d \in C \ {c} : ClientOK(T, w, d))
       /\ NoneAsked(T, sys, c) => NoneAsked(T, w, c)
  BY <1>1, <1>17, ApartLeaves
<1>19. ASSUME sys.client[c] /= "Gone"
       PROVE  /\ w.client[c] = "Reading" /\ w.up[c] = << >> /\ AllIn(w.down[c], Answers \cup {"task"})
              /\ w.control[c].inbox = << >> /\ NoneAsked(T, w, c)
  <2>1. Len(sys.control[c].inbox) = 1 /\ kind \in Answers /\ NoneAsked(T, sys, c)
    BY <1>1, <1>3, <1>19 DEF ClientOK, Follows, PendingOK, kind, r
  <2>2. /\ sys.client[c] = "Reading" /\ sys.up[c] = << >>
        /\ AllIn(sys.down[c], Answers \cup {"task", "ready"}) /\ OnlyLast(sys.down[c]) /\ ~Complete(sys.down[c])
    BY <1>1, <1>3, <1>19 DEF ClientOK, DialogOK
  <2>3. sys.down[c] \in Mail(T)
    BY <1>1 DEF SysOf, Mail
  <2>4. AllIn(sys.down[c], Answers \cup {"task"})
    BY <2>2, <2>3, Incomplete
  <2>5. s.control[c].inbox = << >>
    BY <1>5, <1>7, <1>9, <1>11, <2>1
  <2>6. m.kind \in Answers \cup {"task"}
    BY <2>1
  <2> HIDE DEF m
  <2>7. AllIn(Append(sys.down[c], m), Answers \cup {"task"})
    BY <2>3, <2>4, <2>6, AppendDown
  <2>8. AllIn(w.down[c], Answers \cup {"task"}) /\ w.control[c].inbox = << >>
    BY <1>9, <1>11, <1>14, <1>15, <1>19, <2>4, <2>5, <2>7
  <2> QED BY <1>17, <1>18, <2>1, <2>2, <2>8
<1>20. Serves(T, C, w, c)
  BY <1>3, <1>17, <1>18, <1>19 DEF Serves
<1>21. /\ w.control[c].command \in Commands /\ w.control[c].command.op \in DOMAIN Request
       /\ w.control[c].command.op = "refresh" => w.control[c].command.arg = NULL
  BY <1>1, <1>3, <1>17 DEF ClientOK, WaitsOK
<1> QED BY <1>6, <1>20, <1>21, ServedNext

(* One message for each task.                                               *)
LEMMA ListedMail ==
  ASSUME NEW T, NEW p \in Seq(T), NEW q \in Mail(T), NEW m, DOMAIN m = DOMAIN p,
         \A i \in DOMAIN p : m[i] \in MessageRec(T), m = [i \in DOMAIN p |-> m[i]]
  PROVE  /\ q \o m \in Mail(T)
         /\ AllIn(q, Answers \cup {"task"}) /\ (\A i \in DOMAIN p : m[i].kind = "task") =>
              AllIn(q \o m, Answers \cup {"task"})
<1>1. m \in Seq(MessageRec(T)) /\ DOMAIN m = 1 .. Len(m) /\ Len(m) \in Nat
  <2>1. DOMAIN p = 1 .. Len(p) /\ Len(p) \in Nat
    OBVIOUS
  <2>2. m \in [1 .. Len(p) -> MessageRec(T)]
    BY <2>1
  <2>3. m \in Seq(MessageRec(T))
    BY <2>1, <2>2
  <2> QED BY <2>3
<1>2. q \in Seq(MessageRec(T)) /\ DOMAIN q = 1 .. Len(q) /\ Len(q) \in Nat
  BY DEF Mail
<1> DEFINE b == q \o m
<1>3. /\ b \in Seq(MessageRec(T)) /\ DOMAIN b = 1 .. Len(q) + Len(m)
      /\ \A i \in 1 .. Len(q) + Len(m) : b[i] = IF i <= Len(q) THEN q[i] ELSE m[i - Len(q)]
  BY <1>1, <1>2
<1> HIDE DEF b
<1>4. ASSUME AllIn(q, Answers \cup {"task"}), \A i \in DOMAIN p : m[i].kind = "task", NEW i \in DOMAIN b
      PROVE  b[i].kind \in Answers \cup {"task"}
  <2>0. i \in 1 .. Len(q) + Len(m) /\ b[i] = IF i <= Len(q) THEN q[i] ELSE m[i - Len(q)]
    BY <1>3
  <2>1. CASE i <= Len(q)
    <3>1. i \in DOMAIN q
      BY <1>2, <2>0, <2>1
    <3>2. b[i] = q[i]
      BY <2>0, <2>1
    <3> QED BY <1>4, <3>1, <3>2 DEF AllIn
  <2>2. CASE ~(i <= Len(q))
    <3>1. i - Len(q) \in 1 .. Len(m)
      BY <1>1, <1>2, <2>0, <2>2
    <3>2. b[i] = m[i - Len(q)]
      BY <2>0, <2>2
    <3> QED BY <1>1, <1>4, <3>1, <3>2
  <2> QED BY <2>1, <2>2
<1> QED BY <1>3, <1>4 DEF b, Mail, AllIn

LEMMA ListServes ==
  ASSUME NEW T, NEW C, NEW s, NEW c \in C, Serves(T, C, s, c)
  PROVE  Serves(T, C, control_list_of_tasks(s, c), c)
<1> DEFINE u == control_list_of_tasks(s, c)
<1>1. s \in SysOf(T, C) /\ TasksOK(T, C, s) /\ (\A d \in C \ {c} : ClientOK(T, s, d)) /\ ~s.ending
  BY DEF Serves, TasksOK
<1>2. s.tasks \in Seq(T) /\ s.control[c] \in ControlRec(T) /\ s.down[c] \in Mail(T)
  BY <1>1 DEF SysOf, Mail
<1>3. CASE s.client[c] = "Gone"
  <2> DEFINE closed == [kind |-> "closed", of |-> NULL]
             m == [i \in DOMAIN s.tasks |-> closed]
             b == s.control[c].inbox \o m
             k == [s.control[c] EXCEPT !.inbox = b]
             w == [s EXCEPT !.control = [@ EXCEPT ![c] = k]]
  <2>1. closed \in MessageRec(T)
    BY DEF MessageRec, Kinds
  <2>2. u = w
    BY <1>3 DEF control_list_of_tasks
  <2> HIDE DEF closed
  <2>3. s.control[c].inbox \in Mail(T)
    BY <1>2 DEF ControlRec, Mail
  <2>4. /\ DOMAIN m = DOMAIN s.tasks /\ (\A i \in DOMAIN s.tasks : m[i] \in MessageRec(T))
        /\ m = [i \in DOMAIN s.tasks |-> m[i]]
    BY <2>1
  <2> HIDE DEF m
  <2>5. b \in Mail(T)
    BY <1>2, <2>3, <2>4, ListedMail
  <2> HIDE DEF b
  <2>6. k \in ControlRec(T)
    BY <1>2, <2>5 DEF ControlRec, Mail
  <2> HIDE DEF k
  <2>7. Apart(T, C, s, w, c) /\ w.client = s.client /\ w.ending = s.ending
    BY <1>1, <2>6, SetControl
  <2> HIDE DEF w
  <2>8. TasksOK(T, C, w) /\ (\A d \in C \ {c} : ClientOK(T, w, d))
    BY <1>1, <2>7, ApartLeaves
  <2> QED BY <1>1, <1>3, <2>2, <2>7, <2>8 DEF Serves
<1>4. CASE s.client[c] /= "Gone"
  <2> DEFINE task == "task"
             m == [i \in DOMAIN s.tasks |-> [kind |-> task, of |-> s.tasks[i]]]
             b == s.down[c] \o m
             w == [s EXCEPT !.down = [@ EXCEPT ![c] = b]]
  <2>1. task \in Kinds /\ task = "task"
    BY DEF Kinds
  <2>2. u = w
    BY <1>4 DEF control_list_of_tasks
  <2> HIDE DEF task
  <2>3. /\ DOMAIN m = DOMAIN s.tasks /\ (\A i \in DOMAIN s.tasks : m[i] \in MessageRec(T) /\ m[i].kind = "task")
        /\ m = [i \in DOMAIN s.tasks |-> m[i]]
    <3>1. \A i \in DOMAIN s.tasks : s.tasks[i] \in T
      BY <1>2
    <3> QED BY <2>1, <3>1 DEF MessageRec
  <2> HIDE DEF m
  <2>4. /\ s.client[c] = "Reading" /\ s.up[c] = << >> /\ AllIn(s.down[c], Answers \cup {"task"})
        /\ s.control[c].inbox = << >> /\ NoneAsked(T, s, c)
    BY <1>4 DEF Serves
  <2>5. b \in Mail(T) /\ AllIn(b, Answers \cup {"task"})
    BY <1>2, <2>3, <2>4, ListedMail
  <2> HIDE DEF b
  <2>6. /\ Apart(T, C, s, w, c) /\ w.down[c] = b
        /\ w.client = s.client /\ w.up = s.up /\ w.control = s.control /\ w.ending = s.ending
    BY <1>1, <2>5, SetDown
  <2> HIDE DEF w
  <2>7. TasksOK(T, C, w) /\ (\A d \in C \ {c} : ClientOK(T, w, d)) /\ NoneAsked(T, w, c)
    BY <1>1, <2>4, <2>6, ApartLeaves
  <2> QED BY <1>1, <2>2, <2>4, <2>5, <2>6, <2>7 DEF Serves
<1> QED BY <1>3, <1>4

(* The client and its control thread agree to halt.                         *)
LEMMA HaltKeeps ==
  ASSUME NEW T, NEW C, NEW s, NEW c \in C, TasksOK(T, C, s), \A d \in C \ {c} : ClientOK(T, s, d),
         \/ s.client[c] = "Gone"
         \/ /\ s.client[c] = "Halting" /\ s.up[c] = << >> /\ AllIn(s.down[c], {"halting"})
            /\ s.control[c].inbox = << >> /\ NoneAsked(T, s, c)
  PROVE  ManagerOK(T, C, Put([s EXCEPT !.control[c].state = "Committing"], c, "halting", NULL))
<1> DEFINE committing == "Committing"
           k == [s.control[c] EXCEPT !.state = committing]
           v == [s EXCEPT !.control = [@ EXCEPT ![c] = k]]
           kind == "halting"
           m == [kind |-> kind, of |-> NULL]
           b == Append(s.down[c], m)
           u == Put(v, c, kind, NULL)
<1>1. s \in SysOf(T, C) /\ committing \in ControlStates /\ committing = "Committing"
      /\ kind \in Kinds /\ kind = "halting"
  BY DEF TasksOK, ControlStates, Kinds
<1>2. s.control[c] \in ControlRec(T) /\ s.down[c] \in Mail(T)
  BY <1>1 DEF SysOf, Mail
<1>3. Put([s EXCEPT !.control[c].state = "Committing"], c, "halting", NULL) = u
  OBVIOUS
<1> HIDE DEF committing, kind
<1>4. k \in ControlRec(T) /\ k.state = "Committing" /\ k.inbox = s.control[c].inbox
  BY <1>1, <1>2 DEF ControlRec
<1> HIDE DEF k
<1>5. /\ Apart(T, C, s, v, c) /\ v.control[c] = k
      /\ v.client = s.client /\ v.up = s.up /\ v.down = s.down
  BY <1>1, <1>4, SetControl
<1> HIDE DEF v
<1>6. v \in SysOf(T, C)
  BY <1>5 DEF Apart
<1>7. /\ Apart(T, C, v, u, c) /\ u.client = v.client /\ u.up = v.up
      /\ u.control[c].state = v.control[c].state
      /\ v.client[c] /= "Gone" => u.control = v.control /\ u.down[c] = Append(v.down[c], m)
  BY <1>1, <1>6, PutIs
<1> HIDE DEF u
<1>8. Apart(T, C, s, u, c)
  BY <1>5, <1>7, ApartTwice
<1>9. TasksOK(T, C, u) /\ (\A d \in C \ {c} : ClientOK(T, u, d)) /\ (NoneAsked(T, s, c) => NoneAsked(T, u, c))
  BY <1>8, ApartLeaves
<1>10. u.client[c] = s.client[c] /\ u.up[c] = s.up[c] /\ u.control[c].state = "Committing" /\ WaitsOK(u, c)
  BY <1>4, <1>5, <1>7 DEF WaitsOK
<1>11. CASE s.client[c] = "Gone"
  <2>1. ClientOK(T, u, c)
    BY <1>10, <1>11 DEF ClientOK, DialogOK, Follows
  <2> QED BY <1>3, <1>9, <2>1 DEF ManagerOK
<1>12. CASE s.client[c] /= "Gone"
  <2>1. /\ s.client[c] = "Halting" /\ s.up[c] = << >> /\ AllIn(s.down[c], {"halting"})
        /\ s.control[c].inbox = << >> /\ NoneAsked(T, s, c)
    BY <1>12
  <2>2. u.down[c] = b /\ u.control[c].inbox = << >> /\ m.kind = "halting"
    BY <1>1, <1>4, <1>5, <1>7, <2>1
  <2> HIDE DEF m
  <2>3. AllIn(b, {"halting"})
    <3> DEFINE q == s.down[c]
    <3>1. q \in Seq(MessageRec(T))
      BY <1>2 DEF Mail
    <3> HIDE DEF q
    <3>2. /\ DOMAIN q = 1 .. Len(q) /\ DOMAIN Append(q, m) = 1 .. Len(q) + 1 /\ Len(q) \in Nat
          /\ Append(q, m)[Len(q) + 1] = m /\ \A i \in 1 .. Len(q) : Append(q, m)[i] = q[i]
      BY <3>1
    <3>3. \A i \in 1 .. Len(q) + 1 : Append(q, m)[i].kind = "halting"
      BY <2>1, <2>2, <3>2 DEF AllIn, q
    <3> QED BY <3>2, <3>3 DEF AllIn, q
  <2> HIDE DEF b
  <2>4. DialogOK(u, c)
    BY <1>10, <2>1, <2>2, <2>3 DEF DialogOK
  <2>5. PendingOK(T, u, c)
    BY <1>9, <1>10, <2>1, <2>2 DEF PendingOK
  <2> QED BY <1>3, <1>9, <1>10, <2>4, <2>5 DEF ManagerOK, ClientOK
<1> QED BY <1>11, <1>12

LEMMA ReadsKeeps ==
  ASSUME NEW T, NEW C, NULL \notin T \cup C, ManagerOK(T, C, sys), NEW c \in C, ControlReads(c)
  PROVE  ManagerOK(T, C, sys')
<1> DEFINE command == sys.up[c][1]
           q == Tail(sys.up[c])
           s == [sys EXCEPT !.up = [@ EXCEPT ![c] = q]]
           meant == IF command.op = "refresh" THEN force_all_tasks(command) ELSE command
           k == [s.control[c] EXCEPT !.command = meant]
           u == [s EXCEPT !.control = [@ EXCEPT ![c] = k]]
           before == sys.control[c]
<1>1. sys \in SysOf(T, C) /\ TasksOK(T, C, sys) /\ \A d \in C : ClientOK(T, sys, d)
  BY DEF ManagerOK, TasksOK
<1>2. before \in ControlRec(T) /\ sys.up[c] \in Seq(Commands)
  BY <1>1 DEF SysOf
<1>3. sys.up[c] /= << >> /\ before.state = "Reading" /\ ~sys.ending
  BY DEF ControlReads
<1>4. q \in Orders /\ command \in Commands /\ (Len(sys.up[c]) = 1 => q = << >>)
  <2>1. q \in Seq(Commands) /\ command \in Commands /\ Len(q) = Len(sys.up[c]) - 1
    BY <1>2, <1>3
  <2> HIDE DEF q
  <2>2. Len(q) = 0 => q = << >>
    BY <2>1
  <2> QED BY <2>1, <2>2 DEF Orders
<1>5. sys' = Command(s, c, command)
  BY DEF ControlReads
<1>6. \/ command.op = "list"   /\ sys' = control_ready_for_command(control_list_of_tasks(u, c), c)
      \/ command.op = "halt"   /\ sys' = Put([u EXCEPT !.control[c].state = "Committing"], c, "halting", NULL)
      \/ command.op \in DOMAIN Request /\ sys' = get_next_affected_task(u, c)
  <2>1. command.op \in DOMAIN Request \cup {"list", "halt"}
    BY <1>4 DEF Commands
  <2>2. u = [s EXCEPT !.control[c].command = meant]
    OBVIOUS
  <2> HIDE DEF u, meant, s, command
  <2>3. [s EXCEPT !.control[c].command = IF command.op = "refresh" THEN force_all_tasks(command) ELSE command] = u
    BY <2>2 DEF meant
  <2>4. CASE command.op = "list"
    BY <1>5, <2>3, <2>4 DEF Command
  <2>5. CASE command.op = "halt"
    BY <1>5, <2>3, <2>5 DEF Command
  <2>6. CASE command.op \notin {"list", "halt"}
    BY <1>5, <2>1, <2>3, <2>6 DEF Command
  <2> QED BY <2>4, <2>5, <2>6
<1>7. /\ meant \in Commands /\ meant.op = command.op
      /\ meant.op = "refresh" => meant.arg = NULL
  <2>1. command.op \in DOMAIN Request \cup {"list", "halt"} /\ command.arg \in Names /\ NULL \in Names
        /\ command = [op |-> command.op, arg |-> command.arg]
    BY <1>4 DEF Commands, Names
  <2> HIDE DEF command
  <2> QED BY <2>1, <1>4 DEF force_all_tasks, Commands
<1> HIDE DEF q, command, meant
<1>8. /\ Apart(T, C, sys, s, c) /\ s.up[c] = q
      /\ s.client = sys.client /\ s.down = sys.down /\ s.control = sys.control /\ s.ending = sys.ending
  BY <1>1, <1>4, SetUp
<1> HIDE DEF s
<1>9. s \in SysOf(T, C)
  BY <1>8 DEF Apart
<1>10. k \in ControlRec(T) /\ k.command = meant /\ k.inbox = before.inbox
  BY <1>2, <1>7, <1>8 DEF ControlRec
<1> HIDE DEF k
<1>11. /\ Apart(T, C, s, u, c) /\ u.control[c] = k
       /\ u.client = s.client /\ u.up = s.up /\ u.down = s.down /\ u.ending = s.ending
  BY <1>9, <1>10, SetControl
<1> HIDE DEF u
<1>12. Apart(T, C, sys, u, c)
  BY <1>8, <1>11, ApartTwice
<1>13. /\ TasksOK(T, C, u) /\ (\A d \in C \ {c} : ClientOK(T, u, d))
       /\ NoneAsked(T, sys, c) => NoneAsked(T, u, c)
  BY <1>1, <1>12, ApartLeaves
<1>14. u.client[c] = sys.client[c] /\ u.up[c] = q /\ u.down[c] = sys.down[c] /\ u.control[c] = k /\ ~u.ending
  BY <1>3, <1>8, <1>11
<1>15. sys.client[c] /= "Gone" =>
         /\ q = << >> /\ before.inbox = << >> /\ NoneAsked(T, sys, c)
         /\ \/ sys.client[c] = "Reading" /\ command.op /= "halt" /\ sys.down[c] = << >>
            \/ sys.client[c] = "Halting" /\ command.op = "halt" /\ AllIn(sys.down[c], {"halting"})
  <2> SUFFICES ASSUME sys.client[c] /= "Gone"
               PROVE  /\ q = << >> /\ before.inbox = << >> /\ NoneAsked(T, sys, c)
                      /\ \/ sys.client[c] = "Reading" /\ command.op /= "halt" /\ sys.down[c] = << >>
                         \/ sys.client[c] = "Halting" /\ command.op = "halt" /\ AllIn(sys.down[c], {"halting"})
    OBVIOUS
  <2>1. DialogOK(sys, c) /\ PendingOK(T, sys, c)
    BY <1>1 DEF ClientOK, Follows
  <2>2. before.inbox = << >> /\ NoneAsked(T, sys, c)
    BY <1>3, <2>1 DEF PendingOK
  <2>3. /\ Len(sys.up[c]) = 1
        /\ \/ sys.client[c] = "Reading" /\ command.op /= "halt" /\ sys.down[c] = << >>
           \/ sys.client[c] = "Halting" /\ command.op = "halt" /\ AllIn(sys.down[c], {"halting"})
    BY <1>3, <2>1 DEF DialogOK, command
  <2> QED BY <1>4, <2>2, <2>3
<1>16. CASE command.op /= "halt"
  <2>1. AllIn(<< >>, Answers \cup {"task"})
    BY DEF AllIn
  <2>2. Serves(T, C, u, c)
    BY <1>10, <1>13, <1>14, <1>15, <1>16, <2>1 DEF Serves
  <2>3. CASE command.op = "list"
    <3>1. ManagerOK(T, C, control_ready_for_command(control_list_of_tasks(u, c), c))
      BY <2>2, ListServes, ServedReady
    <3> QED BY <1>6, <2>3, <3>1 DEF Request
  <2>4. CASE command.op /= "list"
    <3>1. u.control[c].command = meant
      BY <1>10, <1>14
    <3>2. command.op \in DOMAIN Request /\ sys' = get_next_affected_task(u, c)
      BY <1>6, <1>16, <2>4
    <3>3. ManagerOK(T, C, get_next_affected_task(u, c))
      BY <1>7, <2>2, <3>1, <3>2, ServedNext
    <3> QED BY <3>2, <3>3
  <2> QED BY <2>3, <2>4
<1>17. CASE command.op = "halt"
  <2>1. sys' = Put([u EXCEPT !.control[c].state = "Committing"], c, "halting", NULL)
    BY <1>6, <1>17 DEF Request
  <2>2. ManagerOK(T, C, Put([u EXCEPT !.control[c].state = "Committing"], c, "halting", NULL))
    BY <1>10, <1>13, <1>14, <1>15, <1>17, HaltKeeps
  <2> QED BY <2>1, <2>2
<1> QED BY <1>16, <1>17

-----------------------------------------------------------------------------
(* The system.                                                              *)
SystemKept == ManagerKept /\ NULL \notin TaskNames \cup Clients

LEMMA Begins ==
  ASSUME GoodPlans, MInit
  PROVE  SystemKept
<1>1. PICK plan \in Plans :
  sys = [plan |-> plan, tasks |-> plan.tasks, task  |-> [t \in ToSet(plan.tasks) |-> task_create],
         running |-> [t \in ToSet(plan.tasks) |-> 0], unkilled |-> {}, active |-> FALSE, ending |-> FALSE,
         client  |-> [c \in DOMAIN plan.script |-> "Making"],
         control |-> [c \in DOMAIN plan.script |-> [state |-> "New", command |-> NULL, asked |-> NULL, inbox |-> << >>]],
         up   |-> [c \in DOMAIN plan.script |-> << >>], down |-> [c \in DOMAIN plan.script |-> << >>]]
  BY DEF MInit
<1> DEFINE T == ToSet(plan.tasks)
           C == DOMAIN plan.script
           new == "New"
           making == "Making"
           none == << >>
           nobody == {}
           no == FALSE
           k == [state |-> new, command |-> NULL, asked |-> NULL, inbox |-> none]
<1>2. plan \in PlanRec(T, C) /\ Distinct(plan.tasks) /\ NULL \notin T \cup C
  BY DEF GoodPlans
<1>3. /\ task_create \in TaskRec(C) /\ task_create.state = "Start" /\ ~task_create.pid
      /\ NewOK(task_create) /\ \A i \in DOMAIN task_create.queue : task_create.queue[i].from = NULL
  BY NewTask
<1>4. new \in ControlStates /\ making \in ClientStates /\ none \in Seq(MessageRec(T)) /\ none \in Seq(Commands)
      /\ nobody \in SUBSET T /\ no \in BOOLEAN /\ new = "New" /\ making = "Making" /\ none = << >> /\ nobody = {} /\ ~no
  BY DEF ControlStates, ClientStates
<1>5. sys = [plan |-> plan, tasks |-> plan.tasks, task  |-> [t \in T |-> task_create],
             running |-> [t \in T |-> 0], unkilled |-> nobody, active |-> no, ending |-> no,
             client  |-> [c \in C |-> making], control |-> [c \in C |-> k],
             up   |-> [c \in C |-> none], down |-> [c \in C |-> none]]
  BY <1>1
<1> HIDE DEF new, making, none, nobody, no
<1>6. k \in ControlRec(T) /\ k.state = "New" /\ k.inbox = << >>
  BY <1>4 DEF ControlRec
<1> HIDE DEF k
<1>7. plan.tasks \in Seq(T)
  BY <1>2 DEF PlanRec
<1> HIDE DEF T, C
<1>8. sys \in SysOf(T, C)
  BY <1>2, <1>3, <1>4, <1>5, <1>6, <1>7 DEF SysOf
<1>9. /\ sys.plan = plan /\ sys.tasks = plan.tasks /\ sys.ending = no /\ DOMAIN sys.task = T /\ DOMAIN sys.client = C
      /\ \A t \in T : sys.task[t] = task_create /\ sys.running[t] = 0
      /\ \A c \in C : sys.client[c] = making /\ sys.control[c] = k /\ sys.up[c] = none /\ sys.down[c] = none
  BY <1>5
<1>10. \A t \in T : Live(sys, t)
  BY <1>9 DEF Live, T
<1>11. TasksOK(T, C, sys)
  <2>1. ASSUME NEW t \in T PROVE TaskOK(sys, t)
    <3>1. sys.task[t] = task_create /\ sys.running[t] = 0
      BY <1>9
    <3>2. OrphansOK(sys, t) /\ WatchedOK(sys, t)
      BY <1>3, <3>1 DEF OrphansOK, WatchedOK
    <3> QED BY <1>3, <3>1, <3>2 DEF TaskOK
  <2>2. ActiveOK(T, sys) /\ EndedOK(T, sys)
    BY <1>3, <1>9, <1>10 DEF ActiveOK, EndedOK
  <2>3. PlanOK(T, sys) /\ Distinct(sys.tasks)
    BY <1>2, <1>9 DEF PlanOK, T
  <2> QED BY <1>8, <2>1, <2>2, <2>3 DEF TasksOK
<1>12. ASSUME NEW c \in C PROVE ClientOK(T, sys, c)
  <2>1. sys.client[c] = "Making" /\ sys.control[c] = k /\ sys.up[c] = << >> /\ sys.down[c] = << >>
    BY <1>4, <1>9
  <2>2. \A t \in T : AsksAt(sys, t, c) = {}
    <3>1. c /= NULL
      BY <1>2
    <3> QED BY <1>3, <1>9, <3>1 DEF AsksAt
  <2>3. WaitsOK(sys, c) /\ PendingOK(T, sys, c)
    BY <1>6, <2>1, <2>2 DEF WaitsOK, PendingOK, NoneAsked
  <2>4. AllIn(sys.down[c], {"ready"}) /\ OnlyLast(sys.down[c])
    BY <2>1 DEF AllIn, OnlyLast
  <2>5. DialogOK(sys, c)
    BY <1>6, <2>1, <2>4 DEF DialogOK
  <2> QED BY <2>3, <2>5 DEF ClientOK
<1>13. ManagerOK(T, C, sys)
  BY <1>11, <1>12 DEF ManagerOK
<1> QED BY <1>2, <1>9, <1>13 DEF SystemKept, ManagerKept, TaskNames, Clients

LEMMA Goes ==
  ASSUME SystemKept, MNext
  PROVE  SystemKept'
<1> DEFINE T == TaskNames
           C == Clients
           u == sys'
<1>1. ManagerOK(T, C, sys) /\ NULL \notin T \cup C /\ sys \in SysOf(T, C)
  BY DEF SystemKept, ManagerKept, ManagerOK, TasksOK
<1>2. ManagerOK(T, C, u)
  <2>1. ASSUME NEW t \in T, TaskEvent(t) \/ TaskShutdown(t) PROVE ManagerOK(T, C, u)
    BY <1>1, <2>1, EventKeeps, ShutdownKeeps
  <2>2. ASSUME NEW t \in T, Alarm(t) \/ ProcessEnds(t) PROVE ManagerOK(T, C, u)
    <3>1. Aside(T, C, sys, u)
      BY <1>1, <2>2, AlarmIs, ProcessEndsIs
    <3> QED BY <1>1, <3>1, BesideKeeps
  <2>3. ASSUME NEW t \in T, SlotEvent(t) PROVE ManagerOK(T, C, u)
    <3>1. PICK s \in SysOf(T, C) : Aside(T, C, sys, s) /\ Aside(T, C, s, u)
      BY <1>1, <2>3, SlotEventIs
    <3> HIDE DEF T, C, u
    <3>2. ManagerOK(T, C, s)
      BY <1>1, <3>1, BesideKeeps
    <3> QED BY <1>1, <3>1, <3>2, BesideKeeps
  <2>4. ASSUME NEW t \in T, NEW filled \in BOOLEAN, Tick(t, filled) PROVE ManagerOK(T, C, u)
    <3>1. PICK a, s \in SysOf(T, C) : Aside(T, C, sys, a) /\ Aside(T, C, a, s) /\ Aside(T, C, s, u)
      BY <1>1, <2>4, TickIs
    <3> HIDE DEF T, C, u
    <3>2. ManagerOK(T, C, a)
      BY <1>1, <3>1, BesideKeeps
    <3>3. ManagerOK(T, C, s)
      BY <1>1, <3>1, <3>2, BesideKeeps
    <3> QED BY <1>1, <3>1, <3>3, BesideKeeps
  <2>5. ASSUME NEW c \in C, Connect(c) \/ AcceptFails(c) \/ ControlReads(c) \/ ControlHears(c) PROVE ManagerOK(T, C, u)
    BY <1>1, <2>5, ConnectKeeps, AcceptFailsKeeps, ReadsKeeps, HearsKeeps
  <2>6. ASSUME NEW c \in C, ControlCloses(c) \/ ControlShutdown(c) PROVE ManagerOK(T, C, u)
    BY <1>1, <2>6, ControlClosesKeeps, ControlShutdownKeeps
  <2>7. ASSUME NEW c \in C, ClientReads(c) \/ get_user_command_input(c) \/ ClientLeaves(c) PROVE ManagerOK(T, C, u)
    BY <1>1, <2>7, ClientReadsKeeps, CommandInputKeeps, ClientLeavesKeeps
  <2> QED BY <2>1, <2>2, <2>3, <2>4, <2>5, <2>6, <2>7 DEF MNext
<1>3. TaskNames' = T /\ Clients' = C
  <2>1. u \in SysOf(T, C)
    BY <1>2 DEF ManagerOK, TasksOK
  <2> QED BY <2>1 DEF SysOf, TaskNames, Clients
<1> QED BY <1>1, <1>2, <1>3 DEF SystemKept, ManagerKept

(* What the invariant says of the properties that are checked.              *)
LEMMA KeptSays ==
  ASSUME SystemKept
  PROVE  TasksWatched /\ NoOrphans /\ ActiveKnown /\ AnswerToCome /\ TurnsTaken
<1> DEFINE T == TaskNames
           C == Clients
<1>1. /\ TasksOK(T, C, sys) /\ sys \in SysOf(T, C) /\ NULL \notin T \cup C
      /\ \A t \in T : TaskOK(sys, t)
      /\ \A c \in C : ClientOK(T, sys, c)
  BY DEF SystemKept, ManagerKept, ManagerOK, TasksOK
<1>2. TasksWatched
  <2> SUFFICES ASSUME NEW t \in ToSet(sys.tasks)
               PROVE  /\ (sys.task[t].state = "Running") <=> sys.task[t].pid
                      /\ sys.task[t].pid => sys.task[t].alarms > 0 \/ Queued(t, "Alarm")
    BY DEF TasksWatched
  <2>1. t \in T
    BY <1>1 DEF SysOf, ToSet
  <2>2. WatchedOK(sys, t)
    BY <1>1, <2>1 DEF TaskOK, Live
  <2> QED BY <2>2 DEF WatchedOK, Queued, HasAlarm
<1>3. NoOrphans
  BY <1>1 DEF NoOrphans, TaskOK, OrphansOK
<1>4. ActiveKnown
  BY <1>1 DEF ActiveKnown, TasksOK, ActiveOK
<1>5. AnswerToCome
  <2> SUFFICES ASSUME NEW c \in C, sys.control[c].state = "Waiting"
               PROVE  LET k == sys.control[c]
                      IN  \/ k.inbox /= << >>
                          \/ ~Live(sys, k.asked) \/ k.asked \in sys.unkilled
                          \/ \E i \in DOMAIN sys.task[k.asked].queue : sys.task[k.asked].queue[i].from = c
    BY DEF AnswerToCome
  <2> QED BY <1>1 DEF ClientOK, WaitsOK, AsksAt
<1>6. TurnsTaken
  <2> SUFFICES ASSUME NEW c \in C
               PROVE  /\ sys.client[c] /= "Unexpected"
                      /\ sys.client[c] = "Command" =>
                           /\ sys.up[c] = << >> /\ sys.down[c] = << >>
                           /\ sys.control[c].state \in {"Reading", "Gone"} /\ sys.control[c].inbox = << >>
    BY DEF TurnsTaken
  <2>1. DialogOK(sys, c) /\ (sys.client[c] = "Command" => PendingOK(T, sys, c))
    BY <1>1 DEF ClientOK, Follows
  <2> QED BY <2>1 DEF DialogOK, PendingOK
<1> QED BY <1>2, <1>3, <1>4, <1>5, <1>6

LEMMA SystemIsKept == GoodPlans => (MSpec => []SystemKept)
<1> SUFFICES ASSUME GoodPlans PROVE MSpec => []SystemKept
  OBVIOUS
<1>1. MInit => SystemKept
  BY Begins
<1>2. SystemKept /\ [MNext]_sys => SystemKept'
  <2>1. SystemKept /\ UNCHANGED sys => SystemKept'
    BY DEF SystemKept, ManagerKept, TaskNames, Clients
  <2> QED BY <2>1, Goes
<1> QED BY <1>1, <1>2, PTL DEF MSpec

(* For every plan, what holds between the threads of the daemon and its     *)
(* clients (ManagerKept) is kept by all of their steps, whatever fails and  *)
(* whoever leaves (sysmana.c).                                              *)
THEOREM InvariantKept == GoodPlans => (MSpec => []ManagerKept)
<1>1. SystemKept => ManagerKept
  BY DEF SystemKept
<1> QED BY <1>1, SystemIsKept, PTL

(* A task is thought to run exactly when it has its process, and then an    *)
(* alarm that will find it ended is always to come (sysmana.c:1382).        *)
THEOREM RunningIsWatched == GoodPlans => (MSpec => []TasksWatched)
<1>1. SystemKept => TasksWatched
  BY KeptSays
<1> QED BY <1>1, SystemIsKept, PTL

(* No process runs that the manager does not know of, and never two for one *)
(* task, but those that could not be killed (sysmana.c:1413).               *)
THEOREM ProcessesKnown == GoodPlans => (MSpec => []NoOrphans)
<1>1. SystemKept => NoOrphans
  BY KeptSays
<1> QED BY <1>1, SystemIsKept, PTL

(* What the startup and shutdown commands were last told of the system is   *)
(* true, as long as every task has its thread (sysmana.c:619).              *)
THEOREM SystemStateTold == GoodPlans => (MSpec => []ActiveKnown)
<1>1. SystemKept => ActiveKnown
  BY KeptSays
<1> QED BY <1>1, SystemIsKept, PTL

(* A control thread that waits has its request in the queue of a task, or   *)
(* the answer in its own, unless the thread has ended (sysmana.c:799).      *)
THEOREM WaitsForAnswer == GoodPlans => (MSpec => []AnswerToCome)
<1>1. SystemKept => AnswerToCome
  BY KeptSays
<1> QED BY <1>1, SystemIsKept, PTL

(* A client never gets a message it does not expect, and nothing is under   *)
(* way while its user is asked for a command (sysclia.c:170).               *)
THEOREM TakeTurns == GoodPlans => (MSpec => []TurnsTaken)
<1>1. SystemKept => TurnsTaken
  BY KeptSays
<1> QED BY <1>1, SystemIsKept, PTL
=============================================================================
