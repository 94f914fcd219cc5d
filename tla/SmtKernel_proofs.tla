-------------------------- MODULE SmtKernel_proofs --------------------------
(***************************************************************************)
(* Theorems about SmtKernel for every set of agents, queues, threads and   *)
(* semaphores, every dialog and every choice of the bounds.                *)
(*                                                                         *)
(* The first part is about threads and semaphores.  The lists of threads   *)
(* agree with the states of the threads, the active list is sorted, and a  *)
(* destroyed thread stays destroyed.  None of these is inductive alone:    *)
(* whoever moves a thread must hold one that exists.  The invariant IInv   *)
(* adds what smt_exec and the activations of queue_deliver hold: `cur'     *)
(* while it is in use, the thread of each activation, and the semaphore of *)
(* a wanted break.                                                         *)
(*                                                                         *)
(* The second part is about the event queues: the counters, the pointers   *)
(* queue_deliver keeps into a queue and the passive threads.               *)
(* queue_deliver sends a reply while the event that asked for it is still  *)
(* in the queue, and sending it may deliver it there and then.  What the   *)
(* outer activation points to stays in its queue only if no inner one      *)
(* works on the same queue.  The hypothesis is RequestsGoUp: queues can be *)
(* numbered so that a request for replies goes to a higher number; the     *)
(* activations on the stack then have ever lower numbers.                  *)
(***************************************************************************)
EXTENDS SmtKernel, SmtSemaph, SmtHistory, SmtLists_proofs, SequenceTheorems, FiniteSetTheorems

States  == {"none", "active", "passive", "wait_event", "wait_semaph", "dead"}
Reasons == {"continue", "recycle", "wait_event", "wait_semaph"}
Busy    == {"init", "init_fetch", "modules", "stop", "stop_fetch"}

ListsType ==
  /\ active \in Seq(Thread)
  /\ waiting \in Seq(Thread)
  /\ waiters \in [Semaph -> Seq(Thread)]
  /\ state \in [Thread -> States]

ListsInv == ListsType /\ ListsAgree /\ ActiveSorted

ThreadsOK == threads \in [Queue -> Seq(Thread)]

ControlOK ==
  /\ running \in {cur, None}
  /\ running # None => pc = "modules"
  /\ pc \in Busy => cur \in Alive

FlagsOK ==
  /\ {"break_wanted", "break_semaph", "exception_raised", "dialog_jump"} \subseteq DOMAIN flags
  /\ flags.break_wanted \in Reasons
  /\ flags.break_wanted = "wait_semaph" => flags.break_semaph \in Semaph
  /\ flags.exception_raised \in BOOLEAN
  /\ flags.dialog_jump \in BOOLEAN

FrameOK(f) ==
  /\ "op" \in DOMAIN f
  /\ f.op = "deliver" => "thread" \in DOMAIN f /\ f.thread \in Alive
  /\ f.op = "semaph_destroy" => f.semaph \in Semaph

StackOK ==
  /\ stack \in Seq(Members(stack))
  /\ \A f \in Members(stack) : FrameOK(f)

(* The inductive invariant.                                                 *)
IInv == ListsInv /\ ThreadsOK /\ ControlOK /\ FlagsOK /\ StackOK

(* What a step may not do to a destroyed thread.                            *)
StayDead == \A t \in Thread : state[t] = "dead" => state'[t] = "dead"

-----------------------------------------------------------------------------
(* Priorities are numbers.                                                  *)
LEMMA RankType == rank \in [Thread -> Nat]
BY KernelAssumption DEF rank, Agt

(* The first of a list that is not empty.                                   *)
LEMMA HeadMember ==
  ASSUME NEW T, NEW s \in Seq(T), s # <<>>
  PROVE  Head(s) \in T /\ Head(s) \in Members(s)
BY DEF Members

(* thread_unlink from whatever list the thread is on.                       *)
LEMMA UnlinkEverywhere ==
  ASSUME ListsInv, NEW t \in Thread
  PROVE  /\ Unlink(active, t) \in Seq(Thread)
         /\ Members(Unlink(active, t)) = Members(active) \ {t}
         /\ NoDuplicates(Unlink(active, t))
         /\ SortedBy(Unlink(active, t), rank)
         /\ Unlink(waiting, t) \in Seq(Thread)
         /\ Members(Unlink(waiting, t)) = Members(waiting) \ {t}
         /\ NoDuplicates(Unlink(waiting, t))
         /\ UnlinkedWaiters(t) \in [Semaph -> Seq(Thread)]
         /\ \A s \in Semaph : /\ Members(UnlinkedWaiters(t)[s]) = Members(waiters[s]) \ {t}
                              /\ NoDuplicates(UnlinkedWaiters(t)[s])
<1>1. /\ active \in Seq(Thread) /\ waiting \in Seq(Thread)
      /\ waiters \in [Semaph -> Seq(Thread)]
      /\ NoDuplicates(active) /\ NoDuplicates(waiting)
      /\ \A s \in Semaph : NoDuplicates(waiters[s])
      /\ SortedBy(active, rank)
  BY DEF ListsInv, ListsType, ListsAgree, ActiveSorted
<1>2. /\ Unlink(active, t) \in Seq(Thread)
      /\ Members(Unlink(active, t)) = Members(active) \ {t}
      /\ NoDuplicates(Unlink(active, t))
      /\ SortedBy(Unlink(active, t), rank)
  BY <1>1, RankType, UnlinkType, UnlinkMembers, UnlinkSorted
<1>3. /\ Unlink(waiting, t) \in Seq(Thread)
      /\ Members(Unlink(waiting, t)) = Members(waiting) \ {t}
      /\ NoDuplicates(Unlink(waiting, t))
  BY <1>1, UnlinkType, UnlinkMembers
<1>4. ASSUME NEW s \in Semaph
      PROVE  /\ Unlink(waiters[s], t) \in Seq(Thread)
             /\ Members(Unlink(waiters[s], t)) = Members(waiters[s]) \ {t}
             /\ NoDuplicates(Unlink(waiters[s], t))
  <2>1. waiters[s] \in Seq(Thread) /\ NoDuplicates(waiters[s])
    BY <1>1
  <2> QED BY <2>1, UnlinkType, UnlinkMembers
<1> QED BY <1>2, <1>3, <1>4 DEF UnlinkedWaiters

(* activate_thread keeps the lists in order.                                *)
LEMMA ActivateLists ==
  ASSUME ListsInv, NEW t \in Thread, Activate(t)
  PROVE  /\ ListsInv'
         /\ Alive' = Alive \cup {t}
         /\ state[t] # "dead" => StayDead
<1>1. /\ active' \in Seq(Thread)
      /\ Members(active') = Members(active) \cup {t}
      /\ NoDuplicates(active')
      /\ SortedBy(active', rank)
  <2>1. active \in Seq(Thread) /\ NoDuplicates(active) /\ SortedBy(active, rank)
    BY DEF ListsInv, ListsType, ListsAgree, ActiveSorted
  <2>2. active' = Requeue(active, rank, t)
    BY DEF Activate
  <2> QED BY <2>1, <2>2, RankType, RequeueKeeps
<1>2. /\ waiting' \in Seq(Thread)
      /\ Members(waiting') = Members(waiting) \ {t}
      /\ NoDuplicates(waiting')
      /\ waiters' \in [Semaph -> Seq(Thread)]
      /\ \A s \in Semaph : /\ Members(waiters'[s]) = Members(waiters[s]) \ {t}
                           /\ NoDuplicates(waiters'[s])
  BY UnlinkEverywhere DEF Activate
<1>3. state \in [Thread -> States] /\ state' = [state EXCEPT ![t] = "active"]
  BY DEF ListsInv, ListsType, Activate
<1>4. ListsType'
  BY <1>1, <1>2, <1>3 DEF ListsType, States
<1>5. ListsAgree'
  <2>1. ASSUME NEW u \in Thread
        PROVE  /\ u \in Members(active') <=> state'[u] = "active"
               /\ u \in Members(waiting') <=> state'[u] = "wait_event"
               /\ (\E s \in Semaph : u \in Members(waiters'[s])) <=> state'[u] = "wait_semaph"
               /\ \A r, s \in Semaph :
                    u \in Members(waiters'[r]) /\ u \in Members(waiters'[s]) => r = s
    <3>1. /\ u \in Members(active) <=> state[u] = "active"
          /\ u \in Members(waiting) <=> state[u] = "wait_event"
          /\ (\E s \in Semaph : u \in Members(waiters[s])) <=> state[u] = "wait_semaph"
          /\ \A r, s \in Semaph :
               u \in Members(waiters[r]) /\ u \in Members(waiters[s]) => r = s
      BY DEF ListsInv, ListsAgree
    <3>2. CASE u = t
      <4>1. state'[u] = "active"
        BY <3>2, <1>3
      <4> QED BY <3>2, <4>1, <1>1, <1>2
    <3>3. CASE u # t
      <4>1. state'[u] = state[u]
        BY <3>3, <1>3
      <4> QED BY <3>1, <3>3, <4>1, <1>1, <1>2
    <3> QED BY <3>2, <3>3
  <2> QED BY <1>1, <1>2, <2>1 DEF ListsAgree
<1>6. ActiveSorted'
  BY <1>1 DEF ActiveSorted, rank, Agt
<1> QED BY <1>3, <1>4, <1>5, <1>6 DEF ListsInv, Alive, StayDead, States

(* suspend_thread, and the relink for a semaphore, keep the lists in order. *)
LEMMA SuspendLists ==
  ASSUME ListsInv, NEW t \in Alive, NEW why \in {"passive", "wait_event", "wait_semaph"},
         NEW s, why = "wait_semaph" => s \in Semaph, Suspend(t, why, s)
  PROVE  /\ ListsInv'
         /\ Alive' = Alive
         /\ StayDead
<1>0. t \in Thread /\ state[t] \notin {"none", "dead"}
  BY DEF Alive
<1>1. /\ active' \in Seq(Thread)
      /\ Members(active') = Members(active) \ {t}
      /\ NoDuplicates(active')
      /\ SortedBy(active', rank)
  BY <1>0, UnlinkEverywhere DEF Suspend
<1>2. /\ waiting' \in Seq(Thread)
      /\ Members(waiting') = IF why = "wait_event" THEN Members(waiting) \cup {t}
                                                   ELSE Members(waiting) \ {t}
      /\ NoDuplicates(waiting')
  <2>1. /\ Unlink(waiting, t) \in Seq(Thread)
        /\ Members(Unlink(waiting, t)) = Members(waiting) \ {t}
        /\ NoDuplicates(Unlink(waiting, t))
    BY <1>0, UnlinkEverywhere
  <2>2. CASE why = "wait_event"
    <3>1. waiting' = Append(Unlink(waiting, t), t)
      BY <2>2 DEF Suspend
    <3>2. t \notin Members(Unlink(waiting, t))
      BY <2>1
    <3>3. /\ Append(Unlink(waiting, t), t) \in Seq(Thread)
          /\ Members(Append(Unlink(waiting, t), t)) = Members(Unlink(waiting, t)) \cup {t}
          /\ NoDuplicates(Append(Unlink(waiting, t), t))
      BY <1>0, <2>1, <3>2, AppendMembers
    <3> QED BY <2>1, <2>2, <3>1, <3>3
  <2>3. CASE why # "wait_event"
    <3>1. waiting' = Unlink(waiting, t)
      BY <2>3 DEF Suspend
    <3> QED BY <2>1, <2>3, <3>1
  <2> QED BY <2>2, <2>3
<1>3. /\ waiters' \in [Semaph -> Seq(Thread)]
      /\ \A r \in Semaph :
           /\ Members(waiters'[r]) = IF why = "wait_semaph" /\ r = s
                                       THEN Members(waiters[r]) \cup {t}
                                       ELSE Members(waiters[r]) \ {t}
           /\ NoDuplicates(waiters'[r])
  <2> DEFINE left == UnlinkedWaiters(t)
  <2>1. /\ left \in [Semaph -> Seq(Thread)]
        /\ \A r \in Semaph : /\ Members(left[r]) = Members(waiters[r]) \ {t}
                             /\ NoDuplicates(left[r])
    BY <1>0, UnlinkEverywhere
  <2> HIDE DEF left
  <2>2. CASE why = "wait_semaph"
    <3>1. s \in Semaph /\ waiters' = [left EXCEPT ![s] = Append(left[s], t)]
      BY <2>2 DEF Suspend, left
    <3>2. left[s] \in Seq(Thread) /\ t \notin Members(left[s]) /\ NoDuplicates(left[s])
      BY <2>1, <3>1
    <3>3. /\ Append(left[s], t) \in Seq(Thread)
          /\ Members(Append(left[s], t)) = Members(left[s]) \cup {t}
          /\ NoDuplicates(Append(left[s], t))
      BY <1>0, <3>2, AppendMembers
    <3>4. waiters' \in [Semaph -> Seq(Thread)]
      BY <2>1, <3>1, <3>3
    <3>5. ASSUME NEW r \in Semaph
          PROVE  /\ Members(waiters'[r]) = IF r = s THEN Members(waiters[r]) \cup {t}
                                                    ELSE Members(waiters[r]) \ {t}
                 /\ NoDuplicates(waiters'[r])
      <4>1. CASE r = s
        <5>1. waiters'[r] = Append(left[s], t)
          BY <2>1, <3>1, <4>1
        <5>2. Members(left[s]) = Members(waiters[s]) \ {t}
          BY <2>1, <3>1
        <5> QED BY <3>3, <4>1, <5>1, <5>2
      <4>2. CASE r # s
        <5>1. waiters'[r] = left[r]
          BY <2>1, <3>1, <4>2
        <5> QED BY <2>1, <4>2, <5>1
      <4> QED BY <4>1, <4>2
    <3> QED BY <2>2, <3>4, <3>5
  <2>3. CASE why # "wait_semaph"
    <3>1. waiters' = left
      BY <2>3 DEF Suspend, left
    <3> QED BY <2>1, <2>3, <3>1
  <2> QED BY <2>2, <2>3
<1>4. state \in [Thread -> States] /\ state' = [state EXCEPT ![t] = why]
  BY DEF ListsInv, ListsType, Suspend
<1>5. ListsType'
  BY <1>1, <1>2, <1>3, <1>4 DEF ListsType, States
<1>6. ListsAgree'
  <2>1. ASSUME NEW u \in Thread
        PROVE  /\ u \in Members(active') <=> state'[u] = "active"
               /\ u \in Members(waiting') <=> state'[u] = "wait_event"
               /\ (\E r \in Semaph : u \in Members(waiters'[r])) <=> state'[u] = "wait_semaph"
               /\ \A q, r \in Semaph :
                    u \in Members(waiters'[q]) /\ u \in Members(waiters'[r]) => q = r
    <3>1. /\ u \in Members(active) <=> state[u] = "active"
          /\ u \in Members(waiting) <=> state[u] = "wait_event"
          /\ (\E r \in Semaph : u \in Members(waiters[r])) <=> state[u] = "wait_semaph"
          /\ \A q, r \in Semaph :
               u \in Members(waiters[q]) /\ u \in Members(waiters[r]) => q = r
      BY DEF ListsInv, ListsAgree
    <3>2. CASE u = t
      <4>1. state'[u] = why
        BY <1>0, <1>4, <3>2
      <4>2. u \notin Members(active') /\ (u \in Members(waiting') <=> why = "wait_event")
        BY <1>1, <1>2, <3>2
      <4>3. \A r \in Semaph : u \in Members(waiters'[r]) <=> why = "wait_semaph" /\ r = s
        BY <1>3, <3>2
      <4> QED BY <4>1, <4>2, <4>3
    <3>3. CASE u # t
      <4>1. state'[u] = state[u]
        BY <1>4, <3>3
      <4>2. /\ u \in Members(active') <=> u \in Members(active)
            /\ u \in Members(waiting') <=> u \in Members(waiting)
        BY <1>1, <1>2, <3>3
      <4>3. \A r \in Semaph : u \in Members(waiters'[r]) <=> u \in Members(waiters[r])
        BY <1>3, <3>3
      <4> QED BY <3>1, <4>1, <4>2, <4>3
    <3> QED BY <3>2, <3>3
  <2> QED BY <1>1, <1>2, <1>3, <2>1 DEF ListsAgree
<1>7. ActiveSorted'
  BY <1>1 DEF ActiveSorted, rank, Agt
<1> QED BY <1>0, <1>4, <1>5, <1>6, <1>7 DEF ListsInv, Alive, StayDead

(* thread_destroy takes the thread off every list.                          *)
LEMMA DestroyLists ==
  ASSUME ListsInv, ThreadsOK, NEW t \in Thread, Destroy(t)
  PROVE  /\ ListsInv'
         /\ ThreadsOK'
         /\ Alive' = Alive \ {t}
         /\ StayDead
<1>1. /\ active' \in Seq(Thread)
      /\ Members(active') = Members(active) \ {t}
      /\ NoDuplicates(active')
      /\ SortedBy(active', rank)
      /\ waiting' \in Seq(Thread)
      /\ Members(waiting') = Members(waiting) \ {t}
      /\ NoDuplicates(waiting')
      /\ waiters' \in [Semaph -> Seq(Thread)]
      /\ \A s \in Semaph : /\ Members(waiters'[s]) = Members(waiters[s]) \ {t}
                           /\ NoDuplicates(waiters'[s])
  BY UnlinkEverywhere DEF Destroy
<1>2. state \in [Thread -> States] /\ state' = [state EXCEPT ![t] = "dead"]
  BY DEF ListsInv, ListsType, Destroy
<1>3. ListsType'
  BY <1>1, <1>2 DEF ListsType, States
<1>4. ListsAgree'
  <2>1. ASSUME NEW u \in Thread
        PROVE  /\ u \in Members(active') <=> state'[u] = "active"
               /\ u \in Members(waiting') <=> state'[u] = "wait_event"
               /\ (\E r \in Semaph : u \in Members(waiters'[r])) <=> state'[u] = "wait_semaph"
               /\ \A q, r \in Semaph :
                    u \in Members(waiters'[q]) /\ u \in Members(waiters'[r]) => q = r
    <3>1. /\ u \in Members(active) <=> state[u] = "active"
          /\ u \in Members(waiting) <=> state[u] = "wait_event"
          /\ (\E r \in Semaph : u \in Members(waiters[r])) <=> state[u] = "wait_semaph"
          /\ \A q, r \in Semaph :
               u \in Members(waiters[q]) /\ u \in Members(waiters[r]) => q = r
      BY DEF ListsInv, ListsAgree
    <3>2. CASE u = t
      BY <1>1, <1>2, <3>2
    <3>3. CASE u # t
      <4>1. state'[u] = state[u]
        BY <1>2, <3>3
      <4> QED BY <1>1, <3>1, <3>3, <4>1
    <3> QED BY <3>2, <3>3
  <2> QED BY <1>1, <2>1 DEF ListsAgree
<1>5. ActiveSorted'
  BY <1>1 DEF ActiveSorted, rank, Agt
<1>6. ThreadsOK'
  <2>1. QueueOf[t] \in Queue /\ threads[QueueOf[t]] \in Seq(Thread)
    BY KernelAssumption DEF ThreadsOK
  <2>2. Unlink(threads[QueueOf[t]], t) \in Seq(Thread)
    BY <2>1, UnlinkType
  <2>3. threads' = [threads EXCEPT ![QueueOf[t]] = Unlink(threads[QueueOf[t]], t)]
    BY DEF Destroy
  <2> QED BY <2>2, <2>3 DEF ThreadsOK
<1> QED BY <1>2, <1>3, <1>4, <1>5, <1>6 DEF ListsInv, Alive, StayDead

-----------------------------------------------------------------------------
(* The activations of queue_deliver.                                        *)

(* event_send delivers to a thread that exists.                             *)
LEMMA FirstIdle ==
  ASSUME ThreadsOK, NEW q \in Queue, Idle(q) # {}
  PROVE  threads[q][CHOOSE k \in Idle(q) : \A j \in Idle(q) : k <= j] \in Alive
<1>1. Idle(q) \subseteq Nat
  BY DEF Idle, ThreadsOK
<1>3. PICK k \in Idle(q) : \A j \in Idle(q) : k <= j
  BY <1>1, SmallestNumber
<1>4. (CHOOSE i \in Idle(q) : \A j \in Idle(q) : i <= j) \in Idle(q)
  BY <1>3
<1>5. \A i \in Idle(q) : threads[q][i] \in Alive
  BY DEF Idle, ThreadsOK, Alive
<1> QED BY <1>4, <1>5

(* Stacking and unstacking an activation.                                   *)
LEMMA Push ==
  ASSUME NEW s, s \in Seq(Members(s)), NEW f
  PROVE  /\ Append(s, f) \in Seq(Members(Append(s, f)))
         /\ Members(Append(s, f)) = Members(s) \cup {f}
<1>1. s \in Seq(Members(s) \cup {f}) /\ f \in Members(s) \cup {f}
  <2>1. \A i \in 1 .. Len(s) : s[i] \in Members(s) \cup {f}
    OBVIOUS
  <2> QED BY <2>1
<1> DEFINE T == Members(s) \cup {f}
<1> HIDE DEF T
<1>2. Append(s, f) \in Seq(T) /\ Members(Append(s, f)) = Members(s) \cup {f}
  BY <1>1, AppendMembers DEF T
<1> QED BY <1>2 DEF T

(* The top activation, the stack without it, and with another one in its    *)
(* place.                                                                   *)
LEMMA StackTop ==
  ASSUME StackOK, stack # <<>>
  PROVE  /\ Top \in Members(stack) /\ FrameOK(Top)
         /\ Pop \in Seq(Members(Pop)) /\ Members(Pop) \subseteq Members(stack)
         /\ \A f : /\ SetTop(f) \in Seq(Members(SetTop(f)))
                   /\ Members(SetTop(f)) \subseteq Members(stack) \cup {f}
<1>1. /\ stack \in Seq(Members(stack)) /\ Len(stack) \in Nat /\ Len(stack) # 0
      /\ DOMAIN stack = 1 .. Len(stack)
  BY DEF StackOK
<1>2. Top \in Members(stack) /\ FrameOK(Top)
  BY <1>1 DEF Top, Members, StackOK
<1>3. Pop \in Seq(Members(Pop)) /\ Members(Pop) \subseteq Members(stack)
  <2>1. /\ Pop \in Seq(Members(stack))
        /\ Len(Pop) = Len(stack) - 1
        /\ \A i \in 1 .. Len(stack) - 1 : Pop[i] = stack[i]
    <3>1. \A i \in 1 .. Len(stack) - 1 : stack[i] \in Members(stack)
      BY <1>1
    <3>2. Pop = SubSeq(stack, 1, Len(stack) - 1)
      BY DEF Pop
    <3> HIDE DEF Pop
    <3> QED BY <1>1, <3>1, <3>2, SubSeqProperties
  <2>2. \A i \in 1 .. Len(Pop) : Pop[i] \in Members(Pop)
    BY <2>1 DEF Members
  <2>3. Pop \in [1 .. Len(Pop) -> Members(Pop)]
    BY <2>1, <2>2
  <2>4. Pop \in Seq(Members(Pop))
    BY <2>1, <2>3
  <2>5. Members(Pop) \subseteq Members(stack)
    BY <1>1, <2>1 DEF Members
  <2> QED BY <2>4, <2>5
<1>4. ASSUME NEW f
      PROVE  /\ SetTop(f) \in Seq(Members(SetTop(f)))
             /\ Members(SetTop(f)) \subseteq Members(stack) \cup {f}
  <2> DEFINE s == SetTop(f)
  <2>1. /\ DOMAIN s = 1 .. Len(stack)
        /\ s = [i \in 1 .. Len(stack) |-> s[i]]
        /\ \A i \in 1 .. Len(stack) : s[i] = stack[i] \/ s[i] = f
    BY <1>1 DEF SetTop
  <2> HIDE DEF s
  <2>2. \A i \in 1 .. Len(stack) : s[i] \in Members(s)
    BY <2>1 DEF Members
  <2>3. s \in [1 .. Len(stack) -> Members(s)]
    BY <2>1, <2>2
  <2>4. s \in Seq(Members(s))
    BY <1>1, <2>3
  <2>5. Members(s) \subseteq Members(stack) \cup {f}
    BY <1>1, <2>1 DEF Members
  <2> QED BY <2>4, <2>5 DEF s
<1> QED BY <1>2, <1>3, <1>4

(* The activations are sound as long as their threads live.                 *)
LEMMA StackKept ==
  ASSUME StackOK, Alive \subseteq Alive', stack' \in {stack, <<>>}
  PROVE  StackOK'
<1>1. CASE stack' = stack
  BY <1>1 DEF StackOK, FrameOK
<1>2. CASE stack' = <<>>
  <2>1. <<>> \in Seq(Members(<<>>)) /\ Members(<<>>) = {}
    BY DEF Members
  <2> QED BY <1>2, <2>1 DEF StackOK
<1> QED BY <1>1, <1>2

(* The top activation returns.                                              *)
LEMMA StackPopped ==
  ASSUME StackOK, Alive \subseteq Alive', stack # <<>>, stack' = Pop
  PROVE  StackOK'
<1>1. Pop \in Seq(Members(Pop)) /\ Members(Pop) \subseteq Members(stack)
  BY StackTop
<1>2. \A f \in Members(Pop) : FrameOK(f)'
  BY <1>1 DEF StackOK, FrameOK
<1> QED BY <1>1, <1>2 DEF StackOK, FrameOK

(* The top activation goes on as f.                                         *)
LEMMA StackChanged ==
  ASSUME StackOK, Alive \subseteq Alive', stack # <<>>, NEW f, FrameOK(f), stack' = SetTop(f)
  PROVE  StackOK'
<1>1. SetTop(f) \in Seq(Members(SetTop(f))) /\ Members(SetTop(f)) \subseteq Members(stack) \cup {f}
  BY StackTop
<1>2. \A g \in Members(SetTop(f)) : FrameOK(g)'
  BY <1>1 DEF StackOK, FrameOK
<1> QED BY <1>1, <1>2 DEF StackOK, FrameOK

(* event_send adds an activation for a thread that exists, or none.         *)
LEMMA PostStack ==
  ASSUME ThreadsOK, Alive' = Alive, NEW qs, NEW m, NEW rest,
         rest \in Seq(Members(rest)), \A f \in Members(rest) : FrameOK(f),
         Post(qs, m, rest)
  PROVE  StackOK'
<1>1. CASE stack' = rest
  BY <1>1 DEF StackOK, FrameOK
<1>2. CASE stack' # rest
  <2> DEFINE first == CHOOSE k \in Idle(m.to) : \A j \in Idle(m.to) : k <= j
             t == threads[m.to][first]
  <2>1. /\ Sendable(qs, m) /\ Idle(m.to) # {}
        /\ \E id : stack' = Append(rest, [DeliverFrame(m.to, t, TRUE) EXCEPT !.at = id])
    BY <1>2 DEF Post
  <2>2. t \in Alive
    BY <2>1, FirstIdle DEF Sendable
  <2> HIDE DEF t
  <2>3. PICK id : stack' = Append(rest, [DeliverFrame(m.to, t, TRUE) EXCEPT !.at = id])
    BY <2>1
  <2> DEFINE f == [DeliverFrame(m.to, t, TRUE) EXCEPT !.at = id]
  <2>4. FrameOK(f)
    BY <2>2 DEF FrameOK, DeliverFrame
  <2> HIDE DEF f
  <2>5. stack' = Append(rest, f)
    BY <2>3 DEF f
  <2>6. Append(rest, f) \in Seq(Members(Append(rest, f)))
        /\ Members(Append(rest, f)) = Members(rest) \cup {f}
    BY Push
  <2>7. \A g \in Members(Append(rest, f)) : FrameOK(g)'
    BY <2>4, <2>6 DEF FrameOK
  <2> QED BY <2>5, <2>6, <2>7 DEF StackOK, FrameOK
<1> QED BY <1>1, <1>2

-----------------------------------------------------------------------------
(* The empty list.                                                          *)
LEMMA EmptyList == Members(<<>>) = {} /\ NoDuplicates(<<>>)
BY DEF Members, NoDuplicates

(* smt_init and the declarations before smt_exec establish the invariant.   *)
LEMMA InitIInv == Init => IInv
<1> SUFFICES ASSUME Init PROVE IInv
  OBVIOUS
<1>1. ListsType
  BY DEF Init, ListsType, States
<1>2. ListsAgree
  BY EmptyList DEF Init, ListsAgree
<1>3. ActiveSorted
  BY DEF Init, ActiveSorted, SortedBy
<1>4. ThreadsOK /\ ControlOK /\ FlagsOK
  BY DEF Init, ThreadsOK, ControlOK, FlagsOK, NoFlags, Busy, Reasons
<1>5. StackOK
  BY EmptyList DEF Init, StackOK
<1> QED BY <1>1, <1>2, <1>3, <1>4, <1>5 DEF IInv, ListsInv

-----------------------------------------------------------------------------
(* A step that moves no thread.                                             *)
LEMMA QuietLists ==
  ASSUME ListsInv, UNCHANGED lists
  PROVE  ListsInv' /\ Alive' = Alive /\ StayDead
BY DEF ListsInv, ListsType, ListsAgree, ActiveSorted, lists, Alive, StayDead, rank, Agt

(* The same for what smt_exec holds.                                        *)
LEMMA QuietExec ==
  ASSUME ControlOK, FlagsOK, Alive \subseteq Alive', UNCHANGED exec
  PROVE  ControlOK' /\ FlagsOK'
BY DEF ControlOK, FlagsOK, exec

(* The first waiter of a semaphore exists.                                  *)
LEMMA FirstWaiter ==
  ASSUME ListsInv, NEW s \in Semaph, waiters[s] # <<>>
  PROVE  Head(waiters[s]) \in Alive /\ Head(waiters[s]) \in Thread
<1>1. waiters[s] \in Seq(Thread)
  BY DEF ListsInv, ListsType
<1>2. Head(waiters[s]) \in Thread /\ Head(waiters[s]) \in Members(waiters[s])
  BY <1>1, HeadMember
<1>3. state[Head(waiters[s])] = "wait_semaph"
  BY <1>2 DEF ListsInv, ListsAgree
<1> QED BY <1>2, <1>3 DEF Alive

(* The thread smt_exec takes exists and is active.                          *)
LEMMA FirstActive ==
  ASSUME ListsInv, active # <<>>
  PROVE  Head(active) \in Alive /\ Head(active) \in Thread /\ state[Head(active)] = "active"
<1>1. active \in Seq(Thread)
  BY DEF ListsInv, ListsType
<1>2. Head(active) \in Thread /\ Head(active) \in Members(active)
  BY <1>1, HeadMember
<1>3. state[Head(active)] = "active"
  BY <1>2 DEF ListsInv, ListsAgree
<1> QED BY <1>2, <1>3 DEF Alive

(* activate_thread, of a thread that exists.                                *)
LEMMA ActivateAlive ==
  ASSUME ListsInv, NEW t \in Alive, Activate(t)
  PROVE  ListsInv' /\ Alive' = Alive /\ StayDead
<1>1. t \in Thread /\ state[t] # "dead"
  BY DEF Alive
<1> QED BY <1>1, ActivateLists

-----------------------------------------------------------------------------
(* The calls of user code keep the invariant.                               *)
LEMMA UserStep ==
  ASSUME IInv, UserCall
  PROVE  IInv' /\ StayDead
<1> USE DEF IInv
<1>0. StackOK /\ ControlOK /\ FlagsOK /\ ThreadsOK /\ ListsInv
  OBVIOUS
<1>1. CASE EventSend
  <2>1. UNCHANGED lists /\ UNCHANGED exec /\ UNCHANGED threads
    BY <1>1 DEF EventSend
  <2>2. ListsInv' /\ Alive' = Alive /\ StayDead /\ ControlOK' /\ FlagsOK' /\ ThreadsOK'
    BY <2>1, QuietLists, QuietExec DEF ThreadsOK
  <2>3. PICK m : Post(queue, m, stack)
    BY <1>1 DEF EventSend
  <2>4. StackOK'
    BY <2>2, <2>3, PostStack DEF StackOK
  <2> QED BY <2>2, <2>4
<1>2. ASSUME NEW s \in Semaph, SemaphCreate(s) \/ SemaphWait(s)
      PROVE  IInv' /\ StayDead
  <2>1. UNCHANGED lists /\ UNCHANGED threads /\ UNCHANGED stack /\ UNCHANGED <<pc, cur, running>>
    BY <1>2 DEF SemaphCreate, SemaphWait, nested, exec
  <2>2. ListsInv' /\ Alive' = Alive /\ StayDead /\ StackOK' /\ ThreadsOK' /\ ControlOK'
    BY <2>1, QuietLists, StackKept DEF ThreadsOK, ControlOK
  <2>3. FlagsOK'
    BY <1>2 DEF SemaphCreate, SemaphWait, FlagsOK, Reasons, exec
  <2> QED BY <2>2, <2>3
<1>3. ASSUME NEW s \in Semaph, SemaphSignal(s)
      PROVE  IInv' /\ StayDead
  <2>1. UNCHANGED exec /\ UNCHANGED threads /\ UNCHANGED stack
    BY <1>3 DEF SemaphSignal, nested
  <2>2. ListsInv' /\ Alive' = Alive /\ StayDead
    <3>1. CASE UNCHANGED lists
      BY <3>1, QuietLists
    <3>2. CASE ~UNCHANGED lists
      <4>1. waiters[s] # <<>> /\ Activate(Head(waiters[s]))
        BY <1>3, <3>2 DEF SemaphSignal
      <4> QED BY <4>1, FirstWaiter, ActivateAlive
    <3> QED BY <3>1, <3>2
  <2>3. StackOK' /\ ThreadsOK' /\ ControlOK' /\ FlagsOK'
    BY <2>1, <2>2, StackKept, QuietExec DEF ThreadsOK
  <2> QED BY <2>2, <2>3
<1>4. ASSUME NEW s \in Semaph, SemaphDestroy(s)
      PROVE  IInv' /\ StayDead
  <2>1. UNCHANGED lists /\ UNCHANGED exec /\ UNCHANGED threads
    BY <1>4 DEF SemaphDestroy
  <2>2. ListsInv' /\ Alive' = Alive /\ StayDead /\ ControlOK' /\ FlagsOK' /\ ThreadsOK'
    BY <2>1, QuietLists, QuietExec DEF ThreadsOK
  <2> DEFINE f == [op |-> "semaph_destroy", semaph |-> s]
  <2>3. stack' = Append(stack, f)
    BY <1>4 DEF SemaphDestroy
  <2>4. FrameOK(f)
    BY DEF FrameOK
  <2> HIDE DEF f
  <2>5. stack' \in Seq(Members(stack')) /\ Members(stack') = Members(stack) \cup {f}
    BY <2>3, Push DEF StackOK
  <2>6. \A g \in Members(stack') : FrameOK(g)'
    BY <2>2, <2>4, <2>5 DEF FrameOK, StackOK
  <2>7. StackOK'
    BY <2>5, <2>6 DEF StackOK, FrameOK
  <2> QED BY <2>2, <2>7
<1>5. ASSUME NEW t \in Thread, ThreadCreate(t)
      PROVE  IInv' /\ StayDead
  <2>1. /\ UNCHANGED exec /\ UNCHANGED stack /\ Activate(t) /\ state[t] = "none"
        /\ threads' = [threads EXCEPT ![QueueOf[t]] = Append(@, t)]
    BY <1>5 DEF ThreadCreate, nested
  <2>2. ListsInv' /\ Alive' = Alive \cup {t} /\ StayDead
    BY <2>1, ActivateLists
  <2>3. ThreadsOK'
    BY <2>1, KernelAssumption DEF ThreadsOK
  <2>4. StackOK' /\ ControlOK' /\ FlagsOK'
    BY <2>1, <2>2, StackKept, QuietExec
  <2> QED BY <2>2, <2>3, <2>4
<1>6. ASSUME NEW t \in Thread, ThreadDestroy(t)
      PROVE  IInv' /\ StayDead
  <2>1. UNCHANGED exec /\ UNCHANGED stack /\ stack = <<>> /\ Destroy(t) /\ t # running
    BY <1>6 DEF ThreadDestroy, nested, Anywhere, InModule, Outside
  <2>2. ListsInv' /\ ThreadsOK' /\ Alive' = Alive \ {t} /\ StayDead
    BY <2>1, DestroyLists
  <2>3. running = None => pc \notin Busy
    BY <1>6, KernelAssumption DEF ThreadDestroy, Anywhere, InModule, Outside, Busy
  <2>4. ControlOK' /\ FlagsOK'
    BY <2>1, <2>2, <2>3 DEF ControlOK, FlagsOK, exec
  <2>5. StackOK'
    BY <2>1, EmptyList DEF StackOK
  <2> QED BY <2>2, <2>4, <2>5
<1>7. CASE SmtShutdown \/ SetFlag \/ CallException \/ DialogReturn \/ DialogPop
  <2>1. UNCHANGED lists /\ UNCHANGED threads /\ UNCHANGED stack /\ UNCHANGED <<pc, cur, running>>
    BY <1>7 DEF SmtShutdown, SetFlag, CallException, DialogReturn, DialogPop, nested, exec
  <2>2. ListsInv' /\ Alive' = Alive /\ StayDead /\ StackOK' /\ ThreadsOK' /\ ControlOK'
    BY <2>1, QuietLists, StackKept DEF ThreadsOK, ControlOK
  <2>3. FlagsOK'
    BY <1>7 DEF SmtShutdown, SetFlag, FlagCall, CallException, DialogReturn, DialogPop,
                FlagsOK, Reasons, exec
  <2> QED BY <2>2, <2>3
<1>8. CASE DialogUnderflow
  <2>1. /\ UNCHANGED lists /\ UNCHANGED threads /\ UNCHANGED stack /\ UNCHANGED flags
        /\ pc' = "exit" /\ running' = None
    BY <1>8 DEF DialogUnderflow, nested
  <2>2. ListsInv' /\ Alive' = Alive /\ StayDead /\ StackOK' /\ ThreadsOK'
    BY <2>1, QuietLists, StackKept DEF ThreadsOK
  <2>3. ControlOK' /\ FlagsOK'
    BY <2>1 DEF ControlOK, FlagsOK, Busy
  <2> QED BY <2>2, <2>3
<1> QED BY <1>1, <1>2, <1>3, <1>4, <1>5, <1>6, <1>7, <1>8 DEF UserCall

-----------------------------------------------------------------------------
(* The steps of queue_deliver keep the invariant.                           *)
LEMMA DeliverStep ==
  ASSUME IInv, QueueStep
  PROVE  IInv' /\ StayDead
<1> USE DEF IInv
<1>0. stack # <<>> /\ Top.op = "deliver"
  BY DEF QueueStep, RejectUndeclared, AcceptNull, Compare, Looking, TakeBest,
         NothingToDeliver, Scanning, FinishReject, FinishNull, FinishAccept
<1>1. FrameOK(Top) /\ Top.thread \in Alive /\ "thread" \in DOMAIN Top /\ "op" \in DOMAIN Top
  BY <1>0, StackTop DEF FrameOK
<1>2. UNCHANGED exec /\ UNCHANGED threads
  BY DEF QueueStep, RejectUndeclared, AcceptNull, Compare, TakeBest,
         NothingToDeliver, FinishReject, FinishNull, FinishAccept
<1>3. SUFFICES ListsInv' /\ Alive' = Alive /\ StayDead /\ StackOK'
  BY <1>2, QuietExec DEF ThreadsOK
<1>4. CASE FinishAccept
  <2>1. stack' = Pop /\ (UNCHANGED lists \/ Activate(Top.thread))
    BY <1>4 DEF FinishAccept
  <2>2. ListsInv' /\ Alive' = Alive /\ StayDead
    BY <1>1, <2>1, QuietLists, ActivateAlive
  <2>3. StackOK'
    BY <1>0, <2>1, <2>2, StackPopped
  <2> QED BY <2>2, <2>3
<1>5. CASE ~FinishAccept
  <2>1. UNCHANGED lists
    BY <1>5 DEF QueueStep, RejectUndeclared, AcceptNull, Compare, TakeBest,
                NothingToDeliver, FinishReject, FinishNull
  <2>2. ListsInv' /\ Alive' = Alive /\ StayDead
    BY <2>1, QuietLists
  <2>3. ASSUME NEW f, NEW reply, Begin(f, reply), FrameOK(f)
        PROVE  StackOK'
    <3>1. PICK m : Post(queue, m, SetTop(f))
      BY <2>3 DEF Begin
    <3>2. /\ SetTop(f) \in Seq(Members(SetTop(f)))
          /\ Members(SetTop(f)) \subseteq Members(stack) \cup {f}
      BY <1>0, StackTop
    <3>3. \A g \in Members(SetTop(f)) : FrameOK(g)
      BY <2>3, <3>2 DEF StackOK
    <3> QED BY <2>2, <3>1, <3>2, <3>3, PostStack
  <2>4. ASSUME NEW f, stack' = SetTop(f), FrameOK(f)
        PROVE  StackOK'
    BY <1>0, <2>2, <2>4, StackChanged
  <2>5. \A u, v, w : /\ FrameOK([Top EXCEPT !.stage = u, !.victim = v])
                     /\ FrameOK([Top EXCEPT !.stage = u, !.victim = v, !.at = w])
                     /\ FrameOK([Top EXCEPT !.at = u, !.best = v])
    BY <1>0, <1>1 DEF FrameOK
  <2>6. CASE \E q \in Queue : \E e \in Members(queue[q].events) : RejectUndeclared(e) \/ AcceptNull(e)
    <3>1. PICK u, v, w, reply : Begin([Top EXCEPT !.stage = u, !.victim = v, !.at = w], reply)
      BY <2>6 DEF RejectUndeclared, AcceptNull
    <3>2. FrameOK([Top EXCEPT !.stage = u, !.victim = v, !.at = w])
      BY <2>5
    <3> QED BY <2>2, <2>3, <3>1, <3>2
  <2>7. CASE \E q \in Queue : \E e \in Members(queue[q].events) : Compare(e)
    <3>1. \E u, v : stack' = SetTop([Top EXCEPT !.at = u, !.best = v])
      <4>1. PICK e : Compare(e)
        BY <2>7
      <4> DEFINE m == MethodsOf(Top.queue)[e.name]
                 r == IF e.priority = 0
                        THEN [e EXCEPT !.priority = m.priority, !.number = m.event] ELSE e
                 wins == Top.best = 0 \/ r.priority > EventAt(Top.queue, Top.best).priority
                 b(x) == IF wins THEN e.id ELSE x
      <4>2. stack' = SetTop([Top EXCEPT !.at = IdAfter(Top.queue, e.id), !.best = b(@)])
        BY <4>1 DEF Compare
      <4> HIDE DEF b
      <4>3. [Top EXCEPT !.at = IdAfter(Top.queue, e.id), !.best = b(@)]
              = [Top EXCEPT !.at = IdAfter(Top.queue, e.id), !.best = b(Top.best)]
        OBVIOUS
      <4> QED BY <4>2, <4>3
    <3> QED BY <2>2, <2>4, <2>5, <3>1
  <2>8. CASE TakeBest
    <3>1. \E u, v, reply : Begin([Top EXCEPT !.stage = u, !.victim = v], reply)
      BY <2>8 DEF TakeBest
    <3> QED BY <2>2, <2>3, <2>5, <3>1
  <2>9. CASE NothingToDeliver
    BY <1>0, <2>2, <2>9, StackPopped DEF NothingToDeliver
  <2>10. CASE FinishReject \/ FinishNull
    <3>1. \E u, v : stack' = SetTop([Top EXCEPT !.stage = u, !.victim = v])
      BY <2>10 DEF FinishReject, FinishNull
    <3> QED BY <2>2, <2>4, <2>5, <3>1
  <2> QED BY <1>5, <2>6, <2>7, <2>8, <2>9, <2>10 DEF QueueStep
<1> QED BY <1>4, <1>5

-----------------------------------------------------------------------------
(* lookup_module_vector, of a thread that exists.                           *)
LEMMA LookupAlive ==
  ASSUME ListsInv, NEW t \in Alive, NEW c, Lookup(t, c)
  PROVE  ListsInv' /\ Alive' = Alive /\ StayDead
<1>1. CASE UNCHANGED lists
  BY <1>1, QuietLists
<1>2. CASE ~UNCHANGED lists
  <2>1. Suspend(t, "wait_event", None)
    BY <1>2 DEF Lookup
  <2> QED BY <2>1, SuspendLists
<1> QED BY <1>1, <1>2

(* The steps of smt_exec keep the invariant.                                *)
LEMMA ExecStep ==
  ASSUME IInv, Exec
  PROVE  IInv' /\ StayDead
<1> USE DEF IInv
<1>1. CASE SmtExec \/ RequestAllThreadsShutdown \/ PollDone \/ FetchEvent \/ EventOutOfRange
           \/ LeaveLoop \/ EndOfList \/ CallModule \/ Idling \/ WaitReturn
  <2>1. UNCHANGED lists /\ UNCHANGED threads
    BY <1>1 DEF SmtExec, RequestAllThreadsShutdown, PollDone, FetchEvent, EventOutOfRange,
                LeaveLoop, EndOfList, CallModule, Idling, WaitReturn
  <2>2. ListsInv' /\ Alive' = Alive /\ StayDead /\ ThreadsOK'
    BY <2>1, QuietLists DEF ThreadsOK
  <2>3. ControlOK'
    BY <1>1, <2>2 DEF SmtExec, RequestAllThreadsShutdown, PollDone, FetchEvent, EventOutOfRange,
                LeaveLoop, EndOfList, CallModule, InLoop, Idling, WaitReturn, Here, GiveUp, exec,
                ControlOK, Busy
  <2>4. FlagsOK'
    BY <1>1 DEF SmtExec, RequestAllThreadsShutdown, PollDone, FetchEvent, EventOutOfRange,
                LeaveLoop, EndOfList, CallModule, Idling, WaitReturn, exec, FlagsOK, Reasons
  <2>5. StackOK'
    <3>1. CASE UNCHANGED stack
      BY <2>2, <3>1, StackKept
    <3>2. ASSUME NEW f, stack' = <<f>>, FrameOK(f)
          PROVE  StackOK'
      <4>1. <<f>> \in Seq(Members(<<f>>)) /\ Members(<<f>>) = {f}
        BY DEF Members
      <4> QED BY <2>2, <3>2, <4>1 DEF StackOK, FrameOK
    <3>3. CASE RequestAllThreadsShutdown \/ WaitReturn
      <4> DEFINE f == [op |-> "shutdown"]
      <4>1. FrameOK(f)
        BY DEF FrameOK
      <4>2. UNCHANGED stack \/ stack' = <<f>>
        BY <3>3 DEF RequestAllThreadsShutdown, WaitReturn
      <4> HIDE DEF f
      <4> QED BY <3>1, <3>2, <4>1, <4>2
    <3>4. CASE FetchEvent
      <4>1. PICK id : stack' = <<[DeliverFrame(QueueOf[cur], cur, FALSE) EXCEPT !.at = id]>>
        BY <3>4 DEF FetchEvent
      <4>2. cur \in Alive
        BY <3>4 DEF FetchEvent, Here, ControlOK, Busy
      <4>3. FrameOK([DeliverFrame(QueueOf[cur], cur, FALSE) EXCEPT !.at = id])
        BY <4>2 DEF FrameOK, DeliverFrame
      <4> QED BY <3>2, <4>1, <4>3
    <3>5. CASE SmtExec \/ PollDone \/ EventOutOfRange \/ LeaveLoop \/ EndOfList
               \/ CallModule \/ Idling
      <4>1. UNCHANGED stack
        BY <3>5 DEF SmtExec, PollDone, EventOutOfRange, LeaveLoop, EndOfList,
                    CallModule, Idling, nested
      <4> QED BY <3>1, <4>1
    <3> QED BY <1>1, <3>3, <3>4, <3>5
  <2> QED BY <2>2, <2>3, <2>4, <2>5
<1>2. ASSUME NEW q \in Queue, ShutdownQueue(q)
      PROVE  IInv' /\ StayDead
  <2>1. UNCHANGED lists /\ UNCHANGED threads /\ UNCHANGED exec
    BY <1>2 DEF ShutdownQueue
  <2>2. ListsInv' /\ Alive' = Alive /\ StayDead /\ ThreadsOK' /\ ControlOK' /\ FlagsOK'
    BY <2>1, QuietLists, QuietExec DEF ThreadsOK
  <2>3. PICK qs, m : Post(qs, m, stack)
    BY <1>2 DEF ShutdownQueue
  <2>4. StackOK'
    BY <2>2, <2>3, PostStack DEF StackOK
  <2> QED BY <2>2, <2>4
<1>3. CASE ShutdownDone
  <2>1. UNCHANGED lists /\ UNCHANGED threads /\ UNCHANGED exec /\ stack # <<>> /\ stack' = Pop
    BY <1>3 DEF ShutdownDone
  <2> QED BY <2>1, QuietLists, QuietExec, StackPopped DEF ThreadsOK
<1>4. CASE Dispatch
  <2>1. /\ UNCHANGED lists /\ UNCHANGED threads /\ UNCHANGED stack /\ UNCHANGED flags
        /\ running = None /\ running' = None
    BY <1>4 DEF Dispatch, Here, nested
  <2>2. ListsInv' /\ Alive' = Alive /\ StayDead /\ ThreadsOK' /\ StackOK' /\ FlagsOK'
    BY <2>1, QuietLists, StackKept DEF ThreadsOK, FlagsOK
  <2>3. pc' \in Busy => cur' \in Alive
    <3>1. CASE active = <<>>
      BY <1>4, <3>1 DEF Dispatch, Busy
    <3>2. CASE active # <<>>
      <4>1. cur' = Head(active)
        BY <1>4, <3>2 DEF Dispatch
      <4> QED BY <3>2, <4>1, FirstActive
    <3> QED BY <3>1, <3>2
  <2> QED BY <2>1, <2>2, <2>3 DEF ControlOK
<1>5. CASE FetchFailed \/ FirstList \/ NextList
  <2>1. /\ UNCHANGED threads /\ UNCHANGED stack /\ UNCHANGED <<cur, running, flags>>
        /\ running = None /\ cur \in Alive
    BY <1>5 DEF FetchFailed, FirstList, NextList, HaveEvent, Here, nested, ControlOK, Busy
  <2>2. ListsInv' /\ Alive' = Alive /\ StayDead
    <3>1. CASE FetchFailed
      <4>1. Suspend(cur, "passive", None)
        BY <3>1 DEF FetchFailed
      <4> QED BY <2>1, <4>1, SuspendLists
    <3>2. CASE FirstList
      <4>1. PICK c : Lookup(cur, c)
        BY <3>2 DEF FirstList
      <4> QED BY <2>1, <4>1, LookupAlive
    <3>3. CASE NextList
      <4>1. Activate(cur) \/ \E c : Lookup(cur, c)
        BY <3>3 DEF NextList
      <4> QED BY <2>1, <4>1, LookupAlive, ActivateAlive
    <3> QED BY <1>5, <3>1, <3>2, <3>3
  <2>3. ControlOK' /\ FlagsOK' /\ StackOK' /\ ThreadsOK'
    BY <2>1, <2>2, StackKept DEF ControlOK, FlagsOK, ThreadsOK
  <2> QED BY <2>2, <2>3
<1>6. CASE Terminate
  <2>1. /\ UNCHANGED stack /\ stack = <<>> /\ UNCHANGED <<running, flags>> /\ running = None
        /\ Destroy(cur) /\ cur \in Alive /\ pc' \in {"poll", "idle"}
    BY <1>6 DEF Terminate, Here, GiveUp, nested, ControlOK, Busy
  <2>2. ListsInv' /\ ThreadsOK' /\ StayDead
    BY <2>1, DestroyLists DEF Alive
  <2>3. ControlOK' /\ FlagsOK' /\ StackOK'
    BY <2>1, EmptyList DEF ControlOK, FlagsOK, StackOK, Busy
  <2> QED BY <2>2, <2>3
<1>7. CASE ModuleReturn
  <2>1. /\ UNCHANGED threads /\ UNCHANGED stack /\ UNCHANGED cur /\ running' = None
        /\ running # None /\ cur \in Alive
    BY <1>7 DEF ModuleReturn, ReturnException, ReturnBreak, ReturnJump, ReturnPlain, Returning,
                nested, ControlOK, Busy
  <2>2. ListsInv' /\ Alive' = Alive /\ StayDead
    <3>1. CASE ReturnException \/ ReturnJump
      <4>1. PICK c : Lookup(cur, c)
        BY <3>1 DEF ReturnException, ReturnJump
      <4> QED BY <2>1, <4>1, LookupAlive
    <3>2. CASE ReturnBreak
      <4>1. CASE flags.break_wanted = "recycle"
        <5>1. Activate(cur)
          BY <3>2, <4>1 DEF ReturnBreak
        <5> QED BY <2>1, <5>1, ActivateAlive
      <4>2. CASE flags.break_wanted # "recycle"
        <5>1. Suspend(cur, flags.break_wanted, flags.break_semaph)
          BY <3>2, <4>2 DEF ReturnBreak
        <5>2. /\ flags.break_wanted \in {"passive", "wait_event", "wait_semaph"}
              /\ flags.break_wanted = "wait_semaph" => flags.break_semaph \in Semaph
          BY <3>2, <4>2 DEF ReturnBreak, FlagsOK, Reasons
        <5> QED BY <2>1, <5>1, <5>2, SuspendLists
      <4> QED BY <4>1, <4>2
    <3>3. CASE ReturnPlain
      BY <3>3, QuietLists DEF ReturnPlain
    <3> QED BY <1>7, <3>1, <3>2, <3>3 DEF ModuleReturn
  <2>3. FlagsOK'
    BY <1>7 DEF ModuleReturn, ReturnException, ReturnBreak, ReturnJump, ReturnPlain,
                FlagsOK, Reasons
  <2>4. ControlOK' /\ StackOK' /\ ThreadsOK'
    BY <2>1, <2>2, StackKept DEF ControlOK, ThreadsOK
  <2> QED BY <2>2, <2>3, <2>4
<1>8. CASE SemaphDestroyStep
  <2>1. /\ UNCHANGED threads /\ UNCHANGED exec /\ stack # <<>>
        /\ Top.op = "semaph_destroy"
    BY <1>8 DEF SemaphDestroyStep
  <2>2. Top.semaph \in Semaph
    BY <2>1, StackTop DEF FrameOK
  <2>3. CASE waiters[Top.semaph] # <<>>
    <3>1. Activate(Head(waiters[Top.semaph])) /\ UNCHANGED stack
      BY <1>8, <2>3 DEF SemaphDestroyStep
    <3>2. ListsInv' /\ Alive' = Alive /\ StayDead
      BY <2>2, <2>3, <3>1, FirstWaiter, ActivateAlive
    <3> QED BY <2>1, <3>1, <3>2, StackKept, QuietExec DEF ThreadsOK
  <2>4. CASE waiters[Top.semaph] = <<>>
    <3>1. UNCHANGED lists /\ stack' = Pop
      BY <1>8, <2>4 DEF SemaphDestroyStep
    <3>2. ListsInv' /\ Alive' = Alive /\ StayDead
      BY <3>1, QuietLists
    <3> QED BY <2>1, <3>1, <3>2, StackPopped, QuietExec DEF ThreadsOK
  <2> QED BY <2>3, <2>4
<1>9. CASE QueueStep
  BY <1>9, DeliverStep
<1> QED BY <1>1, <1>2, <1>3, <1>4, <1>5, <1>6, <1>7, <1>8, <1>9 DEF Exec

-----------------------------------------------------------------------------
(* handle_signal keeps the invariant, the abortion included.                *)
LEMMA SignalStep ==
  ASSUME IInv, HandleSignal
  PROVE  IInv' /\ StayDead
<1> USE DEF IInv
<1>1. /\ UNCHANGED lists /\ UNCHANGED threads /\ UNCHANGED flags /\ UNCHANGED cur
      /\ stack' \in {stack, <<>>}
      /\ UNCHANGED <<pc, running>> \/ (pc' = "exit" /\ running' = None)
  BY DEF HandleSignal
<1>2. ListsInv' /\ Alive' = Alive /\ StayDead
  BY <1>1, QuietLists
<1>3. ControlOK' /\ FlagsOK' /\ StackOK' /\ ThreadsOK'
  BY <1>1, <1>2, StackKept DEF ControlOK, FlagsOK, ThreadsOK, Busy
<1> QED BY <1>2, <1>3

(* A step that changes nothing.                                             *)
LEMMA NothingStep ==
  ASSUME IInv, UNCHANGED vars
  PROVE  IInv' /\ StayDead
<1> USE DEF IInv
<1>1. UNCHANGED lists /\ UNCHANGED threads /\ UNCHANGED exec /\ UNCHANGED stack
  BY DEF vars, nested
<1>2. ListsInv' /\ Alive' = Alive /\ StayDead
  BY <1>1, QuietLists
<1>3. ControlOK' /\ FlagsOK' /\ StackOK' /\ ThreadsOK'
  BY <1>1, <1>2, QuietExec, StackKept DEF ThreadsOK
<1> QED BY <1>2, <1>3

(* Every step keeps the invariant and the dead dead.                        *)
LEMMA EveryStep == IInv /\ [Next]_vars => IInv' /\ StayDead
BY UserStep, ExecStep, SignalStep, NothingStep DEF Next, Finished

(* IInv holds of every reachable state.                                     *)
THEOREM Invariance == Spec => []IInv
<1>1. Init => IInv
  BY InitIInv
<1>2. IInv /\ [Next]_vars => IInv'
  BY EveryStep
<1> QED BY <1>1, <1>2, PTL DEF Spec

(* Runnable is the same as linked to the active list, blocked the same as   *)
(* linked to the list of what is waited for: thread_relink loses and        *)
(* duplicates nobody.                                                       *)
THEOREM ThreadsOnOneList == Spec => []ListsAgree
<1>1. IInv => ListsAgree
  BY DEF IInv, ListsInv
<1> QED BY <1>1, Invariance, PTL

(* activate_thread keeps the active list sorted by priority.                *)
THEOREM ActiveListSorted == Spec => []ActiveSorted
<1>1. IInv => ActiveSorted
  BY DEF IInv, ListsInv
<1> QED BY <1>1, Invariance, PTL

(* No event, signal or return to smt_exec brings a destroyed thread back.   *)
THEOREM DestroyedStaysDead == Spec => DeadForGood
<1>1. IInv /\ [Next]_vars => [StayDead]_vars
  BY EveryStep
<1> QED BY <1>1, Invariance, PTL DEF Spec, DeadForGood, StayDead

(* smt_exec calls a module only for a thread of the highest priority among  *)
(* the active ones.                                                         *)
THEOREM HighestPriorityRuns == Spec => TopPriorityRuns
<1> DEFINE Highest == running' # running /\ running' # None =>
                        \A t \in Thread : state[t] = "active" => rank[t] <= rank[running']
<1>1. IInv /\ [Next]_vars => Highest
  <2> SUFFICES ASSUME IInv, [Next]_vars, running' # running, running' # None,
                      NEW t \in Thread, state[t] = "active"
               PROVE  rank[t] <= rank[running']
    OBVIOUS
  <2>1. CallModule
    BY DEF Next, Exec, UserCall, HandleSignal, Finished, vars, exec, global, nested,
           SmtExec, RequestAllThreadsShutdown, ShutdownQueue, ShutdownDone, PollDone, Dispatch,
           FetchEvent, FetchFailed, Terminate, EventOutOfRange, FirstList, NextList, LeaveLoop,
           EndOfList, ModuleReturn, ReturnException, ReturnBreak, ReturnJump, ReturnPlain, Returning,
           Idling, WaitReturn, QueueStep, RejectUndeclared, AcceptNull, Compare, TakeBest,
           NothingToDeliver, FinishReject, FinishNull, FinishAccept, SemaphDestroyStep,
           EventSend, SemaphCreate, SemaphWait, SemaphSignal, SemaphDestroy, ThreadCreate,
           ThreadDestroy, SmtShutdown, SetFlag, CallException, DialogReturn, DialogPop,
           DialogUnderflow
  <2>2. active # <<>> /\ running' = Head(active)
    BY <2>1 DEF CallModule, InLoop
  <2>3. /\ active \in Seq(Thread) /\ SortedBy(active, rank)
        /\ t \in Members(active)
    BY DEF IInv, ListsInv, ListsType, ListsAgree, ActiveSorted
  <2>4. PICK i \in DOMAIN active : active[i] = t
    BY <2>3 DEF Members
  <2>5. active[1] = running' /\ 1 \in DOMAIN active /\ i >= 1
    BY <2>2, <2>3, <2>4
  <2>6. rank[t] \in Nat
    BY RankType
  <2>7. i = 1 \/ rank[active[1]] >= rank[active[i]]
    BY <2>3, <2>4, <2>5 DEF SortedBy
  <2>8. rank[running'] \in Nat
    BY <2>2, <2>3, HeadMember, RankType
  <2> QED BY <2>4, <2>5, <2>6, <2>7, <2>8
<1>2. IInv /\ [Next]_vars => [Highest]_vars
  BY <1>1
<1> QED BY <1>2, Invariance, PTL DEF Spec, TopPriorityRuns
-----------------------------------------------------------------------------
(***************************************************************************)
(* The global flags of smtlib.c, and semaphores.                           *)
(*                                                                         *)
(* semaph_wait does not suspend anybody: it sets break_wanted and          *)
(* break_semaph, and smt_exec suspends the thread when the module has      *)
(* returned.  The theorems hold of modules that make such a call last, as  *)
(* the SMT manual tells them to (LastStatement): PendingOK says that then  *)
(* at most one flag is set, and only while its module runs; SignalsOK that *)
(* the semaphore of a wanted break exists and is exhausted, as is every    *)
(* semaphore with waiters; AskedOK that a wish to sleep is one of the      *)
(* module that runs.  With RunningActive, that this module's thread is on  *)
(* the active list, the semaphores refine FifoSemaphore: every step of the *)
(* kernel is one of a line of waiters, or none.                            *)
(***************************************************************************)

AtMostOneFlag ==
  /\ flags.break_wanted # "continue" => ~flags.exception_raised /\ ~flags.dialog_jump
  /\ ~(flags.exception_raised /\ flags.dialog_jump)

PendingOK ==
  /\ AtMostOneFlag
  /\ stack # <<>> => NothingPending
  /\ running = None /\ pc # "exit" => NothingPending

BreakOK ==
  flags.break_wanted = "wait_semaph" =>
    flags.break_semaph \in live /\ value[flags.break_semaph] = 0

SignalsOK ==
  /\ live \subseteq Semaph
  /\ value \in [Semaph -> Nat]
  /\ \A s \in Semaph : waiters[s] # <<>> => s \in live /\ value[s] = 0
  /\ BreakOK

-----------------------------------------------------------------------------
(* The flags.                                                               *)

(* A call is only made when no earlier one has left a flag set.             *)
LEMMA CallFindsNothing ==
  ASSUME LastStatement, PendingOK, UserCall
  PROVE  NothingPending /\ stack = <<>>
<1>1. ASSUME NEW c, Anywhere(c)
      PROVE  NothingPending /\ stack = <<>>
  BY <1>1, KernelAssumption DEF Anywhere, InModule, Outside, PendingOK
<1>2. \A c : InModule(c) => Anywhere(c)
  BY DEF Anywhere
<1>3. \E c : Anywhere(c)
  BY <1>2 DEF UserCall, EventSend, SemaphCreate, SemaphWait, SemaphSignal, SemaphDestroy,
         ThreadCreate, ThreadDestroy, SmtShutdown, SetFlag, FlagCall, CallException,
         DialogReturn, DialogPop, DialogUnderflow
<1> QED BY <1>1, <1>3

(* A call leaves at most one flag set, and then the module ends.            *)
LEMMA CallPending ==
  ASSUME LastStatement, IInv, PendingOK, UserCall
  PROVE  PendingOK'
<1>1. NothingPending /\ stack = <<>>
  BY CallFindsNothing
<1>2. CASE UNCHANGED flags
  BY <1>1, <1>2 DEF PendingOK, NothingPending, AtMostOneFlag
<1>3. CASE ~UNCHANGED flags
  <2>1. \/ \E s \in Semaph : SemaphWait(s)
        \/ SetFlag \/ CallException \/ DialogReturn
    BY <1>3 DEF UserCall, EventSend, SemaphCreate, SemaphSignal, SemaphDestroy,
         ThreadCreate, ThreadDestroy, SmtShutdown, DialogPop, DialogUnderflow, exec
  <2>2. running' = running /\ running # None /\ stack' = stack
    BY <2>1 DEF SemaphWait, SetFlag, FlagCall, CallException, DialogReturn, InModule, nested
  <2>3. AtMostOneFlag'
    BY <1>1, <2>1 DEF IInv, FlagsOK, SemaphWait, SetFlag, FlagCall, CallException, DialogReturn,
                 AtMostOneFlag, NothingPending
  <2> QED BY <1>1, <2>2, <2>3 DEF PendingOK
<1> QED BY <1>2, <1>3

(* smt_exec resets the flag it acts upon, and no other one is set.          *)
LEMMA ExecPending ==
  ASSUME IInv, PendingOK, Exec
  PROVE  PendingOK'
<1>1. CASE ModuleReturn
  <2>1. NothingPending'
    BY <1>1 DEF IInv, FlagsOK, PendingOK, AtMostOneFlag, NothingPending, ModuleReturn, ReturnException,
                ReturnBreak, ReturnJump, ReturnPlain
  <2> QED BY <2>1 DEF PendingOK, AtMostOneFlag, NothingPending
<1>2. CASE ~ModuleReturn
  <2>1. NothingPending
    <3>1. \A at : Here(at) /\ "exit" \notin at => NothingPending
      BY DEF Here, PendingOK
    <3>2. CASE stack # <<>>
      BY <3>2 DEF PendingOK
    <3>3. CASE stack = <<>>
      BY <1>2, <3>1, <3>3 DEF Exec, SmtExec, RequestAllThreadsShutdown, ShutdownQueue, ShutdownDone,
           PollDone, Dispatch, FetchEvent, FetchFailed, Terminate, EventOutOfRange, FirstList,
           NextList, HaveEvent, LeaveLoop, EndOfList, CallModule, InLoop, Idling, WaitReturn,
           QueueStep, RejectUndeclared, AcceptNull, Compare, Looking, TakeBest, NothingToDeliver,
           Scanning, FinishReject, FinishNull, FinishAccept, SemaphDestroyStep
    <3> QED BY <3>2, <3>3
  <2>2. \/ UNCHANGED flags
        \/ flags' = [flags EXCEPT !.exception_raised = FALSE, !.dialog_jump = FALSE,
                                  !.break_wanted = "continue"]
        \/ \E e : flags' = [flags EXCEPT !.the_next_event = e]
    BY <1>2 DEF Exec, SmtExec, RequestAllThreadsShutdown, ShutdownQueue, ShutdownDone,
           PollDone, Dispatch, FetchEvent, FetchFailed, Terminate, EventOutOfRange, FirstList,
           NextList, LeaveLoop, EndOfList, CallModule, Idling, WaitReturn,
           QueueStep, RejectUndeclared, AcceptNull, Compare, TakeBest, NothingToDeliver,
           FinishReject, FinishNull, FinishAccept, SemaphDestroyStep, exec
  <2>3. NothingPending'
    BY <2>1, <2>2 DEF NothingPending, IInv, FlagsOK
  <2> QED BY <2>3 DEF PendingOK, AtMostOneFlag, NothingPending
<1> QED BY <1>1, <1>2

(* PendingOK is kept by every step.                                         *)
LEMMA EveryPending ==
  ASSUME LastStatement, IInv, PendingOK, [Next]_vars
  PROVE  PendingOK'
<1>1. CASE HandleSignal
  BY <1>1 DEF HandleSignal, PendingOK, AtMostOneFlag, NothingPending
<1>2. CASE UNCHANGED vars
  BY <1>2 DEF vars, exec, nested, PendingOK, AtMostOneFlag, NothingPending
<1> QED BY <1>1, <1>2, CallPending, ExecPending DEF Next, Finished

(* What a module asked for is done, or undone, when it returns: no break,   *)
(* exception or jump is left to hit the next module.                        *)
THEOREM FlagsAreTheModules ==
  ASSUME LastStatement
  PROVE  Spec => []FlagsBelongToModule
<1>1. Init => PendingOK
  BY DEF Init, PendingOK, AtMostOneFlag, NothingPending, NoFlags
<1>2. IInv /\ PendingOK /\ [Next]_vars => PendingOK'
  BY EveryPending
<1>3. PendingOK => FlagsBelongToModule
  BY DEF PendingOK, FlagsBelongToModule
<1> QED BY <1>1, <1>2, <1>3, Invariance, PTL DEF Spec

-----------------------------------------------------------------------------
(* Semaphores.                                                              *)

(* No semaphore gets a first waiter.                                        *)
NoNewWaiter == \A s \in Semaph : waiters[s] = <<>> => waiters'[s] = <<>>

(* Taking a thread off the lists adds no waiter.                            *)
LEMMA UnlinkShrinks ==
  ASSUME NEW t, waiters' = UnlinkedWaiters(t)
  PROVE  NoNewWaiter
BY EmptyList DEF NoNewWaiter, UnlinkedWaiters, Unlink

(* Nor do the moves of threads, other than the wait for a semaphore.        *)
LEMMA ListsShrink ==
  ASSUME \/ UNCHANGED lists
         \/ \E t : Activate(t) \/ Destroy(t)
         \/ \E t, s, why : Suspend(t, why, s) /\ why # "wait_semaph"
  PROVE  NoNewWaiter
<1>1. CASE UNCHANGED lists
  BY <1>1 DEF lists, NoNewWaiter
<1>2. CASE ~UNCHANGED lists
  <2>1. \E t : waiters' = UnlinkedWaiters(t)
    BY <1>2 DEF Activate, Destroy, Suspend
  <2> QED BY <2>1, UnlinkShrinks
<1> QED BY <1>1, <1>2

(* A step that gives no semaphore a first waiter and changes no value.      *)
LEMMA ValuesKept ==
  ASSUME SignalsOK, NoNewWaiter, UNCHANGED sems,
         UNCHANGED flags \/ NothingPending' \/ BreakOK'
  PROVE  SignalsOK'
<1>1. BreakOK'
  BY DEF SignalsOK, BreakOK, sems, NothingPending
<1> QED BY <1>1 DEF SignalsOK, NoNewWaiter, sems

(* The calls of user code keep SignalsOK: a unit is handed to the first     *)
(* waiter, or kept when there is none.                                      *)
LEMMA CallSignals ==
  ASSUME LastStatement, IInv, PendingOK, SignalsOK, UserCall
  PROVE  SignalsOK'
<1>0. NothingPending
  BY CallFindsNothing
<1>1. ASSUME NEW s \in Semaph, SemaphCreate(s)
      PROVE  SignalsOK'
  <2>1. /\ UNCHANGED waiters /\ UNCHANGED flags /\ s \notin live
        /\ live' = live \cup {s} /\ value' = [value EXCEPT ![s] = InitValue[s]]
    BY <1>1 DEF SemaphCreate, lists, exec
  <2>2. InitValue[s] \in Nat
    BY KernelAssumption
  <2> QED BY <1>0, <2>1, <2>2 DEF SignalsOK, BreakOK, NothingPending
<1>2. ASSUME NEW s \in Semaph, SemaphWait(s)
      PROVE  SignalsOK'
  <2>1. UNCHANGED waiters /\ UNCHANGED live /\ s \in live
    BY <1>2 DEF SemaphWait, lists
  <2>2. CASE value[s] > 0
    <3>1. value' = [value EXCEPT ![s] = @ - 1] /\ UNCHANGED flags
      BY <1>2, <2>2 DEF SemaphWait
    <3>2. value[s] \in Nat /\ waiters[s] = <<>>
      BY <2>2 DEF SignalsOK
    <3> QED BY <1>0, <2>1, <2>2, <3>1, <3>2 DEF SignalsOK, BreakOK, NothingPending
  <2>3. CASE ~(value[s] > 0)
    <3>1. /\ UNCHANGED value
          /\ flags' = [flags EXCEPT !.break_wanted = "wait_semaph", !.break_semaph = s]
      BY <1>2, <2>3 DEF SemaphWait
    <3>2. value[s] = 0
      BY <2>3 DEF SignalsOK
    <3>3. flags'.break_semaph = s
      BY <3>1 DEF IInv, FlagsOK
    <3> QED BY <2>1, <3>1, <3>2, <3>3 DEF SignalsOK, BreakOK
  <2> QED BY <2>2, <2>3
<1>3. ASSUME NEW s \in Semaph, SemaphSignal(s)
      PROVE  SignalsOK'
  <2>1. UNCHANGED live /\ UNCHANGED flags
    BY <1>3 DEF SemaphSignal, exec
  <2>2. value[s] \in Nat
    BY DEF SignalsOK
  <2>3. CASE waiters[s] # <<>>
    <3>1. Activate(Head(waiters[s])) /\ UNCHANGED value
      BY <1>3, <2>2, <2>3 DEF SemaphSignal
    <3>2. NoNewWaiter
      BY <3>1, ListsShrink
    <3> QED BY <2>1, <3>1, <3>2, ValuesKept DEF sems
  <2>4. CASE waiters[s] = <<>>
    <3>1. value' = [value EXCEPT ![s] = @ + 1] /\ UNCHANGED waiters
      BY <1>3, <2>2, <2>4 DEF SemaphSignal, lists
    <3> QED BY <1>0, <2>1, <2>2, <2>4, <3>1 DEF SignalsOK, BreakOK, NothingPending
  <2> QED BY <2>3, <2>4
<1>4. CASE ~\E s \in Semaph : SemaphCreate(s) \/ SemaphWait(s) \/ SemaphSignal(s)
  <2>1. \/ UNCHANGED lists
        \/ \E t : Activate(t) \/ Destroy(t)
    BY <1>4 DEF UserCall, EventSend, SemaphDestroy, ThreadCreate, ThreadDestroy, SmtShutdown,
                SetFlag, CallException, DialogReturn, DialogPop, DialogUnderflow
  <2>2. UNCHANGED sems
    BY <1>4 DEF UserCall, EventSend, SemaphDestroy, ThreadCreate, ThreadDestroy, SmtShutdown,
                SetFlag, CallException, DialogReturn, DialogPop, DialogUnderflow
  <2>3. flags'.break_wanted # "wait_semaph"
    BY <1>0, <1>4 DEF UserCall, EventSend, SemaphDestroy, ThreadCreate, ThreadDestroy, SmtShutdown,
                SetFlag, FlagCall, CallException, DialogReturn, DialogPop, DialogUnderflow,
                exec, NothingPending, IInv, FlagsOK
  <2> QED BY <2>1, <2>2, <2>3, ListsShrink, ValuesKept DEF BreakOK
<1> QED BY <1>1, <1>2, <1>3, <1>4

(* smt_exec keeps SignalsOK: the semaphore it suspends a thread on is still *)
(* exhausted.                                                               *)
LEMMA ExecSignals ==
  ASSUME IInv, PendingOK, PendingOK', SignalsOK, Exec
  PROVE  SignalsOK'
<1>1. CASE SemaphDestroyStep
  <2>1. UNCHANGED value /\ UNCHANGED flags /\ stack # <<>> /\ Top.op = "semaph_destroy"
    BY <1>1 DEF SemaphDestroyStep, exec
  <2>2. CASE waiters[Top.semaph] # <<>>
    <3>1. Activate(Head(waiters[Top.semaph])) /\ UNCHANGED live
      BY <1>1, <2>2 DEF SemaphDestroyStep
    <3>2. NoNewWaiter
      BY <3>1, ListsShrink
    <3> QED BY <2>1, <3>1, <3>2, ValuesKept DEF sems
  <2>3. CASE waiters[Top.semaph] = <<>>
    <3>1. live' = live \ {Top.semaph} /\ UNCHANGED waiters
      BY <1>1, <2>3 DEF SemaphDestroyStep, lists
    <3>2. NothingPending
      BY <2>1 DEF PendingOK
    <3> QED BY <2>1, <2>3, <3>1, <3>2 DEF SignalsOK, BreakOK, NothingPending
  <2> QED BY <2>2, <2>3
<1>2. CASE ReturnBreak /\ flags.break_wanted = "wait_semaph"
  <2> DEFINE s == flags.break_semaph
  <2>1. s \in live /\ s \in Semaph /\ value[s] = 0
    BY <1>2 DEF SignalsOK, BreakOK
  <2> HIDE DEF s
  <2>2. /\ waiters' = [UnlinkedWaiters(cur) EXCEPT ![s] = Append(@, cur)]
        /\ UNCHANGED sems
    BY <1>2 DEF ReturnBreak, Returning, Suspend, s
  <2>3. \A r \in Semaph : r # s => waiters'[r] = UnlinkedWaiters(cur)[r]
    BY <2>2 DEF UnlinkedWaiters
  <2>4. \A r \in Semaph : r # s /\ waiters[r] = <<>> => waiters'[r] = <<>>
    BY <2>3, EmptyList DEF UnlinkedWaiters, Unlink
  <2>5. BreakOK'
    BY <1>2 DEF ReturnBreak, IInv, FlagsOK, BreakOK
  <2> QED BY <2>1, <2>2, <2>4, <2>5 DEF SignalsOK, sems
<1>3. CASE ~SemaphDestroyStep /\ ~(ReturnBreak /\ flags.break_wanted = "wait_semaph")
  <2>1. UNCHANGED sems
    BY <1>3 DEF Exec, SmtExec, RequestAllThreadsShutdown, ShutdownQueue, ShutdownDone,
           PollDone, Dispatch, FetchEvent, FetchFailed, Terminate, EventOutOfRange, FirstList,
           NextList, LeaveLoop, EndOfList, CallModule, ModuleReturn, ReturnException,
           ReturnBreak, ReturnJump, ReturnPlain, Returning, Idling, WaitReturn,
           QueueStep, RejectUndeclared, AcceptNull, Compare, TakeBest, NothingToDeliver,
           FinishReject, FinishNull, FinishAccept
  <2>2. NoNewWaiter
    <3>1. \A t, c : Lookup(t, c) => UNCHANGED lists \/ Suspend(t, "wait_event", None)
      BY DEF Lookup
    <3>2. CASE UNCHANGED lists
      BY <3>2, ListsShrink
    <3>3. CASE FetchFailed \/ Terminate \/ FinishAccept
      BY <3>3, ListsShrink DEF FetchFailed, Terminate, FinishAccept
    <3>4. CASE FirstList \/ NextList
      <4>1. Activate(cur) \/ \E c : Lookup(cur, c)
        BY <3>4 DEF FirstList, NextList
      <4> QED BY <3>1, <4>1, ListsShrink
    <3>5. CASE ReturnException \/ ReturnJump
      <4>1. \E c : Lookup(cur, c)
        BY <3>5 DEF ReturnException, ReturnJump
      <4> QED BY <3>1, <4>1, ListsShrink
    <3>6. CASE ReturnBreak
      <4>1. Activate(cur) \/ \E s, why : Suspend(cur, why, s) /\ why # "wait_semaph"
        BY <1>3, <3>6 DEF ReturnBreak
      <4> QED BY <4>1, ListsShrink
    <3>7. UNCHANGED lists \/ FetchFailed \/ Terminate \/ FinishAccept \/ FirstList \/ NextList
            \/ ReturnException \/ ReturnJump \/ ReturnBreak
      BY <1>3 DEF Exec, SmtExec, RequestAllThreadsShutdown, ShutdownQueue, ShutdownDone,
           PollDone, Dispatch, FetchEvent, EventOutOfRange, LeaveLoop, EndOfList, CallModule,
           ModuleReturn, ReturnPlain, Idling, WaitReturn,
           QueueStep, RejectUndeclared, AcceptNull, Compare, TakeBest, NothingToDeliver,
           FinishReject, FinishNull
    <3> QED BY <3>2, <3>3, <3>4, <3>5, <3>6, <3>7
  <2>3. UNCHANGED flags \/ NothingPending'
    <3>1. CASE ModuleReturn
      BY <3>1 DEF IInv, FlagsOK, PendingOK, AtMostOneFlag, NothingPending, ModuleReturn,
                  ReturnException, ReturnBreak, ReturnJump, ReturnPlain
    <3>2. CASE SmtExec
      BY <3>2 DEF SmtExec, Here, PendingOK, nested, NothingPending, IInv, FlagsOK
    <3>3. CASE CallModule
      BY <3>3 DEF CallModule, InLoop, Here, PendingOK, NothingPending, IInv, FlagsOK
    <3>4. CASE ~ModuleReturn /\ ~SmtExec /\ ~CallModule
      BY <1>3, <3>4 DEF Exec, RequestAllThreadsShutdown, ShutdownQueue, ShutdownDone,
           PollDone, Dispatch, FetchEvent, FetchFailed, Terminate, EventOutOfRange, FirstList,
           NextList, LeaveLoop, EndOfList, Idling, WaitReturn, exec,
           QueueStep, RejectUndeclared, AcceptNull, Compare, TakeBest, NothingToDeliver,
           FinishReject, FinishNull, FinishAccept
    <3> QED BY <3>1, <3>2, <3>3, <3>4
  <2> QED BY <2>1, <2>2, <2>3, ValuesKept
<1> QED BY <1>1, <1>2, <1>3

(* SignalsOK is kept by every step.                                         *)
LEMMA EverySignal ==
  ASSUME LastStatement, IInv, PendingOK, PendingOK', SignalsOK, [Next]_vars
  PROVE  SignalsOK'
<1>1. CASE HandleSignal \/ UNCHANGED vars
  <2>1. UNCHANGED sems /\ UNCHANGED flags /\ UNCHANGED lists
    BY <1>1 DEF HandleSignal, vars, exec
  <2> QED BY <2>1, ListsShrink, ValuesKept
<1> QED BY <1>1, CallSignals, ExecSignals DEF Next, Finished

(* No signal is lost between semaph_wait and the suspension: nobody waits   *)
(* on a semaphore that has a unit left.                                     *)
THEOREM NoSignalIsLost ==
  ASSUME LastStatement
  PROVE  Spec => []NoLostSignal
<1>1. Init => PendingOK /\ SignalsOK
  BY DEF Init, PendingOK, AtMostOneFlag, NothingPending, NoFlags, SignalsOK, BreakOK
<1>2. IInv /\ PendingOK /\ SignalsOK /\ [Next]_vars => PendingOK' /\ SignalsOK'
  BY EveryPending, EverySignal
<1>3. SignalsOK => NoLostSignal
  BY DEF SignalsOK, NoLostSignal
<1> QED BY <1>1, <1>2, <1>3, Invariance, PTL DEF Spec

-----------------------------------------------------------------------------
(* Semaphores are served first come, first served.                          *)
(*                                                                          *)
(* The line at a semaphore is its list of threads, behind which the thread  *)
(* of the running module stands once it has asked to wait.  It is active    *)
(* until its module returns, so it stands in no other line.                 *)

RunningActive == running # None => state[running] = "active"

LEMMA RunningStays ==
  ASSUME IInv, RunningActive, [Next]_vars
  PROVE  RunningActive'
<1> SUFFICES ASSUME running' # None PROVE state'[running'] = "active"
  BY DEF RunningActive
<1>1. CASE CallModule
  <2>1. running' = Head(active) /\ state' = state /\ active # <<>>
    BY <1>1 DEF CallModule, InLoop, lists
  <2>2. Head(active) \in Thread /\ Head(active) \in Members(active)
    BY <2>1, HeadMember DEF IInv, ListsInv, ListsType
  <2> QED BY <2>1, <2>2 DEF IInv, ListsInv, ListsAgree
<1>2. CASE ~CallModule
  <2>1. running' = running
    BY <1>2 DEF Next, Exec, SmtExec, RequestAllThreadsShutdown, ShutdownQueue, ShutdownDone,
         PollDone, Dispatch, FetchEvent, FetchFailed, Terminate, EventOutOfRange, FirstList,
         NextList, LeaveLoop, EndOfList, ModuleReturn, ReturnException, ReturnBreak, ReturnJump,
         ReturnPlain, Returning, Idling, WaitReturn, QueueStep, RejectUndeclared, AcceptNull,
         Compare, TakeBest, NothingToDeliver, FinishReject, FinishNull, FinishAccept,
         SemaphDestroyStep, UserCall, EventSend, SemaphCreate, SemaphWait, SemaphSignal,
         SemaphDestroy, ThreadCreate, ThreadDestroy, SmtShutdown, SetFlag, CallException,
         DialogReturn, DialogPop, DialogUnderflow, HandleSignal, Finished, exec, vars
  <2>2. running \in Thread /\ state[running] = "active"
    BY <2>1 DEF RunningActive, IInv, ControlOK, Alive, Busy
  <2>3. \/ UNCHANGED state
        \/ \E t : state' = [state EXCEPT ![t] = "active"]
        \/ \E t : t # running /\ state' = [state EXCEPT ![t] = "dead"]
    <3>1. CASE UserCall
      BY <3>1 DEF UserCall, EventSend, SemaphCreate, SemaphWait, SemaphSignal, SemaphDestroy,
         ThreadCreate, ThreadDestroy, SmtShutdown, SetFlag, CallException, DialogReturn, DialogPop,
         DialogUnderflow, Activate, Destroy, lists
    <3>2. CASE HandleSignal \/ Finished \/ UNCHANGED vars
      BY <3>2 DEF HandleSignal, Finished, vars, lists
    <3>3. CASE QueueStep \/ SemaphDestroyStep
      BY <3>3 DEF QueueStep, RejectUndeclared, AcceptNull, Compare, TakeBest, NothingToDeliver,
         FinishReject, FinishNull, FinishAccept, SemaphDestroyStep, Activate, lists
    <3>4. CASE ShutdownDone \/ \E q \in Queue : ShutdownQueue(q)
      BY <3>4 DEF ShutdownDone, ShutdownQueue, lists
    <3>5. ~\/ SmtExec \/ RequestAllThreadsShutdown \/ PollDone \/ Dispatch \/ FetchEvent
           \/ FetchFailed \/ Terminate \/ EventOutOfRange \/ FirstList \/ NextList \/ LeaveLoop
           \/ EndOfList \/ Idling \/ WaitReturn
      BY <2>1 DEF SmtExec, RequestAllThreadsShutdown, PollDone, Dispatch, FetchEvent, FetchFailed,
         Terminate, EventOutOfRange, FirstList, NextList, HaveEvent, LeaveLoop, EndOfList, InLoop,
         Idling, WaitReturn, Here
    <3>6. ~ModuleReturn
      BY DEF ModuleReturn, ReturnException, ReturnBreak, ReturnJump, ReturnPlain, Returning
    <3> QED BY <1>2, <3>1, <3>2, <3>3, <3>4, <3>5, <3>6 DEF Next, Exec
  <2> QED BY <2>1, <2>2, <2>3 DEF IInv, ListsInv, ListsType
<1> QED BY <1>1, <1>2

(* The list operators of the two modules are the same.                      *)
LEMMA SameUnlink == \A s, x : Fifo!Unlink(s, x) = Unlink(s, x)
BY DEF Fifo!Unlink, Fifo!Members, Fifo!PlaceOf, Unlink, Members, PlaceOf

LEMMA UnlinkFirst ==
  ASSUME NEW T, NEW s \in Seq(T), s # <<>>, NoDuplicates(s)
  PROVE  Unlink(s, Head(s)) = Tail(s)
<1>1. Len(s) \in Nat \ {0} /\ s[1] = Head(s) /\ Head(s) \in Members(s)
  BY DEF Members
<1>2. PlaceOf(s, Head(s)) = 1
  BY <1>1, PlaceOfMember DEF NoDuplicates
<1>3. Unlink(s, Head(s)) = [i \in 1 .. Len(s) - 1 |-> s[i + 1]]
  BY <1>1, <1>2 DEF Unlink
<1> QED BY <1>1, <1>3

(* Who gets out of a line is the first of it or dies.  For this, whoever    *)
(* else moves a thread must hold one that stands in no line: `cur' while    *)
(* smt_exec looks for its next event, and the threads of the activations    *)
(* of queue_deliver.  Only the lowest activation may be another one.        *)
OffLines ==
  /\ pc \in {"init", "init_fetch", "stop", "stop_fetch"} => state[cur] = "active"
  /\ \A i \in DOMAIN stack : stack[i].op = "deliver" => state[stack[i].thread] # "wait_semaph"
  /\ \A i \in DOMAIN stack : i > 1 => stack[i].op = "deliver"

Pushed(rest) == \E f : /\ f.op = "deliver"
                       /\ state[f.thread] \in {"passive", "wait_event"}
                       /\ stack' = Append(rest, f)

SameTop(f) == f.op = "deliver" /\ f.thread = Top.thread

DeliverMove ==
  /\ stack # <<>>
  /\ Top.op = "deliver"
  /\ \/ stack' = Pop
     \/ \E f : SameTop(f) /\ (stack' = SetTop(f) \/ Pushed(SetTop(f)))

(* How a step may change the stack.                                         *)
StackMove ==
  \/ stack' = stack
  \/ stack' = <<>>
  \/ stack = <<>> /\ \E f : stack' = <<f>> /\ f.op \in {"shutdown", "semaph_destroy"}
  \/ stack = <<>> /\ FetchEvent /\ \E f : stack' = <<f>> /\ f.op = "deliver" /\ f.thread = cur
  \/ Pushed(stack)
  \/ stack # <<>> /\ stack' = Pop
  \/ /\ stack # <<>>
     /\ Top.op = "deliver"
     /\ \E f : SameTop(f) /\ (stack' = SetTop(f) \/ Pushed(SetTop(f)))

LEMMA PostPushes ==
  ASSUME ThreadsOK, NEW qs, NEW m, NEW rest, Post(qs, m, rest)
  PROVE  stack' = rest \/ Pushed(rest)
<1>1. CASE stack' # rest
  <2> DEFINE first == CHOOSE k \in Idle(m.to) : \A j \in Idle(m.to) : k <= j
             t == threads[m.to][first]
  <2>1. /\ Sendable(qs, m) /\ Idle(m.to) # {}
        /\ \E id : stack' = Append(rest, [DeliverFrame(m.to, t, TRUE) EXCEPT !.at = id])
    BY <1>1 DEF Post
  <2>2. first \in Idle(m.to)
    <3>1. Idle(m.to) \subseteq Nat
      BY <2>1 DEF Idle, ThreadsOK, Sendable
    <3>2. PICK k \in Idle(m.to) : \A j \in Idle(m.to) : k <= j
      BY <2>1, <3>1, SmallestNumber
    <3> QED BY <3>2
  <2>3. state[t] \in {"passive", "wait_event"}
    BY <2>2 DEF Idle
  <2> HIDE DEF t
  <2>4. PICK id : stack' = Append(rest, [DeliverFrame(m.to, t, TRUE) EXCEPT !.at = id])
    BY <2>1
  <2> DEFINE f == [DeliverFrame(m.to, t, TRUE) EXCEPT !.at = id]
  <2>5. f.op = "deliver" /\ f.thread = t
    BY DEF DeliverFrame
  <2> HIDE DEF f
  <2>6. stack' = Append(rest, f)
    BY <2>4 DEF f
  <2> QED BY <2>3, <2>5, <2>6 DEF Pushed
<1> QED BY <1>1

(* A reply, or the next event of the scan.                                  *)
LEMMA DeliverMoves ==
  ASSUME IInv, QueueStep
  PROVE  DeliverMove
<1>0. stack # <<>> /\ Top.op = "deliver"
  BY DEF QueueStep, RejectUndeclared, AcceptNull, Compare, Looking, TakeBest,
         NothingToDeliver, Scanning, FinishReject, FinishNull, FinishAccept
<1>1. "thread" \in DOMAIN Top /\ "op" \in DOMAIN Top
  BY <1>0, StackTop DEF FrameOK, IInv
<1>2. ASSUME NEW f, NEW reply, Begin(f, reply), SameTop(f)
      PROVE  DeliverMove
  <2>1. PICK m : Post(queue, m, SetTop(f))
    BY <1>2 DEF Begin
  <2>2. stack' = SetTop(f) \/ Pushed(SetTop(f))
    BY <2>1, PostPushes DEF IInv
  <2> QED BY <1>0, <1>2, <2>2 DEF DeliverMove
<1>3. ASSUME NEW f, stack' = SetTop(f), SameTop(f)
      PROVE  DeliverMove
  BY <1>0, <1>3 DEF DeliverMove
<1>4. \A u, v, w : /\ SameTop([Top EXCEPT !.stage = u, !.victim = v])
                   /\ SameTop([Top EXCEPT !.stage = u, !.victim = v, !.at = w])
                   /\ SameTop([Top EXCEPT !.at = u, !.best = v])
  BY <1>0, <1>1 DEF SameTop
<1>5. CASE \E q \in Queue : \E e \in Members(queue[q].events) : RejectUndeclared(e) \/ AcceptNull(e)
  <2>1. PICK u, v, w, reply : Begin([Top EXCEPT !.stage = u, !.victim = v, !.at = w], reply)
    BY <1>5 DEF RejectUndeclared, AcceptNull
  <2>2. SameTop([Top EXCEPT !.stage = u, !.victim = v, !.at = w])
    BY <1>4
  <2> QED BY <1>2, <2>1, <2>2
<1>6. CASE \E q \in Queue : \E e \in Members(queue[q].events) : Compare(e)
  <2>1. \E u, v : stack' = SetTop([Top EXCEPT !.at = u, !.best = v])
    <3>1. PICK e : Compare(e)
      BY <1>6
    <3> DEFINE m == MethodsOf(Top.queue)[e.name]
               r == IF e.priority = 0
                      THEN [e EXCEPT !.priority = m.priority, !.number = m.event] ELSE e
               wins == Top.best = 0 \/ r.priority > EventAt(Top.queue, Top.best).priority
               b(x) == IF wins THEN e.id ELSE x
    <3>2. stack' = SetTop([Top EXCEPT !.at = IdAfter(Top.queue, e.id), !.best = b(@)])
      BY <3>1 DEF Compare
    <3> HIDE DEF b
    <3>3. [Top EXCEPT !.at = IdAfter(Top.queue, e.id), !.best = b(@)]
            = [Top EXCEPT !.at = IdAfter(Top.queue, e.id), !.best = b(Top.best)]
      OBVIOUS
    <3> QED BY <3>2, <3>3
  <2> QED BY <1>3, <1>4, <2>1
<1>7. CASE TakeBest
  <2>1. \E u, v, reply : Begin([Top EXCEPT !.stage = u, !.victim = v], reply)
    BY <1>7 DEF TakeBest
  <2> QED BY <1>2, <1>4, <2>1
<1>8. CASE NothingToDeliver \/ FinishAccept
  BY <1>0, <1>8 DEF NothingToDeliver, FinishAccept, DeliverMove
<1>9. CASE FinishReject \/ FinishNull
  <2>1. \E u, v : stack' = SetTop([Top EXCEPT !.stage = u, !.victim = v])
    BY <1>9 DEF FinishReject, FinishNull
  <2> QED BY <1>3, <1>4, <2>1
<1> QED BY <1>5, <1>6, <1>7, <1>8, <1>9 DEF QueueStep

LEMMA StepMoves ==
  ASSUME IInv, [Next]_vars
  PROVE  StackMove
<1>1. CASE UserCall
  <2>1. CASE EventSend
    <3>1. \E m : Post(queue, m, stack)
      BY <2>1 DEF EventSend
    <3> QED BY <3>1, PostPushes DEF IInv, StackMove
  <2>2. ASSUME NEW s \in Semaph, SemaphDestroy(s)
        PROVE  StackMove
    <3>1. stack = <<>> /\ stack' = Append(stack, [op |-> "semaph_destroy", semaph |-> s])
      BY <2>2 DEF SemaphDestroy, Anywhere, InModule, Outside
    <3> DEFINE f == [op |-> "semaph_destroy", semaph |-> s]
    <3>2. f.op = "semaph_destroy"
      OBVIOUS
    <3> HIDE DEF f
    <3>3. stack' = <<f>>
      BY <3>1 DEF f
    <3> QED BY <3>1, <3>2, <3>3 DEF StackMove
  <2>3. CASE ~EventSend /\ ~\E s \in Semaph : SemaphDestroy(s)
    <3>1. stack' = stack
      BY <1>1, <2>3 DEF UserCall, SemaphCreate, SemaphWait, SemaphSignal, ThreadCreate, ThreadDestroy,
         SmtShutdown, SetFlag, CallException, DialogReturn, DialogPop, DialogUnderflow, nested
    <3> QED BY <3>1 DEF StackMove
  <2> QED BY <2>1, <2>2, <2>3
<1>2. CASE QueueStep
  BY <1>2, DeliverMoves DEF DeliverMove, StackMove
<1>3. CASE HandleSignal \/ Finished \/ UNCHANGED vars
  BY <1>3 DEF HandleSignal, Finished, vars, nested, StackMove
<1>4. CASE FetchEvent
  <2>1. PICK id : stack = <<>> /\ stack' = <<[DeliverFrame(QueueOf[cur], cur, FALSE) EXCEPT !.at = id]>>
    BY <1>4 DEF FetchEvent, Here
  <2> DEFINE f == [DeliverFrame(QueueOf[cur], cur, FALSE) EXCEPT !.at = id]
  <2>2. f.op = "deliver" /\ f.thread = cur
    BY DEF DeliverFrame
  <2> HIDE DEF f
  <2>3. stack' = <<f>>
    BY <2>1 DEF f
  <2> QED BY <1>4, <2>1, <2>2, <2>3 DEF StackMove
<1>5. CASE RequestAllThreadsShutdown \/ WaitReturn
  <2>1. stack = <<>> /\ (stack' = <<>> \/ stack' = <<[op |-> "shutdown"]>>)
    BY <1>5 DEF RequestAllThreadsShutdown, WaitReturn, Here
  <2>2. [op |-> "shutdown"].op = "shutdown"
    OBVIOUS
  <2> QED BY <2>1, <2>2 DEF StackMove
<1>6. CASE \E q \in Queue : ShutdownQueue(q)
  <2>1. PICK q : ShutdownQueue(q)
    BY <1>6
  <2>2. \E qs, m : Post(qs, m, stack)
    BY <2>1 DEF ShutdownQueue
  <2> QED BY <2>2, PostPushes DEF IInv, StackMove
<1>7. CASE ShutdownDone \/ SemaphDestroyStep
  BY <1>7 DEF ShutdownDone, SemaphDestroyStep, StackMove
<1>8. CASE Exec /\ ~QueueStep /\ ~FetchEvent /\ ~RequestAllThreadsShutdown /\ ~WaitReturn
           /\ ~(\E q \in Queue : ShutdownQueue(q)) /\ ~ShutdownDone /\ ~SemaphDestroyStep
  <2>1. stack' = stack
    BY <1>8 DEF Exec, SmtExec, PollDone, Dispatch, FetchFailed, Terminate, EventOutOfRange, FirstList,
         NextList, LeaveLoop, EndOfList, CallModule, ModuleReturn, ReturnException, ReturnBreak,
         ReturnJump, ReturnPlain, Returning, Idling, nested
  <2> QED BY <2>1 DEF StackMove
<1> QED BY <1>1, <1>2, <1>3, <1>4, <1>5, <1>6, <1>7, <1>8 DEF Next

(* Only smt_exec, after a module, makes a thread wait for a semaphore.      *)
LEMMA NewlyWaiting ==
  ASSUME IInv, [Next]_vars, ~ReturnBreak
  PROVE  \A t \in Thread : state'[t] = "wait_semaph" => state[t] = "wait_semaph"
<1> USE DEF IInv, ListsInv, ListsType
<1> DEFINE Old == \A t \in Thread : state'[t] = "wait_semaph" => state[t] = "wait_semaph"
<1>1. UNCHANGED lists => Old
  BY DEF lists
<1>2. \A u : state' = [state EXCEPT ![u] = "active"] => Old
  OBVIOUS
<1>3. \A u : state' = [state EXCEPT ![u] = "dead"] => Old
  OBVIOUS
<1>4. \A u : state' = [state EXCEPT ![u] = "passive"] => Old
  OBVIOUS
<1>5. \A u : state' = [state EXCEPT ![u] = "wait_event"] => Old
  OBVIOUS
<1> HIDE DEF Old
<1>6. \A u : Activate(u) \/ Destroy(u) => Old
  BY <1>2, <1>3 DEF Activate, Destroy
<1>7. \A u, c : Lookup(u, c) => Old
  BY <1>1, <1>5 DEF Lookup, Suspend
<1>8. CASE FirstList \/ NextList \/ ReturnException \/ ReturnJump
  <2>1. Activate(cur) \/ \E c : Lookup(cur, c)
    BY <1>8 DEF FirstList, NextList, ReturnException, ReturnJump
  <2> QED BY <1>6, <1>7, <2>1 DEF Old
<1>9. CASE FetchFailed
  <2>1. Old
    BY <1>4, <1>9 DEF FetchFailed, Suspend
  <2> QED BY <2>1 DEF Old
<1>10. \/ UNCHANGED lists \/ FetchFailed \/ (\E t : Activate(t) \/ Destroy(t))
       \/ FirstList \/ NextList \/ ReturnException \/ ReturnJump
  <2>1. CASE UserCall
    BY <2>1 DEF UserCall, EventSend, SemaphCreate, SemaphWait, SemaphSignal, SemaphDestroy,
       ThreadCreate, ThreadDestroy, SmtShutdown, SetFlag, CallException, DialogReturn, DialogPop,
       DialogUnderflow
  <2>2. CASE Exec
    BY <2>2 DEF Exec, SmtExec, RequestAllThreadsShutdown, ShutdownQueue, ShutdownDone,
       PollDone, Dispatch, FetchEvent, Terminate, EventOutOfRange, LeaveLoop, EndOfList, CallModule,
       ModuleReturn, ReturnPlain, Idling, WaitReturn,
       QueueStep, RejectUndeclared, AcceptNull, Compare, TakeBest, NothingToDeliver,
       FinishReject, FinishNull, FinishAccept, SemaphDestroyStep
  <2>3. CASE HandleSignal \/ Finished \/ UNCHANGED vars
    BY <2>3 DEF HandleSignal, Finished, vars
  <2> QED BY <2>1, <2>2, <2>3 DEF Next
<1>11. CASE UNCHANGED lists \/ \E t : Activate(t) \/ Destroy(t)
  BY <1>1, <1>6, <1>11 DEF Old
<1> QED BY <1>8, <1>9, <1>10, <1>11

LEMMA StackStaysOff ==
  ASSUME IInv, OffLines, [Next]_vars, RunningActive
  PROVE  /\ \A i \in DOMAIN stack' : stack'[i].op = "deliver" => state'[stack'[i].thread] # "wait_semaph"
         /\ \A i \in DOMAIN stack' : i > 1 => stack'[i].op = "deliver"
<1> DEFINE Off(s) == /\ \A i \in DOMAIN s : s[i].op = "deliver" => state[s[i].thread] # "wait_semaph"
                     /\ \A i \in DOMAIN s : i > 1 => s[i].op = "deliver"
<1>0. /\ Len(stack) \in Nat /\ DOMAIN stack = 1 .. Len(stack) /\ stack \in Seq(Members(stack))
      /\ \A i \in DOMAIN stack : stack[i].op = "deliver" => stack[i].thread \in Thread
  BY DEF IInv, StackOK, FrameOK, Members, Alive
<1>1. Off(stack)
  BY DEF OffLines
<1>2. ASSUME stack # <<>>
      PROVE  Off(Pop) /\ \A f : SameTop(f) /\ Top.op = "deliver" => Off(SetTop(f))
                                       /\ SetTop(f) \in Seq(Members(SetTop(f)))
  <2>1. /\ DOMAIN Pop = 1 .. Len(stack) - 1 /\ \A i \in DOMAIN Pop : Pop[i] = stack[i]
    <3>1. Len(stack) > 0 /\ stack \in Seq(Members(stack))
      BY <1>0, <1>2
    <3>2. Pop = SubSeq(stack, 1, Len(stack) - 1)
      BY DEF Pop
    <3> HIDE DEF Pop
    <3>3. \A i \in 1 .. Len(stack) - 1 : stack[i] \in Members(stack)
      BY <1>0 DEF Members
    <3>4. Pop \in Seq(Members(stack)) /\ Len(Pop) = Len(stack) - 1
          /\ \A i \in 1 .. Len(stack) - 1 : Pop[i] = stack[i]
      BY <1>0, <3>1, <3>2, <3>3, SubSeqProperties
    <3> QED BY <3>4
  <2>2. Off(Pop)
    BY <1>0, <1>1, <2>1
  <2>3. ASSUME NEW f, SameTop(f), Top.op = "deliver"
        PROVE  Off(SetTop(f)) /\ SetTop(f) \in Seq(Members(SetTop(f)))
    <3>0. Len(stack) > 0
      BY <1>0, <1>2
    <3>1. /\ DOMAIN SetTop(f) = 1 .. Len(stack)
          /\ \A i \in 1 .. Len(stack) : SetTop(f)[i] = IF i = Len(stack) THEN f ELSE stack[i]
      BY <1>0, <1>2 DEF SetTop
    <3>2. f.op = "deliver" /\ state[f.thread] # "wait_semaph"
      <4>1. Len(stack) \in DOMAIN stack /\ Top = stack[Len(stack)]
        BY <1>0, <3>0 DEF Top
      <4>2. \A i \in DOMAIN stack : Top = stack[i] /\ Top.op = "deliver" => state[Top.thread] # "wait_semaph"
        BY DEF OffLines
      <4>3. state[Top.thread] # "wait_semaph"
        BY ONLY <2>3, <4>1, <4>2
      <4> QED BY ONLY <2>3, <4>3 DEF SameTop
    <3>3. SetTop(f) \in Seq(Members(SetTop(f)))
      BY <1>2, StackTop DEF IInv
    <3>4. Off(SetTop(f))
      BY ONLY <1>0, <1>1, <3>1, <3>2
    <3> QED BY <3>3, <3>4
  <2> QED BY <2>2, <2>3
<1>3. ASSUME NEW s, s \in Seq(Members(s)), Off(s), Pushed(s)
      PROVE  Off(stack')
  <2>1. PICK f : f.op = "deliver" /\ state[f.thread] # "wait_semaph" /\ stack' = Append(s, f)
    BY <1>3 DEF Pushed
  <2>2. /\ DOMAIN stack' = 1 .. Len(s) + 1 /\ Len(s) \in Nat /\ DOMAIN s = 1 .. Len(s)
        /\ stack'[Len(s) + 1] = f
        /\ \A i \in 1 .. Len(s) : stack'[i] = s[i]
    BY <1>3, <2>1
  <2> QED BY <1>3, <2>1, <2>2
<1>4. Off(stack')
  <2>1. ASSUME NEW f, stack' = <<f>>, f.op = "deliver" => state[f.thread] # "wait_semaph"
        PROVE  Off(stack')
    BY <2>1
  <2>2. FetchEvent => state[cur] = "active"
    BY DEF FetchEvent, Here, OffLines
  <2> HIDE DEF Off
  <2>3. Off(<<>>)
    BY DEF Off
  <2> QED BY <1>0, <1>1, <1>2, <1>3, <2>1, <2>2, <2>3, StepMoves DEF StackMove
<1>5. stack' # <<>> => \A t \in Thread : state'[t] = "wait_semaph" => state[t] = "wait_semaph"
  <2>1. ReturnBreak => stack' = <<>>
    BY DEF ReturnBreak, Returning, nested
  <2> QED BY <2>1, NewlyWaiting
<1>6. \A i \in DOMAIN stack' : stack'[i].op = "deliver" => stack'[i].thread \in Thread
  BY EveryStep DEF IInv, StackOK, FrameOK, Members, Alive
<1> QED BY <1>4, <1>5, <1>6

LEMMA EveryOff ==
  ASSUME IInv, OffLines, RunningActive, [Next]_vars
  PROVE  OffLines'
<1> DEFINE Fetching == {"init", "init_fetch", "stop", "stop_fetch"}
<1> USE DEF IInv, ListsInv, ListsType
<1>1. SUFFICES ASSUME pc' \in Fetching PROVE state'[cur'] = "active"
  BY StackStaysOff DEF OffLines
<1>2. CASE Dispatch \/ EndOfList
  <2>1. cur' = Head(active) /\ active # <<>> /\ UNCHANGED state
    BY <1>1, <1>2 DEF Dispatch, EndOfList, InLoop, lists
  <2> QED BY <2>1, FirstActive
<1>3. CASE FetchEvent
  BY <1>3 DEF FetchEvent, Here, OffLines, lists
<1>4. CASE ~Dispatch /\ ~EndOfList /\ ~FetchEvent
  <2>1. \A c : Anywhere(c) => pc \notin Fetching
    BY KernelAssumption DEF Anywhere, InModule, Outside, ControlOK
  <2>2. ~UserCall
    <3> SUFFICES ASSUME UserCall PROVE FALSE
      OBVIOUS
    <3>1. pc' = pc \/ pc' = "exit"
      BY DEF UserCall, EventSend, SemaphCreate, SemaphWait, SemaphSignal, SemaphDestroy,
         ThreadCreate, ThreadDestroy, SmtShutdown, SetFlag, CallException, DialogReturn, DialogPop,
         DialogUnderflow, exec
    <3>2. \E c : Anywhere(c)
      BY DEF UserCall, EventSend, SemaphCreate, SemaphWait, SemaphSignal, SemaphDestroy,
         ThreadCreate, ThreadDestroy, SmtShutdown, SetFlag, FlagCall, CallException, DialogReturn,
         DialogPop, DialogUnderflow, Anywhere
    <3> QED BY <1>1, <2>1, <3>1, <3>2
  <2>3. ~ModuleReturn
    <3> SUFFICES ASSUME ModuleReturn PROVE FALSE
      OBVIOUS
    <3>1. running # None /\ pc = "modules"
      BY DEF ModuleReturn, ReturnException, ReturnBreak, ReturnJump, ReturnPlain, Returning, ControlOK
    <3>2. pc' \in {pc, "idle", "modules"}
      BY DEF ModuleReturn, ReturnException, ReturnBreak, ReturnJump, ReturnPlain
    <3> QED BY <1>1, <3>1, <3>2
  <2>4. ~(SmtExec \/ PollDone \/ FetchFailed \/ Terminate \/ EventOutOfRange \/ FirstList
            \/ NextList \/ LeaveLoop \/ CallModule \/ Idling \/ WaitReturn \/ RequestAllThreadsShutdown)
    BY <1>1 DEF SmtExec, PollDone, FetchFailed, Terminate, EventOutOfRange, FirstList, NextList,
       LeaveLoop, CallModule, InLoop, Idling, WaitReturn, RequestAllThreadsShutdown, GiveUp, Here, exec
  <2>5. pc \in Fetching /\ cur' = cur /\ cur \in Thread
        /\ (UNCHANGED state \/ \E t : state' = [state EXCEPT ![t] = "active"])
    <3>1. QueueStep \/ SemaphDestroyStep \/ ShutdownDone \/ (\E q \in Queue : ShutdownQueue(q))
            \/ HandleSignal \/ Finished \/ UNCHANGED vars
      BY <1>4, <2>2, <2>3, <2>4 DEF Next, Exec
    <3>2. pc' = pc /\ cur' = cur
      BY <1>1, <3>1 DEF QueueStep, RejectUndeclared, AcceptNull, Compare, TakeBest, NothingToDeliver,
         FinishReject, FinishNull, FinishAccept, SemaphDestroyStep, ShutdownDone, ShutdownQueue,
         HandleSignal, Finished, vars, exec
    <3>3. UNCHANGED state \/ \E t : state' = [state EXCEPT ![t] = "active"]
      BY <3>1 DEF QueueStep, RejectUndeclared, AcceptNull, Compare, TakeBest, NothingToDeliver,
         FinishReject, FinishNull, FinishAccept, SemaphDestroyStep, ShutdownDone, ShutdownQueue,
         HandleSignal, Finished, vars, lists, Activate
    <3> QED BY <1>1, <3>2, <3>3 DEF ControlOK, Alive, Busy
  <2>6. state[cur] = "active"
    BY <2>5 DEF OffLines
  <2> QED BY <2>5, <2>6
<1> QED BY <1>2, <1>3, <1>4

-----------------------------------------------------------------------------
(* What the steps are to FifoSemaphore.                                     *)

(* No thread has asked to wait and is still running.                        *)
NoneAsking == flags.break_wanted # "wait_semaph"

LineStep == Fifo!FNext \/ UNCHANGED Fifo!fvars

Ended == {t \in Thread : state[t] = "dead"}
Lines == [s \in Semaph |-> Line(s)]

LEMMA LinesAreLists ==
  ASSUME NoneAsking PROVE \A s \in Semaph : Line(s) = waiters[s]
BY DEF NoneAsking, Line, Asking

LEMMA LinesSame ==
  ASSUME \A s \in Semaph : Line(s)' = Line(s)
  PROVE  Lines' = Lines
BY DEF Lines

(* A step that changes no more than FifoSemaphore sees.                     *)
LEMMA Unseen ==
  ASSUME UNCHANGED <<live, value>>, Closing' = Closing, Ended' = Ended,
         (pc = "exit")' = (pc = "exit"), \A s \in Semaph : Line(s)' = Line(s)
  PROVE  LineStep
BY LinesSame DEF LineStep, Fifo!fvars, Ended, Lines

LEMMA NothingClosing ==
  ASSUME stack = <<>> PROVE Closing = {}
BY DEF Closing

(* Steps of the activations leave the semaphore being destroyed alone.      *)
LEMMA ClosingStays ==
  ASSUME IInv, OffLines, StackMove,
         stack' = <<>> => stack = <<>> \/ stack' = Pop \/ DeliverMove,
         stack # <<>> /\ stack' = Pop => Top.op # "semaph_destroy",
         stack = <<>> => \A i \in DOMAIN stack' : stack'[i].op # "semaph_destroy"
  PROVE  Closing' = Closing
<1>0. /\ Len(stack) \in Nat /\ DOMAIN stack = 1 .. Len(stack) /\ stack \in Seq(Members(stack))
  BY DEF IInv, StackOK
<1>1. CASE stack' = stack
  BY <1>1 DEF Closing
<1>2. CASE stack = <<>>
  <2>1. Closing = {}
    BY <1>2, NothingClosing
  <2>2. stack' # <<>> => stack'[1].op # "semaph_destroy"
    <3>1. \A f : stack' = <<f>> => 1 \in DOMAIN stack'
      OBVIOUS
    <3>2. \A f : stack' = Append(stack, f) => 1 \in DOMAIN stack'
      BY <1>2
    <3> QED BY <1>2, <3>1, <3>2 DEF StackMove, Pushed
  <2> QED BY <2>1, <2>2 DEF Closing
<1>3. CASE stack # <<>> /\ stack' # stack
  <2>0. Len(stack) > 0
    BY <1>0, <1>3
  <2>1. CASE stack' = Pop
    <3>1. /\ Len(Pop) = Len(stack) - 1 /\ Pop \in Seq(Members(Pop))
          /\ \A i \in 1 .. Len(stack) - 1 : Pop[i] = stack[i]
      <4>1. Pop = SubSeq(stack, 1, Len(stack) - 1)
        BY DEF Pop
      <4>2. \A i \in 1 .. Len(stack) - 1 : stack[i] \in Members(stack)
        BY <1>0 DEF Members
      <4>3. Pop \in Seq(Members(Pop))
        BY <1>3, StackTop DEF IInv
      <4> HIDE DEF Pop
      <4> QED BY <1>0, <2>0, <4>1, <4>2, <4>3, SubSeqProperties
    <3>2. CASE Len(stack) = 1
      <4>1. Top = stack[1] /\ stack[1].op # "semaph_destroy"
        BY <1>3, <2>1, <3>2 DEF Top
      <4>2. Pop = <<>>
        BY <3>1, <3>2
      <4> QED BY <2>1, <4>1, <4>2 DEF Closing
    <3>3. CASE Len(stack) # 1
      <4>1. 1 \in 1 .. Len(stack) - 1
        BY <1>0, <2>0, <3>3
      <4>2. Pop[1] = stack[1] /\ Pop # <<>>
        BY <3>1, <4>1
      <4> QED BY <1>3, <2>1, <4>2 DEF Closing
    <3> QED BY <3>2, <3>3
  <2>2. ASSUME NEW s, s \in Seq(Members(s)), s # <<>>, s[1].op = stack[1].op,
               stack[1].op = "semaph_destroy" => s[1].semaph = stack[1].semaph,
               stack' = s \/ Pushed(s)
        PROVE  Closing' = Closing
    <3>1. stack' # <<>> /\ stack'[1] = s[1]
      BY <2>2 DEF Pushed
    <3> QED BY <1>3, <2>2, <3>1 DEF Closing
  <2>3. CASE Pushed(stack)
    BY <1>0, <1>3, <2>2, <2>3
  <2>4. CASE Top.op = "deliver" /\ \E f : SameTop(f) /\ (stack' = SetTop(f) \/ Pushed(SetTop(f)))
    <3>1. PICK f : SameTop(f) /\ (stack' = SetTop(f) \/ Pushed(SetTop(f)))
      BY <2>4
    <3>2. SetTop(f) \in Seq(Members(SetTop(f)))
      BY <1>3, StackTop DEF IInv
    <3>3. PICK s : s = SetTop(f)
      OBVIOUS
    <3>4. s # <<>> /\ s[1] = IF Len(stack) = 1 THEN f ELSE stack[1]
      <4>1. /\ DOMAIN SetTop(f) = 1 .. Len(stack)
            /\ SetTop(f)[1] = IF Len(stack) = 1 THEN f ELSE stack[1]
        BY <1>0, <2>0 DEF SetTop
      <4>2. 1 \in DOMAIN s /\ s[1] = IF Len(stack) = 1 THEN f ELSE stack[1]
        BY <2>0, <1>0, <3>3, <4>1
      <4> QED BY <4>2
    <3>5. Len(stack) = 1 => stack[1].op = "deliver" /\ f.op = "deliver"
      BY <2>4, <3>1 DEF SameTop, Top
    <3> QED BY <2>2, <3>1, <3>2, <3>3, <3>4, <3>5
  <2> QED BY <1>3, <2>1, <2>3, <2>4 DEF StackMove, DeliverMove
<1> QED BY <1>1, <1>2, <1>3

(* A thread that stands in no line may be taken off the lists.              *)
LEMMA OffAList ==
  ASSUME ListsInv, NoneAsking, NoneAsking',
         UNCHANGED waiters
           \/ \E t \in Thread : state[t] # "wait_semaph" /\ waiters' = UnlinkedWaiters(t)
  PROVE  \A s \in Semaph : Line(s)' = Line(s)
<1> USE DEF ListsInv, ListsType
<1>1. waiters' = waiters
  <2>1. CASE UNCHANGED waiters
    BY <2>1
  <2>2. CASE ~UNCHANGED waiters
    <3>1. PICK t \in Thread : state[t] # "wait_semaph" /\ waiters' = UnlinkedWaiters(t)
      BY <2>2
    <3>2. \A s \in Semaph : t \notin Members(waiters[s])
      BY <3>1 DEF ListsAgree
    <3>3. \A s \in Semaph : Unlink(waiters[s], t) = waiters[s]
      BY <3>2, UnlinkType
    <3> QED BY <3>1, <3>3 DEF UnlinkedWaiters
  <2> QED BY <2>1, <2>2
<1> QED BY <1>1 DEF NoneAsking, Line, Asking

(* What a call leaves alone.                                                *)
Rest == /\ Closing' = Closing
        /\ Ended' = Ended
        /\ (pc = "exit")' = (pc = "exit")

LEMMA CallRest ==
  ASSUME NEW c, Anywhere(c), stack' = stack, pc' = pc, Ended' = Ended
  PROVE  Rest /\ Closing = {}
BY NothingClosing DEF Anywhere, InModule, Outside, Rest, Closing

LEMMA EndedSame ==
  ASSUME \A t \in Thread : state'[t] = "dead" <=> state[t] = "dead"
  PROVE  Ended' = Ended
BY DEF Ended

LEMMA ActivateEnded ==
  ASSUME ListsInv, NEW t \in Alive, Activate(t)
  PROVE  Ended' = Ended
<1>1. t \in Thread /\ state[t] # "dead" /\ state' = [state EXCEPT ![t] = "active"]
  BY DEF Alive, Activate
<1> QED BY <1>1, EndedSame DEF ListsInv, ListsType

(* The calls about semaphores.                                              *)
LEMMA CreateOpens ==
  ASSUME SignalsOK, NoneAsking, NEW s \in Semaph, SemaphCreate(s)
  PROVE  LineStep
<1>1. /\ s \notin live /\ value' = [value EXCEPT ![s] = InitValue[s]] /\ live' = live \cup {s}
      /\ UNCHANGED <<waiters, state, running, flags, cur, stack, pc>>
  BY DEF SemaphCreate, lists, exec, nested
<1>2. Rest
  <2>1. Ended' = Ended
    BY <1>1 DEF Ended
  <2> QED BY <1>1, <2>1, CallRest DEF SemaphCreate
<1>3. Line(s) = <<>> /\ \A r \in Semaph : Line(r)' = Line(r)
  BY <1>1, LinesAreLists DEF SignalsOK, Line, Asking
<1>4. Lines' = Lines
  BY <1>3, LinesSame
<1>5. Fifo!Open(s)
  BY <1>1, <1>2, <1>3, <1>4 DEF Fifo!Open, Rest, Ended, Lines
<1> QED BY <1>5 DEF LineStep, Fifo!FNext

LEMMA WaitQueues ==
  ASSUME IInv, RunningActive, SignalsOK, NoneAsking, NEW s \in Semaph, SemaphWait(s)
  PROVE  Fifo!Acquire(s) \/ Fifo!Enter(running, s)
<1>0. /\ running \in Thread /\ state[running] = "active" /\ running # None /\ running = cur
      /\ \A r \in Semaph : running \notin Members(waiters[r])
  <2>1. running # None /\ running \in Thread /\ running = cur
    BY DEF SemaphWait, InModule, IInv, ControlOK, Alive, Busy
  <2>2. state[running] = "active"
    BY <2>1 DEF RunningActive
  <2> QED BY <2>1, <2>2 DEF IInv, ListsInv, ListsAgree
<1>1. /\ UNCHANGED <<waiters, state, running, cur, live, stack, pc>> /\ s \in live /\ value[s] \in Nat
      /\ Anywhere("semaph_wait")
  BY DEF SemaphWait, lists, nested, SignalsOK, Anywhere
<1>2. Rest /\ Closing = {}
  <2>1. Ended' = Ended
    BY <1>1 DEF Ended
  <2> QED BY <1>1, <2>1, CallRest
<1>3. CASE value[s] > 0
  <2>1. value' = [value EXCEPT ![s] = @ - 1] /\ UNCHANGED flags
    BY <1>3 DEF SemaphWait
  <2>2. Line(s) = <<>> /\ \A r \in Semaph : Line(r)' = Line(r)
    <3>1. waiters[s] = <<>>
      BY <1>3 DEF SignalsOK
    <3>2. Line(s) = <<>>
      BY <3>1, LinesAreLists
    <3> QED BY <1>1, <2>1, <3>2 DEF Line, Asking
  <2>3. Lines' = Lines
    BY <2>2, LinesSame
  <2>4. Fifo!Acquire(s)
    BY <1>1, <1>2, <1>3, <2>1, <2>2, <2>3 DEF Fifo!Acquire, Fifo!Usable, Rest, Ended, Lines
  <2> QED BY <2>4
<1>4. CASE ~(value[s] > 0)
  <2>1. /\ value' = value /\ value[s] = 0
        /\ flags' = [flags EXCEPT !.break_wanted = "wait_semaph", !.break_semaph = s]
    BY <1>1, <1>4 DEF SemaphWait
  <2>2. flags'.break_wanted = "wait_semaph" /\ flags'.break_semaph = s
    BY <2>1 DEF IInv, FlagsOK
  <2>3. /\ \A r \in Semaph : Line(r) = waiters[r]
        /\ Line(s)' = Append(waiters[s], running)
        /\ \A r \in Semaph : r # s => Line(r)' = waiters[r]
    BY <1>0, <1>1, <2>2, LinesAreLists DEF Line, Asking
  <2>4. Lines' = [Lines EXCEPT ![s] = Append(@, running)]
    BY <2>3 DEF Lines
  <2>5. \A r \in Semaph : \A i \in DOMAIN Line(r) : Line(r)[i] # running
    BY <1>0, <2>3 DEF Members
  <2>6. running \notin Ended
    BY <1>0 DEF Ended
  <2>7. Fifo!Enter(running, s)
    BY <1>1, <1>2, <2>1, <2>4, <2>5, <2>6 DEF Fifo!Enter, Fifo!Usable, Rest, Ended, Lines
  <2> QED BY <2>7
<1> QED BY <1>3, <1>4

(* The first in line is taken off it.                                       *)
LEMMA HeadLeaves ==
  ASSUME ListsInv, NoneAsking, NoneAsking', NEW s \in Semaph, waiters[s] # <<>>,
         Activate(Head(waiters[s]))
  PROVE  /\ Lines' = [Lines EXCEPT ![s] = Tail(@)]
         /\ Line(s) = waiters[s]
         /\ Ended' = Ended
         /\ state'[Head(waiters[s])] = "active"
<1> USE DEF ListsInv, ListsType
<1> DEFINE t == Head(waiters[s])
<1>1. t \in Members(waiters[s]) /\ t \in Thread /\ Unlink(waiters[s], t) = Tail(waiters[s])
  BY HeadMember, UnlinkFirst DEF ListsAgree
<1>2. waiters' = UnlinkedWaiters(t) /\ state' = [state EXCEPT ![t] = "active"] /\ t \in Alive
  BY FirstWaiter DEF Activate
<1>3. \A r \in Semaph : r # s => t \notin Members(waiters[r])
  BY <1>1 DEF ListsAgree
<1>4. \A r \in Semaph : r # s => Unlink(waiters[r], t) = waiters[r]
  BY <1>3, UnlinkType
<1>5. Ended' = Ended
  BY <1>2, ActivateEnded
<1> HIDE DEF t
<1>6. \A r \in Semaph : Line(r) = waiters[r] /\ Line(r)' = waiters'[r]
  BY DEF NoneAsking, Line, Asking
<1>7. /\ Line(s)' = Tail(Line(s))
      /\ \A r \in Semaph : r # s => Line(r)' = Line(r)
  BY <1>1, <1>2, <1>4, <1>6 DEF UnlinkedWaiters
<1>8. Lines' = [Lines EXCEPT ![s] = Tail(@)]
  BY <1>7 DEF Lines
<1>9. state'[t] = "active"
  BY <1>1, <1>2
<1> QED BY <1>5, <1>6, <1>8, <1>9 DEF t

LEMMA SignalReleases ==
  ASSUME IInv, SignalsOK, NoneAsking, NEW s \in Semaph, SemaphSignal(s)
  PROVE  /\ Fifo!Release(s)
         /\ waiters[s] = <<>> \/ state'[Head(waiters[s])] = "active"
<1>1. /\ UNCHANGED <<running, flags, cur, live, stack, pc>> /\ value[s] \in Nat
      /\ s \in live /\ Anywhere("semaph_signal")
  BY DEF SemaphSignal, exec, nested, SignalsOK
<1>2. NoneAsking'
  BY <1>1 DEF NoneAsking
<1>3. CASE waiters[s] # <<>>
  <2>1. value' = value /\ Activate(Head(waiters[s]))
    BY <1>1, <1>3 DEF SemaphSignal
  <2>2. /\ Lines' = [Lines EXCEPT ![s] = Tail(@)] /\ Line(s) = waiters[s]
        /\ Ended' = Ended /\ state'[Head(waiters[s])] = "active"
    BY <1>2, <1>3, <2>1, HeadLeaves DEF IInv
  <2>3. Rest /\ Closing = {}
    BY <1>1, <2>2, CallRest
  <2>4. Fifo!Release(s)
    BY <1>1, <1>3, <2>1, <2>2, <2>3 DEF Fifo!Release, Fifo!Usable, Rest, Ended, Lines
  <2> QED BY <2>2, <2>4
<1>4. CASE waiters[s] = <<>>
  <2>1. value' = [value EXCEPT ![s] = @ + 1] /\ waiters' = waiters /\ state' = state
    BY <1>1, <1>4 DEF SemaphSignal, lists
  <2>2. Line(s) = <<>> /\ \A r \in Semaph : Line(r)' = Line(r)
    BY <1>1, <1>2, <1>4, <2>1 DEF NoneAsking, Line, Asking
  <2>3. Lines' = Lines
    BY <2>2, LinesSame
  <2>4. Rest /\ Closing = {}
    <3>1. Ended' = Ended
      BY <2>1 DEF Ended
    <3> QED BY <1>1, <3>1, CallRest
  <2>5. Fifo!Release(s)
    BY <1>1, <2>1, <2>2, <2>3, <2>4 DEF Fifo!Release, Fifo!Usable, Rest, Ended, Lines
  <2> QED BY <1>4, <2>5
<1> QED BY <1>3, <1>4

LEMMA DestroyCloses ==
  ASSUME IInv, NoneAsking, NEW s \in Semaph, SemaphDestroy(s)
  PROVE  LineStep
<1>1. /\ s \in live /\ stack = <<>>
      /\ stack' = Append(stack, [op |-> "semaph_destroy", semaph |-> s])
      /\ UNCHANGED <<waiters, state, live, value, running, flags, cur, pc>>
  BY DEF SemaphDestroy, Anywhere, InModule, Outside, lists, sems, exec
<1>2. Closing = {}
  BY <1>1, NothingClosing
<1>3. Closing' = {s}
  <2>1. stack' # <<>> /\ stack'[1].op = "semaph_destroy" /\ stack'[1].semaph = s
    BY <1>1
  <2> QED BY <2>1 DEF Closing
<1>4. Lines' = Lines
  BY <1>1 DEF Lines, Line, Asking
<1>5. Ended' = Ended /\ (pc = "exit")' = (pc = "exit")
  BY <1>1 DEF Ended
<1>6. Fifo!Close(s)
  BY <1>1, <1>2, <1>3, <1>4, <1>5 DEF Fifo!Close, Fifo!Usable, Ended, Lines
<1> QED BY <1>6 DEF LineStep, Fifo!FNext

(* semaph_destroy wakes the threads in the order of the line.               *)
LEMMA DestroyDismisses ==
  ASSUME IInv, OffLines, PendingOK, SemaphDestroyStep
  PROVE  LineStep
<1> DEFINE s == Top.semaph
<1>1. /\ stack # <<>> /\ Top.op = "semaph_destroy" /\ s \in Semaph
      /\ UNCHANGED <<value, running, flags, cur, pc>>
  BY StackTop DEF SemaphDestroyStep, exec, IInv, FrameOK
<1>2. NoneAsking /\ NoneAsking'
  BY <1>1 DEF PendingOK, NothingPending, NoneAsking
<1>3. Len(stack) = 1 /\ Top = stack[1]
  <2>1. Len(stack) \in Nat /\ Len(stack) > 0 /\ DOMAIN stack = 1 .. Len(stack)
    BY <1>1 DEF IInv, StackOK
  <2>2. Top = stack[Len(stack)] /\ Len(stack) \in DOMAIN stack
    BY <2>1 DEF Top
  <2> QED BY <1>1, <2>1, <2>2 DEF OffLines
<1>4. Closing = {s}
  BY <1>1, <1>3 DEF Closing
<1>5. CASE waiters[s] # <<>>
  <2>1. Activate(Head(waiters[s])) /\ UNCHANGED <<live, stack>>
    BY <1>5 DEF SemaphDestroyStep
  <2>2. /\ Lines' = [Lines EXCEPT ![s] = Tail(@)] /\ Line(s) = waiters[s]
        /\ Ended' = Ended
    BY <1>1, <1>2, <1>5, <2>1, HeadLeaves DEF IInv
  <2>3. Closing' = Closing
    BY <2>1 DEF Closing
  <2> HIDE DEF s
  <2>4. Fifo!Dismiss(s)
    BY <1>1, <1>4, <1>5, <2>1, <2>2, <2>3 DEF Fifo!Dismiss, Ended, Lines
  <2> QED BY <1>1, <2>4 DEF LineStep, Fifo!FNext
<1>6. CASE waiters[s] = <<>>
  <2>1. live' = live \ {s} /\ stack' = Pop /\ UNCHANGED <<waiters, state>>
    BY <1>6 DEF SemaphDestroyStep, lists
  <2>2. Closing' = {}
    <3>1. Pop = <<>>
      BY <1>3 DEF Pop
    <3> QED BY <2>1, <3>1 DEF Closing
  <2>3. Line(s) = <<>> /\ Lines' = Lines
    BY <1>1, <1>2, <1>6, <2>1 DEF NoneAsking, Line, Lines, Asking
  <2>4. Ended' = Ended
    BY <2>1 DEF Ended
  <2> HIDE DEF s
  <2>5. Fifo!Closed(s)
    BY <1>1, <1>4, <2>1, <2>2, <2>3, <2>4 DEF Fifo!Closed, Ended, Lines
  <2> QED BY <1>1, <2>5 DEF LineStep, Fifo!FNext
<1> QED BY <1>5, <1>6

(* A thread that is destroyed leaves the line it stands in.                 *)
LEMMA DeathLeaves ==
  ASSUME IInv, NoneAsking, NoneAsking', NEW t \in Alive, Destroy(t), UNCHANGED sems,
         Closing' = Closing, (pc = "exit")' = (pc = "exit")
  PROVE  LineStep
<1> USE DEF IInv, ListsInv, ListsType
<1>1. /\ t \in Thread /\ state[t] # "dead" /\ state' = [state EXCEPT ![t] = "dead"]
      /\ waiters' = UnlinkedWaiters(t)
  BY DEF Alive, Destroy
<1>2. t \notin Ended /\ Ended' = Ended \cup {t}
  BY <1>1 DEF Ended
<1>3. \A r \in Semaph : Line(r) = waiters[r] /\ Line(r)' = waiters'[r]
  BY DEF NoneAsking, Line, Asking
<1>4. Lines' = [r \in Semaph |-> Fifo!Unlink(Lines[r], t)]
  <2>1. \A r \in Semaph : Line(r)' = Fifo!Unlink(Lines[r], t)
    BY <1>1, <1>3, SameUnlink DEF UnlinkedWaiters, Lines
  <2> QED BY <2>1 DEF Lines
<1>5. Fifo!End(t)
  BY <1>1, <1>2, <1>4 DEF Fifo!End, Ended, Lines, sems
<1> QED BY <1>1, <1>5 DEF LineStep, Fifo!FNext

(* The program is aborted.                                                  *)
LEMMA AbortHalts ==
  ASSUME HandleSignal \/ DialogUnderflow
  PROVE  LineStep
<1>1. UNCHANGED <<waiters, state, live, value, flags, cur>>
  BY DEF HandleSignal, DialogUnderflow, lists, sems
<1>2. Lines' = Lines /\ Ended' = Ended
  BY <1>1 DEF Lines, Line, Asking, Ended
<1>3. CASE pc' = "exit" /\ pc # "exit"
  <2>1. stack' = <<>>
    <3>1. HandleSignal => stack' = <<>>
      BY <1>3 DEF HandleSignal
    <3>2. DialogUnderflow => stack' = <<>>
      BY DEF DialogUnderflow, InModule, nested
    <3> QED BY <3>1, <3>2
  <2>2. Closing' = {}
    BY <2>1 DEF Closing
  <2>3. Fifo!Halt
    BY <1>1, <1>2, <1>3, <2>2 DEF Fifo!Halt, Ended, Lines
  <2> QED BY <2>3 DEF LineStep, Fifo!FNext
<1>4. CASE ~(pc' = "exit" /\ pc # "exit")
  <2>1. stack' = stack /\ (pc = "exit")' = (pc = "exit")
    <3>1. HandleSignal => stack' = stack /\ pc' = pc
      BY <1>4 DEF HandleSignal
    <3>2. DialogUnderflow => stack' = stack /\ pc' = "exit"
      BY DEF DialogUnderflow, nested
    <3> QED BY <1>4, <3>1, <3>2
  <2>2. Closing' = Closing
    BY <2>1 DEF Closing
  <2>3. \A s \in Semaph : Line(s)' = Line(s)
    BY <1>1 DEF Line, Asking
  <2> QED BY <1>1, <1>2, <2>1, <2>2, <2>3, Unseen
<1> QED BY <1>3, <1>4

(* smt_exec suspends the thread of the module that asked to wait: it is on   *)
(* the list where it stood in line.                                         *)
LEMMA SuspensionStays ==
  ASSUME IInv, RunningActive, ReturnBreak, flags.break_wanted = "wait_semaph"
  PROVE  LineStep
<1> USE DEF IInv, ListsInv, ListsType
<1> DEFINE s == flags.break_semaph
<1>1. /\ running # None /\ running = cur /\ cur \in Thread /\ state[cur] = "active"
      /\ s \in Semaph
  BY DEF ReturnBreak, Returning, RunningActive, ControlOK, FlagsOK, Alive, Busy
<1>2. \A r \in Semaph : cur \notin Members(waiters[r])
  BY <1>1 DEF ListsAgree
<1>3. \A r \in Semaph : Unlink(waiters[r], cur) = waiters[r]
  BY <1>2, UnlinkType
<1>4. /\ waiters' = [UnlinkedWaiters(cur) EXCEPT ![s] = Append(@, cur)]
      /\ state' = [state EXCEPT ![cur] = "wait_semaph"]
      /\ UNCHANGED <<live, value, stack, pc>>
  BY DEF ReturnBreak, Returning, Suspend, sems, nested
<1>5. /\ Line(s) = Append(waiters[s], cur)
      /\ \A r \in Semaph : r # s => Line(r) = waiters[r]
  BY <1>1 DEF Line, Asking
<1>6. flags'.break_wanted = "continue"
  BY DEF ReturnBreak, FlagsOK
<1> HIDE DEF s
<1>7. \A r \in Semaph : Line(r)' = waiters'[r]
  BY <1>6 DEF Line, Asking
<1>8. \A r \in Semaph : Line(r)' = Line(r)
  BY <1>1, <1>3, <1>4, <1>5, <1>7 DEF UnlinkedWaiters
<1>9. Ended' = Ended
  BY <1>1, <1>4, EndedSame
<1>10. Closing' = Closing
  BY <1>4 DEF Closing
<1> QED BY <1>4, <1>8, <1>9, <1>10, Unseen

(* The calls that have nothing to do with semaphores.                       *)
LEMMA OtherCalls ==
  ASSUME LastStatement, IInv, OffLines, PendingOK, StackMove, UserCall, ~DialogUnderflow,
         ~\E s \in Semaph : SemaphCreate(s) \/ SemaphWait(s) \/ SemaphSignal(s) \/ SemaphDestroy(s)
  PROVE  LineStep
<1>1. NothingPending /\ stack = <<>>
  BY CallFindsNothing
<1>2. UNCHANGED <<sems, pc>> /\ NoneAsking /\ NoneAsking'
  <2>1. flags'.break_wanted # "wait_semaph"
    BY <1>1 DEF UserCall, EventSend, ThreadCreate, ThreadDestroy, SmtShutdown,
         SetFlag, FlagCall, CallException, DialogReturn, DialogPop, exec,
         NothingPending, IInv, FlagsOK
  <2>2. UNCHANGED <<sems, pc>>
    BY DEF UserCall, EventSend, ThreadCreate, ThreadDestroy, SmtShutdown,
         SetFlag, CallException, DialogReturn, DialogPop, exec
  <2> QED BY <1>1, <2>1, <2>2 DEF NothingPending, NoneAsking
<1>3. Closing' = Closing
  <2>1. CASE EventSend
    <3>1. \E m : Post(queue, m, stack)
      BY <2>1 DEF EventSend
    <3>2. stack' = <<>> \/ Pushed(<<>>)
      BY <1>1, <3>1, PostPushes DEF IInv
    <3>3. \A i \in DOMAIN stack' : stack'[i].op # "semaph_destroy"
      <4>1. ASSUME NEW f, f.op = "deliver", stack' = Append(<<>>, f)
            PROVE  \A i \in DOMAIN stack' : stack'[i].op # "semaph_destroy"
        <5>1. stack' = <<f>>
          BY <4>1
        <5> QED BY <4>1, <5>1
      <4>2. CASE stack' = <<>>
        BY <4>2
      <4> QED BY <3>2, <4>1, <4>2 DEF Pushed
    <3> QED BY <1>1, <3>3, ClosingStays
  <2>2. CASE ~EventSend
    <3>1. stack' = stack
      BY <2>2 DEF UserCall, ThreadCreate, ThreadDestroy, SmtShutdown, SetFlag, CallException,
           DialogReturn, DialogPop, nested
    <3> QED BY <3>1 DEF Closing
  <2> QED BY <2>1, <2>2
<1>4. CASE \E t \in Thread : ThreadDestroy(t)
  <2>1. PICK t \in Thread : ThreadDestroy(t)
    BY <1>4
  <2>2. t \in Alive /\ Destroy(t)
    BY <2>1 DEF ThreadDestroy
  <2> QED BY <1>2, <1>3, <2>2, DeathLeaves
<1>5. CASE \E t \in Thread : ThreadCreate(t)
  <2>1. PICK t \in Thread : ThreadCreate(t)
    BY <1>5
  <2>2. /\ state[t] = "none" /\ state' = [state EXCEPT ![t] = "active"]
        /\ waiters' = UnlinkedWaiters(t)
    BY <2>1 DEF ThreadCreate, Activate
  <2>3. \A s \in Semaph : Line(s)' = Line(s)
    BY <1>2, <2>2, OffAList DEF IInv
  <2>4. Ended' = Ended
    BY <2>2, EndedSame DEF IInv, ListsInv, ListsType
  <2> QED BY <1>2, <1>3, <2>3, <2>4, Unseen DEF sems
<1>6. CASE ~(\E t \in Thread : ThreadDestroy(t) \/ ThreadCreate(t))
  <2>1. UNCHANGED lists
    BY <1>6 DEF UserCall, EventSend, SmtShutdown, SetFlag, CallException, DialogReturn, DialogPop
  <2>2. \A s \in Semaph : Line(s)' = Line(s)
    BY <1>2, <2>1, OffAList DEF IInv, lists
  <2>3. Ended' = Ended
    BY <2>1 DEF Ended, lists
  <2> QED BY <1>2, <1>3, <2>2, <2>3, Unseen DEF sems
<1> QED BY <1>4, <1>5, <1>6

(* Whom smt_exec and queue_deliver move stands in no line.                  *)
LEMMA ExecMoves ==
  ASSUME IInv, OffLines, RunningActive, Exec, ~SemaphDestroyStep, ~Terminate,
         ~(ReturnBreak /\ flags.break_wanted = "wait_semaph")
  PROVE  /\ \/ UNCHANGED waiters
            \/ \E t \in Thread : state[t] # "wait_semaph" /\ waiters' = UnlinkedWaiters(t)
         /\ Ended' = Ended
<1> USE DEF IInv, ListsInv, ListsType
<1> DEFINE Moved(t) == /\ t \in Thread /\ state[t] \notin {"wait_semaph", "dead"}
                       /\ waiters' = UnlinkedWaiters(t)
                       /\ \E to : state' = [state EXCEPT ![t] = to] /\ to # "dead"
<1>1. UNCHANGED lists \/ Moved(cur) \/ (stack # <<>> /\ Top.op = "deliver" /\ Moved(Top.thread))
  <2>1. ASSUME cur \in Thread, state[cur] = "active"
        PROVE  /\ Activate(cur) => Moved(cur)
               /\ \A why, s : Suspend(cur, why, s) /\ why \notin {"wait_semaph", "dead"} => Moved(cur)
               /\ \A c : Lookup(cur, c) => UNCHANGED lists \/ Moved(cur)
    <3>1. Activate(cur) => Moved(cur)
      BY <2>1 DEF Activate
    <3>2. \A why, s : Suspend(cur, why, s) /\ why \notin {"wait_semaph", "dead"} => Moved(cur)
      BY <2>1 DEF Suspend
    <3> HIDE DEF Moved
    <3> QED BY <3>1, <3>2 DEF Lookup
  <2>2. ASSUME Here({"init", "init_fetch", "stop", "stop_fetch"}) \/ ModuleReturn
        PROVE  cur \in Thread /\ state[cur] = "active"
    <3>1. CASE Here({"init", "init_fetch", "stop", "stop_fetch"})
      BY <3>1 DEF Here, OffLines, ControlOK, Busy, Alive
    <3>2. CASE ModuleReturn
      BY <3>2 DEF ModuleReturn, ReturnException, ReturnBreak, ReturnJump, ReturnPlain, Returning,
           RunningActive, ControlOK, Busy, Alive
    <3> QED BY <2>2, <3>1, <3>2
  <2> HIDE DEF Moved
  <2>3. CASE FetchFailed
    <3>1. Here({"init", "init_fetch", "stop", "stop_fetch"}) /\ Suspend(cur, "passive", None)
      BY <2>3 DEF FetchFailed, Here
    <3> QED BY <2>1, <2>2, <3>1
  <2>4. CASE FirstList \/ NextList
    <3>1. /\ Here({"init", "init_fetch", "stop", "stop_fetch"})
          /\ Activate(cur) \/ \E c : Lookup(cur, c)
      BY <2>4 DEF FirstList, NextList, HaveEvent, Here
    <3> QED BY <2>1, <2>2, <3>1
  <2>5. CASE ReturnException \/ ReturnJump
    <3>1. ModuleReturn /\ \E c : Lookup(cur, c)
      BY <2>5 DEF ReturnException, ReturnJump, ModuleReturn
    <3> QED BY <2>1, <2>2, <3>1
  <2>6. CASE ReturnBreak
    <3>1. /\ ModuleReturn
          /\ Activate(cur)
               \/ \E why, s : Suspend(cur, why, s) /\ why \notin {"wait_semaph", "dead"}
      BY <2>6 DEF ReturnBreak, ModuleReturn, FlagsOK, Reasons
    <3> QED BY <2>1, <2>2, <3>1
  <2>7. CASE FinishAccept
    <3>1. /\ stack # <<>> /\ Top.op = "deliver"
          /\ UNCHANGED lists \/ Activate(Top.thread)
      BY <2>7 DEF FinishAccept
    <3>2. Top.thread \in Thread /\ state[Top.thread] \notin {"wait_semaph", "dead"}
      <4>1. Len(stack) \in DOMAIN stack /\ Top = stack[Len(stack)]
        <5>1. Len(stack) \in Nat /\ Len(stack) > 0 /\ DOMAIN stack = 1 .. Len(stack)
          BY <3>1 DEF StackOK
        <5> QED BY <5>1 DEF Top
      <4>2. Top \in Members(stack)
        BY <4>1 DEF Members
      <4>3. \A i \in DOMAIN stack : Top = stack[i] /\ Top.op = "deliver" => state[Top.thread] # "wait_semaph"
        BY DEF OffLines
      <4>4. state[Top.thread] # "wait_semaph"
        BY ONLY <3>1, <4>1, <4>3
      <4> QED BY <3>1, <4>2, <4>4 DEF StackOK, FrameOK, Alive
    <3>3. Activate(Top.thread) => Moved(Top.thread)
      BY <3>2 DEF Activate, Moved
    <3> QED BY <3>1, <3>3
  <2>8. UNCHANGED lists \/ FetchFailed \/ FinishAccept \/ FirstList \/ NextList
          \/ ReturnException \/ ReturnJump \/ ReturnBreak
    BY DEF Exec, SmtExec, RequestAllThreadsShutdown, ShutdownQueue, ShutdownDone,
         PollDone, Dispatch, FetchEvent, EventOutOfRange, LeaveLoop, EndOfList, CallModule,
         ModuleReturn, ReturnPlain, Idling, WaitReturn,
         QueueStep, RejectUndeclared, AcceptNull, Compare, TakeBest, NothingToDeliver,
         FinishReject, FinishNull
  <2> QED BY <2>3, <2>4, <2>5, <2>6, <2>7, <2>8
<1>2. CASE UNCHANGED lists
  BY <1>2 DEF lists, Ended
<1>3. ASSUME NEW t, Moved(t)
      PROVE  Ended' = Ended
  <2>1. PICK to : state' = [state EXCEPT ![t] = to] /\ to # "dead"
    BY <1>3
  <2> QED BY <1>3, <2>1, EndedSame
<1> QED BY <1>1, <1>2, <1>3

LEMMA ExecLines ==
  ASSUME IInv, OffLines, PendingOK, PendingOK', RunningActive, StackMove, Exec
  PROVE  LineStep
<1>1. CASE ReturnBreak /\ flags.break_wanted = "wait_semaph"
  BY <1>1, SuspensionStays
<1>2. CASE SemaphDestroyStep
  BY <1>2, DestroyDismisses
<1>3. CASE ~(ReturnBreak /\ flags.break_wanted = "wait_semaph") /\ ~SemaphDestroyStep
  <2>1. NoneAsking
    <3>1. \A at : Here(at) /\ "exit" \notin at => NoneAsking
      BY DEF Here, PendingOK, NothingPending, NoneAsking
    <3>2. stack # <<>> => NoneAsking
      BY DEF PendingOK, NothingPending, NoneAsking
    <3>3. ModuleReturn => NoneAsking
      BY <1>3 DEF ModuleReturn, ReturnException, ReturnBreak, ReturnJump, ReturnPlain,
           NothingPending, PendingOK, AtMostOneFlag, NoneAsking
    <3> QED BY <3>1, <3>2, <3>3 DEF Exec, SmtExec, RequestAllThreadsShutdown, ShutdownQueue,
           ShutdownDone, PollDone, Dispatch, FetchEvent, FetchFailed, Terminate, EventOutOfRange,
           FirstList, NextList, HaveEvent, LeaveLoop, EndOfList, CallModule, InLoop, Idling,
           WaitReturn, QueueStep, RejectUndeclared, AcceptNull, Compare, Looking, TakeBest,
           NothingToDeliver, Scanning, FinishReject, FinishNull, FinishAccept, SemaphDestroyStep
  <2>2. NoneAsking'
    <3>1. ModuleReturn => flags'.break_wanted # "wait_semaph"
      BY <2>1 DEF ModuleReturn, ReturnException, ReturnBreak, ReturnJump, ReturnPlain, NoneAsking,
           IInv, FlagsOK
    <3>2. SmtExec \/ CallModule => flags'.break_wanted # "wait_semaph"
      BY <2>1 DEF SmtExec, CallModule, NoneAsking, IInv, FlagsOK
    <3>3. CASE ~ModuleReturn /\ ~SmtExec /\ ~CallModule
      BY <2>1, <3>3 DEF Exec, RequestAllThreadsShutdown, ShutdownQueue, ShutdownDone, PollDone,
           Dispatch, FetchEvent, FetchFailed, Terminate, EventOutOfRange, FirstList, NextList,
           LeaveLoop, EndOfList, Idling, WaitReturn, exec, QueueStep, RejectUndeclared, AcceptNull,
           Compare, TakeBest, NothingToDeliver, FinishReject, FinishNull, FinishAccept,
           SemaphDestroyStep, NoneAsking
    <3> QED BY <3>1, <3>2, <3>3 DEF NoneAsking
  <2>3. UNCHANGED sems
    BY <1>3 DEF Exec, SmtExec, RequestAllThreadsShutdown, ShutdownQueue, ShutdownDone,
           PollDone, Dispatch, FetchEvent, FetchFailed, Terminate, EventOutOfRange, FirstList,
           NextList, LeaveLoop, EndOfList, CallModule, ModuleReturn, ReturnException,
           ReturnBreak, ReturnJump, ReturnPlain, Returning, Idling, WaitReturn,
           QueueStep, RejectUndeclared, AcceptNull, Compare, TakeBest, NothingToDeliver,
           FinishReject, FinishNull, FinishAccept
  <2>4. (pc = "exit")' = (pc = "exit")
    <3>1. CASE ModuleReturn
      BY <3>1 DEF ModuleReturn, ReturnException, ReturnBreak, ReturnJump, ReturnPlain, Returning,
           IInv, ControlOK
    <3>2. CASE ~ModuleReturn
      BY <1>3, <3>2 DEF Exec, SmtExec, RequestAllThreadsShutdown, ShutdownQueue, ShutdownDone,
           PollDone, Dispatch, FetchEvent, FetchFailed, Terminate, EventOutOfRange, FirstList,
           NextList, HaveEvent, LeaveLoop, EndOfList, CallModule, InLoop, Idling, WaitReturn, Here,
           GiveUp, exec, QueueStep, RejectUndeclared, AcceptNull, Compare, TakeBest,
           NothingToDeliver, FinishReject, FinishNull, FinishAccept
    <3> QED BY <3>1, <3>2
  <2>5. Closing' = Closing
    <3>1. CASE QueueStep
      BY <3>1, DeliverMoves, ClosingStays DEF DeliverMove
    <3>2. CASE \E q \in Queue : ShutdownQueue(q)
      <4>1. /\ stack # <<>> /\ Top.op = "shutdown"
            /\ \E qs, m : Post(qs, m, stack)
        BY <3>2 DEF ShutdownQueue
      <4>2. stack' = stack \/ Pushed(stack)
        BY <4>1, PostPushes DEF IInv
      <4>3. stack' # <<>>
        BY <4>1, <4>2 DEF Pushed, IInv, StackOK
      <4> QED BY <4>1, <4>3, ClosingStays
    <3>3. CASE ShutdownDone
      BY <3>3, ClosingStays DEF ShutdownDone
    <3>4. CASE FetchEvent
      <4>1. PICK id : stack = <<>> /\ stack' = <<[DeliverFrame(QueueOf[cur], cur, FALSE) EXCEPT !.at = id]>>
        BY <3>4 DEF FetchEvent, Here
      <4> DEFINE f == [DeliverFrame(QueueOf[cur], cur, FALSE) EXCEPT !.at = id]
      <4>2. f.op = "deliver"
        BY DEF DeliverFrame
      <4> HIDE DEF f
      <4>3. stack' = <<f>>
        BY <4>1 DEF f
      <4>4. \A i \in DOMAIN stack' : stack'[i].op # "semaph_destroy"
        BY <4>2, <4>3
      <4> QED BY <4>1, <4>4, ClosingStays
    <3>5. CASE RequestAllThreadsShutdown \/ WaitReturn
      <4>1. stack = <<>> /\ (stack' = <<>> \/ stack' = <<[op |-> "shutdown"]>>)
        BY <3>5 DEF RequestAllThreadsShutdown, WaitReturn, Here
      <4>2. \A i \in DOMAIN stack' : stack'[i].op # "semaph_destroy"
        BY <4>1
      <4> QED BY <4>1, <4>2, ClosingStays
    <3>6. CASE ~QueueStep /\ ~FetchEvent /\ ~RequestAllThreadsShutdown /\ ~WaitReturn
               /\ ~(\E q \in Queue : ShutdownQueue(q)) /\ ~ShutdownDone
      <4>1. stack' = stack
        BY <1>3, <3>6 DEF Exec, SmtExec, PollDone, Dispatch, FetchFailed, Terminate, EventOutOfRange,
           FirstList, NextList, LeaveLoop, EndOfList, CallModule, ModuleReturn, ReturnException,
           ReturnBreak, ReturnJump, ReturnPlain, Returning, Idling, nested
      <4> QED BY <4>1 DEF Closing
    <3> QED BY <3>1, <3>2, <3>3, <3>4, <3>5, <3>6
  <2>6. CASE Terminate
    <3>1. cur \in Alive /\ Destroy(cur)
      BY <2>6 DEF Terminate, Here, IInv, ControlOK, Busy
    <3> QED BY <2>1, <2>2, <2>3, <2>4, <2>5, <3>1, DeathLeaves
  <2>7. CASE ~Terminate
    <3>1. /\ \/ UNCHANGED waiters
             \/ \E t \in Thread : state[t] # "wait_semaph" /\ waiters' = UnlinkedWaiters(t)
          /\ Ended' = Ended
      BY <1>3, <2>7, ExecMoves
    <3>2. \A s \in Semaph : Line(s)' = Line(s)
      BY <2>1, <2>2, <3>1, OffAList DEF IInv
    <3> QED BY <2>3, <2>4, <2>5, <3>1, <3>2, Unseen DEF sems
  <2> QED BY <2>6, <2>7
<1> QED BY <1>1, <1>2, <1>3

(* Each semaphore is a count and a line served first come, first served,     *)
(* across suspension, priorities and the end of threads: every step of the   *)
(* kernel is one of FifoSemaphore or one it does not see, and semaph_wait    *)
(* and semaph_signal are the steps they are called for.                      *)
THEOREM SemaphoresServeInOrder ==
  ASSUME LastStatement
  PROVE  Spec => SemaphoresAreFifo
<1> DEFINE SInv == PendingOK /\ SignalsOK /\ RunningActive /\ OffLines
<1>1. Init => SInv
  BY DEF Init, PendingOK, AtMostOneFlag, NothingPending, NoFlags, SignalsOK, BreakOK, RunningActive,
         OffLines
<1>2. IInv /\ SInv /\ [Next]_vars => SInv'
  BY EveryPending, EverySignal, RunningStays, EveryOff
<1>3. Init => Fifo!FInit
  <2> SUFFICES ASSUME Init PROVE Fifo!FInit
    OBVIOUS
  <2>1. /\ live = {} /\ value = [s \in Semaph |-> 0] /\ waiters = [s \in Semaph |-> <<>>]
        /\ state = [t \in Thread |-> "none"] /\ stack = <<>> /\ pc = "main"
        /\ flags.break_wanted = "continue"
    BY DEF Init, NoFlags
  <2>2. \A s \in Semaph : Line(s) = <<>>
    BY <2>1 DEF Line, Asking
  <2>3. Lines = [s \in Semaph |-> <<>>]
    BY <2>2 DEF Lines
  <2>4. Closing = {} /\ Ended = {}
    BY <2>1, NothingClosing DEF Ended
  <2> QED BY <2>1, <2>3, <2>4 DEF Fifo!FInit, Lines, Ended
<1>4. IInv /\ SInv /\ SInv' /\ [Next]_vars => [Fifo!FNext]_Fifo!fvars /\ [CallsServe]_vars
  <2> SUFFICES ASSUME IInv, SInv, SInv', [Next]_vars
               PROVE  LineStep /\ CallsServe
    BY DEF LineStep
  <2>0. StackMove
    BY StepMoves
  <2>1. UserCall => NoneAsking
    BY CallFindsNothing DEF NothingPending, NoneAsking
  <2>2. ASSUME UserCall PROVE LineStep
    <3>1. CASE DialogUnderflow
      BY <3>1, AbortHalts
    <3>2. CASE \E s \in Semaph : SemaphWait(s) \/ SemaphSignal(s)
      <4>1. PICK s \in Semaph : SemaphWait(s) \/ SemaphSignal(s)
        BY <3>2
      <4>2. CASE SemaphWait(s)
        <5>1. running \in Thread
          BY <4>2 DEF SemaphWait, InModule, IInv, ControlOK, Alive, Busy
        <5>2. Fifo!Acquire(s) \/ Fifo!Enter(running, s)
          BY <2>1, <2>2, <4>2, WaitQueues
        <5> QED BY <5>1, <5>2 DEF LineStep, Fifo!FNext
      <4>3. CASE SemaphSignal(s)
        BY <2>1, <2>2, <4>3, SignalReleases DEF LineStep, Fifo!FNext
      <4> QED BY <4>1, <4>2, <4>3
    <3>3. CASE ~DialogUnderflow /\ ~\E s \in Semaph : SemaphWait(s) \/ SemaphSignal(s)
      BY <2>0, <2>1, <2>2, <3>3, CreateOpens, DestroyCloses, OtherCalls
    <3> QED BY <3>1, <3>2, <3>3
  <2>3. ASSUME Exec PROVE LineStep
    BY <2>0, <2>3, ExecLines
  <2>4. ASSUME HandleSignal PROVE LineStep
    BY <2>4, AbortHalts
  <2>5. ASSUME UNCHANGED vars PROVE LineStep
    <3>1. UNCHANGED <<live, value, waiters, state, stack, pc, flags, cur>>
      BY <2>5 DEF vars, lists, sems, exec, nested
    <3>2. \A s \in Semaph : Line(s)' = Line(s)
      BY <3>1 DEF Line, Asking
    <3>3. Closing' = Closing /\ Ended' = Ended
      BY <3>1 DEF Closing, Ended
    <3> QED BY <3>1, <3>2, <3>3, Unseen
  <2>6. ASSUME NEW s \in Semaph
        PROVE  /\ SemaphWait(s) => Fifo!Acquire(s) \/ Fifo!Enter(running, s)
               /\ SemaphSignal(s) => /\ Fifo!Release(s)
                                    /\ \/ waiters[s] = <<>>
                                       \/ state'[Head(waiters[s])] = "active"
    <3>1. SemaphWait(s) \/ SemaphSignal(s) => UserCall
      BY DEF UserCall
    <3> QED BY <2>1, <3>1, WaitQueues, SignalReleases
  <2>7. CallsServe
    BY <2>6 DEF CallsServe
  <2> QED BY <2>2, <2>3, <2>4, <2>5, <2>7 DEF Next, Finished
<1> QED BY <1>1, <1>2, <1>3, <1>4, Invariance, PTL DEF Spec, SemaphoresAreFifo, Fifo!FSpec

-----------------------------------------------------------------------------
(* Sleep.                                                                   *)

(* A wish to sleep is one of the module that runs.                          *)
AskedOK ==
  /\ calls \in Nat
  /\ running # None /\ flags.break_wanted = "wait_event" => asked

(* The number of calls of a module.                                         *)
LEMMA CallsCounted ==
  ASSUME calls \in Nat, [Next]_vars
  PROVE  calls' \in Nat
<1>1. \A c : Anywhere(c) => calls' = calls \/ calls' = calls + 1
  BY DEF Anywhere, InModule, Outside
<1>2. \A c : InModule(c) => calls' = calls + 1
  BY DEF InModule
<1>3. CASE UserCall
  <2>1. calls' = calls \/ calls' = calls + 1
    BY <1>1, <1>2, <1>3 DEF UserCall, EventSend, SemaphCreate, SemaphWait, SemaphSignal,
       SemaphDestroy, ThreadCreate, ThreadDestroy, SmtShutdown, SetFlag, FlagCall, CallException,
       DialogReturn, DialogPop, DialogUnderflow
  <2> QED BY <2>1
<1>4. CASE QueueStep \/ ModuleReturn
  <2>1. \A e : RejectUndeclared(e) \/ AcceptNull(e) => calls' = calls
    BY DEF RejectUndeclared, AcceptNull
  <2>2. \A e : Compare(e) => calls' = calls
    BY DEF Compare
  <2>3. TakeBest \/ NothingToDeliver \/ FinishReject \/ FinishNull \/ FinishAccept => calls' = calls
    BY DEF TakeBest, NothingToDeliver, FinishReject, FinishNull, FinishAccept
  <2>4. ModuleReturn => calls' = 0
    BY DEF ModuleReturn, ReturnException, ReturnBreak, ReturnJump, ReturnPlain, Returning
  <2> QED BY <1>4, <2>1, <2>2, <2>3, <2>4 DEF QueueStep
<1>5. CASE HandleSignal \/ Finished \/ UNCHANGED vars
  BY <1>5 DEF HandleSignal, Finished, vars
<1>6. CASE Exec /\ ~QueueStep /\ ~ModuleReturn
  <2>1. calls' = calls \/ calls' = 0
    BY <1>6 DEF Exec, SmtExec, RequestAllThreadsShutdown, ShutdownQueue, ShutdownDone,
       PollDone, Dispatch, FetchEvent, FetchFailed, Terminate, EventOutOfRange, FirstList,
       NextList, LeaveLoop, EndOfList, CallModule, Idling, WaitReturn, SemaphDestroyStep
  <2> QED BY <2>1
<1> QED BY <1>3, <1>4, <1>5, <1>6 DEF Next

(* Only event_wait asks for a sleep, and it counts as a call.               *)
LEMMA OnlyEventWaitAsks ==
  ASSUME IInv, calls \in Nat, [Next]_vars, flags'.break_wanted = "wait_event",
         flags.break_wanted # "wait_event"
  PROVE  calls' # calls /\ running' = running
<1>1. UserCall
  BY DEF Next, Exec, SmtExec, RequestAllThreadsShutdown, ShutdownQueue, ShutdownDone,
       PollDone, Dispatch, FetchEvent, FetchFailed, Terminate, EventOutOfRange, FirstList,
       NextList, LeaveLoop, EndOfList, CallModule, ModuleReturn, ReturnException, ReturnBreak,
       ReturnJump, ReturnPlain, Returning, Idling, WaitReturn, QueueStep, RejectUndeclared,
       AcceptNull, Compare, TakeBest, NothingToDeliver, FinishReject, FinishNull, FinishAccept,
       SemaphDestroyStep, HandleSignal, Finished, exec, vars, IInv, FlagsOK
<1>2. SetFlag
  BY <1>1 DEF UserCall, EventSend, SemaphCreate, SemaphWait, SemaphSignal,
       SemaphDestroy, ThreadCreate, ThreadDestroy, SmtShutdown, CallException,
       DialogReturn, DialogPop, DialogUnderflow, exec, IInv, FlagsOK
<1>3. \A c : InModule(c) => calls' = calls + 1
  BY DEF InModule
<1>4. calls' = calls + 1
  BY <1>2, <1>3 DEF SetFlag, FlagCall
<1> QED BY <1>2, <1>4 DEF SetFlag

(* AskedOK is kept: a module begins with no flag set.                       *)
LEMMA AskedStep ==
  ASSUME IInv, PendingOK, AskedOK, [HNext]_hvars
  PROVE  AskedOK'
<1>1. [Next]_vars
  BY DEF HNext, hvars
<1>2. calls' \in Nat
  BY <1>1, CallsCounted DEF AskedOK
<1>3. ASSUME running' # None, flags'.break_wanted = "wait_event"
      PROVE  asked'
  <2>1. CASE flags.break_wanted # "wait_event"
    <3>1. calls' # calls /\ running' = running
      BY <1>1, <1>3, <2>1, OnlyEventWaitAsks DEF AskedOK
    <3>2. HNext
      BY <3>1 DEF hvars, vars, nested
    <3> QED BY <1>3, <3>1, <3>2 DEF HNext
  <2>2. CASE flags.break_wanted = "wait_event" /\ running' = running
    BY <1>3, <2>2 DEF AskedOK, HNext, hvars
  <2>3. CASE flags.break_wanted = "wait_event" /\ running' # running
    <3>1. CallModule
      BY <1>1, <1>3, <2>3
         DEF Next, Exec, SmtExec, RequestAllThreadsShutdown, ShutdownQueue, ShutdownDone,
         PollDone, Dispatch, FetchEvent, FetchFailed, Terminate, EventOutOfRange, FirstList,
         NextList, LeaveLoop, EndOfList, ModuleReturn, ReturnException, ReturnBreak, ReturnJump,
         ReturnPlain, Returning, Idling, WaitReturn, QueueStep, RejectUndeclared, AcceptNull,
         Compare, TakeBest, NothingToDeliver, FinishReject, FinishNull, FinishAccept,
         SemaphDestroyStep, UserCall, EventSend, SemaphCreate, SemaphWait, SemaphSignal,
         SemaphDestroy, ThreadCreate, ThreadDestroy, SmtShutdown, SetFlag, CallException,
         DialogReturn, DialogPop, DialogUnderflow, HandleSignal, Finished, exec, vars
    <3>2. NothingPending
      BY <3>1 DEF CallModule, InLoop, Here, PendingOK
    <3> QED BY <2>3, <3>2 DEF NothingPending
  <2> QED BY <2>1, <2>2, <2>3
<1> QED BY <1>2, <1>3 DEF AskedOK

(* A module that returns puts its thread to sleep only because it asked for *)
(* that, or with a request to shut down.                                    *)
LEMMA SleepAsked ==
  ASSUME IInv, RunningActive, AskedOK, [Next]_vars, NEW t \in Thread,
         running = t, running' = None, state'[t] = "wait_event"
  PROVE  asked \/ shutdown_request'
<1>1. state[t] = "active" /\ t # None
  BY KernelAssumption DEF RunningActive
<1>2. ~UNCHANGED state
  BY <1>1
<1>3. ModuleReturn
  <2>1. ~HandleSignal /\ ~DialogUnderflow
    BY <1>2 DEF HandleSignal, DialogUnderflow, lists
  <2> QED
    BY <1>1, <2>1
       DEF Next, Exec, SmtExec, RequestAllThreadsShutdown, ShutdownQueue, ShutdownDone,
         PollDone, Dispatch, FetchEvent, FetchFailed, Terminate, EventOutOfRange, FirstList,
         NextList, LeaveLoop, EndOfList, CallModule, InLoop, Here, Idling, WaitReturn, QueueStep,
         RejectUndeclared, AcceptNull,
         Compare, TakeBest, NothingToDeliver, FinishReject, FinishNull, FinishAccept,
         SemaphDestroyStep, UserCall, EventSend, SemaphCreate, SemaphWait, SemaphSignal,
         SemaphDestroy, ThreadCreate, ThreadDestroy, SmtShutdown, SetFlag, CallException,
         DialogReturn, DialogPop, Finished, exec, vars
<1>4. cur = t
  BY <1>1 DEF IInv, ControlOK, Busy
<1>5. CASE ReturnException \/ ReturnJump
  BY <1>2, <1>5 DEF ReturnException, ReturnJump, Lookup, lists
<1>6. CASE ReturnBreak
  <2>1. CASE flags.break_wanted = "wait_event"
    BY <1>1, <2>1 DEF AskedOK
  <2>2. CASE flags.break_wanted # "wait_event"
    <3>1. state' = [state EXCEPT ![t] = "active"] \/ state' = [state EXCEPT ![t] = flags.break_wanted]
      BY <1>4, <1>6 DEF ReturnBreak, Activate, Suspend
    <3>2. state'[t] = "active" \/ state'[t] = flags.break_wanted
      BY <3>1 DEF IInv, ListsInv, ListsType
    <3> QED BY <2>2, <3>2
  <2> QED BY <2>1, <2>2
<1>7. CASE ReturnPlain
  BY <1>2, <1>7 DEF ReturnPlain, lists
<1> QED BY <1>3, <1>5, <1>6, <1>7 DEF ModuleReturn

(* event_wait: a thread sleeps for an event only when the module it just    *)
(* ran asked for that, or when it met an event its state does not accept,    *)
(* which shuts the program down.                                            *)
THEOREM SleepIsAskedFor ==
  ASSUME LastStatement
  PROVE  HSpec => SleepsOnlyIfAsked
<1> DEFINE AskedFirst ==
             \A t \in Thread :
               running = t /\ running' = None /\ state'[t] = "wait_event"
                 => asked \/ shutdown_request'
<1>1. HInit => Init /\ PendingOK /\ RunningActive /\ AskedOK
  BY DEF HInit, Init, PendingOK, AtMostOneFlag, NothingPending, NoFlags, RunningActive, AskedOK
<1>2. [HNext]_hvars => [Next]_vars
  BY DEF HNext, hvars
<1>3. IInv /\ PendingOK /\ RunningActive /\ AskedOK /\ [HNext]_hvars
        => PendingOK' /\ RunningActive' /\ AskedOK'
  BY <1>2, EveryPending, RunningStays, AskedStep
<1>4. IInv /\ RunningActive /\ AskedOK /\ [HNext]_hvars => AskedFirst
  BY <1>2, SleepAsked
<1>5. Spec => []IInv
  BY Invariance
<1> QED BY <1>1, <1>2, <1>3, <1>4, <1>5, PTL DEF HSpec, Spec, SleepsOnlyIfAsked

-----------------------------------------------------------------------------
(* Event queues.                                                            *)

EventType ==
  [id : Nat, name : Name, sender : Queue \cup {None},
   accept : Name \cup {None}, reject : Name \cup {None}, timed : BOOLEAN,
   priority : Nat, number : Event \cup {NullEvent}]

QueueType ==
  [status : {"none", "open", "closed"}, events : Seq(EventType), cur_events : Int,
   timed_events : Int, shutdown : BOOLEAN]

(* The identities of the events of a list, and of those with a timeout.     *)
IdsOf(s)      == {s[i].id : i \in DOMAIN s}
TimedIds(s)   == {s[i].id : i \in {j \in DOMAIN s : s[j].timed}}
Increasing(s) == \A i, j \in DOMAIN s : i < j => s[i].id < s[j].id

(* A queue r with number k when n events have been sent: ordered by age,    *)
(* counted, and what is to be answered came from below.                     *)
AsksFromBelow(e, level, k) ==
  e.accept # None \/ e.reject # None => e.sender \in Queue /\ level[e.sender] < k

QueueSound(r, level, k, n) ==
  /\ Increasing(r.events)
  /\ IdsOf(r.events) \subseteq 1 .. n
  /\ r.cur_events = Len(r.events)
  /\ IsFiniteSet(TimedIds(r.events))
  /\ Cardinality(TimedIds(r.events)) <= r.timed_events
  /\ \A i \in DOMAIN r.events : AsksFromBelow(r.events[i], level, k)

-----------------------------------------------------------------------------
(* Lists of events.                                                         *)

(* What a list of events is made of.                                        *)
LEMMA EventsTyped ==
  ASSUME NEW s \in Seq(EventType)
  PROVE  /\ Len(s) \in Nat /\ DOMAIN s = 1 .. Len(s)
         /\ \A i \in DOMAIN s : s[i] \in EventType /\ s[i].id \in Nat
<1>1. \A e \in EventType : e.id \in Nat
  BY DEF EventType
<1> QED BY <1>1

(* In a list ordered by age the identity tells the events apart.            *)
LEMMA IdIsUnique ==
  ASSUME NEW s \in Seq(EventType), Increasing(s)
  PROVE  /\ NoDuplicates(s)
         /\ \A e, f \in Members(s) : e.id = f.id => e = f
         /\ \A e \in Members(s) : e \in EventType /\ e.id \in IdsOf(s)
<1>1. Len(s) \in Nat /\ DOMAIN s = 1 .. Len(s) /\ \A i \in DOMAIN s : s[i] \in EventType /\ s[i].id \in Nat
  BY EventsTyped
<1>2. \A i, j \in DOMAIN s : s[i].id = s[j].id => i = j
  <2> SUFFICES ASSUME NEW i \in DOMAIN s, NEW j \in DOMAIN s, s[i].id = s[j].id
               PROVE  i = j
    OBVIOUS
  <2>1. ~(i < j) /\ ~(j < i)
    BY <1>1 DEF Increasing
  <2> QED BY <1>1, <2>1
<1>3. NoDuplicates(s)
  BY <1>2 DEF NoDuplicates
<1>4. \A e, f \in Members(s) : e.id = f.id => e = f
  BY <1>2 DEF Members
<1>5. \A e \in Members(s) : e \in EventType /\ e.id \in IdsOf(s)
  BY <1>1 DEF Members, IdsOf
<1> QED BY <1>3, <1>4, <1>5

(* EventAt finds the event of an identity that is in the queue.             *)
LEMMA EventAtIs ==
  ASSUME NEW q, queue[q].events \in Seq(EventType), Increasing(queue[q].events),
         NEW id \in Ids(q)
  PROVE  /\ EventAt(q, id) \in Members(queue[q].events)
         /\ EventAt(q, id).id = id
         /\ EventAt(q, id) \in EventType
         /\ \A e \in Members(queue[q].events) : e.id = id => e = EventAt(q, id)
<1>1. PICK i \in DOMAIN queue[q].events : queue[q].events[i].id = id
  BY DEF Ids
<1>2. \E e \in Members(queue[q].events) : e.id = id
  BY <1>1 DEF Members
<1>3. EventAt(q, id) \in Members(queue[q].events) /\ EventAt(q, id).id = id
  BY <1>2 DEF EventAt
<1> QED BY <1>3, IdIsUnique

(* IdAfter is the next older event's identity, or 0 at the end.             *)
LEMMA IdAfterIs ==
  ASSUME NEW q, queue[q].events \in Seq(EventType), Increasing(queue[q].events), NEW id \in Nat
  PROVE  /\ IdAfter(q, id) \in Nat
         /\ IdAfter(q, id) # 0 => IdAfter(q, id) \in Ids(q) /\ id < IdAfter(q, id)
         /\ \A x \in Ids(q) : id < x => IdAfter(q, id) # 0 /\ IdAfter(q, id) <= x
<1> DEFINE s == queue[q].events
           later == {i \in DOMAIN s : s[i].id > id}
           first == CHOOSE i \in later : \A j \in later : i <= j
<1>1. Len(s) \in Nat /\ DOMAIN s = 1 .. Len(s) /\ \A i \in DOMAIN s : s[i].id \in Nat
  BY EventsTyped
<1>2. CASE later = {}
  <2>1. IdAfter(q, id) = 0
    BY <1>2 DEF IdAfter
  <2>2. \A x \in Ids(q) : ~(id < x)
    BY <1>1, <1>2 DEF Ids
  <2> QED BY <2>1, <2>2
<1>3. CASE later # {}
  <2>1. later \subseteq Nat
    BY <1>1
  <2>2. \E i \in later : \A j \in later : i <= j
    BY <1>3, <2>1, SmallestNumber
  <2>3. first \in later /\ \A j \in later : first <= j
    BY <2>2
  <2>4. IdAfter(q, id) = s[first].id
    BY <1>3 DEF IdAfter
  <2> HIDE DEF first
  <2>5. s[first].id \in Ids(q) /\ id < s[first].id /\ s[first].id \in Nat
    BY <1>1, <2>3 DEF Ids
  <2>6. ASSUME NEW x \in Ids(q), id < x
        PROVE  s[first].id <= x
    <3>1. PICK j \in DOMAIN s : s[j].id = x
      BY DEF Ids
    <3>2. j \in later
      BY <1>1, <2>6, <3>1
    <3>3. first = j \/ first < j
      BY <1>1, <2>3, <3>2
    <3> QED BY <1>1, <2>3, <3>1, <3>3 DEF Increasing
  <2> QED BY <2>4, <2>5, <2>6
<1> QED BY <1>2, <1>3

(* An event leaves a list.                                                  *)
LEMMA UnlinkEvent ==
  ASSUME NEW s \in Seq(EventType), Increasing(s), NEW e \in Members(s)
  PROVE  /\ Unlink(s, e) \in Seq(EventType)
         /\ Len(Unlink(s, e)) = Len(s) - 1
         /\ Increasing(Unlink(s, e))
         /\ Members(Unlink(s, e)) = Members(s) \ {e}
         /\ IdsOf(Unlink(s, e)) = IdsOf(s) \ {e.id}
         /\ TimedIds(Unlink(s, e)) = TimedIds(s) \ {e.id}
         /\ ~e.timed => e.id \notin TimedIds(s)
         /\ e.timed => e.id \in TimedIds(s)
<1> DEFINE u == Unlink(s, e)
           p == PlaceOf(s, e)
<1>1. Len(s) \in Nat /\ DOMAIN s = 1 .. Len(s) /\ \A i \in DOMAIN s : s[i].id \in Nat
  BY EventsTyped
<1>2. u \in Seq(EventType) /\ Len(u) = Len(s) - 1 /\ DOMAIN u = 1 .. Len(s) - 1
  BY UnlinkType
<1>3. p \in 1 .. Len(s) /\ s[p] = e
  BY PlaceOfMember
<1>4. \A i \in 1 .. Len(s) - 1 : /\ i < p => u[i] = s[i]
                                 /\ i >= p => u[i] = s[i + 1]
  BY UnlinkElements
<1>5. Members(u) = Members(s) \ {e}
  BY UnlinkMembers, IdIsUnique
<1> HIDE DEF u, p
<1>6. Increasing(u)
  <2> SUFFICES ASSUME NEW i \in DOMAIN u, NEW j \in DOMAIN u, i < j
               PROVE  u[i].id < u[j].id
    BY DEF Increasing
  <2>1. PICK k \in DOMAIN s : u[i] = s[k] /\ k = IF i < p THEN i ELSE i + 1
    BY <1>1, <1>2, <1>3, <1>4
  <2>2. PICK l \in DOMAIN s : u[j] = s[l] /\ l = IF j < p THEN j ELSE j + 1
    BY <1>1, <1>2, <1>3, <1>4
  <2>3. k < l
    BY <1>1, <1>2, <1>3, <2>1, <2>2
  <2> QED BY <2>1, <2>2, <2>3 DEF Increasing
<1>7. \A r \in Seq(EventType) : /\ IdsOf(r) = {f.id : f \in Members(r)}
                                /\ TimedIds(r) = {f.id : f \in {g \in Members(r) : g.timed}}
  BY DEF IdsOf, TimedIds, Members
<1>8. /\ IdsOf(u) = {f.id : f \in Members(s) \ {e}}
      /\ TimedIds(u) = {f.id : f \in {g \in Members(s) \ {e} : g.timed}}
      /\ IdsOf(s) = {f.id : f \in Members(s)}
      /\ TimedIds(s) = {f.id : f \in {g \in Members(s) : g.timed}}
  BY <1>2, <1>5, <1>7
<1>9. \A f \in Members(s) : f.id = e.id => f = e
  BY IdIsUnique
<1>10. IdsOf(u) = IdsOf(s) \ {e.id}
  BY <1>8, <1>9
<1>11. TimedIds(u) = TimedIds(s) \ {e.id}
  BY <1>8, <1>9
<1>12. (~e.timed => e.id \notin TimedIds(s)) /\ (e.timed => e.id \in TimedIds(s))
  BY <1>8, <1>9
<1> QED BY <1>2, <1>5, <1>6, <1>10, <1>11, <1>12 DEF u

(* A younger event comes to the end of a list.                              *)
LEMMA AppendEvent ==
  ASSUME NEW s \in Seq(EventType), Increasing(s), NEW e \in EventType,
         \A x \in IdsOf(s) : x < e.id
  PROVE  /\ Append(s, e) \in Seq(EventType)
         /\ Len(Append(s, e)) = Len(s) + 1
         /\ Increasing(Append(s, e))
         /\ Members(Append(s, e)) = Members(s) \cup {e}
         /\ IdsOf(Append(s, e)) = IdsOf(s) \cup {e.id}
         /\ TimedIds(Append(s, e)) = IF e.timed THEN TimedIds(s) \cup {e.id} ELSE TimedIds(s)
<1> DEFINE a == Append(s, e)
<1>1. Len(s) \in Nat /\ DOMAIN s = 1 .. Len(s)
  BY EventsTyped
<1>2. /\ a \in Seq(EventType) /\ Len(a) = Len(s) + 1 /\ DOMAIN a = 1 .. Len(s) + 1
      /\ a[Len(s) + 1] = e /\ \A i \in 1 .. Len(s) : a[i] = s[i]
  BY <1>1
<1>3. Members(a) = Members(s) \cup {e}
  BY AppendMembers
<1> HIDE DEF a
<1>4. Increasing(a)
  <2> SUFFICES ASSUME NEW i \in DOMAIN a, NEW j \in DOMAIN a, i < j
               PROVE  a[i].id < a[j].id
    BY DEF Increasing
  <2>1. i \in 1 .. Len(s) /\ a[i] = s[i]
    BY <1>1, <1>2
  <2>2. CASE j = Len(s) + 1
    <3>1. s[i].id \in IdsOf(s)
      BY <1>1, <2>1 DEF IdsOf
    <3> QED BY <1>2, <2>1, <2>2, <3>1
  <2>3. CASE j \in 1 .. Len(s)
    BY <1>1, <1>2, <2>1, <2>3 DEF Increasing
  <2> QED BY <1>1, <1>2, <2>2, <2>3
<1>7. \A r \in Seq(EventType) : /\ IdsOf(r) = {f.id : f \in Members(r)}
                                /\ TimedIds(r) = {f.id : f \in {g \in Members(r) : g.timed}}
  BY DEF IdsOf, TimedIds, Members
<1>8. /\ IdsOf(a) = {f.id : f \in Members(s) \cup {e}}
      /\ TimedIds(a) = {f.id : f \in {g \in Members(s) \cup {e} : g.timed}}
      /\ IdsOf(s) = {f.id : f \in Members(s)}
      /\ TimedIds(s) = {f.id : f \in {g \in Members(s) : g.timed}}
  BY <1>2, <1>3, <1>7
<1>9. IdsOf(a) = IdsOf(s) \cup {e.id}
  BY <1>8
<1>10. TimedIds(a) = IF e.timed THEN TimedIds(s) \cup {e.id} ELSE TimedIds(s)
  BY <1>8
<1> QED BY <1>2, <1>3, <1>4, <1>9, <1>10 DEF a

(* An event gets the priority and the number of its method.                 *)
LEMMA MarkEvent ==
  ASSUME NEW s \in Seq(EventType), Increasing(s), NEW i \in DOMAIN s,
         NEW r \in EventType, r.id = s[i].id, r.timed = s[i].timed
  PROVE  /\ [s EXCEPT ![i] = r] \in Seq(EventType)
         /\ Len([s EXCEPT ![i] = r]) = Len(s)
         /\ Increasing([s EXCEPT ![i] = r])
         /\ IdsOf([s EXCEPT ![i] = r]) = IdsOf(s)
         /\ TimedIds([s EXCEPT ![i] = r]) = TimedIds(s)
<1> DEFINE m == [s EXCEPT ![i] = r]
<1>1. Len(s) \in Nat /\ DOMAIN s = 1 .. Len(s)
  BY EventsTyped
<1>2. /\ m \in Seq(EventType) /\ Len(m) = Len(s) /\ DOMAIN m = DOMAIN s
      /\ \A j \in DOMAIN s : m[j] = IF j = i THEN r ELSE s[j]
  BY <1>1
<1> HIDE DEF m
<1>3. \A j \in DOMAIN s : m[j].id = s[j].id /\ m[j].timed = s[j].timed
  BY <1>2
<1>4. Increasing(m)
  BY <1>2, <1>3 DEF Increasing
<1>5. IdsOf(m) = IdsOf(s)
  BY <1>2, <1>3 DEF IdsOf
<1>6. TimedIds(m) = TimedIds(s)
  BY <1>2, <1>3 DEF TimedIds
<1> QED BY <1>2, <1>4, <1>5, <1>6 DEF m

-----------------------------------------------------------------------------
(* The threads of a queue.                                                  *)

(* A queue lists the threads that exist under its name, each once.          *)
ThreadsAgree ==
  \A q \in Queue : /\ Members(threads[q]) = {t \in Alive : QueueOf[t] = q}
                   /\ NoDuplicates(threads[q])

(* thread_create links the thread to its queue.                             *)
LEMMA CreatedThread ==
  ASSUME IInv, ThreadsAgree, NEW t \in Thread, ThreadCreate(t)
  PROVE  ThreadsAgree'
<1>1. /\ state[t] = "none" /\ Activate(t) /\ QueueOf[t] \in Queue
      /\ threads' = [threads EXCEPT ![QueueOf[t]] = Append(threads[QueueOf[t]], t)]
  BY KernelAssumption DEF ThreadCreate
<1>2. Alive' = Alive \cup {t}
  BY <1>1, ActivateLists DEF IInv
<1>3. t \notin Alive
  BY <1>1 DEF Alive
<1> SUFFICES ASSUME NEW q \in Queue
             PROVE  /\ Members(threads'[q]) = {u \in Alive' : QueueOf[u] = q}
                    /\ NoDuplicates(threads'[q])
  BY DEF ThreadsAgree
<1>4. threads[q] \in Seq(Thread) /\ Members(threads[q]) = {u \in Alive : QueueOf[u] = q}
      /\ NoDuplicates(threads[q])
  BY DEF ThreadsAgree, IInv, ThreadsOK
<1>5. CASE q = QueueOf[t]
  <2>1. threads'[q] = Append(threads[q], t)
    BY <1>1, <1>5 DEF IInv, ThreadsOK
  <2>2. Members(threads'[q]) = Members(threads[q]) \cup {t} /\ NoDuplicates(threads'[q])
    BY <1>3, <1>4, <2>1, AppendMembers
  <2> QED BY <1>2, <1>4, <1>5, <2>2
<1>6. CASE q # QueueOf[t]
  <2>1. threads'[q] = threads[q]
    BY <1>1, <1>6 DEF IInv, ThreadsOK
  <2> QED BY <1>2, <1>4, <1>6, <2>1
<1> QED BY <1>5, <1>6

(* thread_destroy unlinks it.                                               *)
LEMMA DestroyedThread ==
  ASSUME IInv, ThreadsAgree, NEW t \in Thread, Destroy(t)
  PROVE  ThreadsAgree'
<1>1. /\ QueueOf[t] \in Queue
      /\ threads' = [threads EXCEPT ![QueueOf[t]] = Unlink(threads[QueueOf[t]], t)]
  BY KernelAssumption DEF Destroy
<1>2. Alive' = Alive \ {t}
  BY DestroyLists DEF IInv
<1> SUFFICES ASSUME NEW q \in Queue
             PROVE  /\ Members(threads'[q]) = {u \in Alive' : QueueOf[u] = q}
                    /\ NoDuplicates(threads'[q])
  BY DEF ThreadsAgree
<1>4. threads[q] \in Seq(Thread) /\ Members(threads[q]) = {u \in Alive : QueueOf[u] = q}
      /\ NoDuplicates(threads[q])
  BY DEF ThreadsAgree, IInv, ThreadsOK
<1>5. CASE q = QueueOf[t]
  <2>1. threads'[q] = Unlink(threads[q], t)
    BY <1>1, <1>5 DEF IInv, ThreadsOK
  <2>2. Members(threads'[q]) = Members(threads[q]) \ {t} /\ NoDuplicates(threads'[q])
    BY <1>4, <2>1, UnlinkMembers
  <2> QED BY <1>2, <1>4, <1>5, <2>2
<1>6. CASE q # QueueOf[t]
  <2>1. threads'[q] = threads[q]
    BY <1>1, <1>6 DEF IInv, ThreadsOK
  <2> QED BY <1>2, <1>4, <1>6, <2>1
<1> QED BY <1>5, <1>6

(* No other step creates, destroys or moves a thread between queues.        *)
OnlyThreadsChange ==
  (\E t \in Thread : ThreadCreate(t) \/ ThreadDestroy(t)) \/ Terminate

LEMMA AliveKept ==
  ASSUME IInv, [Next]_vars, ~OnlyThreadsChange
  PROVE  Alive' = Alive /\ UNCHANGED threads
<1> USE DEF IInv
<1>1. UNCHANGED threads
  BY DEF OnlyThreadsChange, Next, Finished, HandleSignal, vars, UserCall, EventSend, SemaphCreate,
         SemaphWait, SemaphSignal, SemaphDestroy, SmtShutdown, SetFlag, CallException, DialogReturn,
         DialogPop, DialogUnderflow, Exec, SmtExec, RequestAllThreadsShutdown, ShutdownQueue,
         ShutdownDone, PollDone, Dispatch, FetchEvent, FetchFailed, EventOutOfRange, FirstList,
         NextList, LeaveLoop, EndOfList, CallModule, ModuleReturn, ReturnException, ReturnBreak,
         ReturnJump, ReturnPlain, Returning, Idling, WaitReturn, SemaphDestroyStep, QueueStep,
         RejectUndeclared, AcceptNull, Compare, TakeBest, NothingToDeliver, FinishReject,
         FinishNull, FinishAccept
<1>2. ASSUME UNCHANGED lists
      PROVE  ListsInv' /\ Alive' = Alive /\ StayDead
  BY <1>2, QuietLists
<1>3. ASSUME NEW s \in Semaph, SemaphSignal(s)
      PROVE  ListsInv' /\ Alive' = Alive /\ StayDead
  <2>1. CASE waiters[s] # <<>> /\ Activate(Head(waiters[s]))
    BY <2>1, FirstWaiter, ActivateAlive
  <2> QED BY <1>2, <1>3, <2>1 DEF SemaphSignal
<1>4. ASSUME SemaphDestroyStep
      PROVE  ListsInv' /\ Alive' = Alive /\ StayDead
  <2>1. CASE waiters[Top.semaph] # <<>>
    <3>1. stack # <<>> /\ Top.op = "semaph_destroy" /\ Activate(Head(waiters[Top.semaph]))
      BY <1>4, <2>1 DEF SemaphDestroyStep
    <3>2. Top.semaph \in Semaph
      BY <3>1, StackTop DEF FrameOK
    <3> QED BY <2>1, <3>1, <3>2, FirstWaiter, ActivateAlive
  <2>2. CASE waiters[Top.semaph] = <<>>
    BY <1>2, <1>4, <2>2 DEF SemaphDestroyStep
  <2> QED BY <2>1, <2>2
<1>5. ASSUME FinishAccept
      PROVE  ListsInv' /\ Alive' = Alive /\ StayDead
  <2>1. stack # <<>> /\ Top.op = "deliver" /\ (UNCHANGED lists \/ Activate(Top.thread))
    BY <1>5 DEF FinishAccept
  <2>2. Top.thread \in Alive
    BY <2>1, StackTop DEF FrameOK
  <2> QED BY <1>2, <2>1, <2>2, ActivateAlive
<1>6. ASSUME FetchFailed \/ FirstList \/ NextList
      PROVE  ListsInv' /\ Alive' = Alive /\ StayDead
  <2>1. cur \in Alive
    BY <1>6 DEF FetchFailed, FirstList, NextList, HaveEvent, Here, ControlOK, Busy
  <2>2. Suspend(cur, "passive", None) \/ Activate(cur) \/ \E c : Lookup(cur, c)
    BY <1>6 DEF FetchFailed, FirstList, NextList
  <2> QED BY <2>1, <2>2, SuspendLists, ActivateAlive, LookupAlive
<1>7. ASSUME ReturnException \/ ReturnBreak \/ ReturnJump
      PROVE  ListsInv' /\ Alive' = Alive /\ StayDead
  <2>1. cur \in Alive
    BY <1>7 DEF ReturnException, ReturnBreak, ReturnJump, Returning, ControlOK, Busy
  <2>2. CASE Activate(cur) \/ \E c : Lookup(cur, c)
    BY <2>1, <2>2, ActivateAlive, LookupAlive
  <2>3. CASE ReturnBreak /\ flags.break_wanted # "recycle"
    <3>1. Suspend(cur, flags.break_wanted, flags.break_semaph)
      BY <2>3 DEF ReturnBreak
    <3>2. /\ flags.break_wanted \in {"passive", "wait_event", "wait_semaph"}
          /\ flags.break_wanted = "wait_semaph" => flags.break_semaph \in Semaph
      BY <2>3 DEF ReturnBreak, FlagsOK, Reasons
    <3> QED BY <2>1, <3>1, <3>2, SuspendLists
  <2>4. (Activate(cur) \/ \E c : Lookup(cur, c)) \/ (ReturnBreak /\ flags.break_wanted # "recycle")
    BY <1>7 DEF ReturnException, ReturnBreak, ReturnJump
  <2> QED BY <2>2, <2>3, <2>4
<1>8. \/ UNCHANGED lists
      \/ \E s \in Semaph : SemaphSignal(s)
      \/ SemaphDestroyStep \/ FinishAccept \/ FetchFailed \/ FirstList \/ NextList
      \/ ReturnException \/ ReturnBreak \/ ReturnJump
  BY DEF OnlyThreadsChange, Next, Finished, HandleSignal, vars, UserCall, EventSend, SemaphCreate,
         SemaphWait, SemaphDestroy, SmtShutdown, SetFlag, CallException, DialogReturn,
         DialogPop, DialogUnderflow, Exec, SmtExec, RequestAllThreadsShutdown, ShutdownQueue,
         ShutdownDone, PollDone, Dispatch, FetchEvent, EventOutOfRange,
         LeaveLoop, EndOfList, CallModule, ModuleReturn,
         ReturnPlain, Idling, WaitReturn, QueueStep,
         RejectUndeclared, AcceptNull, Compare, TakeBest, NothingToDeliver, FinishReject,
         FinishNull
<1> QED BY <1>1, <1>2, <1>3, <1>4, <1>5, <1>6, <1>7, <1>8

LEMMA ThreadsStep == IInv /\ ThreadsAgree /\ [Next]_vars => ThreadsAgree'
<1> SUFFICES ASSUME IInv, ThreadsAgree, [Next]_vars PROVE ThreadsAgree'
  OBVIOUS
<1>1. CASE OnlyThreadsChange
  <2>1. CASE Terminate
    <3>1. cur \in Alive /\ Destroy(cur)
      BY <2>1 DEF Terminate, Here, IInv, ControlOK, Busy
    <3> QED BY <3>1, DestroyedThread DEF Alive
  <2>2. ASSUME NEW t \in Thread, ThreadCreate(t) \/ ThreadDestroy(t)
        PROVE  ThreadsAgree'
    BY <2>2, CreatedThread, DestroyedThread DEF ThreadDestroy
  <2> QED BY <1>1, <2>1, <2>2 DEF OnlyThreadsChange
<1>2. CASE ~OnlyThreadsChange
  BY <1>2, AliveKept DEF ThreadsAgree
<1> QED BY <1>1, <1>2

-----------------------------------------------------------------------------
(* The stack of activations.                                                *)

DeliverType ==
  [op : {"deliver"}, queue : Queue, thread : Thread, wake : BOOLEAN,
   stage : {"scan", "reject", "null", "accept"}, at : Nat, best : Nat, victim : Nat]

FrameType == DeliverType \cup [op : {"shutdown"}] \cup [op : {"semaph_destroy"}, semaph : Semaph]

(* An activation f of queue_deliver over the list s: what it points to is   *)
(* there, `best' was met before the place `at' it has come to, `victim' is  *)
(* being replied to, and with no best one so far nothing is left behind.    *)
FrameSound(f, s) ==
  /\ {f.at, f.best, f.victim} \ {0} \subseteq IdsOf(s)
  /\ f.stage = "scan" <=> f.victim = 0
  /\ f.stage = "scan" /\ f.at # 0 => f.best < f.at
  /\ f.stage \in {"reject", "null"} => f.best < f.victim /\ (f.at # 0 => f.victim < f.at)
  /\ f.best = 0 => \A x \in IdsOf(s) : x = f.victim \/ (f.at # 0 /\ f.at <= x)
  /\ QueueOf[f.thread] = f.queue

(* An activation that is not the last waits for the reply it sent.          *)
Waits(f) == f.op = "shutdown" \/ (f.op = "deliver" /\ f.stage # "scan")

StackSound(st, qs, level) ==
  /\ st \in Seq(FrameType)
  /\ \A i \in DOMAIN st : st[i].op = "deliver" => FrameSound(st[i], qs[st[i].queue].events)
  /\ \A i \in DOMAIN st : i # 1 => st[i].op = "deliver"
  /\ \A i \in DOMAIN st : i # Len(st) => Waits(st[i])
  /\ \A i, j \in DOMAIN st : i < j /\ st[i].op = "deliver"
                               => level[st[j].queue] < level[st[i].queue]

(* The three kinds of activations.                                          *)
LEMMA FrameKinds ==
  ASSUME NEW f \in FrameType
  PROVE  /\ f.op \in {"deliver", "shutdown", "semaph_destroy"}
         /\ f.op = "deliver" <=> f \in DeliverType
         /\ f.op = "shutdown" => f = [op |-> "shutdown"]
<1>1. CASE f \in DeliverType
  BY <1>1 DEF DeliverType
<1>2. CASE f \in [op : {"shutdown"}]
  <2>1. f = [op |-> "shutdown"]
    BY <1>2
  <2> QED BY <2>1 DEF DeliverType
<1>3. CASE f \in [op : {"semaph_destroy"}, semaph : Semaph]
  <2>1. f.op = "semaph_destroy"
    BY <1>3
  <2> QED BY <2>1 DEF DeliverType
<1> QED BY <1>1, <1>2, <1>3 DEF FrameType

(* The queue of an activation that is not the top one is another queue.     *)
LEMMA OtherQueues ==
  ASSUME NEW level \in [Queue -> Nat], NEW st, NEW qs, StackSound(st, qs, level),
         st # <<>>, st[Len(st)].op = "deliver",
         NEW i \in DOMAIN st, i # Len(st), st[i].op = "deliver"
  PROVE  st[i].queue # st[Len(st)].queue
<1>1. Len(st) \in Nat /\ DOMAIN st = 1 .. Len(st) /\ Len(st) # 0 /\ st \in Seq(FrameType)
  BY DEF StackSound
<1>2. st[i] \in FrameType /\ st[Len(st)] \in FrameType
  BY <1>1
<1>3. st[i].queue \in Queue /\ st[Len(st)].queue \in Queue
  BY <1>2, FrameKinds DEF DeliverType
<1>4. i < Len(st)
  BY <1>1
<1>5. level[st[Len(st)].queue] < level[st[i].queue]
  BY <1>1, <1>4 DEF StackSound
<1> QED BY <1>3, <1>5

(* The top activation goes on as f, having changed its own queue at most.   *)
LEMMA TopGoesOn ==
  ASSUME NEW level \in [Queue -> Nat], NEW st, NEW qs, StackSound(st, qs, level),
         st # <<>>, st[Len(st)].op = "deliver",
         NEW f \in DeliverType, f.queue = st[Len(st)].queue,
         NEW rs, \A p \in Queue : p # f.queue => rs[p].events = qs[p].events,
         FrameSound(f, rs[f.queue].events)
  PROVE  StackSound([st EXCEPT ![Len(st)] = f], rs, level)
<1> DEFINE n == Len(st)
           s == [st EXCEPT ![Len(st)] = f]
<1>1. n \in Nat /\ DOMAIN st = 1 .. n /\ n # 0 /\ st \in Seq(FrameType) /\ f \in FrameType
  BY DEF StackSound, FrameType
<1>2. /\ s \in Seq(FrameType) /\ Len(s) = n /\ DOMAIN s = 1 .. n
      /\ \A i \in 1 .. n : s[i] = IF i = n THEN f ELSE st[i]
  BY <1>1
<1>3. f.op = "deliver"
  BY DEF DeliverType
<1> HIDE DEF s
<1>4. ASSUME NEW i \in 1 .. n, s[i].op = "deliver"
      PROVE  FrameSound(s[i], rs[s[i].queue].events) /\ s[i].queue = st[i].queue
  <2>1. CASE i = n
    BY <1>2, <2>1
  <2>2. CASE i # n
    <3>0. s[i] = st[i]
      BY <1>2, <2>2
    <3>1. s[i] = st[i] /\ st[i] \in FrameType
      BY <1>1, <3>0
    <3>2. st[i].queue \in Queue
      BY <1>4, <3>1, FrameKinds DEF DeliverType
    <3>3. st[i].queue # f.queue
      BY <1>1, <1>4, <2>2, <3>1, OtherQueues
    <3>4. FrameSound(st[i], qs[st[i].queue].events)
      BY <1>1, <1>4, <3>1 DEF StackSound
    <3> QED BY <3>1, <3>2, <3>3, <3>4
  <2> QED BY <2>1, <2>2
<1>5. \A i \in 1 .. n : s[i].op = "deliver" <=> st[i].op = "deliver"
  BY <1>2, <1>3
<1>6. \A i \in DOMAIN s : i # 1 => s[i].op = "deliver"
  BY <1>1, <1>2, <1>5 DEF StackSound
<1>7. \A i \in DOMAIN s : i # Len(s) => Waits(s[i])
  BY <1>1, <1>2 DEF StackSound
<1>8. ASSUME NEW i \in DOMAIN s, NEW j \in DOMAIN s, i < j, s[i].op = "deliver"
      PROVE  level[s[j].queue] < level[s[i].queue]
  <2>0. i \in 1 .. n /\ j \in 1 .. n /\ j # 1
    <3>1. n \in Nat /\ DOMAIN s = 1 .. n
      BY <1>1, <1>2
    <3> HIDE DEF n
    <3> QED BY <1>8, <3>1
  <2>1. s[j].op = "deliver" /\ st[i].op = "deliver"
    BY <1>2, <1>5, <1>6, <1>8, <2>0
  <2>2. s[i].queue = st[i].queue /\ s[j].queue = st[j].queue
    BY <1>2, <1>4, <1>8, <2>1
  <2>3. level[st[j].queue] < level[st[i].queue]
    BY <1>1, <1>2, <1>8, <2>1 DEF StackSound
  <2> QED BY <2>2, <2>3
<1> QED BY <1>2, <1>4, <1>6, <1>7, <1>8 DEF StackSound, s

(* The top activation returns, having changed its own queue at most.        *)
LEMMA TopReturns ==
  ASSUME NEW level \in [Queue -> Nat], NEW st, NEW qs, StackSound(st, qs, level), st # <<>>,
         NEW rs, \A p \in Queue :
                   (st[Len(st)].op = "deliver" => p # st[Len(st)].queue) => rs[p].events = qs[p].events
  PROVE  StackSound(SubSeq(st, 1, Len(st) - 1), rs, level)
<1> DEFINE n == Len(st)
           s == SubSeq(st, 1, n - 1)
<1>1. n \in Nat /\ DOMAIN st = 1 .. n /\ n # 0 /\ st \in Seq(FrameType)
  BY DEF StackSound
<1>2. /\ s \in Seq(FrameType) /\ Len(s) = n - 1 /\ DOMAIN s = 1 .. n - 1
      /\ \A i \in 1 .. n - 1 : s[i] = st[i]
  <2>1. \A i \in 1 .. n - 1 : st[i] \in FrameType
    BY <1>1
  <2> QED BY <1>1, <2>1, SubSeqProperties
<1> HIDE DEF s
<1>3. ASSUME NEW i \in 1 .. n - 1, s[i].op = "deliver"
      PROVE  FrameSound(s[i], rs[s[i].queue].events)
  <2>1. s[i] = st[i] /\ i \in DOMAIN st /\ i # n
    <3>1. n \in Nat /\ DOMAIN st = 1 .. n /\ s[i] = st[i]
      BY <1>1, <1>2
    <3> HIDE DEF n
    <3> QED BY <3>1
  <2>2. st[i] \in FrameType
    BY <1>1, <2>1
  <2>3. st[i].queue \in Queue
    BY <1>3, <2>1, <2>2, FrameKinds DEF DeliverType
  <2>4. st[n].op = "deliver" => st[i].queue # st[n].queue
    BY <1>3, <2>1, OtherQueues
  <2>5. FrameSound(st[i], qs[st[i].queue].events)
    BY <1>3, <2>1 DEF StackSound
  <2> QED BY <2>1, <2>3, <2>4, <2>5
<1> HIDE DEF n
<1>4. \A i \in DOMAIN s : i \in DOMAIN st /\ i # n /\ s[i] = st[i]
  BY <1>1, <1>2
<1>5. \A i \in DOMAIN s : i # 1 => s[i].op = "deliver"
  BY <1>4 DEF StackSound
<1>6. \A i \in DOMAIN s : i # Len(s) => Waits(s[i])
  BY <1>4 DEF StackSound, n
<1>7. \A i, j \in DOMAIN s : i < j /\ s[i].op = "deliver" => level[s[j].queue] < level[s[i].queue]
  BY <1>4 DEF StackSound
<1> QED BY <1>2, <1>3, <1>5, <1>6, <1>7 DEF StackSound, s, n

(* A queue below all activations changes.                                   *)
LEMMA QueueBelow ==
  ASSUME NEW level \in [Queue -> Nat], NEW st, NEW qs, StackSound(st, qs, level),
         NEW q, \A i \in DOMAIN st : st[i].op = "deliver" => level[q] < level[st[i].queue],
         NEW rs, \A p \in Queue : p # q => rs[p].events = qs[p].events
  PROVE  StackSound(st, rs, level)
<1>1. ASSUME NEW i \in DOMAIN st, st[i].op = "deliver"
      PROVE  FrameSound(st[i], rs[st[i].queue].events)
  <2>1. st[i] \in FrameType
    BY DEF StackSound
  <2>2. st[i].queue \in Queue
    BY <1>1, <2>1, FrameKinds DEF DeliverType
  <2>3. st[i].queue # q
    BY <1>1, <2>2
  <2>4. FrameSound(st[i], qs[st[i].queue].events)
    BY <1>1 DEF StackSound
  <2> QED BY <2>2, <2>3, <2>4
<1> QED BY <1>1 DEF StackSound

(* A new activation is stacked for a queue below all others.                *)
LEMMA NewOnTop ==
  ASSUME NEW level \in [Queue -> Nat], NEW st, NEW qs, StackSound(st, qs, level),
         st = <<>> \/ Waits(st[Len(st)]),
         NEW f \in DeliverType,
         \A i \in DOMAIN st : st[i].op = "deliver" => level[f.queue] < level[st[i].queue],
         NEW rs, \A p \in Queue : p # f.queue => rs[p].events = qs[p].events,
         FrameSound(f, rs[f.queue].events)
  PROVE  StackSound(Append(st, f), rs, level)
<1> DEFINE n == Len(st)
           s == Append(st, f)
<1>1. n \in Nat /\ DOMAIN st = 1 .. n /\ st \in Seq(FrameType) /\ f \in FrameType /\ f.op = "deliver"
  BY DEF StackSound, FrameType, DeliverType
<1>2. /\ s \in Seq(FrameType) /\ Len(s) = n + 1 /\ DOMAIN s = 1 .. n + 1
      /\ \A i \in 1 .. n : s[i] = st[i]
      /\ s[n + 1] = f
  BY <1>1
<1>3. StackSound(st, rs, level)
  BY QueueBelow
<1> HIDE DEF s, n
<1>4. \A i \in DOMAIN s : i = n + 1 \/ i \in 1 .. n
  BY <1>1, <1>2
<1>5. \A i \in DOMAIN s : s[i].op = "deliver" => FrameSound(s[i], rs[s[i].queue].events)
  BY <1>1, <1>2, <1>3, <1>4 DEF StackSound
<1>6. \A i \in DOMAIN s : i # 1 => s[i].op = "deliver"
  BY <1>1, <1>2, <1>3, <1>4 DEF StackSound
<1>7. ASSUME NEW i \in DOMAIN s, i # Len(s)
      PROVE  Waits(s[i])
  <2>1. i \in 1 .. n /\ s[i] = st[i] /\ st # <<>>
    BY <1>1, <1>2, <1>4, <1>7
  <2>2. CASE i = n
    BY <2>1, <2>2 DEF n
  <2>3. CASE i # n
    BY <1>1, <2>1, <2>3 DEF StackSound, n
  <2> QED BY <2>2, <2>3
<1>8. ASSUME NEW i \in DOMAIN s, NEW j \in DOMAIN s, i < j, s[i].op = "deliver"
      PROVE  level[s[j].queue] < level[s[i].queue]
  <2>1. i \in 1 .. n /\ s[i] = st[i]
    BY <1>1, <1>2, <1>4, <1>8
  <2>2. CASE j = n + 1
    BY <1>1, <1>2, <1>8, <2>1, <2>2
  <2>3. CASE j \in 1 .. n
    BY <1>1, <1>2, <1>8, <2>1, <2>3 DEF StackSound
  <2> QED BY <1>4, <2>2, <2>3
<1> QED BY <1>2, <1>5, <1>6, <1>7, <1>8 DEF StackSound, s

-----------------------------------------------------------------------------
(* The queues.                                                              *)

QueuesOK(qs, level, n) ==
  /\ n \in Nat
  /\ qs \in [Queue -> QueueType]
  /\ \A q \in Queue : QueueSound(qs[q], level, level[q], n)

(* The oldest event is the first one.                                       *)
LEMMA HeadIsOldest ==
  ASSUME NEW s \in Seq(EventType), Increasing(s), s # <<>>
  PROVE  /\ Head(s) \in EventType /\ Head(s).id \in IdsOf(s)
         /\ \A x \in IdsOf(s) : Head(s).id <= x
<1>1. Len(s) \in Nat /\ DOMAIN s = 1 .. Len(s) /\ \A i \in DOMAIN s : s[i] \in EventType /\ s[i].id \in Nat
  BY EventsTyped
<1>2. 1 \in DOMAIN s /\ Head(s) = s[1]
  BY <1>1
<1>3. ASSUME NEW x \in IdsOf(s)
      PROVE  s[1].id <= x
  <2>1. PICK i \in DOMAIN s : s[i].id = x
    BY DEF IdsOf
  <2>2. i = 1 \/ 1 < i
    BY <1>1
  <2> QED BY <1>1, <1>2, <2>1, <2>2 DEF Increasing
<1> QED BY <1>1, <1>2, <1>3 DEF IdsOf

(* One queue changes, and perhaps more events have been sent.               *)
LEMMA OneQueue ==
  ASSUME NEW level \in [Queue -> Nat], NEW qs, NEW n, QueuesOK(qs, level, n),
         NEW k \in Nat, n <= k, NEW q \in Queue,
         NEW rs, rs = [qs EXCEPT ![q] = rs[q]],
         rs[q] \in QueueType, QueueSound(rs[q], level, level[q], k)
  PROVE  QueuesOK(rs, level, k)
<1>1. n \in Nat /\ qs \in [Queue -> QueueType] /\ \A p \in Queue : QueueSound(qs[p], level, level[p], n)
  BY DEF QueuesOK
<1>2. rs \in [Queue -> QueueType] /\ \A p \in Queue : p # q => rs[p] = qs[p]
  BY <1>1
<1>3. ASSUME NEW p \in Queue
      PROVE  QueueSound(rs[p], level, level[p], k)
  <2>1. CASE p = q
    BY <2>1
  <2>2. CASE p # q
    <3>1. QueueSound(rs[p], level, level[p], n)
      BY <1>1, <1>2, <2>2
    <3>2. 1 .. n \subseteq 1 .. k
      BY <1>1
    <3> QED BY <3>1, <3>2 DEF QueueSound
  <2> QED BY <2>1, <2>2
<1> QED BY <1>2, <1>3 DEF QueuesOK

(* event_send adds an event to the queue r.                                 *)
LEMMA QueueGrows ==
  ASSUME NEW level, NEW k, NEW n \in Nat, NEW r \in QueueType, QueueSound(r, level, k, n),
         NEW e \in EventType, e.id = n + 1, AsksFromBelow(e, level, k),
         NEW g \in QueueType, g.events = Append(r.events, e), g.cur_events = r.cur_events + 1,
         g.timed_events = IF e.timed THEN r.timed_events + 1 ELSE r.timed_events
  PROVE  QueueSound(g, level, k, n + 1)
<1>1. /\ r.events \in Seq(EventType) /\ Increasing(r.events) /\ IdsOf(r.events) \subseteq 1 .. n
      /\ r.cur_events = Len(r.events) /\ IsFiniteSet(TimedIds(r.events))
      /\ Cardinality(TimedIds(r.events)) <= r.timed_events /\ r.timed_events \in Int
      /\ \A i \in DOMAIN r.events : AsksFromBelow(r.events[i], level, k)
  BY DEF QueueSound, QueueType
<1>2. \A x \in IdsOf(r.events) : x < e.id
  BY <1>1
<1>3. /\ Len(g.events) = Len(r.events) + 1 /\ Increasing(g.events)
      /\ IdsOf(g.events) = IdsOf(r.events) \cup {e.id}
      /\ TimedIds(g.events) = IF e.timed THEN TimedIds(r.events) \cup {e.id} ELSE TimedIds(r.events)
  <2>1. r.events \in Seq(EventType) /\ Increasing(r.events) /\ e \in EventType
        /\ \A x \in IdsOf(r.events) : x < e.id
    BY <1>1, <1>2
  <2>2. g.events = Append(r.events, e)
    OBVIOUS
  <2> QED BY ONLY <2>1, <2>2, AppendEvent
<1>4. IdsOf(g.events) \subseteq 1 .. n + 1
  BY <1>1, <1>3
<1>5. IsFiniteSet(TimedIds(g.events)) /\ Cardinality(TimedIds(g.events)) <= g.timed_events
  <2>1. CASE e.timed
    <3>1. /\ IsFiniteSet(TimedIds(r.events) \cup {e.id})
          /\ Cardinality(TimedIds(r.events) \cup {e.id}) \in
               {Cardinality(TimedIds(r.events)), Cardinality(TimedIds(r.events)) + 1}
      BY <1>1, FS_AddElement
    <3>2. Cardinality(TimedIds(r.events)) \in Nat
      BY <1>1, FS_CardinalityType
    <3> QED BY <1>1, <1>3, <2>1, <3>1, <3>2
  <2>2. CASE ~e.timed
    BY <1>1, <1>3, <2>2
  <2> QED BY <2>1, <2>2
<1>6. \A i \in DOMAIN g.events : AsksFromBelow(g.events[i], level, k)
  <2>1. \A i \in DOMAIN g.events : g.events[i] = e \/ (i \in DOMAIN r.events /\ g.events[i] = r.events[i])
    BY <1>1
  <2> QED BY <1>1, <2>1
<1> QED BY <1>1, <1>3, <1>4, <1>5, <1>6 DEF QueueSound

(* An event leaves the queue r; a timed one may or may not be counted off.  *)
LEMMA QueueShrinks ==
  ASSUME NEW level, NEW k, NEW n \in Nat, NEW r \in QueueType, QueueSound(r, level, k, n),
         NEW e \in Members(r.events),
         NEW g \in QueueType, g.events = Unlink(r.events, e), g.cur_events = r.cur_events - 1,
         \/ g.timed_events = r.timed_events
         \/ e.timed /\ g.timed_events = r.timed_events - 1
  PROVE  QueueSound(g, level, k, n)
<1>1. /\ r.events \in Seq(EventType) /\ Increasing(r.events) /\ IdsOf(r.events) \subseteq 1 .. n
      /\ r.cur_events = Len(r.events) /\ IsFiniteSet(TimedIds(r.events))
      /\ Cardinality(TimedIds(r.events)) <= r.timed_events /\ r.timed_events \in Int
      /\ \A i \in DOMAIN r.events : AsksFromBelow(r.events[i], level, k)
  BY DEF QueueSound, QueueType
<1>2. /\ Len(g.events) = Len(r.events) - 1 /\ Increasing(g.events)
      /\ Members(g.events) = Members(r.events) \ {e}
      /\ IdsOf(g.events) = IdsOf(r.events) \ {e.id}
      /\ TimedIds(g.events) = TimedIds(r.events) \ {e.id}
      /\ e.timed => e.id \in TimedIds(r.events)
  BY <1>1, UnlinkEvent
<1>3. IsFiniteSet(TimedIds(g.events)) /\ Cardinality(TimedIds(g.events)) <= g.timed_events
  <2>1. /\ IsFiniteSet(TimedIds(r.events) \ {e.id})
        /\ Cardinality(TimedIds(r.events) \ {e.id})
             = IF e.id \in TimedIds(r.events) THEN Cardinality(TimedIds(r.events)) - 1
                                              ELSE Cardinality(TimedIds(r.events))
    BY <1>1, FS_RemoveElement
  <2>2. Cardinality(TimedIds(r.events)) \in Nat
    BY <1>1, FS_CardinalityType
  <2> QED BY <1>1, <1>2, <2>1, <2>2
<1>4. \A i \in DOMAIN g.events : AsksFromBelow(g.events[i], level, k)
  <2>1. \A f \in Members(r.events) : AsksFromBelow(f, level, k)
    BY <1>1 DEF Members
  <2>2. \A i \in DOMAIN g.events : g.events[i] \in Members(g.events)
    BY DEF Members
  <2> QED BY <1>2, <2>1, <2>2
<1> QED BY <1>1, <1>2, <1>3, <1>4 DEF QueueSound

(* The activation that starts at a given event.                             *)
LEMMA FrameAt ==
  ASSUME NEW q, NEW t, NEW wake, NEW id
  PROVE  [DeliverFrame(q, t, wake) EXCEPT !.at = id]
           = [op |-> "deliver", queue |-> q, thread |-> t, wake |-> wake,
              stage |-> "scan", at |-> id, best |-> 0, victim |-> 0]
BY DEF DeliverFrame

(* event_send keeps the queues and the activations in order when the queue  *)
(* it sends to is below those of all activations.                           *)
LEMMA PostSound ==
  ASSUME NEW level \in [Queue -> Nat], ThreadsOK, ThreadsAgree,
         NEW qs, QueuesOK(qs, level, tally),
         NEW m, m.to \in Queue => m \in Message,
         m.to # None /\ m.from # None /\ (m.accept # None \/ m.reject # None)
           => level[m.from] < level[m.to],
         NEW rest, StackSound(rest, qs, level), rest = <<>> \/ Waits(rest[Len(rest)]),
         \A i \in DOMAIN rest :
           m.to \in Queue /\ rest[i].op = "deliver" => level[m.to] < level[rest[i].queue],
         Post(qs, m, rest)
  PROVE  QueuesOK(queue', level, tally') /\ StackSound(stack', queue', level)
<1>1. CASE ~Sendable(qs, m)
  BY <1>1 DEF Post
<1>2. CASE Sendable(qs, m)
  <2> DEFINE e == [id |-> tally + 1, name |-> m.name, sender |-> m.from,
                   accept |-> IF m.from = None THEN None ELSE m.accept,
                   reject |-> IF m.from = None THEN None ELSE m.reject,
                   timed |-> m.timed, priority |-> 0, number |-> NullEvent]
             s == qs[m.to].events
             i == CHOOSE k \in Idle(m.to) : \A j \in Idle(m.to) : k <= j
             t == threads[m.to][i]
  <2>1. m.to \in Queue /\ m \in Message /\ m.to # None
    BY <1>2, KernelAssumption DEF Sendable
  <2>2. tally \in Nat /\ qs \in [Queue -> QueueType] /\ QueueSound(qs[m.to], level, level[m.to], tally)
    BY <2>1 DEF QueuesOK
  <2>3. e \in EventType /\ e.id = tally + 1 /\ AsksFromBelow(e, level, level[m.to])
    <3>1. e \in EventType /\ e.id = tally + 1
      BY <2>1, <2>2 DEF EventType, Message
    <3>2. AsksFromBelow(e, level, level[m.to])
      BY <2>1 DEF AsksFromBelow, Message
    <3> QED BY <3>1, <3>2
  <2>4. /\ tally' = tally + 1
        /\ queue' = [qs EXCEPT ![m.to].events = Append(@, e), ![m.to].cur_events = @ + 1,
                               ![m.to].timed_events = IF e.timed THEN @ + 1 ELSE @]
    BY <1>2 DEF Post
  <2>4a. stack' = IF Idle(m.to) = {} THEN rest
                 ELSE Append(rest, [DeliverFrame(m.to, t, TRUE)
                                      EXCEPT !.at = Head(queue'[m.to].events).id])
    BY <1>2 DEF Post
  <2> HIDE DEF e
  <2>5. s \in Seq(EventType) /\ Increasing(s) /\ IdsOf(s) \subseteq 1 .. tally
    BY <2>1, <2>2 DEF QueueSound, QueueType
  <2>6. /\ queue'[m.to].events = Append(s, e)
        /\ queue'[m.to].cur_events = qs[m.to].cur_events + 1
        /\ queue'[m.to].timed_events = IF e.timed THEN qs[m.to].timed_events + 1
                                                  ELSE qs[m.to].timed_events
        /\ queue'[m.to] \in QueueType
        /\ queue' = [qs EXCEPT ![m.to] = queue'[m.to]]
    <3>1. qs[m.to] \in QueueType
      BY <2>1, <2>2
    <3> DEFINE d == IF e.timed THEN qs[m.to].timed_events + 1 ELSE qs[m.to].timed_events
               c == qs[m.to].cur_events + 1
               a == Append(s, e)
    <3>2. a \in Seq(EventType) /\ c \in Int /\ d \in Int
      BY <2>3, <2>5, <3>1 DEF QueueType
    <3>3. queue' = [qs EXCEPT ![m.to].events = a, ![m.to].cur_events = c, ![m.to].timed_events = d]
      BY <2>4
    <3> HIDE DEF a, c, d
    <3>4. /\ queue'[m.to].events = a /\ queue'[m.to].cur_events = c
          /\ queue'[m.to].timed_events = d /\ queue'[m.to] \in QueueType
          /\ queue' = [qs EXCEPT ![m.to] = queue'[m.to]]
      <4> DEFINE rs == queue'
                 q  == m.to
      <4>1. /\ qs \in [Queue -> QueueType] /\ q \in Queue
            /\ rs = [qs EXCEPT ![q].events = a, ![q].cur_events = c, ![q].timed_events = d]
        BY <2>1, <2>2, <3>3
      <4> HIDE DEF rs, q
      <4>2. /\ rs[q].events = a /\ rs[q].cur_events = c /\ rs[q].timed_events = d
            /\ rs[q] \in QueueType /\ rs = [qs EXCEPT ![q] = rs[q]]
        BY ONLY <3>2, <4>1 DEF QueueType
      <4> QED BY <4>2 DEF rs, q
    <3> QED BY <3>4 DEF a, c, d
  <2>7. QueueSound(queue'[m.to], level, level[m.to], tally + 1)
    <3>1. qs[m.to] \in QueueType
      BY <2>1, <2>2
    <3> QED BY <2>2, <2>3, <2>6, <3>1, QueueGrows
  <2>8. QueuesOK(queue', level, tally')
    <3>1. tally + 1 \in Nat /\ tally <= tally + 1
      BY <2>2
    <3> DEFINE rs == queue'
               k  == tally + 1
    <3>2. rs = [qs EXCEPT ![m.to] = rs[m.to]] /\ rs[m.to] \in QueueType
      BY <2>6
    <3>3. QueueSound(rs[m.to], level, level[m.to], k)
      BY <2>7
    <3>4. k \in Nat /\ tally <= k
      BY <3>1
    <3> HIDE DEF rs, k
    <3>5. QueuesOK(rs, level, k)
      BY <2>1, <3>2, <3>3, <3>4, OneQueue
    <3> QED BY <2>4, <3>5 DEF rs, k
  <2>9. \A p \in Queue : p # m.to => queue'[p].events = qs[p].events
    BY <2>2, <2>6
  <2>10. CASE Idle(m.to) = {}
    <3>1. stack' = rest
      BY <2>4a, <2>10
    <3> QED BY <2>1, <2>8, <2>9, <3>1, QueueBelow
  <2>11. CASE Idle(m.to) # {}
    <3> DEFINE a == queue'[m.to].events
               f == [DeliverFrame(m.to, t, TRUE) EXCEPT !.at = Head(a).id]
    <3>1. stack' = Append(rest, f)
      BY <2>4a, <2>11
    <3>2. t \in Thread /\ QueueOf[t] = m.to
      <4>1. t \in Members(threads[m.to])
        <5>1. threads[m.to] \in Seq(Thread)
          BY <2>1 DEF ThreadsOK
        <5>2. Idle(m.to) \subseteq Nat
          BY <5>1 DEF Idle
        <5>3. i \in Idle(m.to)
          BY <2>11, <5>2, SmallestNumber
        <5> QED BY <5>3 DEF Idle, Members
      <4> QED BY <2>1, <4>1 DEF ThreadsAgree, Alive
    <3>3. /\ Head(a) \in EventType /\ Head(a).id \in IdsOf(a) /\ Head(a).id \in Nat
          /\ \A x \in IdsOf(a) : Head(a).id <= x
          /\ \A x \in IdsOf(a) : x \in Nat /\ x # 0
      <4>1. a \in Seq(EventType) /\ Increasing(a) /\ IdsOf(a) \subseteq 1 .. tally + 1
        BY <2>6, <2>7 DEF QueueType, QueueSound
      <4>2. a # <<>>
        BY <2>5, <2>6
      <4>3. \A x \in IdsOf(a) : x \in Nat /\ x # 0
        BY <2>2, <4>1
      <4> QED BY <4>1, <4>2, <4>3, HeadIsOldest
    <3> HIDE DEF t, a
    <3>4. f = [op |-> "deliver", queue |-> m.to, thread |-> t, wake |-> TRUE,
               stage |-> "scan", at |-> Head(a).id, best |-> 0, victim |-> 0]
      BY ONLY FrameAt
    <3> HIDE DEF f
    <3>5. f \in DeliverType /\ f.queue = m.to
      BY <2>1, <3>2, <3>3, <3>4 DEF DeliverType
    <3>6. FrameSound(f, a)
      BY <3>2, <3>3, <3>4 DEF FrameSound
    <3>7. FrameSound(f, queue'[f.queue].events)
      BY <3>5, <3>6 DEF a
    <3>8. \A j \in DOMAIN rest : rest[j].op = "deliver" => level[f.queue] < level[rest[j].queue]
      BY <2>1, <3>5
    <3>9. StackSound(Append(rest, f), queue', level)
      BY <2>9, <3>5, <3>7, <3>8, NewOnTop
    <3> QED BY <2>8, <3>1, <3>9
  <2> QED BY <2>10, <2>11
<1> QED BY <1>1, <1>2

(* An event an activation works on leaves its queue.                        *)
LEMMA DequeuedSound ==
  ASSUME NEW level \in [Queue -> Nat], QueuesOK(queue, level, tally),
         NEW q \in Queue, NEW id \in Ids(q), NEW timedToo \in BOOLEAN
  PROVE  /\ QueuesOK(Dequeued(q, id, timedToo), level, tally)
         /\ \A p \in Queue : p # q => Dequeued(q, id, timedToo)[p] = queue[p]
         /\ IdsOf(Dequeued(q, id, timedToo)[q].events) = Ids(q) \ {id}
         /\ Len(Dequeued(q, id, timedToo)[q].events) = Len(queue[q].events) - 1
<1> DEFINE e == EventAt(q, id)
           rs == Dequeued(q, id, timedToo)
<1>1. tally \in Nat /\ queue \in [Queue -> QueueType] /\ QueueSound(queue[q], level, level[q], tally)
      /\ queue[q] \in QueueType
  BY DEF QueuesOK
<1>2. queue[q].events \in Seq(EventType) /\ Increasing(queue[q].events)
  BY <1>1 DEF QueueSound, QueueType
<1>3. e \in Members(queue[q].events) /\ e.id = id /\ e \in EventType
  BY <1>2, EventAtIs
<1>4. /\ Unlink(queue[q].events, e) \in Seq(EventType)
      /\ IdsOf(Unlink(queue[q].events, e)) = IdsOf(queue[q].events) \ {id}
      /\ Len(Unlink(queue[q].events, e)) = Len(queue[q].events) - 1
  BY <1>2, <1>3, UnlinkEvent
<1>4a. Unlink(queue[q].events, e) \in Seq(EventType)
  BY <1>4
<1>5. rs = [queue EXCEPT ![q].events = Unlink(@, e), ![q].cur_events = @ - 1,
                         ![q].timed_events = IF timedToo /\ e.timed THEN @ - 1 ELSE @]
  BY DEF Dequeued
<1> HIDE DEF rs, e
<1>6. /\ rs[q].events = Unlink(queue[q].events, e)
      /\ rs[q].cur_events = queue[q].cur_events - 1
      /\ rs[q].timed_events = IF timedToo /\ e.timed THEN queue[q].timed_events - 1
                                                     ELSE queue[q].timed_events
      /\ rs[q] \in QueueType
      /\ rs = [queue EXCEPT ![q] = rs[q]]
  BY <1>1, <1>4a, <1>5 DEF QueueType
<1>7. \/ rs[q].timed_events = queue[q].timed_events
      \/ e.timed /\ rs[q].timed_events = queue[q].timed_events - 1
  BY <1>3, <1>6 DEF EventType
<1>8. QueueSound(rs[q], level, level[q], tally)
  BY <1>1, <1>3, <1>6, <1>7, QueueShrinks
<1>9. QueuesOK(rs, level, tally)
  BY <1>1, <1>6, <1>8, OneQueue
<1>10. IdsOf(rs[q].events) = Ids(q) \ {id}
  BY <1>4, <1>6 DEF Ids, IdsOf
<1>11. \A p \in Queue : p # q => rs[p] = queue[p]
  BY <1>1, <1>6
<1>12. Len(rs[q].events) = Len(queue[q].events) - 1
  BY <1>4, <1>6
<1> QED BY <1>9, <1>10, <1>11, <1>12 DEF rs

-----------------------------------------------------------------------------
(* The steps of queue_deliver.                                              *)

QInv(level) == QueuesOK(queue, level, tally) /\ StackSound(stack, queue, level)

(* The top activation becomes f and sends a reply to the event it works on. *)
Replies(f, reply) ==
  /\ f \in DeliverType /\ f.queue = Top.queue /\ f.best = Top.best /\ Top.stage = "scan"
  /\ \/ /\ f.stage = "accept" /\ Top.at = 0 /\ f.at = 0 /\ f.victim = f.best
        /\ reply = EventAt(f.queue, f.victim).accept
     \/ /\ f.stage \in {"reject", "null"} /\ Top.at # 0 /\ f.victim = Top.at
        /\ f.at = IdAfter(Top.queue, Top.at)
  /\ FrameSound(f, queue[f.queue].events)
  /\ reply \in {EventAt(f.queue, f.victim).accept, EventAt(f.queue, f.victim).reject}
  /\ Begin(f, reply)

(* The top activation stays, or returns; its queue alone changes.           *)
TopStays ==
  /\ \E f \in DeliverType : f.queue = Top.queue /\ stack' = SetTop(f)
  /\ \A p \in Queue : p # Top.queue => queue'[p] = queue[p]
  /\ Len(queue'[Top.queue].events) <= Len(queue[Top.queue].events)

TopLeaves ==
  /\ stack' = Pop
  /\ \A p \in Queue : p # Top.queue => queue'[p] = queue[p]
  /\ \/ queue'[Top.queue].events = <<>> /\ UNCHANGED lists
     \/ /\ Len(queue'[Top.queue].events) = Len(queue[Top.queue].events) - 1
        /\ delivered'
        /\ UNCHANGED lists \/ Activate(Top.thread)

(* What the top activation works on.                                        *)
LEMMA TopQueue ==
  ASSUME NEW level \in [Queue -> Nat], QInv(level), stack # <<>>, Top.op = "deliver"
  PROVE  /\ Top \in DeliverType /\ Top.queue \in Queue
         /\ FrameSound(Top, queue[Top.queue].events)
         /\ queue \in [Queue -> QueueType] /\ tally \in Nat
         /\ queue[Top.queue] \in QueueType
         /\ QueueSound(queue[Top.queue], level, level[Top.queue], tally)
         /\ queue[Top.queue].events \in Seq(EventType)
         /\ Increasing(queue[Top.queue].events)
         /\ IdsOf(queue[Top.queue].events) = Ids(Top.queue)
         /\ \A x \in Ids(Top.queue) : x \in Nat /\ x # 0 /\ x \in 1 .. tally
<1>1. Len(stack) \in Nat /\ Len(stack) # 0 /\ DOMAIN stack = 1 .. Len(stack) /\ stack \in Seq(FrameType)
  BY DEF QInv, StackSound
<1>2. Len(stack) \in DOMAIN stack /\ stack[Len(stack)] \in FrameType
  BY <1>1
<1>3. Top \in DeliverType
  BY <1>2, FrameKinds DEF Top
<1>4. FrameSound(Top, queue[Top.queue].events)
  BY <1>2 DEF Top, QInv, StackSound
<1>5. Top.queue \in Queue
  BY <1>3 DEF DeliverType
<1>6. queue \in [Queue -> QueueType] /\ tally \in Nat /\ queue[Top.queue] \in QueueType
      /\ QueueSound(queue[Top.queue], level, level[Top.queue], tally)
  BY <1>5 DEF QInv, QueuesOK
<1>7. /\ queue[Top.queue].events \in Seq(EventType) /\ Increasing(queue[Top.queue].events)
      /\ IdsOf(queue[Top.queue].events) \subseteq 1 .. tally
  BY <1>6 DEF QueueSound, QueueType
<1>8. IdsOf(queue[Top.queue].events) = Ids(Top.queue)
  BY DEF IdsOf, Ids
<1>9. \A x \in Ids(Top.queue) : x \in Nat /\ x # 0 /\ x \in 1 .. tally
  BY <1>6, <1>7, <1>8
<1> QED BY <1>3, <1>4, <1>5, <1>6, <1>7, <1>8, <1>9

(* A reply goes to a queue below that of the activation that sends it.      *)
LEMMA ReplyGoesDown ==
  ASSUME NEW level \in [Queue -> Nat], QInv(level), stack # <<>>, Top.op = "deliver",
         NEW f, NEW reply, Replies(f, reply)
  PROVE  \E m : /\ Post(queue, m, SetTop(f))
                /\ m.to = IF reply = None THEN None ELSE EventAt(f.queue, f.victim).sender
                /\ m.from = None /\ (m.to \in Queue => m \in Message)
                /\ StackSound(SetTop(f), queue, level)
                /\ SetTop(f) # <<>> /\ Waits(SetTop(f)[Len(SetTop(f))])
                /\ \A i \in DOMAIN SetTop(f) :
                     m.to \in Queue /\ SetTop(f)[i].op = "deliver"
                       => level[m.to] < level[SetTop(f)[i].queue]
<1> DEFINE st == SetTop(f)
           e  == EventAt(f.queue, f.victim)
           m  == Msg(IF reply = None THEN None ELSE e.sender, reply)
<1>0. /\ f \in DeliverType /\ f.queue = Top.queue /\ f.stage # "scan"
      /\ FrameSound(f, queue[f.queue].events)
      /\ reply \in {e.accept, e.reject} /\ Begin(f, reply)
  BY DEF Replies
<1>1. QueuesOK(queue, level, tally) /\ StackSound(stack, queue, level)
  BY DEF QInv
<1>2. StackSound(st, queue, level)
  BY <1>0, <1>1, TopGoesOn DEF SetTop, Top
<1>3. /\ Len(stack) \in Nat /\ Len(stack) # 0 /\ Len(st) = Len(stack) /\ DOMAIN st = 1 .. Len(st)
      /\ st[Len(st)] = f
  BY <1>1 DEF StackSound, SetTop
<1>4. f.op = "deliver" /\ Waits(f) /\ f.victim \in Ids(f.queue) /\ f.queue \in Queue
  BY <1>0, TopQueue DEF DeliverType, Waits, FrameSound
<1>5. e \in EventType /\ AsksFromBelow(e, level, level[f.queue])
  <2>1. e \in Members(queue[f.queue].events) /\ e \in EventType
    BY <1>0, <1>4, TopQueue, EventAtIs
  <2>2. QueueSound(queue[f.queue], level, level[f.queue], tally)
    BY <1>0, TopQueue
  <2> QED BY <2>1, <2>2 DEF QueueSound, Members
<1>6. reply # None => e.sender \in Queue /\ level[e.sender] < level[f.queue] /\ reply \in Name
  <2>1. reply \in {e.accept, e.reject}
    BY <1>0
  <2> HIDE DEF e
  <2>2. reply \in Name \cup {None}
    BY <1>5, <2>1 DEF EventType
  <2> QED BY <1>5, <2>1, <2>2 DEF AsksFromBelow
<1> HIDE DEF st, e
<1>7. /\ m.to = (IF reply = None THEN None ELSE e.sender) /\ m.from = None
      /\ m.to \in Queue => m \in Message /\ level[m.to] < level[f.queue]
  <2>1. CASE reply = None
    BY <2>1, KernelAssumption DEF Msg
  <2>2. CASE reply # None
    BY <1>6, <2>2 DEF Msg, Message
  <2> QED BY <2>1, <2>2
<1>8. Post(queue, m, st)
  BY <1>0 DEF Begin, st, e
<1> HIDE DEF m
<1>9. ASSUME NEW i \in DOMAIN st, m.to \in Queue, st[i].op = "deliver"
      PROVE  level[m.to] < level[st[i].queue]
  <2>1. CASE i = Len(st)
    BY <1>3, <1>7, <1>9, <2>1
  <2>2. CASE i # Len(st)
    <3>1. i < Len(st)
      BY <1>3, <2>2
    <3>2. level[f.queue] < level[st[i].queue]
      BY <1>2, <1>3, <1>9, <3>1 DEF StackSound
    <3>3. st[i].queue \in Queue
      <4>1. st[i] \in FrameType
        BY <1>2 DEF StackSound
      <4> QED BY <1>9, <4>1, FrameKinds DEF DeliverType
    <3> QED BY <1>4, <1>7, <1>9, <3>2, <3>3
  <2> QED BY <2>1, <2>2
<1>10. st # <<>> /\ Waits(st[Len(st)])
  BY <1>3, <1>4
<1> QED BY <1>2, <1>7, <1>8, <1>9, <1>10 DEF st, e

(* So sending it keeps everything in order.                                 *)
LEMMA BeginSound ==
  ASSUME NEW level \in [Queue -> Nat], ThreadsOK, ThreadsAgree, QInv(level),
         stack # <<>>, Top.op = "deliver", NEW f, NEW reply, Replies(f, reply)
  PROVE  QInv(level)'
<1>1. PICK m : /\ Post(queue, m, SetTop(f))
               /\ m.from = None /\ (m.to \in Queue => m \in Message)
               /\ StackSound(SetTop(f), queue, level)
               /\ SetTop(f) # <<>> /\ Waits(SetTop(f)[Len(SetTop(f))])
               /\ \A i \in DOMAIN SetTop(f) :
                    m.to \in Queue /\ SetTop(f)[i].op = "deliver"
                      => level[m.to] < level[SetTop(f)[i].queue]
  BY ReplyGoesDown
<1>2. QueuesOK(queue, level, tally)
  BY DEF QInv
<1> DEFINE st == SetTop(f)
<1> HIDE DEF st
<1>3. QueuesOK(queue', level, tally') /\ StackSound(stack', queue', level)
  BY <1>1, <1>2, PostSound DEF st
<1> QED BY <1>3 DEF QInv

(* The event the scan has come to is rejected, or accepted and freed.       *)
LEMMA RefuseBegins ==
  ASSUME NEW level \in [Queue -> Nat], QInv(level),
         NEW e, RejectUndeclared(e) \/ AcceptNull(e)
  PROVE  /\ stack # <<>> /\ Top.op = "deliver" /\ UNCHANGED lists
         /\ \E f, reply : Replies(f, reply)
<1> DEFINE next == IdAfter(Top.queue, e.id)
           f(why) == [Top EXCEPT !.stage = why, !.victim = e.id, !.at = next]
<1>1. /\ stack # <<>> /\ Top.op = "deliver" /\ Top.stage = "scan" /\ Top.at # 0
      /\ e = EventAt(Top.queue, Top.at)
      /\ \/ Begin(f("reject"), e.reject)
         \/ Begin(f("null"), e.accept)
  BY DEF RejectUndeclared, AcceptNull, Looking, Scanning
<1>2. /\ Top \in DeliverType
      /\ FrameSound(Top, queue[Top.queue].events)
      /\ queue[Top.queue].events \in Seq(EventType)
      /\ Increasing(queue[Top.queue].events)
      /\ IdsOf(queue[Top.queue].events) = Ids(Top.queue)
      /\ \A x \in Ids(Top.queue) : x \in Nat /\ x # 0
  BY <1>1, TopQueue
<1>3. Top.at \in Ids(Top.queue)
  BY <1>1, <1>2 DEF FrameSound
<1>4. e.id = Top.at
  BY <1>1, <1>2, <1>3, EventAtIs
<1>5. /\ next \in Nat
      /\ next # 0 => next \in Ids(Top.queue) /\ e.id < next
      /\ \A x \in Ids(Top.queue) : e.id < x => next # 0 /\ next <= x
  BY <1>2, <1>3, <1>4, IdAfterIs
<1> HIDE DEF next
<1>6. ASSUME NEW why \in {"reject", "null"}
      PROVE  /\ f(why) \in DeliverType /\ f(why).queue = Top.queue /\ f(why).stage = why
             /\ f(why).victim = Top.at /\ f(why).best = Top.best /\ f(why).at = next
             /\ FrameSound(f(why), queue[Top.queue].events)
  <2>1. /\ f(why).queue = Top.queue /\ f(why).thread = Top.thread /\ f(why).stage = why
        /\ f(why).at = next /\ f(why).best = Top.best /\ f(why).victim = Top.at
        /\ f(why) \in DeliverType
    BY <1>2, <1>3, <1>4, <1>5 DEF DeliverType
  <2> HIDE DEF f
  <2>3. Top.best \in Nat /\ Top.at \in Nat /\ Top.best < Top.at
    BY <1>1, <1>2 DEF FrameSound, DeliverType
  <2>4. Top.victim = 0 /\ {Top.at, Top.best} \ {0} \subseteq Ids(Top.queue)
        /\ QueueOf[Top.thread] = Top.queue
        /\ (Top.best = 0 => \A x \in Ids(Top.queue) : Top.at <= x)
    BY <1>1, <1>2 DEF FrameSound
  <2>5. Top.best = 0 => \A x \in Ids(Top.queue) : x = Top.at \/ (next # 0 /\ next <= x)
    BY <1>2, <1>4, <1>5, <2>3, <2>4
  <2>6. {next, Top.best, Top.at} \ {0} \subseteq Ids(Top.queue) /\ (next # 0 => Top.at < next)
    BY <1>4, <1>5, <2>4
  <2>7. FrameSound(f(why), queue[Top.queue].events)
    BY <1>1, <1>2, <2>1, <2>3, <2>4, <2>5, <2>6 DEF FrameSound
  <2> QED BY <2>1, <2>7
<1>7. ASSUME NEW why \in {"reject", "null"}, NEW reply \in {e.accept, e.reject}, Begin(f(why), reply)
      PROVE  \E g : Replies(g, reply)
  <2> DEFINE g == f(why)
  <2>1. /\ g \in DeliverType /\ g.queue = Top.queue /\ g.stage \in {"reject", "null"}
        /\ g.best = Top.best /\ g.victim = Top.at /\ g.at = next
        /\ FrameSound(g, queue[g.queue].events)
        /\ EventAt(g.queue, g.victim) = e /\ Begin(g, reply)
    BY <1>1, <1>6, <1>7
  <2>2. next = IdAfter(Top.queue, Top.at)
    BY <1>4 DEF next
  <2> HIDE DEF g
  <2> QED BY <1>1, <1>7, <2>1, <2>2 DEF Replies
<1>8. UNCHANGED lists
  BY DEF RejectUndeclared, AcceptNull
<1> QED BY <1>1, <1>7, <1>8

(* The best event is given to the thread: first its reply is sent.          *)
LEMMA TakeBegins ==
  ASSUME NEW level \in [Queue -> Nat], QInv(level), TakeBest
  PROVE  /\ stack # <<>> /\ Top.op = "deliver" /\ UNCHANGED lists
         /\ \E f, reply : Replies(f, reply)
<1> DEFINE e == EventAt(Top.queue, Top.best)
           f == [Top EXCEPT !.stage = "accept", !.victim = e.id]
<1>1. /\ stack # <<>> /\ Top.op = "deliver" /\ Top.stage = "scan" /\ Top.at = 0 /\ Top.best # 0
      /\ Begin(f, e.accept)
  BY DEF TakeBest, Scanning
<1>2. /\ Top \in DeliverType
      /\ FrameSound(Top, queue[Top.queue].events)
      /\ queue[Top.queue].events \in Seq(EventType)
      /\ Increasing(queue[Top.queue].events)
      /\ IdsOf(queue[Top.queue].events) = Ids(Top.queue)
  BY <1>1, TopQueue
<1>3. Top.best \in Ids(Top.queue)
  BY <1>1, <1>2 DEF FrameSound
<1>4. e.id = Top.best
  BY <1>2, <1>3, EventAtIs
<1>5. /\ f.queue = Top.queue /\ f.thread = Top.thread /\ f.stage = "accept"
      /\ f.at = Top.at /\ f.best = Top.best /\ f.victim = Top.best /\ f \in DeliverType
  BY <1>2, <1>4 DEF DeliverType
<1>6. f.stage # "scan" /\ EventAt(f.queue, f.victim) = e
  BY <1>5
<1> HIDE DEF f
<1>7. FrameSound(f, queue[f.queue].events)
  BY <1>1, <1>2, <1>3, <1>5, <1>6 DEF FrameSound
<1>8. Replies(f, e.accept)
  BY <1>1, <1>5, <1>6, <1>7 DEF Replies
<1>9. UNCHANGED lists
  BY DEF TakeBest
<1> QED BY <1>1, <1>8, <1>9

(* The event of the scan competes with the best one so far.                 *)
LEMMA CompareSound ==
  ASSUME NEW level \in [Queue -> Nat], QInv(level), NEW e, Compare(e)
  PROVE  QInv(level)' /\ TopStays
<1> DEFINE q == Top.queue
           s == queue[q].events
           next == IdAfter(q, e.id)
           m == MethodsOf(q)[e.name]
           r == IF e.priority = 0
                  THEN [e EXCEPT !.priority = m.priority, !.number = m.event] ELSE e
           i == PlaceOf(s, e)
           wins == Top.best = 0 \/ r.priority > EventAt(q, Top.best).priority
           best == IF wins THEN e.id ELSE Top.best
           f == [Top EXCEPT !.at = next, !.best = best]
<1>1. /\ stack # <<>> /\ Top.op = "deliver" /\ Top.stage = "scan" /\ Top.at # 0
      /\ e = EventAt(q, Top.at)
      /\ e.priority = 0 => e.name \in DOMAIN MethodsOf(q)
      /\ queue' = [queue EXCEPT ![q].events[i] = r]
      /\ UNCHANGED tally
  BY DEF Compare, Looking, Scanning
<1>2. stack' = SetTop(f)
  <2> HIDE DEF wins
  <2>1. stack' = SetTop([Top EXCEPT !.at = next, !.best = IF wins THEN e.id ELSE @])
    BY DEF Compare, wins
  <2> QED BY <2>1
<1>3. /\ Top \in DeliverType /\ q \in Queue
      /\ FrameSound(Top, s) /\ queue \in [Queue -> QueueType] /\ tally \in Nat
      /\ queue[q] \in QueueType
      /\ QueueSound(queue[q], level, level[q], tally)
      /\ s \in Seq(EventType) /\ Increasing(s) /\ IdsOf(s) = Ids(q)
      /\ \A x \in Ids(q) : x \in Nat /\ x # 0
  BY <1>1, TopQueue
<1>4. Top.at \in Ids(q)
  BY <1>1, <1>3 DEF FrameSound
<1>5. e.id = Top.at /\ e \in Members(s) /\ e \in EventType
  BY <1>1, <1>3, <1>4, EventAtIs
<1>6. /\ next \in Nat
      /\ next # 0 => next \in Ids(q) /\ e.id < next
      /\ \A x \in Ids(q) : e.id < x => next # 0 /\ next <= x
  BY <1>3, <1>4, <1>5, IdAfterIs
<1>7. i \in DOMAIN s /\ s[i] = e
  BY <1>3, <1>5, PlaceOfMember
<1>8. /\ r \in EventType /\ r.id = e.id /\ r.timed = e.timed
      /\ r.sender = e.sender /\ r.accept = e.accept /\ r.reject = e.reject
  <2>1. CASE e.priority = 0
    <3>1. m.priority \in Nat /\ m.event \in Event \cup {NullEvent}
      BY <1>1, <1>3, <2>1, KernelAssumption DEF MethodsOf
    <3> HIDE DEF m
    <3>2. r = [e EXCEPT !.priority = m.priority, !.number = m.event]
      BY <2>1
    <3> QED BY <1>5, <3>1, <3>2 DEF EventType
  <2>2. CASE e.priority # 0
    BY <1>5, <2>2
  <2> QED BY <2>1, <2>2
<1> HIDE DEF r, i, next, wins
<1>9. best \in Ids(q) /\ best \in Nat /\ best # 0 /\ best <= e.id
  <2>1. Top.best \in Nat /\ Top.best < Top.at /\ {Top.best} \ {0} \subseteq Ids(q) /\ Top.at \in Nat
    BY <1>1, <1>3 DEF FrameSound, DeliverType
  <2>2. Top.best = 0 => wins
    BY DEF wins
  <2> QED BY <1>3, <1>4, <1>5, <2>1, <2>2
<1> HIDE DEF best
<1>10. /\ f.queue = q /\ f.thread = Top.thread /\ f.stage = "scan"
       /\ f.at = next /\ f.best = best /\ f.victim = 0 /\ f \in DeliverType
  <2>1. Top.victim = 0
    BY <1>1, <1>3 DEF FrameSound
  <2> QED BY <1>1, <1>3, <1>6, <1>9, <2>1 DEF DeliverType
<1> HIDE DEF f
<1>12. /\ queue'[q].events = [s EXCEPT ![i] = r] /\ queue'[q].cur_events = queue[q].cur_events
       /\ queue'[q].timed_events = queue[q].timed_events /\ queue'[q] \in QueueType
       /\ queue' = [queue EXCEPT ![q] = queue'[q]]
  <2>1. [s EXCEPT ![i] = r] \in Seq(EventType)
    BY <1>3, <1>7, <1>8, MarkEvent
  <2> DEFINE t == [s EXCEPT ![i] = r]
  <2>2. queue' = [queue EXCEPT ![q].events = t]
    BY <1>1
  <2> HIDE DEF t, q
  <2>3. /\ queue'[q].events = t /\ queue'[q].cur_events = queue[q].cur_events
        /\ queue'[q].timed_events = queue[q].timed_events /\ queue'[q] \in QueueType
        /\ queue' = [queue EXCEPT ![q] = queue'[q]]
    BY <1>3, <2>1, <2>2 DEF QueueType, t
  <2> QED BY <2>3 DEF t
<1>13. /\ Len(queue'[q].events) = Len(s) /\ Increasing(queue'[q].events)
       /\ IdsOf(queue'[q].events) = IdsOf(s) /\ TimedIds(queue'[q].events) = TimedIds(s)
  <2> DEFINE t == [s EXCEPT ![i] = r]
  <2>1. s \in Seq(EventType) /\ Increasing(s) /\ i \in DOMAIN s /\ r \in EventType
        /\ r.id = s[i].id /\ r.timed = s[i].timed
    BY <1>3, <1>7, <1>8
  <2> HIDE DEF s
  <2>2. Len(t) = Len(s) /\ Increasing(t) /\ IdsOf(t) = IdsOf(s) /\ TimedIds(t) = TimedIds(s)
    BY ONLY <2>1, MarkEvent
  <2> QED BY <1>12, <2>2
<1>14. QueueSound(queue'[q], level, level[q], tally)
  <2>1. \A j \in DOMAIN s : AsksFromBelow(s[j], level, level[q])
    BY <1>3 DEF QueueSound
  <2>2. AsksFromBelow(r, level, level[q])
    BY <1>7, <1>8, <2>1 DEF AsksFromBelow
  <2>3. \A j \in DOMAIN queue'[q].events : AsksFromBelow(queue'[q].events[j], level, level[q])
    BY <1>12, <2>1, <2>2
  <2> QED BY <1>3, <1>12, <1>13, <2>3 DEF QueueSound
<1>15. QueuesOK(queue, level, tally) /\ StackSound(stack, queue, level)
  BY DEF QInv
<1>16. QueuesOK(queue', level, tally)
  <2> DEFINE rs == queue'
  <2>1. rs = [queue EXCEPT ![q] = rs[q]] /\ rs[q] \in QueueType /\ QueueSound(rs[q], level, level[q], tally)
    BY <1>12, <1>14
  <2> HIDE DEF rs, q
  <2>2. QueuesOK(rs, level, tally)
    BY <1>3, <1>15, <2>1, OneQueue
  <2> QED BY <2>2 DEF rs
<1>17. FrameSound(f, queue'[q].events)
  <2>1. QueueOf[Top.thread] = q
    BY <1>3 DEF FrameSound
  <2>2. {next, best} \ {0} \subseteq IdsOf(queue'[q].events) /\ (next # 0 => best < next)
    BY <1>3, <1>4, <1>5, <1>6, <1>9, <1>13
  <2> QED BY <1>9, <1>10, <2>1, <2>2 DEF FrameSound
<1>18. StackSound(SetTop(f), queue', level)
  <2>1. \A p \in Queue : p # f.queue => queue'[p].events = queue[p].events
    BY <1>3, <1>10, <1>12
  <2>2. FrameSound(f, queue'[f.queue].events) /\ f.queue = stack[Len(stack)].queue
        /\ stack[Len(stack)].op = "deliver"
    BY <1>1, <1>10, <1>17 DEF Top
  <2> QED BY <1>1, <1>10, <1>15, <2>1, <2>2, TopGoesOn DEF SetTop
<1>19. TopStays
  <2>1. Len(s) \in Nat /\ \A p \in Queue : p # q => queue'[p] = queue[p]
    BY <1>3, <1>12
  <2> QED BY <1>2, <1>10, <1>13, <2>1 DEF TopStays
<1> QED BY <1>1, <1>2, <1>16, <1>18, <1>19 DEF QInv

(* The event replied to leaves the queue and the scan goes on.              *)
LEMMA RefusedSound ==
  ASSUME NEW level \in [Queue -> Nat], QInv(level), FinishReject \/ FinishNull
  PROVE  QInv(level)' /\ TopStays
<1> DEFINE q == Top.queue
           f == [Top EXCEPT !.stage = "scan", !.victim = 0]
<1>1. /\ stack # <<>> /\ Top.op = "deliver" /\ Top.stage \in {"reject", "null"}
      /\ stack' = SetTop(f) /\ UNCHANGED tally
  BY DEF FinishReject, FinishNull
<1>2. PICK timedToo \in BOOLEAN : queue' = Dequeued(q, Top.victim, timedToo)
  BY DEF FinishReject, FinishNull
<1>3. /\ Top \in DeliverType /\ q \in Queue /\ FrameSound(Top, queue[q].events)
      /\ IdsOf(queue[q].events) = Ids(q)
      /\ \A x \in Ids(q) : x \in Nat /\ x # 0
  BY <1>1, TopQueue
<1>4. /\ Top.victim \in Ids(q) /\ Top.at \in Nat /\ Top.best \in Nat /\ Top.victim \in Nat
      /\ Top.best < Top.victim /\ (Top.at # 0 => Top.victim < Top.at)
  BY <1>1, <1>3 DEF FrameSound, DeliverType
<1>5. /\ f.queue = q /\ f.thread = Top.thread /\ f.stage = "scan"
      /\ f.at = Top.at /\ f.best = Top.best /\ f.victim = 0 /\ f \in DeliverType
  BY <1>3 DEF DeliverType
<1> HIDE DEF f
<1>6. QueuesOK(queue, level, tally) /\ StackSound(stack, queue, level)
  BY DEF QInv
<1>7. /\ QueuesOK(queue', level, tally)
      /\ \A p \in Queue : p # q => queue'[p] = queue[p]
      /\ IdsOf(queue'[q].events) = Ids(q) \ {Top.victim}
      /\ Len(queue'[q].events) = Len(queue[q].events) - 1
  BY <1>2, <1>3, <1>4, <1>6, DequeuedSound
<1>8. FrameSound(f, queue'[q].events)
  <2>1. {Top.at, Top.best} \ {0} \subseteq Ids(q) \ {Top.victim}
    BY <1>3, <1>4 DEF FrameSound
  <2>2. Top.at # 0 => Top.best < Top.at
    BY <1>4
  <2>3. Top.best = 0 => \A x \in Ids(q) \ {Top.victim} : Top.at # 0 /\ Top.at <= x
    BY <1>3 DEF FrameSound
  <2>4. QueueOf[Top.thread] = q
    BY <1>3 DEF FrameSound
  <2> QED BY <1>5, <1>7, <2>1, <2>2, <2>3, <2>4 DEF FrameSound
<1>9. StackSound(SetTop(f), queue', level)
  <2>1. \A p \in Queue : p # f.queue => queue'[p].events = queue[p].events
    BY <1>5, <1>7
  <2>2. FrameSound(f, queue'[f.queue].events) /\ f.queue = stack[Len(stack)].queue
        /\ stack[Len(stack)].op = "deliver"
    BY <1>1, <1>5, <1>8 DEF Top
  <2> QED BY <1>1, <1>5, <1>6, <2>1, <2>2, TopGoesOn DEF SetTop
<1>10. TopStays
  <2>1. Len(queue[q].events) \in Nat
    BY <1>1, TopQueue
  <2> QED BY <1>1, <1>5, <1>7, <2>1 DEF TopStays
<1> QED BY <1>1, <1>7, <1>9, <1>10 DEF QInv

(* queue_deliver returns, with an event or without.                         *)
LEMMA ReturnSound ==
  ASSUME NEW level \in [Queue -> Nat], QInv(level), NothingToDeliver \/ FinishAccept
  PROVE  QInv(level)' /\ TopLeaves
<1>1. stack # <<>> /\ Top.op = "deliver" /\ stack' = Pop /\ UNCHANGED tally
  BY DEF NothingToDeliver, FinishAccept, Scanning
<1>2. QueuesOK(queue, level, tally) /\ StackSound(stack, queue, level)
  BY DEF QInv
<1>3. QueuesOK(queue', level, tally) /\ TopLeaves
  <2>1. CASE NothingToDeliver
    <3>1. Top.stage = "scan" /\ Top.at = 0 /\ Top.best = 0 /\ UNCHANGED queue /\ UNCHANGED lists
      BY <2>1 DEF NothingToDeliver, Scanning
    <3>2. Ids(Top.queue) = {} /\ queue[Top.queue].events \in Seq(EventType)
      BY <1>1, <3>1, TopQueue DEF FrameSound
    <3>3. queue[Top.queue].events = <<>>
      <4> DEFINE s == queue[Top.queue].events
      <4>1. s \in Seq(EventType) /\ DOMAIN s = {}
        BY <3>2 DEF Ids
      <4> HIDE DEF s
      <4>2. s = <<>>
        BY <4>1
      <4> QED BY <4>2 DEF s
    <3> QED BY <1>1, <1>2, <3>1, <3>3 DEF TopLeaves
  <2>2. CASE FinishAccept
    <3>1. Top.stage = "accept"
      BY <2>2 DEF FinishAccept
    <3>2. Top.queue \in Queue /\ Top.victim \in Ids(Top.queue)
      BY <1>1, <3>1, TopQueue DEF FrameSound
    <3>3. PICK timedToo \in BOOLEAN : queue' = Dequeued(Top.queue, Top.victim, timedToo)
      BY <2>2 DEF FinishAccept
    <3>4. delivered' /\ (UNCHANGED lists \/ Activate(Top.thread))
      BY <2>2 DEF FinishAccept
    <3> QED BY <1>1, <1>2, <3>2, <3>3, <3>4, DequeuedSound DEF TopLeaves
  <2> QED BY <2>1, <2>2
<1>4. StackSound(Pop, queue', level)
  <2>1. \A p \in Queue : (stack[Len(stack)].op = "deliver" => p # stack[Len(stack)].queue)
                           => queue'[p].events = queue[p].events
    BY <1>1, <1>3 DEF Top, TopLeaves
  <2> QED BY <1>1, <1>2, <2>1, TopReturns DEF Pop
<1> QED BY <1>1, <1>3, <1>4 DEF QInv

(* Every step of queue_deliver.                                             *)
LEMMA DeliverSound ==
  ASSUME NEW level \in [Queue -> Nat], ThreadsOK, ThreadsAgree, QInv(level), QueueStep
  PROVE  QInv(level)'
BY RefuseBegins, TakeBegins, BeginSound, CompareSound, RefusedSound, ReturnSound DEF QueueStep

-----------------------------------------------------------------------------
(* The other steps.                                                         *)

(* A first activation that is not one of queue_deliver.                     *)
LEMMA OneFrame ==
  ASSUME NEW level, NEW qs, NEW f \in FrameType, f.op # "deliver"
  PROVE  StackSound(<<f>>, qs, level)
<1>1. <<f>> \in Seq(FrameType) /\ Len(<<f>>) = 1 /\ DOMAIN <<f>> = {1} /\ <<f>>[1] = f
  OBVIOUS
<1> QED BY <1>1 DEF StackSound

(* Nothing on the stack.                                                    *)
LEMMA NoFrame ==
  ASSUME NEW level, NEW qs
  PROVE  StackSound(<<>>, qs, level)
<1>1. <<>> \in Seq(FrameType) /\ DOMAIN <<>> = {}
  OBVIOUS
<1> QED BY <1>1 DEF StackSound

(* A shutdown activation stands alone when it is on top.                    *)
LEMMA AloneAtBottom ==
  ASSUME NEW level, NEW qs, StackSound(stack, qs, level), stack # <<>>, Top.op # "deliver"
  PROVE  Len(stack) = 1 /\ DOMAIN stack = {1} /\ stack[1] = Top /\ Pop = <<>>
<1>1. stack \in Seq(FrameType) /\ Len(stack) \in Nat /\ Len(stack) # 0 /\ DOMAIN stack = 1 .. Len(stack)
  BY DEF StackSound
<1>2. Len(stack) = 1
  BY <1>1 DEF StackSound, Top
<1>3. Pop = <<>>
  BY <1>1, <1>2, EmptySeq, SubSeqProperties DEF Pop
<1> QED BY <1>1, <1>2, <1>3 DEF Top

(* request_all_threads_shutdown marks the queue.                            *)
LEMMA ShutdownSent ==
  ASSUME NEW level \in [Queue -> Nat], QueuesOK(queue, level, tally),
         StackSound(stack, queue, level), NEW q \in Queue, ShutdownQueue(q)
  PROVE  LET qs == [queue EXCEPT ![q].shutdown = TRUE]
         IN  QueuesOK(qs, level, tally) /\ StackSound(stack, qs, level)
<1> DEFINE qs == [queue EXCEPT ![q].shutdown = TRUE]
<1>1. stack # <<>> /\ Top.op = "shutdown"
  BY DEF ShutdownQueue
<1>2. Len(stack) = 1 /\ DOMAIN stack = {1} /\ stack[1] = Top /\ Top.op # "deliver"
  BY <1>1, AloneAtBottom
<1>3. QueuesOK(qs, level, tally)
  <2>1. tally \in Nat /\ queue \in [Queue -> QueueType] /\ QueueSound(queue[q], level, level[q], tally)
        /\ queue[q] \in QueueType
    BY DEF QueuesOK
  <2>2. /\ qs[q].events = queue[q].events /\ qs[q].cur_events = queue[q].cur_events
        /\ qs[q].timed_events = queue[q].timed_events /\ qs[q] \in QueueType
        /\ qs = [queue EXCEPT ![q] = qs[q]]
    BY <2>1 DEF QueueType
  <2> HIDE DEF qs
  <2>3. QueueSound(qs[q], level, level[q], tally)
    BY <2>1, <2>2 DEF QueueSound
  <2> QED BY <2>1, <2>2, <2>3, OneQueue
<1>4. StackSound(stack, qs, level)
  BY <1>2 DEF StackSound
<1> QED BY <1>3, <1>4

(* event_send from a module, from outside, or of a SHUTDOWN event.          *)
LEMMA SendSound ==
  ASSUME NEW level \in [Queue -> Nat], RequestsGoUp(level), IInv, ThreadsAgree, QInv(level),
         EventSend \/ \E q \in Queue : ShutdownQueue(q)
  PROVE  QInv(level)'
<1> USE DEF IInv
<1>1. QueuesOK(queue, level, tally) /\ StackSound(stack, queue, level)
  BY DEF QInv
<1>2. CASE EventSend
  <2>1. PICK m \in (IF running = None THEN OutsideMessages ELSE Messages[Agt(running)]) :
          Post(queue, m, stack)
    BY <1>2 DEF EventSend
  <2>2. stack = <<>>
    BY <1>2 DEF EventSend, Anywhere, InModule, Outside
  <2>3. m \in OutsideMessages \cup UNION {Messages[a] : a \in Agent}
    <3>1. running # None => Agt(running) \in Agent
      BY KernelAssumption DEF ControlOK, Busy, Alive, Agt
    <3> QED BY <2>1, <3>1
  <2>4. m \in Message
    BY <2>3, KernelAssumption
  <2>5. m.to # None /\ m.from # None /\ (m.accept # None \/ m.reject # None) => level[m.from] < level[m.to]
    BY <2>3 DEF RequestsGoUp
  <2>6. QueuesOK(queue', level, tally') /\ StackSound(stack', queue', level)
    BY <1>1, <2>1, <2>2, <2>4, <2>5, PostSound
  <2> QED BY <2>6 DEF QInv
<1>3. ASSUME NEW q \in Queue, ShutdownQueue(q)
      PROVE  QInv(level)'
  <2> DEFINE qs == [queue EXCEPT ![q].shutdown = TRUE]
             m  == Msg(q, Shutdown)
  <2>1. stack # <<>> /\ Top.op = "shutdown" /\ Post(qs, m, stack)
    BY <1>3 DEF ShutdownQueue
  <2>2. Len(stack) = 1 /\ DOMAIN stack = {1} /\ stack[1] = Top /\ Top.op # "deliver"
    BY <1>1, <2>1, AloneAtBottom
  <2>4. QueuesOK(qs, level, tally) /\ StackSound(stack, qs, level)
    BY <1>1, <1>3, ShutdownSent
  <2>5. m \in Message /\ m.from = None /\ Waits(stack[Len(stack)])
    BY <2>1, <2>2, KernelAssumption DEF Msg, Message, Waits
  <2>6. \A i \in DOMAIN stack : stack[i].op # "deliver"
    BY <2>2
  <2> HIDE DEF qs, m
  <2>7. QueuesOK(queue', level, tally') /\ StackSound(stack', queue', level)
    BY <2>1, <2>4, <2>5, <2>6, PostSound
  <2> QED BY <2>7 DEF QInv
<1> QED BY <1>2, <1>3

(* thread_create and thread_destroy open, close and empty queues.           *)
LEMMA LifeSound ==
  ASSUME NEW level \in [Queue -> Nat], IInv, QInv(level), OnlyThreadsChange
  PROVE  QInv(level)'
<1>1. QueuesOK(queue, level, tally) /\ StackSound(stack, queue, level) /\ tally \in Nat
  BY DEF QInv, QueuesOK
<1>2. stack = <<>> /\ UNCHANGED <<stack, tally>>
  BY DEF OnlyThreadsChange, ThreadCreate, ThreadDestroy, Terminate, Anywhere, InModule, Outside,
         Here, nested
<1>3. StackSound(stack', queue', level)
  BY <1>2, NoFrame
<1>4. PICK t \in Thread : ThreadCreate(t) \/ Destroy(t)
  <2>1. Terminate => cur \in Thread
    BY DEF Terminate, Here, IInv, ControlOK, Busy, Alive
  <2> QED BY <2>1 DEF OnlyThreadsChange, ThreadDestroy, Terminate
<1> DEFINE q == QueueOf[t]
           r == queue'[q]
<1>5. q \in Queue /\ queue \in [Queue -> QueueType] /\ queue[q] \in QueueType
      /\ QueueSound(queue[q], level, level[q], tally)
  BY <1>1, KernelAssumption DEF QueuesOK
<1>6. CASE UNCHANGED queue
  BY <1>1, <1>2, <1>3, <1>6 DEF QInv
<1>7. CASE ThreadCreate(t)
  <2>1. queue' = [queue EXCEPT ![q].status = "open"]
    BY <1>7 DEF ThreadCreate
  <2> HIDE DEF q
  <2>2. /\ r.events = queue[q].events /\ r.cur_events = queue[q].cur_events
        /\ r.timed_events = queue[q].timed_events /\ r \in QueueType
        /\ queue' = [queue EXCEPT ![q] = r]
    BY <1>5, <2>1 DEF QueueType
  <2> DEFINE rs == queue'
  <2>3. rs = [queue EXCEPT ![q] = rs[q]] /\ rs[q] \in QueueType /\ QueueSound(rs[q], level, level[q], tally)
    BY <1>5, <2>2 DEF QueueSound
  <2> HIDE DEF rs
  <2>4. QueuesOK(rs, level, tally)
    BY <1>1, <1>5, <2>3, OneQueue
  <2> QED BY <1>2, <1>3, <2>4 DEF QInv, rs
<1>8. CASE Destroy(t) /\ ~UNCHANGED queue
  <2> DEFINE nothing == <<>>
             zero    == 0
  <2>0. nothing \in Seq(EventType) /\ zero \in Int
    OBVIOUS
  <2>1. queue' = [queue EXCEPT ![q].status = "closed", ![q].events = nothing, ![q].cur_events = zero]
    BY <1>8 DEF Destroy
  <2> HIDE DEF q
  <2> HIDE DEF nothing, zero
  <2> DEFINE old == queue[q]
             g   == [old EXCEPT !.status = "closed", !.events = nothing, !.cur_events = zero]
  <2>1a. queue' = [queue EXCEPT ![q] = g]
    BY <1>5, <2>1
  <2>1b. old \in QueueType
    BY <1>5
  <2> HIDE DEF old
  <2>1c. g \in QueueType /\ g.events = nothing /\ g.cur_events = zero /\ g.timed_events = old.timed_events
    BY <2>0, <2>1b DEF QueueType
  <2> HIDE DEF g
  <2>2. /\ r.events = nothing /\ r.cur_events = zero
        /\ r.timed_events = queue[q].timed_events /\ r \in QueueType
        /\ queue' = [queue EXCEPT ![q] = r]
    BY <1>5, <2>1a, <2>1c DEF old
  <2>3. IdsOf(<<>>) = {} /\ TimedIds(<<>>) = {} /\ Increasing(<<>>) /\ Len(<<>>) = 0 /\ DOMAIN <<>> = {}
    BY DEF IdsOf, TimedIds, Increasing
  <2>4. IsFiniteSet({}) /\ Cardinality({}) = 0
    BY FS_EmptySet
  <2>5. 0 <= queue[q].timed_events
    <3>1. IsFiniteSet(TimedIds(queue[q].events))
          /\ Cardinality(TimedIds(queue[q].events)) <= queue[q].timed_events
          /\ queue[q].timed_events \in Int
      BY <1>5 DEF QueueSound, QueueType
    <3> QED BY <3>1, FS_CardinalityType
  <2> DEFINE rs == queue'
  <2>6. rs = [queue EXCEPT ![q] = rs[q]] /\ rs[q] \in QueueType
    BY <2>2
  <2>7. QueueSound(rs[q], level, level[q], tally)
    BY <2>2, <2>3, <2>4, <2>5 DEF QueueSound, nothing, zero
  <2> HIDE DEF rs
  <2>8. QueuesOK(rs, level, tally)
    BY <1>1, <1>5, <2>6, <2>7, OneQueue
  <2> QED BY <1>2, <1>3, <2>8 DEF QInv, rs
<1> QED BY <1>4, <1>6, <1>7, <1>8

(* smt_exec starts or ends an activation of its own, or calls queue_deliver *)
(* for a thread.                                                            *)
LEMMA ActivationSound ==
  ASSUME NEW level \in [Queue -> Nat], IInv, QInv(level),
         \/ \E s \in Semaph : SemaphDestroy(s)
         \/ RequestAllThreadsShutdown \/ WaitReturn \/ FetchEvent
         \/ SemaphDestroyStep \/ ShutdownDone \/ HandleSignal
  PROVE  QInv(level)'
<1>1. UNCHANGED <<queue, tally>>
  BY DEF SemaphDestroy, RequestAllThreadsShutdown, WaitReturn, FetchEvent, SemaphDestroyStep,
         ShutdownDone, HandleSignal
<1>2. QueuesOK(queue, level, tally) /\ StackSound(stack, queue, level)
  BY DEF QInv
<1>3. ASSUME StackSound(stack', queue, level)
      PROVE  QInv(level)'
  BY <1>1, <1>2, <1>3 DEF QInv
<1>4. CASE UNCHANGED stack \/ stack' = <<>>
  BY <1>2, <1>3, <1>4, NoFrame
<1>5. CASE SemaphDestroyStep \/ ShutdownDone
  <2>1. stack # <<>> /\ Top.op # "deliver" /\ (UNCHANGED stack \/ stack' = Pop)
    BY <1>5 DEF SemaphDestroyStep, ShutdownDone
  <2>2. Pop = <<>>
    BY <1>2, <2>1, AloneAtBottom
  <2> QED BY <1>4, <2>1, <2>2
<1>6. CASE (\E s \in Semaph : SemaphDestroy(s)) \/ RequestAllThreadsShutdown \/ WaitReturn
  <2>1. ASSUME NEW f \in FrameType, f.op # "deliver", stack' = <<f>>
        PROVE  QInv(level)'
    BY <1>3, <2>1, OneFrame
  <2>2. \A s \in Semaph : LET f == [op |-> "semaph_destroy", semaph |-> s]
                          IN  f \in FrameType /\ f.op # "deliver"
    BY DEF FrameType
  <2>3. LET f == [op |-> "shutdown"] IN f \in FrameType /\ f.op # "deliver"
    BY DEF FrameType
  <2>4. ASSUME NEW s \in Semaph, SemaphDestroy(s)
        PROVE  stack' = <<[op |-> "semaph_destroy", semaph |-> s]>>
    <3> DEFINE f == [op |-> "semaph_destroy", semaph |-> s]
    <3>1. stack = <<>> /\ stack' = Append(stack, f)
      BY <2>4 DEF SemaphDestroy, Anywhere, InModule, Outside
    <3> HIDE DEF f
    <3>2. stack' = <<f>>
      BY <3>1
    <3> QED BY <3>2 DEF f
  <2>5. RequestAllThreadsShutdown \/ WaitReturn => UNCHANGED stack \/ stack' = <<[op |-> "shutdown"]>>
    BY DEF RequestAllThreadsShutdown, WaitReturn
  <2> QED BY <1>4, <1>6, <2>1, <2>2, <2>3, <2>4, <2>5
<1>7. CASE FetchEvent
  <2> DEFINE q == QueueOf[cur]
             s == queue[q].events
             at == IF s = <<>> THEN 0 ELSE Head(s).id
             f == [DeliverFrame(q, cur, FALSE) EXCEPT !.at = at]
  <2>1. stack = <<>> /\ stack' = <<f>> /\ cur \in Thread
    BY <1>7 DEF FetchEvent, Here, IInv, ControlOK, Busy, Alive
  <2>2. q \in Queue
    BY <2>1, KernelAssumption
  <2>3. s \in Seq(EventType) /\ Increasing(s) /\ IdsOf(s) \subseteq 1 .. tally /\ tally \in Nat
    BY <1>2, <2>2 DEF QueuesOK, QueueSound, QueueType
  <2> HIDE DEF s, q
  <2>4. /\ at \in Nat /\ {at} \ {0} \subseteq IdsOf(s)
        /\ \A x \in IdsOf(s) : at # 0 /\ at <= x
    <3>1. CASE s = <<>>
      BY <3>1 DEF IdsOf
    <3>2. CASE s # <<>>
      BY <2>3, <3>2, HeadIsOldest
    <3> QED BY <3>1, <3>2
  <2> HIDE DEF at
  <2>5. f = [op |-> "deliver", queue |-> q, thread |-> cur, wake |-> FALSE,
             stage |-> "scan", at |-> at, best |-> 0, victim |-> 0]
    BY ONLY FrameAt
  <2> HIDE DEF f
  <2>6. f \in DeliverType /\ f.queue = q
    BY <2>1, <2>2, <2>4, <2>5 DEF DeliverType
  <2>7. FrameSound(f, s)
    BY <2>4, <2>5 DEF FrameSound, q
  <2>8. FrameSound(f, queue[f.queue].events)
    BY <2>6, <2>7 DEF s
  <2>9. StackSound(Append(<<>>, f), queue, level)
    <3>1. StackSound(<<>>, queue, level) /\ DOMAIN <<>> = {}
      BY NoFrame
    <3> QED BY <2>6, <2>8, <3>1, NewOnTop
  <2>10. Append(<<>>, f) = <<f>>
    OBVIOUS
  <2> QED BY <1>3, <2>1, <2>9, <2>10
<1>8. CASE HandleSignal
  BY <1>4, <1>8 DEF HandleSignal
<1> QED BY <1>5, <1>6, <1>7, <1>8

(* What a step may do to queues and activations.                            *)
LEMMA StepKinds ==
  ASSUME [Next]_vars
  PROVE  \/ QueueStep \/ EventSend \/ (\E q \in Queue : ShutdownQueue(q)) \/ OnlyThreadsChange
         \/ \E s \in Semaph : SemaphDestroy(s)
         \/ RequestAllThreadsShutdown \/ WaitReturn \/ FetchEvent
         \/ SemaphDestroyStep \/ ShutdownDone \/ HandleSignal
         \/ UNCHANGED <<queue, tally, stack>>
BY DEF OnlyThreadsChange, Next, Finished, vars, nested, UserCall, SemaphCreate,
       SemaphWait, SemaphSignal, SmtShutdown, SetFlag, CallException, DialogReturn,
       DialogPop, DialogUnderflow, Exec, SmtExec, PollDone, Dispatch, FetchFailed,
       EventOutOfRange, FirstList, NextList, LeaveLoop, EndOfList, CallModule, ModuleReturn,
       ReturnException, ReturnBreak, ReturnJump, ReturnPlain, Returning, Idling

(* Every step keeps the queues and the activations in order.                *)
LEMMA QueuesStep ==
  ASSUME NEW level \in [Queue -> Nat], RequestsGoUp(level), IInv, ThreadsAgree, QInv(level),
         [Next]_vars
  PROVE  QInv(level)'
<1>1. CASE QueueStep
  BY <1>1, DeliverSound DEF IInv
<1>2. CASE EventSend \/ \E q \in Queue : ShutdownQueue(q)
  BY <1>2, SendSound
<1>3. CASE OnlyThreadsChange
  BY <1>3, LifeSound
<1>4. CASE \/ \E s \in Semaph : SemaphDestroy(s)
           \/ RequestAllThreadsShutdown \/ WaitReturn \/ FetchEvent
           \/ SemaphDestroyStep \/ ShutdownDone \/ HandleSignal
  BY <1>4, ActivationSound
<1>5. CASE UNCHANGED <<queue, tally, stack>>
  BY <1>5 DEF QInv
<1> QED BY <1>1, <1>2, <1>3, <1>4, <1>5, StepKinds

(* smt_init leaves every queue empty.                                       *)
LEMMA InitQueues ==
  ASSUME NEW level \in [Queue -> Nat], Init
  PROVE  QInv(level) /\ ThreadsAgree
<1>1. queue = [q \in Queue |-> [status |-> "none", events |-> <<>>, cur_events |-> 0,
                                timed_events |-> 0, shutdown |-> FALSE]]
      /\ tally = 0 /\ stack = <<>>
  BY DEF Init
<1>2. <<>> \in Seq(EventType) /\ IdsOf(<<>>) = {} /\ TimedIds(<<>>) = {} /\ Increasing(<<>>)
      /\ Len(<<>>) = 0 /\ DOMAIN <<>> = {}
  BY DEF IdsOf, TimedIds, Increasing
<1>3. IsFiniteSet({}) /\ Cardinality({}) = 0
  BY FS_EmptySet
<1>4. queue \in [Queue -> QueueType]
  BY <1>1, <1>2 DEF QueueType
<1>5. ASSUME NEW q \in Queue
      PROVE  QueueSound(queue[q], level, level[q], tally)
  <2> DEFINE r == queue[q]
  <2>1. r.events = <<>> /\ r.cur_events = 0 /\ r.timed_events = 0
    BY <1>1
  <2> HIDE DEF r
  <2> DEFINE s == r.events
  <2>2. Increasing(s) /\ IdsOf(s) = {} /\ TimedIds(s) = {} /\ Len(s) = 0 /\ DOMAIN s = {}
    BY <1>2, <2>1
  <2> HIDE DEF s
  <2>3. r.cur_events = Len(s) /\ Cardinality(TimedIds(s)) <= r.timed_events /\ IsFiniteSet(TimedIds(s))
    BY <1>3, <2>1, <2>2
  <2>4. IdsOf(s) \subseteq 1 .. tally /\ \A i \in DOMAIN s : AsksFromBelow(s[i], level, level[q])
    BY <2>2
  <2>5. QueueSound(r, level, level[q], tally)
    BY <2>2, <2>3, <2>4 DEF QueueSound, s
  <2> QED BY <2>5 DEF r
<1>6. QInv(level)
  BY <1>1, <1>4, <1>5, NoFrame DEF QInv, QueuesOK
<1>7. ThreadsAgree
  BY EmptyList DEF Init, ThreadsAgree, Alive
<1> QED BY <1>6, <1>7

(* The queues and the activations stay in order, whatever is sent where, as *)
(* long as requests for replies go up.                                      *)
THEOREM QueuesInvariance ==
  ASSUME NEW level \in [Queue -> Nat], RequestsGoUp(level)
  PROVE  Spec => [](QInv(level) /\ ThreadsAgree)
<1>1. Init => IInv /\ QInv(level) /\ ThreadsAgree
  BY InitIInv, InitQueues
<1>2. IInv /\ QInv(level) /\ ThreadsAgree /\ [Next]_vars => QInv(level)' /\ ThreadsAgree'
  BY QueuesStep, ThreadsStep
<1>3. Spec => []IInv
  BY Invariance
<1> QED BY <1>1, <1>2, <1>3, PTL DEF Spec

(* cur_events is right whenever a queue is found full or not.               *)
THEOREM QueuesCounted ==
  ASSUME NEW level \in [Queue -> Nat], RequestsGoUp(level)
  PROVE  Spec => []CurEventsCounts
<1>1. QInv(level) => CurEventsCounts
  BY DEF QInv, QueuesOK, QueueSound, CurEventsCounts
<1>2. Spec => []QInv(level)
  BY QueuesInvariance, PTL
<1> QED BY <1>1, <1>2, PTL

(* No event leaves a queue under an activation that points to it.           *)
THEOREM PointersStayValid ==
  ASSUME NEW level \in [Queue -> Nat], RequestsGoUp(level)
  PROVE  Spec => []PointersValid
<1>1. QInv(level) => PointersValid
  BY DEF QInv, StackSound, FrameSound, PointersValid, Ids, IdsOf
<1>2. Spec => []QInv(level)
  BY QueuesInvariance, PTL
<1> QED BY <1>1, <1>2, PTL

-----------------------------------------------------------------------------
(* Passive threads.                                                         *)

(* A passive thread's queue is empty, or the one event in it is being       *)
(* delivered.                                                               *)
Delivering(st, q) == \E i \in DOMAIN st : st[i].op = "deliver" /\ st[i].queue = q

Served(qs, st, q) ==
  \/ qs[q].events = <<>>
  \/ Len(qs[q].events) = 1 /\ Delivering(st, q)

PassiveSound ==
  pc # "exit" => \A t \in Thread : state[t] = "passive" => Served(queue, stack, QueueOf[t])

(* While smt_exec fetches an event, the first activation works on the queue *)
(* of its thread; when it returned without an event that queue is empty.    *)
FetchSound ==
  pc \in {"init_fetch", "stop_fetch"} =>
    IF stack = <<>> THEN delivered \/ queue[QueueOf[cur]].events = <<>>
                    ELSE stack[1].op = "deliver" /\ stack[1].queue = QueueOf[cur]

(* What is stacked on others leaves them there.                             *)
LEMMA PushKeeps ==
  ASSUME NEW st \in Seq(FrameType), NEW f
  PROVE  /\ \A q : Delivering(st, q) => Delivering(Append(st, f), q)
         /\ f.op = "deliver" => Delivering(Append(st, f), f.queue)
         /\ Append(st, f) # <<>>
         /\ st # <<>> => Append(st, f)[1] = st[1]
<1> DEFINE s == Append(st, f)
<1>1. Len(st) \in Nat /\ DOMAIN st = 1 .. Len(st)
  OBVIOUS
<1>2. /\ DOMAIN s = 1 .. Len(st) + 1 /\ s[Len(st) + 1] = f
      /\ \A i \in 1 .. Len(st) : s[i] = st[i]
  OBVIOUS
<1>3. s # <<>> /\ (st # <<>> => s[1] = st[1])
  OBVIOUS
<1> HIDE DEF s
<1>4. \A q : Delivering(st, q) => Delivering(s, q)
  BY <1>1, <1>2 DEF Delivering
<1>5. f.op = "deliver" => Delivering(s, f.queue)
  BY <1>1, <1>2 DEF Delivering
<1> QED BY <1>3, <1>4, <1>5 DEF s

(* event_send never leaves a passive thread with an event and nobody to     *)
(* deliver it.                                                              *)
LEMMA PostServes ==
  ASSUME NEW level \in [Queue -> Nat], ThreadsOK, ThreadsAgree,
         NEW qs, QueuesOK(qs, level, tally), NEW m,
         NEW rest, StackSound(rest, qs, level),
         \A i \in DOMAIN rest :
           m.to \in Queue /\ rest[i].op = "deliver" => level[m.to] < level[rest[i].queue],
         Post(qs, m, rest),
         NEW t \in Thread, state[t] = "passive", Served(qs, rest, QueueOf[t])
  PROVE  Served(queue', stack', QueueOf[t])
<1> DEFINE q == QueueOf[t]
<1>1. CASE ~Sendable(qs, m)
  BY <1>1 DEF Post
<1>2. CASE Sendable(qs, m)
  <2>1. m.to \in Queue /\ q \in Queue /\ rest \in Seq(FrameType) /\ qs \in [Queue -> QueueType]
    BY <1>2, KernelAssumption DEF Sendable, StackSound, QueuesOK
  <2> DEFINE e == [id |-> tally + 1, name |-> m.name, sender |-> m.from,
                   accept |-> IF m.from = None THEN None ELSE m.accept,
                   reject |-> IF m.from = None THEN None ELSE m.reject,
                   timed |-> m.timed, priority |-> 0, number |-> NullEvent]
             k == CHOOSE x \in Idle(m.to) : \A j \in Idle(m.to) : x <= j
             u == threads[m.to][k]
             h == Head(queue'[m.to].events).id
             f == [DeliverFrame(m.to, u, TRUE) EXCEPT !.at = h]
  <2>2a. queue' = [qs EXCEPT ![m.to].events = Append(@, e), ![m.to].cur_events = @ + 1,
                             ![m.to].timed_events = IF m.timed THEN @ + 1 ELSE @]
    BY <1>2 DEF Post
  <2>2b. stack' = IF Idle(m.to) = {} THEN rest ELSE Append(rest, f)
    BY <1>2 DEF Post
  <2> HIDE DEF e, u, h
  <2>2d. f = [op |-> "deliver", queue |-> m.to, thread |-> u, wake |-> TRUE,
              stage |-> "scan", at |-> h, best |-> 0, victim |-> 0]
    BY ONLY FrameAt
  <2> HIDE DEF f
  <2>2c. f.op = "deliver" /\ f.queue = m.to
    BY <2>2d
  <2>2. /\ queue' = [qs EXCEPT ![m.to].events = Append(@, e), ![m.to].cur_events = @ + 1,
                               ![m.to].timed_events = IF m.timed THEN @ + 1 ELSE @]
        /\ stack' = IF Idle(m.to) = {} THEN rest ELSE Append(rest, f)
        /\ f.op = "deliver" /\ f.queue = m.to
    BY <2>2a, <2>2b, <2>2c
  <2>3. CASE m.to # q
    <3>1. queue'[q] = qs[q]
      BY <2>1, <2>2, <2>3
    <3>2. Delivering(rest, q) => Delivering(stack', q)
      BY <2>1, <2>2, PushKeeps
    <3> QED BY <3>1, <3>2 DEF Served
  <2>4. CASE m.to = q
    <3>1. Idle(q) # {}
      <4>1. t \in Members(threads[q]) /\ threads[q] \in Seq(Thread)
        BY <2>1 DEF ThreadsAgree, ThreadsOK, Alive
      <4>2. PICK i \in DOMAIN threads[q] : threads[q][i] = t
        BY <4>1 DEF Members
      <4> QED BY <4>2 DEF Idle
    <3>2. ~Delivering(rest, q)
      BY <2>1, <2>4 DEF Delivering
    <3>3. qs[q].events = <<>>
      BY <3>2 DEF Served
    <3>4. queue'[q].events = Append(<<>>, e)
      BY <2>1, <2>2, <2>4, <3>3 DEF QueueType
    <3>5. Len(queue'[q].events) = 1
      BY <3>4
    <3>6. Delivering(stack', q)
      BY <2>1, <2>2, <2>4, <3>1, PushKeeps
    <3> QED BY <3>5, <3>6 DEF Served
  <2> QED BY <2>3, <2>4
<1> QED BY <1>1, <1>2

(* Apart from a fetch that fails nothing makes a thread passive.            *)
LEMMA PassiveKept ==
  ASSUME IInv, [Next]_vars, ~FetchFailed
  PROVE  \A t \in Thread : state'[t] = "passive" => state[t] = "passive"
<1> USE DEF IInv
<1>1. state \in [Thread -> States]
  BY DEF ListsInv, ListsType
<1> DEFINE Kept == \A t \in Thread : state'[t] = "passive" => state[t] = "passive"
           Set(t, v) == state' = [state EXCEPT ![t] = v]
<1>2. \A t, v : v # "passive" /\ Set(t, v) => Kept
  BY <1>1
<1>3. \A t : Activate(t) => Set(t, "active")
  BY DEF Activate
<1>4. \A t, why, s : Suspend(t, why, s) => Set(t, why)
  BY DEF Suspend
<1>5. \A t : Destroy(t) => Set(t, "dead")
  BY DEF Destroy
<1>6. \A t, c : Lookup(t, c) => UNCHANGED state \/ Set(t, "wait_event")
  BY <1>4 DEF Lookup, lists
<1>7. CASE ReturnBreak
  <2>1. flags.break_wanted # "passive"
    BY DEF FlagsOK, Reasons
  <2>2. Activate(cur) \/ Suspend(cur, flags.break_wanted, flags.break_semaph)
    BY <1>7 DEF ReturnBreak
  <2> QED BY <1>2, <1>3, <1>4, <2>1, <2>2
<1>8. CASE \/ \E t : Activate(t) \/ Destroy(t)
           \/ \E t, c : Lookup(t, c)
  <2> HIDE DEF Kept, Set
  <2>1. UNCHANGED state => Kept
    BY DEF Kept
  <2>2. ASSUME NEW t, Activate(t) \/ Destroy(t)
        PROVE  Kept
    <3>1. Set(t, "active") \/ Set(t, "dead")
      BY <1>3, <1>5, <2>2
    <3> QED BY <1>2, <3>1
  <2>3. ASSUME NEW t, NEW c, Lookup(t, c)
        PROVE  Kept
    <3>1. UNCHANGED state \/ Set(t, "wait_event")
      BY <1>6, <2>3
    <3> QED BY <1>2, <2>1, <3>1
  <2>4. Kept
    BY <1>8, <2>2, <2>3
  <2> QED BY <2>4 DEF Kept
<1>9. CASE UNCHANGED lists
  BY <1>9 DEF lists
<1>10. \/ UNCHANGED lists
       \/ \E t : Activate(t) \/ Destroy(t)
       \/ \E t, c : Lookup(t, c)
       \/ ReturnBreak
  BY DEF Next, Finished, HandleSignal, vars, UserCall, EventSend, SemaphCreate,
         SemaphWait, SemaphSignal, SemaphDestroy, ThreadCreate, ThreadDestroy, SmtShutdown, SetFlag,
         CallException, DialogReturn,
         DialogPop, DialogUnderflow, Exec, SmtExec, RequestAllThreadsShutdown, ShutdownQueue,
         ShutdownDone, PollDone, Dispatch, FetchEvent, Terminate, EventOutOfRange, FirstList,
         NextList, LeaveLoop, EndOfList, CallModule, ModuleReturn, ReturnException,
         ReturnJump, ReturnPlain, Returning, Idling, WaitReturn, SemaphDestroyStep, QueueStep,
         RejectUndeclared, AcceptNull, Compare, TakeBest, NothingToDeliver, FinishReject,
         FinishNull, FinishAccept
<1> QED BY <1>7, <1>8, <1>9, <1>10

(* A passive thread stays served when the activations stay and no event     *)
(* comes.                                                                   *)
LEMMA ServedStill ==
  ASSUME NEW qs, NEW st, NEW rs, NEW tu, NEW q, Served(qs, st, q),
         rs[q].events = qs[q].events,
         Delivering(st, q) => Delivering(tu, q)
  PROVE  Served(rs, tu, q)
BY DEF Served

(* The top activation replaced by another one on its queue.                 *)
LEMMA TopReplaced ==
  ASSUME stack \in Seq(FrameType), stack # <<>>, NEW f \in FrameType,
         f.op = "deliver", Top.op = "deliver", f.queue = Top.queue
  PROVE  /\ SetTop(f) \in Seq(FrameType) /\ SetTop(f) # <<>>
         /\ \A q : Delivering(SetTop(f), q) <=> Delivering(stack, q)
         /\ Delivering(SetTop(f), Top.queue)
         /\ stack[1].op = "deliver" =>
              SetTop(f)[1].op = "deliver" /\ SetTop(f)[1].queue = stack[1].queue
<1> DEFINE n == Len(stack)
           st == SetTop(f)
<1>1. n \in Nat /\ n # 0 /\ DOMAIN stack = 1 .. n /\ Top = stack[n]
  BY DEF Top
<1>2. st \in Seq(FrameType) /\ Len(st) = n /\ DOMAIN st = 1 .. n /\ st[n] = f
      /\ \A i \in 1 .. n : i # n => st[i] = stack[i]
  BY <1>1 DEF SetTop
<1> HIDE DEF n, st
<1>3. \A q : Delivering(st, q) <=> Delivering(stack, q)
  BY <1>1, <1>2 DEF Delivering
<1>4. Delivering(st, Top.queue)
  BY <1>1, <1>2 DEF Delivering
<1>5. st # <<>>
  <2>1. Len(st) # 0
    BY <1>1, <1>2
  <2> QED BY <2>1
<1>6. stack[1].op = "deliver" => st[1].op = "deliver" /\ st[1].queue = stack[1].queue
  BY <1>1, <1>2
<1> QED BY <1>2, <1>3, <1>4, <1>5, <1>6 DEF st

(* The top activation gone.                                                 *)
LEMMA TopGone ==
  ASSUME stack \in Seq(FrameType), stack # <<>>
  PROVE  /\ Pop \in Seq(FrameType)
         /\ \A q : q # Top.queue /\ Delivering(stack, q) => Delivering(Pop, q)
         /\ IF Pop = <<>> THEN stack[1] = Top ELSE Pop[1] = stack[1]
<1> DEFINE n == Len(stack)
           st == Pop
<1>1. n \in Nat /\ n # 0 /\ DOMAIN stack = 1 .. n /\ Top = stack[n]
  BY DEF Top
<1>2. st \in Seq(FrameType) /\ Len(st) = n - 1 /\ DOMAIN st = 1 .. n - 1
      /\ \A i \in 1 .. n - 1 : st[i] = stack[i]
  BY <1>1 DEF Pop
<1> HIDE DEF n, st
<1>3. \A q : q # Top.queue /\ Delivering(stack, q) => Delivering(st, q)
  BY <1>1, <1>2 DEF Delivering
<1>4. CASE st = <<>>
  <2>1. n = 1
    BY <1>1, <1>2, <1>4
  <2> QED BY <1>1, <1>2, <1>3, <1>4, <2>1 DEF st
<1>5. CASE st # <<>>
  <2>1. 1 \in 1 .. n - 1
    BY <1>1, <1>2, <1>5
  <2> QED BY <1>2, <1>3, <1>5, <2>1 DEF st
<1> QED BY <1>4, <1>5

PassiveInv == PassiveSound /\ FetchSound

(* A step of queue_deliver.                                                 *)
LEMMA DeliverServes ==
  ASSUME NEW level \in [Queue -> Nat], IInv, ThreadsAgree, QInv(level), PassiveInv,
         QueueStep
  PROVE  PassiveInv'
<1> USE DEF PassiveInv
<1>1. /\ stack # <<>> /\ Top.op = "deliver" /\ UNCHANGED <<pc, cur>>
      /\ stack \in Seq(FrameType) /\ QueuesOK(queue, level, tally)
      /\ Top \in DeliverType
  <2>1. stack # <<>> /\ Top.op = "deliver" /\ UNCHANGED <<pc, cur>>
    BY DEF QueueStep, RejectUndeclared, AcceptNull, Compare, TakeBest, NothingToDeliver,
           FinishReject, FinishNull, FinishAccept, Looking, Scanning, exec
  <2> QED BY <2>1, TopQueue DEF QInv, StackSound
<1> DEFINE old == queue[Top.queue].events
           new == queue'[Top.queue].events
<1>0. Len(new) \in Nat /\ (Len(new) = 0 => new = <<>>)
  <2>1. QueuesOK(queue', level, tally')
    BY DeliverSound DEF IInv, QInv
  <2>2. new \in Seq(EventType)
    BY <1>1, <2>1 DEF QueuesOK, QueueType, DeliverType
  <2> HIDE DEF new
  <2> QED BY <2>2
<1>2. \A t \in Thread : state'[t] = "passive" => state[t] = "passive"
  <2>1. [Next]_vars /\ ~FetchFailed
    <3>1. ~FetchFailed
      BY <1>1 DEF FetchFailed, Here
    <3> QED BY <3>1 DEF Next, Exec
  <2> QED BY <2>1, PassiveKept
<1>3. CASE \/ \E q \in Queue : \E e \in Members(queue[q].events) : RejectUndeclared(e) \/ AcceptNull(e)
           \/ TakeBest
  <2>1. UNCHANGED lists /\ \E f, reply : Replies(f, reply)
    BY <1>3, RefuseBegins, TakeBegins DEF QInv
  <2>2. PICK f, reply : Replies(f, reply)
    BY <2>1
  <2>3. PICK m : /\ Post(queue, m, SetTop(f)) /\ StackSound(SetTop(f), queue, level)
                 /\ \A i \in DOMAIN SetTop(f) :
                      m.to \in Queue /\ SetTop(f)[i].op = "deliver"
                        => level[m.to] < level[SetTop(f)[i].queue]
    BY <1>1, <2>2, ReplyGoesDown
  <2>4. f \in FrameType /\ f.op = "deliver" /\ f.queue = Top.queue
    BY <2>2 DEF Replies, FrameType, DeliverType
  <2> DEFINE st == SetTop(f)
  <2>5. /\ st \in Seq(FrameType) /\ st # <<>>
        /\ \A q : Delivering(st, q) <=> Delivering(stack, q)
        /\ stack[1].op = "deliver" => st[1].op = "deliver" /\ st[1].queue = stack[1].queue
    BY <1>1, <2>4, TopReplaced
  <2>6. PassiveSound'
    <3>1. SUFFICES ASSUME pc # "exit", NEW t \in Thread, state'[t] = "passive"
                   PROVE  Served(queue', stack', QueueOf[t])
      BY <1>1 DEF PassiveSound
    <3>2. state[t] = "passive" /\ Served(queue, stack, QueueOf[t])
      BY <1>2, <3>1 DEF PassiveSound
    <3>3. Served(queue, st, QueueOf[t])
      BY <2>5, <3>2 DEF Served
    <3> QED BY <2>3, <3>2, <3>3, <1>1, PostServes DEF IInv
  <2>7. stack' = st \/ \E g : stack' = Append(st, g)
    BY <2>3 DEF Post
  <2>8. stack' # <<>> /\ stack'[1] = st[1]
    <3> HIDE DEF st
    <3> QED BY <2>5, <2>7, PushKeeps
  <2> QED BY <1>1, <2>5, <2>6, <2>8 DEF FetchSound
<1>4. CASE TopStays /\ UNCHANGED lists
  <2>1. PICK f \in DeliverType : f.queue = Top.queue /\ stack' = SetTop(f)
    BY <1>4 DEF TopStays
  <2>2. f \in FrameType /\ f.op = "deliver"
    BY DEF FrameType, DeliverType
  <2>3. /\ stack' # <<>> /\ Delivering(stack', Top.queue)
        /\ \A q : Delivering(stack, q) => Delivering(stack', q)
        /\ stack[1].op = "deliver" => stack'[1].op = "deliver" /\ stack'[1].queue = stack[1].queue
    BY <1>1, <2>1, <2>2, TopReplaced
  <2>4. PassiveSound'
    <3>1. SUFFICES ASSUME pc # "exit", NEW t \in Thread, state'[t] = "passive"
                   PROVE  Served(queue', stack', QueueOf[t])
      BY <1>1 DEF PassiveSound
    <3>2. Served(queue, stack, QueueOf[t])
      BY <1>2, <3>1 DEF PassiveSound
    <3>3. CASE QueueOf[t] # Top.queue
      <4>1. queue'[QueueOf[t]] = queue[QueueOf[t]]
        BY <1>4, <3>3, KernelAssumption DEF TopStays
      <4> QED BY <2>3, <3>2, <4>1, ServedStill
    <3>4. CASE QueueOf[t] = Top.queue
      <4>1. Len(old) \in {0, 1}
        BY <3>2, <3>4 DEF Served
      <4>2. Len(new) <= Len(old)
        BY <1>4 DEF TopStays
      <4>3. new = <<>> \/ Len(new) = 1
        <5> HIDE DEF new, old
        <5> QED BY <1>0, <4>1, <4>2
      <4> QED BY <2>3, <3>4, <4>3 DEF Served
    <3> QED BY <3>3, <3>4
  <2> QED BY <1>1, <2>3, <2>4 DEF FetchSound
<1>5. CASE TopLeaves
  <2>1. /\ \A q : q # Top.queue /\ Delivering(stack, q) => Delivering(stack', q)
        /\ IF stack' = <<>> THEN stack[1] = Top ELSE stack'[1] = stack[1]
    BY <1>1, <1>5, TopGone DEF TopLeaves
  <2>2. PassiveSound'
    <3>1. SUFFICES ASSUME pc # "exit", NEW t \in Thread, state'[t] = "passive"
                   PROVE  Served(queue', stack', QueueOf[t])
      BY <1>1 DEF PassiveSound
    <3>2. Served(queue, stack, QueueOf[t])
      BY <1>2, <3>1 DEF PassiveSound
    <3>3. CASE QueueOf[t] # Top.queue
      <4>1. queue'[QueueOf[t]] = queue[QueueOf[t]]
        BY <1>5, <3>3, KernelAssumption DEF TopLeaves
      <4> QED BY <2>1, <3>2, <3>3, <4>1, ServedStill
    <3>4. CASE QueueOf[t] = Top.queue
      <4>1. Len(old) \in {0, 1}
        BY <3>2, <3>4 DEF Served
      <4>2. new = <<>> \/ Len(new) = Len(old) - 1
        BY <1>5 DEF TopLeaves
      <4>3. new = <<>>
        <5> HIDE DEF new, old
        <5>1. Len(new) = Len(old) - 1 => Len(new) = 0
          BY <1>0, <4>1
        <5> QED BY <1>0, <4>2, <5>1
      <4> QED BY <3>4, <4>3 DEF Served
    <3> QED BY <3>3, <3>4
  <2>3. FetchSound'
    BY <1>1, <1>5, <2>1 DEF FetchSound, TopLeaves
  <2> QED BY <2>2, <2>3
<1>6. \/ \E q \in Queue : \E e \in Members(queue[q].events) : RejectUndeclared(e) \/ AcceptNull(e)
      \/ TakeBest
      \/ TopStays /\ UNCHANGED lists
      \/ TopLeaves
  <2>1. ASSUME NEW e, Compare(e)
        PROVE  TopStays /\ UNCHANGED lists
    BY <2>1, CompareSound DEF Compare
  <2>2. FinishReject \/ FinishNull => TopStays /\ UNCHANGED lists
    BY RefusedSound DEF FinishReject, FinishNull
  <2>3. NothingToDeliver \/ FinishAccept => TopLeaves
    BY ReturnSound
  <2> QED BY <2>1, <2>2, <2>3 DEF QueueStep
<1> QED BY <1>3, <1>4, <1>5, <1>6

(* No call is made while an event is fetched.                               *)
LEMMA NoCallFetches ==
  ASSUME ControlOK, NEW c, Anywhere(c)
  PROVE  stack = <<>> /\ pc \notin {"init_fetch", "stop_fetch"}
BY KernelAssumption DEF ControlOK, Anywhere, InModule, Outside

(* Nor once the process has ended.                                          *)
LEMMA CallsNotAfterExit ==
  ASSUME ControlOK, NEW c, Anywhere(c)
  PROVE  pc # "exit"
BY KernelAssumption DEF ControlOK, Anywhere, InModule, Outside

(* The calls that touch neither queues nor activations.                     *)
SemaphWaitOrSet ==
  \/ \E s \in Semaph : SemaphCreate(s) \/ SemaphWait(s) \/ SemaphSignal(s)
  \/ SmtShutdown \/ SetFlag \/ CallException \/ DialogReturn \/ DialogPop

(* A step of somebody else.                                                 *)
LEMMA OthersServe ==
  ASSUME NEW level \in [Queue -> Nat], IInv, ThreadsAgree, QInv(level), PassiveInv,
         [Next]_vars, ~QueueStep
  PROVE  PassiveInv'
<1> USE DEF PassiveInv
<1>1. QueuesOK(queue, level, tally) /\ StackSound(stack, queue, level)
      /\ queue \in [Queue -> QueueType]
  BY DEF QInv, QueuesOK
<1>2. ASSUME NEW t \in Thread, state[t] = "passive", pc # "exit"
      PROVE  Served(queue, stack, QueueOf[t])
  BY <1>2 DEF PassiveSound
<1>3. ~FetchFailed => \A t \in Thread : state'[t] = "passive" => state[t] = "passive"
  BY PassiveKept
<1>4. CASE EventSend
  <2>1. PICK m : Post(queue, m, stack)
    BY <1>4 DEF EventSend
  <2>2. stack = <<>> /\ pc \notin {"init_fetch", "stop_fetch"} /\ UNCHANGED <<pc, state>>
    BY <1>4, NoCallFetches DEF EventSend, IInv, exec, lists
  <2>3. \A i \in DOMAIN stack :
           m.to \in Queue /\ stack[i].op = "deliver" => level[m.to] < level[stack[i].queue]
    BY <2>2
  <2>4. PassiveSound'
    BY <1>1, <1>2, <2>1, <2>2, <2>3, PostServes DEF IInv, PassiveSound
  <2> QED BY <2>2, <2>4 DEF FetchSound
<1>5. ASSUME NEW q \in Queue, ShutdownQueue(q)
      PROVE  PassiveInv'
  <2> DEFINE qs == [queue EXCEPT ![q].shutdown = TRUE]
             m  == Msg(q, Shutdown)
  <2>1. stack # <<>> /\ Top.op = "shutdown" /\ Post(qs, m, stack) /\ UNCHANGED <<pc, state, cur>>
    BY <1>5 DEF ShutdownQueue, exec, lists
  <2>2. Len(stack) = 1 /\ DOMAIN stack = {1} /\ stack[1] = Top /\ Top.op # "deliver"
    BY <1>1, <2>1, AloneAtBottom
  <2>3. \A p \in Queue : qs[p].events = queue[p].events
    BY <1>1 DEF QueueType
  <2>4. QueuesOK(qs, level, tally) /\ StackSound(stack, qs, level)
    BY <1>1, <1>5, ShutdownSent
  <2>5. \A i \in DOMAIN stack :
           m.to \in Queue /\ stack[i].op = "deliver" => level[m.to] < level[stack[i].queue]
    BY <2>2
  <2> HIDE DEF qs, m
  <2>6. PassiveSound'
    <3>1. SUFFICES ASSUME pc # "exit", NEW t \in Thread, state[t] = "passive"
                   PROVE  Served(queue', stack', QueueOf[t])
      BY <2>1 DEF PassiveSound
    <3>2. Served(qs, stack, QueueOf[t])
      BY <1>2, <2>3, <3>1, KernelAssumption DEF Served
    <3> QED BY <2>1, <2>4, <2>5, <3>1, <3>2, PostServes DEF IInv
  <2>7. pc \notin {"init_fetch", "stop_fetch"}
    BY <2>1, <2>2 DEF FetchSound
  <2> QED BY <2>1, <2>6, <2>7 DEF FetchSound
<1>6. CASE OnlyThreadsChange
  <2>1. stack = <<>> /\ UNCHANGED stack /\ pc' \notin {"init_fetch", "stop_fetch"}
        /\ ~FetchFailed /\ (pc' # "exit" => pc # "exit")
    <3>1. CASE Terminate
      BY <3>1 DEF Terminate, Here, GiveUp, nested, FetchFailed
    <3>2. ASSUME NEW t \in Thread, ThreadCreate(t) \/ ThreadDestroy(t)
          PROVE  stack = <<>> /\ UNCHANGED <<stack, pc>> /\ pc \notin {"init_fetch", "stop_fetch"}
      BY <3>2, NoCallFetches DEF ThreadCreate, ThreadDestroy, nested, exec, IInv
    <3>3. pc \notin {"init_fetch", "stop_fetch"} => ~FetchFailed
      BY DEF FetchFailed, Here
    <3> QED BY <1>6, <3>1, <3>2, <3>3 DEF OnlyThreadsChange
  <2>2. \A q \in Queue : queue'[q].events = queue[q].events \/ queue'[q].events = <<>>
    <3>1. ASSUME NEW t, ThreadCreate(t) \/ Destroy(t)
          PROVE  \A q \in Queue : queue'[q].events = queue[q].events \/ queue'[q].events = <<>>
      <4> DEFINE zero == 0
                 nothing == <<>>
                 p == QueueOf[t]
      <4>1. \/ UNCHANGED queue
            \/ queue' = [queue EXCEPT ![p].status = "open"]
            \/ queue' = [queue EXCEPT ![p].status = "closed", ![p].events = nothing, ![p].cur_events = zero]
        BY <3>1 DEF ThreadCreate, Destroy
      <4> HIDE DEF zero, nothing, p
      <4>2. \A q \in Queue : queue'[q].events = queue[q].events \/ queue'[q].events = nothing
        BY <1>1, <4>1 DEF QueueType
      <4> QED BY <4>2 DEF nothing
    <3> QED BY <1>6, <3>1 DEF OnlyThreadsChange, ThreadDestroy, Terminate
  <2>3. PassiveSound'
    <3>1. SUFFICES ASSUME pc # "exit", NEW t \in Thread, state'[t] = "passive"
                   PROVE  Served(queue', stack', QueueOf[t])
      BY <2>1 DEF PassiveSound
    <3>2. Served(queue, stack, QueueOf[t])
      BY <1>2, <1>3, <2>1, <3>1
    <3>3. queue[QueueOf[t]].events = <<>>
      BY <2>1, <3>2 DEF Served, Delivering
    <3> QED BY <2>2, <3>3, KernelAssumption DEF Served
  <2> QED BY <2>1, <2>3 DEF FetchSound
<1>7. CASE FetchFailed
  <2>1. /\ pc \in {"init_fetch", "stop_fetch"} /\ stack = <<>> /\ ~delivered
        /\ state' = [state EXCEPT ![cur] = "passive"] /\ UNCHANGED <<queue, stack>>
        /\ pc' \in {"poll", "idle"}
    BY <1>7 DEF FetchFailed, Here, Suspend, GiveUp, nested
  <2>2. queue[QueueOf[cur]].events = <<>>
    BY <2>1 DEF FetchSound
  <2>3. state \in [Thread -> States]
    BY DEF IInv, ListsInv, ListsType
  <2>4. PassiveSound'
    <3>1. SUFFICES ASSUME NEW t \in Thread, state'[t] = "passive"
                   PROVE  Served(queue, stack, QueueOf[t])
      BY <2>1 DEF PassiveSound
    <3>2. t = cur \/ state[t] = "passive"
      BY <2>1, <2>3, <3>1
    <3> QED BY <1>2, <2>1, <2>2, <3>2 DEF Served
  <2> QED BY <2>1, <2>4 DEF FetchSound
<1>8. CASE \/ \E s \in Semaph : SemaphDestroy(s)
           \/ RequestAllThreadsShutdown \/ WaitReturn \/ FetchEvent
           \/ SemaphDestroyStep \/ ShutdownDone \/ HandleSignal
  <2>1. /\ UNCHANGED <<queue, stack>> \/ stack = <<>> \/ (stack # <<>> /\ Top.op # "deliver")
                                        \/ pc' = "exit"
        /\ UNCHANGED queue /\ (~FetchFailed \/ UNCHANGED state) /\ (pc' = "exit" \/ pc # "exit")
        /\ \/ pc' = "exit" \/ FetchEvent \/ UNCHANGED <<pc, cur, stack, delivered>>
           \/ pc' \notin {"init_fetch", "stop_fetch"}
           \/ (UNCHANGED pc /\ stack # <<>> /\ Top.op # "deliver")
    <3>1. ASSUME NEW s \in Semaph, SemaphDestroy(s)
          PROVE  stack = <<>> /\ pc \notin {"init_fetch", "stop_fetch"} /\ UNCHANGED <<pc, queue>>
      BY <3>1, NoCallFetches DEF SemaphDestroy, IInv, exec
    <3>2. CASE RequestAllThreadsShutdown \/ WaitReturn \/ FetchEvent
      BY <3>2 DEF RequestAllThreadsShutdown, WaitReturn, FetchEvent, FetchFailed, Here, exec
    <3>3. CASE SemaphDestroyStep \/ ShutdownDone
      BY <3>3 DEF SemaphDestroyStep, ShutdownDone, FetchFailed, Here, exec
    <3>4. CASE HandleSignal
      BY <3>4 DEF HandleSignal, lists
    <3>5. pc \notin {"init_fetch", "stop_fetch"} => ~FetchFailed
      BY DEF FetchFailed, Here
    <3>6. CASE \E s \in Semaph : SemaphDestroy(s)
      <4>1. pc # "exit"
        BY <3>6, CallsNotAfterExit DEF IInv, SemaphDestroy
      <4> QED BY <3>1, <3>5, <3>6, <4>1
    <3> QED BY <1>8, <3>2, <3>3, <3>4, <3>6
  <2>2. stack = <<>> \/ (stack # <<>> /\ Top.op # "deliver") => \A q : ~Delivering(stack, q)
    BY <1>1, AloneAtBottom DEF Delivering
  <2>3. PassiveSound'
    <3>1. SUFFICES ASSUME pc' # "exit", NEW t \in Thread, state'[t] = "passive"
                   PROVE  Served(queue', stack', QueueOf[t])
      BY DEF PassiveSound
    <3>2. Served(queue, stack, QueueOf[t])
      BY <1>2, <1>3, <2>1, <3>1
    <3>3. Delivering(stack, QueueOf[t]) => Delivering(stack', QueueOf[t])
      BY <2>1, <2>2, <3>1
    <3> QED BY <2>1, <3>2, <3>3, ServedStill
  <2>4. FetchSound'
    <3>1. CASE FetchEvent
      <4> DEFINE f == [DeliverFrame(QueueOf[cur], cur, FALSE) EXCEPT
                         !.at = IF queue[QueueOf[cur]].events = <<>> THEN 0
                                ELSE Head(queue[QueueOf[cur]].events).id]
      <4>1. stack' = <<f>> /\ UNCHANGED cur
        BY <3>1 DEF FetchEvent
      <4>2. f.op = "deliver" /\ f.queue = QueueOf[cur]
        BY DEF DeliverFrame
      <4> HIDE DEF f
      <4>3. stack' # <<>> /\ stack'[1] = f
        BY <4>1
      <4> QED BY <4>1, <4>2, <4>3 DEF FetchSound
    <3>2. CASE UNCHANGED pc /\ stack # <<>> /\ Top.op # "deliver"
      <4>1. stack[1].op # "deliver"
        BY <1>1, <3>2, AloneAtBottom
      <4> QED BY <3>2, <4>1 DEF FetchSound
    <3>3. CASE UNCHANGED <<pc, cur, stack, delivered>>
      BY <2>1, <3>3 DEF FetchSound
    <3> QED BY <2>1, <3>1, <3>2, <3>3 DEF FetchSound
  <2> QED BY <2>3, <2>4
<1>9. CASE /\ UNCHANGED <<queue, stack>> /\ ~FetchFailed /\ (pc' = "exit" \/ pc # "exit")
           /\ pc' \notin {"init_fetch", "stop_fetch"} \/ UNCHANGED <<pc, cur, delivered>>
  <2>1. PassiveSound'
    <3>1. SUFFICES ASSUME pc' # "exit", NEW t \in Thread, state'[t] = "passive"
                   PROVE  Served(queue', stack', QueueOf[t])
      BY DEF PassiveSound
    <3> QED BY <1>2, <1>3, <1>9, <3>1
  <2> QED BY <1>9, <2>1 DEF FetchSound
<1>10. \/ EventSend \/ (\E q \in Queue : ShutdownQueue(q)) \/ OnlyThreadsChange
       \/ \E s \in Semaph : SemaphDestroy(s)
       \/ RequestAllThreadsShutdown \/ WaitReturn \/ FetchEvent
       \/ SemaphDestroyStep \/ ShutdownDone \/ HandleSignal \/ FetchFailed
       \/ /\ UNCHANGED <<queue, stack>> /\ (pc' = "exit" \/ pc # "exit")
          /\ pc' \notin {"init_fetch", "stop_fetch"} \/ UNCHANGED <<pc, cur, delivered>>
  <2>1. CASE SemaphWaitOrSet
    <3>1. UNCHANGED <<queue, stack, pc, cur, delivered>> /\ \E c : Anywhere(c)
      BY <2>1 DEF SemaphWaitOrSet, SemaphCreate, SemaphWait, SemaphSignal, SmtShutdown, SetFlag,
                  FlagCall, CallException, DialogReturn, DialogPop, Anywhere, nested, exec
    <3> QED BY <3>1, CallsNotAfterExit DEF IInv
  <2>2. CASE ~SemaphWaitOrSet
    BY <2>2 DEF SemaphWaitOrSet, OnlyThreadsChange, Next, Finished, vars, nested, UserCall, DialogUnderflow,
         Exec, SmtExec, PollDone, Dispatch, Here, HaveEvent, exec,
         EventOutOfRange, FirstList, NextList, GiveUp, LeaveLoop, EndOfList, InLoop, CallModule, ModuleReturn,
         ReturnException, ReturnBreak, ReturnJump, ReturnPlain, Returning, Idling, IInv, ControlOK
  <2> QED BY <2>1, <2>2
<1> QED BY <1>4, <1>5, <1>6, <1>7, <1>8, <1>9, <1>10

(* smt_init creates no thread.                                              *)
LEMMA InitPassive == Init => PassiveInv
BY DEF Init, PassiveInv, PassiveSound, FetchSound

LEMMA PassiveStep ==
  ASSUME NEW level \in [Queue -> Nat], IInv, ThreadsAgree, QInv(level), PassiveInv,
         [Next]_vars
  PROVE  PassiveInv'
<1>1. CASE QueueStep
  BY <1>1, DeliverServes
<1>2. CASE ~QueueStep
  BY <1>2, OthersServe
<1> QED BY <1>1, <1>2

(* No event waits in a queue whose thread is passive: what was sent to it   *)
(* is delivered, or refused, before anything else happens.                  *)
THEOREM PassiveThreadsAreServed ==
  ASSUME NEW level \in [Queue -> Nat], RequestsGoUp(level)
  PROVE  Spec => []PassiveMeansEmpty
<1>1. Init => PassiveInv
  BY InitPassive
<1>2. IInv /\ ThreadsAgree /\ QInv(level) /\ PassiveInv /\ [Next]_vars => PassiveInv'
  BY PassiveStep
<1>3. PassiveInv => PassiveMeansEmpty
  <2>1. DOMAIN <<>> = {}
    OBVIOUS
  <2> QED BY <2>1 DEF PassiveInv, PassiveSound, Served, Delivering, PassiveMeansEmpty
<1>4. Spec => []IInv
  BY Invariance
<1>5. Spec => [](QInv(level) /\ ThreadsAgree)
  BY QueuesInvariance
<1> QED BY <1>1, <1>2, <1>3, <1>4, <1>5, PTL DEF Spec
=============================================================================
