----------------------------- MODULE SmtHistory -----------------------------
(***************************************************************************)
(* The kernel with history variables: what some of its promises speak of   *)
(* is not in its state.  The variables only record; every step of Spec is  *)
(* a step of HSpec.                                                        *)
(***************************************************************************)
EXTENDS SmtKernel

VARIABLES
  asked,     \* the module being run has called event_wait
  answered   \* the events a reply was sent for, with the stage that sent it

hvars == <<vars, asked, answered>>

HInit == /\ Init
         /\ asked = FALSE
         /\ answered = {}

(* An activation of queue_deliver sends the reply to its victim in this     *)
(* step, and event_send queues it.                                          *)
Replying == Scanning /\ tally' # tally
Victim   == stack'[Len(stack)].victim
Reply    == <<Victim, stack'[Len(stack)].stage>>

HNext ==
  /\ Next
  /\ asked' = IF running' # running THEN FALSE
              ELSE asked \/ (flags'.break_wanted = "wait_event" /\ calls' # calls)
  /\ answered' = IF Replying THEN answered \cup {Reply} ELSE answered

HSpec == HInit /\ [][HNext]_hvars

-----------------------------------------------------------------------------
(* event_wait: "This call has no effect if you raise an exception": a thread *)
(* is put to sleep for an event only when the module it just ran asked for   *)
(* that, or when it met an event its state does not accept.                  *)
SleepsOnlyIfAsked ==
  [][\A t \in Thread :
       running = t /\ running' = None /\ state'[t] = "wait_event"
         => asked \/ shutdown_request']_hvars

(* event_accept and event_reject: an event is answered at most once, and not *)
(* both accepted and rejected, however the replies re-enter the kernel.      *)
AnsweredOnce == [][Replying => \A a \in answered : a[1] # Victim]_hvars

(* Every event that leaves its queue for a thread, and asked for it, had its *)
(* acceptance sent first, if its client is there to be told.                 *)
AcceptedIsAnswered ==
  [][\A q \in Queue : \A e \in Members(queue[q].events) :
       /\ e.accept # None
       /\ queue[e.sender].status = "open"
       /\ MaxEvents[e.sender] = 0
       /\ \E t \in Thread : /\ ctx'[t].event # ctx[t].event
                            /\ ctx'[t].event # None
                            /\ ctx'[t].event.id = e.id
       => <<e.id, "accept">> \in answered]_hvars
=============================================================================
