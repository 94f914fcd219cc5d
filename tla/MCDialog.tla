------------------------------ MODULE MCDialog ------------------------------
(* Two threads whose modules raise and call exceptions, return from them,   *)
(* supply events that are fine, unaccepted, out of range or final, and send *)
(* each other events they wait for with event_wait.                         *)
EXTENDS SmtKernel, TLC

CONSTANTS t1, t2, q1, q2, agent, st, go, call, odd, Data

MCAgentOf    == [q \in Queue |-> agent]
MCQueueOf    == (t1 :> q1) @@ (t2 :> q2)
MCPriority   == (agent :> 100)
MCMaxThreads == (agent :> 0)
MCMaxEvents  == [q \in Queue |-> 0]
MCMethods    == (agent :> (Data :> [event |-> call, priority |-> 100]))
List(n)      == [modules |-> n, next |-> st, supply |-> NullEvent]
MCDialog     == (agent :> ((<<st, go>> :> List(1)) @@ (<<st, call>> :> List(2))))
MCInitEvents == (agent :> {go})
MCInitValue  == <<>>
MCCalls      == (agent :> {"call_exception", "dialog_return", "dialog_pop", "raise_exception",
                           "the_next_event", "event_wait"})
MCOutsideCalls == ("main" :> {"thread_create"}) @@ ("poll" :> {"event_send"}) @@ ("wait" :> {})
MCChoices    == (agent :> {odd, BadEvent, TermEvent})
MCRaised     == (agent :> {call})
MCMessages   == (agent :> {})
MCOutsideMessages == {Msg(q1, Data)}
=============================================================================
