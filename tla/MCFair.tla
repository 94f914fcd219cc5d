------------------------------- MODULE MCFair -------------------------------
(* Threads of one priority that never run out of work: they supply their    *)
(* own next event, recycle modules, block on two semaphores, destroy them   *)
(* and each other.                                                          *)
EXTENDS SmtSemaph, TLC

CONSTANTS t1, t2, t3, q1, q2, s1, s2, agent, st, go

MCAgentOf    == [q \in Queue |-> agent]
MCQueueOf    == (t1 :> q1) @@ (t2 :> q1) @@ (t3 :> q2)
MCPriority   == (agent :> 100)
MCMaxThreads == (agent :> 3)
MCMaxEvents  == [q \in Queue |-> 0]
MCMethods    == (agent :> <<>>)
MCDialog     == (agent :> (<<st, go>> :> [modules |-> 1, next |-> st, supply |-> go]))
MCInitEvents == (agent :> {go})
MCInitValue  == [s \in Semaph |-> 1]
MCCalls      == (agent :> {"recycle_module", "thread_destroy",
                           "semaph_wait", "semaph_signal", "semaph_destroy"})
MCOutsideCalls == ("main" :> {"thread_create", "semaph_create"}) @@ ("poll" :> {})
                  @@ ("wait" :> {"semaph_signal"})
MCChoices    == (agent :> {})
MCRaised     == (agent :> {})
MCMessages   == (agent :> {})
MCOutsideMessages == {}
=============================================================================
