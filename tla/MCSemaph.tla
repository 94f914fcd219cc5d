------------------------------ MODULE MCSemaph ------------------------------
(* Three threads of two priorities share semaphores; modules wait, signal,  *)
(* recycle and end the dialog.                                              *)
EXTENDS SmtSemaph, TLC

CONSTANTS t1, t2, hi, q1, q2, q3, s1, go, st, low, high

MCAgentOf    == (q1 :> low) @@ (q2 :> low) @@ (q3 :> high)
MCQueueOf    == (t1 :> q1) @@ (t2 :> q2) @@ (hi :> q3)
MCPriority   == (low :> 100) @@ (high :> 200)
MCMaxThreads  == [a \in {low, high} |-> 0]
MCMaxEvents  == [q \in {q1, q2, q3} |-> 0]
MCMethods == [a \in {low, high} |-> <<>>]
MCDialog     == [a \in {low, high} |-> (<<st, go>> :> [modules |-> 2, next |-> st, supply |-> NullEvent])]
MCInitEvents == [a \in {low, high} |-> {go}]
MCInitValue  == [s \in {s1} |-> 1]
MCCalls      == [a \in {low, high} |->
                   {"semaph_wait", "semaph_signal", "semaph_destroy", "the_next_event", "recycle_module",
                    "thread_destroy", "thread_create"}]
MCOutsideCalls == ("main" :> {"semaph_create", "thread_create"}) @@ ("poll" :> {}) @@ ("wait" :> {"semaph_signal"})
MCChoices    == [a \in {low, high} |-> {go, TermEvent}]
MCRaised     == [a \in {low, high} |-> {}]
MCMessages   == [a \in {low, high} |-> {}]
MCOutsideMessages == {}
=============================================================================
