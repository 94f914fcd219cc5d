----------------------------- MODULE MCShutdown -----------------------------
(* Two threads exchange work until a signal, or one of them, asks for the   *)
(* shutdown; the list for SHUTDOWN ends the thread.                         *)
EXTENDS SmtKernel, TLC

CONSTANTS t1, t2, q1, q2, worker, st, go, work, sd, Work, Nop

MCAgentOf    == [q \in Queue |-> worker]
MCQueueOf    == (t1 :> q1) @@ (t2 :> q2)
MCPriority   == (worker :> 100)
MCMaxThreads == (worker :> 2)
MCMaxEvents  == [q \in Queue |-> 0]
MCMethods    == (worker :> ((Work :> [event |-> work, priority |-> 100])
                            @@ (Nop :> [event |-> NullEvent, priority |-> 100])
                            @@ (Shutdown :> [event |-> sd, priority |-> 255])))
List(n, s)   == [modules |-> n, next |-> st, supply |-> s]
MCDialog     == (worker :> ((<<st, go>> :> List(0, NullEvent))
                            @@ (<<st, work>> :> List(1, NullEvent))
                            @@ (<<st, sd>> :> List(1, TermEvent))))
MCInitEvents == (worker :> {go})
MCInitValue  == <<>>
MCCalls      == (worker :> {"event_send", "smt_shutdown"})
MCOutsideCalls == ("main" :> {"thread_create"}) @@ ("poll" :> {})
                  @@ ("wait" :> {"event_send"})
MCChoices    == (worker :> {})
MCRaised     == (worker :> {})
MCMessages   == (worker :> {Msg(q, Work) : q \in Queue})
MCOutsideMessages == {Msg(q, n) : q \in Queue, n \in {Work, Nop}}
=============================================================================
