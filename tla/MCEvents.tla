------------------------------ MODULE MCEvents ------------------------------
(* A client sends requests of several kinds to a server whose queue holds   *)
(* two: of high and low priority, undeclared, and of a method without an    *)
(* event.  The server answers through the accept and reject events.         *)
EXTENDS SmtHistory, TLC

CONSTANTS cl, s, s2, qc, qs, client, server, st, go, low, high, ack,
          Low, High, Odd, Nop, Ack, Nak

MCAgentOf    == (qc :> client) @@ (qs :> server)
MCQueueOf    == (cl :> qc) @@ (s :> qs) @@ (s2 :> qs)
MCPriority   == (client :> 100) @@ (server :> 100)
MCMaxThreads  == [a \in {client, server} |-> 0]
MCMaxEvents  == (qc :> 0) @@ (qs :> 2)
MCMethods    ==
  (client :> ((Ack :> [event |-> ack, priority |-> 100])
              @@ (Nak :> [event |-> ack, priority |-> 200]))) @@
  (server :> ((Low :> [event |-> low, priority |-> 50])
              @@ (High :> [event |-> high, priority |-> 200])
              @@ (Nop :> [event |-> NullEvent, priority |-> 100])))
MCDialog     ==
  (client :> ((<<st, go>> :> [modules |-> 1, next |-> st, supply |-> NullEvent])
              @@ (<<st, ack>> :> [modules |-> 0, next |-> st, supply |-> NullEvent]))) @@
  (server :> ((<<st, go>> :> [modules |-> 0, next |-> st, supply |-> NullEvent])
              @@ (<<st, low>> :> [modules |-> 1, next |-> st, supply |-> NullEvent])
              @@ (<<st, high>> :> [modules |-> 0, next |-> st, supply |-> NullEvent])))
MCInitEvents == [a \in {client, server} |-> {go}]
MCInitValue  == <<>>
MCCalls      == (client :> {"event_send", "the_next_event"}) @@ (server :> {})
MCOutsideCalls == ("main" :> {"thread_create"}) @@ ("poll" :> {}) @@ ("wait" :> {"event_send"})
MCChoices    == (client :> {go}) @@ (server :> {})
Request(n, timed) ==
  [to |-> qs, from |-> qc, name |-> n, accept |-> Ack, reject |-> Nak, timed |-> timed]
MCRaised     == (client :> {}) @@ (server :> {})
MCMessages   == (client :> {Request(n, FALSE) : n \in {Low, High, Odd, Nop}}) @@ (server :> {})
MCTimed      == (client :> {Request(n, TRUE) : n \in {Low, Odd}}) @@ (server :> {})
MCOutsideMessages == {Msg(qs, Low), Msg(None, Low)}

(* Requests go from the client up to the server.                            *)
ASSUME MCRequestsGoUp == RequestsGoUp((qc :> 0) @@ (qs :> 1))
=============================================================================
