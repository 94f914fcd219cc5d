----------------------------- MODULE SmtSending -----------------------------
(***************************************************************************)
(* The way of one message: the sender's lsend_ function packs it, sends it *)
(* and frees its block; the event waits with a copy in its queue; and the  *)
(* receiver's module unpacks it with get_, uses it and frees it with free_. *)
(* Memory may run out at every step.  The queues are those of SmtKernel.    *)
(***************************************************************************)
EXTENDS SmtMessages

CONSTANTS
  ToSend,          \* the events that are sent
  Args(_)          \* arguments used with a body

VARIABLES
  pc, event, args,
  rc,              \* what lsend_ returns
  block,           \* _body, lsend_'s block
  copy,            \* event-> body, the event's
  params,          \* what get_ unpacks, NULL if it could not
  live             \* what is allocated

message == <<pc, event, args, rc, block, copy, params, live>>

SendingInit ==
  /\ pc = "put" /\ rc = 0 /\ live = {}
  /\ event \in ToSend
  /\ args \in Args(event.body)
  /\ block = NULL /\ copy = NULL /\ params = NULL

-----------------------------------------------------------------------------
LsendPut ==
  /\ pc = "put"
  /\ \/ /\ block' = Put(event.body, args)
        /\ live' = live \cup {"block"}
        /\ pc' = "send" /\ UNCHANGED rc
     \/ /\ rc' = -1 /\ pc' = "done"
        /\ UNCHANGED <<block, live>>
  /\ UNCHANGED <<event, args, copy, params>>

(* event_send: the body is copied, if the queue takes the event.            *)
EventSend ==
  /\ pc = "send"
  /\ \/ /\ copy' = block
        /\ live' = live \cup {"copy"}
        /\ rc' = 0
     \/ /\ rc' = -1
        /\ UNCHANGED <<copy, live>>
  /\ pc' = "sent"
  /\ UNCHANGED <<event, args, block, params>>

LsendFree ==
  /\ pc = "sent"
  /\ block' = NULL /\ live' = live \ {"block"}
  /\ pc' = IF rc = 0 THEN "queued" ELSE "done"
  /\ UNCHANGED <<event, args, rc, copy, params>>

(* The receiver's module.                                                   *)
GetParams ==
  /\ pc = "queued"
  /\ params' = Get(event.body, copy)
  /\ live' = live \cup {"params"} \cup Allocated(event.body, params')
  /\ pc' = "use"
  /\ UNCHANGED <<event, args, rc, block, copy>>

GetFails ==
  /\ pc = "queued"
  /\ params' = NULL
  /\ pc' = "used"
  /\ UNCHANGED <<event, args, rc, block, copy, live>>

(* One of the fields cannot be allocated, which get_ does not look at.      *)
GetCrashes ==
  /\ pc = "queued"
  /\ \E i \in DOMAIN event.body :
       /\ event.body[i].kind = "data" \/ copy.held[i] # NULL
       /\ event.body[i].kind # "value"
  /\ pc' = "crashed"
  /\ UNCHANGED <<event, args, rc, block, copy, params, live>>

FreeParams ==
  /\ pc = "use"
  /\ live' = live \ ({"params"} \cup Allocated(event.body, params))
  /\ params' = NULL
  /\ pc' = "used"
  /\ UNCHANGED <<event, args, rc, block, copy>>

(* The event is destroyed when its thread takes the next one, or without   *)
(* having been taken: rejected, expired, or its queue closed.               *)
EventDestroy ==
  /\ pc \in {"used", "queued"}
  /\ copy' = NULL /\ live' = live \ {"copy"}
  /\ pc' = "done"
  /\ UNCHANGED <<event, args, rc, block, params>>

SendingNext ==
  \/ LsendPut \/ EventSend \/ LsendFree
  \/ GetParams \/ GetFails \/ GetCrashes \/ FreeParams
  \/ EventDestroy

SendingSpec == SendingInit /\ [][SendingNext]_message

-----------------------------------------------------------------------------
(* The messages there are: structures of such fields, and what the lsend_   *)
(* functions are called with, where a string ends at its first zero.        *)
Fields == [name : STRING \ {"block"}, kind : {"value", "text", "data"}, range : Nat \ {0}]

Carries(f, x) ==
  /\ f.kind = "text" => x = NULL \/ x \in Seq(Nat \ {0})
  /\ f.kind = "data" => x = NULL \/ x \in Seq(Nat)

GoodMessages ==
  /\ NULL \notin Nat /\ NULL \notin Seq(Nat)
  /\ \A e \in ToSend :
       /\ e.body \in Seq(Fields)
       /\ \A x \in Args(e.body) : \A i \in DOMAIN e.body : Carries(e.body[i], x[i])

-----------------------------------------------------------------------------
(* What was sent: data with a size that its field cannot hold is cut, and  *)
(* no data is empty data.                                                   *)
Sent(f, x) ==
  CASE f.kind = "data" /\ x = NULL -> << >>
    [] f.kind = "data" /\ x # NULL -> SubSeq(x, 1, Len(x) % f.range)
    [] OTHER -> x

(* The receiver unpacks what the sender packed, although by then the block *)
(* the addresses point into is gone: missing strings are missing, empty    *)
(* ones empty, data may contain zeros, and each field is its own.           *)
ReceivedAsSent ==
  pc = "use" => /\ "block" \notin live
                /\ params = [i \in DOMAIN event.body |-> Sent(event.body[i], args[i])]

(* Whatever fails on the way, nothing stays allocated: put_, event_send,   *)
(* get_ and free_ between them free all they allocate.                      *)
NothingLeaks == pc = "done" => live = {}

(* Messages arrive as they were sent, and leave nothing behind.             *)
MessagesArrive == ReceivedAsSent /\ NothingLeaks

-----------------------------------------------------------------------------
(* The invariant behind these: who holds what at each stage, and that the   *)
(* block and its copy are what put_ made.                                   *)
MessageKept ==
  /\ event \in ToSend /\ args \in Args(event.body)
  /\ pc \in {"put", "send", "sent", "queued", "use", "used", "done", "crashed"}
  /\ pc = "put"    => live = {}
  /\ pc = "send"   => live = {"block"} /\ block = Put(event.body, args)
  /\ pc = "sent"   => \/ rc = 0 /\ live = {"block", "copy"} /\ copy = Put(event.body, args)
                      \/ rc # 0 /\ live = {"block"}
  /\ pc = "queued" => live = {"copy"} /\ copy = Put(event.body, args)
  /\ pc = "use"    => /\ params = Get(event.body, Put(event.body, args))
                      /\ live = {"copy", "params"} \cup Allocated(event.body, params)
  /\ pc = "used"   => live \subseteq {"copy"}
  /\ pc = "done"   => live = {}
=============================================================================
