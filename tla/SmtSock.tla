------------------------------ MODULE SmtSock ------------------------------
(***************************************************************************)
(* The socket agent (libsmt/smtsock.c): one thread that reads, writes,     *)
(* connects and closes sockets for others.  It keeps the requests in two   *)
(* lists, main_list by socket and wait_list as they came, merges them when *)
(* it walks through the requests, and watches the sockets with select,     *)
(* from a polling function and from the kernel's blocking function.         *)
(*                                                                         *)
(* The lists, the sets of sockets and the pointers into the lists are one  *)
(* record, sock; the functions of the agent are operators from sock to     *)
(* sock.  A request is known by its number, and EndOfList stands for the list,*)
(* where a pointer stands at the end.  A request for an answer sent only   *)
(* when it is wanted (reply) counts as answered.                           *)
(***************************************************************************)
EXTENDS Integers, Sequences, FiniteSets

CONSTANTS
  Handle,          \* sockets, positive numbers
  Open,            \* those that are alive whenever something is asked of them
  Ask,             \* what may be asked of each: a set of [type, repeat, timed]
  MaxRequests,     \* bound on the requests made
  MaxReady,        \* bound on the activity that select finds at a time
  Size,            \* what a request wants to read or write
  CurSizes,        \* how many values cur_size has
  MAX_POLLING_INTERVAL

VARIABLES
  state, the_next_event,  \* of the dialog
  sock,
  walking,         \* an _ACTIVITY event is under way
  activity,        \* it is in the queue
  polling,         \* interval of check_activity_nonblock, 0 when it is not called
  sent,            \* timeout events in the queue
  asked            \* how many requests were made

svars == <<state, the_next_event, sock, walking, activity, polling, sent, asked>>

EndOfList == 0

(* What users of the agent ask: only reads repeat, a request for output is   *)
(* for a socket that is alive, and a request to close has no timeout.        *)
Types == {"read", "write", "input", "output", "connect", "close"}

GoodRequests ==
  /\ Handle \subseteq Nat \ {0}
  /\ MaxRequests \in Nat /\ Size \in Nat /\ CurSizes \in Nat \ {0}
  /\ \A h \in Handle : \A a \in Ask[h] :
       /\ a \in [type : Types, repeat : BOOLEAN, timed : BOOLEAN]
       /\ a.repeat => a.type = "read"
       /\ a.type = "output" => h \in Open
       /\ a.type = "close" => ~a.timed

request_is_input(r)  == r.type \in {"read", "input"}
request_is_output(r) == ~request_is_input(r)

Larger(a, b) == IF a > b THEN a ELSE b

Requests(list) == {list[i] : i \in DOMAIN list}
AllOf(s)       == Requests(s.main) \cup Requests(s.wait)
On(h, rs)      == {r \in rs : r.handle = h}
Ids(s)         == {r.id : r \in AllOf(s)}

(* The requests of a list that are in rs, in their order.                   *)
Keep(kept, r, rs) == IF r \in rs THEN Append(kept, r) ELSE kept

Keeping(list, rs) ==
  LET k[i \in 0 .. Len(list)] == IF i = 0 THEN << >> ELSE Keep(k[i - 1], list[i], rs)
  IN  k

Kept(list, rs) == Keeping(list, rs)[Len(list)]

(* Where a request is in main_list, and the pointer to a place in it.       *)
At(s, id)     == CHOOSE p \in DOMAIN s.main : s.main[p].id = id
Pointer(s, p) == IF p \in DOMAIN s.main THEN s.main[p].id ELSE EndOfList

(* The first place from p on that is not one of places, and the requests    *)
(* from one place on up to another.                                         *)
Past(s, p, places) == CHOOSE q \in p .. Len(s.main) + 1 :
                        q \notin places /\ \A j \in p .. q - 1 : j \in places
Between(s, p, q)   == {s.main[j] : j \in p .. q - 1}

OnSocket(s, h) == {q \in DOMAIN s.main : s.main[q].handle = h}
Outputs(s, h)  == {q \in OnSocket(s, h) : request_is_output(s.main[q])}

SInit ==
  /\ state = "Getting-Event" /\ the_next_event = "ok"
  /\ sock = [main |-> << >>, wait |-> << >>, count |-> 0, waiting |-> {},
             fin |-> {}, fout |-> {}, ferr |-> {}, rin |-> {}, rout |-> {}, rerr |-> {},
             top |-> 0, newtop |-> 0, deleted |-> FALSE, delwalk |-> FALSE,
             current |-> EndOfList, active |-> EndOfList,
             alarms |-> {}, answers |-> [n \in 1 .. MaxRequests |-> 0]]
  /\ walking = FALSE /\ activity = FALSE /\ polling = 1
  /\ sent = {} /\ asked = 0

-----------------------------------------------------------------------------
(* Requests begin and end.                                                  *)

request_create(h, a) ==
  [id |-> asked + 1, type |-> a.type, repeat |-> a.repeat, timed |-> a.timed,
   handle |-> h, cur |-> 0]

Answered(s, rs) ==
  [s EXCEPT !.answers = [n \in DOMAIN s.answers |->
                           s.answers[n] + (IF n \in {r.id : r \in rs} THEN 1 ELSE 0)]]

(* An answer is sent to each of rs, and request_destroy called for it: a    *)
(* pointer to it moves on to the next request.                              *)
EndAll(s, rs) ==
  [Answered(s, rs) EXCEPT
     !.alarms = s.alarms \ {r.id : r \in rs},
     !.deleted = s.deleted \/ rs # {}, !.delwalk = s.delwalk \/ rs # {},
     !.current = IF s.current = EndOfList THEN EndOfList
                 ELSE Pointer(s, Past(s, At(s, s.current),
                                      {q \in DOMAIN s.main : s.main[q] \in rs})),
     !.main = Kept(s.main, Requests(s.main) \ rs),
     !.wait = Kept(s.wait, Requests(s.wait) \ rs)]

End(s, r) == EndAll(s, {r})

(* A request that repeats stays, and begins again.                          *)
send_ok_reply(s, r) ==
  IF r.repeat THEN [s EXCEPT !.main[At(s, r.id)].cur = 0] ELSE End(s, r)

request_queue(s, r) ==
  LET t == [s EXCEPT !.alarms = IF r.timed THEN @ \cup {r.id} ELSE @,
                     !.fin  = IF request_is_input(r) THEN @ \cup {r.handle} ELSE @,
                     !.fout = IF request_is_output(r) THEN @ \cup {r.handle} ELSE @,
                     !.top = Larger(r.handle, @), !.newtop = Larger(r.handle, @)]
  IN  IF r.handle \notin s.ferr
      THEN [t EXCEPT !.ferr = @ \cup {r.handle}, !.main = Append(@, r)]
      ELSE [t EXCEPT !.waiting = @ \cup {r.handle}, !.wait = Append(@, r), !.count = @ + 1]

-----------------------------------------------------------------------------
(* Merging: the waiting requests on the socket of the request at p, which  *)
(* is its first, get their places, or are refused.                          *)

Of_type(s, p, q, types) == \E r \in Between(s, p, q) : r.type \in types

Inserted(list, p, more) == SubSeq(list, 1, p - 1) \o more \o SubSeq(list, p, Len(list))

(* What waits on h is taken from wait_list, and of it ins gets its place at *)
(* i and outs its place at o, which is not behind i.                        *)
Merged(s, h, o, outs, i, ins) ==
  LET here == On(h, Requests(s.wait))
  IN  [s EXCEPT !.main = Inserted(Inserted(s.main, i, Kept(s.wait, ins)), o, Kept(s.wait, outs)),
                !.wait = Kept(s.wait, Requests(s.wait) \ here),
                !.count = @ - Len(Kept(s.wait, here)), !.waiting = @ \ {h}]

(* Mutant: requests that wait go to the end of their socket's.              *)
MergeAtEnd(s, p) ==
  LET h == s.main[p].handle
      i == Past(s, p, OnSocket(s, h))
  IN  Merged(s, h, i, On(h, Requests(s.wait)), i, {})

(* Mutant: a refused request gets its place, too.                           *)
MergePlacesAll(s, p) ==
  LET h    == s.main[p].handle
      o    == Past(s, p, Outputs(s, h))
      here == On(h, Requests(s.wait))
      outs == {r \in here : request_is_output(r)}
      t    == Merged(s, h, o, outs, Past(s, o, OnSocket(s, h)), here \ outs)
  IN  IF Of_type(s, p, o, {"output", "close"}) THEN Answered(t, outs) ELSE t

merge_waiting_requests_same_socket(s, p) ==
  LET h    == s.main[p].handle
      o    == Past(s, p, Outputs(s, h))
      i    == Past(s, o, OnSocket(s, h))
      disallow_output == Of_type(s, p, o, {"output", "close"})
      disallow_input  == Of_type(s, p, o, {"close"}) \/ Of_type(s, o, i, {"input"})
                           \/ \E r \in Between(s, o, i) : r.repeat
      here    == On(h, Requests(s.wait))
      refused == {r \in here : IF request_is_output(r) THEN disallow_output ELSE disallow_input}
      outs    == {r \in here \ refused : request_is_output(r)}
      ins     == {r \in here \ refused : request_is_input(r)}
  IN  EndAll(Merged(s, h, o, outs, i, ins), refused)

MergeAt(s, p) ==
  IF s.count > 0 /\ s.main[p].handle \in s.waiting
  THEN merge_waiting_requests_same_socket(s, p) ELSE s

-----------------------------------------------------------------------------
(* Requests as they come.  Each gives the records sock may become, for what *)
(* the sockets do: a closed one, a connection or a close that fails, bytes  *)
(* that can be read at once.                                                 *)

(* Too few, or a request that repeats and begins again; enough, or an error *)
(* (errno may be of an earlier call).                                       *)

process_read_type_request(s, r) ==
  IF r.handle \in s.fin
  THEN {request_queue(s, r)}
  ELSE {request_queue(s, [r EXCEPT !.cur = n]) : n \in 0 .. Size - 1} \cup {Answered(s, {r})}

(* socket_is_alive.                                                         *)
Dead(r) == r.handle \notin Open

create_read_request(s, r) ==
  process_read_type_request(s, r) \cup {t \in {Answered(s, {r})} : Dead(r)}

create_write_request(s, r) == {request_queue(s, r)} \cup {t \in {Answered(s, {r})} : Dead(r)}

create_input_request(s, r) == create_write_request(s, r)

(* On a socket that is not alive the request is forgotten without an answer. *)
create_output_request(s, r) == {request_queue(s, r)} \cup {t \in {s} : Dead(r)}

(* An error, or the system gives a socket that nobody has open.             *)
create_connect_request(s, r) ==
  {Answered(s, {r})} \cup {request_queue(s, x) : x \in {x \in {r} : On(r.handle, AllOf(s)) = {}}}

(* Closed at once, unless requests are pending or the system cannot yet.    *)
create_close_request(s, r) ==
  {request_queue(s, r)} \cup {t \in {Answered(s, {r})} : r.handle \notin s.ferr}

Created(s, r) ==
  CASE r.type = "read"    -> create_read_request(s, r)
    [] r.type = "write"   -> create_write_request(s, r)
    [] r.type = "input"   -> create_input_request(s, r)
    [] r.type = "output"  -> create_output_request(s, r)
    [] r.type = "connect" -> create_connect_request(s, r)
    [] r.type = "close"   -> create_close_request(s, r)

(* Without a request in main_list the search for one would not end.         *)
flush_socket_requests(s, h, alltypes) ==
  IF h \notin (IF alltypes THEN s.ferr ELSE s.fin) THEN s
  ELSE LET p == CHOOSE p \in OnSocket(s, h) : \A q \in OnSocket(s, h) : p =< q
           m == MergeAt(s, p)
           waited == On(h, Requests(s.wait))
           t == IF alltypes \/ h \notin s.fout
                THEN EndAll([s EXCEPT !.fout = @ \ {h}, !.waiting = @ \ {h},
                                      !.count = @ - Len(Kept(s.wait, waited))],
                            On(h, AllOf(s)))
                ELSE EndAll(m, {r \in On(h, Requests(m.main)) : request_is_input(r)})
           u == [t EXCEPT !.fin = @ \ {h}]
       IN  IF h \in u.fout THEN u ELSE [u EXCEPT !.ferr = @ \ {h}]

-----------------------------------------------------------------------------
(* Timeouts.                                                                *)

clear_check_after_input_request(s, r) ==
  LET n == At(s, r.id) + 1
      t == [s EXCEPT !.fin = @ \ {r.handle}]
  IN  IF n \in DOMAIN s.main /\ s.main[n].handle = r.handle THEN s
      ELSE IF r.handle \in s.fout THEN t ELSE [t EXCEPT !.ferr = @ \ {r.handle}]

clear_check_after_output_request(s, r) ==
  LET n == At(s, r.id) + 1
      t == [s EXCEPT !.fout = @ \ {r.handle}]
  IN  IF n \in DOMAIN s.main /\ s.main[n].handle = r.handle /\ request_is_output(s.main[n]) THEN s
      ELSE IF r.handle \in s.fin THEN t ELSE [t EXCEPT !.ferr = @ \ {r.handle}]

(* The search merges as it goes, from place to place.                       *)
Bound(s) == Len(s.main) + Len(s.wait)

FindAt(s, p, id) ==
  LET m == MergeAt(s, p)
  IN  IF m.main[p].id = id THEN [m EXCEPT !.active = id] ELSE m

FindStep(s, p, id) ==
  IF s.active # EndOfList \/ p > Len(s.main) THEN s ELSE FindAt(s, p, id)

Finding(s, id) ==
  LET f[p \in 0 .. Bound(s)] == IF p = 0 THEN s ELSE FindStep(f[p - 1], p, id)
  IN  f

find_timed_out_request(s, id) == Finding([s EXCEPT !.active = EndOfList], id)[Bound(s)]

reply_timeout_to_request(s) ==
  IF s.active = EndOfList THEN s
  ELSE LET p == At(s, s.active)
           r == s.main[p]
           behind == p > 1 /\ s.main[p - 1].handle = r.handle
           t == IF request_is_input(r)
                THEN IF behind /\ request_is_input(s.main[p - 1]) THEN s
                     ELSE clear_check_after_input_request(s, r)
                ELSE IF behind THEN s ELSE clear_check_after_output_request(s, r)
       IN  [End(t, r) EXCEPT !.active = EndOfList]

-----------------------------------------------------------------------------
(* The walk through the requests.                                           *)

(* What is found at the request at p: it becomes the active request.        *)
OutputActivity(s, p) ==
  LET r == s.main[p]
      h == r.handle
      t == [s EXCEPT !.active = r.id, !.rout = @ \ {h}]
      n == Past(s, p, OnSocket(s, h))
  IN  IF h \notin s.rout THEN s
      ELSE IF r.type # "close" THEN clear_check_after_output_request(t, r)
      ELSE EndAll([t EXCEPT !.fout = @ \ {h}, !.fin = @ \ {h}, !.rin = @ \ {h}, !.ferr = @ \ {h}],
                  Between(s, p + 1, n))

InputActivity(s, p) ==
  LET r == s.main[p]
      t == [s EXCEPT !.active = r.id, !.rin = @ \ {r.handle}]
  IN  IF r.handle \notin s.rin THEN s
      ELSE IF r.repeat THEN t ELSE clear_check_after_input_request(t, r)

ActivityAt(s, p) ==
  LET r == s.main[p]
      t == IF request_is_output(r) THEN OutputActivity(s, p) ELSE InputActivity(s, p)
      same == IF request_is_output(r) THEN Outputs(t, r.handle) ELSE OnSocket(t, r.handle)
  IN  IF r.handle \in s.rerr THEN [s EXCEPT !.active = r.id, !.current = Pointer(s, p + 1)]
      ELSE [t EXCEPT !.current = Pointer(t, Past(t, p, same))]

Reached(m, p) == [m EXCEPT !.current = Pointer(m, p), !.newtop = Larger(m.main[p].handle, @)]

WalkAt(s, p) == ActivityAt(Reached(MergeAt(s, p), p), p)

WalkStep(s) ==
  IF s.current = EndOfList \/ s.active # EndOfList THEN s ELSE WalkAt(s, At(s, s.current))

Walking(s) ==
  LET w[i \in 0 .. Bound(s)] == IF i = 0 THEN s ELSE WalkStep(w[i - 1])
  IN  w

WalkOn(s) ==
  LET t == Walking(s)[Bound(s)]
  IN  IF t.current = EndOfList THEN [t EXCEPT !.top = t.newtop, !.deleted = @ /\ t.delwalk] ELSE t

check_next_socket_activity(s) == WalkOn([s EXCEPT !.active = EndOfList])

check_first_socket_activity(s) ==
  check_next_socket_activity([s EXCEPT !.current = Pointer(s, 1), !.newtop = 0, !.delwalk = FALSE])

generate_request_type_event(s) ==
  IF s.active = EndOfList THEN "no_active_request"
  ELSE LET r == s.main[At(s, s.active)]
       IN  IF r.handle \in s.rerr THEN "exception" ELSE r.type

Unwatched(m, p, h) ==
  [m EXCEPT !.active = Pointer(m, p), !.fin = @ \ {h}, !.fout = @ \ {h}, !.ferr = @ \ {h}]

prepare_to_cancel_all_requests(s) ==
  LET h == s.main[At(s, s.active)].handle
      p == CHOOSE p \in OnSocket(s, h) :
             /\ p - 1 \notin OnSocket(s, h)
             /\ p .. At(s, s.active) \subseteq OnSocket(s, h)
  IN  Unwatched(MergeAt(s, p), p, h)

(* process_socket_exception, reply_closed_to_all_requests and               *)
(* reply_error_to_all_requests.                                             *)
EndSocket(s, p) ==
  EndAll(s, Between(s, p, Past(s, p, OnSocket(s, s.main[p].handle))))

EndActive(s) == EndSocket(s, At(s, s.active))

Cancel(s) == EndActive(prepare_to_cancel_all_requests(s))

(* The bytes that a request for the active request moved, or why none:      *)
(* what became of the request and the event that follows.                    *)
write_some_data(r, rc) == [r EXCEPT !.cur = (@ + rc) % CurSizes]
read_some_data(r, rc)  == IF rc > 0 THEN [r EXCEPT !.cur = @ + rc] ELSE r

handle_partial_io(s, r, rc, error) ==
  LET next == IF rc > 0 THEN (IF r.cur >= Size THEN "finished" ELSE "incomplete")
              ELSE IF rc = 0 \/ error = "closed" THEN "closed"
              ELSE IF error = "again" THEN "incomplete" ELSE "error"
      t == [s EXCEPT !.main[At(s, r.id)] = r]
      h == r.handle
  IN  [next |-> next,
       sock |-> IF next # "incomplete" THEN t
                ELSE IF request_is_input(r)
                     THEN [t EXCEPT !.ferr = @ \cup {h}, !.fin = @ \cup {h}]
                     ELSE [t EXCEPT !.ferr = @ \cup {h}, !.fout = @ \cup {h}]]

-----------------------------------------------------------------------------
(* The dialog.                                                              *)

Steady == UNCHANGED <<walking, activity, polling, sent, asked>>

GettingEvent == state = "Getting-Event"

(* A request is taken from the queue.                                       *)
AskSocket(h, a) ==
  /\ GettingEvent /\ asked < MaxRequests
  /\ asked' = asked + 1
  /\ sock' \in Created(sock, request_create(h, a))
  /\ UNCHANGED <<state, the_next_event, walking, activity, polling, sent>>

Flush(h, alltypes) ==
  /\ GettingEvent
  /\ sock' = flush_socket_requests(sock, h, alltypes)
  /\ UNCHANGED <<state, the_next_event>> /\ Steady

Timeout(id) ==
  /\ GettingEvent /\ id \in sent
  /\ sent' = sent \ {id}
  /\ sock' = reply_timeout_to_request(find_timed_out_request(sock, id))
  /\ UNCHANGED <<state, the_next_event, walking, activity, polling, asked>>

Walk(s) ==
  /\ sock' = s
  /\ the_next_event' = generate_request_type_event(s)
  /\ state' = "Socket-Activity"

Activity ==
  /\ GettingEvent /\ activity
  /\ activity' = FALSE
  /\ Walk(check_first_socket_activity(sock))
  /\ UNCHANGED <<walking, polling, sent, asked>>

SocketActivity(e) == state = "Socket-Activity" /\ the_next_event = e
AfterActivity(e)  == state = "After-Activity" /\ the_next_event = e

active_request == sock.main[At(sock, sock.active)]

(* read_data_from_socket and write_data_to_socket.                          *)
MoveData ==
  /\ SocketActivity("read") \/ SocketActivity("write")
  /\ LET r    == active_request
         left == (Size - r.cur) % CurSizes
     IN  \E rc \in -1 .. left, error \in {"closed", "again", "other"} :
           LET moved == IF r.type = "read" THEN read_some_data(r, rc) ELSE write_some_data(r, rc)
               x == handle_partial_io(sock, moved, rc, error)
           IN  sock' = x.sock /\ the_next_event' = x.next
  /\ state' = "After-Activity" /\ Steady

ReplyOk ==
  /\ SocketActivity("input") \/ SocketActivity("output") \/ AfterActivity("finished")
  /\ Walk(check_next_socket_activity(send_ok_reply(sock, active_request))) /\ Steady

confirm_socket_connected ==
  /\ SocketActivity("connect")
  /\ the_next_event' \in {"finished", "error"}
  /\ state' = "After-Activity" /\ UNCHANGED sock /\ Steady

close_the_socket ==
  /\ SocketActivity("close")
  /\ the_next_event' \in {"finished", "closed", "error"}
  /\ state' = "After-Activity" /\ UNCHANGED sock /\ Steady

Incomplete ==
  /\ AfterActivity("incomplete")
  /\ Walk(check_next_socket_activity(sock)) /\ Steady

CancelAll ==
  /\ SocketActivity("exception") \/ AfterActivity("closed") \/ AfterActivity("error")
  /\ Walk(check_next_socket_activity(Cancel(sock))) /\ Steady

(* schedule_non_blocking_select.  What select found, and how far the walk   *)
(* was, is not looked at again.                                             *)
WalkEnds ==
  /\ SocketActivity("no_active_request")
  /\ state' = "Getting-Event" /\ polling' = 1 /\ walking' = FALSE
  /\ sock' = [sock EXCEPT !.rin = {}, !.rout = {}, !.rerr = {}, !.newtop = 0, !.delwalk = FALSE]
  /\ UNCHANGED <<the_next_event, activity, sent, asked>>

(* The shutdown event, from the application, or from the kernel when a      *)
(* polling function failed: request_shutdown, destroy_all_requests and      *)
(* terminate_the_thread.                                                    *)
Shutdown ==
  /\ GettingEvent
  /\ state' = "Stopped" /\ the_next_event' = "terminate" /\ polling' = 0
  /\ sock' = [EndAll(sock, AllOf(sock))
                EXCEPT !.count = 0, !.waiting = {}]
  /\ UNCHANGED <<walking, activity, sent, asked>>

Internal == MoveData \/ ReplyOk \/ confirm_socket_connected \/ close_the_socket
            \/ Incomplete \/ CancelAll \/ WalkEnds

-----------------------------------------------------------------------------
(* What else runs: the kernel calls the two functions that look for         *)
(* activity, and the timer agent sends its answers.                         *)

(* sock_select: nothing, or some of what was asked for.                     *)
Selected(s) ==
  {[s EXCEPT !.rin = x[1], !.rout = x[2], !.rerr = x[3]] :
     x \in {x \in (SUBSET s.fin) \X (SUBSET s.fout) \X (SUBSET s.ferr) :
              Cardinality(x[1]) + Cardinality(x[2]) + Cardinality(x[3]) =< MaxReady}}

Nothing(s) == s.rin \cup s.rout \cup s.rerr = {}

check_activity_nonblock ==
  /\ polling > 0 /\ state # "Stopped"
  /\ \/ /\ sock.top = 0
        /\ sock' = [sock EXCEPT !.rin = sock.fin, !.rout = sock.fout, !.rerr = sock.ferr]
        /\ UNCHANGED <<walking, activity, polling>>
     \/ /\ sock.top > 0 /\ sock' \in Selected(sock)
        /\ \/ /\ Nothing(sock')
              /\ polling' = IF polling < MAX_POLLING_INTERVAL THEN polling + 1 ELSE polling
              /\ UNCHANGED <<walking, activity>>
           \/ /\ ~Nothing(sock')
              /\ activity' = (activity \/ ~walking)
              /\ walking' = TRUE /\ polling' = 0
  /\ UNCHANGED <<state, the_next_event, sent, asked>>

(* The housekeeping before the agent blocks.                                *)
HousekeepAt(s, p) ==
  IF p > 1 /\ s.main[p - 1].handle = s.main[p].handle THEN s
  ELSE [MergeAt(s, p) EXCEPT !.newtop = Larger(s.main[p].handle, @)]

HousekeepStep(s, p) ==
  IF (s.count > 0 \/ s.deleted) /\ p =< Len(s.main) THEN HousekeepAt(s, p) ELSE s

Housekeeping(s) ==
  LET k[p \in 0 .. Bound(s)] == IF p = 0 THEN s ELSE HousekeepStep(k[p - 1], p)
  IN  k

Settled(t) == IF t.deleted THEN [t EXCEPT !.top = t.newtop, !.deleted = FALSE] ELSE t

Housekept(s) == Settled(Housekeeping([s EXCEPT !.newtop = 0])[Bound(s)])

SelectBlocks(s) ==
  \/ sock' = s /\ s.top = 0 /\ UNCHANGED <<activity, walking>>
  \/ /\ sock' \in Selected(s)
     /\ activity' = ~Nothing(sock')
     /\ walking' = (walking \/ ~Nothing(sock'))

(* Called when there is nothing else to do: no event waits.                 *)
wait_for_activity_blocking ==
  /\ GettingEvent /\ ~activity /\ sent = {}
  /\ SelectBlocks(Housekept(sock))
  /\ UNCHANGED <<state, the_next_event, polling, sent, asked>>

Alarm(id) ==
  /\ id \in sock.alarms
  /\ sock' = [sock EXCEPT !.alarms = @ \ {id}]
  /\ sent' = sent \cup {id}
  /\ UNCHANGED <<state, the_next_event, walking, activity, polling, asked>>

SNext ==
  \/ \E h \in Handle : (\E a \in Ask[h] : AskSocket(h, a)) \/ (\E b \in BOOLEAN : Flush(h, b))
  \/ \E id \in 1 .. MaxRequests : Timeout(id) \/ Alarm(id)
  \/ Activity \/ Internal \/ Shutdown
  \/ check_activity_nonblock \/ wait_for_activity_blocking

SSpec == SInit /\ [][SNext]_svars

-----------------------------------------------------------------------------
(* Properties.                                                              *)

Handles(list) == {r.handle : r \in Requests(list)}

(* Every request in wait_list has one on its socket in main_list: without   *)
(* that it is never merged, and nothing finds it again, not its timeout     *)
(* either.  It is so unless a CLOSE is given a timeout.                       *)
WaitersReachable == Handles(sock.wait) \subseteq Handles(sock.main)

(* The lists are as the comment that opens smtsock.c says: main_list by     *)
(* socket, output before input, in the order of reception; every request in *)
(* wait_list has one on its socket in main_list; fd_waiting and wait_count  *)
(* agree with it; and the pointers point to requests in main_list.          *)
ListsAsDescribed ==
  /\ \A p, q \in DOMAIN sock.main :
       p < q /\ sock.main[p].handle = sock.main[q].handle =>
         /\ \A j \in p .. q : sock.main[j].handle = sock.main[p].handle
         /\ request_is_input(sock.main[p]) => request_is_input(sock.main[q])
         /\ request_is_input(sock.main[p]) \/ request_is_output(sock.main[q])
              => sock.main[p].id < sock.main[q].id
  /\ WaitersReachable
  /\ sock.waiting = Handles(sock.wait) /\ sock.count = Len(sock.wait)
  /\ sock.current \in {EndOfList} \cup {sock.main[p].id : p \in DOMAIN sock.main}
  /\ state \in {"Socket-Activity", "After-Activity"} =>
       sock.active \in {EndOfList} \cup {sock.main[p].id : p \in DOMAIN sock.main}

(* select watches for every request but the one just at work, on a socket   *)
(* that is within its range, and outside a walk for no socket without one.  *)
EveryRequestWatched ==
  state # "Stopped" =>
    /\ \A r \in AllOf(sock) :
         r.id # sock.active \/ GettingEvent =>
           /\ r.handle \in sock.ferr \cap (IF request_is_input(r) THEN sock.fin ELSE sock.fout)
           /\ r.handle =< Larger(sock.top, sock.newtop)
    /\ GettingEvent => /\ sock.ferr = Handles(sock.main)
                       /\ sock.ferr = sock.fin \cup sock.fout
                       /\ \A h \in sock.ferr : h =< sock.top

RequestsWatched == ListsAsDescribed /\ EveryRequestWatched

(* Every request is in a list or has ended, once: answered, flushed, or     *)
(* destroyed by a shutdown.                                                 *)
EndsOnce ==
  \A n \in 1 .. asked : sock.answers[n] = IF n \in Ids(sock) THEN 0 ELSE 1
=============================================================================
