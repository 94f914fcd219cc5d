------------------------------ MODULE SmtTran ------------------------------
(***************************************************************************)
(* The transfer agent (libsmt/smttran.c): blocks and files sent and        *)
(* received over sockets for others.                                       *)
(*                                                                         *)
(* The master thread keeps a list of the block requests.  It asks the      *)
(* socket agent for all it can ask, without waiting, and finds the request *)
(* an answer of the socket agent belongs to by its number.  A file has a   *)
(* thread of its own.  Each event is handled in one step.  The hazards are *)
(* the answers: they come in the order of the sockets, they may be for a   *)
(* request that is gone, and the end of a socket answers all that was asked *)
(* of it, one after the other.                                             *)
(*                                                                         *)
(* The transfers are one record, tran.  A byte of a file is a code; what   *)
(* goes over a socket is a sequence of units: a block has one for its      *)
(* header and one for each part of its body.                               *)
(***************************************************************************)
EXTENDS Integers, Sequences, FiniteSets, SequencesExt

CONSTANTS NULL,
  Sockets,
  Plans,            \* what the clients ask for, one after the other: records with a kind
  Blocks,           \* the sizes of the blocks the peers send, for each socket
  Stream,           \* and the bytes of a file
  BUFFER_SIZE       \* of file transfers

VARIABLE tran

(* What is asked for is for one of the sockets.                             *)
Kinds == {"putb", "puth", "getb", "geth", "putf", "getf", "commit", "pipe", "clear"}

GoodTransfers ==
  \A plan \in Plans :
    /\ plan = [i \in 1 .. Len(plan) |-> plan[i]]
    /\ \A i \in DOMAIN plan :
         /\ plan[i].kind \in Kinds
         /\ plan[i].kind \in {"putb", "puth", "getb", "geth", "putf", "getf"} => plan[i].socket \in Sockets

Puts == {"putb", "puth"}
Gets == {"getb", "geth"}
Huge == {"puth", "geth"}

LF    == "LF"
CR    == "CR"
CtrlZ == "CtrlZ"

Header(n)  == [of |-> n, part |-> 0]
Body(n, k) == [i \in 1 .. k |-> [of |-> n, part |-> i]]

Incoming(h) ==
  FlattenSeq([n \in DOMAIN Blocks[h] |-> <<[of |-> n, part |-> 0, size |-> Blocks[h][n]]>> \o Body(n, Blocks[h][n])])
    \o Stream[h]

TranInit == \E plan \in Plans :
  tran = [plan |-> plan,
          asked |-> << >>,            \* the requests made
          answers |-> << >>,          \* [to, kind, data], as they were sent
          requests |-> {},            \* of the master thread, listed in the order of their numbers
          pipes |-> {}, commit |-> NULL, fileio_threads |-> 0,
          threads |-> << >>,          \* of the files
          disk |-> << >>,             \* what was received into files
          socks |-> [h \in Sockets |->
                      [state |-> "open", writes |-> << >>, reads |-> << >>,
                       out |-> << >>, incoming |-> Incoming(h)]]]

Answer(t, n, kind, data) == [t EXCEPT !.answers = Append(@, [to |-> n, kind |-> kind, data |-> data])]
Raise(t, n) == Answer(t, n, "error", << >>)

Write(t, h, n, units)   == [t EXCEPT !.socks[h].writes = Append(@, [id |-> n, units |-> units])]
Read(t, h, n, min, max) == [t EXCEPT !.socks[h].reads = Append(@, [id |-> n, min |-> min, max |-> max])]

-----------------------------------------------------------------------------
(* The block requests of the master thread.                                *)

(* A request names its pipe; the credits of a pipe are zero from its        *)
(* creation on, because nobody asks for the alarms that would refresh them. *)
request_create(t, n, a) ==
  [t EXCEPT !.requests = @ \cup
     {[id |-> n, sending |-> a.kind \in Puts, huge |-> a.kind \in Huge, handle |-> a.socket,
       size |-> a.size, in_header |-> TRUE, in_progress |-> FALSE,
       pipe |-> IF t.pipes /= NULL /\ a.pipe \in t.pipes THEN a.pipe ELSE NULL]}]

put_request(t, r) == Write(Write(t, r.handle, r.id, <<Header(r.id)>>), r.handle, r.id, Body(r.id, r.size))

get_request(t, r) ==
  IF r.in_header THEN Read(t, r.handle, r.id, 1, 1) ELSE Read(t, r.handle, r.id, r.size, r.size)

request_lookup(t, n) == {r \in t.requests : r.id = n}
Found(t, n) == CHOOSE r \in request_lookup(t, n) : TRUE

(* What has no pipe is started.  The pipe of a request may have been freed  *)
(* by then: the ones of lucky read a positive credit there.                 *)
Ready(r, lucky) == ~r.in_progress /\ (r.pipe = NULL \/ r.id \in lucky)

Start(t, n, lucky) ==
  LET r == Found(t, n)
  IN  IF request_lookup(t, n) = {} \/ ~Ready(r, lucky) THEN t
      ELSE IF r.sending THEN put_request(t, r) ELSE get_request(t, r)

Starting(t, lucky) ==
  LET s[n \in 0 .. Len(t.asked)] == IF n = 0 THEN t ELSE Start(s[n - 1], n, lucky)
  IN  s

process_transfer_requests(t, lucky) ==
  [Starting(t, lucky)[Len(t.asked)] EXCEPT
     !.requests = {[r EXCEPT !.in_progress = r.in_progress \/ Ready(r, lucky)] : r \in t.requests}]

Dangling(t) == {r.id : r \in {q \in t.requests : q.pipe /= NULL /\ t.pipes = NULL}}

request_destroy(t, n) == [t EXCEPT !.requests = {r \in @ : r.id /= n}]

destroy_socket_requests(t, h) == [t EXCEPT !.requests = {r \in @ : r.handle /= h}]

Become(t, r, q) == [t EXCEPT !.requests = (@ \ {r}) \cup {q}]

(* After a header the body is asked for; the second answer to a put and the *)
(* body of a get are passed on.                                             *)
update_request_after_write(t, n) ==
  LET r == Found(t, n)
  IN  IF request_lookup(t, n) = {} THEN t
      ELSE IF r.in_header THEN Become(t, r, [r EXCEPT !.in_header = FALSE])
      ELSE request_destroy(Answer(t, n, IF r.huge THEN "puth_ok" ELSE "putb_ok", << >>), n)

update_request_after_read(t, n, units) ==
  LET r == Found(t, n)
  IN  IF request_lookup(t, n) = {} THEN t
      ELSE IF r.in_header
      THEN Become(t, r, [r EXCEPT !.size = units[1].size, !.in_header = FALSE, !.in_progress = FALSE])
      ELSE request_destroy(Answer(t, n, IF r.huge THEN "geth_ok" ELSE "getb_ok", units), n)

update_request_after_closed(t, n) ==
  IF request_lookup(t, n) = {} THEN t
  ELSE destroy_socket_requests(Answer(t, n, "closed", << >>), Found(t, n).handle)

update_request_after_error(t, n) ==
  IF request_lookup(t, n) = {} THEN t ELSE request_destroy(Raise(t, n), n)

(* Mutant: a commit does not wait for the blocks.                           *)
CommitEarly(t, n) ==
  LET u == [t EXCEPT !.commit = IF @ = NULL THEN n ELSE @]
  IN  IF t.fileio_threads = 0
      THEN [Answer(u, u.commit, "closed", << >>) EXCEPT !.commit = NULL] ELSE u

(* The first who asks for a commit is kept, and answered as soon as one is  *)
(* asked for while there is nothing to do.                                  *)
okay_if_no_requests_left(t, n) ==
  LET u == [t EXCEPT !.commit = IF @ = NULL THEN n ELSE @]
  IN  IF t.requests = {} /\ t.fileio_threads = 0
      THEN [Answer(u, u.commit, "closed", << >>) EXCEPT !.commit = NULL] ELSE u

create_transfer_pipe(t, name) == IF t.pipes = NULL THEN t ELSE [t EXCEPT !.pipes = @ \cup {name}]

(* The table is never made again.                                           *)
destroy_all_transfer_pipes(t) == [t EXCEPT !.pipes = NULL]

-----------------------------------------------------------------------------
(* The files.  A thread that is done has the number 0.                      *)

(* Ends of lines on their way to the net and back.                          *)
file_set_eoln(s, add_cr) ==
  FlattenSeq([i \in DOMAIN s |-> CASE s[i] = LF /\ add_cr -> <<CR, LF>>
                                   [] s[i] \in {CR, CtrlZ} -> << >>
                                   [] OTHER -> <<s[i]>>])
Converted(f, s, add_cr) == IF f.ascii THEN file_set_eoln(s, add_cr) ELSE s

Running(t) == {k \in DOMAIN t.threads : t.threads[k].id /= 0}

Finish(t, k) == [t EXCEPT !.threads[k].id = 0]

(* signal_fatal_error ends the thread; the thread is counted on.            *)
signal_fatal_error(t, k) == Finish(Raise(t, t.threads[k].id), k)

Done(t, k, kind, data) ==
  Finish([Answer(t, t.threads[k].id, kind, data) EXCEPT !.fileio_threads = @ - 1], k)

(* read_file_data_buffer, convert_ascii_to_net_if_reqd, put_buffer_to_socket. *)
SendBuffer(t, k) ==
  LET f    == t.threads[k]
      want == IF f.end > 0 THEN f.end - f.filesize + 1 ELSE BUFFER_SIZE
      left == Len(f.content) - f.at
      size == Min({BUFFER_SIZE, left, IF want < 0 THEN 0 ELSE want})
      text == Converted(f, SubSeq(f.content, f.at + 1, f.at + size), TRUE)
  IN  IF size = 0 THEN Done(t, k, "putf_ok", <<f.filesize>>)
      ELSE Write([t EXCEPT !.threads[k] = [f EXCEPT !.at = @ + size, !.filesize = @ + Len(text)]],
                 f.handle, f.id, text)

(* What arrives is written as far as maxsize allows; all of it is counted.  *)
write_file_data_buffer(t, k, units) ==
  LET f    == t.threads[k]
      text == Converted(f, units, FALSE)
      room == f.maxsize - f.filesize
      kept == IF Len(text) <= room THEN text ELSE SubSeq(text, 1, room)
  IN  [t EXCEPT !.threads[k].filesize = @ + Len(text),
                !.disk[k] = @ \o kept]

GetBuffer(t, k) == Read(t, t.threads[k].handle, t.threads[k].id, 1, BUFFER_SIZE)

(* create_put_file_thread and create_get_file_thread, with the first step   *)
(* of the thread; ok says whether the file can be opened.                   *)
StartFile(t, n, a, ok) ==
  LET k == Len(t.threads) + 1
      u == [t EXCEPT !.fileio_threads = @ + 1,
                     !.threads = Append(@, [id |-> n, kind |-> a.kind, handle |-> a.socket, ascii |-> a.ascii,
                                            content |-> a.content, at |-> a.start, end |-> a.end,
                                            maxsize |-> a.maxsize, filesize |-> 0]),
                     !.disk = Append(@, << >>)]
  IN  CASE ~ok -> signal_fatal_error(u, k)
        [] ok /\ a.kind = "putf" -> SendBuffer(u, k)
        [] ok /\ a.kind = "getf" -> GetBuffer(u, k)

-----------------------------------------------------------------------------
(* Requests.  The callers of the agent have one get at a time on a socket,  *)
(* and send a file when nothing else of theirs is on the way on it.         *)
Outstanding(t, h) == t.socks[h].writes /= << >> \/ t.socks[h].reads /= << >>

May(t, a) ==
  /\ a.kind \in Gets => \A r \in t.requests : r.handle = a.socket => r.sending
  /\ a.kind \in {"putf", "getf"} => ~Outstanding(t, a.socket)
  /\ a.kind \in Puts \cup Gets => \A k \in Running(t) : t.threads[k].handle /= a.socket

Process(t) == \E lucky \in SUBSET Dangling(t) : tran' = process_transfer_requests(t, lucky)

AskTransfer ==
  LET n == Len(tran.asked) + 1
      a == Head(tran.plan)
      t == [tran EXCEPT !.asked = Append(@, a), !.plan = Tail(@)]
  IN  /\ tran.plan /= << >> /\ May(tran, a)
      /\ \/ a.kind \in Puts \cup Gets /\ Process(request_create(t, n, a))
         \/ a.kind \in {"putf", "getf"} /\ \E ok \in BOOLEAN : Process(StartFile(t, n, a, ok))
         \/ a.kind = "commit" /\ Process(okay_if_no_requests_left(t, n))
         \/ a.kind = "pipe"   /\ Process(create_transfer_pipe(t, a.pipe))
         \/ a.kind = "clear"  /\ Process(destroy_all_transfer_pipes(t))

(* Answers of the socket agent: the master thread's block request, or the   *)
(* thread of the file.                                                      *)
ThreadOf(t, n) == {k \in Running(t) : t.threads[k].id = n}

Written(h) ==
  LET s == tran.socks[h]
  IN  [tran EXCEPT !.socks[h] = [s EXCEPT !.writes = Tail(s.writes), !.out = s.out \o Head(s.writes).units]]

SockWrite(h) ==
  LET w == Head(tran.socks[h].writes)
      t == Written(h)
  IN  /\ tran.socks[h].state = "open" /\ tran.socks[h].writes /= << >>
      /\ \/ ThreadOf(t, w.id) = {} /\ Process(update_request_after_write(t, w.id))
         \/ \E k \in ThreadOf(t, w.id) : tran' = SendBuffer(t, k)

Received(h, m) ==
  LET s == tran.socks[h]
  IN  [tran EXCEPT !.socks[h] = [s EXCEPT !.reads = Tail(s.reads),
                                          !.incoming = SubSeq(s.incoming, m + 1, Len(s.incoming))]]

SockRead(h) ==
  LET s == tran.socks[h]
      r == Head(s.reads)
  IN  /\ s.state = "open" /\ s.reads /= << >>
      /\ \E m \in r.min .. Min({r.max, Len(s.incoming)}) :
           LET t     == Received(h, m)
               units == SubSeq(s.incoming, 1, m)
           IN  \/ ThreadOf(t, r.id) = {} /\ Process(update_request_after_read(t, r.id, units))
               \/ \E k \in ThreadOf(t, r.id) : tran' = GetBuffer(write_file_data_buffer(t, k, units), k)

(* A socket ends, and with it everything asked of it: the requests are      *)
(* answered in their order.  A get-file ends well when its socket closes.   *)
(* The agent does not notice the end of a socket it asks nothing of.        *)
Ended(t, n, how) ==
  LET k == CHOOSE j \in ThreadOf(t, n) : TRUE
      kind == t.threads[k].kind
  IN  IF ThreadOf(t, n) = {}
      THEN IF how = "closed" THEN update_request_after_closed(t, n) ELSE update_request_after_error(t, n)
      ELSE IF how = "closed" /\ kind = "getf" THEN Done(t, k, "getf_ok", <<t.threads[k].filesize>>)
           ELSE Done(t, k, how, << >>)

Ending(t, all, how) ==
  LET e[i \in 0 .. Len(all)] == IF i = 0 THEN t ELSE Ended(e[i - 1], all[i].id, how)
  IN  e

EndAll(h, how) ==
  LET s   == tran.socks[h]
      all == s.writes \o s.reads
      t   == [tran EXCEPT !.socks[h] = [@ EXCEPT !.state = how, !.writes = << >>, !.reads = << >>]]
  IN  Process(Ending(t, all, how)[Len(all)])

SockEnd(h, how) == tran.socks[h].state = "open" /\ Outstanding(tran, h) /\ EndAll(h, how)

(* What is asked of a socket after its end.                                 *)
SockGone(h) == tran.socks[h].state /= "open" /\ Outstanding(tran, h) /\ EndAll(h, tran.socks[h].state)

(* A file that cannot be read on, or written, after the answer of a socket. *)
FileFails(k) ==
  LET f == tran.threads[k]
      s == tran.socks[f.handle]
  IN  /\ s.state = "open"
      /\ \/ /\ f.kind = "putf" /\ s.writes /= << >> /\ Head(s.writes).id = f.id
            /\ tran' = signal_fatal_error(Written(f.handle), k)
         \/ /\ f.kind = "getf" /\ s.reads /= << >> /\ Head(s.reads).id = f.id /\ s.incoming /= << >>
            /\ tran' = signal_fatal_error(Received(f.handle, 1), k)

TranNext ==
  \/ AskTransfer
  \/ \E h \in Sockets : SockWrite(h) \/ SockRead(h) \/ SockGone(h) \/ \E how \in {"closed", "error"} : SockEnd(h, how)
  \/ \E k \in Running(tran) : FileFails(k)

TranSpec == TranInit /\ [][TranNext]_tran

-----------------------------------------------------------------------------
AnswersTo(n) == {i \in DOMAIN tran.answers : tran.answers[i].to = n}
KindOf(n)    == tran.asked[n].kind
OkOf == [putb |-> "putb_ok", puth |-> "puth_ok", getb |-> "getb_ok", geth |-> "geth_ok",
         putf |-> "putf_ok", getf |-> "getf_ok"]
BlockAsks    == {n \in DOMAIN tran.asked : KindOf(n) \in Puts \cup Gets}
FileAsks     == {n \in DOMAIN tran.asked : KindOf(n) \in {"putf", "getf"}}
Waiting(n)   == request_lookup(tran, n) /= {} \/ ThreadOf(tran, n) /= {}

(* smttran.c:850: nobody is answered twice or with the answer of another,   *)
(* and who is neither answered nor waiting asked for a block on a socket    *)
(* that closed while another request on it was answered.                    *)
AnsweredOnce ==
  \A n \in BlockAsks \cup FileAsks :
    /\ \A i \in AnswersTo(n) : /\ AnswersTo(n) = {i} /\ ~Waiting(n)
                               /\ tran.answers[i].kind \in {OkOf[KindOf(n)], "closed", "error"}
    /\ AnswersTo(n) = {} /\ ~Waiting(n) =>
         /\ n \in BlockAsks /\ tran.socks[tran.asked[n].socket].state = "closed"
         /\ \E m \in BlockAsks : \E i \in AnswersTo(m) :
              tran.asked[m].socket = tran.asked[n].socket /\ tran.answers[i].kind = "closed"

(* Nobody waits for nothing: a request or a file that is not answered yet   *)
(* has something to come from its socket, or a pipe.                        *)
SomethingToCome ==
  \A n \in BlockAsks \cup FileAsks :
    LET s == tran.socks[tran.asked[n].socket]
        piped == \E r \in request_lookup(tran, n) : r.pipe /= NULL
    IN  Waiting(n) /\ ~piped => n \in {s.writes[i].id : i \in DOMAIN s.writes} \cup {s.reads[i].id : i \in DOMAIN s.reads}

(* smttran.c:545: blocks go out whole and one after the other, in the order *)
(* in which they were asked for, those of freed pipes aside; who is told so *)
(* has its last part on the way.                                            *)
BlocksWhole ==
  \A h \in {tran.asked[n].socket : n \in {m \in BlockAsks : KindOf(m) \in Puts}} :
    LET out == tran.socks[h].out
    IN  /\ \A i \in DOMAIN out \ {1} :
             IF out[i].part = 0 THEN out[i - 1].part = tran.asked[out[i - 1].of].size
             ELSE out[i].of = out[i - 1].of /\ out[i].part = out[i - 1].part + 1
        /\ \A i, j \in DOMAIN out :
             i < j /\ out[j].of <= out[i].of /\ out[j].part = 0 =>
               out[j].of < out[i].of /\ tran.asked[out[j].of].pipe /= NULL
        /\ \A n \in BlockAsks : \A i \in AnswersTo(n) :
             tran.answers[i].kind \in {"putb_ok", "puth_ok"} /\ tran.asked[n].socket = h =>
               \E j \in DOMAIN out : out[j] = [of |-> n, part |-> tran.asked[n].size]

(* smttran.c:705: the blocks that were received are those the peer sent, in *)
(* order and whole, each given to one who asked.                            *)
BlocksReceived ==
  \A h \in Sockets :
    LET got == SelectSeq(tran.answers, LAMBDA x : x.kind \in {"getb_ok", "geth_ok"} /\ tran.asked[x.to].socket = h)
    IN  \A i \in DOMAIN got : got[i].data = Body(i, Blocks[h][i])

(* smttran.c:1405: who is told that everything was sent was told after      *)
(* everybody who asked before; and a commit never overlooks a file.         *)
CommitWaits ==
  /\ tran.fileio_threads >= Cardinality(Running(tran))
  /\ \A p \in DOMAIN tran.answers :
       KindOf(tran.answers[p].to) = "commit" =>
         \A n \in BlockAsks \cup FileAsks :
           n < tran.answers[p].to => (\E q \in AnswersTo(n) : q < p) \/ AnswersTo(n) = {}
  /\ tran.commit = NULL \/ AnswersTo(tran.commit) = {}

(* A file arrives as it is, or with the ends of its lines converted, and as *)
(* long as was said, whatever the pieces it came in; of what is received    *)
(* the first maxsize bytes are kept.  (For sockets with one file.)          *)
FilesArrive ==
  \A k \in DOMAIN tran.threads :
    LET n == CHOOSE m \in FileAsks : Cardinality({j \in FileAsks : j < m}) = k - 1
        a == tran.asked[n]
        s == tran.socks[a.socket]
        part == IF a.end = 0 THEN a.content ELSE SubSeq(a.content, 1, Min({Len(a.content), a.end + 1}))
        read == Converted(a, SubSeq(Stream[a.socket], 1, Len(Stream[a.socket]) - Len(s.incoming)), FALSE)
        failed == \E i \in AnswersTo(n) : tran.answers[i].kind = "error"
    IN  (\A m \in FileAsks : tran.asked[m].socket = a.socket => m = n) =>
        /\ a.kind = "putf" => \A i \in AnswersTo(n) :
             tran.answers[i].kind = "putf_ok" /\ (a.end = 0 \/ ~a.ascii) =>
               /\ tran.answers[i].data = <<Len(s.out)>>
               /\ a.start = 0 => s.out = Converted(a, part, TRUE)
        /\ a.kind = "getf" /\ ~failed =>
             tran.disk[k] = SubSeq(read, 1, Min({Len(read), a.maxsize}))
=============================================================================
