----------------------------- MODULE MCLibrary -----------------------------
(***************************************************************************)
(* The parts of the libraries that run by themselves, for model checking:  *)
(* every behaviour is of one of them, the subject, and the others rest.    *)
(*                                                                         *)
(* tables: three threads of one agent with three states, of which the last *)
(* is the defaults state, and three events.                                 *)
(***************************************************************************)
EXTENDS SmtDialog, SmtSending, SmtSock, SflDate

CONSTANTS t1, t2, t3

(* State 0 takes event 0; state 1 takes nothing itself; the defaults state *)
(* stays on event 0 and goes to state 1 on event 1; nothing takes event 2.  *)
Actions ==
  [i \in (0 .. 2) \X (0 .. 2) |->
     CASE i = <<0, 0>> -> 1 [] i = <<2, 0>> -> 2 [] i = <<2, 1>> -> 3 [] OTHER -> 0]
NextStates ==
  [i \in (0 .. 2) \X (0 .. 2) |->
     CASE i = <<0, 0>> -> 1 [] i = <<2, 0>> -> 2 [] i = <<2, 1>> -> 1
       [] i = <<2, 2>> -> 2 [] OTHER -> 0]
Three == 0 .. 2
Good  == {-1, 0, 1, 2, 4}
None  == -1

(* messages: of the agents and of the GSL interpreter, with all             *)
(* combinations of missing, empty and other strings, and data around the    *)
(* largest sizes.                                                           *)
Texts(body) == {i \in DOMAIN body : body[i].kind = "text"}

Arg(body, i) ==
  CASE body[i].kind = "value" -> {100 + i}
    [] body[i].kind = "text"  -> {NULL, <<i, 1>>} \cup (IF Cardinality(Texts(body)) > 4 THEN {}
                                                        ELSE {<< >>})
    [] body[i].kind = "data"  -> {NULL, << >>, <<0>>, <<i, 0>>, [j \in 1 .. body[i].range |-> i],
                                  [j \in 1 .. body[i].range + 1 |-> i]}

ArgsOf(body) ==
  LET More(S, i) == {Append(s, x) : s \in S, x \in Arg(body, i)}
  IN  FoldLeftDomain(More, {<< >>}, body)

(* bits: two sections of four bytes of two bits, in blocks of two bytes.    *)
BitsUsed == {0, 1, 2, 8, 9}

(* symbols: three names in two buckets.                                     *)
BucketOf(n) == n % 2

(* dates: over the ends of years and of February, to the last day of 1999,  *)
(* from the first of 2001, and to the last year before 2100.                *)
StartDates == {<<1980, 1, 1>>, <<1995, 12, 30>>, <<1998, 11, 26>>,
               <<2001, 1, 1>>, <<2003, 11, 30>>, <<2096, 2, 20>>}
TimesUsed  == {<<0, 0, 0, 0>>, <<23, 59, 59, 99>>, <<12, 30, 1, 5>>}
IntervalsUsed == {0, 1, 100, 8639999}

(* codes: runs on both sides of every length that changes the code, line    *)
(* breaks and special characters, and strings without runs.                 *)
Run(b, n) == [i \in 1 .. n |-> b]
Mixed(n)  == [i \in 1 .. n |-> (i * 37) % 256]
Segments ==
  {Run(b, n) : b \in {0, 32, 7}, n \in 1 .. 4} \cup {Run(b, n) : b \in {0, 7}, n \in {127, 128, 256}}
    \cup {Run(0, 255), Run(32, 255), Run(32, 256), Run(200, 15), Mixed(16), Mixed(40), Mixed(127)}
    \cup {Run(b, 1) : b \in {10, 13, 37, 43, 255}}
HashOf(a, b, c) == (a + b + c) % 5

(* sockets: three requests, of most kinds for the first, to connect or to   *)
(* wait for output on the second, which is alive.                           *)
HandlesUsed == 1 .. 2
OpenUsed    == {2}
An(t) == [type |-> t, repeat |-> FALSE, timed |-> t = "write"]
AskUsed ==
  <<{An(t) : t \in {"write", "input", "close"}} \cup {[An("read") EXCEPT !.repeat = TRUE]},
    {An("connect"), An("output")}>>

(* transfers: blocks on one socket, a file sent on the second and one       *)
(* received on the third, in plans that mix requests, pipes and commits.    *)
BlockOf(k, p, z) == [kind |-> k, socket |-> "s1", pipe |-> p, size |-> z]
FileOf(k, st, e, asc, c, mx) ==
  [kind |-> k, socket |-> IF k = "putf" THEN "s2" ELSE "s3", pipe |-> NULL, size |-> 0,
   start |-> st, end |-> e, ascii |-> asc, content |-> c, maxsize |-> mx]
Commit == [kind |-> "commit"]
Pipe   == [kind |-> "pipe", pipe |-> "p"]
Clear  == [kind |-> "clear"]
BlocksUsed ==
  {BlockOf("putb", NULL, 1), BlockOf("puth", "p", 2), BlockOf("getb", NULL, 0), BlockOf("geth", NULL, 0), Commit}
FilesUsed ==
  {FileOf("putf", 0, e, asc, <<"a", "LF", "b", "CR", "LF">>, 0) : e \in {0, 1, 3}, asc \in BOOLEAN}
    \cup {FileOf("putf", 2, 1, FALSE, <<"a", "LF", "b", "c", "LF">>, 0)}
    \cup {FileOf("getf", 0, 0, asc, << >>, mx) : mx \in {3, 9}, asc \in BOOLEAN}
PlansUsed ==
  {<<f, Commit>> : f \in FilesUsed} \cup {<<f, FileOf("getf", 0, 0, TRUE, << >>, 2), Commit>> : f \in FilesUsed}
    \cup {<<a, b, c>> : a \in BlocksUsed, b \in BlocksUsed, c \in BlocksUsed}
    \cup {<<Pipe, a, Clear, b>> : a \in BlocksUsed \cup {Pipe, Clear}, b \in BlocksUsed \cup {Pipe, Clear}}
    \cup {<<a, b, Commit, Commit>> : a \in BlocksUsed \cup {Pipe, Clear}, b \in BlocksUsed \cup {Pipe, Clear} \cup FilesUsed}
PeerBlocks == [s1 |-> <<2, 1>>, s2 |-> << >>, s3 |-> << >>]
PeerStream == [s1 |-> << >>, s2 |-> << >>, s3 |-> <<"a", "CR", "LF", "b">>]

(* manager: one task with two clients, one with a client that goes wrong    *)
(* first and with time slots, two tasks of which both are required, a       *)
(* client that halts the system and leaves, and a client that refreshes a   *)
(* task another one could not stop.                                         *)
Command(op, arg) == [op |-> op, arg |-> arg]
Setup(required, restart, slots) == [required |-> required, restart |-> restart, slots |-> slots]
PlanOf(setup, script, faults, ends, looks, answers, leaves) ==
  [tasks |-> SetToSeq(DOMAIN setup), setup |-> setup, script |-> script, faults |-> faults, ends |-> ends,
   looks |-> looks, answers |-> answers, leaves |-> leaves]
SetupsUsed == {Setup(TRUE, FALSE, FALSE), Setup(FALSE, TRUE, TRUE)}
ManagerPlans ==
  {PlanOf([a |-> x], [c |-> <<Command("start", "a")>>, d |-> <<Command(q, NULL)>>], 1, 1, 0, 2, 0) :
     x \in SetupsUsed, q \in {"stop", "pause"}}
    \cup {PlanOf([a |-> x], [c |-> <<Command(p, "b"), Command("start", "a")>>], 1, 1, 2, 2, 1) :
            x \in SetupsUsed, p \in {"status", "list"}}
    \cup {PlanOf([a |-> x, b |-> Setup(TRUE, TRUE, FALSE)], [c |-> <<Command(p, NULL)>>], 2, 0, 0, 2, 0) :
            x \in SetupsUsed, p \in {"start", "refresh", "halt"}}
    \cup {PlanOf([a |-> x, b |-> x], [c |-> <<Command("halt", NULL)>>], 0, 0, 0, 0, 1) : x \in SetupsUsed}
    \cup {PlanOf([a |-> Setup(TRUE, FALSE, FALSE)],
                 [c |-> <<Command("start", "a"), Command("refresh", NULL)>>, d |-> <<Command("stop", "a")>>], 1, 0, 0, 2, 0)}

-----------------------------------------------------------------------------
VARIABLES
  subject,
  data             \* the variable of a subject whose module is an instance

I == INSTANCE SmtInterfaces
B == INSTANCE SflBits WITH BYTE <- 2, CHUNK <- 2, BIT_SECTSIZE <- 4, BIT_INDEXSIZE <- 2,
                           BIT_DATASIZE <- 2, Bit <- BitsUsed, bits <- data
S == INSTANCE SflSymb WITH Name <- 1 .. 3, Datum <- {"v"}, sym_hash <- BucketOf, MaxSymbols <- 3,
                           table <- data
C == INSTANCE SflCodes WITH Segment <- Segments, MaxSegments <- 2, MaxTransfer <- 20, MaxChanges <- 50,
                            Hash <- HashOf, block <- data

T == INSTANCE SmtTran WITH Sockets <- {"s1", "s2", "s3"}, Plans <- PlansUsed, Blocks <- PeerBlocks,
                           Stream <- PeerStream, BUFFER_SIZE <- 2, tran <- data

Y == INSTANCE SysManager WITH Plans <- ManagerPlans, sys <- data

MessagesUsed == I!Events \cup I!GslEvents

(* The theorems about the system manager, the transfers, the messages, the  *)
(* socket agent and the dates are about plans, messages, requests and dates *)
(* like these.                                                              *)
ASSUME TransfersAssumption == T!GoodTransfers
ASSUME ManagerPlansAssumption == Y!GoodPlans
ASSUME MessagesAssumption == GoodMessages
ASSUME RequestsAssumption == GoodRequests
ASSUME DatesAssumption == GoodDates

tables == <<LR_action, LR_nextst, thread>>

(* What rests is in an initial state.                                       *)
NoData    == data = NULL
NoMessage == event = SMTLIB_SHUTDOWN /\ SendingInit
NoDay     == day = [date |-> <<1980, 1, 1>>, number |-> 0] /\ DateInit

LInit ==
  /\ Init /\ SInit
  /\ \/ subject \in {"tables", "sockets"} /\ NoData /\ NoMessage /\ NoDay
     \/ subject = "messages"  /\ SendingInit /\ NoData /\ NoDay
     \/ subject = "dates"     /\ DateInit /\ NoData /\ NoMessage
     \/ subject = "bits"      /\ B!Init /\ NoMessage /\ NoDay
     \/ subject = "symbols"   /\ S!Init /\ NoMessage /\ NoDay
     \/ subject = "codes"     /\ C!Init /\ NoMessage /\ NoDay
     \/ subject = "transfers" /\ T!TranInit /\ NoMessage /\ NoDay
     \/ subject = "manager"   /\ Y!MInit /\ NoMessage /\ NoDay

LNext ==
  /\ UNCHANGED subject
  /\ \/ subject = "tables"    /\ Next        /\ UNCHANGED <<data, message, svars, day>>
     \/ subject = "messages"  /\ SendingNext /\ UNCHANGED <<data, tables, svars, day>>
     \/ subject = "sockets"   /\ SNext       /\ UNCHANGED <<data, tables, message, day>>
     \/ subject = "dates"     /\ NextDay     /\ UNCHANGED <<data, tables, message, svars>>
     \/ subject = "bits"      /\ B!Next      /\ UNCHANGED <<tables, message, svars, day>>
     \/ subject = "symbols"   /\ S!Next      /\ UNCHANGED <<tables, message, svars, day>>
     \/ subject = "codes"     /\ C!Next      /\ UNCHANGED <<tables, message, svars, day>>
     \/ subject = "transfers" /\ T!TranNext  /\ UNCHANGED <<tables, message, svars, day>>
     \/ subject = "manager"   /\ Y!MNext     /\ UNCHANGED <<tables, message, svars, day>>

LSpec == LInit /\ [][LNext]_<<subject, data, tables, message, svars, day>>

-----------------------------------------------------------------------------
(* Properties that the modules of the tables, messages, sockets and dates   *)
(* state hold in every state; the others while their subject is at work.    *)

(* Bits and symbol tables keep what was put in (SflBits, SflSymb), what was *)
(* encoded is decoded (SflCodes), intervals come back (SflDate), and        *)
(* messages look to the agents and scripts that use them as they do to the  *)
(* library (SmtInterfaces).                                                 *)
StructuresAgree ==
  /\ subject = "bits"     => B!BitsAgree /\ B!BlocksOwned
  /\ subject = "symbols"  => S!SymbolsAgree /\ S!ExportAgrees
  /\ subject = "codes"    => C!CompressionKeeps /\ C!TransfersKeep
  /\ subject = "dates"    => IntervalsAgree
  /\ subject = "messages" => (pc = "put" => I!InterfaceFits(event)) /\ MessageKept

(* The transfer agent sends and receives blocks and files whole, and         *)
(* answers once (SmtTran); the manager watches the tasks that are active,    *)
(* answers its clients and forgets them when they leave (SysManager).        *)
ClientsServed ==
  /\ subject = "transfers" =>
       /\ T!BlocksWhole /\ T!BlocksReceived /\ T!FilesArrive
       /\ T!SomethingToCome /\ T!CommitWaits /\ T!AnsweredOnce
  /\ subject = "manager" =>
       /\ Y!ActiveKnown /\ Y!TasksWatched /\ Y!AnswerToCome /\ Y!TurnsTaken
       /\ Y!ManagerKept /\ Y!NoOrphans
=============================================================================
