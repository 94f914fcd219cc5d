--------------------------- MODULE SmtSock_proofs ---------------------------
(***************************************************************************)
(* The socket agent: for any sockets, any number of requests, and whatever *)
(* the sockets do, as long as what is asked of it is like GoodRequests.    *)
(*                                                                         *)
(* The inductive invariant, SockInv, has three parts.                      *)
(*                                                                         *)
(* Well says what the two lists are like at every moment: in order,        *)
(* without a request twice, with the requests that wait on a socket behind *)
(* those in main_list, counted in wait_count and fd_waiting, within the    *)
(* range of select, and known to the timer agent only if they are there    *)
(* and have a timeout.                                                     *)
(*                                                                         *)
(* AllOk says that the sets fd_in_check, fd_out_check and fd_err_check     *)
(* hold a socket exactly when there is a request of that kind on it.  In   *)
(* a walk the request at work is left out: its socket is not watched until *)
(* the request ends or is found to be incomplete.                          *)
(*                                                                         *)
(* WalkStands is about the walk through main_list.  What is behind its     *)
(* pointer has been merged, is below the bound found so far, and has the   *)
(* active request among it; and the pointer stands at the first request of *)
(* its kind on its socket.  That is what clear_check_* rely on: they look  *)
(* at the next request only to find out whether the socket has another one *)
(* of the kind.                                                            *)
(*                                                                         *)
(* The lemmas go from lists, through what each function of the agent does  *)
(* to the lists and the sets, to the actions.                              *)
(***************************************************************************)
EXTENDS SmtSock, SmtLists_proofs, SequenceTheorems

(* What a request is like: only reads repeat, and none to close is timed.   *)
Request ==
  {r \in [id : 1 .. MaxRequests, type : Types, repeat : BOOLEAN, timed : BOOLEAN,
          handle : Handle, cur : Int] :
     (r.repeat => r.type = "read") /\ (r.type = "close" => ~r.timed)}

Sock ==
  [main : Seq(Request), wait : Seq(Request), count : Int, waiting : SUBSET Handle,
   fin : SUBSET Handle, fout : SUBSET Handle, ferr : SUBSET Handle,
   rin : SUBSET Handle, rout : SUBSET Handle, rerr : SUBSET Handle,
   top : Nat, newtop : Nat, deleted : BOOLEAN, delwalk : BOOLEAN,
   current : Nat, active : Nat,
   alarms : SUBSET (1 .. MaxRequests), answers : [1 .. MaxRequests -> Nat]]

Kin(a, b) == a.handle = b.handle /\ (request_is_input(a) <=> request_is_input(b))

(* The order of main_list, and of wait_list.                                *)
Sorted(list) ==
  \A p, q \in 1 .. Len(list) :
    p < q => /\ list[p].id # list[q].id
             /\ Kin(list[p], list[q]) => list[p].id < list[q].id
             /\ list[p].handle = list[q].handle =>
                  /\ \A j \in p .. q : list[j].handle = list[p].handle
                  /\ request_is_input(list[p]) => request_is_input(list[q])

Ascending(list) == \A p, q \in 1 .. Len(list) : p < q => list[p].id < list[q].id

Pointers(s) == {EndOfList} \cup {r.id : r \in Requests(s.main)}

(* The lists when n requests were asked.                                    *)
InOrder(s, n) ==
  /\ s \in Sock
  /\ Sorted(s.main) /\ Ascending(s.wait)
  /\ \A r \in Requests(s.main), w \in Requests(s.wait) :
       r.id # w.id /\ (r.handle = w.handle => r.id < w.id)
  /\ \A i \in 1 .. MaxRequests : s.answers[i] = IF i > n \/ i \in Ids(s) THEN 0 ELSE 1
  /\ \A i \in Ids(s) : i =< n
  /\ s.current \in Pointers(s)

Counted(s) ==
  /\ s.waiting = Handles(s.wait) /\ s.count = Len(s.wait)
  /\ Handles(s.wait) \subseteq Handles(s.main)

(* What the sets of sockets are like for a socket, when the requests out    *)
(* are left out.                                                            *)
SocketOk(s, h, out) ==
  /\ \A r \in On(h, AllOf(s)) \ out : h \in s.ferr /\ h \in IF request_is_input(r) THEN s.fin ELSE s.fout
  /\ h \in s.fout => \E r \in On(h, AllOf(s)) \ out : request_is_output(r)
  /\ h \in s.fin  => \E r \in On(h, AllOf(s)) \ out :
                       request_is_input(r) \/ (r.type = "close" /\ r \in Requests(s.main))
  /\ h \in s.ferr <=> h \in s.fin \cup s.fout

AllOk(s, out) == \A h \in Handle : SocketOk(s, h, out)

Tops(s) == \A h \in Handles(s.main) : h =< s.top

Timed(s, all, n) ==
  /\ \A i \in s.alarms \cup all : i =< n
  /\ \A r \in AllOf(s) : r.id \in s.alarms \cup all => r.timed

Well(s, n, all) == InOrder(s, n) /\ Counted(s) /\ Tops(s) /\ Timed(s, all, n)

(* In a walk: the requests that are behind current_request.                 *)
Done(s) ==
  {r \in Requests(s.main) : s.current = EndOfList \/ At(s, r.id) < At(s, s.current)}

Passed(s) == \A r \in Done(s) : r.handle =< s.newtop /\ r.handle \notin s.waiting

ActiveBehind(s) == s.active = EndOfList \/ \E r \in Done(s) : r.id = s.active

CurrentFirst(s) ==
  \A c \in Requests(s.main) : c.id = s.current => \A r \in Done(s) : ~Kin(r, c)

SameSocket(s) ==
  \A c, a \in Requests(s.main) : c.id = s.current /\ a.id = s.active => c.handle = a.handle

WalkStands(s, out, exception) ==
  /\ Passed(s) /\ ActiveBehind(s) /\ AllOk(s, out)
  /\ CurrentFirst(s) \/ (exception /\ SameSocket(s))

InWalk == state \in {"Socket-Activity", "After-Activity"}

(* The request at work is not watched, unless it repeats.                   *)
Working(s, id) == {r \in Requests(s.main) : r.id = id /\ ~r.repeat}

AtWork == IF the_next_event \in {"exception", "incomplete"} THEN {} ELSE Working(sock, sock.active)

WalkInv ==
  InWalk =>
    /\ the_next_event = "no_active_request" <=> sock.active = EndOfList
    /\ state = "Socket-Activity" =>
         the_next_event \in {"exception", "no_active_request"}
           \cup {r.type : r \in {r \in Requests(sock.main) : r.id = sock.active}}
    /\ state = "After-Activity" => the_next_event \in {"finished", "incomplete", "closed", "error"}
    /\ WalkStands(sock, AtWork, the_next_event = "exception")

TypeInv ==
  /\ state \in {"Getting-Event", "Socket-Activity", "After-Activity", "Stopped"}
  /\ asked \in 0 .. MaxRequests
  /\ sent \subseteq 1 .. MaxRequests

SockInv ==
  /\ TypeInv
  /\ Well(sock, asked, sent)
  /\ GettingEvent => AllOk(sock, {})
  /\ WalkInv

-----------------------------------------------------------------------------
(* Lists.                                                                   *)

(* Induction up to a bound, over a set of numbers.                          *)
LEMMA UpTo ==
  ASSUME NEW n \in Nat, NEW S, 0 \in S,
         \A i \in 0 .. n - 1 : i \in S => i + 1 \in S
  PROVE  0 .. n \subseteq S
<1> DEFINE Missed == {i \in 0 .. n : i \notin S}
<1>1. SUFFICES ASSUME Missed # {} PROVE FALSE
  OBVIOUS
<1>2. PICK k \in Missed : \A j \in Missed : k <= j
  <2>1. Missed \in SUBSET Nat
    OBVIOUS
  <2> HIDE DEF Missed
  <2> QED BY <1>1, <2>1, SmallestNumber
<1>3. k # 0 /\ k - 1 \in 0 .. n - 1 /\ k - 1 \notin Missed
  BY <1>2
<1>4. k - 1 \in S
  BY <1>3
<1> QED BY <1>2, <1>3, <1>4

(* The recursion of Keeping is well-founded.                                *)
LEMMA KeepingIs ==
  ASSUME NEW list, NEW rs, Len(list) \in Nat
  PROVE  /\ Keeping(list, rs)[0] = << >>
         /\ \A i \in 1 .. Len(list) :
              Keeping(list, rs)[i] = Keep(Keeping(list, rs)[i - 1], list[i], rs)
<1> DEFINE n == Len(list)
           Step(b, i) == IF i = 0 THEN << >> ELSE Keep(b[i - 1], list[i], rs)
           Are(b, m) == b = [i \in 0 .. m |-> Step(b, i)]
           Some == {m \in Nat : \E b : Are(b, m)}
<1>1. 0 \in Some
  <2> DEFINE k0 == [i \in 0 .. 0 |-> << >>]
  <2>1. Are(k0, 0)
    OBVIOUS
  <2> QED BY <2>1
<1>2. ASSUME NEW m \in 0 .. n - 1, m \in Some PROVE m + 1 \in Some
  <2>1. PICK k : Are(k, m)
    BY <1>2
  <2> DEFINE c == [i \in 0 .. m + 1 |-> IF i = m + 1 THEN Keep(k[m], list[i], rs) ELSE k[i]]
  <2>2. \A i \in 0 .. m + 1 : c[i] = Step(c, i)
    <3>1. ASSUME NEW i \in 0 .. m PROVE c[i] = Step(c, i)
      <4>1. c[i] = Step(k, i)
        BY <2>1
      <4>2. i # 0 => c[i - 1] = k[i - 1]
        OBVIOUS
      <4> QED BY <4>1, <4>2
    <3>2. c[m + 1] = Step(c, m + 1)
      OBVIOUS
    <3>3. \A i \in 0 .. m + 1 : i \in 0 .. m \/ i = m + 1
      OBVIOUS
    <3> HIDE DEF c, Step
    <3> QED BY <3>1, <3>2, <3>3
  <2>3. Are(c, m + 1)
    <3>1. c = [i \in 0 .. m + 1 |-> c[i]]
      OBVIOUS
    <3> HIDE DEF c, Step
    <3> QED BY <2>2, <3>1
  <2>4. m + 1 \in Nat
    OBVIOUS
  <2> HIDE DEF Are, c
  <2> QED BY <2>3, <2>4
<1>3. n \in Some
  <2>1. n \in Nat /\ n \in 0 .. n
    OBVIOUS
  <2> HIDE DEF Some, n
  <2> QED BY <1>1, <1>2, <2>1, UpTo
<1>4. Are(Keeping(list, rs), n)
  <2>1. PICK k : Are(k, n)
    BY <1>3
  <2>2. Keeping(list, rs) = CHOOSE b : Are(b, n)
    BY DEF Keeping
  <2> HIDE DEF Are
  <2> QED BY <2>1, <2>2
<1> QED BY <1>4

(* A part of a list in its order: e says where each element comes from.     *)
Part(list, part, rs, n, e) ==
  /\ e \in [1 .. Len(part) -> 1 .. n]
  /\ \A i \in 1 .. Len(part) : part[i] = list[e[i]] /\ part[i] \in rs
  /\ \A i, j \in 1 .. Len(part) : i < j => e[i] < e[j]
  /\ \A q \in 1 .. n : list[q] \in rs => \E i \in 1 .. Len(part) : e[i] = q

(* What Keeping has gathered after n elements is those of them in rs, in    *)
(* order.                                                                   *)
LEMMA KeepingParts ==
  ASSUME NEW T, NEW list \in Seq(T), NEW rs, NEW n \in 0 .. Len(list)
  PROVE  /\ Keeping(list, rs)[n] \in Seq(T)
         /\ \E e : Part(list, Keeping(list, rs)[n], rs, n, e)
<1> DEFINE k == Keeping(list, rs)
           Has(m) == k[m] \in Seq(T) /\ \E e : Part(list, k[m], rs, m, e)
           Some == {m \in 0 .. Len(list) : Has(m)}
<1>1. Len(list) \in Nat /\ \A i \in 1 .. Len(list) : list[i] \in T
  BY LenProperties
<1>2. 0 \in Some
  <2>1. k[0] = << >>
    BY <1>1, KeepingIs
  <2>2. k[0] \in Seq(T) /\ Len(k[0]) = 0
    <3> HIDE DEF k
    <3> QED BY <2>1
  <2>3. Part(list, k[0], rs, 0, << >>)
    <3> HIDE DEF k
    <3> QED BY <2>1, <2>2 DEF Part
  <2>4. Has(0)
    <3> HIDE DEF k
    <3> QED BY <2>2, <2>3
  <2>5. 0 \in 0 .. Len(list)
    BY <1>1
  <2> HIDE DEF Has
  <2> QED BY <2>4, <2>5
<1>3. ASSUME NEW m \in 0 .. Len(list) - 1, m \in Some PROVE m + 1 \in Some
  <2>1. Has(m) /\ m + 1 \in 1 .. Len(list) /\ m \in Nat /\ (m + 1) - 1 = m
    BY <1>1, <1>3
  <2>2. PICK e : Part(list, k[m], rs, m, e)
    BY <2>1
  <2>3. k[m] \in Seq(T) /\ Len(k[m]) \in Nat
    <3>1. k[m] \in Seq(T)
      BY <2>1
    <3> HIDE DEF k
    <3> QED BY <3>1
  <2>4. CASE list[m + 1] \notin rs
    <3>1. k[m + 1] = k[m]
      BY <2>4, <2>1, <1>1, KeepingIs DEF Keep
    <3>2. Part(list, k[m], rs, m + 1, e)
      <4>1. \A q \in 1 .. m + 1 : q \in 1 .. m \/ q = m + 1
        BY <2>1
      <4> HIDE DEF k
      <4> QED BY <2>1, <2>2, <2>3, <2>4, <4>1 DEF Part
    <3>3. Has(m + 1)
      <4> HIDE DEF k
      <4> QED BY <3>1, <3>2, <2>3
    <3> HIDE DEF Has
    <3> QED BY <3>3, <2>1
  <2>5. CASE list[m + 1] \in rs
    <3> DEFINE x == list[m + 1]
               a == k[m]
               b == k[m + 1]
               l == Len(a)
               f == [i \in 1 .. l + 1 |-> IF i = l + 1 THEN m + 1 ELSE e[i]]
    <3>1. b = Append(a, x)
      <4>1. k[m + 1] = Keep(k[(m + 1) - 1], list[m + 1], rs)
        BY <2>1, <1>1, KeepingIs
      <4> HIDE DEF k, f
      <4> QED BY <4>1, <2>5, <2>1 DEF Keep
    <3>2. b \in Seq(T) /\ Len(b) = l + 1 /\ b[l + 1] = x /\ \A i \in 1 .. l : b[i] = a[i]
      <4>1. x \in T
        BY <1>1, <2>1
      <4>2. a \in Seq(T)
        BY <2>3
      <4> HIDE DEF a, b, x
      <4> QED BY <3>1, <4>1, <4>2, AppendProperties
    <3>3. Part(list, b, rs, m + 1, f)
      <4>0. l \in Nat /\ Part(list, a, rs, m, e) /\ x = list[m + 1] /\ x \in rs /\ m \in Nat
        BY <2>1, <2>2, <2>3, <2>5
      <4> HIDE DEF a, b, x, l
      <4>1. \A i \in 1 .. l + 1 : i \in 1 .. l \/ i = l + 1
        BY <4>0
      <4>2. \A q \in 1 .. m + 1 : q \in 1 .. m \/ q = m + 1
        BY <2>1
      <4>3. e \in [1 .. l -> 1 .. m] /\ \A i \in 1 .. l : a[i] = list[e[i]] /\ a[i] \in rs
        BY <4>0 DEF Part, l
      <4>4. \A i \in 1 .. l : f[i] = e[i] /\ f[i] \in 1 .. m
        BY <4>0, <4>3
      <4>5. f[l + 1] = m + 1 /\ l + 1 \in 1 .. l + 1
        BY <4>0
      <4>6. f \in [1 .. l + 1 -> 1 .. m + 1]
        <5>1. f = [i \in 1 .. l + 1 |-> f[i]]
          OBVIOUS
        <5> HIDE DEF f
        <5>2. \A i \in 1 .. l + 1 : f[i] \in 1 .. m + 1
          BY <4>1, <4>4, <4>5, <4>0
        <5> QED BY <5>1, <5>2
      <4>7. \A i, j \in 1 .. l : i < j => e[i] < e[j]
        BY <4>0 DEF Part, l
      <4> HIDE DEF f
      <4>8. \A i, j \in 1 .. l + 1 : i < j => f[i] < f[j]
        <5> SUFFICES ASSUME NEW i \in 1 .. l + 1, NEW j \in 1 .. l + 1, i < j PROVE f[i] < f[j]
          OBVIOUS
        <5>1. i \in 1 .. l
          BY <4>0
        <5>2. CASE j = l + 1
          BY <5>1, <5>2, <4>4, <4>5, <4>0
        <5>3. CASE j \in 1 .. l
          BY <5>1, <5>3, <4>4, <4>7
        <5> QED BY <5>2, <5>3, <4>1
      <4>9. \A i \in 1 .. l + 1 : b[i] = list[f[i]] /\ b[i] \in rs
        BY <4>0, <4>1, <4>3, <4>4, <4>5, <3>2
      <4>10. \A q \in 1 .. m + 1 : list[q] \in rs => \E i \in 1 .. l + 1 : f[i] = q
        <5>1. \A q \in 1 .. m : list[q] \in rs => \E i \in 1 .. l : e[i] = q
          BY <4>0 DEF Part, l
        <5> QED BY <5>1, <4>2, <4>4, <4>5, <4>0
      <4> QED BY <3>2, <4>6, <4>8, <4>9, <4>10 DEF Part, l
    <3>4. Has(m + 1)
      <4> HIDE DEF k, f
      <4> QED BY <3>2, <3>3
    <3> HIDE DEF Has
    <3> QED BY <3>4, <2>1
  <2> QED BY <2>4, <2>5
<1>4. 0 .. Len(list) \subseteq Some
  <2> HIDE DEF Some
  <2> QED BY <1>1, <1>2, <1>3, UpTo
<1> QED BY <1>4

(* So is Kept, of the whole list.                                           *)
LEMMA KeptParts ==
  ASSUME NEW T, NEW list \in Seq(T), NEW rs
  PROVE  /\ Kept(list, rs) \in Seq(T) /\ Len(Kept(list, rs)) \in Nat
         /\ \E e : Part(list, Kept(list, rs), rs, Len(list), e)
<1>1. Len(list) \in Nat /\ Len(list) \in 0 .. Len(list)
  BY LenProperties
<1>2. /\ Keeping(list, rs)[Len(list)] \in Seq(T)
      /\ \E e : Part(list, Keeping(list, rs)[Len(list)], rs, Len(list), e)
  BY <1>1, KeepingParts
<1>3. Kept(list, rs) \in Seq(T)
  BY <1>2 DEF Kept
<1>4. Len(Kept(list, rs)) \in Nat
  BY <1>3, LenProperties
<1> QED BY <1>2, <1>3, <1>4 DEF Kept

(* Kept has what is in the list and in rs, and nothing else.                *)
LEMMA KeptRequests ==
  ASSUME NEW T, NEW list \in Seq(T), NEW rs
  PROVE  Requests(Kept(list, rs)) = Requests(list) \cap rs
<1> DEFINE k == Kept(list, rs)
<1>1. PICK e : Part(list, k, rs, Len(list), e)
  BY KeptParts
<1>2. DOMAIN list = 1 .. Len(list)
  BY LenProperties
<1>3. DOMAIN k = 1 .. Len(k)
  <2>1. k \in Seq(T)
    BY KeptParts
  <2> QED BY <2>1, LenProperties
<1> HIDE DEF k
<1>4. \A i \in 1 .. Len(k) : e[i] \in 1 .. Len(list) /\ k[i] = list[e[i]] /\ k[i] \in rs
  BY <1>1 DEF Part
<1>5. \A q \in 1 .. Len(list) : list[q] \in rs => \E i \in 1 .. Len(k) : k[i] = list[q]
  BY <1>1 DEF Part
<1>6. Requests(k) \subseteq Requests(list) \cap rs
  BY <1>2, <1>3, <1>4 DEF Requests
<1>7. Requests(list) \cap rs \subseteq Requests(k)
  BY <1>2, <1>3, <1>5 DEF Requests
<1> QED BY <1>6, <1>7 DEF k

(* Nothing is taken away, and the two parts make up the whole.              *)
LEMMA KeptAll ==
  ASSUME NEW T, NEW list \in Seq(T), NEW rs, Requests(list) \subseteq rs
  PROVE  Kept(list, rs) = list
<1> DEFINE k == Keeping(list, rs)
           Has(m) == k[m] \in Seq(T) /\ Len(k[m]) = m /\ \A i \in 1 .. m : k[m][i] = list[i]
           Some == {m \in 0 .. Len(list) : Has(m)}
<1>1. Len(list) \in Nat /\ \A i \in 1 .. Len(list) : list[i] \in T /\ list[i] \in rs
  BY LenProperties DEF Requests
<1>2. 0 \in Some
  <2>1. k[0] = << >>
    BY <1>1, KeepingIs
  <2>2. Has(0)
    <3> HIDE DEF k
    <3> QED BY <2>1
  <2> HIDE DEF Has
  <2> QED BY <2>2, <1>1
<1>3. ASSUME NEW m \in 0 .. Len(list) - 1, m \in Some PROVE m + 1 \in Some
  <2>1. Has(m) /\ m + 1 \in 1 .. Len(list) /\ m \in Nat /\ (m + 1) - 1 = m
    BY <1>1, <1>3
  <2>2. k[m + 1] = Keep(k[(m + 1) - 1], list[m + 1], rs)
    BY <2>1, <1>1, KeepingIs
  <2>3. k[m + 1] = Append(k[m], list[m + 1])
    <3> HIDE DEF k
    <3> QED BY <2>1, <2>2, <1>1 DEF Keep
  <2>4. /\ k[m + 1] \in Seq(T) /\ Len(k[m + 1]) = m + 1
        /\ k[m + 1][m + 1] = list[m + 1] /\ \A i \in 1 .. m : k[m + 1][i] = k[m][i]
    <3>1. k[m] \in Seq(T) /\ list[m + 1] \in T /\ Len(k[m]) = m
      BY <2>1, <1>1
    <3> HIDE DEF k
    <3> QED BY <2>3, <3>1, AppendProperties
  <2>5. Has(m + 1)
    <3>1. \A i \in 1 .. m + 1 : i \in 1 .. m \/ i = m + 1
      BY <2>1
    <3>2. \A i \in 1 .. m : k[m][i] = list[i]
      BY <2>1
    <3> HIDE DEF k
    <3> QED BY <2>4, <3>1, <3>2
  <2> HIDE DEF Has
  <2> QED BY <2>5, <2>1
<1>4. 0 .. Len(list) \subseteq Some
  <2> HIDE DEF Some
  <2> QED BY <1>1, <1>2, <1>3, UpTo
<1>5. Has(Len(list))
  BY <1>1, <1>4
<1>6. k[Len(list)] = list
  <2> HIDE DEF k
  <2> QED BY <1>5, SeqEqual
<1> QED BY <1>6 DEF Kept

(* What is kept of two sets apart is kept of their union.                   *)
LEMMA KeptUnion ==
  ASSUME NEW T, NEW list \in Seq(T), NEW a, NEW b, \A x \in a : x \notin b
  PROVE  Len(Kept(list, a \cup b)) = Len(Kept(list, a)) + Len(Kept(list, b))
<1> DEFINE ab == a \cup b
           k == Keeping(list, a)
           o == Keeping(list, b)
           u == Keeping(list, ab)
           Has(m) == Len(u[m]) = Len(k[m]) + Len(o[m])
           Some == {m \in 0 .. Len(list) : Has(m)}
<1>1. Len(list) \in Nat /\ \A i \in 1 .. Len(list) : list[i] \in T
  BY LenProperties
<1>2. 0 \in Some
  <2>1. k[0] = << >> /\ o[0] = << >> /\ u[0] = << >>
    BY <1>1, KeepingIs
  <2>2. Has(0)
    <3> HIDE DEF k, o, u
    <3> QED BY <2>1
  <2> HIDE DEF Has
  <2> QED BY <2>2, <1>1
<1>3. ASSUME NEW m \in 0 .. Len(list) - 1, m \in Some PROVE m + 1 \in Some
  <2>0. Has(m)
    <3> HIDE DEF Has
    <3> QED BY <1>3
  <2>1. m + 1 \in 1 .. Len(list) /\ m \in 0 .. Len(list) /\ (m + 1) - 1 = m
    BY <1>1
  <2>2. /\ k[m + 1] = Keep(k[(m + 1) - 1], list[m + 1], a)
        /\ o[m + 1] = Keep(o[(m + 1) - 1], list[m + 1], b)
        /\ u[m + 1] = Keep(u[(m + 1) - 1], list[m + 1], ab)
    BY <2>1, <1>1, KeepingIs
  <2>3. k[m] \in Seq(T) /\ o[m] \in Seq(T) /\ u[m] \in Seq(T)
    BY <2>1, KeepingParts
  <2>4. list[m + 1] \in T
    BY <2>1, <1>1
  <2>5. \A l \in Seq(T), x \in T : Len(Append(l, x)) = Len(l) + 1
    BY AppendProperties
  <2>6. Len(k[m]) \in Nat /\ Len(o[m]) \in Nat /\ Len(u[m]) \in Nat
    BY <2>3, LenProperties
  <2>7. list[m + 1] \in ab <=> list[m + 1] \in a \/ list[m + 1] \in b
    OBVIOUS
  <2>8. Len(u[m]) = Len(k[m]) + Len(o[m])
    <3> HIDE DEF k, o, u
    <3> QED BY <2>0
  <2> HIDE DEF k, o, u, ab
  <2>9. PICK x \in Nat, y \in Nat, z \in Nat : x = Len(u[m]) /\ y = Len(k[m]) /\ z = Len(o[m])
    BY <2>6
  <2>10. Len(u[m + 1]) = Len(k[m + 1]) + Len(o[m + 1])
    <3>1. CASE list[m + 1] \in a
      <4>1. k[m + 1] = Append(k[m], list[m + 1]) /\ o[m + 1] = o[m] /\ u[m + 1] = Append(u[m], list[m + 1])
        BY <2>1, <2>2, <2>7, <3>1 DEF Keep
      <4>2. Len(k[m + 1]) = Len(k[m]) + 1 /\ Len(o[m + 1]) = Len(o[m]) /\ Len(u[m + 1]) = Len(u[m]) + 1
        BY <2>3, <2>4, <2>5, <4>1
      <4>3. x = y + z
        BY <2>8, <2>9
      <4>4. x + 1 = (y + 1) + z /\ x + 1 = y + (z + 1)
        BY <4>3
      <4> QED BY <2>9, <4>2, <4>4
    <3>2. CASE list[m + 1] \in b
      <4>1. o[m + 1] = Append(o[m], list[m + 1]) /\ k[m + 1] = k[m] /\ u[m + 1] = Append(u[m], list[m + 1])
        BY <2>1, <2>2, <2>7, <3>2 DEF Keep
      <4>2. Len(o[m + 1]) = Len(o[m]) + 1 /\ Len(k[m + 1]) = Len(k[m]) /\ Len(u[m + 1]) = Len(u[m]) + 1
        BY <2>3, <2>4, <2>5, <4>1
      <4>3. x = y + z
        BY <2>8, <2>9
      <4>4. x + 1 = (y + 1) + z /\ x + 1 = y + (z + 1)
        BY <4>3
      <4> QED BY <2>9, <4>2, <4>4
    <3>3. CASE list[m + 1] \notin ab
      <4>1. o[m + 1] = o[m] /\ k[m + 1] = k[m] /\ u[m + 1] = u[m]
        BY <2>1, <2>2, <2>7, <3>3 DEF Keep
      <4> QED BY <2>8, <4>1
    <3> QED BY <2>7, <3>1, <3>2, <3>3
  <2>11. m + 1 \in 0 .. Len(list)
    BY <1>1
  <2> QED BY <2>10, <2>11 DEF k, o, u
<1>4. 0 .. Len(list) \subseteq Some
  <2> HIDE DEF Some
  <2> QED BY <1>1, <1>2, <1>3, UpTo
<1>5. Has(Len(list))
  <2> HIDE DEF Has
  <2> QED BY <1>1, <1>4
<1> QED BY <1>5 DEF Kept

(* What is kept and what is left add up to the list.                        *)
LEMMA KeptSplit ==
  ASSUME NEW T, NEW list \in Seq(T), NEW rs
  PROVE  Len(Kept(list, rs)) + Len(Kept(list, Requests(list) \ rs)) = Len(list)
<1> DEFINE others == Requests(list) \ rs
<1>1. Requests(list) \subseteq rs \cup others
  OBVIOUS
<1>2. Kept(list, rs \cup others) = list
  <2> HIDE DEF others
  <2> QED BY <1>1, KeptAll
<1>3. \A x \in rs : x \notin others
  OBVIOUS
<1> HIDE DEF others
<1>4. Len(Kept(list, rs \cup others)) = Len(Kept(list, rs)) + Len(Kept(list, others))
  BY <1>3, KeptUnion
<1> QED BY <1>2, <1>4 DEF others

(* A part of a list is in order when the list is.                           *)
LEMMA KeptSorted ==
  ASSUME NEW T, NEW list \in Seq(T), NEW rs
  PROVE  /\ Sorted(list) => Sorted(Kept(list, rs))
         /\ Ascending(list) => Ascending(Kept(list, rs))
<1> DEFINE k == Kept(list, rs)
<1>1. PICK e : Part(list, k, rs, Len(list), e)
  BY KeptParts
<1>2. Len(list) \in Nat
  BY LenProperties
<1>3. Len(k) \in Nat
  BY KeptParts
<1> HIDE DEF k
<1>4. \A i \in 1 .. Len(k) : e[i] \in 1 .. Len(list) /\ k[i] = list[e[i]]
  BY <1>1 DEF Part
<1>5. \A i, j \in 1 .. Len(k) : i < j => e[i] < e[j]
  BY <1>1 DEF Part
<1>6. ASSUME Sorted(list) PROVE Sorted(k)
  <2> SUFFICES ASSUME NEW p \in 1 .. Len(k), NEW q \in 1 .. Len(k), p < q
               PROVE  /\ k[p].id # k[q].id
                      /\ Kin(k[p], k[q]) => k[p].id < k[q].id
                      /\ k[p].handle = k[q].handle =>
                           /\ \A j \in p .. q : k[j].handle = k[p].handle
                           /\ request_is_input(k[p]) => request_is_input(k[q])
    BY DEF Sorted
  <2>1. e[p] < e[q] /\ e[p] \in 1 .. Len(list) /\ e[q] \in 1 .. Len(list)
    BY <1>4, <1>5
  <2>2. k[p] = list[e[p]] /\ k[q] = list[e[q]]
    BY <1>4
  <2>3. ASSUME NEW j \in p .. q PROVE j \in 1 .. Len(k) /\ e[j] \in e[p] .. e[q] /\ k[j] = list[e[j]]
    <3>1. j \in 1 .. Len(k)
      BY <1>3
    <3>2. j = p \/ p < j
      BY <1>3
    <3>3. j = q \/ j < q
      BY <1>3
    <3>4. e[p] <= e[j] /\ e[j] <= e[q]
      BY <3>1, <3>2, <3>3, <1>4, <1>5
    <3> QED BY <3>1, <3>4, <1>4
  <2>4. /\ list[e[p]].id # list[e[q]].id
        /\ Kin(list[e[p]], list[e[q]]) => list[e[p]].id < list[e[q]].id
        /\ list[e[p]].handle = list[e[q]].handle =>
             /\ \A j \in e[p] .. e[q] : list[j].handle = list[e[p]].handle
             /\ request_is_input(list[e[p]]) => request_is_input(list[e[q]])
    BY <1>6, <2>1 DEF Sorted
  <2> QED BY <2>2, <2>3, <2>4
<1>7. ASSUME Ascending(list) PROVE Ascending(k)
  BY <1>4, <1>5, <1>7 DEF Ascending
<1> QED BY <1>6, <1>7 DEF k

(* Past finds the first place that is not one of places.                    *)
LEMMA PastIs ==
  ASSUME NEW s, NEW n \in Nat, Len(s.main) = n, NEW p \in 1 .. n + 1, NEW places, n + 1 \notin places
  PROVE  /\ Past(s, p, places) \in p .. n + 1
         /\ Past(s, p, places) \notin places
         /\ \A j \in p .. Past(s, p, places) - 1 : j \in places
<1> DEFINE Free == {q \in p .. n + 1 : q \notin places}
<1>1. Free \in SUBSET Nat /\ n + 1 \in Free
  OBVIOUS
<1>2. PICK k \in Free : \A j \in Free : k <= j
  <2> HIDE DEF Free
  <2> QED BY <1>1, SmallestNumber
<1>3. k \in p .. n + 1 /\ k \notin places
  BY <1>2
<1>4. \A j \in p .. k - 1 : j \in places
  BY <1>2, <1>3
<1> QED BY <1>3, <1>4 DEF Past

(* A list with another one put in at place p.                               *)
Put(list, p, more, new) ==
  /\ Len(new) = Len(list) + Len(more)
  /\ \A q \in 1 .. p - 1 : new[q] = list[q]
  /\ \A q \in p .. p + Len(more) - 1 : new[q] = more[q - p + 1]
  /\ \A q \in p + Len(more) .. Len(list) + Len(more) : new[q] = list[q - Len(more)]

(* Inserting moves what is behind the place, and nothing else.              *)
LEMMA InsertedIs ==
  ASSUME NEW T, NEW list \in Seq(T), NEW more \in Seq(T), NEW p \in 1 .. Len(list) + 1
  PROVE  /\ Inserted(list, p, more) \in Seq(T)
         /\ Put(list, p, more, Inserted(list, p, more))
<1> DEFINE a == SubSeq(list, 1, p - 1)
           b == SubSeq(list, p, Len(list))
           n == Len(list)
           m == Len(more)
<1>1. n \in Nat /\ m \in Nat /\ p \in 1 .. n + 1 /\ \A i \in 1 .. n : list[i] \in T
  BY LenProperties
<1>2. a \in Seq(T) /\ Len(a) = p - 1 /\ \A i \in 1 .. p - 1 : a[i] = list[i]
  <2>1. \A i \in 1 .. p - 1 : list[i] \in T
    BY <1>1
  <2>2. /\ a \in Seq(T) /\ Len(a) = (IF 1 <= p - 1 THEN (p - 1) - 1 + 1 ELSE 0)
        /\ \A i \in 1 .. (p - 1) - 1 + 1 : a[i] = list[1 + i - 1]
    BY <2>1, <1>1, SubSeqProperties
  <2> HIDE DEF a
  <2> QED BY <2>2, <1>1
<1>3. b \in Seq(T) /\ Len(b) = n - p + 1 /\ \A i \in 1 .. n - p + 1 : b[i] = list[p + i - 1]
  <2>1. \A i \in p .. n : list[i] \in T
    BY <1>1
  <2>2. /\ b \in Seq(T) /\ Len(b) = (IF p <= n THEN n - p + 1 ELSE 0)
        /\ \A i \in 1 .. n - p + 1 : b[i] = list[p + i - 1]
    BY <2>1, <1>1, SubSeqProperties
  <2> HIDE DEF b
  <2> QED BY <2>2, <1>1
<1> HIDE DEF a, b
<1> DEFINE c == a \o more
           d == c \o b
<1>4. c \in Seq(T) /\ Len(c) = p - 1 + m /\ \A i \in 1 .. p - 1 + m :
        c[i] = IF i <= p - 1 THEN a[i] ELSE more[i - (p - 1)]
  <2>1. /\ c \in Seq(T) /\ Len(c) = Len(a) + Len(more)
        /\ \A i \in 1 .. Len(a) + Len(more) : c[i] = IF i <= Len(a) THEN a[i] ELSE more[i - Len(a)]
    BY <1>2, ConcatProperties
  <2> HIDE DEF c, n
  <2> QED BY <2>1, <1>2
<1> HIDE DEF c
<1>5. d \in Seq(T) /\ Len(d) = p - 1 + m + (n - p + 1) /\ \A i \in 1 .. p - 1 + m + (n - p + 1) :
        d[i] = IF i <= p - 1 + m THEN c[i] ELSE b[i - (p - 1 + m)]
  <2>1. /\ d \in Seq(T) /\ Len(d) = Len(c) + Len(b)
        /\ \A i \in 1 .. Len(c) + Len(b) : d[i] = IF i <= Len(c) THEN c[i] ELSE b[i - Len(c)]
    BY <1>3, <1>4, ConcatProperties
  <2> HIDE DEF d, n, m
  <2> QED BY <2>1, <1>3, <1>4
<1>6. d = Inserted(list, p, more)
  BY DEF Inserted, c, a, b
<1> HIDE DEF d, n, m
<1>7. Len(d) = n + m
  BY <1>1, <1>5
<1>8. \A q \in 1 .. p - 1 : d[q] = list[q]
  BY <1>1, <1>2, <1>4, <1>5
<1>9. \A q \in p .. p + m - 1 : d[q] = more[q - p + 1]
  <2> SUFFICES ASSUME NEW q \in p .. p + m - 1 PROVE d[q] = more[q - p + 1]
    OBVIOUS
  <2>1. q \in 1 .. p - 1 + m /\ q \in 1 .. p - 1 + m + (n - p + 1) /\ ~(q <= p - 1) /\ q - (p - 1) = q - p + 1
    BY <1>1
  <2> QED BY <2>1, <1>4, <1>5
<1>10. \A q \in p + m .. n + m : d[q] = list[q - m]
  <2> SUFFICES ASSUME NEW q \in p + m .. n + m PROVE d[q] = list[q - m]
    OBVIOUS
  <2>1. /\ q \in 1 .. p - 1 + m + (n - p + 1) /\ ~(q <= p - 1 + m)
        /\ q - (p - 1 + m) \in 1 .. n - p + 1 /\ p + (q - (p - 1 + m)) - 1 = q - m
    BY <1>1
  <2> QED BY <2>1, <1>3, <1>5
<1> QED BY <1>5, <1>6, <1>7, <1>8, <1>9, <1>10 DEF Put, n, m

(* A list put in where its socket's requests of its kind end is in its      *)
(* place.                                                                   *)
Fits(list, p, more, h, input) ==
  /\ Ascending(more)
  /\ \A i \in 1 .. Len(more) : more[i].handle = h /\ (request_is_input(more[i]) <=> input)
  /\ \A q \in 1 .. Len(list), i \in 1 .. Len(more) :
       /\ list[q].id # more[i].id
       /\ list[q].handle = h /\ (request_is_input(list[q]) <=> input) => list[q].id < more[i].id
  /\ \A q \in 1 .. p - 1 : list[q].handle = h =>
       (\A j \in q .. p - 1 : list[j].handle = h) /\ (request_is_input(list[q]) => input)
  /\ \A q \in p .. Len(list) : list[q].handle = h =>
       (\A j \in p .. q : list[j].handle = h) /\ ~input /\ request_is_input(list[q])
  /\ (p > 1 /\ list[p - 1].handle = h) \/ (p =< Len(list) /\ list[p].handle = h)

(* How one element of a sorted list stands to a later one.                  *)
Follows(new, a, b) ==
  /\ new[a].id # new[b].id
  /\ Kin(new[a], new[b]) => new[a].id < new[b].id
  /\ new[a].handle = new[b].handle =>
       /\ \A j \in a .. b : new[j].handle = new[a].handle
       /\ request_is_input(new[a]) => request_is_input(new[b])

(* Requests that fit at a place leave the list in order.                    *)
LEMMA PutSorted ==
  ASSUME NEW T, NEW list \in Seq(T), NEW more \in Seq(T), NEW p \in 1 .. Len(list) + 1,
         NEW new, Put(list, p, more, new), NEW h, NEW input \in BOOLEAN,
         Fits(list, p, more, h, input), Sorted(list),
         \A i \in 1 .. Len(list) : list[i].id \in Int,
         \A i \in 1 .. Len(more) : more[i].id \in Int
  PROVE  Sorted(new)
<1> DEFINE n == Len(list)
           m == Len(more)
<1>1. n \in Nat /\ m \in Nat /\ p \in 1 .. n + 1 /\ Len(new) = n + m
  <2>1. Len(list) \in Nat /\ Len(more) \in Nat
    BY LenProperties
  <2> QED BY <2>1 DEF Put
<1>2. \A q \in 1 .. p - 1 : new[q] = list[q]
  BY DEF Put
<1>3. \A q \in p .. p + m - 1 : new[q] = more[q - p + 1] /\ q - p + 1 \in 1 .. m
  BY <1>1 DEF Put
<1>4. \A q \in p + m .. n + m : new[q] = list[q - m] /\ q - m \in p .. n
  BY <1>1 DEF Put
<1>5. \A q \in 1 .. n + m : q \in 1 .. p - 1 \/ q \in p .. p + m - 1 \/ q \in p + m .. n + m
  BY <1>1
<1>6. \A a, b \in 1 .. n : a < b =>
        /\ list[a].id # list[b].id
        /\ Kin(list[a], list[b]) => list[a].id < list[b].id
        /\ list[a].handle = list[b].handle =>
             /\ \A j \in a .. b : list[j].handle = list[a].handle
             /\ request_is_input(list[a]) => request_is_input(list[b])
  BY DEF Sorted
<1>7. /\ \A i, j \in 1 .. m : i < j => more[i].id < more[j].id
      /\ \A i \in 1 .. m : more[i].id \in Int
      /\ \A i \in 1 .. m : more[i].handle = h /\ (request_is_input(more[i]) <=> input)
  BY DEF Fits, Ascending
<1>8. \A q \in 1 .. n, i \in 1 .. m :
        /\ list[q].id # more[i].id
        /\ list[q].handle = h /\ (request_is_input(list[q]) <=> input) => list[q].id < more[i].id
  BY DEF Fits
<1>9. \A q \in 1 .. p - 1 : list[q].handle = h =>
        (\A j \in q .. p - 1 : list[j].handle = h) /\ (request_is_input(list[q]) => input)
  BY DEF Fits
<1>10. \A q \in p .. n : list[q].handle = h =>
        (\A j \in p .. q : list[j].handle = h) /\ ~input /\ request_is_input(list[q])
  BY DEF Fits
<1>11. (p > 1 /\ list[p - 1].handle = h) \/ (p =< n /\ list[p].handle = h)
  BY DEF Fits
<1> HIDE DEF n, m
<1> SUFFICES ASSUME NEW a \in 1 .. n + m, NEW b \in 1 .. n + m, a < b PROVE Follows(new, a, b)
  BY <1>1 DEF Sorted, Follows
<1>12. CASE b \in 1 .. p - 1
  <2>1. a \in 1 .. p - 1 /\ a \in 1 .. n /\ b \in 1 .. n
    BY <1>1, <1>12
  <2>2. \A j \in a .. b : j \in 1 .. p - 1
    BY <1>1, <1>12
  <2> QED BY <1>2, <1>6, <1>12, <2>1, <2>2 DEF Follows
<1>13. CASE b \in p .. p + m - 1
  <2>1. new[b] = more[b - p + 1] /\ b - p + 1 \in 1 .. m
    BY <1>3, <1>13
  <2>2. CASE a \in 1 .. p - 1
    <3>1. new[a] = list[a] /\ a \in 1 .. n
      BY <1>1, <1>2, <2>2
    <3>2. \A j \in a .. b : j \in a .. p - 1 \/ j \in p .. p + m - 1
      BY <1>1, <1>13
    <3>3. \A j \in a .. p - 1 : new[j] = list[j]
      BY <1>1, <1>2, <2>2
    <3>4. \A j \in p .. p + m - 1 : new[j].handle = h
      BY <1>3, <1>7
    <3>5. list[a].handle = h => \A j \in a .. b : new[j].handle = h
      BY <1>9, <2>2, <3>2, <3>3, <3>4
    <3> QED BY <1>7, <1>8, <1>9, <2>1, <2>2, <3>1, <3>5 DEF Follows, Kin
  <2>3. CASE a \in p .. p + m - 1
    <3>1. new[a] = more[a - p + 1] /\ a - p + 1 \in 1 .. m /\ a - p + 1 < b - p + 1
      BY <1>1, <1>3, <2>3
    <3>2. \A j \in a .. b : j \in p .. p + m - 1
      BY <1>1, <1>13, <2>3
    <3>3. \A j \in a .. b : new[j].handle = h
      BY <1>3, <1>7, <3>2
    <3>4. more[a - p + 1].id < more[b - p + 1].id
      BY <1>7, <2>1, <3>1
    <3>5. more[a - p + 1].id \in Int /\ more[b - p + 1].id \in Int
      BY <1>7, <2>1, <3>1
    <3>6. new[a].id < new[b].id /\ new[a].id # new[b].id
      BY <2>1, <3>1, <3>4, <3>5
    <3>7. request_is_input(new[a]) <=> request_is_input(new[b])
      BY <1>7, <2>1, <3>1
    <3>8. new[a].handle = h
      BY <1>7, <3>1
    <3> QED BY <3>3, <3>6, <3>7, <3>8 DEF Follows
  <2> QED BY <1>1, <1>5, <1>13, <2>2, <2>3
<1>14. CASE b \in p + m .. n + m
  <2>1. new[b] = list[b - m] /\ b - m \in p .. n /\ b - m \in 1 .. n
    BY <1>1, <1>4, <1>14
  <2>2. CASE a \in 1 .. p - 1
    <3>1. new[a] = list[a] /\ a \in 1 .. n /\ a < b - m
      BY <1>1, <1>2, <2>1, <2>2
    <3>2. ASSUME list[a].handle = list[b - m].handle
          PROVE  \A j \in a .. b : new[j].handle = list[a].handle
      <4>1. \A j \in a .. b - m : list[j].handle = list[a].handle
        BY <1>6, <2>1, <3>1, <3>2
      <4>2. p \in a .. b - m /\ p - 1 \in a .. b - m
        BY <1>1, <2>1, <2>2
      <4>3. list[a].handle = h
        BY <1>11, <4>1, <4>2
      <4>4. ASSUME NEW j \in a .. b PROVE new[j].handle = h
        <5>1. CASE j \in 1 .. p - 1
          <6>1. new[j] = list[j] /\ j \in a .. b - m
            BY <1>1, <1>2, <2>1, <5>1
          <6> QED BY <4>1, <4>3, <6>1
        <5>2. CASE j \in p .. p + m - 1
          BY <1>3, <1>7, <5>2
        <5>3. CASE j \in p + m .. n + m
          <6>1. new[j] = list[j - m] /\ j - m \in a .. b - m
            BY <1>1, <1>4, <2>1, <2>2, <5>3
          <6> QED BY <4>1, <4>3, <6>1
        <5>4. j \in 1 .. n + m
          BY <1>1
        <5> QED BY <1>5, <5>1, <5>2, <5>3, <5>4
      <4> QED BY <4>3, <4>4
    <3> QED BY <1>6, <2>1, <3>1, <3>2 DEF Follows
  <2>3. CASE a \in p .. p + m - 1
    <3>1. new[a] = more[a - p + 1] /\ a - p + 1 \in 1 .. m
      BY <1>3, <2>3
    <3>2. list[b - m].handle = h => \A j \in a .. b : new[j].handle = h
      <4> SUFFICES ASSUME list[b - m].handle = h, NEW j \in a .. b PROVE new[j].handle = h
        OBVIOUS
      <4>1. \A i \in p .. b - m : list[i].handle = h
        BY <1>10, <2>1
      <4>2. CASE j \in p .. p + m - 1
        BY <1>3, <1>7, <4>2
      <4>3. CASE j \in p + m .. n + m
        <5>1. new[j] = list[j - m] /\ j - m \in p .. b - m
          BY <1>1, <1>4, <4>3
        <5> QED BY <4>1, <5>1
      <4>4. j \in p .. p + m - 1 \/ j \in p + m .. n + m
        BY <1>1, <2>3
      <4> QED BY <4>2, <4>3, <4>4
    <3>3. more[a - p + 1].handle = h /\ (request_is_input(more[a - p + 1]) <=> input)
      BY <1>7, <3>1
    <3>4. list[b - m].id # more[a - p + 1].id
      BY <1>8, <2>1, <3>1
    <3>5. list[b - m].handle = h => ~input /\ request_is_input(list[b - m])
      BY <1>10, <2>1
    <3> QED BY <2>1, <3>1, <3>2, <3>3, <3>4, <3>5 DEF Follows, Kin
  <2>4. CASE a \in p + m .. n + m
    <3>1. new[a] = list[a - m] /\ a - m \in 1 .. n /\ a - m < b - m
      BY <1>1, <1>4, <2>4
    <3>2. \A j \in a .. b : new[j] = list[j - m] /\ j - m \in a - m .. b - m
      BY <1>1, <1>4, <1>14, <2>4
    <3>3. new[a].handle = new[b].handle => \A j \in a .. b : new[j].handle = new[a].handle
      <4> SUFFICES ASSUME list[a - m].handle = list[b - m].handle, NEW j \in a .. b
                   PROVE  new[j].handle = list[a - m].handle
        BY <2>1, <3>1
      <4>1. \A i \in a - m .. b - m : list[i].handle = list[a - m].handle
        BY <1>6, <2>1, <3>1
      <4> QED BY <4>1, <3>2
    <3> QED BY <1>6, <2>1, <3>1, <3>3 DEF Follows
  <2> QED BY <1>5, <2>2, <2>3, <2>4
<1> QED BY <1>5, <1>12, <1>13, <1>14

-----------------------------------------------------------------------------
(* Requests that end.                                                       *)

(* The types of the parts of sock.                                          *)
LEMMA InSock ==
  ASSUME NEW s \in Sock
  PROVE  /\ s.main \in Seq(Request) /\ s.wait \in Seq(Request)
         /\ Len(s.main) \in Nat /\ DOMAIN s.main = 1 .. Len(s.main)
         /\ Len(s.wait) \in Nat /\ DOMAIN s.wait = 1 .. Len(s.wait)
         /\ Requests(s.main) = {s.main[p] : p \in 1 .. Len(s.main)}
         /\ Requests(s.wait) = {s.wait[p] : p \in 1 .. Len(s.wait)}
         /\ AllOf(s) \subseteq Request
<1>1. s.main \in Seq(Request) /\ s.wait \in Seq(Request)
  BY DEF Sock
<1>2. /\ Len(s.main) \in Nat /\ DOMAIN s.main = 1 .. Len(s.main)
      /\ Len(s.wait) \in Nat /\ DOMAIN s.wait = 1 .. Len(s.wait)
      /\ \A p \in 1 .. Len(s.main) : s.main[p] \in Request
      /\ \A p \in 1 .. Len(s.wait) : s.wait[p] \in Request
  BY <1>1, LenProperties
<1> QED BY <1>1, <1>2 DEF Requests, AllOf

(* The types of the parts of a request.                                     *)
LEMMA InRequest ==
  ASSUME GoodRequests, NEW r \in Request
  PROVE  /\ r.id \in 1 .. MaxRequests /\ r.id \in Nat /\ r.id # 0
         /\ r.handle \in Handle /\ r.handle \in Nat /\ r.handle # 0
         /\ r.type \in Types /\ r.repeat \in BOOLEAN /\ r.timed \in BOOLEAN /\ r.cur \in Int
         /\ (r.repeat => r.type = "read") /\ (r.type = "close" => ~r.timed)
<1>1. Handle \subseteq Nat \ {0} /\ MaxRequests \in Nat
  BY DEF GoodRequests
<1>2. /\ r \in [id : 1 .. MaxRequests, type : Types, repeat : BOOLEAN, timed : BOOLEAN,
                handle : Handle, cur : Int]
      /\ (r.repeat => r.type = "read") /\ (r.type = "close" => ~r.timed)
  BY DEF Request
<1>3. /\ r.id \in 1 .. MaxRequests /\ r.handle \in Handle
      /\ r.type \in Types /\ r.repeat \in BOOLEAN /\ r.timed \in BOOLEAN /\ r.cur \in Int
  BY <1>2
<1>4. r.id \in Nat /\ r.id # 0 /\ r.handle \in Nat /\ r.handle # 0
  <2>1. \A h \in Handle : h \in Nat /\ h # 0
    BY <1>1
  <2>2. \A i \in 1 .. MaxRequests : i \in Nat /\ i # 0
    BY <1>1
  <2>3. r.id \in 1 .. MaxRequests /\ r.handle \in Handle
    BY <1>3
  <2> QED BY <2>1, <2>2, <2>3
<1>5. (r.repeat => r.type = "read") /\ (r.type = "close" => ~r.timed)
  BY <1>2
<1> QED BY <1>3, <1>4, <1>5

(* One request, one number.                                                 *)
LEMMA OneNumber ==
  ASSUME GoodRequests, NEW s, NEW n, InOrder(s, n),
         NEW r \in AllOf(s), NEW x \in AllOf(s), r.id = x.id
  PROVE  r = x
<1>1. /\ s \in Sock /\ Sorted(s.main) /\ Ascending(s.wait)
      /\ \A a \in Requests(s.main), b \in Requests(s.wait) : a.id # b.id
  BY DEF InOrder
<1>2. CASE r \in Requests(s.main) /\ x \in Requests(s.main)
  <2>0. Requests(s.main) = {s.main[p] : p \in 1 .. Len(s.main)}
    BY <1>1, InSock
  <2>1. PICK p \in 1 .. Len(s.main), q \in 1 .. Len(s.main) : r = s.main[p] /\ x = s.main[q]
    BY <1>2, <2>0
  <2>2. Len(s.main) \in Nat
    BY <1>1, InSock
  <2>3. ~(p < q) /\ ~(q < p)
    BY <1>1, <2>1 DEF Sorted
  <2>4. p = q
    BY <2>2, <2>3
  <2> QED BY <2>1, <2>4
<1>3. CASE r \in Requests(s.wait) /\ x \in Requests(s.wait)
  <2>0. Requests(s.wait) = {s.wait[p] : p \in 1 .. Len(s.wait)}
    BY <1>1, InSock
  <2>1. PICK p \in 1 .. Len(s.wait), q \in 1 .. Len(s.wait) : r = s.wait[p] /\ x = s.wait[q]
    BY <1>3, <2>0
  <2>2. Len(s.wait) \in Nat /\ r.id \in Nat /\ x.id \in Nat
    <3>1. r \in Request /\ x \in Request
      BY <1>1, InSock
    <3> QED BY <1>1, <3>1, InSock, InRequest
  <2>3. ~(p < q) /\ ~(q < p)
    BY <1>1, <2>1, <2>2 DEF Ascending
  <2>4. p = q
    BY <2>2, <2>3
  <2> QED BY <2>1, <2>4
<1> QED BY <1>1, <1>2, <1>3 DEF AllOf

(* Where a request of main_list is.                                         *)
LEMMA AtPlace ==
  ASSUME GoodRequests, NEW s, NEW n, InOrder(s, n), NEW p \in 1 .. Len(s.main)
  PROVE  /\ At(s, s.main[p].id) = p
         /\ s.main[p] \in Requests(s.main) /\ s.main[p] \in AllOf(s) /\ s.main[p] \in Request
         /\ Pointer(s, p) = s.main[p].id /\ s.main[p].id # EndOfList
<1>1. s \in Sock /\ Sorted(s.main)
  BY DEF InOrder
<1>2. Len(s.main) \in Nat /\ DOMAIN s.main = 1 .. Len(s.main)
  BY <1>1, InSock
<1>3. s.main[p] \in Requests(s.main) /\ s.main[p] \in AllOf(s)
  BY <1>2 DEF Requests, AllOf
<1>4. s.main[p] \in Request
  BY <1>1, <1>3, InSock
<1>5. \A q \in DOMAIN s.main : s.main[q].id = s.main[p].id => q = p
  BY <1>1, <1>2 DEF Sorted
<1>6. At(s, s.main[p].id) = p
  BY <1>2, <1>5 DEF At
<1> QED BY <1>2, <1>3, <1>4, <1>6, InRequest DEF Pointer, EndOfList

(* A pointer that is not at the end has a place.                            *)
LEMMA AtPointer ==
  ASSUME GoodRequests, NEW s, NEW n, InOrder(s, n), NEW id \in Pointers(s), id # EndOfList
  PROVE  At(s, id) \in 1 .. Len(s.main) /\ s.main[At(s, id)].id = id
<1>1. PICK p \in 1 .. Len(s.main) : s.main[p].id = id
  <2>1. s \in Sock
    BY DEF InOrder
  <2> QED BY <2>1, InSock DEF Pointers
<1> QED BY <1>1, AtPlace

(* What EndAll leaves alone, and what it changes.                           *)
SameSets(s, t) ==
  /\ t.fin = s.fin /\ t.fout = s.fout /\ t.ferr = s.ferr
  /\ t.rin = s.rin /\ t.rout = s.rout /\ t.rerr = s.rerr

SameRest(s, t) ==
  /\ t.count = s.count /\ t.waiting = s.waiting /\ t.top = s.top /\ t.newtop = s.newtop
  /\ t.active = s.active

IdsOf(rs) == {r.id : r \in rs}

Ended(s, t, rs) ==
  /\ SameSets(s, t) /\ SameRest(s, t)
  /\ t.main = Kept(s.main, Requests(s.main) \ rs) /\ t.wait = Kept(s.wait, Requests(s.wait) \ rs)
  /\ t.alarms = s.alarms \ IdsOf(rs)
  /\ t.answers = [i \in 1 .. MaxRequests |-> s.answers[i] + (IF i \in IdsOf(rs) THEN 1 ELSE 0)]
  /\ t.current = IF s.current = EndOfList THEN EndOfList
                 ELSE Pointer(s, Past(s, At(s, s.current), {q \in DOMAIN s.main : s.main[q] \in rs}))
  /\ t.deleted = (s.deleted \/ rs # {}) /\ t.delwalk = (s.delwalk \/ rs # {})

(* What request_destroy does to each part of sock.                          *)
LEMMA EndAllFields ==
  ASSUME NEW s \in Sock, NEW rs
  PROVE  /\ Ended(s, EndAll(s, rs), rs)
         /\ EndAll(s, rs) \in Sock <=>
              LET t == EndAll(s, rs)
              IN  t.main \in Seq(Request) /\ t.wait \in Seq(Request) /\ t.current \in Nat
                  /\ t.answers \in [1 .. MaxRequests -> Nat]
                  /\ t.alarms \in SUBSET (1 .. MaxRequests)
<1> DEFINE main == Kept(s.main, Requests(s.main) \ rs)
           wait == Kept(s.wait, Requests(s.wait) \ rs)
           alarms == s.alarms \ {r.id : r \in rs}
           answers == [i \in DOMAIN s.answers |-> s.answers[i] + (IF i \in {r.id : r \in rs} THEN 1 ELSE 0)]
           current == IF s.current = EndOfList THEN EndOfList
                      ELSE Pointer(s, Past(s, At(s, s.current), {q \in DOMAIN s.main : s.main[q] \in rs}))
           deleted == s.deleted \/ rs # {}
           delwalk == s.delwalk \/ rs # {}
           t == EndAll(s, rs)
<1>1. t = [[s EXCEPT !.answers = answers] EXCEPT !.alarms = alarms, !.deleted = deleted,
             !.delwalk = delwalk, !.current = current, !.main = main, !.wait = wait]
  BY DEF EndAll, Answered
<1>2. DOMAIN s.answers = 1 .. MaxRequests
  BY DEF Sock
<1>3. answers = [i \in 1 .. MaxRequests |-> s.answers[i] + (IF i \in IdsOf(rs) THEN 1 ELSE 0)]
  BY <1>2 DEF IdsOf
<1>4. alarms = s.alarms \ IdsOf(rs)
  BY DEF IdsOf
<1>5. deleted \in BOOLEAN /\ delwalk \in BOOLEAN
  BY DEF Sock
<1> HIDE DEF main, wait, alarms, answers, current, deleted, delwalk, t
<1>6. /\ t.main = main /\ t.wait = wait /\ t.alarms = alarms /\ t.answers = answers
      /\ t.current = current /\ t.deleted = deleted /\ t.delwalk = delwalk
      /\ SameSets(s, t) /\ SameRest(s, t)
  BY <1>1 DEF Sock, SameSets, SameRest
<1>7. t \in Sock <=> /\ main \in Seq(Request) /\ wait \in Seq(Request) /\ current \in Nat
                     /\ answers \in [1 .. MaxRequests -> Nat] /\ alarms \in SUBSET (1 .. MaxRequests)
  BY <1>1, <1>5 DEF Sock
<1>8. Ended(s, t, rs)
  BY <1>3, <1>4, <1>6 DEF Ended, main, wait, current, deleted, delwalk
<1> QED BY <1>6, <1>7, <1>8 DEF t

(* How current_request moves on when rs end.                                *)
Moved(s, t, rs) ==
  /\ s.current = EndOfList => t.current = EndOfList
  /\ s.current # EndOfList =>
       \E q \in At(s, s.current) .. Len(s.main) + 1 :
         /\ \A j \in At(s, s.current) .. q - 1 : s.main[j] \in rs
         /\ q =< Len(s.main) => s.main[q] \notin rs /\ t.current = s.main[q].id
         /\ q = Len(s.main) + 1 => t.current = EndOfList

(* current_request moves on to the next request that is left, or to the     *)
(* end.                                                                     *)
LEMMA CurrentMoves ==
  ASSUME GoodRequests, NEW s, NEW n, InOrder(s, n), NEW rs
  PROVE  Moved(s, EndAll(s, rs), rs)
<1> DEFINE t == EndAll(s, rs)
           here == At(s, s.current)
           places == {q \in DOMAIN s.main : s.main[q] \in rs}
           next == Past(s, here, places)
<1>1. s \in Sock /\ s.current \in Pointers(s)
  BY DEF InOrder
<1>2. Len(s.main) \in Nat /\ DOMAIN s.main = 1 .. Len(s.main)
  BY <1>1, InSock
<1>3. t.current = IF s.current = EndOfList THEN EndOfList ELSE Pointer(s, next)
  <2>1. Ended(s, t, rs)
    BY <1>1, EndAllFields
  <2> HIDE DEF t
  <2> QED BY <2>1 DEF Ended
<1> HIDE DEF t
<1>4. CASE s.current = EndOfList
  BY <1>3, <1>4 DEF Moved, t
<1>5. CASE s.current # EndOfList
  <2>1. here \in 1 .. Len(s.main)
    BY <1>1, <1>5, AtPointer
  <2>2. here \in 1 .. Len(s.main) + 1 /\ Len(s.main) + 1 \notin places
    BY <1>2, <2>1
  <2>3. /\ next \in here .. Len(s.main) + 1 /\ next \notin places
        /\ \A j \in here .. next - 1 : j \in places
    <3> HIDE DEF here, places
    <3> QED BY <1>2, <2>2, PastIs
  <2>4. \A j \in here .. next - 1 : s.main[j] \in rs
    <3> HIDE DEF here, next
    <3> QED BY <2>3
  <2>5. next \in 1 .. Len(s.main) + 1
    <3> HIDE DEF here, next, places
    <3> QED BY <1>2, <2>1, <2>3
  <2>6. next =< Len(s.main) => s.main[next] \notin rs /\ t.current = s.main[next].id
    <3>1. next =< Len(s.main) => next \in DOMAIN s.main
      <4> HIDE DEF next
      <4> QED BY <1>2, <2>5
    <3>2. next \in DOMAIN s.main => s.main[next] \notin rs
      <4> HIDE DEF next
      <4> QED BY <2>3
    <3> HIDE DEF next
    <3> QED BY <1>3, <1>5, <3>1, <3>2 DEF Pointer
  <2>7. next = Len(s.main) + 1 => t.current = EndOfList
    <3>1. next = Len(s.main) + 1 => next \notin DOMAIN s.main
      <4> HIDE DEF next
      <4> QED BY <1>2, <2>5
    <3> HIDE DEF next
    <3> QED BY <1>3, <1>5, <3>1 DEF Pointer
  <2> HIDE DEF next, places
  <2> QED BY <1>5, <2>3, <2>4, <2>6, <2>7 DEF Moved, t
<1> QED BY <1>4, <1>5

(* What answers says is right when those of rs that were in a list, and no  *)
(* others, get an answer and leave it.                                      *)
AnswersOk(s, n) == \A i \in 1 .. MaxRequests : s.answers[i] = IF i > n \/ i \in Ids(s) THEN 0 ELSE 1

(* Each request that ends is answered once, for the first time.             *)
LEMMA AnswersKeep ==
  ASSUME GoodRequests, NEW s, NEW n \in Nat, InOrder(s, n), NEW rs, rs \subseteq AllOf(s),
         NEW t, AllOf(t) = AllOf(s) \ rs,
         \A i \in 1 .. MaxRequests : t.answers[i] = s.answers[i] + (IF i \in IdsOf(rs) THEN 1 ELSE 0)
  PROVE  AnswersOk(t, n) /\ \A i \in Ids(t) : i =< n
<1>1. /\ \A i \in 1 .. MaxRequests : s.answers[i] = IF i > n \/ i \in Ids(s) THEN 0 ELSE 1
      /\ \A i \in Ids(s) : i =< n
  BY DEF InOrder
<1>2. \A i \in IdsOf(rs) : i \in Ids(s) /\ i \notin Ids(t)
  <2> SUFFICES ASSUME NEW r \in rs PROVE r.id \in Ids(s) /\ r.id \notin Ids(t)
    BY DEF IdsOf
  <2>1. \A x \in AllOf(s) : x.id = r.id => x = r
    BY OneNumber
  <2> QED BY <2>1 DEF Ids
<1>3. \A i \in Ids(s) : i \in Ids(t) \/ i \in IdsOf(rs)
  BY DEF Ids, IdsOf
<1>4. \A i \in Ids(t) : i \in Ids(s)
  BY DEF Ids
<1>5. ASSUME NEW i \in 1 .. MaxRequests
      PROVE  t.answers[i] = IF i > n \/ i \in Ids(t) THEN 0 ELSE 1
  <2>1. t.answers[i] = s.answers[i] + (IF i \in IdsOf(rs) THEN 1 ELSE 0)
    OBVIOUS
  <2>2. s.answers[i] = IF i > n \/ i \in Ids(s) THEN 0 ELSE 1
    BY <1>1
  <2>3. i \in Ids(s) => ~(i > n)
    <3>1. i \in Ids(s) => i =< n
      BY <1>1
    <3>2. MaxRequests \in Nat
      BY DEF GoodRequests
    <3> QED BY <3>1, <3>2
  <2> QED BY <2>1, <2>2, <2>3, <1>2, <1>3, <1>4
<1> QED BY <1>1, <1>4, <1>5 DEF AnswersOk

(* The lists stay in order when requests end.                               *)
LEMMA EndAllKeeps ==
  ASSUME GoodRequests, NEW s, NEW n \in Nat, InOrder(s, n), NEW rs, rs \subseteq AllOf(s)
  PROVE  /\ InOrder(EndAll(s, rs), n)
         /\ Requests(EndAll(s, rs).main) = Requests(s.main) \ rs
         /\ Requests(EndAll(s, rs).wait) = Requests(s.wait) \ rs
         /\ AllOf(EndAll(s, rs)) = AllOf(s) \ rs
<1> DEFINE t == EndAll(s, rs)
<1>1. /\ s \in Sock /\ Sorted(s.main) /\ Ascending(s.wait)
      /\ \A r \in Requests(s.main), w \in Requests(s.wait) :
           r.id # w.id /\ (r.handle = w.handle => r.id < w.id)
      /\ \A i \in 1 .. MaxRequests : s.answers[i] = IF i > n \/ i \in Ids(s) THEN 0 ELSE 1
      /\ \A i \in Ids(s) : i =< n
      /\ s.current \in Pointers(s)
  BY DEF InOrder
<1>2. Ended(s, t, rs)
  BY <1>1, EndAllFields
<1>3. s.main \in Seq(Request) /\ s.wait \in Seq(Request)
  BY <1>1, InSock
<1>4. /\ t.main \in Seq(Request) /\ t.wait \in Seq(Request)
      /\ Sorted(t.main) /\ Ascending(t.wait)
      /\ Requests(t.main) = Requests(s.main) \cap (Requests(s.main) \ rs)
      /\ Requests(t.wait) = Requests(s.wait) \cap (Requests(s.wait) \ rs)
  <2>1. /\ t.main = Kept(s.main, Requests(s.main) \ rs)
        /\ t.wait = Kept(s.wait, Requests(s.wait) \ rs)
    <3> HIDE DEF t
    <3> QED BY <1>2 DEF Ended
  <2> HIDE DEF t
  <2> QED BY <1>1, <1>3, <2>1, KeptParts, KeptSorted, KeptRequests
<1>5. /\ Requests(t.main) = Requests(s.main) \ rs
      /\ Requests(t.wait) = Requests(s.wait) \ rs
      /\ AllOf(t) = AllOf(s) \ rs
  <2> HIDE DEF t
  <2> QED BY <1>4 DEF AllOf
<1>6. t.current \in Pointers(t)
  <2>1. Moved(s, t, rs)
    BY CurrentMoves
  <2> HIDE DEF t
  <2>2. CASE s.current = EndOfList
    BY <2>1, <2>2 DEF Moved, Pointers
  <2>3. CASE s.current # EndOfList
    <3>1. PICK q \in At(s, s.current) .. Len(s.main) + 1 :
            /\ q =< Len(s.main) => s.main[q] \notin rs /\ t.current = s.main[q].id
            /\ q = Len(s.main) + 1 => t.current = EndOfList
      BY <2>1, <2>3 DEF Moved
    <3>2. At(s, s.current) \in 1 .. Len(s.main) /\ Len(s.main) \in Nat
      BY <1>1, <2>3, AtPointer, InSock
    <3>3. CASE q = Len(s.main) + 1
      BY <3>1, <3>3 DEF Pointers
    <3>4. CASE q =< Len(s.main)
      <4>1. q \in 1 .. Len(s.main)
        BY <3>2, <3>4
      <4>2. s.main[q] \in Requests(t.main)
        BY <3>1, <3>4, <4>1, <1>5, AtPlace
      <4> QED BY <3>1, <3>4, <4>2 DEF Pointers
    <3> QED BY <3>2, <3>3, <3>4
  <2> QED BY <2>2, <2>3
<1>7. \A i \in 1 .. MaxRequests : t.answers[i] = s.answers[i] + (IF i \in IdsOf(rs) THEN 1 ELSE 0)
  <2> HIDE DEF t
  <2> QED BY <1>2 DEF Ended
<1>11. AnswersOk(t, n) /\ \A i \in Ids(t) : i =< n
  <2> HIDE DEF t
  <2> QED BY <1>5, <1>7, AnswersKeep
<1>12. t \in Sock
  <2>1. t.answers \in [1 .. MaxRequests -> Nat]
    <3>1. t.answers = [i \in 1 .. MaxRequests |-> t.answers[i]]
      <4> HIDE DEF t
      <4> QED BY <1>2 DEF Ended
    <3> HIDE DEF t
    <3> QED BY <3>1, <1>11 DEF AnswersOk
  <2>2. t.alarms \in SUBSET (1 .. MaxRequests)
    <3> HIDE DEF t
    <3> QED BY <1>1, <1>2 DEF Ended, Sock
  <2>3. t.current \in Nat
    <3>1. t.current = EndOfList \/ \E r \in Requests(s.main) : r.id = t.current
      <4> HIDE DEF t
      <4> QED BY <1>5, <1>6 DEF Pointers
    <3>2. \A r \in Requests(s.main) : r.id \in Nat
      BY <1>1, InSock, InRequest DEF AllOf
    <3> QED BY <3>1, <3>2 DEF EndOfList
  <2> QED BY <1>1, <1>4, <2>1, <2>2, <2>3, EndAllFields
<1>13. InOrder(t, n)
  <2> HIDE DEF t
  <2>1. \A r \in Requests(t.main), w \in Requests(t.wait) :
          r.id # w.id /\ (r.handle = w.handle => r.id < w.id)
    BY <1>1, <1>5
  <2> QED BY <1>4, <1>6, <1>11, <1>12, <2>1 DEF InOrder, AnswersOk
<1> QED BY <1>5, <1>13

-----------------------------------------------------------------------------
(* The order of the requests, and where a walk is, when requests end.       *)

(* A request is at its place.                                               *)
LEMMA AtOf ==
  ASSUME GoodRequests, NEW s, NEW n, InOrder(s, n), NEW r \in Requests(s.main)
  PROVE  At(s, r.id) \in 1 .. Len(s.main) /\ s.main[At(s, r.id)] = r
<1>1. s \in Sock
  BY DEF InOrder
<1>2. PICK p \in 1 .. Len(s.main) : r = s.main[p]
  BY <1>1, InSock
<1> QED BY <1>2, AtPlace

(* Two requests that are left keep their order.                             *)
LEMMA EndAllOrder ==
  ASSUME GoodRequests, NEW s, NEW n \in Nat, InOrder(s, n), NEW rs, rs \subseteq AllOf(s),
         NEW a \in Requests(s.main) \ rs, NEW b \in Requests(s.main) \ rs
  PROVE  At(EndAll(s, rs), a.id) < At(EndAll(s, rs), b.id) <=> At(s, a.id) < At(s, b.id)
<1> DEFINE t == EndAll(s, rs)
<1>1. s \in Sock /\ InOrder(t, n) /\ a \in Requests(t.main) /\ b \in Requests(t.main)
  BY EndAllKeeps DEF InOrder
<1>2. s.main \in Seq(Request) /\ Len(s.main) \in Nat
  BY <1>1, InSock
<1>3. t.main = Kept(s.main, Requests(s.main) \ rs)
  <2>1. Ended(s, t, rs)
    BY <1>1, EndAllFields
  <2> HIDE DEF t
  <2> QED BY <2>1 DEF Ended
<1>4. PICK e : Part(s.main, t.main, Requests(s.main) \ rs, Len(s.main), e)
  <2>1. \E e : Part(s.main, Kept(s.main, Requests(s.main) \ rs), Requests(s.main) \ rs, Len(s.main), e)
    BY <1>2, KeptParts
  <2> HIDE DEF t
  <2> QED BY <1>3, <2>1
<1>5. t \in Sock
  <2> HIDE DEF t
  <2> QED BY <1>1 DEF InOrder
<1> HIDE DEF t
<1>6. PICK i \in 1 .. Len(t.main), j \in 1 .. Len(t.main) : a = t.main[i] /\ b = t.main[j]
  <2>1. Requests(t.main) = {t.main[p] : p \in 1 .. Len(t.main)}
    BY <1>5, InSock
  <2> QED BY <1>1, <2>1
<1>7. /\ e[i] \in 1 .. Len(s.main) /\ e[j] \in 1 .. Len(s.main)
      /\ a = s.main[e[i]] /\ b = s.main[e[j]]
      /\ (i < j => e[i] < e[j]) /\ (j < i => e[j] < e[i])
  BY <1>4, <1>6 DEF Part
<1>8. At(t, a.id) = i /\ At(t, b.id) = j
  BY <1>1, <1>6, AtPlace
<1>9. At(s, a.id) = e[i] /\ At(s, b.id) = e[j]
  BY <1>7, AtPlace
<1>10. i = j => e[i] = e[j]
  OBVIOUS
<1>11. i \in Nat /\ j \in Nat /\ e[i] \in Nat /\ e[j] \in Nat
  BY <1>2, <1>5, <1>6, <1>7, InSock
<1>12. At(t, a.id) < At(t, b.id) <=> At(s, a.id) < At(s, b.id)
  BY <1>7, <1>8, <1>9, <1>10, <1>11
<1> QED BY <1>12 DEF t

(* What is behind current_request stays behind it.                          *)
LEMMA EndAllDone ==
  ASSUME GoodRequests, NEW s, NEW n \in Nat, InOrder(s, n), NEW rs, rs \subseteq AllOf(s)
  PROVE  Done(EndAll(s, rs)) = Done(s) \ rs
<1> DEFINE t == EndAll(s, rs)
           here == At(s, s.current)
<1>1. /\ s \in Sock /\ InOrder(t, n) /\ s.current \in Pointers(s)
      /\ Requests(t.main) = Requests(s.main) \ rs
  BY EndAllKeeps DEF InOrder
<1>2. Moved(s, t, rs)
  BY CurrentMoves
<1>3. Len(s.main) \in Nat
  BY <1>1, InSock
<1>4. \A r \in Requests(s.main) : At(s, r.id) \in 1 .. Len(s.main) /\ s.main[At(s, r.id)] = r
  BY AtOf
<1>5. \A a, b \in Requests(t.main) : At(t, a.id) < At(t, b.id) <=> At(s, a.id) < At(s, b.id)
  BY <1>1, EndAllOrder
<1> HIDE DEF t
<1>6. CASE s.current = EndOfList
  <2>1. t.current = EndOfList
    BY <1>2, <1>6 DEF Moved
  <2> QED BY <1>1, <1>6, <2>1 DEF Done, t
<1>7. CASE s.current # EndOfList
  <2>1. here \in 1 .. Len(s.main) /\ s.main[here].id = s.current
    BY <1>1, <1>7, AtPointer
  <2>2. PICK q \in here .. Len(s.main) + 1 :
          /\ \A j \in here .. q - 1 : s.main[j] \in rs
          /\ q =< Len(s.main) => s.main[q] \notin rs /\ t.current = s.main[q].id
          /\ q = Len(s.main) + 1 => t.current = EndOfList
    BY <1>2, <1>7 DEF Moved
  <2> HIDE DEF here
  <2>3. ASSUME NEW r \in Requests(s.main) \ rs PROVE At(s, r.id) < q <=> At(s, r.id) < here
    <3>1. At(s, r.id) \in 1 .. Len(s.main) /\ s.main[At(s, r.id)] = r
      BY <1>4
    <3>2. At(s, r.id) \notin here .. q - 1
      BY <2>2, <3>1
    <3> QED BY <1>3, <2>1, <3>1, <3>2
  <2>4. CASE q = Len(s.main) + 1
    <3>1. t.current = EndOfList
      BY <2>2, <2>4
    <3>2. \A r \in Requests(s.main) \ rs : At(s, r.id) < here
      BY <1>3, <1>4, <2>3, <2>4
    <3> QED BY <1>1, <1>7, <3>1, <3>2 DEF Done, t, here
  <2>5. CASE q =< Len(s.main)
    <3>1. q \in 1 .. Len(s.main)
      BY <1>3, <2>1, <2>5
    <3>2. /\ s.main[q] \in Requests(t.main) /\ t.current = s.main[q].id
          /\ At(s, s.main[q].id) = q /\ t.current # EndOfList
      BY <1>1, <2>2, <2>5, <3>1, AtPlace
    <3>3. ASSUME NEW r \in Requests(t.main) PROVE At(t, r.id) < At(t, t.current) <=> At(s, r.id) < here
      <4>1. At(t, r.id) < At(t, t.current) <=> At(s, r.id) < At(s, s.main[q].id)
        BY <1>5, <3>2
      <4>2. At(s, r.id) < At(s, s.main[q].id) <=> At(s, r.id) < q
        BY <3>2
      <4> QED BY <1>1, <2>3, <4>1, <4>2
    <3> QED BY <1>1, <1>7, <3>2, <3>3 DEF Done, t, here
  <2> QED BY <1>3, <2>1, <2>2, <2>4, <2>5
<1> QED BY <1>6, <1>7

(* A request that is current and does not end stays current.                *)
LEMMA EndAllStays ==
  ASSUME GoodRequests, NEW s, NEW n \in Nat, InOrder(s, n), NEW rs, s.current \notin IdsOf(rs)
  PROVE  EndAll(s, rs).current = s.current
<1> DEFINE t == EndAll(s, rs)
<1>1. Moved(s, t, rs) /\ s.current \in Pointers(s) /\ s \in Sock
  BY CurrentMoves DEF InOrder
<1> HIDE DEF t
<1>2. CASE s.current = EndOfList
  BY <1>1, <1>2 DEF Moved, t
<1>3. CASE s.current # EndOfList
  <2>1. At(s, s.current) \in 1 .. Len(s.main) /\ s.main[At(s, s.current)].id = s.current
    BY <1>1, <1>3, AtPointer
  <2>2. PICK q \in At(s, s.current) .. Len(s.main) + 1 :
          /\ \A j \in At(s, s.current) .. q - 1 : s.main[j] \in rs
          /\ q =< Len(s.main) => t.current = s.main[q].id
    BY <1>1, <1>3 DEF Moved
  <2>3. s.main[At(s, s.current)] \notin rs
    BY <2>1 DEF IdsOf
  <2>4. Len(s.main) \in Nat
    BY <1>1, InSock
  <2>5. q = At(s, s.current)
    BY <2>1, <2>2, <2>3, <2>4
  <2> QED BY <2>1, <2>2, <2>5 DEF t
<1> QED BY <1>2, <1>3

(* When all requests of a socket end, the one that becomes current is the   *)
(* first of its socket.                                                     *)
LEMMA EndAllFirst ==
  ASSUME GoodRequests, NEW s, NEW n \in Nat, InOrder(s, n), NEW h, NEW rs,
         rs \subseteq AllOf(s), On(h, Requests(s.main)) \subseteq rs,
         \A r \in rs : r.handle = h,
         \A c \in Requests(s.main) : c.id = s.current =>
           c.handle = h \/ \A r \in Done(s) : ~Kin(r, c)
  PROVE  CurrentFirst(EndAll(s, rs))
<1> DEFINE t == EndAll(s, rs)
           here == At(s, s.current)
<1>1. /\ s \in Sock /\ Sorted(s.main) /\ s.current \in Pointers(s)
      /\ Requests(t.main) = Requests(s.main) \ rs
      /\ Done(t) = Done(s) \ rs
  BY EndAllKeeps, EndAllDone DEF InOrder
<1>2. Moved(s, t, rs)
  BY CurrentMoves
<1>3. s.current \notin IdsOf(rs) => t.current = s.current
  BY EndAllStays
<1>4. Len(s.main) \in Nat
  BY <1>1, InSock
<1> HIDE DEF t
<1> SUFFICES ASSUME NEW c \in Requests(t.main), c.id = t.current, NEW r \in Done(t) PROVE ~Kin(r, c)
  BY DEF CurrentFirst, t
<1>5. /\ c \in Requests(s.main) /\ c \notin rs /\ c.handle # h
      /\ r \in Done(s) /\ r \notin rs /\ r \in Requests(s.main) /\ r.handle # h
  BY <1>1 DEF Done, On
<1>6. CASE s.current \notin IdsOf(rs)
  BY <1>3, <1>5, <1>6
<1>7. CASE s.current \in IdsOf(rs)
  <2>1. PICK x \in rs : x.id = s.current
    BY <1>7 DEF IdsOf
  <2>2. s.current # EndOfList
    BY <1>1, <2>1, InSock, InRequest DEF EndOfList
  <2>3. here \in 1 .. Len(s.main) /\ s.main[here].id = s.current
    BY <1>1, <2>2, AtPointer
  <2>4. s.main[here] \in AllOf(s) /\ s.main[here] = x /\ s.main[here].handle = h
    <3>1. s.main[here] \in AllOf(s)
      BY <2>3, AtPlace
    <3> QED BY <2>1, <2>3, <3>1, OneNumber
  <2>5. PICK q \in here .. Len(s.main) + 1 :
          /\ \A j \in here .. q - 1 : s.main[j] \in rs
          /\ q =< Len(s.main) => s.main[q] \notin rs /\ t.current = s.main[q].id
          /\ q = Len(s.main) + 1 => t.current = EndOfList
    BY <1>2, <2>2 DEF Moved
  <2> HIDE DEF here
  <2>6. t.current # EndOfList
    BY <1>1, <1>5, InSock, InRequest DEF EndOfList, AllOf
  <2>7. q \in 1 .. Len(s.main) /\ here < q /\ t.current = s.main[q].id
    BY <1>4, <2>1, <2>3, <2>4, <2>5, <2>6
  <2>8. c = s.main[q]
    <3>1. s.main[q] \in AllOf(s) /\ c \in AllOf(s)
      BY <1>5, <2>7, AtPlace DEF AllOf
    <3> QED BY <2>7, <3>1, OneNumber
  <2>9. At(s, r.id) \in 1 .. Len(s.main) /\ s.main[At(s, r.id)] = r /\ At(s, r.id) < here
    BY <1>5, <2>2, AtOf DEF Done, here
  <2>10. r.handle = c.handle => s.main[here].handle = r.handle
    <3>1. At(s, r.id) < q /\ here \in At(s, r.id) .. q
      BY <1>4, <2>3, <2>7, <2>9
    <3> QED BY <1>1, <2>7, <2>8, <2>9, <3>1 DEF Sorted
  <2> QED BY <1>5, <2>4, <2>10 DEF Kin
<1> QED BY <1>6, <1>7

-----------------------------------------------------------------------------
(* Merging.                                                                 *)

(* Inserting adds the requests inserted.                                    *)
LEMMA InsertedRequests ==
  ASSUME NEW T, NEW list \in Seq(T), NEW more \in Seq(T), NEW p \in 1 .. Len(list) + 1
  PROVE  Requests(Inserted(list, p, more)) = Requests(list) \cup Requests(more)
<1> DEFINE new == Inserted(list, p, more)
           n == Len(list)
           m == Len(more)
<1>1. new \in Seq(T) /\ Put(list, p, more, new)
  BY InsertedIs
<1>2. n \in Nat /\ m \in Nat /\ DOMAIN list = 1 .. n /\ DOMAIN more = 1 .. m
  BY LenProperties
<1>3. Len(new) = n + m /\ DOMAIN new = 1 .. n + m
  <2>1. DOMAIN new = 1 .. Len(new)
    <3> HIDE DEF new
    <3> QED BY <1>1, LenProperties
  <2>2. Len(new) = n + m
    <3> HIDE DEF new
    <3> QED BY <1>1 DEF Put
  <2> HIDE DEF new, n, m
  <2> QED BY <2>1, <2>2
<1>4. /\ \A q \in 1 .. p - 1 : new[q] = list[q]
      /\ \A q \in p .. p + m - 1 : new[q] = more[q - p + 1]
      /\ \A q \in p + m .. n + m : new[q] = list[q - m]
  <2> HIDE DEF new
  <2> QED BY <1>1 DEF Put
<1> HIDE DEF new, n, m
<1>5. p \in 1 .. n + 1
  BY DEF n
<1>6. ASSUME NEW q \in 1 .. n + m PROVE new[q] \in Requests(list) \cup Requests(more)
  <2>1. CASE q \in 1 .. p - 1
    <3>1. q \in 1 .. n
      BY <1>2, <1>5, <2>1
    <3> QED BY <1>2, <1>4, <2>1, <3>1 DEF Requests
  <2>2. CASE q \in p .. p + m - 1
    <3>1. q - p + 1 \in 1 .. m
      BY <1>2, <1>5, <2>2
    <3> QED BY <1>2, <1>4, <2>2, <3>1 DEF Requests
  <2>3. CASE q \in p + m .. n + m
    <3>1. q - m \in 1 .. n
      BY <1>2, <1>5, <2>3
    <3> QED BY <1>2, <1>4, <2>3, <3>1 DEF Requests
  <2> QED BY <1>2, <1>5, <2>1, <2>2, <2>3
<1>7. ASSUME NEW q \in 1 .. n PROVE list[q] \in Requests(new)
  <2>1. CASE q \in 1 .. p - 1
    <3>1. q \in 1 .. n + m
      BY <1>2
    <3> QED BY <1>3, <1>4, <2>1, <3>1 DEF Requests
  <2>2. CASE q \in p .. n
    <3>1. q + m \in p + m .. n + m /\ (q + m) - m = q /\ q + m \in 1 .. n + m
      BY <1>2, <1>5, <2>2
    <3>2. new[q + m] = list[q]
      BY <1>4, <3>1
    <3> QED BY <1>3, <3>1, <3>2 DEF Requests
  <2> QED BY <1>2, <1>5, <2>1, <2>2
<1>8. ASSUME NEW q \in 1 .. m PROVE more[q] \in Requests(new)
  <2>1. q + p - 1 \in p .. p + m - 1 /\ (q + p - 1) - p + 1 = q /\ q + p - 1 \in 1 .. n + m
    BY <1>2, <1>5
  <2>2. new[q + p - 1] = more[q]
    BY <1>4, <2>1
  <2> QED BY <1>3, <2>1, <2>2 DEF Requests
<1>9. Requests(new) \subseteq Requests(list) \cup Requests(more)
  BY <1>3, <1>6 DEF Requests
<1>10. Requests(list) \subseteq Requests(new) /\ Requests(more) \subseteq Requests(new)
  BY <1>2, <1>7, <1>8 DEF Requests
<1> QED BY <1>9, <1>10 DEF new

(* Where the requests of a socket are whose first is at p: those for output *)
(* up to o, those for input up to i.                                        *)
Region(s, p, o, i, h) ==
  /\ o \in p .. Len(s.main) + 1 /\ i \in o .. Len(s.main) + 1 /\ p < i
  /\ \A j \in 1 .. p - 1 : s.main[j].handle # h
  /\ \A j \in p .. o - 1 : s.main[j].handle = h /\ request_is_output(s.main[j])
  /\ \A j \in o .. i - 1 : s.main[j].handle = h /\ request_is_input(s.main[j])
  /\ \A j \in i .. Len(s.main) : s.main[j].handle # h

(* The places at which merging looks: where the output requests of a socket *)
(* end, and where its requests end.                                         *)
LEMMA RegionIs ==
  ASSUME NEW s \in Sock, Sorted(s.main), NEW p \in 1 .. Len(s.main), NEW h, s.main[p].handle = h,
         \A j \in 1 .. p - 1 : s.main[j].handle # h,
         NEW o, o = Past(s, p, Outputs(s, h)),
         NEW i, i = Past(s, o, OnSocket(s, h))
  PROVE  Region(s, p, o, i, h)
<1> DEFINE n == Len(s.main)
<1>1. n \in Nat /\ DOMAIN s.main = 1 .. n
  BY InSock
<1> HIDE DEF n
<1>2. p \in 1 .. n /\ p \in 1 .. n + 1
  BY <1>1 DEF n
<1>3. \A j : (j \in OnSocket(s, h) <=> j \in 1 .. n /\ s.main[j].handle = h)
  BY <1>1 DEF OnSocket
<1>4. \A j : (j \in Outputs(s, h) <=> j \in 1 .. n /\ s.main[j].handle = h /\ request_is_output(s.main[j]))
  BY <1>1 DEF Outputs, OnSocket
<1>5. n + 1 \notin OnSocket(s, h) /\ n + 1 \notin Outputs(s, h)
  BY <1>1, <1>3, <1>4
<1>6. o \in p .. n + 1 /\ o \notin Outputs(s, h) /\ \A j \in p .. o - 1 : j \in Outputs(s, h)
  BY <1>1, <1>2, <1>5, PastIs DEF n
<1>7. o \in 1 .. n + 1
  BY <1>1, <1>2, <1>6
<1>8. i \in o .. n + 1 /\ i \notin OnSocket(s, h) /\ \A j \in o .. i - 1 : j \in OnSocket(s, h)
  BY <1>1, <1>7, <1>5, PastIs DEF n
<1>9. \A a, b \in 1 .. n : a < b /\ s.main[a].handle = s.main[b].handle =>
        /\ \A j \in a .. b : s.main[j].handle = s.main[a].handle
        /\ request_is_input(s.main[a]) => request_is_input(s.main[b])
  BY DEF Sorted, n
<1>10. p < i
  <2>1. p = o => request_is_input(s.main[p])
    BY <1>2, <1>4, <1>6 DEF request_is_output
  <2>2. i # p
    BY <1>2, <1>3, <1>8
  <2> QED BY <1>1, <1>2, <1>7, <1>8, <2>2, <1>6
<1>11. \A j \in o .. i - 1 : s.main[j].handle = h /\ request_is_input(s.main[j])
  <2> SUFFICES ASSUME NEW j \in o .. i - 1 PROVE s.main[j].handle = h /\ request_is_input(s.main[j])
    OBVIOUS
  <2>1. j \in 1 .. n /\ s.main[j].handle = h /\ o \in o .. i - 1 /\ o \in 1 .. n
    BY <1>1, <1>3, <1>7, <1>8
  <2>2. s.main[o].handle = h /\ request_is_input(s.main[o])
    BY <1>3, <1>4, <1>6, <1>8, <2>1 DEF request_is_output
  <2>3. o = j \/ o < j
    BY <1>7, <1>8
  <2> QED BY <1>9, <2>1, <2>2, <2>3
<1>12. \A j \in i .. n : s.main[j].handle # h
  <2> SUFFICES ASSUME NEW j \in i .. n, s.main[j].handle = h PROVE FALSE
    OBVIOUS
  <2>1. j \in 1 .. n /\ i \in p .. j /\ p < j /\ i \in 1 .. n
    BY <1>1, <1>2, <1>7, <1>8, <1>10
  <2>2. s.main[i].handle = h
    BY <1>2, <1>9, <2>1
  <2> QED BY <1>3, <1>8, <2>1, <2>2
<1>13. \A j \in p .. o - 1 : s.main[j].handle = h /\ request_is_output(s.main[j])
  BY <1>4, <1>6
<1> QED BY <1>6, <1>8, <1>10, <1>11, <1>12, <1>13 DEF Region, n

(* What merging makes of the lists.                                         *)
MergedLists(s, main, wait, p, h, outs, ins) ==
  /\ main \in Seq(Request) /\ wait \in Seq(Request)
  /\ Sorted(main) /\ Ascending(wait)
  /\ Requests(main) = Requests(s.main) \cup outs \cup ins
  /\ Requests(wait) = Requests(s.wait) \ On(h, Requests(s.wait))
  /\ p \in 1 .. Len(main) /\ main[p].handle = h /\ \A q \in 1 .. p - 1 : main[q] = s.main[q]

(* Merged requests fit where they are put.                                  *)
LEMMA MergedMain ==
  ASSUME GoodRequests, NEW s, NEW n, InOrder(s, n), NEW p \in 1 .. Len(s.main), NEW h,
         NEW o, NEW i, Region(s, p, o, i, h), NEW outs, NEW ins,
         outs \subseteq On(h, Requests(s.wait)), ins \subseteq On(h, Requests(s.wait)),
         \A r \in outs : request_is_output(r), \A r \in ins : request_is_input(r)
  PROVE  MergedLists(s, Inserted(Inserted(s.main, i, Kept(s.wait, ins)), o, Kept(s.wait, outs)),
                     Kept(s.wait, Requests(s.wait) \ On(h, Requests(s.wait))), p, h, outs, ins)
<1> DEFINE l0 == s.main
           ki == Kept(s.wait, ins)
           ko == Kept(s.wait, outs)
           l1 == Inserted(l0, i, ki)
           l2 == Inserted(l1, o, ko)
           rest == Requests(s.wait) \ On(h, Requests(s.wait))
           w == Kept(s.wait, rest)
<1>1. /\ s \in Sock /\ Sorted(l0) /\ Ascending(s.wait)
      /\ \A r \in Requests(l0), x \in Requests(s.wait) :
           r.id # x.id /\ (r.handle = x.handle => r.id < x.id)
  BY DEF InOrder
<1>2. l0 \in Seq(Request) /\ s.wait \in Seq(Request) /\ DOMAIN l0 = 1 .. Len(l0) /\ Len(l0) \in Nat
  BY <1>1, InSock
<1>3. /\ ki \in Seq(Request) /\ Ascending(ki) /\ Requests(ki) = ins
      /\ ko \in Seq(Request) /\ Ascending(ko) /\ Requests(ko) = outs
      /\ w \in Seq(Request) /\ Ascending(w) /\ Requests(w) = rest
  <2>1. ins \subseteq Requests(s.wait) /\ outs \subseteq Requests(s.wait) /\ rest \subseteq Requests(s.wait)
    BY DEF On
  <2> HIDE DEF rest
  <2>2. ki \in Seq(Request) /\ Ascending(ki) /\ Requests(ki) = Requests(s.wait) \cap ins
    BY <1>1, <1>2, KeptParts, KeptSorted, KeptRequests
  <2>3. ko \in Seq(Request) /\ Ascending(ko) /\ Requests(ko) = Requests(s.wait) \cap outs
    BY <1>1, <1>2, KeptParts, KeptSorted, KeptRequests
  <2>4. w \in Seq(Request) /\ Ascending(w) /\ Requests(w) = Requests(s.wait) \cap rest
    BY <1>1, <1>2, KeptParts, KeptSorted, KeptRequests
  <2> HIDE DEF ki, ko, w
  <2> QED BY <2>1, <2>2, <2>3, <2>4
<1>4. /\ o \in p .. Len(l0) + 1 /\ i \in o .. Len(l0) + 1 /\ p < i
      /\ \A j \in 1 .. p - 1 : l0[j].handle # h
      /\ \A j \in p .. o - 1 : l0[j].handle = h /\ request_is_output(l0[j])
      /\ \A j \in o .. i - 1 : l0[j].handle = h /\ request_is_input(l0[j])
      /\ \A j \in i .. Len(l0) : l0[j].handle # h
  BY DEF Region
<1> HIDE DEF ki, ko, rest, w, l0
<1> DEFINE a == Len(l0)
           b == Len(ki)
           c == Len(ko)
<1>5. /\ a \in Nat /\ b \in Nat /\ c \in Nat
      /\ DOMAIN ki = 1 .. b /\ DOMAIN ko = 1 .. c /\ DOMAIN l0 = 1 .. a
  BY <1>2, <1>3, LenProperties
<1>6. /\ p \in 1 .. a /\ o \in p .. a + 1 /\ i \in o .. a + 1 /\ p < i
      /\ \A j \in i .. a : l0[j].handle # h
  BY <1>4 DEF l0
<1>7. o \in 1 .. a + 1 /\ i \in 1 .. a + 1
  <2> HIDE DEF a
  <2> QED BY <1>5, <1>6
<1>8. l1 \in Seq(Request) /\ Put(l0, i, ki, l1) /\ Requests(l1) = Requests(l0) \cup ins
  BY <1>2, <1>3, <1>7, InsertedIs, InsertedRequests
<1> HIDE DEF l1, a, b, c
<1>9. /\ Len(l1) = a + b
      /\ \A q \in 1 .. i - 1 : l1[q] = l0[q]
      /\ \A q \in i .. i + b - 1 : l1[q] = ki[q - i + 1]
      /\ \A q \in i + b .. a + b : l1[q] = l0[q - b]
  BY <1>8 DEF Put, a, b
<1>10. o \in 1 .. Len(l1) + 1 /\ Len(l1) \in Nat
  BY <1>5, <1>7, <1>9
<1>11. l2 \in Seq(Request) /\ Put(l1, o, ko, l2) /\ Requests(l2) = Requests(l1) \cup outs
  BY <1>3, <1>8, <1>10, InsertedIs, InsertedRequests
<1> HIDE DEF l2
<1>12. /\ Len(l2) = Len(l1) + c
       /\ \A q \in 1 .. o - 1 : l2[q] = l1[q]
       /\ \A q \in o .. o + c - 1 : l2[q] = ko[q - o + 1]
       /\ \A q \in o + c .. Len(l1) + c : l2[q] = l1[q - c]
  BY <1>11 DEF Put, c
<1>13. /\ \A j \in 1 .. b : ki[j] \in ins /\ ki[j].handle = h /\ request_is_input(ki[j]) /\ ki[j].id \in Int
       /\ \A j \in 1 .. c : ko[j] \in outs /\ ko[j].handle = h /\ request_is_output(ko[j]) /\ ko[j].id \in Int
  <2>1. \A r \in ins \cup outs : r.handle = h /\ r \in Requests(s.wait)
    BY DEF On
  <2>2. \A r \in ins \cup outs : r.id \in Int
    BY <1>1, <2>1, InSock, InRequest DEF AllOf
  <2>3. (\A j \in 1 .. b : ki[j] \in ins) /\ (\A j \in 1 .. c : ko[j] \in outs)
    BY <1>3, <1>5 DEF Requests
  <2> QED BY <2>1, <2>2, <2>3
<1>14. \A j \in 1 .. a : l0[j] \in Requests(l0) /\ l0[j].id \in Int
  <2>1. \A j \in 1 .. a : l0[j] \in Requests(l0)
    BY <1>5 DEF Requests
  <2>2. \A r \in Requests(l0) : r.id \in Int
    BY <1>1, InSock, InRequest DEF AllOf, l0
  <2> QED BY <2>1, <2>2
<1>15. \A j \in 1 .. p - 1 : l0[j].handle # h
  BY <1>4 DEF l0
<1>16. \A j \in p .. o - 1 : l0[j].handle = h /\ request_is_output(l0[j])
  BY <1>4 DEF l0
<1>17. \A j \in o .. i - 1 : l0[j].handle = h /\ request_is_input(l0[j])
  BY <1>4 DEF l0
<1>18. ins \subseteq Requests(s.wait) /\ outs \subseteq Requests(s.wait)
  BY DEF On
<1>19. Fits(l0, i, ki, h, TRUE)
  <2>1. \A q \in 1 .. a, j \in 1 .. b : l0[q].id # ki[j].id /\ (l0[q].handle = h => l0[q].id < ki[j].id)
    BY <1>1, <1>13, <1>14, <1>18
  <2>2. ASSUME NEW q \in 1 .. i - 1, l0[q].handle = h, NEW j \in q .. i - 1 PROVE l0[j].handle = h
    <3>1. j \in p .. o - 1 \/ j \in o .. i - 1
      BY <1>5, <1>6, <1>7, <1>15, <2>2
    <3> QED BY <1>16, <1>17, <3>1
  <2>3. i - 1 \in p .. o - 1 \/ i - 1 \in o .. i - 1
    BY <1>5, <1>6, <1>7
  <2>4. i > 1 /\ l0[i - 1].handle = h
    BY <1>5, <1>6, <1>7, <1>16, <1>17, <2>3
  <2> QED BY <1>3, <1>6, <1>13, <2>1, <2>2, <2>4 DEF Fits, a, b
<1>20. Sorted(l1)
  <2>1. i \in 1 .. Len(l0) + 1
    BY <1>7 DEF a
  <2>2. \A j \in 1 .. Len(l0) : l0[j].id \in Int
    BY <1>14 DEF a
  <2>3. \A j \in 1 .. Len(ki) : ki[j].id \in Int
    BY <1>13 DEF b
  <2>4. Sorted(l0) /\ l0 \in Seq(Request)
    BY <1>1, <1>2 DEF l0
  <2> QED BY <1>3, <1>8, <1>19, <2>1, <2>2, <2>3, <2>4, PutSorted
<1>21. DOMAIN l1 = 1 .. Len(l1)
  BY <1>8, LenProperties
<1>22. \A r \in ins, x \in outs : r.id # x.id
  <2>1. \A r \in ins, x \in outs : r \in AllOf(s) /\ x \in AllOf(s) /\ r # x
    BY <1>18 DEF AllOf, request_is_output
  <2> QED BY <2>1, OneNumber
<1>23. Fits(l1, o, ko, h, FALSE)
  <2>1. ASSUME NEW q \in 1 .. Len(l1), NEW j \in 1 .. c
        PROVE  /\ l1[q].id # ko[j].id
               /\ l1[q].handle = h /\ (request_is_input(l1[q]) <=> FALSE) => l1[q].id < ko[j].id
    <3>1. l1[q] \in Requests(l0) \cup ins
      BY <1>8, <1>21 DEF Requests
    <3>2. ko[j] \in outs /\ ko[j].handle = h
      BY <1>13
    <3>3. CASE l1[q] \in ins
      BY <1>22, <3>2, <3>3
    <3>4. CASE l1[q] \in Requests(l0)
      BY <1>1, <1>18, <3>2, <3>4
    <3> QED BY <3>1, <3>3, <3>4
  <2>2. \A q \in 1 .. o - 1 : q \in 1 .. i - 1 /\ (q \in 1 .. p - 1 \/ q \in p .. o - 1)
    BY <1>5, <1>6, <1>7
  <2>3. ASSUME NEW q \in 1 .. o - 1, l1[q].handle = h
        PROVE  (\A j \in q .. o - 1 : l1[j].handle = h) /\ ~request_is_input(l1[q])
    <3>1. q \in p .. o - 1
      BY <1>9, <1>15, <2>2, <2>3
    <3>2. \A j \in q .. o - 1 : j \in p .. o - 1 /\ j \in 1 .. o - 1
      BY <1>5, <1>6, <1>7, <3>1
    <3> QED BY <1>9, <1>16, <2>2, <3>1, <3>2 DEF request_is_output
  <2>4. \A q \in o .. i + b - 1 : l1[q].handle = h /\ request_is_input(l1[q])
    <3> SUFFICES ASSUME NEW q \in o .. i + b - 1 PROVE l1[q].handle = h /\ request_is_input(l1[q])
      OBVIOUS
    <3>1. CASE q \in o .. i - 1
      <4>1. q \in 1 .. i - 1
        BY <1>7, <3>1
      <4> QED BY <1>9, <1>17, <3>1, <4>1
    <3>2. CASE q \in i .. i + b - 1
      <4>1. q - i + 1 \in 1 .. b
        BY <1>5, <1>7, <3>2
      <4> QED BY <1>9, <1>13, <3>2, <4>1
    <3>3. q \in o .. i - 1 \/ q \in i .. i + b - 1
      BY <1>5, <1>7
    <3> QED BY <3>1, <3>2, <3>3
  <2>5. \A q \in i + b .. a + b : l1[q].handle # h
    <3> SUFFICES ASSUME NEW q \in i + b .. a + b PROVE l1[q].handle # h
      OBVIOUS
    <3>1. q - b \in i .. a
      BY <1>5, <1>7
    <3> QED BY <1>6, <1>9, <3>1
  <2>6. ASSUME NEW q \in o .. Len(l1), l1[q].handle = h
        PROVE  (\A j \in o .. q : l1[j].handle = h) /\ request_is_input(l1[q])
    <3>1. q \in o .. i + b - 1
      BY <1>5, <1>7, <1>9, <2>5, <2>6
    <3>2. \A j \in o .. q : j \in o .. i + b - 1
      BY <1>5, <1>7, <3>1
    <3> QED BY <2>4, <3>1, <3>2
  <2>7. (o > 1 /\ l1[o - 1].handle = h) \/ (o =< Len(l1) /\ l1[o].handle = h)
    <3>1. CASE o = p
      <4>1. p \in o .. i + b - 1 /\ p =< Len(l1)
        BY <1>5, <1>6, <1>9, <3>1
      <4> QED BY <2>4, <3>1, <4>1
    <3>2. CASE o # p
      <4>1. o - 1 \in p .. o - 1 /\ o - 1 \in 1 .. i - 1 /\ o > 1
        BY <1>5, <1>6, <1>7, <3>2
      <4> QED BY <1>9, <1>16, <4>1
    <3> QED BY <3>1, <3>2
  <2>8. \A j \in 1 .. c : ko[j].handle = h /\ ~request_is_input(ko[j])
    BY <1>13 DEF request_is_output
  <2> QED BY <1>3, <2>1, <2>3, <2>6, <2>7, <2>8 DEF Fits, c
<1>24. Sorted(l2)
  <2>1. \A j \in 1 .. Len(l1) : l1[j].id \in Int
    <3>1. \A r \in Requests(l1) : r.id \in Int
      <4>1. \A r \in Requests(l0) \cup ins : r \in AllOf(s)
        BY <1>18 DEF AllOf, l0
      <4> QED BY <1>1, <1>8, <4>1, InSock, InRequest
    <3> QED BY <1>21, <3>1 DEF Requests
  <2>2. \A j \in 1 .. Len(ko) : ko[j].id \in Int
    BY <1>13 DEF c
  <2> QED BY <1>3, <1>8, <1>10, <1>11, <1>20, <1>23, <2>1, <2>2, PutSorted
<1>25. \A q \in 1 .. p - 1 : l2[q] = l0[q]
  <2>1. \A q \in 1 .. p - 1 : q \in 1 .. o - 1 /\ q \in 1 .. i - 1
    BY <1>5, <1>6, <1>7
  <2> QED BY <1>9, <1>12, <2>1
<1>26. p \in 1 .. Len(l2)
  BY <1>5, <1>6, <1>9, <1>12
<1>27. l2[p].handle = h
  <2>1. l1[p] = l0[p] /\ l0[p].handle = h
    <3>1. p \in 1 .. i - 1 /\ (p \in p .. o - 1 \/ p \in o .. i - 1)
      BY <1>5, <1>6, <1>7
    <3> QED BY <1>9, <1>16, <1>17, <3>1
  <2>2. CASE o # p
    <3>1. p \in 1 .. o - 1
      BY <1>5, <1>6, <1>7, <2>2
    <3> QED BY <1>12, <2>1, <3>1
  <2>3. CASE o = p /\ c = 0
    <3>1. p \in o + c .. Len(l1) + c /\ p - c = p
      BY <1>5, <1>6, <1>9, <2>3
    <3> QED BY <1>12, <2>1, <3>1
  <2>4. CASE o = p /\ c # 0
    <3>1. p \in o .. o + c - 1 /\ p - o + 1 = 1 /\ 1 \in 1 .. c
      BY <1>5, <1>6, <2>4
    <3> QED BY <1>12, <1>13, <3>1
  <2> QED BY <2>2, <2>3, <2>4
<1>28. MergedLists(s, l2, w, p, h, outs, ins)
  BY <1>3, <1>8, <1>11, <1>24, <1>25, <1>26, <1>27 DEF MergedLists, rest, l0
<1> QED BY <1>28 DEF l2, l1, l0, ki, ko, w, rest

(* Merging makes no more requests than there were.                          *)
LEMMA MergedBound ==
  ASSUME NEW s \in Sock, NEW o \in 1 .. Len(s.main) + 1, NEW i \in 1 .. Len(s.main) + 1,
         NEW here, NEW outs, NEW ins, NEW refused, here = (outs \cup ins) \cup refused,
         \A r \in outs : r \notin ins, \A r \in outs \cup ins : r \notin refused
  PROVE  Len(Inserted(Inserted(s.main, i, Kept(s.wait, ins)), o, Kept(s.wait, outs)))
           + Len(Kept(s.wait, Requests(s.wait) \ here)) =< Bound(s)
<1> DEFINE l0 == s.main
           w == s.wait
           ki == Kept(w, ins)
           ko == Kept(w, outs)
           l1 == Inserted(l0, i, ki)
           l2 == Inserted(l1, o, ko)
           rest == Requests(w) \ here
<1>1. l0 \in Seq(Request) /\ w \in Seq(Request) /\ Len(l0) \in Nat /\ Len(w) \in Nat
  BY InSock
<1>2. ki \in Seq(Request) /\ ko \in Seq(Request)
  BY <1>1, KeptParts
<1>3. Len(Kept(w, here)) + Len(Kept(w, rest)) = Len(w)
  BY <1>1, KeptSplit
<1>4. Len(Kept(w, here)) = Len(Kept(w, outs \cup ins)) + Len(Kept(w, refused))
  BY <1>1, KeptUnion
<1>5. Len(Kept(w, outs \cup ins)) = Len(Kept(w, outs)) + Len(Kept(w, ins))
  BY <1>1, KeptUnion
<1>6. /\ Len(Kept(w, here)) \in Nat /\ Len(Kept(w, rest)) \in Nat /\ Len(Kept(w, outs \cup ins)) \in Nat
      /\ Len(ko) \in Nat /\ Len(ki) \in Nat /\ Len(Kept(w, refused)) \in Nat
  BY <1>1, KeptParts
<1>7. l1 \in Seq(Request) /\ Len(l1) = Len(l0) + Len(ki)
  <2>1. i \in 1 .. Len(l0) + 1
    OBVIOUS
  <2> HIDE DEF ki, l0
  <2>2. l1 \in Seq(Request) /\ Put(l0, i, ki, l1)
    BY <1>1, <1>2, <2>1, InsertedIs
  <2> HIDE DEF l1
  <2> QED BY <2>2 DEF Put
<1>8. Len(l2) = Len(l1) + Len(ko)
  <2>1. o \in 1 .. Len(l0) + 1
    OBVIOUS
  <2> HIDE DEF l0, l1, ki, ko
  <2>2. o \in 1 .. Len(l1) + 1
    BY <1>1, <1>6, <1>7, <2>1
  <2>3. Put(l1, o, ko, l2)
    BY <1>2, <1>7, <2>2, InsertedIs
  <2> HIDE DEF l2
  <2> QED BY <2>3 DEF Put
<1> DEFINE u == outs \cup ins
<1> HIDE DEF l2, rest, u
<1>9. PICK a \in Nat, b \in Nat, c \in Nat, d \in Nat, e \in Nat, f \in Nat, g \in Nat, k \in Nat :
        /\ a = Len(Kept(w, here)) /\ b = Len(Kept(w, rest)) /\ c = Len(Kept(w, u))
        /\ d = Len(ko) /\ e = Len(ki) /\ f = Len(Kept(w, refused)) /\ g = Len(l0) /\ k = Len(w)
  BY <1>1, <1>6 DEF u
<1>10. a + b = k /\ a = c + f /\ c = d + e
  BY <1>3, <1>4, <1>5, <1>9 DEF u
<1>11. (g + e) + d + b =< g + k
  BY <1>10
<1>12. Len(l2) + Len(Kept(w, rest)) =< Len(l0) + Len(w)
  BY <1>7, <1>8, <1>9, <1>11
<1> QED BY <1>12 DEF Bound, l2, rest

(* Ending requests that are in no list changes no list.                     *)
LEMMA EndAllOthers ==
  ASSUME NEW s \in Sock, s.current \in Pointers(s), NEW rs, \A r \in AllOf(s) : r \notin rs
  PROVE  /\ EndAll(s, rs).main = s.main /\ EndAll(s, rs).wait = s.wait
         /\ EndAll(s, rs).current = s.current
<1> DEFINE t == EndAll(s, rs)
           none == {q \in DOMAIN s.main : s.main[q] \in rs}
           here == At(s, s.current)
<1>1. /\ s.main \in Seq(Request) /\ s.wait \in Seq(Request)
      /\ Len(s.main) \in Nat /\ DOMAIN s.main = 1 .. Len(s.main)
      /\ Requests(s.main) = {s.main[p] : p \in 1 .. Len(s.main)}
  BY InSock
<1>2. Ended(s, t, rs)
  BY EndAllFields
<1>3. Requests(s.main) \subseteq Requests(s.main) \ rs /\ Requests(s.wait) \subseteq Requests(s.wait) \ rs
  BY DEF AllOf
<1>4. /\ Kept(s.main, Requests(s.main) \ rs) = s.main
      /\ Kept(s.wait, Requests(s.wait) \ rs) = s.wait
  BY <1>1, <1>3, KeptAll
<1>5. t.current = s.current
  <2>1. t.current = IF s.current = EndOfList THEN EndOfList ELSE Pointer(s, Past(s, here, none))
    <3> HIDE DEF t
    <3> QED BY <1>2 DEF Ended
  <2> HIDE DEF t
  <2>2. CASE s.current = EndOfList
    BY <2>1, <2>2
  <2>3. CASE s.current # EndOfList
    <3>1. here \in DOMAIN s.main /\ s.main[here].id = s.current
      <4>1. \E q \in DOMAIN s.main : s.main[q].id = s.current
        BY <1>1, <2>3 DEF Pointers
      <4> QED BY <4>1 DEF At
    <3>2. none = {}
      BY <1>1 DEF AllOf
    <3> HIDE DEF here, none
    <3>3. here \in 1 .. Len(s.main) + 1 /\ Len(s.main) + 1 \notin none
      BY <1>1, <3>1, <3>2
    <3>4. Past(s, here, none) \in here .. Len(s.main) + 1 /\ \A j \in here .. Past(s, here, none) - 1 : j \in none
      BY <1>1, <3>3, PastIs
    <3>5. Past(s, here, none) = here
      BY <1>1, <3>2, <3>3, <3>4
    <3> QED BY <2>1, <2>3, <3>1, <3>5 DEF Pointer
  <2> QED BY <2>2, <2>3
<1>6. t.main = s.main /\ t.wait = s.wait
  <2> HIDE DEF t
  <2> QED BY <1>2, <1>4 DEF Ended
<1> QED BY <1>5, <1>6

(* What merging at p leaves, where h is the socket there.                   *)
MergedWell(s, m, p, n, h) ==
  /\ InOrder(m, n) /\ SameSets(s, m)
  /\ m.top = s.top /\ m.newtop = s.newtop /\ m.active = s.active
  /\ p \in 1 .. Len(m.main) /\ m.main[p].handle = h /\ \A q \in 1 .. p - 1 : m.main[q] = s.main[q]
  /\ Requests(s.main) \subseteq Requests(m.main) /\ AllOf(m) \subseteq AllOf(s)
  /\ \A r \in AllOf(s) : r.handle # h => r \in AllOf(m)
  /\ Requests(m.wait) = Requests(s.wait) \ On(h, Requests(s.wait))
  /\ m.alarms \subseteq s.alarms
  /\ m.waiting = s.waiting \ {h}
  /\ s.count = Len(s.wait) => m.count = Len(m.wait)
  /\ Bound(m) =< Bound(s)
  /\ \A x \in Handle : SocketOk(s, x, {}) => SocketOk(m, x, {})

(* A request that is refused is refused for one that is there.              *)
Refusing(s, m, h, refused) ==
  /\ AllOf(m) = AllOf(s) \ refused /\ Requests(s.main) \subseteq Requests(m.main)
  /\ \A r \in refused : r.handle = h
  /\ \A r \in refused : request_is_output(r) =>
       \E b \in On(h, Requests(s.main)) : request_is_output(b)
  /\ \A r \in refused : request_is_input(r) =>
       \E b \in On(h, Requests(s.main)) : request_is_input(b) \/ b.type = "close"

(* A refused request leaves another one of its kind on its socket, so that  *)
(* it is watched as before.                                                 *)
LEMMA RefusedSocket ==
  ASSUME NEW s, NEW m, NEW h, NEW refused, Refusing(s, m, h, refused),
         SameSets(s, m), Requests(s.main) \cap refused = {},
         NEW x, SocketOk(s, x, {})
  PROVE  SocketOk(m, x, {})
<1>1. m.fin = s.fin /\ m.fout = s.fout /\ m.ferr = s.ferr
  BY DEF SameSets
<1>2. /\ AllOf(m) = AllOf(s) \ refused /\ Requests(s.main) \subseteq Requests(m.main)
      /\ Requests(s.main) \subseteq AllOf(s) /\ Requests(s.main) \subseteq AllOf(m)
      /\ \A r \in refused : r.handle = h
  BY DEF Refusing, AllOf
<1>3. \A r \in On(x, AllOf(m)) : x \in m.ferr /\ x \in IF request_is_input(r) THEN m.fin ELSE m.fout
  BY <1>1, <1>2 DEF SocketOk, On
<1>4. ASSUME x \in m.fout PROVE \E r \in On(x, AllOf(m)) : request_is_output(r)
  <2>1. PICK r \in On(x, AllOf(s)) : request_is_output(r)
    BY <1>1, <1>4 DEF SocketOk
  <2>2. CASE r \in refused
    <3>1. x = h
      BY <1>2, <2>1, <2>2 DEF On
    <3>2. PICK b \in On(h, Requests(s.main)) : request_is_output(b)
      BY <2>1, <2>2 DEF Refusing
    <3> QED BY <1>2, <3>1, <3>2 DEF On
  <2>3. CASE r \notin refused
    BY <1>2, <2>1, <2>3 DEF On
  <2> QED BY <2>2, <2>3
<1>5. ASSUME x \in m.fin
      PROVE  \E r \in On(x, AllOf(m)) : request_is_input(r) \/ (r.type = "close" /\ r \in Requests(m.main))
  <2>1. PICK r \in On(x, AllOf(s)) : request_is_input(r) \/ (r.type = "close" /\ r \in Requests(s.main))
    BY <1>1, <1>5 DEF SocketOk
  <2>2. CASE r \in refused
    <3>1. x = h /\ request_is_input(r)
      BY <1>2, <2>1, <2>2 DEF On
    <3>2. PICK b \in On(h, Requests(s.main)) : request_is_input(b) \/ b.type = "close"
      BY <2>2, <3>1 DEF Refusing
    <3> QED BY <1>2, <3>1, <3>2 DEF On
  <2>3. CASE r \notin refused
    BY <1>2, <2>1, <2>3 DEF On
  <2> QED BY <2>2, <2>3
<1>6. x \in m.ferr <=> x \in m.fin \cup m.fout
  BY <1>1 DEF SocketOk
<1> QED BY <1>3, <1>4, <1>5, <1>6 DEF SocketOk

(* Merging at the first request of a socket keeps the lists in order, and   *)
(* all is watched as before.                                                *)
LEMMA MergeSame ==
  ASSUME GoodRequests, NEW s, NEW n \in Nat, InOrder(s, n), NEW p \in 1 .. Len(s.main),
         NEW h, h = s.main[p].handle, \A j \in 1 .. p - 1 : s.main[j].handle # h
  PROVE  MergedWell(s, merge_waiting_requests_same_socket(s, p), p, n, h)
<1> DEFINE o    == Past(s, p, Outputs(s, h))
           i    == Past(s, o, OnSocket(s, h))
           disallow_output == Of_type(s, p, o, {"output", "close"})
           disallow_input  == Of_type(s, p, o, {"close"}) \/ Of_type(s, o, i, {"input"})
                                \/ \E r \in Between(s, o, i) : r.repeat
           here    == On(h, Requests(s.wait))
           refused == {r \in here : IF request_is_output(r) THEN disallow_output ELSE disallow_input}
           outs    == {r \in here \ refused : request_is_output(r)}
           ins     == {r \in here \ refused : request_is_input(r)}
           t == Merged(s, h, o, outs, i, ins)
           m == EndAll(t, refused)
           main == Inserted(Inserted(s.main, i, Kept(s.wait, ins)), o, Kept(s.wait, outs))
           wait == Kept(s.wait, Requests(s.wait) \ here)
<1>1. m = merge_waiting_requests_same_socket(s, p)
  BY DEF merge_waiting_requests_same_socket
<1>2. /\ s \in Sock /\ Sorted(s.main) /\ s.current \in Pointers(s)
      /\ \A r \in Requests(s.main), w \in Requests(s.wait) :
           r.id # w.id /\ (r.handle = w.handle => r.id < w.id)
  BY DEF InOrder
<1>3. /\ Len(s.main) \in Nat /\ DOMAIN s.main = 1 .. Len(s.main)
      /\ Len(s.wait) \in Nat /\ s.wait \in Seq(Request)
  BY <1>2, InSock
<1>4. Region(s, p, o, i, h)
  <2> HIDE DEF o, i
  <2> QED BY <1>2, RegionIs DEF o, i
<1>5. /\ outs \subseteq here /\ ins \subseteq here /\ refused \subseteq here
      /\ here = (outs \cup ins) \cup refused
      /\ (\A r \in outs : request_is_output(r)) /\ (\A r \in ins : request_is_input(r))
      /\ (\A r \in outs : r \notin ins) /\ (\A r \in outs \cup ins : r \notin refused)
  <2> HIDE DEF disallow_output, disallow_input, here
  <2> QED BY DEF request_is_output
<1>6. /\ \A r \in refused : request_is_output(r) => disallow_output
      /\ \A r \in refused : request_is_input(r) => disallow_input
  <2> HIDE DEF disallow_output, disallow_input, here
  <2> QED BY DEF request_is_output
<1>7. t = [s EXCEPT !.main = main, !.wait = wait, !.count = s.count - Len(Kept(s.wait, here)),
                    !.waiting = s.waiting \ {h}]
  <2> HIDE DEF o, i, outs, ins, refused
  <2> QED BY DEF Merged
<1>8. MergedLists(s, main, wait, p, h, outs, ins)
  <2>1. outs \subseteq On(h, Requests(s.wait)) /\ ins \subseteq On(h, Requests(s.wait))
    BY <1>5
  <2> HIDE DEF o, i, refused, outs, ins
  <2> QED BY <1>4, <1>5, <2>1, MergedMain DEF here
<1>9. Len(main) + Len(wait) =< Bound(s)
  <2>1. o \in 1 .. Len(s.main) + 1 /\ i \in 1 .. Len(s.main) + 1
    <3> HIDE DEF o, i
    <3> QED BY <1>3, <1>4 DEF Region
  <2> HIDE DEF o, i, refused, outs, ins, here
  <2> QED BY <1>2, <1>5, <2>1, MergedBound
<1>10. Len(Kept(s.wait, here)) + Len(wait) = Len(s.wait) /\ Len(Kept(s.wait, here)) \in Nat /\ Len(wait) \in Nat
  <2> HIDE DEF here
  <2> QED BY <1>3, KeptSplit, KeptParts
<1> HIDE DEF o, i, outs, ins, refused, main, wait, t, m, disallow_output, disallow_input
<1>11. /\ main \in Seq(Request) /\ wait \in Seq(Request) /\ Sorted(main) /\ Ascending(wait)
       /\ Requests(main) = Requests(s.main) \cup outs \cup ins
       /\ Requests(wait) = Requests(s.wait) \ here
       /\ p \in 1 .. Len(main) /\ main[p].handle = h /\ \A q \in 1 .. p - 1 : main[q] = s.main[q]
  BY <1>8 DEF MergedLists
<1> DEFINE left == s.count - Len(Kept(s.wait, here))
<1>12. left \in Int
  BY <1>2, <1>10 DEF Sock
<1> HIDE DEF left, here
<1>13. /\ t \in Sock /\ t.main = main /\ t.wait = wait /\ t.count = left
       /\ t.waiting = s.waiting \ {h} /\ t.current = s.current /\ t.alarms = s.alarms
       /\ t.answers = s.answers /\ t.top = s.top /\ t.newtop = s.newtop /\ t.active = s.active
       /\ SameSets(s, t)
  BY <1>2, <1>7, <1>11, <1>12 DEF Sock, SameSets, left
<1>14. t.current \in Pointers(t)
  BY <1>2, <1>11, <1>13 DEF Pointers
<1>15. \A r \in here : r \in Requests(s.wait) /\ r.handle = h /\ r \notin Requests(s.main)
  BY <1>2 DEF here, On
<1>16. \A r \in AllOf(t) : r \notin refused
  BY <1>5, <1>11, <1>13, <1>15 DEF AllOf
<1>17. /\ m.main = main /\ m.wait = wait /\ m.current = s.current
  BY <1>13, <1>14, <1>16, EndAllOthers DEF m
<1>18. Ended(t, m, refused)
  BY <1>13, EndAllFields DEF m
<1>19. AllOf(m) = AllOf(s) \ refused /\ refused \subseteq AllOf(s)
  BY <1>5, <1>11, <1>15, <1>17 DEF AllOf
<1>20. \A j \in 1 .. MaxRequests : m.answers[j] = s.answers[j] + (IF j \in IdsOf(refused) THEN 1 ELSE 0)
  BY <1>13, <1>18 DEF Ended
<1>21. AnswersOk(m, n) /\ \A j \in Ids(m) : j =< n
  BY <1>19, <1>20, AnswersKeep
<1>22. m \in Sock
  <2>1. m.answers \in [1 .. MaxRequests -> Nat]
    <3>1. m.answers = [j \in 1 .. MaxRequests |-> m.answers[j]]
      BY <1>18 DEF Ended
    <3> QED BY <1>21, <3>1 DEF AnswersOk
  <2>2. m.alarms \in SUBSET (1 .. MaxRequests)
    BY <1>2, <1>13, <1>18 DEF Ended, Sock
  <2>3. m.current \in Nat
    BY <1>2, <1>17 DEF Sock
  <2> QED BY <1>11, <1>13, <1>17, <2>1, <2>2, <2>3, EndAllFields DEF m
<1>23. InOrder(m, n)
  <2>1. \A r \in Requests(m.main), w \in Requests(m.wait) :
          r.id # w.id /\ (r.handle = w.handle => r.id < w.id)
    <3> SUFFICES ASSUME NEW r \in Requests(m.main), NEW w \in Requests(m.wait)
                 PROVE  r.id # w.id /\ (r.handle = w.handle => r.id < w.id)
      OBVIOUS
    <3>1. w \in Requests(s.wait) /\ w \notin here /\ w.handle # h
      BY <1>11, <1>17 DEF here, On
    <3>2. CASE r \in Requests(s.main)
      BY <1>2, <3>1, <3>2
    <3>3. CASE r \in outs \cup ins
      <4>1. r \in here /\ r.handle = h /\ r \in AllOf(s) /\ w \in AllOf(s) /\ r # w
        BY <1>5, <1>15, <3>1, <3>3 DEF AllOf
      <4> QED BY <3>1, <4>1, OneNumber
    <3> QED BY <1>11, <1>17, <3>2, <3>3
  <2>2. m.current \in Pointers(m)
    BY <1>13, <1>14, <1>17 DEF Pointers
  <2> QED BY <1>11, <1>17, <1>21, <1>22, <2>1, <2>2 DEF InOrder, AnswersOk
<1>24. SameSets(s, m) /\ SameRest(t, m)
  BY <1>13, <1>18 DEF Ended, SameSets
<1>25. Refusing(s, m, h, refused)
  <2>0. /\ \A j \in p .. o - 1 : s.main[j].handle = h /\ request_is_output(s.main[j])
        /\ \A j \in o .. i - 1 : s.main[j].handle = h /\ request_is_input(s.main[j])
        /\ o \in p .. Len(s.main) + 1 /\ i \in o .. Len(s.main) + 1
    BY <1>4 DEF Region
  <2>1. /\ \A j \in p .. o - 1 : j \in DOMAIN s.main
        /\ \A j \in o .. i - 1 : j \in DOMAIN s.main
    BY <1>3, <2>0
  <2>2. \A b \in Between(s, p, o) : b \in On(h, Requests(s.main)) /\ request_is_output(b)
    BY <2>0, <2>1 DEF Between, On, Requests
  <2>3. \A b \in Between(s, o, i) : b \in On(h, Requests(s.main)) /\ request_is_input(b)
    BY <2>0, <2>1 DEF Between, On, Requests
  <2>4. disallow_output => \E b \in On(h, Requests(s.main)) : request_is_output(b)
    BY <2>2 DEF disallow_output, Of_type
  <2>5. disallow_input => \E b \in On(h, Requests(s.main)) : request_is_input(b) \/ b.type = "close"
    BY <2>2, <2>3 DEF disallow_input, Of_type
  <2> QED BY <1>5, <1>6, <1>11, <1>15, <1>17, <1>19, <2>4, <2>5 DEF Refusing
<1>26. ASSUME NEW x \in Handle, SocketOk(s, x, {}) PROVE SocketOk(m, x, {})
  <2>1. Requests(s.main) \cap refused = {}
    BY <1>5, <1>15
  <2> QED BY <1>2, <1>24, <1>25, <1>26, <2>1, RefusedSocket
<1>27. s.count = Len(s.wait) => m.count = Len(m.wait)
  <2>1. m.count = s.count - Len(Kept(s.wait, here))
    BY <1>13, <1>24 DEF SameRest, left
  <2>2. PICK a \in Nat, b \in Nat : a = Len(Kept(s.wait, here)) /\ b = Len(wait)
    BY <1>10
  <2>3. a + b = Len(s.wait)
    BY <1>10, <2>2
  <2>4. s.count = Len(s.wait) => s.count - a = b
    BY <1>3, <2>3
  <2> QED BY <1>17, <2>1, <2>2, <2>4
<1>28. Bound(m) =< Bound(s)
  BY <1>9, <1>17 DEF Bound
<1>29. \A r \in AllOf(s) : r.handle # h => r \in AllOf(m)
  BY <1>5, <1>15, <1>19
<1>30. /\ m.top = s.top /\ m.newtop = s.newtop /\ m.active = s.active /\ m.waiting = s.waiting \ {h}
       /\ m.alarms \subseteq s.alarms
  BY <1>13, <1>18 DEF Ended, SameRest
<1>31. MergedWell(s, m, p, n, h)
  BY <1>11, <1>17, <1>19, <1>23, <1>24, <1>26, <1>27, <1>28, <1>29, <1>30 DEF MergedWell, here
<1> QED BY <1>1, <1>31

(* So does the test before it, whether there is anything to merge or not;   *)
(* afterwards nothing waits for the socket.                                 *)
LEMMA MergeKeeps ==
  ASSUME GoodRequests, NEW s, NEW n \in Nat, InOrder(s, n), Counted(s), NEW p \in 1 .. Len(s.main),
         NEW h, h = s.main[p].handle, h \in s.waiting => \A j \in 1 .. p - 1 : s.main[j].handle # h
  PROVE  /\ MergedWell(s, MergeAt(s, p), p, n, h) /\ Counted(MergeAt(s, p))
         /\ h \notin MergeAt(s, p).waiting
         /\ h \notin s.waiting => MergeAt(s, p) = s
<1> DEFINE m == MergeAt(s, p)
<1>1. /\ s.waiting = Handles(s.wait) /\ s.count = Len(s.wait) /\ Handles(s.wait) \subseteq Handles(s.main)
  BY DEF Counted
<1>2. /\ s \in Sock /\ Len(s.wait) \in Nat /\ Requests(s.wait) = {s.wait[q] : q \in 1 .. Len(s.wait)}
      /\ Len(s.main) \in Nat
  BY InSock DEF InOrder
<1>3. h \in s.waiting => s.count > 0
  <2>1. h \in s.waiting => Requests(s.wait) # {}
    BY <1>1 DEF Handles
  <2> QED BY <1>1, <1>2, <2>1
<1>4. CASE h \in s.waiting
  <2>1. m = merge_waiting_requests_same_socket(s, p)
    BY <1>3, <1>4 DEF MergeAt
  <2>2. MergedWell(s, m, p, n, h)
    <3>1. \A j \in 1 .. p - 1 : s.main[j].handle # h
      BY <1>4
    <3>2. MergedWell(s, merge_waiting_requests_same_socket(s, p), p, n, h)
      BY <3>1, MergeSame
    <3> QED BY <2>1, <3>2
  <2> HIDE DEF m
  <2>3. /\ Requests(m.wait) = Requests(s.wait) \ On(h, Requests(s.wait))
        /\ m.waiting = s.waiting \ {h} /\ m.count = Len(m.wait)
        /\ Requests(s.main) \subseteq Requests(m.main)
    BY <1>1, <2>2 DEF MergedWell
  <2>4. Counted(m)
    BY <1>1, <2>3 DEF Counted, Handles, On
  <2> QED BY <1>4, <2>2, <2>3, <2>4 DEF m
<1>5. CASE h \notin s.waiting
  <2>1. m = s
    BY <1>5 DEF MergeAt
  <2>2. On(h, Requests(s.wait)) = {}
    BY <1>1, <1>5 DEF Handles, On
  <2>3. Bound(s) =< Bound(s)
    BY <1>2 DEF Bound
  <2>4. MergedWell(s, s, p, n, h)
    BY <1>5, <2>2, <2>3 DEF MergedWell, SameSets
  <2> QED BY <1>5, <2>1, <2>4
<1> QED BY <1>4, <1>5

-----------------------------------------------------------------------------
(* What steps leave of the other parts.                                     *)

(* Fewer requests and fewer alarms.                                         *)
LEMMA TimedLess ==
  ASSUME NEW s, NEW t, NEW all, NEW n, t.alarms \subseteq s.alarms, AllOf(t) \subseteq AllOf(s),
         Timed(s, all, n)
  PROVE  Timed(t, all, n)
BY DEF Timed

(* Fewer sockets in range of the same bound.                                *)
LEMMA TopsLess ==
  ASSUME NEW s, NEW t, t.top = s.top, Handles(t.main) \subseteq Handles(s.main), Tops(s)
  PROVE  Tops(t)
BY DEF Tops

(* Merging neither adds nor takes away a socket of main_list.               *)
LEMMA MergeHandles ==
  ASSUME NEW s, NEW m, NEW p, NEW n, NEW h, MergedWell(s, m, p, n, h), Counted(s)
  PROVE  Handles(m.main) = Handles(s.main)
<1>1. Requests(s.main) \subseteq Requests(m.main) /\ AllOf(m) \subseteq AllOf(s)
  BY DEF MergedWell
<1>2. Handles(s.wait) \subseteq Handles(s.main)
  BY DEF Counted
<1> QED BY <1>1, <1>2 DEF Handles, AllOf

(* A socket with the same requests, watched the same.                       *)
LEMMA SocketSame ==
  ASSUME NEW s, NEW t, NEW x, NEW out, NEW left, SocketOk(s, x, out),
         On(x, AllOf(t)) \ left = On(x, AllOf(s)) \ out,
         On(x, Requests(s.main)) \ out \subseteq Requests(t.main),
         x \in t.fin <=> x \in s.fin, x \in t.fout <=> x \in s.fout, x \in t.ferr <=> x \in s.ferr
  PROVE  SocketOk(t, x, left)
<1>1. \A r \in On(x, AllOf(t)) \ left :
        x \in t.ferr /\ x \in IF request_is_input(r) THEN t.fin ELSE t.fout
  BY DEF SocketOk
<1>2. x \in t.fout => \E r \in On(x, AllOf(t)) \ left : request_is_output(r)
  BY DEF SocketOk
<1>3. ASSUME x \in t.fin
      PROVE  \E r \in On(x, AllOf(t)) \ left :
               request_is_input(r) \/ (r.type = "close" /\ r \in Requests(t.main))
  <2>1. PICK r \in On(x, AllOf(s)) \ out :
          request_is_input(r) \/ (r.type = "close" /\ r \in Requests(s.main))
    BY <1>3 DEF SocketOk
  <2>2. r \in Requests(s.main) => r \in Requests(t.main)
    BY <2>1 DEF On
  <2> QED BY <2>1, <2>2
<1>4. x \in t.ferr <=> x \in t.fin \cup t.fout
  BY DEF SocketOk
<1> QED BY <1>1, <1>2, <1>3, <1>4 DEF SocketOk

(* A socket without requests that is not watched.                           *)
LEMMA SocketNone ==
  ASSUME NEW t, NEW x, NEW out, On(x, AllOf(t)) \subseteq out,
         x \notin t.fin, x \notin t.fout, x \notin t.ferr
  PROVE  SocketOk(t, x, out)
BY DEF SocketOk

(* What is left when requests of a socket end for which none waits.         *)
EndedWell(s, t, rs, n) ==
  /\ InOrder(t, n) /\ Counted(t) /\ SameSets(s, t) /\ SameRest(s, t)
  /\ Requests(t.main) = Requests(s.main) \ rs /\ t.wait = s.wait
  /\ AllOf(t) = AllOf(s) \ rs
  /\ t.alarms \subseteq s.alarms
  /\ Done(t) = Done(s) \ rs

(* Requests of a socket for which none waits end, and the lists agree with  *)
(* each other as before.                                                    *)
LEMMA EndSome ==
  ASSUME GoodRequests, NEW s, NEW n \in Nat, InOrder(s, n), Counted(s), NEW h, h \notin s.waiting,
         NEW rs, rs \subseteq Requests(s.main), \A r \in rs : r.handle = h
  PROVE  EndedWell(s, EndAll(s, rs), rs, n)
<1> DEFINE t == EndAll(s, rs)
<1>1. /\ s \in Sock /\ s.wait \in Seq(Request)
      /\ \A r \in Requests(s.main), w \in Requests(s.wait) : r.id # w.id
  BY InSock DEF InOrder
<1>2. rs \subseteq AllOf(s)
  BY DEF AllOf
<1>3. /\ InOrder(t, n) /\ Requests(t.main) = Requests(s.main) \ rs /\ AllOf(t) = AllOf(s) \ rs
      /\ Done(t) = Done(s) \ rs
  BY <1>2, EndAllKeeps, EndAllDone
<1>4. Ended(s, t, rs)
  BY <1>1, EndAllFields
<1> HIDE DEF t
<1>5. t.wait = s.wait
  <2>1. Requests(s.wait) \subseteq Requests(s.wait) \ rs
    BY <1>1
  <2>2. Kept(s.wait, Requests(s.wait) \ rs) = s.wait
    BY <1>1, <2>1, KeptAll
  <2> QED BY <1>4, <2>2 DEF Ended
<1>6. SameSets(s, t) /\ SameRest(s, t) /\ t.alarms \subseteq s.alarms
  BY <1>4 DEF Ended
<1>7. Counted(t)
  <2>1. Handles(s.wait) \subseteq Handles(t.main)
    BY <1>3 DEF Counted, Handles
  <2> QED BY <1>5, <1>6, <2>1 DEF Counted, SameRest
<1> QED BY <1>3, <1>5, <1>6, <1>7 DEF EndedWell, t

(* A step that leaves the lists alone.                                      *)
SameLists(s, t) ==
  /\ t \in Sock /\ t.main = s.main /\ t.wait = s.wait /\ t.count = s.count /\ t.waiting = s.waiting
  /\ t.alarms = s.alarms /\ t.answers = s.answers

(* The same lists, and a pointer into them.                                 *)
LEMMA SameWell ==
  ASSUME NEW s, NEW t, NEW n, NEW all, Well(s, n, all), SameLists(s, t), t.current \in Pointers(s),
         t.top = s.top
  PROVE  Well(t, n, all)
<1>1. AllOf(t) = AllOf(s) /\ Handles(t.main) = Handles(s.main) /\ Handles(t.wait) = Handles(s.wait)
  BY DEF SameLists, AllOf
<1>2. Ids(t) = Ids(s) /\ Pointers(t) = Pointers(s)
  BY <1>1 DEF Ids, Pointers, SameLists
<1>3. InOrder(t, n)
  <2>1. /\ Sorted(s.main) /\ Ascending(s.wait)
        /\ \A r \in Requests(s.main), w \in Requests(s.wait) :
             r.id # w.id /\ (r.handle = w.handle => r.id < w.id)
        /\ \A i \in 1 .. MaxRequests : s.answers[i] = IF i > n \/ i \in Ids(s) THEN 0 ELSE 1
        /\ \A i \in Ids(s) : i =< n
    BY DEF Well, InOrder
  <2>2. t \in Sock /\ t.main = s.main /\ t.wait = s.wait /\ t.answers = s.answers
    BY DEF SameLists
  <2> QED BY <1>2, <2>1, <2>2 DEF InOrder
<1>4. Counted(t)
  BY <1>1 DEF Well, Counted, SameLists
<1>5. Tops(t)
  BY <1>1 DEF Well, Tops
<1>6. Timed(t, all, n)
  BY <1>1 DEF Well, Timed, SameLists
<1> QED BY <1>3, <1>4, <1>5, <1>6 DEF Well

(* The same list and pointer: the same requests are behind it.              *)
LEMMA SameDone ==
  ASSUME NEW s, NEW t, t.main = s.main, t.current = s.current
  PROVE  Done(t) = Done(s)
BY DEF Done, At

(* When a request ends for which another one of its kind is there, its      *)
(* socket is watched as before.                                             *)
LEMMA OthersOk ==
  ASSUME NEW s, AllOk(s, {}), NEW r, r.type # "close", NEW b \in AllOf(s), b # r, Kin(b, r)
  PROVE  AllOk(s, {r})
<1> SUFFICES ASSUME NEW x \in Handle PROVE SocketOk(s, x, {r})
  BY DEF AllOk
<1>1. SocketOk(s, x, {})
  BY DEF AllOk
<1>2. \A a \in On(x, AllOf(s)) \ {r} : x \in s.ferr /\ x \in IF request_is_input(a) THEN s.fin ELSE s.fout
  BY <1>1 DEF SocketOk
<1>3. ASSUME x \in s.fout PROVE \E a \in On(x, AllOf(s)) \ {r} : request_is_output(a)
  <2>1. PICK a \in On(x, AllOf(s)) : request_is_output(a)
    BY <1>1, <1>3 DEF SocketOk
  <2>2. a = r => b \in On(x, AllOf(s)) \ {r} /\ request_is_output(b)
    BY <2>1 DEF Kin, On, request_is_output
  <2> QED BY <2>1, <2>2
<1>4. ASSUME x \in s.fin
      PROVE  \E a \in On(x, AllOf(s)) \ {r} :
               request_is_input(a) \/ (a.type = "close" /\ a \in Requests(s.main))
  <2>1. PICK a \in On(x, AllOf(s)) :
          request_is_input(a) \/ (a.type = "close" /\ a \in Requests(s.main))
    BY <1>1, <1>4 DEF SocketOk
  <2>2. a = r => b \in On(x, AllOf(s)) \ {r} /\ request_is_input(b)
    BY <2>1 DEF Kin, On
  <2> QED BY <2>1, <2>2
<1>5. x \in s.ferr <=> x \in s.fin \cup s.fout
  BY <1>1 DEF SocketOk
<1> QED BY <1>2, <1>3, <1>4, <1>5 DEF SocketOk

(* When it was the last of its kind, its socket is not watched for the kind *)
(* any more.                                                                *)
LEMMA LastOk ==
  ASSUME NEW s, AllOk(s, {}), NEW r \in Requests(s.main), r.type # "close", r.handle \in Handle,
         \A b \in AllOf(s) : Kin(b, r) => b = r,
         NEW t, t.main = s.main, t.wait = s.wait,
         t.fin  = IF request_is_input(r) THEN s.fin \ {r.handle} ELSE s.fin,
         t.fout = IF request_is_input(r) THEN s.fout ELSE s.fout \ {r.handle},
         t.ferr = IF r.handle \in t.fin \cup t.fout THEN s.ferr ELSE s.ferr \ {r.handle}
  PROVE  AllOk(t, {r})
<1> DEFINE h == r.handle
<1>1. AllOf(t) = AllOf(s) /\ r \in AllOf(s)
  BY DEF AllOf
<1>2. SocketOk(s, h, {})
  BY DEF AllOk
<1>3. \A b \in On(h, AllOf(s)) \ {r} : request_is_input(b) <=> ~request_is_input(r)
  BY DEF On, Kin
<1>4. SocketOk(t, h, {r})
  <2>1. \A a \in On(h, AllOf(t)) \ {r} : h \in t.ferr /\ h \in IF request_is_input(a) THEN t.fin ELSE t.fout
    <3> SUFFICES ASSUME NEW a \in On(h, AllOf(s)) \ {r}
                 PROVE  h \in t.ferr /\ h \in IF request_is_input(a) THEN t.fin ELSE t.fout
      BY <1>1
    <3>1. h \in s.ferr /\ h \in IF request_is_input(a) THEN s.fin ELSE s.fout
      BY <1>2 DEF SocketOk
    <3>2. request_is_input(a) <=> ~request_is_input(r)
      BY <1>3
    <3> QED BY <3>1, <3>2
  <2>2. h \in t.fout => \E a \in On(h, AllOf(t)) \ {r} : request_is_output(a)
    <3>1. h \in t.fout => request_is_input(r) /\ h \in s.fout
      OBVIOUS
    <3>2. h \in s.fout => \E a \in On(h, AllOf(s)) : request_is_output(a)
      BY <1>2 DEF SocketOk
    <3> QED BY <1>1, <3>1, <3>2 DEF request_is_output
  <2>3. h \in t.fin => \E a \in On(h, AllOf(t)) \ {r} :
                         request_is_input(a) \/ (a.type = "close" /\ a \in Requests(t.main))
    <3>1. h \in t.fin => ~request_is_input(r) /\ h \in s.fin
      OBVIOUS
    <3>2. h \in s.fin => \E a \in On(h, AllOf(s)) :
                           request_is_input(a) \/ (a.type = "close" /\ a \in Requests(s.main))
      BY <1>2 DEF SocketOk
    <3> QED BY <1>1, <3>1, <3>2
  <2>4. h \in t.ferr <=> h \in t.fin \cup t.fout
    <3>1. h \in s.ferr <=> h \in s.fin \cup s.fout
      BY <1>2 DEF SocketOk
    <3> QED BY <3>1
  <2> QED BY <2>1, <2>2, <2>3, <2>4 DEF SocketOk
<1>5. ASSUME NEW x \in Handle, x # h PROVE SocketOk(t, x, {r})
  <2>1. SocketOk(s, x, {})
    BY DEF AllOk
  <2>2. On(x, AllOf(t)) \ {r} = On(x, AllOf(s)) \ {} /\ On(x, Requests(s.main)) \ {} \subseteq Requests(t.main)
    BY <1>1, <1>5 DEF On
  <2>3. (x \in t.fin <=> x \in s.fin) /\ (x \in t.fout <=> x \in s.fout) /\ (x \in t.ferr <=> x \in s.ferr)
    BY <1>5
  <2> QED BY <2>1, <2>2, <2>3, SocketSame
<1> QED BY <1>4, <1>5 DEF AllOk

(* The first of its kind is the last one too when the next one is not of    *)
(* its kind.                                                                *)
LEMMA LastOfKind ==
  ASSUME GoodRequests, NEW s, NEW n, InOrder(s, n), NEW p \in 1 .. Len(s.main), NEW r, r = s.main[p],
         r.handle \notin Handles(s.wait), \A q \in 1 .. p - 1 : ~Kin(s.main[q], r),
         p + 1 \in 1 .. Len(s.main) => ~Kin(s.main[p + 1], r)
  PROVE  \A b \in AllOf(s) : Kin(b, r) => b = r
<1> SUFFICES ASSUME NEW b \in AllOf(s), Kin(b, r) PROVE b = r
  OBVIOUS
<1>1. s \in Sock /\ Sorted(s.main) /\ Len(s.main) \in Nat
  BY InSock DEF InOrder
<1>2. b \in Requests(s.main)
  BY DEF AllOf, Handles, Kin
<1>3. PICK q \in 1 .. Len(s.main) : b = s.main[q]
  BY <1>2, AtOf
<1>4. ~(q < p)
  BY <1>1, <1>3
<1>5. ~(p < q)
  <2> SUFFICES ASSUME p < q PROVE FALSE
    OBVIOUS
  <2>1. p + 1 \in 1 .. Len(s.main) /\ p + 1 \in p .. q /\ (p + 1 = q \/ p + 1 < q)
    BY <1>1
  <2>2. s.main[p + 1].handle = r.handle
    BY <1>1, <1>3, <2>1 DEF Sorted, Kin
  <2>3. request_is_input(r) => request_is_input(s.main[p + 1])
    BY <1>1, <2>1, <2>2 DEF Sorted
  <2>4. request_is_input(s.main[p + 1]) => request_is_input(b)
    BY <1>1, <1>3, <2>1, <2>2 DEF Sorted, Kin
  <2> QED BY <2>1, <2>2, <2>3, <2>4 DEF Kin
<1>6. p = q
  BY <1>1, <1>4, <1>5
<1> QED BY <1>3, <1>6

SetsOnly(s, t) ==
  /\ SameLists(s, t) /\ t.current = s.current /\ t.active = s.active
  /\ t.top = s.top /\ t.newtop = s.newtop /\ t.rerr = s.rerr

cleared(s, r) == IF request_is_input(r) THEN clear_check_after_input_request(s, r)
                 ELSE clear_check_after_output_request(s, r)

(* clear_check_* unwatches exactly the request at p when it looks at the    *)
(* next one alone, because the request is the first of its kind and none    *)
(* waits for its socket.                                                    *)
LEMMA Cleared ==
  ASSUME GoodRequests, NEW s, NEW n, InOrder(s, n), NEW p \in 1 .. Len(s.main), NEW r, r = s.main[p],
         r.type # "close", r.handle \notin Handles(s.wait),
         \A q \in 1 .. p - 1 : ~Kin(s.main[q], r), AllOk(s, {}),
         NEW u \in Sock, u.main = s.main, u.wait = s.wait,
         u.fin = s.fin, u.fout = s.fout, u.ferr = s.ferr
  PROVE  AllOk(cleared(u, r), {r}) /\ SetsOnly(u, cleared(u, r))
<1> DEFINE t == cleared(u, r)
           h == r.handle
           fin == IF request_is_input(r) THEN u.fin \ {h} ELSE u.fin
           fout == IF request_is_input(r) THEN u.fout ELSE u.fout \ {h}
           ferr == IF h \in fin \cup fout THEN u.ferr ELSE u.ferr \ {h}
           Next == p + 1 \in 1 .. Len(s.main) /\ Kin(s.main[p + 1], r)
<1>1. /\ s \in Sock /\ Sorted(s.main) /\ Len(s.main) \in Nat /\ DOMAIN s.main = 1 .. Len(s.main)
  BY InSock DEF InOrder
<1>2. At(u, r.id) = p /\ r \in Requests(s.main) /\ r \in AllOf(s) /\ h \in Handle
  <2>1. At(s, r.id) = p /\ r \in Requests(s.main) /\ r \in AllOf(s) /\ r \in Request
    BY AtPlace
  <2> QED BY <2>1, InRequest DEF At
<1>3. p + 1 \in 1 .. Len(s.main) /\ s.main[p + 1].handle = h /\ request_is_input(r) =>
        request_is_input(s.main[p + 1])
  <2>1. p < p + 1
    BY <1>1
  <2> QED BY <1>1, <2>1 DEF Sorted
<1>4. t = IF Next THEN u ELSE [u EXCEPT !.fin = fin, !.fout = fout, !.ferr = ferr]
  <2>1. CASE request_is_input(r)
    <3>1. Next <=> p + 1 \in DOMAIN u.main /\ u.main[p + 1].handle = h
      BY <1>1, <1>3, <2>1 DEF Kin
    <3>2. t = clear_check_after_input_request(u, r)
      BY <2>1 DEF cleared
    <3>3. fin = u.fin \ {h} /\ fout = u.fout
      BY <2>1
    <3> HIDE DEF t, Next, fin, fout
    <3>4. CASE Next
      BY <1>2, <3>1, <3>2, <3>4 DEF clear_check_after_input_request
    <3>5. CASE ~Next
      <4>1. t = IF h \in u.fout THEN [u EXCEPT !.fin = u.fin \ {h}]
                ELSE [[u EXCEPT !.fin = u.fin \ {h}] EXCEPT !.ferr = u.ferr \ {h}]
        BY <1>2, <3>1, <3>2, <3>5 DEF clear_check_after_input_request, Sock
      <4>2. ferr = IF h \in u.fout THEN u.ferr ELSE u.ferr \ {h}
        BY <3>3
      <4> HIDE DEF ferr
      <4>3. u = [u EXCEPT !.fout = u.fout] /\ u = [u EXCEPT !.ferr = u.ferr]
        BY DEF Sock
      <4> QED BY <3>3, <3>5, <4>1, <4>2 DEF Sock
    <3> QED BY <3>4, <3>5
  <2>2. CASE ~request_is_input(r)
    <3>1. Next <=> /\ p + 1 \in DOMAIN u.main /\ u.main[p + 1].handle = h
                   /\ request_is_output(u.main[p + 1])
      BY <1>1, <1>3, <2>2 DEF Kin, request_is_output
    <3>2. t = clear_check_after_output_request(u, r)
      BY <2>2 DEF cleared
    <3>3. fin = u.fin /\ fout = u.fout \ {h}
      BY <2>2
    <3> HIDE DEF t, Next, fin, fout
    <3>4. CASE Next
      BY <1>2, <3>1, <3>2, <3>4 DEF clear_check_after_output_request
    <3>5. CASE ~Next
      <4>1. t = IF h \in u.fin THEN [u EXCEPT !.fout = u.fout \ {h}]
                ELSE [[u EXCEPT !.fout = u.fout \ {h}] EXCEPT !.ferr = u.ferr \ {h}]
        BY <1>2, <3>1, <3>2, <3>5 DEF clear_check_after_output_request, Sock
      <4>2. ferr = IF h \in u.fin THEN u.ferr ELSE u.ferr \ {h}
        BY <3>3
      <4> HIDE DEF ferr
      <4> QED BY <3>3, <3>5, <4>1, <4>2 DEF Sock
    <3> QED BY <3>4, <3>5
  <2> QED BY <2>1, <2>2
<1>5. CASE Next
  <2>1. t = u
    <3> HIDE DEF t
    <3> QED BY <1>4, <1>5
  <2>2. s.main[p + 1] \in AllOf(s) /\ s.main[p + 1] # r
    <3>1. p + 1 \in 1 .. Len(s.main) /\ p < p + 1
      BY <1>1, <1>5
    <3>2. s.main[p + 1] \in AllOf(s)
      BY <3>1, AtPlace
    <3> QED BY <1>1, <3>1, <3>2 DEF Sorted
  <2>3. AllOk(s, {r})
    BY <1>5, <2>2, OthersOk
  <2>4. AllOk(u, {r})
    <3>1. AllOf(u) = AllOf(s)
      BY DEF AllOf
    <3> QED BY <2>3, <3>1 DEF AllOk, SocketOk
  <2>5. SetsOnly(u, u)
    BY DEF SetsOnly, SameLists
  <2> QED BY <2>1, <2>4, <2>5
<1>6. CASE ~Next
  <2>1. \A b \in AllOf(s) : Kin(b, r) => b = r
    BY <1>6, LastOfKind
  <2>2. t = [u EXCEPT !.fin = fin, !.fout = fout, !.ferr = ferr]
    <3> HIDE DEF t, fin, fout, ferr
    <3> QED BY <1>4, <1>6
  <2>3. fin \subseteq Handle /\ fout \subseteq Handle /\ ferr \subseteq Handle
    BY DEF Sock
  <2> HIDE DEF t
  <2>4. SetsOnly(u, t) /\ t.fin = fin /\ t.fout = fout /\ t.ferr = ferr
    <3> HIDE DEF fin, fout, ferr
    <3>1. t.fin = fin /\ t.fout = fout /\ t.ferr = ferr
      BY <2>2 DEF Sock
    <3>2. SameLists(u, t)
      BY <2>2, <2>3 DEF SameLists, Sock
    <3> QED BY <2>2, <3>1, <3>2 DEF SetsOnly, Sock
  <2>5. AllOk(t, {r})
    <3>1. t.main = s.main /\ t.wait = s.wait
      BY <2>4 DEF SetsOnly, SameLists
    <3> QED BY <1>2, <2>1, <2>4, <3>1, LastOk
  <2> QED BY <2>4, <2>5 DEF t
<1> QED BY <1>5, <1>6

-----------------------------------------------------------------------------
(* The walk.                                                                *)

(* When only requests behind a place end, the places up to it stay.         *)
LEMMA KeptPrefix ==
  ASSUME NEW T, NEW list \in Seq(T), NEW rs, NEW p \in 1 .. Len(list), \A q \in 1 .. p : list[q] \in rs
  PROVE  \A q \in 1 .. p : q \in 1 .. Len(Kept(list, rs)) /\ Kept(list, rs)[q] = list[q]
<1> DEFINE k == Kept(list, rs)
           l == Len(k)
<1>1. l \in Nat /\ Len(list) \in Nat
  BY KeptParts, LenProperties
<1>2. PICK e : Part(list, k, rs, Len(list), e)
  BY KeptParts
<1> HIDE DEF k
<1>3. /\ \A i \in 1 .. l : e[i] \in 1 .. Len(list) /\ k[i] = list[e[i]]
      /\ \A i, j \in 1 .. l : i < j => e[i] < e[j]
      /\ \A q \in 1 .. p : \E i \in 1 .. l : e[i] = q
  <2>1. \A q \in 1 .. p : q \in 1 .. Len(list)
    BY <1>1
  <2> QED BY <1>2, <2>1 DEF Part
<1> HIDE DEF l
<1> DEFINE Some == {j \in 0 .. p : \A q \in 1 .. j : q \in 1 .. l /\ e[q] = q}
<1>4. 0 \in Some
  BY <1>1
<1>5. ASSUME NEW j \in 0 .. p - 1, j \in Some PROVE j + 1 \in Some
  <2>1. \A q \in 1 .. j : q \in 1 .. l /\ e[q] = q
    BY <1>5
  <2>2. j + 1 \in 1 .. p /\ j + 1 \in 0 .. p /\ j \in Nat
    BY <1>1
  <2>3. PICK i \in 1 .. l : e[i] = j + 1
    BY <1>3, <2>2
  <2>4. ~(i =< j)
    BY <1>1, <2>1, <2>2, <2>3
  <2>5. ~(i > j + 1)
    <3> SUFFICES ASSUME i > j + 1 PROVE FALSE
      OBVIOUS
    <3>1. j + 1 \in 1 .. l /\ e[j + 1] < j + 1 /\ e[j + 1] \in 1 .. Len(list)
      BY <1>1, <1>3, <2>2, <2>3
    <3>2. e[j + 1] \in 1 .. j
      BY <1>1, <2>2, <3>1
    <3>3. e[e[j + 1]] = e[j + 1] /\ e[j + 1] \in 1 .. l
      BY <2>1, <3>2
    <3>4. e[e[j + 1]] < e[j + 1]
      BY <1>3, <3>1, <3>3
    <3> QED BY <1>1, <3>1, <3>3, <3>4
  <2>6. i = j + 1
    BY <1>1, <2>2, <2>4, <2>5
  <2>7. \A q \in 1 .. j + 1 : q \in 1 .. j \/ q = j + 1
    BY <2>2
  <2> QED BY <2>1, <2>2, <2>3, <2>6, <2>7
<1>6. 0 .. p \subseteq Some
  <2>1. p \in Nat
    BY <1>1
  <2> HIDE DEF Some
  <2> QED BY <1>4, <1>5, <2>1, UpTo
<1>7. \A q \in 1 .. p : q \in 1 .. l /\ e[q] = q
  <2>1. p \in 0 .. p
    BY <1>1
  <2> QED BY <1>6, <2>1
<1> QED BY <1>3, <1>7 DEF k, l

(* What is behind a pointer to a place.                                     *)
LEMMA DoneAt ==
  ASSUME GoodRequests, NEW t, NEW n, InOrder(t, n), NEW k \in 1 .. Len(t.main) + 1,
         NEW u, u.main = t.main, u.current = Pointer(t, k)
  PROVE  /\ u.current \in Pointers(t)
         /\ Done(u) = {t.main[q] : q \in 1 .. k - 1}
         /\ \A c \in Requests(t.main) : c.id = u.current => k =< Len(t.main) /\ c = t.main[k]
<1>1. /\ t \in Sock /\ Len(t.main) \in Nat /\ DOMAIN t.main = 1 .. Len(t.main)
      /\ Requests(t.main) = {t.main[q] : q \in 1 .. Len(t.main)}
  BY InSock DEF InOrder
<1>2. \A r \in Requests(t.main) : At(u, r.id) \in 1 .. Len(t.main) /\ t.main[At(u, r.id)] = r
  <2>1. \A id : At(u, id) = At(t, id)
    BY DEF At
  <2> QED BY <2>1, AtOf
<1>3. \A q \in 1 .. Len(t.main) : At(u, t.main[q].id) = q /\ t.main[q].id # EndOfList
  <2>1. \A id : At(u, id) = At(t, id)
    BY DEF At
  <2> QED BY <2>1, AtPlace
<1>4. CASE k =< Len(t.main)
  <2>1. k \in 1 .. Len(t.main) /\ u.current = t.main[k].id /\ t.main[k] \in Requests(t.main)
    BY <1>1, <1>4 DEF Pointer
  <2>2. u.current # EndOfList /\ At(u, u.current) = k
    BY <1>3, <2>1
  <2>3. Done(u) = {r \in Requests(t.main) : At(u, r.id) < k}
    BY <2>2 DEF Done
  <2>4. \A q \in 1 .. k - 1 : q \in 1 .. Len(t.main) /\ q < k
    BY <1>1, <2>1
  <2>5. \A r \in Requests(t.main) : At(u, r.id) < k => At(u, r.id) \in 1 .. k - 1
    BY <1>1, <1>2, <2>1
  <2>6. Done(u) \subseteq {t.main[q] : q \in 1 .. k - 1}
    BY <1>2, <2>3, <2>5
  <2>7. {t.main[q] : q \in 1 .. k - 1} \subseteq Done(u)
    BY <1>1, <1>3, <2>3, <2>4
  <2>8. \A c \in Requests(t.main) : c.id = u.current => c = t.main[k]
    BY <1>2, <2>2
  <2> QED BY <1>4, <2>1, <2>6, <2>7, <2>8 DEF Pointers
<1>5. CASE k = Len(t.main) + 1
  <2>1. u.current = EndOfList
    BY <1>1, <1>5 DEF Pointer
  <2>2. Done(u) = Requests(t.main)
    BY <2>1 DEF Done
  <2>3. k - 1 = Len(t.main)
    BY <1>1, <1>5
  <2>4. \A c \in Requests(t.main) : c.id # u.current
    BY <1>1, <1>3, <2>1
  <2> QED BY <1>1, <2>1, <2>2, <2>3, <2>4 DEF Pointers
<1> QED BY <1>1, <1>4, <1>5

(* Past the requests of its kind comes the first of another kind or of      *)
(* another socket.                                                          *)
PlaceAfter(t, p, h, k) ==
  /\ h = t.main[p].handle
  /\ k = Past(t, p, IF request_is_output(t.main[p]) THEN Outputs(t, h) ELSE OnSocket(t, h))

(* Behind the last request of a kind the first of another kind begins.      *)
LEMMA NextFirst ==
  ASSUME GoodRequests, NEW t, NEW n, InOrder(t, n), NEW p \in 1 .. Len(t.main),
         NEW h, NEW k, PlaceAfter(t, p, h, k)
  PROVE  /\ k \in p + 1 .. Len(t.main) + 1
         /\ \A q \in p .. k - 1 : t.main[q].handle = h
         /\ k =< Len(t.main) => \A q \in 1 .. k - 1 : ~Kin(t.main[q], t.main[k])
<1>0. /\ h = t.main[p].handle
      /\ k = Past(t, p, IF request_is_output(t.main[p]) THEN Outputs(t, h) ELSE OnSocket(t, h))
  BY DEF PlaceAfter
<1> DEFINE l == Len(t.main)
           same == IF request_is_output(t.main[p]) THEN Outputs(t, h) ELSE OnSocket(t, h)
<1>1. t \in Sock /\ l \in Nat /\ DOMAIN t.main = 1 .. l
  BY InSock DEF InOrder
<1>2. \A a, b \in 1 .. l : a < b /\ t.main[a].handle = t.main[b].handle =>
        /\ \A j \in a .. b : t.main[j].handle = t.main[a].handle
        /\ request_is_input(t.main[a]) => request_is_input(t.main[b])
  BY DEF InOrder, Sorted
<1>3. \A j : (j \in same <=> j \in 1 .. l /\ t.main[j].handle = h
                            /\ (request_is_output(t.main[p]) => request_is_output(t.main[j])))
  BY <1>1 DEF OnSocket, Outputs
<1>4. p \in 1 .. l /\ p \in same
  BY <1>0, <1>3
<1> HIDE DEF l, same
<1>5. p \in 1 .. l + 1 /\ l + 1 \notin same
  BY <1>1, <1>3, <1>4
<1>6. k \in p .. l + 1 /\ k \notin same /\ \A j \in p .. k - 1 : j \in same
  BY <1>0, <1>1, <1>5, PastIs DEF l, same
<1>7. k \in p + 1 .. l + 1
  BY <1>1, <1>4, <1>6
<1>8. \A q \in p .. k - 1 : t.main[q].handle = h
  BY <1>3, <1>6
<1>9. ASSUME k =< l, NEW q \in 1 .. k - 1, Kin(t.main[q], t.main[k]) PROVE FALSE
  <2>1. k \in 1 .. l /\ q \in 1 .. l /\ q < k /\ p \in 1 .. l
    BY <1>1, <1>4, <1>7, <1>9
  <2>2. CASE q \in p .. k - 1
    <3>1. q \in same /\ k \notin same
      BY <1>6, <2>2
    <3> QED BY <1>3, <1>9, <2>1, <3>1 DEF Kin, request_is_output
  <2>3. CASE q < p
    <3>1. t.main[p].handle = t.main[q].handle
      <4>1. p \in q .. k
        BY <1>7, <2>1, <2>3
      <4> QED BY <1>2, <1>9, <2>1, <4>1 DEF Kin
    <3>2. request_is_input(t.main[q]) => request_is_input(t.main[p])
      BY <1>2, <2>1, <2>3, <3>1
    <3>3. t.main[k].handle = h /\ ~(request_is_output(t.main[p]) => request_is_output(t.main[k]))
      BY <1>0, <1>3, <1>6, <1>9, <2>1, <3>1 DEF Kin
    <3> QED BY <1>9, <3>2, <3>3 DEF Kin, request_is_output
  <2> QED BY <1>1, <2>1, <2>2, <2>3
<1> QED BY <1>7, <1>8, <1>9 DEF l

(* The walk is at place p: nothing before it is of its kind, and all up to  *)
(* it is merged and within the new range.                                   *)
Here(v, p, n, all) ==
  /\ Well(v, n, all) /\ p \in 1 .. Len(v.main)
  /\ \A q \in 1 .. p : v.main[q].handle =< v.newtop /\ v.main[q].handle \notin v.waiting
  /\ \A q \in 1 .. p - 1 : ~Kin(v.main[q], v.main[p])

(* What holds at the walk's place depends on the lists and the pointer      *)
(* alone.                                                                   *)
LEMMA HereOnly ==
  ASSUME NEW s, NEW t, NEW p, NEW n, NEW all, Here(s, p, n, all), SameLists(s, t),
         t.current = s.current, t.top = s.top, t.newtop = s.newtop
  PROVE  Here(t, p, n, all)
<1>1. s.current \in Pointers(s)
  BY DEF Here, Well, InOrder
<1>2. Well(t, n, all)
  BY <1>1, SameWell DEF Here
<1> QED BY <1>2 DEF Here, SameLists

(* What is found at p.                                                      *)
Acted(v, t, p, n, all) ==
  /\ Here(t, p, n, all) /\ t.main[p] = v.main[p] /\ t.rerr = v.rerr
  /\ t.active \in {EndOfList, v.main[p].id}
  /\ AllOk(t, Working(t, t.active))

(* Nothing is found at a request.                                           *)
LEMMA NothingFound ==
  ASSUME GoodRequests, NEW v, NEW p, NEW n, NEW all, Here(v, p, n, all), v.active = EndOfList, AllOk(v, {})
  PROVE  Acted(v, v, p, n, all)
<1>1. v \in Sock
  BY DEF Here, Well, InOrder
<1>2. \A r \in Requests(v.main) : r.id # EndOfList
  BY <1>1, InSock, InRequest DEF AllOf, EndOfList
<1>3. Working(v, v.active) = {}
  BY <1>2 DEF Working
<1> QED BY <1>3 DEF Acted

(* A request that does not repeat is at work, and the next one of its kind  *)
(* is watched, or none.                                                     *)
LEMMA ClearedActs ==
  ASSUME GoodRequests, NEW v, NEW p, NEW n \in Nat, NEW all, Here(v, p, n, all), AllOk(v, {}),
         NEW r, r = v.main[p], r.type # "close", ~r.repeat,
         NEW u, SameLists(v, u), u.current = v.current, u.top = v.top, u.newtop = v.newtop,
         u.fin = v.fin, u.fout = v.fout, u.ferr = v.ferr, u.rerr = v.rerr, u.active = r.id
  PROVE  Acted(v, cleared(u, r), p, n, all)
<1> DEFINE t == cleared(u, r)
<1>1. /\ InOrder(v, n) /\ Counted(v) /\ p \in 1 .. Len(v.main) /\ v \in Sock
      /\ v.main[p].handle \notin v.waiting
      /\ \A q \in 1 .. p - 1 : ~Kin(v.main[q], v.main[p])
  <2>1. p \in 1 .. Len(v.main) /\ InOrder(v, n) /\ Counted(v) /\ v \in Sock
    BY DEF Here, Well, InOrder
  <2>2. Len(v.main) \in Nat
    BY <2>1, InSock
  <2>3. p \in 1 .. p
    BY <2>1, <2>2
  <2> QED BY <2>1, <2>3 DEF Here
<1>2. r.handle \notin Handles(v.wait)
  BY <1>1 DEF Counted
<1>3. u \in Sock /\ u.main = v.main /\ u.wait = v.wait
  BY DEF SameLists
<1>4. AllOk(t, {r}) /\ SetsOnly(u, t)
  BY <1>1, <1>2, <1>3, Cleared
<1> HIDE DEF t
<1>5. /\ SameLists(v, t) /\ t.current = v.current /\ t.top = v.top /\ t.newtop = v.newtop
      /\ t.rerr = v.rerr /\ t.active = r.id
  BY <1>4 DEF SetsOnly, SameLists
<1>6. Here(t, p, n, all)
  BY <1>5, HereOnly
<1>7. t.main = v.main
  BY <1>5 DEF SameLists
<1>8. Working(t, t.active) = {r}
  <2>1. r \in Requests(v.main)
    BY <1>1, AtPlace
  <2>2. \A x \in Requests(v.main) : x.id = r.id => x = r
    BY <1>1, <2>1, OneNumber DEF AllOf
  <2> QED BY <1>5, <1>7, <2>1, <2>2 DEF Working
<1> QED BY <1>4, <1>5, <1>6, <1>7, <1>8 DEF Acted, t

(* What is found at an input request.                                       *)
LEMMA InputActs ==
  ASSUME GoodRequests, NEW v, NEW p, NEW n \in Nat, NEW all, Here(v, p, n, all), AllOk(v, {}),
         v.active = EndOfList, request_is_input(v.main[p])
  PROVE  Acted(v, InputActivity(v, p), p, n, all)
<1> DEFINE r == v.main[p]
           u == [v EXCEPT !.active = r.id, !.rin = v.rin \ {r.handle}]
<1>1. v \in Sock /\ p \in 1 .. Len(v.main) /\ InOrder(v, n)
  BY DEF Here, Well, InOrder
<1>2. InputActivity(v, p) = IF r.handle \notin v.rin THEN v
                            ELSE IF r.repeat THEN u ELSE clear_check_after_input_request(u, r)
  BY DEF InputActivity
<1>3. r \in Request /\ r.id \in Nat
  BY <1>1, AtPlace, InRequest
<1>4. /\ SameLists(v, u) /\ u.current = v.current /\ u.top = v.top /\ u.newtop = v.newtop
      /\ u.fin = v.fin /\ u.fout = v.fout /\ u.ferr = v.ferr /\ u.rerr = v.rerr /\ u.active = r.id
  <2> HIDE DEF r
  <2> QED BY <1>1, <1>3 DEF SameLists, Sock
<1>5. CASE r.handle \notin v.rin
  BY <1>2, <1>5, NothingFound
<1>6. CASE r.handle \in v.rin /\ r.repeat
  <2>1. InputActivity(v, p) = u
    BY <1>2, <1>6
  <2> HIDE DEF u
  <2>2. Here(u, p, n, all)
    BY <1>4, HereOnly
  <2>3. u.main = v.main /\ u.wait = v.wait
    BY <1>4 DEF SameLists
  <2>4. Working(u, u.active) = {}
    <3>1. \A x \in Requests(v.main) : x.id = r.id => x = r
      BY <1>1, AtPlace, OneNumber DEF AllOf
    <3> QED BY <1>4, <1>6, <2>3, <3>1 DEF Working
  <2>5. AllOk(u, {})
    BY <1>4, <2>3 DEF AllOk, SocketOk, AllOf
  <2> QED BY <1>4, <2>1, <2>2, <2>3, <2>4, <2>5 DEF Acted
<1>7. CASE r.handle \in v.rin /\ ~r.repeat
  <2>1. InputActivity(v, p) = cleared(u, r)
    <3> HIDE DEF u
    <3> QED BY <1>2, <1>7 DEF cleared
  <2>2. r.type # "close"
    BY DEF request_is_input
  <2> HIDE DEF u, r
  <2> QED BY <1>4, <1>7, <2>1, <2>2, ClearedActs DEF r
<1> QED BY <1>5, <1>6, <1>7

(* A socket that is about to be closed is not watched any more, and what    *)
(* else is asked of it has been answered.                                   *)
LEMMA CloseActs ==
  ASSUME GoodRequests, NEW v, NEW p, NEW n \in Nat, NEW all, Here(v, p, n, all), AllOk(v, {}),
         NEW r, r = v.main[p], r.type = "close", NEW h, h = r.handle,
         NEW e, SameLists(v, e), e.current = v.current, e.top = v.top, e.newtop = v.newtop,
         e.fin = v.fin \ {h}, e.fout = v.fout \ {h}, e.ferr = v.ferr \ {h}, e.rerr = v.rerr,
         e.active = r.id,
         NEW k, k = Past(v, p, OnSocket(v, h))
  PROVE  Acted(v, EndAll(e, Between(v, p + 1, k)), p, n, all)
<1> DEFINE rs == Between(v, p + 1, k)
           t == EndAll(e, rs)
<1>1. /\ InOrder(v, n) /\ Counted(v) /\ Tops(v) /\ Timed(v, all, n) /\ v \in Sock /\ p \in 1 .. Len(v.main)
      /\ Len(v.main) \in Nat /\ DOMAIN v.main = 1 .. Len(v.main)
      /\ \A a, b \in 1 .. Len(v.main) : a < b => v.main[a].id # v.main[b].id
      /\ \A a, b \in 1 .. Len(v.main) : a < b /\ v.main[a].handle = v.main[b].handle =>
           /\ \A j \in a .. b : v.main[j].handle = v.main[a].handle
           /\ request_is_input(v.main[a]) => request_is_input(v.main[b])
  BY InSock DEF Here, Well, InOrder, Sorted
<1>2. /\ p \in 1 .. p /\ h \notin v.waiting
      /\ \A q \in 1 .. p - 1 : ~Kin(v.main[q], r)
  <2>1. p \in 1 .. p
    BY <1>1
  <2> QED BY <2>1 DEF Here
<1>3. /\ k \in p .. Len(v.main) + 1 /\ k \notin OnSocket(v, h) /\ \A j \in p .. k - 1 : j \in OnSocket(v, h)
  <2>1. p \in 1 .. Len(v.main) + 1 /\ Len(v.main) + 1 \notin OnSocket(v, h)
    BY <1>1 DEF OnSocket
  <2> QED BY <1>1, <2>1, PastIs
<1>4. ~request_is_input(r) /\ r \in Requests(v.main) /\ r \in Request /\ h \in Handle
  BY <1>1, AtPlace, InRequest DEF request_is_input
<1>5. rs \subseteq Requests(v.main) /\ \A x \in rs : x.handle = h /\ x # r
  <2> SUFFICES ASSUME NEW j \in p + 1 .. k - 1
               PROVE  v.main[j] \in Requests(v.main) /\ v.main[j].handle = h /\ v.main[j] # r
    BY DEF Between
  <2>1. j \in 1 .. Len(v.main) /\ j \in p .. k - 1 /\ p < j
    BY <1>1, <1>3
  <2>2. v.main[j].id # r.id
    BY <1>1, <2>1
  <2>3. v.main[j] \in Requests(v.main) /\ v.main[j].handle = h
    BY <1>1, <1>3, <2>1 DEF Requests, OnSocket
  <2> QED BY <2>2, <2>3
<1>6. \A x \in On(h, Requests(v.main)) : x = r \/ x \in rs
  <2> SUFFICES ASSUME NEW x \in Requests(v.main), x.handle = h PROVE x = r \/ x \in rs
    BY DEF On
  <2>1. PICK q \in 1 .. Len(v.main) : x = v.main[q]
    BY <1>1 DEF Requests
  <2>2. ~(q < p)
    <3>1. q < p => ~request_is_input(x) /\ q \in 1 .. p - 1
      BY <1>1, <1>4, <2>1
    <3> QED BY <1>2, <1>4, <2>1, <3>1 DEF Kin
  <2>3. ~(q >= k)
    <3> SUFFICES ASSUME q >= k PROVE FALSE
      OBVIOUS
    <3>1. k # p /\ p < q /\ k \in p .. q /\ k \in 1 .. Len(v.main)
      <4>1. p \in OnSocket(v, h)
        BY <1>1 DEF OnSocket
      <4> QED BY <1>1, <1>3, <4>1
    <3>2. v.main[k].handle = h
      BY <1>1, <2>1, <3>1
    <3> QED BY <1>1, <1>3, <3>1, <3>2 DEF OnSocket
  <2>4. q = p \/ q \in p + 1 .. k - 1
    BY <1>1, <1>3, <2>2, <2>3
  <2> QED BY <2>1, <2>4 DEF Between
<1>7. e \in Sock /\ e.main = v.main /\ e.wait = v.wait /\ e.waiting = v.waiting /\ e.count = v.count /\ e.alarms = v.alarms
  BY DEF SameLists
<1> HIDE DEF rs, t
<1>8. Well(e, n, all)
  <2>1. v.current \in Pointers(v) /\ Well(v, n, all)
    BY DEF Here, Well, InOrder
  <2> QED BY <2>1, SameWell
<1>9. EndedWell(e, t, rs, n)
  BY <1>2, <1>5, <1>7, <1>8, EndSome DEF Well, t
<1>10. /\ InOrder(t, n) /\ Counted(t) /\ Requests(t.main) = Requests(v.main) \ rs /\ t.wait = v.wait
       /\ AllOf(t) = AllOf(v) \ rs /\ t.alarms \subseteq v.alarms
       /\ t.waiting = v.waiting /\ t.top = v.top /\ t.newtop = v.newtop /\ t.active = r.id
       /\ t.fin = v.fin \ {h} /\ t.fout = v.fout \ {h} /\ t.ferr = v.ferr \ {h} /\ t.rerr = v.rerr
  BY <1>7, <1>9 DEF EndedWell, SameSets, SameRest, AllOf
<1>11. Well(t, n, all)
  <2>1. Handles(t.main) \subseteq Handles(v.main)
    BY <1>10 DEF Handles
  <2> QED BY <1>1, <1>10, <2>1, TopsLess, TimedLess DEF Well
<1>12. \A q \in 1 .. p : q \in 1 .. Len(t.main) /\ t.main[q] = v.main[q]
  <2>1. t.main = Kept(v.main, Requests(v.main) \ rs)
    <3>1. Ended(e, t, rs)
      BY <1>7, EndAllFields DEF t
    <3> QED BY <1>7, <3>1 DEF Ended
  <2>2. \A q \in 1 .. p : v.main[q] \in Requests(v.main) \ rs
    <3> SUFFICES ASSUME NEW q \in 1 .. p PROVE v.main[q] \in Requests(v.main) /\ v.main[q] \notin rs
      OBVIOUS
    <3>1. q \in 1 .. Len(v.main)
      BY <1>1
    <3>2. \A j \in p + 1 .. k - 1 : j \in 1 .. Len(v.main) /\ q < j
      BY <1>1, <1>3
    <3>3. \A j \in p + 1 .. k - 1 : v.main[q].id # v.main[j].id
      BY <1>1, <3>1, <3>2
    <3> QED BY <1>1, <3>1, <3>3 DEF Requests, Between, rs
  <2>3. v.main \in Seq(Request)
    BY <1>1, InSock
  <2> QED BY <1>1, <2>1, <2>2, <2>3, KeptPrefix
<1>13. Here(t, p, n, all)
  <2>1. \A q \in 1 .. p : v.main[q].handle =< v.newtop /\ v.main[q].handle \notin v.waiting
    BY DEF Here
  <2>2. \A q \in 1 .. p - 1 : q \in 1 .. p
    BY <1>1
  <2> QED BY <1>2, <1>10, <1>11, <1>12, <2>1, <2>2 DEF Here
<1>14. AllOk(t, {r})
  <2>1. SocketOk(t, h, {r})
    <3>1. On(h, Requests(v.wait)) = {}
      BY <1>1, <1>2 DEF Counted, Handles, On
    <3>2. On(h, AllOf(t)) \subseteq {r}
      BY <1>6, <1>10, <3>1 DEF On, AllOf
    <3> QED BY <1>10, <3>2, SocketNone
  <2>2. ASSUME NEW x \in Handle, x # h PROVE SocketOk(t, x, {r})
    <3>1. SocketOk(v, x, {})
      BY DEF AllOk
    <3>2. On(x, AllOf(t)) \ {r} = On(x, AllOf(v)) \ {}
      BY <1>5, <1>10, <2>2 DEF On
    <3>3. On(x, Requests(v.main)) \ {} \subseteq Requests(t.main)
      BY <1>5, <1>10, <2>2 DEF On
    <3> QED BY <1>10, <2>2, <3>1, <3>2, <3>3, SocketSame
  <2> QED BY <2>1, <2>2 DEF AllOk
<1>15. Working(t, t.active) = {r}
  <2>1. r \in Requests(t.main) /\ ~r.repeat
    <3>1. r \notin rs
      BY <1>5
    <3> QED BY <1>4, <1>10, <3>1, InRequest
  <2>2. \A x \in Requests(t.main) : x.id = r.id => x = r
    BY <1>10, <2>1, OneNumber DEF AllOf
  <2> QED BY <1>10, <2>1, <2>2 DEF Working
<1>16. Acted(v, t, p, n, all)
  BY <1>2, <1>10, <1>12, <1>13, <1>14, <1>15 DEF Acted
<1> QED BY <1>16 DEF t, rs

(* What is found at an output request, a CLOSE among them: all that is      *)
(* asked of its socket after it is refused.                                 *)
LEMMA OutputActs ==
  ASSUME GoodRequests, NEW v, NEW p, NEW n \in Nat, NEW all, Here(v, p, n, all), AllOk(v, {}),
         v.active = EndOfList, request_is_output(v.main[p])
  PROVE  Acted(v, OutputActivity(v, p), p, n, all)
<1> DEFINE r == v.main[p]
           h == r.handle
           u == [v EXCEPT !.active = r.id, !.rout = v.rout \ {h}]
           k == Past(v, p, OnSocket(v, h))
           e == [u EXCEPT !.fout = u.fout \ {h}, !.fin = u.fin \ {h}, !.rin = u.rin \ {h},
                          !.ferr = u.ferr \ {h}]
<1>1. v \in Sock /\ p \in 1 .. Len(v.main) /\ InOrder(v, n)
  BY DEF Here, Well, InOrder
<1>2. OutputActivity(v, p) = IF h \notin v.rout THEN v
                             ELSE IF r.type # "close" THEN clear_check_after_output_request(u, r)
                             ELSE EndAll(e, Between(v, p + 1, k))
  BY DEF OutputActivity
<1>3. r \in Request /\ r.id \in Nat /\ ~r.repeat
  <2>1. r \in Request
    BY <1>1, AtPlace
  <2> QED BY <2>1, InRequest DEF request_is_output, request_is_input
<1>4. /\ SameLists(v, u) /\ u.current = v.current /\ u.top = v.top /\ u.newtop = v.newtop
      /\ u.fin = v.fin /\ u.fout = v.fout /\ u.ferr = v.ferr /\ u.rerr = v.rerr /\ u.active = r.id
  <2> HIDE DEF r, h
  <2> QED BY <1>1, <1>3 DEF SameLists, Sock
<1>5. CASE h \notin v.rout
  BY <1>2, <1>5, NothingFound
<1>6. CASE h \in v.rout /\ r.type # "close"
  <2>1. OutputActivity(v, p) = cleared(u, r)
    <3> HIDE DEF u
    <3> QED BY <1>2, <1>6 DEF cleared, request_is_output
  <2> HIDE DEF u, r
  <2> QED BY <1>3, <1>4, <1>6, <2>1, ClearedActs DEF r
<1>7. CASE h \in v.rout /\ r.type = "close"
  <2>1. OutputActivity(v, p) = EndAll(e, Between(v, p + 1, k))
    <3> HIDE DEF u, e, k
    <3> QED BY <1>2, <1>7
  <2>2. /\ SameLists(v, e) /\ e.current = v.current /\ e.top = v.top /\ e.newtop = v.newtop
        /\ e.fin = v.fin \ {h} /\ e.fout = v.fout \ {h} /\ e.ferr = v.ferr \ {h} /\ e.rerr = v.rerr
        /\ e.active = r.id
    <3>1. u \in Sock /\ u.rin \in SUBSET Handle /\ u.fin \in SUBSET Handle /\ u.fout \in SUBSET Handle
          /\ u.ferr \in SUBSET Handle
      <4>1. u \in Sock
        BY <1>4 DEF SameLists
      <4> HIDE DEF u
      <4> QED BY <4>1 DEF Sock
    <3> HIDE DEF u, h, r
    <3>2. /\ e.fin = u.fin \ {h} /\ e.fout = u.fout \ {h} /\ e.ferr = u.ferr \ {h} /\ e.rerr = u.rerr
          /\ e.active = u.active /\ e.current = u.current /\ e.top = u.top /\ e.newtop = u.newtop
          /\ SameLists(u, e)
      BY <3>1 DEF SameLists, Sock
    <3> QED BY <1>4, <3>2 DEF SameLists
  <2> HIDE DEF e, r
  <2> QED BY <1>7, <2>1, <2>2, CloseActs DEF r
<1> QED BY <1>5, <1>6, <1>7

(* How the walk stands between two requests: an exception is looked at      *)
(* without a request of its own being at work.                              *)
Exceptional(s) == s.active # EndOfList /\ s.main[At(s, s.active)].handle \in s.rerr

Standing(s) == WalkStands(s, IF Exceptional(s) THEN {} ELSE Working(s, s.active), Exceptional(s))

MayMove(t, p, k, n, all) ==
  /\ Here(t, p, n, all) /\ t.active \in {EndOfList, t.main[p].id}
  /\ k \in p + 1 .. Len(t.main) + 1 /\ \A q \in p .. k - 1 : t.main[q].handle = t.main[p].handle

MovedTo(t, u, k, n, all) ==
  /\ Well(u, n, all) /\ Passed(u) /\ ActiveBehind(u)
  /\ u.main = t.main /\ u.wait = t.wait /\ u.active = t.active /\ SameSets(t, u)
  /\ Done(u) = {t.main[q] : q \in 1 .. k - 1}
  /\ \A c \in Requests(t.main) : c.id = u.current => k =< Len(t.main) /\ c = t.main[k]

(* The pointer moves on behind requests of one socket for which none waits. *)
LEMMA MovesOn ==
  ASSUME GoodRequests, NEW t, NEW p, NEW k, NEW n \in Nat, NEW all, MayMove(t, p, k, n, all),
         NEW u, u = [t EXCEPT !.current = Pointer(t, k)]
  PROVE  MovedTo(t, u, k, n, all)
<1>0. /\ Here(t, p, n, all) /\ t.active \in {EndOfList, t.main[p].id}
      /\ k \in p + 1 .. Len(t.main) + 1 /\ \A q \in p .. k - 1 : t.main[q].handle = t.main[p].handle
  BY DEF MayMove
<1>1. /\ Well(t, n, all) /\ InOrder(t, n) /\ t \in Sock /\ p \in 1 .. Len(t.main) /\ Len(t.main) \in Nat
  BY <1>0, InSock DEF Here, Well, InOrder
<1>2. /\ u.main = t.main /\ u.wait = t.wait /\ u.active = t.active /\ SameSets(t, u)
      /\ u.current = Pointer(t, k) /\ u.newtop = t.newtop /\ u.waiting = t.waiting /\ u.top = t.top
  BY <1>1 DEF Sock, SameSets
<1>3. /\ u.current \in Pointers(t)
      /\ Done(u) = {t.main[q] : q \in 1 .. k - 1}
      /\ \A c \in Requests(t.main) : c.id = u.current => k =< Len(t.main) /\ c = t.main[k]
  <2>1. k \in 1 .. Len(t.main) + 1
    BY <1>0, <1>1
  <2>2. InOrder(t, n) /\ u.main = t.main /\ u.current = Pointer(t, k)
    BY <1>1, <1>2
  <2> HIDE DEF GoodRequests
  <2> QED BY ONLY GoodRequests, <2>1, <2>2, DoneAt
<1>4. Well(u, n, all)
  <2>1. u.current \in Nat
    <3>1. \A r \in Requests(t.main) : r.id \in Nat
      BY <1>1, InSock, InRequest DEF AllOf
    <3> QED BY <1>3, <3>1 DEF Pointers, EndOfList
  <2>2. SameLists(t, u)
    BY <1>1, <1>2, <2>1 DEF SameLists, Sock
  <2> QED BY <1>1, <1>2, <1>3, <2>2, SameWell
<1>5. Passed(u)
  <2>1. \A q \in 1 .. k - 1 : q \in 1 .. p \/ q \in p .. k - 1
    BY <1>0, <1>1
  <2>2. p \in 1 .. p
    BY <1>1
  <2>3. \A q \in 1 .. k - 1 : t.main[q].handle =< t.newtop /\ t.main[q].handle \notin t.waiting
    BY <1>0, <2>1, <2>2 DEF Here
  <2> QED BY <1>2, <1>3, <2>3 DEF Passed
<1>6. ActiveBehind(u)
  <2>1. p \in 1 .. k - 1
    BY <1>0, <1>1
  <2> QED BY <1>0, <1>2, <1>3, <2>1 DEF ActiveBehind
<1> QED BY <1>2, <1>3, <1>4, <1>5, <1>6 DEF MovedTo

(* After the walk looked at a request, the invariant of the walk holds      *)
(* again.                                                                   *)
LEMMA ActStands ==
  ASSUME GoodRequests, NEW v, NEW p, NEW n \in Nat, NEW all, Here(v, p, n, all), AllOk(v, {}),
         v.active = EndOfList
  PROVE  Well(ActivityAt(v, p), n, all) /\ Standing(ActivityAt(v, p))
<1> DEFINE r == v.main[p]
           h == r.handle
           u == ActivityAt(v, p)
<1>1. /\ Well(v, n, all) /\ InOrder(v, n) /\ v \in Sock /\ p \in 1 .. Len(v.main) /\ Len(v.main) \in Nat
  BY InSock DEF Here, Well, InOrder
<1>2. CASE h \in v.rerr
  <2> DEFINE t == [v EXCEPT !.active = r.id]
  <2>1. r.id \in Nat /\ r.id # EndOfList
    BY <1>1, AtPlace, InRequest
  <2>2. SameLists(v, t) /\ t.current = v.current /\ t.top = v.top /\ t.newtop = v.newtop /\ t.active = r.id
        /\ t.main = v.main /\ t.wait = v.wait /\ SameSets(v, t)
    <3> HIDE DEF r
    <3> QED BY <1>1, <2>1 DEF SameLists, SameSets, Sock
  <2>3. u = [t EXCEPT !.current = Pointer(t, p + 1)]
    <3>1. u = [v EXCEPT !.active = r.id, !.current = Pointer(v, p + 1)]
      BY <1>2 DEF ActivityAt
    <3>2. Pointer(t, p + 1) = Pointer(v, p + 1)
      BY <2>2 DEF Pointer
    <3> QED BY <1>1, <3>1, <3>2 DEF Sock
  <2>4. Here(t, p, n, all)
    BY <2>2, HereOnly
  <2>5. p + 1 \in p + 1 .. Len(t.main) + 1 /\ \A q \in p .. (p + 1) - 1 : t.main[q].handle = t.main[p].handle
    <3>1. \A q \in p .. (p + 1) - 1 : q = p
      BY <1>1
    <3> QED BY <1>1, <2>2, <3>1
  <2>5a. t.active \in {EndOfList, t.main[p].id}
    BY <2>2
  <2> HIDE DEF t, u
  <2>6. /\ Well(u, n, all) /\ Passed(u) /\ ActiveBehind(u)
        /\ u.main = t.main /\ u.wait = t.wait /\ u.active = t.active /\ SameSets(t, u)
        /\ Done(u) = {t.main[q] : q \in 1 .. (p + 1) - 1}
        /\ \A c \in Requests(t.main) : c.id = u.current => p + 1 =< Len(t.main) /\ c = t.main[p + 1]
    <3>1. MayMove(t, p, p + 1, n, all)
      BY <2>4, <2>5, <2>5a DEF MayMove
    <3>2. MovedTo(t, u, p + 1, n, all)
      BY <2>3, <3>1, MovesOn
    <3> QED BY <3>2 DEF MovedTo
  <2>7. Exceptional(u)
    <3>1. At(v, r.id) = p
      BY <1>1, AtPlace
    <3>2. At(u, r.id) = p
      BY <2>2, <2>6, <3>1 DEF At
    <3> QED BY <1>2, <2>1, <2>2, <2>6, <3>2 DEF Exceptional, SameSets
  <2>8. AllOk(u, {})
    BY <2>2, <2>6 DEF AllOk, SocketOk, AllOf, SameSets
  <2>9. CurrentFirst(u) \/ SameSocket(u)
    <3>1. CASE p + 1 =< Len(v.main) /\ v.main[p + 1].handle = h
      <4>1. \A a \in Requests(v.main) : a.id = r.id => a = r
        BY <1>1, AtPlace, OneNumber DEF AllOf
      <4> QED BY <2>2, <2>6, <3>1, <4>1 DEF SameSocket
    <3>2. CASE ~(p + 1 =< Len(v.main) /\ v.main[p + 1].handle = h)
      <4> SUFFICES ASSUME p + 1 =< Len(v.main), NEW q \in 1 .. p, Kin(v.main[q], v.main[p + 1]) PROVE FALSE
        <5>1. (p + 1) - 1 = p
          BY <1>1
        <5> QED BY <2>2, <2>6, <5>1 DEF CurrentFirst
      <4>1. q \in 1 .. Len(v.main) /\ p + 1 \in 1 .. Len(v.main) /\ q < p + 1 /\ p \in q .. p + 1
        BY <1>1
      <4>2. v.main[p].handle = v.main[q].handle
        BY <1>1, <4>1 DEF InOrder, Sorted, Kin
      <4> QED BY <3>2, <4>2 DEF Kin
    <3> QED BY <3>1, <3>2
  <2> QED BY <2>6, <2>7, <2>8, <2>9 DEF Standing, WalkStands, u
<1>3. CASE h \notin v.rerr
  <2> DEFINE t == IF request_is_output(r) THEN OutputActivity(v, p) ELSE InputActivity(v, p)
             same == IF request_is_output(r) THEN Outputs(t, h) ELSE OnSocket(t, h)
             k == Past(t, p, same)
  <2>1. u = [t EXCEPT !.current = Pointer(t, k)]
    BY <1>3 DEF ActivityAt
  <2>2. Acted(v, t, p, n, all)
    BY OutputActs, InputActs DEF request_is_output
  <2> HIDE DEF t, u
  <2>3. /\ Here(t, p, n, all) /\ t.main[p] = r /\ t.rerr = v.rerr
        /\ t.active \in {EndOfList, r.id} /\ AllOk(t, Working(t, t.active))
        /\ InOrder(t, n) /\ p \in 1 .. Len(t.main)
    BY <2>2 DEF Acted, Here, Well
  <2>4. /\ k \in p + 1 .. Len(t.main) + 1
        /\ \A q \in p .. k - 1 : t.main[q].handle = h
        /\ k =< Len(t.main) => \A q \in 1 .. k - 1 : ~Kin(t.main[q], t.main[k])
    <3>1. h = t.main[p].handle
      BY <2>3
    <3>2. k = Past(t, p, IF request_is_output(t.main[p]) THEN Outputs(t, h) ELSE OnSocket(t, h))
      BY <2>3
    <3> HIDE DEF k, same, h, r
    <3>3. PlaceAfter(t, p, h, k)
      BY <3>1, <3>2 DEF PlaceAfter
    <3> QED BY <2>3, <3>3, NextFirst
  <2> HIDE DEF k
  <2>4a. /\ t.active \in {EndOfList, t.main[p].id}
         /\ \A q \in p .. k - 1 : t.main[q].handle = t.main[p].handle
    BY <2>3, <2>4
  <2>5. /\ Well(u, n, all) /\ Passed(u) /\ ActiveBehind(u)
        /\ u.main = t.main /\ u.wait = t.wait /\ u.active = t.active /\ SameSets(t, u)
        /\ Done(u) = {t.main[q] : q \in 1 .. k - 1}
        /\ \A c \in Requests(t.main) : c.id = u.current => k =< Len(t.main) /\ c = t.main[k]
    <3>1. MayMove(t, p, k, n, all)
      BY <2>3, <2>4, <2>4a DEF MayMove
    <3>2. MovedTo(t, u, k, n, all)
      BY <2>1, <3>1, MovesOn
    <3> QED BY <3>2 DEF MovedTo
  <2>6. CurrentFirst(u)
    BY <2>4, <2>5 DEF CurrentFirst
  <2>7. ~Exceptional(u)
    <3>1. At(t, r.id) = p
      BY <2>3, AtPlace
    <3>2. At(u, r.id) = p
      BY <2>5, <3>1 DEF At
    <3> QED BY <1>3, <2>3, <2>5, <3>2 DEF Exceptional, SameSets
  <2>8. AllOk(u, Working(u, u.active))
    <3>1. Working(u, u.active) = Working(t, t.active)
      BY <2>5 DEF Working
    <3> QED BY <2>3, <2>5, <3>1 DEF AllOk, SocketOk, AllOf, SameSets
  <2> QED BY <2>5, <2>6, <2>7, <2>8 DEF Standing, WalkStands, u
<1> QED BY <1>2, <1>3

(* What merging leaves of the requests, the ranges and the timeouts.        *)
LEMMA MergedStays ==
  ASSUME GoodRequests, NEW s, NEW n \in Nat, NEW all, Well(s, n, all), NEW p \in 1 .. Len(s.main),
         s.main[p].handle \in s.waiting => \A j \in 1 .. p - 1 : s.main[j].handle # s.main[p].handle
  PROVE  /\ MergedWell(s, MergeAt(s, p), p, n, s.main[p].handle)
         /\ Well(MergeAt(s, p), n, all) /\ s.main[p].handle \notin MergeAt(s, p).waiting
         /\ s.main[p].handle \notin s.waiting => MergeAt(s, p) = s
         /\ Handles(MergeAt(s, p).main) = Handles(s.main)
<1> DEFINE m == MergeAt(s, p)
           h == s.main[p].handle
<1>1. InOrder(s, n) /\ Counted(s) /\ Tops(s) /\ Timed(s, all, n)
  BY DEF Well
<1>2. MergedWell(s, m, p, n, h) /\ Counted(m) /\ h \notin m.waiting /\ (h \notin s.waiting => m = s)
  BY <1>1, MergeKeeps
<1> HIDE DEF m, h
<1>3. Handles(m.main) = Handles(s.main)
  BY <1>1, <1>2, MergeHandles
<1>4. Tops(m)
  BY <1>1, <1>2, <1>3, TopsLess DEF MergedWell
<1>5. Timed(m, all, n)
  BY <1>1, <1>2, TimedLess DEF MergedWell
<1> QED BY <1>2, <1>3, <1>4, <1>5 DEF Well, MergedWell, m, h

(* The walk stands as it should between two requests, at one to come.       *)
Coming(s, n, all) ==
  Well(s, n, all) /\ Passed(s) /\ CurrentFirst(s) /\ AllOk(s, {}) /\ s.active = EndOfList

(* The walk comes to a request, with what waits for its socket merged.      *)
LEMMA ReachedHere ==
  ASSUME GoodRequests, NEW s, NEW n \in Nat, NEW all, Coming(s, n, all), s.current # EndOfList,
         NEW p, p = At(s, s.current), NEW m, m = MergeAt(s, p), NEW v, v = Reached(m, p)
  PROVE  Here(v, p, n, all) /\ AllOk(v, {}) /\ v.active = EndOfList
<1> DEFINE h == s.main[p].handle
<1>1. /\ Well(s, n, all) /\ InOrder(s, n) /\ s \in Sock /\ p \in 1 .. Len(s.main) /\ Len(s.main) \in Nat
      /\ s.main[p].id = s.current
  <2>1. InOrder(s, n) /\ Well(s, n, all) /\ s \in Sock /\ s.current \in Pointers(s)
    BY DEF Coming, Well, InOrder
  <2> QED BY <2>1, AtPointer, InSock
<1>2. \A q \in 1 .. p - 1 : s.main[q] \in Done(s) /\ q \in 1 .. Len(s.main)
  <2>1. \A q \in 1 .. p - 1 : q \in 1 .. Len(s.main) /\ q < p
    BY <1>1
  <2> QED BY <1>1, <2>1, AtPlace DEF Done
<1>3. \A q \in 1 .. p - 1 : s.main[q].handle =< s.newtop /\ s.main[q].handle \notin s.waiting
  BY <1>2 DEF Coming, Passed
<1>4. h \in s.waiting => \A j \in 1 .. p - 1 : s.main[j].handle # h
  BY <1>3
<1>5. /\ MergedWell(s, m, p, n, h) /\ Well(m, n, all) /\ h \notin m.waiting
      /\ h \notin s.waiting => m = s
  BY <1>1, <1>4, MergedStays
<1>6. /\ p \in 1 .. Len(m.main) /\ m.main[p].handle = h /\ \A q \in 1 .. p - 1 : m.main[q] = s.main[q]
      /\ m.newtop = s.newtop /\ m.active = EndOfList /\ m.waiting = s.waiting \ {h}
      /\ InOrder(m, n) /\ m \in Sock /\ SameSets(s, m) /\ \A x \in Handle : SocketOk(m, x, {})
  BY <1>5 DEF MergedWell, Coming, InOrder, AllOk
<1>7. m.main[p].id \in Nat /\ h \in Nat /\ Pointer(m, p) = m.main[p].id /\ m.newtop \in Nat /\ h \in Handle
      /\ m.main[p].id \in Pointers(m)
  <2>1. m.main[p] \in Request /\ m.main[p] \in Requests(m.main) /\ Pointer(m, p) = m.main[p].id
    BY <1>6, AtPlace
  <2>2. m.main[p].id \in Nat /\ h \in Nat /\ h \in Handle
    BY <1>6, <2>1, InRequest
  <2> QED BY <1>6, <2>1, <2>2 DEF Pointers, Sock
<1>8. /\ v.current = Pointer(m, p) /\ v.newtop = Larger(h, m.newtop) /\ SameLists(m, v) /\ SameSets(m, v)
      /\ v.active = EndOfList /\ v.top = m.top
  <2>1. Larger(h, m.newtop) \in Nat
    BY <1>7 DEF Larger
  <2>2. v = [m EXCEPT !.current = Pointer(m, p), !.newtop = Larger(h, m.newtop)]
    BY <1>6 DEF Reached
  <2>3. Pointer(m, p) \in Nat
    BY <1>7
  <2> DEFINE c == Pointer(m, p)
             w == Larger(h, m.newtop)
  <2>4. m \in Sock /\ c \in Nat /\ w \in Nat /\ v = [m EXCEPT !.current = c, !.newtop = w]
    BY <1>6, <2>1, <2>2, <2>3
  <2> HIDE DEF c, w
  <2>5. /\ v.current = c /\ v.newtop = w /\ SameLists(m, v) /\ SameSets(m, v)
        /\ v.active = m.active /\ v.top = m.top
    BY ONLY <2>4 DEF SameLists, SameSets, Sock
  <2> QED BY <1>6, <2>5 DEF c, w
<1>9. Well(v, n, all)
  BY <1>5, <1>7, <1>8, SameWell
<1>10. v.main = m.main /\ v.wait = m.wait /\ v.waiting = m.waiting
  BY <1>8 DEF SameLists
<1>11. AllOk(v, {})
  BY <1>6, <1>8, <1>10 DEF AllOk, SocketOk, AllOf, SameSets
<1>12. \A q \in 1 .. p : v.main[q].handle =< v.newtop /\ v.main[q].handle \notin v.waiting
  <2>1. \A q \in 1 .. p : q = p \/ q \in 1 .. p - 1
    BY <1>1
  <2>2. v.main[p].handle =< v.newtop /\ v.main[p].handle \notin v.waiting
    BY <1>5, <1>6, <1>7, <1>8, <1>10 DEF Larger
  <2>3. ASSUME NEW q \in 1 .. p - 1
        PROVE  v.main[q].handle =< v.newtop /\ v.main[q].handle \notin v.waiting
    <3>1. v.main[q] = s.main[q]
      BY <1>6, <1>10
    <3>2. s.main[q].handle \in Nat
      <4>1. q \in 1 .. Len(s.main)
        BY <1>2
      <4> QED BY <1>1, <4>1, AtPlace, InRequest
    <3>3. s.main[q].handle =< m.newtop
      BY <1>3, <1>6
    <3>4. m.newtop =< v.newtop
      BY <1>7, <1>8 DEF Larger
    <3>5. v.newtop \in Nat
      BY <1>7, <1>8 DEF Larger
    <3> QED BY <1>3, <1>6, <1>7, <1>10, <3>1, <3>2, <3>3, <3>4, <3>5
  <2> QED BY <2>1, <2>2, <2>3
<1>13. \A q \in 1 .. p - 1 : ~Kin(v.main[q], v.main[p])
  <2>1. CASE h \in s.waiting
    BY <1>4, <1>6, <1>10, <2>1 DEF Kin
  <2>2. CASE h \notin s.waiting
    <3>1. m = s
      BY <1>5, <2>2
    <3>2. s.main[p] \in Requests(s.main)
      BY <1>1, AtPlace
    <3> QED BY <1>1, <1>2, <1>10, <3>1, <3>2 DEF Coming, CurrentFirst
  <2> QED BY <2>1, <2>2
<1> QED BY <1>6, <1>8, <1>9, <1>10, <1>11, <1>12, <1>13 DEF Here

(* One round of the loop of check_next_socket_activity.                     *)
LEMMA WalkedAt ==
  ASSUME GoodRequests, NEW s, NEW n \in Nat, NEW all, Coming(s, n, all), s.current # EndOfList,
         NEW t, t = WalkAt(s, At(s, s.current))
  PROVE  Well(t, n, all) /\ Standing(t)
<1> DEFINE p == At(s, s.current)
           m == MergeAt(s, p)
           v == Reached(m, p)
<1>1. t = ActivityAt(v, p)
  BY DEF WalkAt
<1>2. Here(v, p, n, all) /\ AllOk(v, {}) /\ v.active = EndOfList
  <2> HIDE DEF p, m, v
  <2> QED BY ReachedHere DEF p, m, v
<1> HIDE DEF v, p
<1> QED BY <1>1, <1>2, ActStands

(* As long as nothing was found the walk goes on.                           *)
LEMMA StandingComes ==
  ASSUME NEW s, NEW n, NEW all, Well(s, n, all), Standing(s), s.active = EndOfList, GoodRequests
  PROVE  Coming(s, n, all)
<1>1. s \in Sock
  BY DEF Well, InOrder
<1>2. ~Exceptional(s)
  BY DEF Exceptional
<1>3. \A r \in Requests(s.main) : r.id # EndOfList
  BY <1>1, InSock, InRequest DEF AllOf, EndOfList
<1>4. Working(s, s.active) = {}
  BY <1>3 DEF Working
<1> QED BY <1>2, <1>4 DEF Standing, WalkStands, Coming

(* A walk that goes on stands as it should.                                 *)
LEMMA ComingStands ==
  ASSUME NEW s, NEW n, NEW all, Coming(s, n, all), GoodRequests
  PROVE  Well(s, n, all) /\ Standing(s)
<1>1. s \in Sock
  BY DEF Coming, Well, InOrder
<1>2. ~Exceptional(s)
  BY DEF Exceptional, Coming
<1>3. \A r \in Requests(s.main) : r.id # EndOfList
  BY <1>1, InSock, InRequest DEF AllOf, EndOfList
<1>4. Working(s, s.active) = {}
  BY <1>3 DEF Working, Coming
<1> QED BY <1>2, <1>4 DEF Standing, WalkStands, Coming, ActiveBehind

(* The recursion of Walking is well-founded.                                *)
LEMMA WalkingIs ==
  ASSUME NEW s, Bound(s) \in Nat
  PROVE  /\ Walking(s)[0] = s
         /\ \A i \in 1 .. Bound(s) : Walking(s)[i] = WalkStep(Walking(s)[i - 1])
<1> DEFINE n == Bound(s)
           Step(b, i) == IF i = 0 THEN s ELSE WalkStep(b[i - 1])
           Are(b, m) == b = [i \in 0 .. m |-> Step(b, i)]
           Some == {m \in Nat : \E b : Are(b, m)}
<1>1. 0 \in Some
  <2> DEFINE k0 == [i \in 0 .. 0 |-> s]
  <2>1. Are(k0, 0)
    OBVIOUS
  <2> QED BY <2>1
<1>2. ASSUME NEW m \in 0 .. n - 1, m \in Some PROVE m + 1 \in Some
  <2>1. PICK k : Are(k, m)
    BY <1>2
  <2> DEFINE c == [i \in 0 .. m + 1 |-> IF i = m + 1 THEN WalkStep(k[m]) ELSE k[i]]
  <2>2. \A i \in 0 .. m + 1 : c[i] = Step(c, i)
    <3>1. ASSUME NEW i \in 0 .. m PROVE c[i] = Step(c, i)
      <4>1. c[i] = Step(k, i)
        BY <2>1
      <4>2. i # 0 => c[i - 1] = k[i - 1]
        OBVIOUS
      <4> QED BY <4>1, <4>2
    <3>2. c[m + 1] = Step(c, m + 1)
      OBVIOUS
    <3>3. \A i \in 0 .. m + 1 : i \in 0 .. m \/ i = m + 1
      OBVIOUS
    <3> HIDE DEF c, Step
    <3> QED BY <3>1, <3>2, <3>3
  <2>3. Are(c, m + 1)
    <3>1. c = [i \in 0 .. m + 1 |-> c[i]]
      OBVIOUS
    <3> HIDE DEF c, Step
    <3> QED BY <2>2, <3>1
  <2>4. m + 1 \in Nat
    OBVIOUS
  <2> HIDE DEF Are, c
  <2> QED BY <2>3, <2>4
<1>3. n \in Some
  <2>1. n \in Nat /\ n \in 0 .. n
    OBVIOUS
  <2> HIDE DEF Some, n
  <2> QED BY <1>1, <1>2, <2>1, UpTo
<1>4. Are(Walking(s), n)
  <2>1. PICK k : Are(k, n)
    BY <1>3
  <2>2. Walking(s) = CHOOSE b : Are(b, n)
    BY DEF Walking
  <2> HIDE DEF Are
  <2> QED BY <2>1, <2>2
<1> QED BY <1>4

(* The bound on the rounds is a number.                                     *)
LEMMA BoundIs ==
  ASSUME NEW s \in Sock
  PROVE  Bound(s) \in Nat
<1>1. Len(s.main) \in Nat /\ Len(s.wait) \in Nat
  BY InSock
<1>2. PICK a \in Nat, b \in Nat : a = Len(s.main) /\ b = Len(s.wait)
  BY <1>1
<1>3. Bound(s) = a + b
  BY <1>2 DEF Bound
<1> QED BY ONLY <1>3, a \in Nat, b \in Nat

(* After the last round the walk stands as it should.                       *)
LEMMA WalkedFar ==
  ASSUME GoodRequests, NEW s, NEW n \in Nat, NEW all, Coming(s, n, all)
  PROVE  Well(Walking(s)[Bound(s)], n, all) /\ Standing(Walking(s)[Bound(s)])
<1> DEFINE w == Walking(s)
           b == Bound(s)
           Good(t) == Well(t, n, all) /\ Standing(t)
           Some == {i \in 0 .. b : Good(w[i])}
<1>1. b \in Nat
  <2>1. s \in Sock
    BY DEF Coming, Well, InOrder
  <2> QED BY <2>1, BoundIs
<1>2. w[0] = s /\ \A i \in 1 .. b : w[i] = WalkStep(w[i - 1])
  BY <1>1, WalkingIs
<1>3. 0 \in Some
  <2>1. Good(s)
    BY ComingStands
  <2> HIDE DEF w, b, Good
  <2> QED BY <1>1, <1>2, <2>1
<1>4. ASSUME NEW i \in 0 .. b - 1, i \in Some PROVE i + 1 \in Some
  <2> HIDE DEF w, b
  <2>1. i + 1 \in 0 .. b /\ w[i + 1] = WalkStep(w[i])
    <3>1. i + 1 \in 1 .. b /\ (i + 1) - 1 = i
      BY <1>1
    <3> QED BY <1>1, <1>2, <3>1
  <2>2. PICK t : t = w[i]
    OBVIOUS
  <2>3. Well(t, n, all) /\ Standing(t)
    BY <1>4, <2>2
  <2>4. Well(WalkStep(t), n, all) /\ Standing(WalkStep(t))
    <3>1. CASE t.current = EndOfList \/ t.active # EndOfList
      BY <2>3, <3>1 DEF WalkStep
    <3>2. CASE ~(t.current = EndOfList \/ t.active # EndOfList)
      <4>1. Coming(t, n, all)
        BY <2>3, <3>2, StandingComes
      <4>2. PICK x : x = WalkAt(t, At(t, t.current))
        OBVIOUS
      <4>3. WalkStep(t) = x
        BY <3>2, <4>2 DEF WalkStep
      <4> QED BY <3>2, <4>1, <4>2, <4>3, WalkedAt
    <3> QED BY <3>1, <3>2
  <2> QED BY <2>1, <2>2, <2>4
<1>5. b \in Some
  <2> HIDE DEF Some, b
  <2>1. b \in 0 .. b
    BY <1>1
  <2> QED BY <1>1, <1>3, <1>4, <2>1, UpTo
<1> QED BY <1>5

(* What only the range of sockets tells.                                    *)
LEMMA TopsWell ==
  ASSUME NEW s, NEW t, NEW n, NEW all, Well(s, n, all), SameLists(s, t), t.current \in Pointers(s), Tops(t)
  PROVE  Well(t, n, all)
<1>1. InOrder(t, n)
  BY DEF Well, InOrder, SameLists, Ids, AllOf, Pointers
<1>2. Counted(t)
  BY DEF Well, Counted, SameLists
<1>3. Timed(t, all, n)
  BY DEF Well, Timed, SameLists, AllOf
<1> QED BY <1>1, <1>2, <1>3 DEF Well

(* The same lists and sets: the walk stands the same.                       *)
LEMMA StandingSame ==
  ASSUME NEW s, NEW t, Standing(s), SameLists(s, t), SameSets(s, t), t.current = s.current,
         t.active = s.active, t.newtop = s.newtop
  PROVE  Standing(t)
<1>1. t.main = s.main /\ t.wait = s.wait /\ t.waiting = s.waiting
  BY DEF SameLists
<1>2. Done(t) = Done(s)
  BY <1>1, SameDone
<1>3. \A id : At(t, id) = At(s, id)
  BY <1>1 DEF At
<1>4. Exceptional(t) = Exceptional(s)
  BY <1>1, <1>3 DEF Exceptional, SameSets
<1>5. \A out : AllOk(s, out) => AllOk(t, out)
  BY <1>1 DEF AllOk, SocketOk, AllOf, SameSets
<1>6. Working(t, t.active) = Working(s, s.active)
  BY <1>1 DEF Working
<1>7. Passed(t) <=> Passed(s)
  BY <1>1, <1>2 DEF Passed
<1>8. (ActiveBehind(t) <=> ActiveBehind(s)) /\ (CurrentFirst(t) <=> CurrentFirst(s)) /\ (SameSocket(t) <=> SameSocket(s))
  BY <1>1, <1>2 DEF ActiveBehind, CurrentFirst, SameSocket
<1> QED BY <1>4, <1>5, <1>6, <1>7, <1>8 DEF Standing, WalkStands

(* At the end of the list a walk takes the bound it found, which is over    *)
(* all sockets then.                                                        *)
LEMMA WalkedOn ==
  ASSUME GoodRequests, NEW s, NEW n \in Nat, NEW all, Coming(s, n, all)
  PROVE  Well(WalkOn(s), n, all) /\ Standing(WalkOn(s))
<1>1. PICK t : t = Walking(s)[Bound(s)]
  OBVIOUS
<1>2. Well(t, n, all) /\ Standing(t)
  BY <1>1, WalkedFar
<1>3. CASE t.current # EndOfList
  <2>1. WalkOn(s) = t
    BY <1>1, <1>3 DEF WalkOn
  <2> QED BY <1>2, <2>1
<1>4. CASE t.current = EndOfList
  <2>1. PICK u : u = [t EXCEPT !.top = t.newtop, !.deleted = t.deleted /\ t.delwalk]
    OBVIOUS
  <2>2. WalkOn(s) = u
    BY <1>1, <1>4, <2>1 DEF WalkOn
  <2>3. t \in Sock /\ t.current \in Pointers(t)
    BY <1>2 DEF Well, InOrder
  <2>4. /\ SameLists(t, u) /\ SameSets(t, u) /\ u.current = t.current /\ u.active = t.active
        /\ u.newtop = t.newtop /\ u.top = t.newtop
    BY ONLY <2>1, <2>3 DEF SameLists, SameSets, Sock
  <2>5. Tops(u)
    <3>1. Done(t) = Requests(t.main)
      BY <1>4 DEF Done
    <3>2. \A r \in Requests(t.main) : r.handle =< t.newtop
      BY <1>2, <3>1 DEF Standing, WalkStands, Passed
    <3> QED BY <2>4, <3>2 DEF Tops, SameLists, Handles
  <2> QED BY <1>2, <2>2, <2>3, <2>4, <2>5, TopsWell, StandingSame
<1> QED BY <1>3, <1>4

(* check_next_socket_activity keeps the invariant.                          *)
LEMMA GoesOn ==
  ASSUME GoodRequests, NEW s, NEW n \in Nat, NEW all, Well(s, n, all), Passed(s), CurrentFirst(s), AllOk(s, {}),
         NEW t, t = check_next_socket_activity(s)
  PROVE  Well(t, n, all) /\ Standing(t)
<1>1. PICK u : u = [s EXCEPT !.active = EndOfList]
  OBVIOUS
<1>2. s \in Sock /\ s.current \in Pointers(s)
  BY DEF Well, InOrder
<1>3. /\ SameLists(s, u) /\ SameSets(s, u) /\ u.current = s.current /\ u.active = EndOfList
      /\ u.newtop = s.newtop /\ u.top = s.top
  BY ONLY <1>1, <1>2 DEF SameLists, SameSets, Sock, EndOfList
<1>4. u.main = s.main /\ u.wait = s.wait /\ u.waiting = s.waiting
  BY <1>3 DEF SameLists
<1>5. Well(u, n, all)
  BY <1>2, <1>3, SameWell
<1>6. Done(u) = Done(s)
  BY <1>3, <1>4, SameDone
<1>7. Coming(u, n, all)
  <2>1. Passed(u) /\ CurrentFirst(u)
    BY <1>3, <1>4, <1>6 DEF Passed, CurrentFirst
  <2>2. AllOk(u, {})
    BY <1>3, <1>4 DEF AllOk, SocketOk, AllOf, SameSets
  <2> QED BY <1>3, <1>5, <2>1, <2>2 DEF Coming
<1>8. t = WalkOn(u)
  BY <1>1 DEF check_next_socket_activity
<1> QED BY <1>7, <1>8, WalkedOn

(* check_first_socket_activity begins a walk that stands.                   *)
LEMMA GoesFirst ==
  ASSUME GoodRequests, NEW s, NEW n \in Nat, NEW all, Well(s, n, all), AllOk(s, {}),
         NEW t, t = check_first_socket_activity(s)
  PROVE  Well(t, n, all) /\ Standing(t)
<1>1. PICK u : u = [s EXCEPT !.current = Pointer(s, 1), !.newtop = 0, !.delwalk = FALSE]
  OBVIOUS
<1>2. InOrder(s, n) /\ s \in Sock /\ Len(s.main) \in Nat /\ 1 \in 1 .. Len(s.main) + 1
  <2>1. InOrder(s, n) /\ s \in Sock
    BY DEF Well, InOrder
  <2>2. Len(s.main) \in Nat
    BY <2>1, InSock
  <2> QED BY <2>1, <2>2
<1>3. u.main = s.main /\ u.current = Pointer(s, 1)
  BY <1>1, <1>2 DEF Sock
<1>4. u.current \in Pointers(s) /\ Done(u) = {s.main[q] : q \in 1 .. 1 - 1}
  BY <1>2, <1>3, DoneAt
<1>5. Done(u) = {}
  BY <1>4
<1>6. u.current \in Nat
  <2>1. \A r \in Requests(s.main) : r.id \in Nat
    BY <1>2, InSock, InRequest DEF AllOf
  <2> QED BY <1>4, <2>1 DEF Pointers, EndOfList
<1>7. SameLists(s, u) /\ SameSets(s, u) /\ u.top = s.top
  <2> DEFINE c == Pointer(s, 1)
  <2>1. c \in Nat /\ u = [s EXCEPT !.current = c, !.newtop = 0, !.delwalk = FALSE]
    BY <1>1, <1>3, <1>6
  <2> HIDE DEF c
  <2> QED BY ONLY <1>2, <2>1 DEF SameLists, SameSets, Sock
<1>8. Well(u, n, all)
  BY <1>4, <1>7, SameWell
<1>9. AllOk(u, {})
  BY <1>7 DEF AllOk, SocketOk, AllOf, SameLists, SameSets
<1>10. t = check_next_socket_activity(u)
  BY <1>1 DEF check_first_socket_activity
<1>11. Passed(u) /\ CurrentFirst(u)
  BY <1>5 DEF Passed, CurrentFirst
<1> QED BY <1>8, <1>9, <1>10, <1>11, GoesOn

(* The step that shows what the walk found keeps the invariant.             *)
LEMMA WalkKeeps ==
  ASSUME GoodRequests, NEW s, Walk(s), Well(s, asked', sent'), Standing(s),
         asked' \in 0 .. MaxRequests, sent' \subseteq 1 .. MaxRequests
  PROVE  SockInv'
<1>1. /\ sock' = s /\ state' = "Socket-Activity" /\ the_next_event' = generate_request_type_event(s)
  BY DEF Walk
<1>2. s \in Sock /\ \A r \in Requests(s.main) : r.id # EndOfList
  <2>1. s \in Sock
    BY DEF Well, InOrder
  <2> QED BY <2>1, InSock, InRequest DEF AllOf, EndOfList
<1>3. InOrder(s, asked')
  BY DEF Well
<1>4. CASE s.active = EndOfList
  <2>1. the_next_event' = "no_active_request" /\ ~Exceptional(s)
    BY <1>1, <1>4 DEF generate_request_type_event, Exceptional
  <2>2. AtWork' = Working(s, s.active)
    BY <1>1, <2>1 DEF AtWork
  <2>3. WalkStands(s, AtWork', FALSE)
    BY <2>1, <2>2 DEF Standing, WalkStands
  <2>4. WalkInv'
    BY <1>1, <1>4, <2>1, <2>3 DEF WalkInv
  <2> QED BY <1>1, <2>4 DEF SockInv, TypeInv, GettingEvent
<1>5. CASE s.active # EndOfList
  <2>1. PICK a \in Requests(s.main) : a.id = s.active
    BY <1>5 DEF Standing, WalkStands, ActiveBehind, Done
  <2>2. s.main[At(s, s.active)] = a
    BY <1>3, <2>1, AtOf
  <2>3. a.type \in Types
    BY <1>2, <2>1, InSock, InRequest DEF AllOf
  <2>4. CASE a.handle \in s.rerr
    <3>1. the_next_event' = "exception" /\ Exceptional(s)
      BY <1>1, <1>5, <2>2, <2>4 DEF generate_request_type_event, Exceptional
    <3>2. AtWork' = {}
      BY <3>1 DEF AtWork
    <3>3. WalkStands(s, AtWork', TRUE)
      BY <3>1, <3>2 DEF Standing
    <3>4. WalkInv'
      BY <1>1, <1>5, <3>1, <3>3 DEF WalkInv
    <3> QED BY <1>1, <3>4 DEF SockInv, TypeInv, GettingEvent
  <2>5. CASE a.handle \notin s.rerr
    <3>1. the_next_event' = a.type /\ ~Exceptional(s)
      BY <1>1, <1>5, <2>2, <2>5 DEF generate_request_type_event, Exceptional
    <3>2. the_next_event' \notin {"exception", "incomplete", "no_active_request"}
      BY <2>3, <3>1 DEF Types
    <3>3. AtWork' = Working(s, s.active)
      BY <1>1, <3>2 DEF AtWork
    <3>4. WalkStands(s, AtWork', FALSE)
      BY <3>1, <3>3 DEF Standing, WalkStands
    <3>5. the_next_event' \in {x.type : x \in {x \in Requests(s.main) : x.id = s.active}}
      BY <2>1, <3>1
    <3>6. WalkInv'
      BY <1>1, <1>5, <3>2, <3>4, <3>5 DEF WalkInv
    <3> QED BY <1>1, <3>6 DEF SockInv, TypeInv, GettingEvent
  <2> QED BY <2>4, <2>5
<1> QED BY <1>4, <1>5

-----------------------------------------------------------------------------
(* Bytes are moved: only how many is new in a request.                      *)

Alike(a, b) ==
  /\ a.id = b.id /\ a.type = b.type /\ a.repeat = b.repeat /\ a.timed = b.timed
  /\ a.handle = b.handle

Like(s, t) ==
  /\ t \in Sock /\ Len(t.main) = Len(s.main)
  /\ \A q \in 1 .. Len(s.main) : Alike(t.main[q], s.main[q])
  /\ t.wait = s.wait /\ t.count = s.count /\ t.waiting = s.waiting
  /\ t.alarms = s.alarms /\ t.answers = s.answers
  /\ t.current = s.current /\ t.active = s.active /\ t.top = s.top /\ t.newtop = s.newtop

(* Two lists that differ in what was read and written alone.                *)
LEMMA LikeRequests ==
  ASSUME NEW s \in Sock, NEW t, Like(s, t)
  PROVE  /\ \A r \in Requests(t.main) : \E x \in Requests(s.main) : Alike(r, x)
         /\ \A x \in Requests(s.main) : \E r \in Requests(t.main) : Alike(r, x)
<1>1. t \in Sock /\ Len(t.main) = Len(s.main) /\ \A q \in 1 .. Len(s.main) : Alike(t.main[q], s.main[q])
  BY DEF Like
<1>2. /\ Requests(s.main) = {s.main[p] : p \in 1 .. Len(s.main)}
      /\ Requests(t.main) = {t.main[p] : p \in 1 .. Len(t.main)}
  BY <1>1, InSock
<1> QED BY <1>1, <1>2

(* Alike requests are of one kind.                                          *)
LEMMA LikeKinds ==
  ASSUME NEW a, NEW b, Alike(a, b)
  PROVE  /\ request_is_input(a) <=> request_is_input(b)
         /\ request_is_output(a) <=> request_is_output(b)
         /\ \A c : (Kin(a, c) <=> Kin(b, c)) /\ (Kin(c, a) <=> Kin(c, b))
BY DEF Alike, Kin, request_is_input, request_is_output

(* What holds of the lists does not depend on what was read and written.    *)
LEMMA LikeWell ==
  ASSUME GoodRequests, NEW s, NEW n, NEW all, Well(s, n, all), NEW t, Like(s, t)
  PROVE  Well(t, n, all)
<1>1. InOrder(s, n) /\ s \in Sock /\ Counted(s) /\ Tops(s) /\ Timed(s, all, n)
  BY DEF Well, InOrder
<1>2. /\ t \in Sock /\ Len(t.main) = Len(s.main) /\ \A q \in 1 .. Len(s.main) : Alike(t.main[q], s.main[q])
      /\ t.wait = s.wait /\ t.count = s.count /\ t.waiting = s.waiting
      /\ t.alarms = s.alarms /\ t.answers = s.answers /\ t.current = s.current /\ t.top = s.top
  BY DEF Like
<1>3. /\ \A r \in Requests(t.main) : \E x \in Requests(s.main) : Alike(r, x)
      /\ \A x \in Requests(s.main) : \E r \in Requests(t.main) : Alike(r, x)
  BY <1>1, LikeRequests
<1>4. Len(s.main) \in Nat
  BY <1>1, InSock
<1>5. Sorted(t.main)
  <2> SUFFICES ASSUME NEW p \in 1 .. Len(s.main), NEW q \in 1 .. Len(s.main), p < q
               PROVE  Follows(t.main, p, q)
    BY <1>2 DEF Sorted, Follows
  <2>1. Follows(s.main, p, q)
    BY <1>1 DEF InOrder, Sorted, Follows
  <2>2. Alike(t.main[p], s.main[p]) /\ Alike(t.main[q], s.main[q])
    BY <1>2
  <2>3. \A j \in p .. q : Alike(t.main[j], s.main[j])
    BY <1>2, <1>4
  <2>4. Kin(t.main[p], t.main[q]) <=> Kin(s.main[p], s.main[q])
    BY <2>2, LikeKinds
  <2>5. /\ t.main[p].id = s.main[p].id /\ t.main[q].id = s.main[q].id
        /\ t.main[p].handle = s.main[p].handle /\ t.main[q].handle = s.main[q].handle
        /\ \A j \in p .. q : t.main[j].handle = s.main[j].handle
        /\ request_is_input(t.main[p]) <=> request_is_input(s.main[p])
        /\ request_is_input(t.main[q]) <=> request_is_input(s.main[q])
    BY <2>2, <2>3, LikeKinds DEF Alike
  <2> QED BY <2>1, <2>4, <2>5 DEF Follows
<1>6. Ids(t) = Ids(s)
  BY <1>2, <1>3 DEF Ids, AllOf, Alike
<1>7. Handles(t.main) = Handles(s.main) /\ Pointers(t) = Pointers(s)
  BY <1>3 DEF Handles, Pointers, Alike
<1>8. InOrder(t, n)
  <2>1. \A r \in Requests(t.main), w \in Requests(t.wait) :
          r.id # w.id /\ (r.handle = w.handle => r.id < w.id)
    BY <1>1, <1>2, <1>3 DEF InOrder, Alike
  <2>2. \A i \in 1 .. MaxRequests : t.answers[i] = IF i > n \/ i \in Ids(t) THEN 0 ELSE 1
    BY <1>1, <1>2, <1>6 DEF InOrder
  <2> QED BY <1>1, <1>2, <1>5, <1>6, <1>7, <2>1, <2>2 DEF InOrder
<1>9. Counted(t) /\ Tops(t)
  BY <1>1, <1>2, <1>7 DEF Counted, Tops
<1>10. Timed(t, all, n)
  BY <1>1, <1>2, <1>3 DEF Timed, AllOf, Alike
<1> QED BY <1>8, <1>9, <1>10 DEF Well

(* Nor which requests are behind the pointer.                               *)
LEMMA LikeDone ==
  ASSUME GoodRequests, NEW s, NEW n, NEW all, Well(s, n, all), NEW t, Like(s, t)
  PROVE  /\ \A r \in Done(t) : \E x \in Done(s) : Alike(r, x)
         /\ \A x \in Done(s) : \E r \in Done(t) : Alike(r, x)
<1>1. InOrder(s, n) /\ s \in Sock /\ InOrder(t, n) /\ t.current = s.current
  BY LikeWell DEF Well, InOrder, Like
<1>2. /\ \A r \in Requests(t.main) : \E x \in Requests(s.main) : Alike(r, x)
      /\ \A x \in Requests(s.main) : \E r \in Requests(t.main) : Alike(r, x)
  BY <1>1, LikeRequests
<1>3. Len(t.main) = Len(s.main) /\ \A q \in 1 .. Len(s.main) : Alike(t.main[q], s.main[q])
  BY DEF Like
<1>4. \A id \in Pointers(s) : id # EndOfList => At(t, id) = At(s, id)
  <2> SUFFICES ASSUME NEW id \in Pointers(s), id # EndOfList PROVE At(t, id) = At(s, id)
    OBVIOUS
  <2>1. PICK q : q \in 1 .. Len(s.main) /\ s.main[q].id = id /\ q = At(s, id)
    BY <1>1, AtPointer
  <2>2. t.main[q].id = id /\ q \in 1 .. Len(t.main)
    BY <1>3, <2>1 DEF Alike
  <2> QED BY <1>1, <2>1, <2>2, AtPlace
<1>5. \A x \in Requests(s.main) : x.id \in Pointers(s) /\ x.id # EndOfList
  BY <1>1, InSock, InRequest DEF Pointers, AllOf, EndOfList
<1>6. s.current \in Pointers(s)
  BY <1>1 DEF InOrder
<1>7. \A r \in Requests(t.main), x \in Requests(s.main) : Alike(r, x) => (r \in Done(t) <=> x \in Done(s))
  <2> SUFFICES ASSUME NEW r \in Requests(t.main), NEW x \in Requests(s.main), Alike(r, x)
               PROVE  r \in Done(t) <=> x \in Done(s)
    OBVIOUS
  <2>1. r.id = x.id /\ At(t, r.id) = At(s, x.id)
    BY <1>4, <1>5 DEF Alike
  <2>2. s.current # EndOfList => At(t, t.current) = At(s, s.current)
    BY <1>1, <1>4, <1>6
  <2> QED BY <1>1, <2>1, <2>2 DEF Done
<1>8. (\A r \in Done(t) : r \in Requests(t.main)) /\ (\A r \in Done(s) : r \in Requests(s.main))
  BY DEF Done
<1> QED BY <1>2, <1>7, <1>8

(* Nor what holds of the walk.                                              *)
LEMMA LikeWalk ==
  ASSUME GoodRequests, NEW s, NEW n, NEW all, Well(s, n, all), NEW t, Like(s, t)
  PROVE  /\ Passed(s) => Passed(t)
         /\ ActiveBehind(s) => ActiveBehind(t)
         /\ CurrentFirst(s) => CurrentFirst(t)
<1>1. s \in Sock
  BY DEF Well, InOrder
<1>2. /\ \A r \in Requests(t.main) : \E x \in Requests(s.main) : Alike(r, x)
      /\ \A x \in Requests(s.main) : \E r \in Requests(t.main) : Alike(r, x)
  BY <1>1, LikeRequests
<1>3. /\ \A r \in Done(t) : \E x \in Done(s) : Alike(r, x)
      /\ \A x \in Done(s) : \E r \in Done(t) : Alike(r, x)
  BY LikeDone
<1>4. t.newtop = s.newtop /\ t.waiting = s.waiting /\ t.active = s.active /\ t.current = s.current
  BY DEF Like
<1>5. Passed(s) => Passed(t)
  BY <1>3, <1>4 DEF Passed, Alike
<1>6. ActiveBehind(s) => ActiveBehind(t)
  BY <1>3, <1>4 DEF ActiveBehind, Alike
<1>7. ASSUME CurrentFirst(s), NEW c \in Requests(t.main), c.id = t.current, NEW r \in Done(t), Kin(r, c)
      PROVE  FALSE
  <2>1. PICK x \in Done(s) : Alike(r, x)
    BY <1>3
  <2>2. PICK d \in Requests(s.main) : Alike(c, d)
    BY <1>2
  <2>3. Kin(x, d)
    BY <1>7, <2>1, <2>2, LikeKinds
  <2>4. d.id = s.current
    BY <1>4, <1>7, <2>2 DEF Alike
  <2> QED BY <1>7, <2>3, <2>4 DEF CurrentFirst
<1> QED BY <1>5, <1>6, <1>7 DEF CurrentFirst

(* Nor what is watched.                                                     *)
LEMMA LikeOk ==
  ASSUME NEW s \in Sock, NEW t, Like(s, t), t.fin = s.fin, t.fout = s.fout, t.ferr = s.ferr,
         NEW out, AllOk(s, out), NEW left,
         \A r \in AllOf(t), x \in AllOf(s) : Alike(r, x) => (r \in left <=> x \in out)
  PROVE  AllOk(t, left)
<1>1. /\ \A r \in AllOf(t) : \E x \in AllOf(s) : Alike(r, x)
      /\ \A x \in AllOf(s) : \E r \in AllOf(t) : Alike(r, x)
  <2>1. /\ \A r \in Requests(t.main) : \E x \in Requests(s.main) : Alike(r, x)
        /\ \A x \in Requests(s.main) : \E r \in Requests(t.main) : Alike(r, x)
    BY LikeRequests
  <2>2. t.wait = s.wait
    BY DEF Like
  <2>3. \A x : Alike(x, x)
    BY DEF Alike
  <2> QED BY <2>1, <2>2, <2>3 DEF AllOf
<1>2. \A x \in Requests(s.main) : \E r \in Requests(t.main) : Alike(r, x)
  BY LikeRequests
<1> SUFFICES ASSUME NEW h \in Handle PROVE SocketOk(t, h, left)
  BY DEF AllOk
<1>3. SocketOk(s, h, out)
  BY DEF AllOk
<1>4. \A r \in On(h, AllOf(t)) \ left : h \in t.ferr /\ h \in IF request_is_input(r) THEN t.fin ELSE t.fout
  <2> SUFFICES ASSUME NEW r \in On(h, AllOf(t)) \ left
               PROVE  h \in t.ferr /\ h \in IF request_is_input(r) THEN t.fin ELSE t.fout
    OBVIOUS
  <2>1. PICK x \in AllOf(s) : Alike(r, x)
    BY <1>1 DEF On
  <2>2. x \in On(h, AllOf(s)) \ out
    BY <2>1 DEF On, Alike
  <2> QED BY <1>3, <2>1, <2>2, LikeKinds DEF SocketOk
<1>5. h \in t.fout => \E r \in On(h, AllOf(t)) \ left : request_is_output(r)
  <2> SUFFICES ASSUME h \in t.fout PROVE \E r \in On(h, AllOf(t)) \ left : request_is_output(r)
    OBVIOUS
  <2>1. PICK x \in On(h, AllOf(s)) \ out : request_is_output(x)
    BY <1>3 DEF SocketOk
  <2>2. PICK r \in AllOf(t) : Alike(r, x)
    BY <1>1, <2>1 DEF On
  <2>3. r \in On(h, AllOf(t)) \ left
    BY <2>1, <2>2 DEF On, Alike
  <2> QED BY <2>1, <2>2, <2>3, LikeKinds
<1>6. h \in t.fin => \E r \in On(h, AllOf(t)) \ left :
                       request_is_input(r) \/ (r.type = "close" /\ r \in Requests(t.main))
  <2> SUFFICES ASSUME h \in t.fin
               PROVE  \E r \in On(h, AllOf(t)) \ left :
                        request_is_input(r) \/ (r.type = "close" /\ r \in Requests(t.main))
    OBVIOUS
  <2>1. PICK x \in On(h, AllOf(s)) \ out : request_is_input(x) \/ (x.type = "close" /\ x \in Requests(s.main))
    BY <1>3 DEF SocketOk
  <2>2. PICK r \in AllOf(t) : Alike(r, x) /\ (x \in Requests(s.main) => r \in Requests(t.main))
    BY <1>1, <1>2, <2>1 DEF On, AllOf
  <2>3. r \in On(h, AllOf(t)) \ left
    BY <2>1, <2>2 DEF On, Alike
  <2>4. request_is_input(r) \/ (r.type = "close" /\ r \in Requests(t.main))
    BY <2>1, <2>2, LikeKinds DEF Alike
  <2> QED BY <2>3, <2>4
<1>7. h \in t.ferr <=> h \in t.fin \cup t.fout
  BY <1>3 DEF SocketOk
<1> QED BY <1>4, <1>5, <1>6, <1>7 DEF SocketOk

(* A record with one request of its list changed in nothing else.           *)
LEMMA ChangedLike ==
  ASSUME NEW s \in Sock, NEW p \in 1 .. Len(s.main), NEW r \in Request, Alike(r, s.main[p]),
         NEW t, t = [s EXCEPT !.main[p] = r]
  PROVE  Like(s, t) /\ SameSets(s, t) /\ t.main[p] = r
<1> DEFINE l == [s.main EXCEPT ![p] = r]
<1>1. /\ l \in Seq(Request) /\ Len(l) = Len(s.main) /\ l[p] = r
      /\ \A q \in 1 .. Len(s.main) : q # p => l[q] = s.main[q]
  <2>1. s.main \in Seq(Request)
    BY InSock
  <2> QED BY <2>1
<1>2. t = [s EXCEPT !.main = l]
  OBVIOUS
<1> HIDE DEF l
<1>3. \A q \in 1 .. Len(s.main) : Alike(l[q], s.main[q])
  BY <1>1 DEF Alike
<1> QED BY <1>1, <1>2, <1>3 DEF Like, SameSets, Sock

(* The request at work, and how the walk stands.                            *)
LEMMA AtRequest ==
  ASSUME GoodRequests, SockInv, InWalk, the_next_event # "no_active_request",
         NEW a, a = active_request
  PROVE  /\ asked \in Nat /\ Well(sock, asked, sent) /\ InOrder(sock, asked) /\ Counted(sock) /\ sock \in Sock
         /\ At(sock, sock.active) \in 1 .. Len(sock.main) /\ a = sock.main[At(sock, sock.active)]
         /\ a \in Requests(sock.main) /\ a \in Request /\ a.id = sock.active /\ a \in Done(sock)
         /\ a.handle \notin sock.waiting /\ a.handle \in Handle
         /\ WalkStands(sock, AtWork, the_next_event = "exception")
         /\ Passed(sock) /\ ActiveBehind(sock) /\ AllOk(sock, AtWork)
         /\ Working(sock, sock.active) = IF a.repeat THEN {} ELSE {a}
         /\ sock.active \in Nat /\ sock.active # EndOfList
<1>1. Well(sock, asked, sent) /\ InOrder(sock, asked) /\ Counted(sock) /\ sock \in Sock
  BY DEF SockInv, Well, InOrder
<1>2. asked \in Nat
  <2>1. MaxRequests \in Nat
    BY DEF GoodRequests
  <2> QED BY <2>1 DEF SockInv, TypeInv
<1>3. WalkStands(sock, AtWork, the_next_event = "exception") /\ sock.active # EndOfList
  BY DEF SockInv, WalkInv
<1>4. Passed(sock) /\ ActiveBehind(sock) /\ AllOk(sock, AtWork)
  BY <1>3 DEF WalkStands
<1>5. PICK x \in Done(sock) : x.id = sock.active
  BY <1>3, <1>4 DEF ActiveBehind
<1>6. x \in Requests(sock.main)
  BY <1>5 DEF Done
<1>7. At(sock, sock.active) \in 1 .. Len(sock.main) /\ sock.main[At(sock, sock.active)] = x
  BY <1>1, <1>5, <1>6, AtOf
<1>8. a = x
  BY <1>7 DEF active_request
<1>9. x \in Request /\ x.handle \in Handle
  BY <1>1, <1>6, InSock, InRequest DEF AllOf
<1>10. x.handle \notin sock.waiting
  BY <1>4, <1>5 DEF Passed
<1>11. Working(sock, sock.active) = IF a.repeat THEN {} ELSE {a}
  <2>1. \A y \in Requests(sock.main) : y.id = sock.active => y = x
    BY <1>1, <1>5, <1>6, OneNumber DEF AllOf
  <2> QED BY <1>5, <1>6, <1>8, <2>1 DEF Working
<1>12. sock.active \in Nat
  BY <1>1 DEF Sock
<1> QED BY <1>1, <1>2, <1>3, <1>4, <1>5, <1>6, <1>7, <1>8, <1>9, <1>10, <1>11, <1>12

(* Requests that end on a socket for which none waits, and that are not to  *)
(* come in the walk.                                                        *)
LEMMA EndsWell ==
  ASSUME GoodRequests, NEW s, NEW n \in Nat, NEW all, Well(s, n, all), NEW h, h \notin s.waiting,
         NEW rs, rs \subseteq Requests(s.main), \A r \in rs : r.handle = h,
         NEW t, t = EndAll(s, rs)
  PROVE  EndedWell(s, t, rs, n) /\ Well(t, n, all) /\ (Passed(s) => Passed(t))
<1>1. EndedWell(s, t, rs, n)
  BY EndSome DEF Well
<1>2. Tops(t)
  BY <1>1, TopsLess DEF Well, EndedWell, SameRest, Handles
<1>3. Timed(t, all, n)
  <2>1. AllOf(t) \subseteq AllOf(s) /\ t.alarms \subseteq s.alarms
    BY <1>1 DEF EndedWell
  <2> QED BY <2>1, TimedLess DEF Well
<1>4. Passed(s) => Passed(t)
  <2>1. t.newtop = s.newtop /\ t.waiting = s.waiting /\ Done(t) \subseteq Done(s)
    BY <1>1 DEF EndedWell, SameRest, Counted, Well
  <2> QED BY <2>1 DEF Passed
<1> QED BY <1>1, <1>2, <1>3, <1>4 DEF Well, EndedWell

(* When requests that were left out end, the sockets are as they were.      *)
LEMMA EndedOk ==
  ASSUME NEW s, NEW t, NEW rs, AllOk(s, rs), SameSets(s, t), AllOf(t) = AllOf(s) \ rs,
         Requests(t.main) = Requests(s.main) \ rs
  PROVE  AllOk(t, {})
<1> SUFFICES ASSUME NEW x \in Handle PROVE SocketOk(t, x, {})
  BY DEF AllOk
<1>1. SocketOk(s, x, rs)
  BY DEF AllOk
<1>2. On(x, AllOf(t)) \ {} = On(x, AllOf(s)) \ rs
  BY DEF On
<1>3. On(x, Requests(s.main)) \ rs \subseteq Requests(t.main)
  BY DEF On
<1>4. (x \in t.fin <=> x \in s.fin) /\ (x \in t.fout <=> x \in s.fout) /\ (x \in t.ferr <=> x \in s.ferr)
  BY DEF SameSets
<1> QED BY <1>1, <1>2, <1>3, <1>4, SocketSame

(* An action that goes on with the walk keeps the invariant when its first  *)
(* part left nothing unwatched.                                             *)
LEMMA NextKeeps ==
  ASSUME GoodRequests, SockInv, NEW s, Walk(check_next_socket_activity(s)), Steady,
         Well(s, asked, sent), Passed(s), CurrentFirst(s), AllOk(s, {})
  PROVE  SockInv'
<1>1. asked \in Nat /\ asked \in 0 .. MaxRequests /\ sent \subseteq 1 .. MaxRequests
  <2>1. MaxRequests \in Nat
    BY DEF GoodRequests
  <2> QED BY <2>1 DEF SockInv, TypeInv
<1>2. PICK t : t = check_next_socket_activity(s)
  OBVIOUS
<1>3. Well(t, asked, sent) /\ Standing(t)
  BY <1>1, <1>2, GoesOn
<1>4. asked' = asked /\ sent' = sent
  BY DEF Steady
<1> QED BY <1>1, <1>2, <1>3, <1>4, WalkKeeps

(* A request is answered and ends, or begins again.                         *)
LEMMA ReplyOkKeeps ==
  ASSUME GoodRequests, SockInv, ReplyOk
  PROVE  SockInv'
<1> DEFINE a == active_request
           s == send_ok_reply(sock, a)
<1>1. /\ InWalk /\ the_next_event \in {"input", "output", "finished"}
      /\ Walk(check_next_socket_activity(s)) /\ Steady
  BY DEF ReplyOk, SocketActivity, AfterActivity, InWalk
<1>2. /\ asked \in Nat /\ Well(sock, asked, sent) /\ InOrder(sock, asked) /\ sock \in Sock
      /\ At(sock, sock.active) \in 1 .. Len(sock.main) /\ a = sock.main[At(sock, sock.active)]
      /\ a \in Requests(sock.main) /\ a \in Request /\ a.id = sock.active /\ a \in Done(sock)
      /\ a.handle \notin sock.waiting
      /\ WalkStands(sock, AtWork, the_next_event = "exception")
      /\ Passed(sock) /\ AllOk(sock, AtWork)
      /\ Working(sock, sock.active) = IF a.repeat THEN {} ELSE {a}
  BY <1>1, AtRequest
<1> HIDE DEF a
<1>3. AllOk(sock, IF a.repeat THEN {} ELSE {a})
  BY <1>1, <1>2 DEF AtWork
<1>4. CurrentFirst(sock)
  BY <1>1, <1>2 DEF WalkStands
<1>5. Well(s, asked, sent) /\ Passed(s) /\ CurrentFirst(s) /\ AllOk(s, {})
  <2>1. CASE a.repeat
    <3> DEFINE p == At(sock, a.id)
               r == [a EXCEPT !.cur = 0]
    <3>1. r \in Request /\ Alike(r, sock.main[p]) /\ p \in 1 .. Len(sock.main) /\ sock.main[p] = a
      BY <1>2 DEF Request, Alike
    <3>2. s = [sock EXCEPT !.main[p] = r]
      <4>1. s = [sock EXCEPT !.main[p].cur = 0]
        BY <2>1 DEF send_ok_reply
      <4> QED BY <1>2, <3>1, <4>1
    <3> HIDE DEF p, r, s
    <3>3. Like(sock, s) /\ SameSets(sock, s)
      BY <1>2, <3>1, <3>2, ChangedLike
    <3>4. Well(s, asked, sent) /\ Passed(s) /\ CurrentFirst(s)
      BY <1>2, <1>4, <3>3, LikeWell, LikeWalk
    <3>5. AllOk(s, {})
      BY <1>2, <1>3, <2>1, <3>3, LikeOk DEF SameSets
    <3> QED BY <3>4, <3>5
  <2>2. CASE ~a.repeat
    <3>1. s = EndAll(sock, {a})
      BY <2>2 DEF send_ok_reply, End
    <3> HIDE DEF s
    <3>2. EndedWell(sock, s, {a}, asked) /\ Well(s, asked, sent) /\ Passed(s)
      <4>1. {a} \subseteq Requests(sock.main) /\ \A r \in {a} : r.handle = a.handle
        BY <1>2
      <4> QED BY <1>2, <3>1, <4>1, EndsWell
    <3>3. AllOk(s, {})
      BY <1>3, <2>2, <3>2, EndedOk DEF EndedWell
    <3>4. s.current = sock.current
      <4>1. sock.current \notin IdsOf({a})
        <5>1. sock.current = EndOfList \/ At(sock, a.id) < At(sock, sock.current)
          BY <1>2 DEF Done
        <5>2. At(sock, a.id) \in Nat /\ a.id # EndOfList
          BY <1>2, InRequest DEF EndOfList
        <5> QED BY <5>1, <5>2 DEF IdsOf
      <4> QED BY <1>2, <3>1, <4>1, EndAllStays
    <3>5. CurrentFirst(s)
      <4>1. Requests(s.main) \subseteq Requests(sock.main) /\ Done(s) \subseteq Done(sock)
        BY <3>2 DEF EndedWell
      <4> QED BY <1>4, <3>4, <4>1 DEF CurrentFirst
    <3> QED BY <3>2, <3>3, <3>5
  <2> QED BY <2>1, <2>2
<1> HIDE DEF s
<1> QED BY <1>1, <1>5, NextKeeps

(* A request that is not complete is watched again already.                 *)
LEMMA IncompleteKeeps ==
  ASSUME GoodRequests, SockInv, Incomplete
  PROVE  SockInv'
<1>1. /\ InWalk /\ the_next_event = "incomplete"
      /\ Walk(check_next_socket_activity(sock)) /\ Steady
  BY DEF Incomplete, AfterActivity, InWalk
<1>2. WalkStands(sock, {}, FALSE) /\ Well(sock, asked, sent)
  BY <1>1 DEF SockInv, WalkInv, AtWork
<1> QED BY <1>1, <1>2, NextKeeps DEF WalkStands

(* The same lists and pointers: the walk stands the same.                   *)
LEMMA SameWalk ==
  ASSUME NEW s, NEW t, SameLists(s, t), t.current = s.current, t.active = s.active, t.newtop = s.newtop
  PROVE  /\ Passed(s) => Passed(t)
         /\ ActiveBehind(s) => ActiveBehind(t)
         /\ CurrentFirst(s) => CurrentFirst(t)
         /\ SameSocket(s) => SameSocket(t)
<1>1. t.main = s.main /\ t.waiting = s.waiting
  BY DEF SameLists
<1>2. Done(t) = Done(s)
  BY <1>1, SameDone
<1> QED BY <1>1, <1>2 DEF Passed, ActiveBehind, CurrentFirst, SameSocket

(* A socket is watched again for the request that was left out.             *)
LEMMA WatchedAgain ==
  ASSUME NEW t, NEW out, AllOk(t, out), NEW r \in Requests(t.main), out \subseteq {r},
         NEW u, u.main = t.main, u.wait = t.wait, u.ferr = t.ferr \cup {r.handle},
         u.fin  = IF request_is_input(r) THEN t.fin \cup {r.handle} ELSE t.fin,
         u.fout = IF request_is_input(r) THEN t.fout ELSE t.fout \cup {r.handle}
  PROVE  AllOk(u, {})
<1> SUFFICES ASSUME NEW h \in Handle PROVE SocketOk(u, h, {})
  BY DEF AllOk
<1>1. SocketOk(t, h, out)
  BY DEF AllOk
<1>2. AllOf(u) = AllOf(t) /\ r \in AllOf(t)
  BY DEF AllOf
<1>3. \A x \in On(h, AllOf(t)) : x = r \/ x \in On(h, AllOf(t)) \ out
  OBVIOUS
<1>4. \A x \in On(h, AllOf(t)) : h \in u.ferr /\ h \in IF request_is_input(x) THEN u.fin ELSE u.fout
  BY <1>1, <1>3 DEF SocketOk, On
<1>5. h \in u.fout => \E x \in On(h, AllOf(t)) : request_is_output(x)
  <2>1. CASE h \in t.fout
    BY <1>1, <2>1 DEF SocketOk
  <2>2. CASE h \in u.fout /\ h \notin t.fout
    <3>1. h = r.handle /\ ~request_is_input(r)
      BY <2>2
    <3>2. r \in On(h, AllOf(t)) /\ request_is_output(r)
      BY <1>2, <3>1 DEF On, request_is_output
    <3> QED BY <3>2
  <2> QED BY <2>1, <2>2
<1>6. h \in u.fin => \E x \in On(h, AllOf(t)) : request_is_input(x) \/ (x.type = "close" /\ x \in Requests(t.main))
  <2>1. CASE h \in t.fin
    BY <1>1, <2>1 DEF SocketOk
  <2>2. CASE h \in u.fin /\ h \notin t.fin
    <3>1. h = r.handle /\ request_is_input(r)
      BY <2>2
    <3>2. r \in On(h, AllOf(t))
      BY <1>2, <3>1 DEF On
    <3> QED BY <3>1, <3>2
  <2> QED BY <2>1, <2>2
<1>7. h \in u.ferr <=> h \in u.fin \cup u.fout
  BY <1>1 DEF SocketOk
<1>8. On(h, AllOf(u)) \ {} = On(h, AllOf(t))
  BY <1>2
<1> QED BY <1>4, <1>5, <1>6, <1>7, <1>8 DEF SocketOk

(* A request stays one whatever was read or written.                        *)
LEMMA MovedData ==
  ASSUME GoodRequests, NEW a \in Request, NEW rc \in Int
  PROVE  /\ write_some_data(a, rc) \in Request /\ Alike(write_some_data(a, rc), a)
         /\ read_some_data(a, rc) \in Request /\ Alike(read_some_data(a, rc), a)
<1>1. CurSizes \in Nat \ {0} /\ a.cur \in Int
  BY DEF GoodRequests, Request
<1>2. PICK c \in Int : c = (a.cur + rc) % CurSizes
  <2>1. (a.cur + rc) % CurSizes \in Int
    BY <1>1
  <2> QED BY <2>1
<1>3. PICK d \in Int : d = a.cur + rc
  BY <1>1
<1>4. \A x \in Int : LET b == [a EXCEPT !.cur = x] IN b \in Request /\ Alike(b, a)
  BY DEF Request, Alike
<1>5. write_some_data(a, rc) = [a EXCEPT !.cur = c] /\ read_some_data(a, rc) \in {a, [a EXCEPT !.cur = d]}
  BY <1>2, <1>3 DEF write_some_data, read_some_data
<1>6. Alike(a, a)
  BY DEF Alike
<1> QED BY <1>4, <1>5, <1>6

(* The request at work is the same one after bytes were moved.              *)
LEMMA WorkingLike ==
  ASSUME GoodRequests, NEW s, NEW n, NEW all, Well(s, n, all), NEW t, Like(s, t), NEW id
  PROVE  \A r \in AllOf(t), x \in AllOf(s) : Alike(r, x) => (r \in Working(t, id) <=> x \in Working(s, id))
<1>1. InOrder(s, n) /\ InOrder(t, n) /\ t.wait = s.wait
  BY LikeWell DEF Well, Like
<1>2. \A r \in Requests(s.main), w \in Requests(s.wait) : r.id # w.id
  BY <1>1 DEF InOrder
<1>3. \A r \in Requests(t.main), w \in Requests(s.wait) : r.id # w.id
  BY <1>1 DEF InOrder
<1> QED BY <1>1, <1>2, <1>3 DEF Working, AllOf, Alike

(* Bytes are moved; when more are to come the request is watched again.     *)
LEMMA MoveDataKeeps ==
  ASSUME GoodRequests, SockInv, MoveData
  PROVE  SockInv'
<1> DEFINE a == active_request
<1>1. /\ InWalk /\ the_next_event \in {"read", "write"} /\ state' = "After-Activity" /\ Steady
  BY DEF MoveData, SocketActivity, InWalk
<1>2. /\ asked \in Nat /\ Well(sock, asked, sent) /\ InOrder(sock, asked) /\ sock \in Sock
      /\ At(sock, sock.active) \in 1 .. Len(sock.main) /\ a = sock.main[At(sock, sock.active)]
      /\ a \in Requests(sock.main) /\ a \in Request /\ a.id = sock.active /\ a \in Done(sock)
      /\ WalkStands(sock, AtWork, the_next_event = "exception")
      /\ Passed(sock) /\ ActiveBehind(sock) /\ AllOk(sock, AtWork)
      /\ Working(sock, sock.active) = IF a.repeat THEN {} ELSE {a}
      /\ sock.active \in Nat /\ sock.active # EndOfList /\ a.handle \in Handle
  BY <1>1, AtRequest
<1>3. PICK rc \in -1 .. (Size - a.cur) % CurSizes, error \in {"closed", "again", "other"} :
        LET moved == IF a.type = "read" THEN read_some_data(a, rc) ELSE write_some_data(a, rc)
            x == handle_partial_io(sock, moved, rc, error)
        IN  sock' = x.sock /\ the_next_event' = x.next
  BY DEF MoveData
<1> HIDE DEF a
<1>4. rc \in Int
  <2>1. (Size - a.cur) % CurSizes \in Int
    <3>1. Size \in Nat /\ CurSizes \in Nat \ {0} /\ a.cur \in Int
      BY <1>2 DEF GoodRequests, Request
    <3> QED BY <3>1
  <2> QED BY <2>1
<1>5. PICK r : r = IF a.type = "read" THEN read_some_data(a, rc) ELSE write_some_data(a, rc)
  OBVIOUS
<1>6. r \in Request /\ Alike(r, a)
  BY <1>2, <1>4, <1>5, MovedData
<1> DEFINE p == At(sock, r.id)
<1>7. p = At(sock, sock.active) /\ p \in 1 .. Len(sock.main) /\ sock.main[p] = a
  BY <1>2, <1>6 DEF Alike
<1>8. PICK t : t = [sock EXCEPT !.main[p] = r]
  OBVIOUS
<1> DEFINE h == r.handle
           u == IF request_is_input(r)
                THEN [t EXCEPT !.ferr = t.ferr \cup {h}, !.fin = t.fin \cup {h}]
                ELSE [t EXCEPT !.ferr = t.ferr \cup {h}, !.fout = t.fout \cup {h}]
<1>9. /\ the_next_event' \in {"finished", "incomplete", "closed", "error"}
      /\ sock' = IF the_next_event' # "incomplete" THEN t ELSE u
  <2>1. PICK x : x = handle_partial_io(sock, r, rc, error)
    OBVIOUS
  <2>2. sock' = x.sock /\ the_next_event' = x.next
    BY <1>3, <1>5, <2>1
  <2>3. x.next \in {"finished", "incomplete", "closed", "error"}
    BY <2>1 DEF handle_partial_io
  <2>4. x.sock = IF x.next # "incomplete" THEN t ELSE u
    BY <1>8, <2>1 DEF handle_partial_io
  <2> QED BY <2>2, <2>3, <2>4
<1> HIDE DEF p, u
<1>10. Like(sock, t) /\ SameSets(sock, t) /\ t.main[p] = r /\ t \in Sock /\ p \in 1 .. Len(t.main)
  <2>1. r \in Request /\ Alike(r, sock.main[p]) /\ p \in 1 .. Len(sock.main) /\ sock \in Sock
    BY <1>2, <1>6, <1>7
  <2>2. Like(sock, t) /\ SameSets(sock, t) /\ t.main[p] = r
    BY <1>8, <2>1, ChangedLike
  <2> QED BY <2>1, <2>2 DEF Like
<1>11. /\ Well(t, asked, sent) /\ Passed(t) /\ ActiveBehind(t) /\ CurrentFirst(t)
  <2>1. CurrentFirst(sock)
    BY <1>1, <1>2 DEF WalkStands
  <2> QED BY <1>2, <1>10, <2>1, LikeWell, LikeWalk
<1>12. AllOk(t, Working(t, t.active)) /\ t.active = sock.active
  <2>1. AllOk(sock, Working(sock, sock.active))
    BY <1>1, <1>2 DEF AtWork
  <2>2. t.active = sock.active
    BY <1>10 DEF Like
  <2>3. \A y \in AllOf(t), x \in AllOf(sock) :
          Alike(y, x) => (y \in Working(t, sock.active) <=> x \in Working(sock, sock.active))
    BY <1>2, <1>10, WorkingLike
  <2>4. t.fin = sock.fin /\ t.fout = sock.fout /\ t.ferr = sock.ferr
    BY <1>10 DEF SameSets
  <2> QED BY <1>2, <1>10, <2>1, <2>2, <2>3, <2>4, LikeOk
<1>13. asked' = asked /\ sent' = sent /\ TypeInv'
  BY <1>1 DEF Steady, SockInv, TypeInv
<1>14. CASE the_next_event' # "incomplete"
  <2>1. sock' = t
    BY <1>9, <1>14
  <2>2. AtWork' = Working(t, t.active)
    BY <1>9, <1>14, <2>1 DEF AtWork
  <2>3. WalkStands(t, AtWork', FALSE)
    BY <1>11, <1>12, <2>2 DEF WalkStands
  <2>4. t.active # EndOfList
    BY <1>2, <1>12
  <2>5. WalkInv'
    BY <1>1, <1>9, <2>1, <2>3, <2>4 DEF WalkInv
  <2> QED BY <1>1, <1>11, <1>13, <2>1, <2>5 DEF SockInv, GettingEvent
<1>15. CASE the_next_event' = "incomplete"
  <2>1. sock' = u
    BY <1>9, <1>15
  <2>2. h \in Handle
    BY <1>2, <1>6 DEF Alike
  <2>3. /\ SameLists(t, u) /\ u.current = t.current /\ u.active = t.active /\ u.newtop = t.newtop
        /\ u.top = t.top /\ u.ferr = t.ferr \cup {h}
        /\ u.fin  = IF request_is_input(r) THEN t.fin \cup {h} ELSE t.fin
        /\ u.fout = IF request_is_input(r) THEN t.fout ELSE t.fout \cup {h}
    <3> HIDE DEF h
    <3>1. CASE request_is_input(r)
      <4>1. u = [t EXCEPT !.ferr = t.ferr \cup {h}, !.fin = t.fin \cup {h}]
        BY <3>1 DEF u
      <4> QED BY <1>10, <2>2, <3>1, <4>1 DEF SameLists, Sock
    <3>2. CASE ~request_is_input(r)
      <4>1. u = [t EXCEPT !.ferr = t.ferr \cup {h}, !.fout = t.fout \cup {h}]
        BY <3>2 DEF u
      <4> QED BY <1>10, <2>2, <3>2, <4>1 DEF SameLists, Sock
    <3> QED BY <3>1, <3>2
  <2>4. Well(u, asked, sent)
    <3>1. t.current \in Pointers(t)
      BY <1>11 DEF Well, InOrder
    <3> QED BY <1>11, <2>3, <3>1, SameWell
  <2>5. Passed(u) /\ ActiveBehind(u) /\ CurrentFirst(u)
    BY <1>11, <2>3, SameWalk
  <2>6. AllOk(u, {})
    <3>1. InOrder(t, asked)
      BY <1>11 DEF Well
    <3>2. r \in Requests(t.main)
      BY <1>10, <3>1, AtPlace
    <3>3. Working(t, t.active) \subseteq {r}
      <4>1. \A y \in Requests(t.main) : y.id = r.id => y = r
        BY <3>1, <3>2, OneNumber DEF AllOf
      <4>2. r.id = t.active
        BY <1>2, <1>6, <1>12 DEF Alike
      <4> QED BY <4>1, <4>2 DEF Working
    <3>4. u.main = t.main /\ u.wait = t.wait
      BY <2>3 DEF SameLists
    <3> QED BY <1>12, <2>3, <3>2, <3>3, <3>4, WatchedAgain
  <2>7. AtWork' = {}
    BY <1>15 DEF AtWork
  <2>8. WalkStands(u, AtWork', FALSE)
    BY <2>5, <2>6, <2>7 DEF WalkStands
  <2>9. u.active # EndOfList
    BY <1>2, <1>12, <2>3
  <2>10. WalkInv'
    BY <1>1, <1>15, <2>1, <2>8, <2>9 DEF WalkInv
  <2> QED BY <1>1, <1>13, <2>1, <2>4, <2>10 DEF SockInv, GettingEvent
<1> QED BY <1>14, <1>15

(* connect and close change nothing the invariant is about.                 *)
LEMMA ConfirmKeeps ==
  ASSUME GoodRequests, SockInv, confirm_socket_connected \/ close_the_socket
  PROVE  SockInv'
<1>1. /\ InWalk /\ the_next_event \in {"connect", "close"} /\ state' = "After-Activity" /\ Steady
      /\ sock' = sock /\ the_next_event' \in {"finished", "closed", "error"}
  BY DEF confirm_socket_connected, close_the_socket, SocketActivity, InWalk
<1>2. WalkStands(sock, AtWork, FALSE) /\ sock.active # EndOfList
  BY <1>1 DEF SockInv, WalkInv
<1>3. AtWork' = AtWork
  BY <1>1 DEF AtWork, Working
<1>4. WalkInv'
  BY <1>1, <1>2, <1>3 DEF WalkInv
<1> QED BY <1>1, <1>4 DEF SockInv, TypeInv, Steady, GettingEvent

(* At the end of a walk everything is watched.                              *)
LEMMA WalkEndsKeeps ==
  ASSUME GoodRequests, SockInv, WalkEnds
  PROVE  SockInv'
<1>1. /\ state = "Socket-Activity" /\ the_next_event = "no_active_request" /\ state' = "Getting-Event"
      /\ asked' = asked /\ sent' = sent
      /\ sock' = [sock EXCEPT !.rin = {}, !.rout = {}, !.rerr = {}, !.newtop = 0, !.delwalk = FALSE]
  BY DEF WalkEnds, SocketActivity
<1>2. /\ sock.active = EndOfList /\ AllOk(sock, AtWork) /\ Well(sock, asked, sent) /\ sock \in Sock
      /\ sock.current \in Pointers(sock)
  BY <1>1 DEF SockInv, WalkInv, InWalk, WalkStands, Well, InOrder
<1>3. AtWork = {}
  <2>1. \A r \in Requests(sock.main) : r.id # EndOfList
    BY <1>2, InSock, InRequest DEF AllOf, EndOfList
  <2> QED BY <1>2, <2>1 DEF AtWork, Working
<1>4. PICK u : u = sock'
  OBVIOUS
<1>5. /\ SameLists(sock, u) /\ u.current = sock.current /\ u.top = sock.top
      /\ u.fin = sock.fin /\ u.fout = sock.fout /\ u.ferr = sock.ferr
  BY <1>1, <1>2, <1>4 DEF SameLists, Sock
<1>6. Well(u, asked, sent)
  BY <1>2, <1>5, SameWell
<1>7. AllOk(u, {})
  BY <1>2, <1>3, <1>5 DEF AllOk, SocketOk, AllOf, SameLists
<1> QED BY <1>1, <1>4, <1>6, <1>7 DEF SockInv, TypeInv, WalkInv, InWalk, GettingEvent

(* The requests of a socket are in one place of the list.                   *)
Together(s) ==
  \A a, b \in 1 .. Len(s.main) : a < b /\ s.main[a].handle = s.main[b].handle =>
    \A j \in a .. b : s.main[j].handle = s.main[a].handle

FirstOn(s, p, h) ==
  p \in 1 .. Len(s.main) /\ s.main[p].handle = h /\ \A j \in 1 .. p - 1 : s.main[j].handle # h

(* A socket with a request in main_list has a first one.                    *)
LEMMA FirstIs ==
  ASSUME NEW s \in Sock, NEW h, NEW q \in 1 .. Len(s.main), s.main[q].handle = h
  PROVE  \E p \in 1 .. q : FirstOn(s, p, h)
<1> DEFINE n == Len(s.main)
           places == {j \in 1 .. n : s.main[j].handle # h}
           p == Past(s, 1, places)
<1>1. n \in Nat /\ Len(s.main) = n /\ 1 \in 1 .. n + 1 /\ n + 1 \notin places
  BY InSock
<1>2. p \in 1 .. n + 1 /\ p \notin places /\ \A j \in 1 .. p - 1 : j \in places
  <2> HIDE DEF n, places
  <2> QED BY <1>1, PastIs
<1> HIDE DEF p
<1>3. ~(p > q)
  <2> SUFFICES ASSUME p > q PROVE FALSE
    OBVIOUS
  <2>1. q \in 1 .. p - 1
    BY <1>1, <1>2
  <2> QED BY <1>2, <2>1
<1>4. p \in 1 .. q /\ p \in 1 .. n
  BY <1>1, <1>2, <1>3
<1> QED BY <1>2, <1>4 DEF FirstOn

(* From its first request to the place after its last one are all of a      *)
(* socket's.                                                                *)
LEMMA WholeSocket ==
  ASSUME NEW s \in Sock, Together(s), NEW p, NEW h, FirstOn(s, p, h)
  PROVE  Between(s, p, Past(s, p, OnSocket(s, h))) = On(h, Requests(s.main))
<1> DEFINE n == Len(s.main)
           k == Past(s, p, OnSocket(s, h))
<1>1. /\ n \in Nat /\ DOMAIN s.main = 1 .. n /\ Requests(s.main) = {s.main[q] : q \in 1 .. n}
      /\ p \in 1 .. n /\ s.main[p].handle = h /\ \A j \in 1 .. p - 1 : s.main[j].handle # h
      /\ \A a, b \in 1 .. n : a < b /\ s.main[a].handle = s.main[b].handle =>
           \A j \in a .. b : s.main[j].handle = s.main[a].handle
  BY InSock DEF FirstOn, Together
<1>2. \A j : j \in OnSocket(s, h) <=> j \in 1 .. n /\ s.main[j].handle = h
  BY <1>1 DEF OnSocket
<1>3. p \in 1 .. n + 1 /\ n + 1 \notin OnSocket(s, h) /\ Len(s.main) = n
  BY <1>1, <1>2
<1> HIDE DEF n
<1>4. k \in p .. n + 1 /\ k \notin OnSocket(s, h) /\ \A j \in p .. k - 1 : j \in OnSocket(s, h)
  BY <1>1, <1>3, PastIs
<1> HIDE DEF k
<1>5. Between(s, p, k) \subseteq On(h, Requests(s.main))
  BY <1>1, <1>2, <1>4 DEF Between, On
<1>6. ASSUME NEW q \in 1 .. n, s.main[q].handle = h PROVE q \in p .. k - 1
  <2>1. ~(q < p)
    BY <1>1, <1>6
  <2>2. ~(q >= k)
    <3> SUFFICES ASSUME q >= k PROVE FALSE
      OBVIOUS
    <3>1. p \in OnSocket(s, h) /\ q \in OnSocket(s, h)
      BY <1>1, <1>2, <1>6
    <3>2. p < q /\ k \in p .. q /\ k \in 1 .. n
      BY <1>1, <1>4, <3>1
    <3>3. s.main[k].handle = h
      BY <1>1, <1>6, <3>2
    <3> QED BY <1>2, <1>4, <3>2, <3>3
  <2> QED BY <1>1, <1>4, <2>1, <2>2
<1>7. On(h, Requests(s.main)) \subseteq Between(s, p, k)
  BY <1>1, <1>6 DEF Between, On
<1> QED BY <1>5, <1>7 DEF k

(* The first place of the socket at work.                                   *)
LEMMA CancelPlace ==
  ASSUME NEW s \in Sock, Together(s), NEW q \in 1 .. Len(s.main), NEW h, s.main[q].handle = h,
         NEW p, p = CHOOSE f \in OnSocket(s, h) :
                      f - 1 \notin OnSocket(s, h) /\ f .. q \subseteq OnSocket(s, h)
  PROVE  FirstOn(s, p, h)
<1>1. /\ Len(s.main) \in Nat /\ DOMAIN s.main = 1 .. Len(s.main)
      /\ \A a, b \in 1 .. Len(s.main) : a < b /\ s.main[a].handle = s.main[b].handle =>
           \A j \in a .. b : s.main[j].handle = s.main[a].handle
  BY InSock DEF Together
<1>2. \A j : j \in OnSocket(s, h) <=> j \in 1 .. Len(s.main) /\ s.main[j].handle = h
  BY <1>1 DEF OnSocket
<1>3. PICK f \in 1 .. q : FirstOn(s, f, h)
  BY FirstIs
<1>4. f \in OnSocket(s, h) /\ f - 1 \notin OnSocket(s, h) /\ f .. q \subseteq OnSocket(s, h)
  <2>1. f \in 1 .. Len(s.main) /\ s.main[f].handle = h /\ \A j \in 1 .. f - 1 : s.main[j].handle # h
    BY <1>3 DEF FirstOn
  <2>2. f - 1 \notin OnSocket(s, h)
    <3>1. f - 1 \in 1 .. Len(s.main) => f - 1 \in 1 .. f - 1
      BY <1>1, <2>1
    <3> QED BY <1>2, <2>1, <3>1
  <2>3. \A j \in f .. q : j \in 1 .. Len(s.main) /\ s.main[j].handle = h
    BY <1>1, <2>1
  <2> QED BY <1>2, <2>1, <2>2, <2>3
<1>5. p \in OnSocket(s, h) /\ p - 1 \notin OnSocket(s, h) /\ p .. q \subseteq OnSocket(s, h)
  BY <1>4
<1>6. ASSUME NEW j \in 1 .. p - 1, s.main[j].handle = h PROVE FALSE
  <2>1. p \in 1 .. Len(s.main) /\ s.main[p].handle = h
    BY <1>2, <1>5
  <2>2. j \in 1 .. Len(s.main) /\ j < p /\ p - 1 \in j .. p /\ p - 1 \in 1 .. Len(s.main)
    BY <1>1, <2>1
  <2>3. s.main[p - 1].handle = h
    BY <1>1, <1>6, <2>1, <2>2
  <2> QED BY <1>2, <1>5, <2>2, <2>3
<1> QED BY <1>2, <1>5, <1>6 DEF FirstOn

(* In a list in order the requests of a socket are next to each other.      *)
LEMMA TogetherIs ==
  ASSUME NEW s, NEW n, InOrder(s, n)
  PROVE  Together(s)
BY DEF InOrder, Sorted, Together

(* A socket that is watched no more, with nothing left of it.               *)
LEMMA SocketEnds ==
  ASSUME GoodRequests, NEW s, NEW n \in Nat, NEW all, Well(s, n, all), Passed(s),
         NEW h, h \in Handle, h \notin s.waiting,
         NEW out, AllOk(s, out), \A r \in out : r.handle = h,
         \A c \in Requests(s.main) : c.id = s.current => c.handle = h \/ \A r \in Done(s) : ~Kin(r, c),
         NEW u, SameLists(s, u), u.current = s.current, u.top = s.top, u.newtop = s.newtop,
         u.fin = s.fin \ {h}, u.fout = s.fout \ {h}, u.ferr = s.ferr \ {h},
         NEW t, t = EndAll(u, On(h, Requests(u.main)))
  PROVE  Well(t, n, all) /\ Passed(t) /\ CurrentFirst(t) /\ AllOk(t, {})
<1> DEFINE rs == On(h, Requests(u.main))
<1>1. /\ InOrder(s, n) /\ Counted(s) /\ s.current \in Pointers(s)
      /\ u.main = s.main /\ u.wait = s.wait /\ u.waiting = s.waiting
  BY DEF Well, InOrder, SameLists
<1>2. Well(u, n, all)
  BY <1>1, SameWell
<1>3. Done(u) = Done(s) /\ Passed(u)
  BY <1>1, SameDone DEF Passed
<1>4. rs \subseteq Requests(u.main) /\ (\A r \in rs : r.handle = h) /\ InOrder(u, n)
  BY <1>2 DEF On, Well
<1>5. EndedWell(u, t, rs, n) /\ Well(t, n, all) /\ Passed(t)
  BY <1>1, <1>2, <1>3, <1>4, EndsWell
<1>6. CurrentFirst(t)
  <2>1. rs \subseteq AllOf(u) /\ On(h, Requests(u.main)) \subseteq rs
    BY <1>4 DEF AllOf
  <2>2. \A c \in Requests(u.main) : c.id = u.current => c.handle = h \/ \A r \in Done(u) : ~Kin(r, c)
    BY <1>1, <1>3
  <2> HIDE DEF rs
  <2>3. t = EndAll(u, rs)
    BY DEF rs
  <2> QED BY <1>4, <2>1, <2>2, <2>3, EndAllFirst
<1>7. AllOk(t, {})
  <2> SUFFICES ASSUME NEW x \in Handle PROVE SocketOk(t, x, {})
    BY DEF AllOk
  <2>1. /\ AllOf(t) = AllOf(s) \ rs /\ Requests(t.main) = Requests(s.main) \ rs
        /\ t.fin = s.fin \ {h} /\ t.fout = s.fout \ {h} /\ t.ferr = s.ferr \ {h}
    BY <1>1, <1>5 DEF EndedWell, SameSets, AllOf
  <2>2. CASE x = h
    <3>1. On(h, Requests(s.wait)) = {}
      BY <1>1 DEF Counted, Handles, On
    <3>2. On(h, AllOf(t)) \subseteq {}
      BY <1>1, <2>1, <3>1 DEF On, AllOf
    <3> QED BY <2>1, <2>2, <3>2, SocketNone
  <2>3. CASE x # h
    <3>1. On(x, AllOf(t)) \ {} = On(x, AllOf(s)) \ out
      BY <2>1, <2>3 DEF On
    <3>2. On(x, Requests(s.main)) \ out \subseteq Requests(t.main)
      BY <2>1, <2>3 DEF On
    <3>3. SocketOk(s, x, out)
      BY DEF AllOk
    <3>4. (x \in t.fin <=> x \in s.fin) /\ (x \in t.fout <=> x \in s.fout) /\ (x \in t.ferr <=> x \in s.ferr)
      BY <2>1, <2>3
    <3> QED BY <3>1, <3>2, <3>3, <3>4, SocketSame
  <2> QED BY <2>2, <2>3
<1> QED BY <1>5, <1>6, <1>7

(* All that was asked of a socket ends, what waits for it included, and it  *)
(* is watched no more.                                                      *)
LEMMA CancelAllKeeps ==
  ASSUME GoodRequests, SockInv, CancelAll
  PROVE  SockInv'
<1> DEFINE a == active_request
           h == a.handle
           q == At(sock, sock.active)
<1>1. /\ InWalk /\ the_next_event \in {"exception", "closed", "error"}
      /\ Walk(check_next_socket_activity(Cancel(sock))) /\ Steady
  BY DEF CancelAll, SocketActivity, AfterActivity, InWalk
<1>2. /\ asked \in Nat /\ Well(sock, asked, sent) /\ InOrder(sock, asked) /\ sock \in Sock
      /\ q \in 1 .. Len(sock.main) /\ a = sock.main[q]
      /\ a \in Requests(sock.main) /\ a.id = sock.active
      /\ h \notin sock.waiting /\ h \in Handle
      /\ WalkStands(sock, AtWork, the_next_event = "exception")
      /\ Passed(sock) /\ AllOk(sock, AtWork)
      /\ Working(sock, sock.active) = IF a.repeat THEN {} ELSE {a}
  BY <1>1, AtRequest
<1>3. Together(sock)
  BY <1>2, TogetherIs
<1> HIDE DEF a, q, h
<1>4. h = sock.main[q].handle
  BY <1>2 DEF h
<1>5. PICK p : p = CHOOSE f \in OnSocket(sock, h) :
                     f - 1 \notin OnSocket(sock, h) /\ f .. q \subseteq OnSocket(sock, h)
  OBVIOUS
<1>6. FirstOn(sock, p, h)
  BY <1>2, <1>3, <1>4, <1>5, CancelPlace
<1>7. p \in 1 .. Len(sock.main) /\ sock.main[p].handle = h
  BY <1>6 DEF FirstOn
<1>8. MergeAt(sock, p) = sock
  BY <1>2, <1>7, MergedStays
<1>9. PICK u : u = Unwatched(sock, p, h)
  OBVIOUS
<1>10. prepare_to_cancel_all_requests(sock) = u
  BY <1>4, <1>5, <1>8, <1>9 DEF prepare_to_cancel_all_requests, q
<1>11. /\ SameLists(sock, u) /\ u.current = sock.current /\ u.top = sock.top /\ u.newtop = sock.newtop
       /\ u.fin = sock.fin \ {h} /\ u.fout = sock.fout \ {h} /\ u.ferr = sock.ferr \ {h}
       /\ u.active = sock.main[p].id
  <2>1. Pointer(sock, p) = sock.main[p].id /\ sock.main[p].id \in Nat
    BY <1>2, <1>7, AtPlace, InRequest
  <2> DEFINE c == sock.main[p].id
  <2>2. u = [sock EXCEPT !.active = c, !.fin = sock.fin \ {h}, !.fout = sock.fout \ {h}, !.ferr = sock.ferr \ {h}]
    BY <1>2, <1>9, <2>1 DEF Unwatched
  <2>3. c \in Nat
    BY <2>1
  <2> HIDE DEF c
  <2>4. /\ SameLists(sock, u) /\ u.current = sock.current /\ u.top = sock.top /\ u.newtop = sock.newtop
        /\ u.fin = sock.fin \ {h} /\ u.fout = sock.fout \ {h} /\ u.ferr = sock.ferr \ {h}
        /\ u.active = c
    BY ONLY <1>2, <2>2, <2>3 DEF SameLists, Sock
  <2> QED BY <2>4 DEF c
<1>12. u.main = sock.main /\ u \in Sock
  BY <1>11 DEF SameLists
<1>13. At(u, u.active) = p
  <2>1. At(sock, sock.main[p].id) = p
    BY <1>2, <1>7, AtPlace
  <2> QED BY <1>11, <1>12, <2>1 DEF At
<1>14. Between(u, p, Past(u, p, OnSocket(u, h))) = On(h, Requests(u.main))
  <2>1. Together(u) /\ FirstOn(u, p, h)
    BY <1>3, <1>6, <1>12 DEF Together, FirstOn
  <2> QED BY <1>12, <2>1, WholeSocket
<1>15. PICK t : t = EndAll(u, On(h, Requests(u.main)))
  OBVIOUS
<1>16. Cancel(sock) = t
  BY <1>7, <1>10, <1>12, <1>13, <1>14, <1>15 DEF Cancel, EndActive, EndSocket
<1>17. \A c \in Requests(sock.main) : c.id = sock.current => c.handle = h \/ \A r \in Done(sock) : ~Kin(r, c)
  BY <1>2 DEF WalkStands, CurrentFirst, SameSocket, h
<1>18. \A r \in AtWork : r.handle = h
  BY <1>2 DEF AtWork, h
<1>19. Well(t, asked, sent) /\ Passed(t) /\ CurrentFirst(t) /\ AllOk(t, {})
  BY <1>2, <1>11, <1>15, <1>17, <1>18, SocketEnds
<1> QED BY <1>1, <1>16, <1>19, NextKeeps

-----------------------------------------------------------------------------
(* What does not touch the lists.                                           *)

SameRequests(s, t) ==
  /\ t \in Sock /\ t.main = s.main /\ t.wait = s.wait /\ t.count = s.count /\ t.waiting = s.waiting
  /\ t.answers = s.answers /\ t.current = s.current /\ t.active = s.active
  /\ t.fin = s.fin /\ t.fout = s.fout /\ t.ferr = s.ferr /\ t.top = s.top /\ t.newtop = s.newtop

(* A step that changes no request, no set of sockets and no pointer.        *)
LEMMA SameInv ==
  ASSUME SockInv, SameRequests(sock, sock'), state' = state, the_next_event' = the_next_event,
         asked' = asked, sent' \subseteq 1 .. MaxRequests,
         sock'.alarms \cup sent' \subseteq sock.alarms \cup sent
  PROVE  SockInv'
<1>1. PICK t : t = sock'
  OBVIOUS
<1>2. SameRequests(sock, t)
  BY <1>1
<1>3. t.main = sock.main /\ t.wait = sock.wait /\ AllOf(t) = AllOf(sock) /\ Done(t) = Done(sock)
  BY <1>2, SameDone DEF SameRequests, AllOf
<1>4. Well(t, asked, sent')
  <2>1. InOrder(t, asked)
    BY <1>2, <1>3 DEF SockInv, Well, InOrder, SameRequests, Ids, Pointers
  <2>2. Counted(t) /\ Tops(t)
    BY <1>2 DEF SockInv, Well, Counted, Tops, SameRequests
  <2>3. Timed(t, sent', asked)
    <3>1. Timed(sock, sent, asked)
      BY DEF SockInv, Well
    <3>2. t.alarms \cup sent' \subseteq sock.alarms \cup sent
      BY <1>1
    <3> QED BY <1>3, <3>1, <3>2 DEF Timed
  <2> QED BY <2>1, <2>2, <2>3 DEF Well
<1>5. \A out : AllOk(sock, out) => AllOk(t, out)
  BY <1>2, <1>3 DEF AllOk, SocketOk, SameRequests
<1>6. AtWork' = AtWork
  BY <1>1, <1>2 DEF AtWork, Working, SameRequests
<1>7. \A b : WalkStands(sock, AtWork, b) => WalkStands(t, AtWork, b)
  <2>1. /\ Passed(sock) => Passed(t)
        /\ ActiveBehind(sock) => ActiveBehind(t)
        /\ CurrentFirst(sock) => CurrentFirst(t)
        /\ SameSocket(sock) => SameSocket(t)
    BY <1>2, <1>3 DEF Passed, ActiveBehind, CurrentFirst, SameSocket, SameRequests
  <2> QED BY <1>5, <2>1 DEF WalkStands
<1>8. WalkInv'
  <2> SUFFICES ASSUME InWalk' PROVE WalkInv'
    BY DEF WalkInv
  <2>1. InWalk
    BY DEF InWalk
  <2>2. t.active = sock.active
    BY <1>2 DEF SameRequests
  <2>3. WalkStands(t, AtWork', the_next_event = "exception")
    BY <1>6, <1>7, <2>1 DEF SockInv, WalkInv
  <2> QED BY <1>1, <1>3, <2>1, <2>2, <2>3 DEF SockInv, WalkInv
<1>9. TypeInv'
  BY DEF SockInv, TypeInv
<1>10. GettingEvent' => AllOk(t, {})
  BY <1>5 DEF SockInv, GettingEvent
<1> QED BY <1>1, <1>4, <1>8, <1>9, <1>10 DEF SockInv

(* What the invariant says of sock.                                         *)
LEMMA InvSock ==
  ASSUME GoodRequests, SockInv
  PROVE  /\ sock \in Sock /\ asked \in Nat /\ asked \in 0 .. MaxRequests /\ sent \subseteq 1 .. MaxRequests
         /\ Well(sock, asked, sent) /\ InOrder(sock, asked) /\ Counted(sock) /\ Tops(sock)
         /\ Timed(sock, sent, asked)
<1>1. MaxRequests \in Nat
  BY DEF GoodRequests
<1> QED BY <1>1 DEF SockInv, TypeInv, Well, InOrder

(* A step that changes nothing.                                             *)
LEMMA StutterKeeps ==
  ASSUME GoodRequests, SockInv, UNCHANGED svars
  PROVE  SockInv'
<1>1. sock' = sock /\ state' = state /\ the_next_event' = the_next_event /\ asked' = asked /\ sent' = sent
  BY DEF svars
<1>2. SameRequests(sock, sock')
  BY <1>1, InvSock DEF SameRequests
<1> QED BY <1>1, <1>2, InvSock, SameInv

(* An _ACTIVITY event begins a walk.                                        *)
LEMMA ActivityKeeps ==
  ASSUME GoodRequests, SockInv, Activity
  PROVE  SockInv'
<1>1. PICK t : t = check_first_socket_activity(sock)
  OBVIOUS
<1>2. Walk(t) /\ asked' = asked /\ sent' = sent /\ AllOk(sock, {})
  BY <1>1 DEF Activity, SockInv
<1>3. Well(t, asked, sent) /\ Standing(t)
  BY <1>1, <1>2, InvSock, GoesFirst
<1> QED BY <1>2, <1>3, InvSock, WalkKeeps

(* The timer agent answers: the request is no more in alarms, but its event *)
(* is sent.                                                                 *)
LEMMA AlarmKeeps ==
  ASSUME GoodRequests, SockInv, NEW id \in 1 .. MaxRequests, Alarm(id)
  PROVE  SockInv'
<1>1. /\ id \in sock.alarms /\ sock' = [sock EXCEPT !.alarms = sock.alarms \ {id}] /\ sent' = sent \cup {id}
      /\ state' = state /\ the_next_event' = the_next_event /\ asked' = asked
  BY DEF Alarm
<1>2. SameRequests(sock, sock') /\ sock'.alarms = sock.alarms \ {id}
  BY <1>1, InvSock DEF SameRequests, Sock
<1>3. sent' \subseteq 1 .. MaxRequests /\ sock'.alarms \cup sent' \subseteq sock.alarms \cup sent
  BY <1>1, <1>2, InvSock
<1> QED BY <1>1, <1>2, <1>3, SameInv

(* select changes what was found and nothing else.                          *)
LEMMA SelectedSame ==
  ASSUME NEW s \in Sock, NEW t \in Selected(s)
  PROVE  SameRequests(s, t) /\ t.alarms = s.alarms
<1>1. PICK x \in (SUBSET s.fin) \X (SUBSET s.fout) \X (SUBSET s.ferr) :
        t = [s EXCEPT !.rin = x[1], !.rout = x[2], !.rerr = x[3]]
  BY DEF Selected
<1>2. PICK a, b, c : a = x[1] /\ b = x[2] /\ c = x[3]
  OBVIOUS
<1>3. a \subseteq s.fin /\ b \subseteq s.fout /\ c \subseteq s.ferr
  BY <1>2
<1>4. t = [s EXCEPT !.rin = a, !.rout = b, !.rerr = c]
  BY <1>1, <1>2
<1>5. a \subseteq Handle /\ b \subseteq Handle /\ c \subseteq Handle
  BY <1>3 DEF Sock
<1> QED BY ONLY s \in Sock, <1>4, <1>5 DEF SameRequests, Sock

(* The polling function changes what was found and nothing else.            *)
LEMMA NonblockKeeps ==
  ASSUME GoodRequests, SockInv, check_activity_nonblock
  PROVE  SockInv'
<1>1. /\ state' = state /\ the_next_event' = the_next_event /\ asked' = asked /\ sent' = sent
      /\ sock' = [sock EXCEPT !.rin = sock.fin, !.rout = sock.fout, !.rerr = sock.ferr] \/ sock' \in Selected(sock)
  BY DEF check_activity_nonblock
<1>2. SameRequests(sock, sock') /\ sock'.alarms = sock.alarms
  <2>1. CASE sock' = [sock EXCEPT !.rin = sock.fin, !.rout = sock.fout, !.rerr = sock.ferr]
    BY <2>1, InvSock DEF SameRequests, Sock
  <2>2. CASE sock' \in Selected(sock)
    BY <2>2, InvSock, SelectedSame
  <2> QED BY <1>1, <2>1, <2>2
<1> QED BY <1>1, <1>2, InvSock, SameInv

(* The count and the set of waiting requests when none is left.             *)
LEMMA NoneWait ==
  ASSUME NEW t \in Sock, NEW u, u = [t EXCEPT !.count = 0, !.waiting = {}]
  PROVE  /\ u \in Sock /\ u.main = t.main /\ u.wait = t.wait /\ u.count = 0 /\ u.waiting = {}
         /\ u.alarms = t.alarms /\ u.answers = t.answers /\ u.current = t.current
<1>1. PICK x : x = [t EXCEPT !.waiting = {}]
  OBVIOUS
<1>2. x \in Sock
  BY <1>1 DEF Sock
<1>3. /\ x.waiting = {} /\ x.main = t.main /\ x.wait = t.wait
      /\ x.alarms = t.alarms /\ x.answers = t.answers /\ x.current = t.current
  BY <1>1 DEF Sock
<1>4. PICK zero : zero = 0
  OBVIOUS
<1>5. zero \in Int /\ u = [x EXCEPT !.count = zero]
  <2>1. u = [x EXCEPT !.count = 0]
    BY <1>1 DEF Sock
  <2>2. zero \in Int
    BY <1>4
  <2> QED BY <1>4, <2>1, <2>2
<1>6. u \in Sock
  BY <1>2, <1>5 DEF Sock
<1>7. u.count = zero
  BY <1>2, <1>5 DEF Sock
<1>8. /\ u.waiting = x.waiting /\ u.main = x.main /\ u.wait = x.wait
      /\ u.alarms = x.alarms /\ u.answers = x.answers /\ u.current = x.current
  BY <1>2, <1>5 DEF Sock
<1> QED BY <1>3, <1>4, <1>6, <1>7, <1>8

(* All requests end.                                                        *)
LEMMA ShutdownKeeps ==
  ASSUME GoodRequests, SockInv, Shutdown
  PROVE  SockInv'
<1>1. PICK t : t = EndAll(sock, AllOf(sock))
  OBVIOUS
<1>2. PICK u : u = [t EXCEPT !.count = 0, !.waiting = {}]
  OBVIOUS
<1>3. state' = "Stopped" /\ asked' = asked /\ sent' = sent /\ sock' = u
  BY <1>1, <1>2 DEF Shutdown
<1>4. InOrder(t, asked) /\ Requests(t.main) = {} /\ Requests(t.wait) = {} /\ t \in Sock
  <2>1. /\ InOrder(t, asked) /\ Requests(t.main) = Requests(sock.main) \ AllOf(sock)
        /\ Requests(t.wait) = Requests(sock.wait) \ AllOf(sock)
    BY <1>1, InvSock, EndAllKeeps
  <2> QED BY <2>1 DEF AllOf, InOrder
<1>5. t.alarms \subseteq sock.alarms
  <2>1. Ended(sock, t, AllOf(sock))
    BY <1>1, InvSock, EndAllFields
  <2> QED BY <2>1 DEF Ended
<1>6. /\ u \in Sock /\ u.main = t.main /\ u.wait = t.wait /\ u.count = 0 /\ u.waiting = {}
      /\ u.alarms = t.alarms /\ u.answers = t.answers /\ u.current = t.current
  <2>1. t \in Sock
    BY <1>4
  <2> QED BY <1>2, <2>1, NoneWait
<1>7. InOrder(u, asked)
  BY <1>4, <1>6 DEF InOrder, Ids, AllOf, Pointers
<1>8. Counted(u) /\ Tops(u)
  <2>1. Len(u.wait) = 0
    <3>1. Len(t.wait) \in Nat /\ DOMAIN t.wait = 1 .. Len(t.wait)
      BY <1>4, InSock
    <3>2. ~(1 \in DOMAIN t.wait)
      BY <1>4 DEF Requests
    <3> QED BY <1>6, <3>1, <3>2
  <2>2. Handles(u.main) = {} /\ Handles(u.wait) = {}
    BY <1>4, <1>6 DEF Handles
  <2> QED BY <1>6, <2>1, <2>2 DEF Counted, Tops
<1>9. Timed(u, sent, asked)
  <2>1. AllOf(u) = {}
    BY <1>4, <1>6 DEF AllOf
  <2> QED BY <1>5, <1>6, <2>1, InvSock DEF Timed
<1> QED BY <1>3, <1>7, <1>8, <1>9, InvSock DEF SockInv, TypeInv, Well, WalkInv, InWalk, GettingEvent

-----------------------------------------------------------------------------
(* Requests that come.                                                      *)

(* What Append does.                                                        *)
LEMMA AppendIs ==
  ASSUME NEW T, NEW list \in Seq(T), NEW r \in T
  PROVE  /\ Append(list, r) \in Seq(T) /\ Len(list) \in Nat /\ Len(Append(list, r)) = Len(list) + 1
         /\ Append(list, r)[Len(list) + 1] = r
         /\ \A q \in 1 .. Len(list) : Append(list, r)[q] = list[q]
         /\ Requests(Append(list, r)) = Requests(list) \cup {r}
<1>1. /\ Append(list, r) \in Seq(T) /\ Len(list) \in Nat /\ Len(Append(list, r)) = Len(list) + 1
      /\ Append(list, r)[Len(list) + 1] = r
      /\ \A q \in 1 .. Len(list) : Append(list, r)[q] = list[q]
  OBVIOUS
<1>2. PICK l, new : l = Len(list) /\ new = Append(list, r) /\ l \in Nat
  BY <1>1
<1>3. DOMAIN new = 1 .. l + 1 /\ DOMAIN list = 1 .. l
  BY <1>1, <1>2
<1>4. new[l + 1] = r /\ \A q \in 1 .. l : new[q] = list[q]
  BY <1>1, <1>2
<1>5. \A q \in 1 .. l + 1 : q \in 1 .. l \/ q = l + 1
  BY <1>2
<1>6. (\A q \in 1 .. l : q \in 1 .. l + 1) /\ l + 1 \in 1 .. l + 1
  BY <1>2
<1>7. Requests(new) = Requests(list) \cup {r}
  BY <1>3, <1>4, <1>5, <1>6 DEF Requests
<1> QED BY <1>1, <1>2, <1>7

(* A newer request of another socket fits at the end of main_list, any      *)
(* newer one at the end of wait_list.                                       *)
LEMMA AppendSorted ==
  ASSUME NEW list \in Seq(Request), NEW r \in Request,
         \A q \in 1 .. Len(list) : list[q].id < r.id, \A q \in 1 .. Len(list) : list[q].id \in Int /\ r.id \in Int
  PROVE  /\ Ascending(list) => Ascending(Append(list, r))
         /\ Sorted(list) /\ (\A q \in 1 .. Len(list) : list[q].handle # r.handle) => Sorted(Append(list, r))
<1>1. PICK l, new : l = Len(list) /\ new = Append(list, r)
  OBVIOUS
<1>2. /\ l \in Nat /\ Len(new) = l + 1 /\ new[l + 1] = r
      /\ \A q \in 1 .. l : new[q] = list[q]
  BY <1>1, AppendIs
<1>3. \A p, q \in 1 .. l + 1 : p < q => p \in 1 .. l /\ (q \in 1 .. l \/ q = l + 1)
  BY <1>2
<1>4. Ascending(list) => Ascending(new)
  BY <1>1, <1>2, <1>3 DEF Ascending
<1>5. ASSUME Sorted(list), \A q \in 1 .. l : list[q].handle # r.handle PROVE Sorted(new)
  <2> SUFFICES ASSUME NEW p \in 1 .. l + 1, NEW q \in 1 .. l + 1, p < q PROVE Follows(new, p, q)
    BY <1>2 DEF Sorted, Follows
  <2>1. CASE q \in 1 .. l
    <3>1. p \in 1 .. l /\ \A j \in p .. q : j \in 1 .. l /\ new[j] = list[j]
      BY <1>2, <2>1
    <3>2. Follows(list, p, q)
      BY <1>1, <1>5, <2>1, <3>1 DEF Sorted, Follows
    <3>3. new[p] = list[p] /\ new[q] = list[q]
      BY <1>2, <2>1, <3>1
    <3> QED BY <3>1, <3>2, <3>3 DEF Follows
  <2>2. CASE q = l + 1
    <3>1. p \in 1 .. l /\ new[p] = list[p] /\ new[q] = r
      BY <1>2, <1>3, <2>2
    <3>2. list[p].handle # r.handle /\ list[p].id < r.id /\ list[p].id \in Int /\ r.id \in Int
      BY <1>1, <1>5, <3>1
    <3> QED BY <3>1, <3>2 DEF Follows, Kin
  <2> QED BY <1>3, <2>1, <2>2
<1> QED BY <1>1, <1>4, <1>5

(* A new request.                                                           *)
Fresh(r, n) == r \in Request /\ r.id = n + 1

(* A new request has a number of its own, and no alarm.                     *)
LEMMA FreshId ==
  ASSUME GoodRequests, NEW s, NEW n \in Nat, NEW all, Well(s, n, all), NEW r, Fresh(r, n)
  PROVE  /\ \A x \in AllOf(s) : x.id =< n /\ x.id < r.id /\ x.id # r.id /\ x.id \in Nat
         /\ r.id \in Nat /\ r.id \in 1 .. MaxRequests /\ r.id \notin Ids(s) /\ r.id \notin s.alarms \cup all
         /\ r.handle \in Handle /\ r.handle \in Nat
<1>1. s \in Sock /\ \A i \in Ids(s) : i =< n
  BY DEF Well, InOrder
<1>2. \A x \in AllOf(s) : x.id \in Nat /\ x.id =< n
  BY <1>1, InSock, InRequest DEF Ids
<1>3. r.id = n + 1 /\ r.id \in Nat /\ r.id \in 1 .. MaxRequests /\ r.handle \in Handle /\ r.handle \in Nat
  BY InRequest DEF Fresh
<1>4. r.id \notin Ids(s)
  BY <1>1, <1>3
<1>5. r.id \notin s.alarms \cup all
  <2>1. \A i \in s.alarms \cup all : i =< n
    BY DEF Well, Timed
  <2> QED BY <1>3, <2>1
<1> QED BY <1>2, <1>3, <1>4, <1>5

(* The answers when a number is new, in a list or answered at once.         *)
LEMMA FreshAnswers ==
  ASSUME NEW s, NEW n \in Nat, AnswersOk(s, n), (n + 1) \notin Ids(s), NEW t
  PROVE  /\ t.answers = s.answers /\ Ids(t) = Ids(s) \cup {n + 1} => AnswersOk(t, n + 1)
         /\ Ids(t) = Ids(s) /\ (\A i \in 1 .. MaxRequests :
              t.answers[i] = s.answers[i] + (IF i = n + 1 THEN 1 ELSE 0)) => AnswersOk(t, n + 1)
<1>1. \A i \in Int : i > n <=> i > n + 1 \/ i = n + 1
  OBVIOUS
<1>2. 1 .. MaxRequests \subseteq Int
  OBVIOUS
<1>3. n + 1 \in Int /\ ~(n + 1 > n + 1) /\ n + 1 > n
  OBVIOUS
<1>4. \A i \in 1 .. MaxRequests : s.answers[i] = IF i > n \/ i \in Ids(s) THEN 0 ELSE 1
  BY DEF AnswersOk
<1>5. ASSUME t.answers = s.answers, Ids(t) = Ids(s) \cup {n + 1} PROVE AnswersOk(t, n + 1)
  BY <1>1, <1>2, <1>4, <1>5 DEF AnswersOk
<1>6. ASSUME Ids(t) = Ids(s), \A i \in 1 .. MaxRequests : t.answers[i] = s.answers[i] + (IF i = n + 1 THEN 1 ELSE 0)
      PROVE  AnswersOk(t, n + 1)
  <2> SUFFICES ASSUME NEW i \in 1 .. MaxRequests
               PROVE  t.answers[i] = IF i > n + 1 \/ i \in Ids(t) THEN 0 ELSE 1
    BY DEF AnswersOk
  <2>1. CASE i = n + 1
    BY <1>3, <1>4, <1>6, <2>1
  <2>2. CASE i # n + 1
    <3>1. t.answers[i] = s.answers[i]
      BY <1>4, <1>6, <2>2
    <3> QED BY <1>1, <1>2, <1>4, <1>6, <2>2, <3>1
  <2> QED BY <2>1, <2>2
<1> QED BY <1>5, <1>6

(* InOrder with the part about the answers named.                           *)
LEMMA AnswersAre ==
  ASSUME NEW s, NEW n
  PROVE  InOrder(s, n) <=>
           /\ s \in Sock /\ Sorted(s.main) /\ Ascending(s.wait)
           /\ \A r \in Requests(s.main), w \in Requests(s.wait) :
                r.id # w.id /\ (r.handle = w.handle => r.id < w.id)
           /\ AnswersOk(s, n) /\ (\A i \in Ids(s) : i =< n) /\ s.current \in Pointers(s)
BY DEF InOrder, AnswersOk

(* One that is answered at once.                                            *)
LEMMA AnsweredWell ==
  ASSUME GoodRequests, NEW s, NEW n \in Nat, NEW all \in SUBSET Nat, Well(s, n, all), AllOk(s, {}),
         NEW r, Fresh(r, n), NEW t, t = Answered(s, {r})
  PROVE  Well(t, n + 1, all) /\ AllOk(t, {})
<1> DEFINE answers == [i \in DOMAIN s.answers |-> s.answers[i] + (IF i \in {x.id : x \in {r}} THEN 1 ELSE 0)]
<1>1. s \in Sock /\ InOrder(s, n) /\ Counted(s) /\ Tops(s) /\ Timed(s, all, n)
  BY DEF Well, InOrder
<1>2. /\ answers \in [1 .. MaxRequests -> Nat]
      /\ \A i \in 1 .. MaxRequests : answers[i] = s.answers[i] + (IF i = n + 1 THEN 1 ELSE 0)
  <2>1. s.answers \in [1 .. MaxRequests -> Nat] /\ {x.id : x \in {r}} = {n + 1}
    BY <1>1 DEF Sock, Fresh
  <2>2. answers = [i \in 1 .. MaxRequests |-> s.answers[i] + (IF i \in {n + 1} THEN 1 ELSE 0)]
    BY <2>1
  <2>3. \A i \in 1 .. MaxRequests : s.answers[i] + (IF i \in {n + 1} THEN 1 ELSE 0) \in Nat
    <3>1. \A i \in 1 .. MaxRequests : s.answers[i] \in Nat
      BY <2>1
    <3>2. \A i : (IF i \in {n + 1} THEN 1 ELSE 0) \in {0, 1}
      OBVIOUS
    <3>3. \A x \in Nat, y \in {0, 1} : x + y \in Nat
      OBVIOUS
    <3> QED BY <3>1, <3>2, <3>3
  <2> HIDE DEF answers
  <2>4. \A i \in 1 .. MaxRequests : answers[i] = s.answers[i] + (IF i \in {n + 1} THEN 1 ELSE 0)
    BY <2>2
  <2>5. answers \in [1 .. MaxRequests -> Nat]
    BY <2>2, <2>3
  <2> QED BY <2>4, <2>5
<1>3. t = [s EXCEPT !.answers = answers]
  BY DEF Answered
<1> HIDE DEF answers
<1>4. /\ t \in Sock /\ t.main = s.main /\ t.wait = s.wait /\ t.count = s.count /\ t.waiting = s.waiting
      /\ t.alarms = s.alarms /\ t.answers = answers /\ t.current = s.current /\ t.top = s.top
      /\ t.fin = s.fin /\ t.fout = s.fout /\ t.ferr = s.ferr
  BY ONLY <1>1, <1>2, <1>3 DEF Sock
<1>5. AllOf(t) = AllOf(s) /\ Ids(t) = Ids(s) /\ Pointers(t) = Pointers(s)
  BY <1>4 DEF AllOf, Ids, Pointers
<1>6. AnswersOk(t, n + 1)
  <2>1. AnswersOk(s, n)
    BY <1>1, AnswersAre
  <2>2. (n + 1) \notin Ids(s)
    BY FreshId DEF Fresh
  <2> QED BY <1>2, <1>4, <1>5, <2>1, <2>2, FreshAnswers
<1>7. \A i \in Ids(t) : i =< n + 1
  <2>1. \A x \in AllOf(s) : x.id =< n /\ x.id \in Nat
    BY FreshId
  <2>2. \A i \in Nat : i =< n => i =< n + 1
    OBVIOUS
  <2>3. \A i \in Ids(s) : i \in Nat /\ i =< n
    BY <2>1 DEF Ids
  <2> QED BY <1>5, <2>2, <2>3
<1>8. InOrder(t, n + 1)
  <2>1. /\ s \in Sock /\ Sorted(s.main) /\ Ascending(s.wait)
        /\ \A x \in Requests(s.main), w \in Requests(s.wait) :
             x.id # w.id /\ (x.handle = w.handle => x.id < w.id)
        /\ s.current \in Pointers(s)
    BY <1>1 DEF InOrder
  <2> QED BY <1>4, <1>5, <1>6, <1>7, <2>1, AnswersAre
<1>9. Counted(t) /\ Tops(t)
  BY <1>1, <1>4 DEF Counted, Tops
<1>10. Timed(t, all, n + 1)
  <2>1. \A i \in s.alarms \cup all : i =< n + 1
    <3>1. \A i \in s.alarms \cup all : i =< n /\ i \in Int
      BY <1>1 DEF Timed, Sock
    <3> QED BY <3>1
  <2> QED BY <1>1, <1>4, <1>5, <2>1 DEF Timed
<1>11. AllOk(t, {})
  BY <1>4, <1>5 DEF AllOk, SocketOk
<1> QED BY <1>8, <1>9, <1>10, <1>11 DEF Well

(* What request_queue makes of the record.                                  *)
QueuedTo(s, t, r) ==
  /\ t \in Sock /\ t.answers = s.answers /\ t.current = s.current
  /\ t.alarms = IF r.timed THEN s.alarms \cup {r.id} ELSE s.alarms
  /\ t.fin  = IF request_is_input(r) THEN s.fin \cup {r.handle} ELSE s.fin
  /\ t.fout = IF request_is_input(r) THEN s.fout ELSE s.fout \cup {r.handle}
  /\ t.top = Larger(r.handle, s.top)
  /\ t.ferr = s.ferr \cup {r.handle}
  /\ IF r.handle \notin s.ferr
     THEN t.main = Append(s.main, r) /\ t.wait = s.wait /\ t.waiting = s.waiting /\ t.count = s.count
     ELSE t.main = s.main /\ t.wait = Append(s.wait, r)
          /\ t.waiting = s.waiting \cup {r.handle} /\ t.count = s.count + 1

(* What request_queue does to each part of sock.                            *)
LEMMA QueuedIs ==
  ASSUME GoodRequests, NEW s \in Sock, NEW r \in Request, NEW t, t = request_queue(s, r)
  PROVE  QueuedTo(s, t, r)
<1> DEFINE h == r.handle
           alarms == IF r.timed THEN s.alarms \cup {r.id} ELSE s.alarms
           fin  == IF request_is_input(r) THEN s.fin \cup {h} ELSE s.fin
           fout == IF request_is_output(r) THEN s.fout \cup {h} ELSE s.fout
           top  == Larger(h, s.top)
           newtop == Larger(h, s.newtop)
           u == [s EXCEPT !.alarms = alarms, !.fin = fin, !.fout = fout, !.top = top, !.newtop = newtop]
           ferr == s.ferr \cup {h}
           waiting == s.waiting \cup {h}
           main == Append(s.main, r)
           wait == Append(s.wait, r)
           count == s.count + 1
<1>1. r.id \in 1 .. MaxRequests /\ h \in Handle /\ h \in Nat
  BY InRequest
<1>2. alarms \subseteq 1 .. MaxRequests /\ fin \subseteq Handle /\ fout \subseteq Handle /\ ferr \subseteq Handle
      /\ waiting \subseteq Handle
  <2> HIDE DEF h
  <2> QED BY <1>1 DEF Sock
<1>3. top \in Nat /\ newtop \in Nat
  <2>1. s.top \in Nat /\ s.newtop \in Nat
    BY DEF Sock
  <2> QED BY <1>1, <2>1 DEF Larger
<1>4. main \in Seq(Request) /\ wait \in Seq(Request)
  BY InSock, AppendIs
<1>5. count \in Int
  BY DEF Sock
<1>6. t = IF h \notin s.ferr THEN [u EXCEPT !.ferr = u.ferr \cup {h}, !.main = Append(u.main, r)]
          ELSE [u EXCEPT !.waiting = u.waiting \cup {h}, !.wait = Append(u.wait, r), !.count = u.count + 1]
  BY DEF request_queue
<1> HIDE DEF alarms, fin, fout, top, newtop, ferr, waiting, main, wait, count
<1>7. /\ u.ferr = s.ferr /\ u.main = s.main /\ u.waiting = s.waiting /\ u.wait = s.wait /\ u.count = s.count
      /\ u.answers = s.answers /\ u.current = s.current
      /\ u.alarms = alarms /\ u.fin = fin /\ u.fout = fout /\ u.top = top
  BY DEF Sock
<1>8. u \in Sock
  <2> HIDE DEF h
  <2> QED BY ONLY s \in Sock, <1>2, <1>3 DEF Sock, u
<1> HIDE DEF u
<1>9. CASE h \notin s.ferr
  <2>1. t = [u EXCEPT !.ferr = ferr, !.main = main]
    BY <1>6, <1>7, <1>9 DEF ferr, main
  <2>2. /\ t \in Sock /\ t.answers = u.answers /\ t.current = u.current /\ t.alarms = u.alarms
        /\ t.fin = u.fin /\ t.fout = u.fout /\ t.top = u.top /\ t.ferr = ferr /\ t.main = main
        /\ t.wait = u.wait /\ t.waiting = u.waiting /\ t.count = u.count
    BY ONLY <1>2, <1>4, <1>8, <2>1 DEF Sock
  <2> QED BY <1>7, <1>9, <2>2 DEF QueuedTo, alarms, fin, fout, request_is_output, top, ferr, main
<1>10. CASE h \in s.ferr
  <2>1. t = [u EXCEPT !.waiting = waiting, !.wait = wait, !.count = count]
    BY <1>6, <1>7, <1>10 DEF waiting, wait, count
  <2>2. /\ t \in Sock /\ t.answers = u.answers /\ t.current = u.current /\ t.alarms = u.alarms
        /\ t.fin = u.fin /\ t.fout = u.fout /\ t.top = u.top /\ t.ferr = u.ferr /\ t.main = u.main
        /\ t.wait = wait /\ t.waiting = waiting /\ t.count = count
    BY ONLY <1>2, <1>4, <1>5, <1>8, <2>1 DEF Sock
  <2>3. s.ferr = s.ferr \cup {r.handle}
    BY <1>10
  <2> QED BY <1>7, <1>10, <2>2, <2>3 DEF QueuedTo, alarms, fin, fout, request_is_output, top, waiting, wait, count
<1> QED BY <1>9, <1>10

(* A request is queued: in main_list when nothing watches its socket, which *)
(* nothing is asked of then, or behind the others.                          *)
LEMMA QueuedKeeps ==
  ASSUME GoodRequests, NEW s, NEW n \in Nat, NEW all \in SUBSET Nat, Well(s, n, all), AllOk(s, {}),
         NEW r, Fresh(r, n), NEW t, t = request_queue(s, r)
  PROVE  Well(t, n + 1, all) /\ AllOk(t, {})
<1> DEFINE h == r.handle
<1>1. s \in Sock /\ InOrder(s, n) /\ Counted(s) /\ Tops(s) /\ Timed(s, all, n) /\ r \in Request /\ r.id = n + 1
  BY DEF Well, InOrder, Fresh
<1>2. QueuedTo(s, t, r)
  BY <1>1, QueuedIs
<1>3. /\ \A x \in AllOf(s) : x.id =< n /\ x.id < r.id /\ x.id # r.id /\ x.id \in Nat
      /\ r.id \in Nat /\ r.id \in 1 .. MaxRequests /\ r.id \notin Ids(s) /\ r.id \notin s.alarms \cup all
      /\ h \in Handle /\ h \in Nat
  BY FreshId
<1>4. /\ s.main \in Seq(Request) /\ s.wait \in Seq(Request) /\ Len(s.main) \in Nat /\ Len(s.wait) \in Nat
      /\ \A q \in 1 .. Len(s.main) : s.main[q] \in AllOf(s)
      /\ \A q \in 1 .. Len(s.wait) : s.wait[q] \in AllOf(s)
  BY <1>1, InSock DEF AllOf
<1>5. /\ t \in Sock /\ t.answers = s.answers /\ t.current = s.current
      /\ IF h \notin s.ferr
         THEN t.main = Append(s.main, r) /\ t.wait = s.wait /\ t.waiting = s.waiting /\ t.count = s.count
         ELSE t.main = s.main /\ t.wait = Append(s.wait, r)
              /\ t.waiting = s.waiting \cup {h} /\ t.count = s.count + 1
  BY <1>2 DEF QueuedTo
<1>6. IF h \notin s.ferr
      THEN Requests(t.main) = Requests(s.main) \cup {r} /\ Requests(t.wait) = Requests(s.wait)
      ELSE Requests(t.main) = Requests(s.main) /\ Requests(t.wait) = Requests(s.wait) \cup {r}
  <2>1. Requests(Append(s.main, r)) = Requests(s.main) \cup {r}
    BY <1>1, <1>4, AppendIs
  <2>2. Requests(Append(s.wait, r)) = Requests(s.wait) \cup {r}
    BY <1>1, <1>4, AppendIs
  <2> QED BY <1>5, <2>1, <2>2
<1>7. AllOf(t) = AllOf(s) \cup {r} /\ Ids(t) = Ids(s) \cup {n + 1} /\ Requests(s.main) \subseteq Requests(t.main)
  BY <1>1, <1>6 DEF AllOf, Ids
<1> HIDE DEF h
<1>8. h \notin s.ferr => \A x \in AllOf(s) : x.handle # h
  <2>1. SocketOk(s, h, {})
    BY <1>3 DEF AllOk
  <2> QED BY <2>1 DEF SocketOk, On
<1>9. h \in s.ferr => h \in Handles(s.main)
  <2>1. SocketOk(s, h, {})
    BY <1>3 DEF AllOk
  <2>2. h \in s.ferr => \E x \in AllOf(s) : x.handle = h
    BY <2>1 DEF SocketOk, On
  <2> QED BY <1>1, <2>2 DEF Counted, Handles, AllOf
<1>10. Sorted(t.main)
  <2>1. CASE h \notin s.ferr
    <3>1. \A q \in 1 .. Len(s.main) :
            s.main[q].id < r.id /\ s.main[q].id \in Int /\ r.id \in Int /\ s.main[q].handle # r.handle
      BY <1>3, <1>4, <1>8, <2>1 DEF h
    <3>2. Sorted(s.main)
      BY <1>1 DEF InOrder
    <3> QED BY <1>1, <1>4, <1>5, <2>1, <3>1, <3>2, AppendSorted
  <2>2. CASE h \in s.ferr
    BY <1>1, <1>5, <2>2 DEF InOrder
  <2> QED BY <2>1, <2>2
<1>11. Ascending(t.wait)
  <2>1. CASE h \notin s.ferr
    BY <1>1, <1>5, <2>1 DEF InOrder
  <2>2. CASE h \in s.ferr
    <3>1. \A q \in 1 .. Len(s.wait) : s.wait[q].id < r.id /\ s.wait[q].id \in Int /\ r.id \in Int
      BY <1>3, <1>4
    <3>2. Ascending(s.wait)
      BY <1>1 DEF InOrder
    <3> QED BY <1>1, <1>4, <1>5, <2>2, <3>1, <3>2, AppendSorted
  <2> QED BY <2>1, <2>2
<1>12. \A x \in Requests(t.main), w \in Requests(t.wait) :
         x.id # w.id /\ (x.handle = w.handle => x.id < w.id)
  <2>1. \A x \in Requests(s.main), w \in Requests(s.wait) :
          x.id # w.id /\ (x.handle = w.handle => x.id < w.id)
    BY <1>1 DEF InOrder
  <2>2. \A x \in Requests(s.main) : x.id # r.id /\ x.id < r.id
    BY <1>3 DEF AllOf
  <2>3. \A w \in Requests(s.wait) : r.id # w.id /\ (h \notin s.ferr => r.handle # w.handle)
    BY <1>3, <1>8 DEF AllOf, h
  <2> QED BY <1>6, <2>1, <2>2, <2>3
<1>13. AnswersOk(t, n + 1)
  <2>1. AnswersOk(s, n) /\ (n + 1) \notin Ids(s)
    BY <1>1, <1>3, AnswersAre
  <2> QED BY <1>5, <1>7, <2>1, FreshAnswers
<1>14. \A i \in Ids(t) : i =< n + 1
  <2>1. \A i \in Nat : i =< n => i =< n + 1
    OBVIOUS
  <2>2. \A i \in Ids(s) : i \in Nat /\ i =< n
    BY <1>3 DEF Ids
  <2>3. n + 1 =< n + 1
    OBVIOUS
  <2> QED BY <1>7, <2>1, <2>2, <2>3
<1>15. t.current \in Pointers(t)
  BY <1>1, <1>5, <1>7 DEF InOrder, Pointers
<1>16. InOrder(t, n + 1)
  BY <1>5, <1>10, <1>11, <1>12, <1>13, <1>14, <1>15, AnswersAre
<1>17. Counted(t)
  <2>1. s.waiting = Handles(s.wait) /\ s.count = Len(s.wait) /\ Handles(s.wait) \subseteq Handles(s.main)
    BY <1>1 DEF Counted
  <2>2. CASE h \notin s.ferr
    <3>1. Handles(s.main) \subseteq Handles(t.main)
      BY <1>7 DEF Handles
    <3>2. t.wait = s.wait /\ t.waiting = s.waiting /\ t.count = s.count
      BY <1>5, <2>2
    <3> QED BY <2>1, <3>1, <3>2 DEF Counted
  <2>3. CASE h \in s.ferr
    <3>1. t.count = Len(t.wait)
      BY <1>1, <1>4, <1>5, <2>1, <2>3, AppendIs
    <3>2. Handles(t.wait) = Handles(s.wait) \cup {h} /\ Handles(t.main) = Handles(s.main)
      BY <1>6, <2>3 DEF Handles, h
    <3> QED BY <1>5, <1>9, <2>1, <2>3, <3>1, <3>2 DEF Counted
  <2> QED BY <2>2, <2>3
<1>18. Tops(t)
  <2>1. t.top = Larger(h, s.top) /\ s.top \in Nat
    BY <1>1, <1>2 DEF QueuedTo, h, Sock
  <2>2. h =< t.top /\ \A x \in Nat : x =< s.top => x =< t.top
    BY <1>3, <2>1 DEF Larger
  <2>3. \A x \in Requests(t.main) : x.handle = h \/ x \in Requests(s.main)
    BY <1>6 DEF h
  <2>4. \A x \in Requests(s.main) : x.handle \in Nat /\ x.handle =< s.top
    BY <1>1, InSock, InRequest DEF Tops, Handles, AllOf
  <2> QED BY <2>2, <2>3, <2>4 DEF Tops, Handles
<1>19. Timed(t, all, n + 1)
  <2>1. t.alarms = IF r.timed THEN s.alarms \cup {r.id} ELSE s.alarms
    BY <1>2 DEF QueuedTo
  <2>2. \A i \in s.alarms \cup all : i =< n + 1
    <3>1. \A i \in s.alarms \cup all : i =< n /\ i \in Int
      BY <1>1 DEF Timed, Sock
    <3> QED BY <3>1
  <2>3. r.id =< n + 1
    BY <1>1
  <2>4. \A x \in AllOf(s) : x.id \in s.alarms \cup all => x.timed
    BY <1>1 DEF Timed
  <2> QED BY <1>3, <1>7, <2>1, <2>2, <2>3, <2>4 DEF Timed
<1>20. AllOk(t, {})
  <2> SUFFICES ASSUME NEW x \in Handle PROVE SocketOk(t, x, {})
    BY DEF AllOk
  <2>1. SocketOk(s, x, {})
    BY DEF AllOk
  <2>2. /\ t.fin  = IF request_is_input(r) THEN s.fin \cup {h} ELSE s.fin
        /\ t.fout = IF request_is_input(r) THEN s.fout ELSE s.fout \cup {h}
        /\ t.ferr = s.ferr \cup {h}
    BY <1>2 DEF QueuedTo, h
  <2>3. CASE x # h
    <3>1. On(x, AllOf(t)) = On(x, AllOf(s)) /\ On(x, Requests(s.main)) \subseteq Requests(t.main)
      BY <1>7, <2>3 DEF On, h
    <3> QED BY <2>1, <2>2, <2>3, <3>1, SocketSame
  <2>4. CASE x = h
    <3>1. On(h, AllOf(t)) = On(h, AllOf(s)) \cup {r}
      BY <1>7 DEF On, h
    <3>2. \A y \in On(h, AllOf(t)) : h \in IF request_is_input(y) THEN t.fin ELSE t.fout
      BY <2>1, <2>2, <2>4, <3>1 DEF SocketOk
    <3>3. h \in t.fout => \E y \in On(h, AllOf(t)) : request_is_output(y)
      BY <2>1, <2>2, <2>4, <3>1 DEF SocketOk, request_is_output
    <3>4. h \in t.fin => \E y \in On(h, AllOf(t)) :
            request_is_input(y) \/ (y.type = "close" /\ y \in Requests(t.main))
      BY <1>7, <2>1, <2>2, <2>4, <3>1 DEF SocketOk
    <3>5. h \in t.ferr /\ h \in t.fin \cup t.fout
      BY <2>2
    <3>6. On(h, AllOf(t)) \ {} = On(h, AllOf(t))
      OBVIOUS
    <3> QED BY <2>4, <3>2, <3>3, <3>4, <3>5, <3>6 DEF SocketOk
  <2> QED BY <2>3, <2>4
<1> QED BY <1>16, <1>17, <1>18, <1>19, <1>20 DEF Well

(* Whatever the sockets do, a request is queued or answered.                *)
LEMMA CreatedIs ==
  ASSUME GoodRequests, NEW s, NEW n, NEW r, Fresh(r, n), r.type = "output" => r.handle \in Open,
         NEW t, t \in Created(s, r)
  PROVE  \E x : Fresh(x, n) /\ (t = request_queue(s, x) \/ t = Answered(s, {x}))
<1>1. r \in Request /\ r.id = n + 1 /\ r.type \in Types
  BY InRequest DEF Fresh
<1>2. t \in {request_queue(s, r), Answered(s, {r})} => \E x : Fresh(x, n) /\ (t = request_queue(s, x) \/ t = Answered(s, {x}))
  OBVIOUS
<1>3. CASE r.type = "read"
  <2>1. t \in process_read_type_request(s, r) \/ t = Answered(s, {r})
    BY <1>3 DEF Created, create_read_request
  <2>2. CASE t \in {request_queue(s, [r EXCEPT !.cur = m]) : m \in 0 .. Size - 1}
    <3>1. PICK m \in 0 .. Size - 1 : t = request_queue(s, [r EXCEPT !.cur = m])
      BY <2>2
    <3>2. m \in Int
      <4>1. Size \in Nat
        BY DEF GoodRequests
      <4> QED BY <4>1
    <3>3. PICK x : x = [r EXCEPT !.cur = m]
      OBVIOUS
    <3>4. Fresh(x, n)
      BY <1>1, <3>2, <3>3 DEF Fresh, Request
    <3> QED BY <3>1, <3>3, <3>4
  <2>3. t \in {request_queue(s, [r EXCEPT !.cur = m]) : m \in 0 .. Size - 1} \/ t \in {request_queue(s, r), Answered(s, {r})}
    BY <2>1 DEF process_read_type_request
  <2> QED BY <1>2, <2>2, <2>3
<1>4. CASE r.type \in {"write", "input"}
  <2>1. t \in {request_queue(s, r), Answered(s, {r})}
    BY <1>4 DEF Created, create_write_request, create_input_request
  <2> QED BY <1>2, <2>1
<1>5. CASE r.type = "output"
  <2>1. ~Dead(r)
    BY <1>5 DEF Dead
  <2>2. t \in {request_queue(s, r)}
    BY <1>5, <2>1 DEF Created, create_output_request
  <2> QED BY <1>2, <2>2
<1>6. CASE r.type = "connect"
  <2>1. t \in {Answered(s, {r})} \cup {request_queue(s, x) : x \in {x \in {r} : On(r.handle, AllOf(s)) = {}}}
    BY <1>6 DEF Created, create_connect_request
  <2> QED BY <1>2, <2>1
<1>7. CASE r.type = "close"
  <2>1. t \in {request_queue(s, r), Answered(s, {r})}
    BY <1>7 DEF Created, create_close_request
  <2> QED BY <1>2, <2>1
<1> QED BY <1>1, <1>3, <1>4, <1>5, <1>6, <1>7 DEF Types

(* A request is taken from the queue.                                       *)
LEMMA AskKeeps ==
  ASSUME GoodRequests, SockInv, NEW h \in Handle, NEW a \in Ask[h], AskSocket(h, a)
  PROVE  SockInv'
<1>1. PICK r : r = request_create(h, a)
  OBVIOUS
<1>2. /\ GettingEvent /\ asked < MaxRequests /\ asked' = asked + 1 /\ sock' \in Created(sock, r)
      /\ state' = state /\ sent' = sent
  BY <1>1 DEF AskSocket
<1>3. MaxRequests \in Nat /\ asked \in Nat
  <2>1. MaxRequests \in Nat
    BY DEF GoodRequests
  <2> QED BY <2>1, InvSock
<1>4. /\ a \in [type : Types, repeat : BOOLEAN, timed : BOOLEAN] /\ (a.repeat => a.type = "read")
      /\ (a.type = "output" => h \in Open) /\ (a.type = "close" => ~a.timed)
  BY DEF GoodRequests
<1>5. Fresh(r, asked) /\ (r.type = "output" => r.handle \in Open)
  <2>1. asked + 1 \in 1 .. MaxRequests
    BY <1>2, <1>3
  <2>2. PICK id : id = asked + 1
    OBVIOUS
  <2>3. r = [id |-> id, type |-> a.type, repeat |-> a.repeat, timed |-> a.timed, handle |-> h, cur |-> 0]
    BY <1>1, <2>2 DEF request_create
  <2>4. id \in 1 .. MaxRequests /\ a.type \in Types /\ a.repeat \in BOOLEAN /\ a.timed \in BOOLEAN
    BY <1>4, <2>1, <2>2
  <2>5. r \in [id : 1 .. MaxRequests, type : Types, repeat : BOOLEAN, timed : BOOLEAN, handle : Handle, cur : Int]
    BY <2>3, <2>4
  <2>6. r.id = id /\ r.type = a.type /\ r.repeat = a.repeat /\ r.timed = a.timed /\ r.handle = h
    BY <2>3
  <2> QED BY <1>4, <2>2, <2>5, <2>6 DEF Fresh, Request
<1>6. PICK t : t = sock'
  OBVIOUS
<1>7. PICK x : Fresh(x, asked) /\ (t = request_queue(sock, x) \/ t = Answered(sock, {x}))
  <2>1. t \in Created(sock, r) /\ Fresh(r, asked)
    BY <1>2, <1>5, <1>6
  <2>2. r.type = "output" => r.handle \in Open
    BY <1>5
  <2> QED BY <2>1, <2>2, CreatedIs
<1>8. Well(sock, asked, sent) /\ AllOk(sock, {}) /\ sent \in SUBSET Nat
  BY <1>2, InvSock DEF SockInv
<1>9. Well(t, asked + 1, sent) /\ AllOk(t, {})
  BY <1>3, <1>7, <1>8, QueuedKeeps, AnsweredWell
<1>10. TypeInv' /\ ~InWalk'
  <2>1. asked + 1 \in 0 .. MaxRequests
    BY <1>2, <1>3
  <2> QED BY <1>2, <2>1, InvSock DEF TypeInv, InWalk, GettingEvent
<1> QED BY <1>2, <1>6, <1>9, <1>10 DEF SockInv, WalkInv

-----------------------------------------------------------------------------
(* Timeouts.                                                                *)

(* The recursion of Finding is well-founded.                                *)
LEMMA FindingIs ==
  ASSUME NEW s, NEW id, Bound(s) \in Nat
  PROVE  /\ Finding(s, id)[0] = s
         /\ \A i \in 1 .. Bound(s) : Finding(s, id)[i] = FindStep(Finding(s, id)[i - 1], i, id)
<1> DEFINE n == Bound(s)
           Step(b, i) == IF i = 0 THEN s ELSE FindStep(b[i - 1], i, id)
           Are(b, m) == b = [i \in 0 .. m |-> Step(b, i)]
           Some == {m \in Nat : \E b : Are(b, m)}
<1>1. 0 \in Some
  <2> DEFINE k0 == [i \in 0 .. 0 |-> s]
  <2>1. Are(k0, 0)
    OBVIOUS
  <2> QED BY <2>1
<1>2. ASSUME NEW m \in 0 .. n - 1, m \in Some PROVE m + 1 \in Some
  <2>1. PICK k : Are(k, m)
    BY <1>2
  <2> DEFINE c == [i \in 0 .. m + 1 |-> IF i = m + 1 THEN FindStep(k[m], i, id) ELSE k[i]]
  <2>2. \A i \in 0 .. m + 1 : c[i] = Step(c, i)
    <3>1. ASSUME NEW i \in 0 .. m PROVE c[i] = Step(c, i)
      <4>1. c[i] = Step(k, i)
        BY <2>1
      <4>2. i # 0 => c[i - 1] = k[i - 1]
        OBVIOUS
      <4> QED BY <4>1, <4>2
    <3>2. c[m + 1] = Step(c, m + 1)
      OBVIOUS
    <3>3. \A i \in 0 .. m + 1 : i \in 0 .. m \/ i = m + 1
      OBVIOUS
    <3> HIDE DEF c, Step
    <3> QED BY <3>1, <3>2, <3>3
  <2>3. Are(c, m + 1)
    <3>1. c = [i \in 0 .. m + 1 |-> c[i]]
      OBVIOUS
    <3> HIDE DEF c, Step
    <3> QED BY <2>2, <3>1
  <2>4. m + 1 \in Nat
    OBVIOUS
  <2> HIDE DEF Are, c
  <2> QED BY <2>3, <2>4
<1>3. n \in Some
  <2>1. n \in Nat /\ n \in 0 .. n
    OBVIOUS
  <2> HIDE DEF Some, n
  <2> QED BY <1>1, <1>2, <2>1, UpTo
<1>4. Are(Finding(s, id), n)
  <2>1. PICK k : Are(k, n)
    BY <1>3
  <2>2. Finding(s, id) = CHOOSE b : Are(b, n)
    BY DEF Finding
  <2> HIDE DEF Are
  <2> QED BY <2>1, <2>2
<1> QED BY <1>4

(* The search up to place p: nothing waits for the sockets it went by.      *)
GoneBy(t, p) == \A q \in 1 .. Len(t.main) : q =< p => t.main[q].handle \notin t.waiting

Sought(t, p, id, n, all) ==
  /\ Well(t, n, all) /\ AllOk(t, {})
  /\ \/ t.active = EndOfList /\ GoneBy(t, p)
     \/ t.active = id /\ \E r \in Requests(t.main) : r.id = id /\ r.handle \notin t.waiting

(* The search for a request goes by another place, and merges there.        *)
LEMMA MergeGoesBy ==
  ASSUME GoodRequests, NEW s, NEW n \in Nat, NEW all, Well(s, n, all), AllOk(s, {}),
         NEW p \in 1 .. Len(s.main), GoneBy(s, p - 1), NEW m, m = MergeAt(s, p)
  PROVE  /\ Well(m, n, all) /\ AllOk(m, {}) /\ GoneBy(m, p) /\ m.active = s.active
         /\ MergedWell(s, m, p, n, s.main[p].handle) /\ Handles(m.main) = Handles(s.main)
<1> DEFINE h == s.main[p].handle
<1>1. s \in Sock /\ Len(s.main) \in Nat
  BY InSock DEF Well, InOrder
<1>2. \A j \in 1 .. p - 1 : j \in 1 .. Len(s.main) /\ j =< p - 1 /\ s.main[j].handle \notin s.waiting
  <2>1. \A j \in 1 .. p - 1 : j \in 1 .. Len(s.main) /\ j =< p - 1
    BY <1>1
  <2> QED BY <2>1 DEF GoneBy
<1>3. h \in s.waiting => \A j \in 1 .. p - 1 : s.main[j].handle # h
  BY <1>2
<1>4. MergedWell(s, m, p, n, h) /\ Well(m, n, all) /\ h \notin m.waiting /\ Handles(m.main) = Handles(s.main)
  BY <1>3, MergedStays
<1> HIDE DEF h
<1>5. /\ p \in 1 .. Len(m.main) /\ m.main[p].handle = h /\ \A q \in 1 .. p - 1 : m.main[q] = s.main[q]
      /\ m.active = s.active /\ m.waiting = s.waiting \ {h}
      /\ \A x \in Handle : SocketOk(s, x, {}) => SocketOk(m, x, {})
  BY <1>4 DEF MergedWell
<1>6. AllOk(m, {})
  BY <1>5 DEF AllOk
<1>7. GoneBy(m, p)
  <2> SUFFICES ASSUME NEW q \in 1 .. Len(m.main), q =< p PROVE m.main[q].handle \notin m.waiting
    BY DEF GoneBy
  <2>1. q = p \/ q \in 1 .. p - 1
    BY <1>1
  <2> QED BY <1>2, <1>4, <1>5, <2>1
<1> QED BY <1>4, <1>5, <1>6, <1>7 DEF h

(* One round of find_timed_out_request.                                     *)
LEMMA FindsOn ==
  ASSUME GoodRequests, NEW s, NEW n \in Nat, NEW all, NEW id \in Nat, id # EndOfList,
         NEW p \in Nat, Sought(s, p, id, n, all)
  PROVE  Sought(FindStep(s, p + 1, id), p + 1, id, n, all)
<1> DEFINE t == FindStep(s, p + 1, id)
<1>1. Well(s, n, all) /\ AllOk(s, {}) /\ s \in Sock /\ Len(s.main) \in Nat
  BY InSock DEF Sought, Well, InOrder
<1>2. CASE s.active # EndOfList
  <2>1. t = s
    BY <1>2 DEF FindStep
  <2> QED BY <1>2, <2>1 DEF Sought
<1>3. CASE s.active = EndOfList /\ p + 1 > Len(s.main)
  <2>1. t = s
    BY <1>3 DEF FindStep
  <2>2. GoneBy(s, p)
    BY <1>3 DEF Sought
  <2>3. GoneBy(s, p + 1)
    <3>1. \A q \in 1 .. Len(s.main) : q =< p
      BY <1>1, <1>3
    <3> QED BY <2>2, <3>1 DEF GoneBy
  <2> QED BY <1>1, <1>3, <2>1, <2>3 DEF Sought
<1>4. CASE s.active = EndOfList /\ ~(p + 1 > Len(s.main))
  <2>1. PICK m : m = MergeAt(s, p + 1)
    OBVIOUS
  <2>2. t = IF m.main[p + 1].id = id THEN [m EXCEPT !.active = id] ELSE m
    BY <1>4, <2>1 DEF FindStep, FindAt
  <2>3. p + 1 \in 1 .. Len(s.main) /\ GoneBy(s, (p + 1) - 1)
    <3>1. GoneBy(s, p)
      BY <1>4 DEF Sought
    <3>2. (p + 1) - 1 = p
      OBVIOUS
    <3> QED BY <1>1, <1>4, <3>1, <3>2
  <2>4. /\ Well(m, n, all) /\ AllOk(m, {}) /\ GoneBy(m, p + 1) /\ m.active = s.active
        /\ MergedWell(s, m, p + 1, n, s.main[p + 1].handle)
    BY <1>1, <2>1, <2>3, MergeGoesBy
  <2>5. CASE m.main[p + 1].id # id
    BY <1>4, <2>2, <2>4, <2>5 DEF Sought
  <2>6. CASE m.main[p + 1].id = id
    <3>1. PICK u : u = [m EXCEPT !.active = id]
      OBVIOUS
    <3>2. m \in Sock /\ InOrder(m, n) /\ m.current \in Pointers(m) /\ p + 1 \in 1 .. Len(m.main)
      BY <2>4 DEF Well, InOrder, MergedWell
    <3>3. SameLists(m, u) /\ u.current = m.current /\ u.top = m.top /\ u.active = id /\ SameSets(m, u)
      BY ONLY <3>1, <3>2, id \in Nat DEF SameLists, SameSets, Sock
    <3>4. Well(u, n, all)
      BY <2>4, <3>2, <3>3, SameWell
    <3>5. AllOk(u, {})
      BY <2>4, <3>3 DEF AllOk, SocketOk, AllOf, SameLists, SameSets
    <3>6. m.main[p + 1] \in Requests(m.main) /\ m.main[p + 1].handle \notin m.waiting
      <4>1. p + 1 =< p + 1
        OBVIOUS
      <4> QED BY <2>4, <3>2, <4>1, AtPlace DEF GoneBy
    <3>7. \E r \in Requests(u.main) : r.id = id /\ r.handle \notin u.waiting
      BY <2>6, <3>3, <3>6 DEF SameLists
    <3> QED BY <2>2, <2>6, <3>1, <3>3, <3>4, <3>5, <3>7 DEF Sought
  <2> QED BY <2>5, <2>6
<1> QED BY <1>2, <1>3, <1>4

(* The search keeps the invariant, and stops at a request for whose socket  *)
(* none waits.                                                              *)
LEMMA FoundIs ==
  ASSUME GoodRequests, NEW s, NEW n \in Nat, NEW all, NEW id \in Nat, id # EndOfList,
         Well(s, n, all), AllOk(s, {}), NEW t, t = find_timed_out_request(s, id)
  PROVE  \E b \in Nat : Sought(t, b, id, n, all)
<1>1. PICK u : u = [s EXCEPT !.active = EndOfList]
  OBVIOUS
<1>2. s \in Sock /\ s.current \in Pointers(s)
  BY DEF Well, InOrder
<1>3. SameLists(s, u) /\ SameSets(s, u) /\ u.current = s.current /\ u.active = EndOfList /\ u.top = s.top
  BY ONLY <1>1, <1>2 DEF SameLists, SameSets, Sock, EndOfList
<1>4. Well(u, n, all)
  BY <1>2, <1>3, SameWell
<1>5. AllOk(u, {})
  BY <1>3 DEF AllOk, SocketOk, AllOf, SameLists, SameSets
<1> DEFINE f == Finding(u, id)
           b == Bound(u)
           Some == {p \in 0 .. b : Sought(f[p], p, id, n, all)}
<1>6. b \in Nat /\ Bound(s) = b
  BY <1>3, BoundIs DEF Bound, SameLists
<1>7. f[0] = u /\ \A p \in 1 .. b : f[p] = FindStep(f[p - 1], p, id)
  BY <1>6, FindingIs
<1> HIDE DEF f, b
<1>8. 0 \in Some
  <2>1. GoneBy(u, 0)
    <3>1. \A q \in 1 .. Len(u.main) : ~(q =< 0)
      OBVIOUS
    <3> QED BY <3>1 DEF GoneBy
  <2> QED BY <1>3, <1>4, <1>5, <1>6, <1>7, <2>1 DEF Sought
<1>9. ASSUME NEW p \in 0 .. b - 1, p \in Some PROVE p + 1 \in Some
  <2>1. p + 1 \in 1 .. b /\ p + 1 \in 0 .. b /\ (p + 1) - 1 = p /\ p \in Nat
    BY <1>6
  <2>2. PICK x : x = f[p]
    OBVIOUS
  <2>3. Sought(x, p, id, n, all)
    BY <1>9, <2>2
  <2>4. Sought(FindStep(x, p + 1, id), p + 1, id, n, all)
    BY <2>1, <2>3, FindsOn
  <2>5. f[p + 1] = FindStep(x, p + 1, id)
    BY <1>7, <2>1, <2>2
  <2> QED BY <2>1, <2>4, <2>5
<1>10. b \in Some
  <2> HIDE DEF Some
  <2>1. b \in 0 .. b
    BY <1>6
  <2> QED BY <1>6, <1>8, <1>9, <2>1, UpTo
<1>11. t = f[b]
  BY <1>1, <1>6 DEF find_timed_out_request, f
<1> QED BY <1>6, <1>10, <1>11

(* A step that is not of a walk.                                            *)
LEMMA GettingKeeps ==
  ASSUME GoodRequests, SockInv, GettingEvent, state' = state, asked' = asked, sent' \subseteq 1 .. MaxRequests,
         Well(sock', asked, sent'), AllOk(sock', {})
  PROVE  SockInv'
<1>1. Well(sock', asked', sent')
  OBVIOUS
<1>2. TypeInv'
  BY DEF SockInv, TypeInv
<1>3. WalkInv'
  BY DEF WalkInv, InWalk, GettingEvent
<1>4. (GettingEvent => AllOk(sock, {}))'
  OBVIOUS
<1> QED BY <1>1, <1>2, <1>3, <1>4 DEF SockInv

(* Fewer timeout events are under way.                                      *)
LEMMA WellLess ==
  ASSUME NEW s, NEW n, NEW all, NEW less, Well(s, n, all), less \subseteq all
  PROVE  Well(s, n, less)
BY DEF Well, Timed

(* Where the pointer stands does not matter outside a walk.                 *)
LEMMA ActiveNone ==
  ASSUME NEW s, NEW n, NEW all, Well(s, n, all), AllOk(s, {}), NEW u, u = [s EXCEPT !.active = EndOfList]
  PROVE  Well(u, n, all) /\ AllOk(u, {})
<1>1. s \in Sock /\ s.current \in Pointers(s)
  BY DEF Well, InOrder
<1>2. SameLists(s, u) /\ SameSets(s, u) /\ u.current = s.current /\ u.top = s.top
  BY ONLY <1>1, u = [s EXCEPT !.active = EndOfList] DEF SameLists, SameSets, Sock, EndOfList
<1>3. Well(u, n, all)
  BY <1>1, <1>2, SameWell
<1>4. AllOk(u, {})
  BY <1>2 DEF AllOk, SocketOk, AllOf, SameLists, SameSets
<1> QED BY <1>3, <1>4

(* The sets of sockets are right for what is left when a request times out: *)
(* the code looks at its two neighbours, and a request with a timeout is    *)
(* not a CLOSE.                                                             *)
LEMMA TimedOut ==
  ASSUME GoodRequests, NEW t, NEW n \in Nat, NEW all, NEW id \in all, id # EndOfList, NEW b,
         Sought(t, b, id, n, all), t.active # EndOfList,
         NEW u, u = reply_timeout_to_request(t)
  PROVE  Well(u, n, all) /\ AllOk(u, {})
<1>1. Well(t, n, all) /\ InOrder(t, n) /\ t \in Sock /\ AllOk(t, {}) /\ Counted(t)
  BY DEF Sought, Well, InOrder
<1>2. PICK r \in Requests(t.main) : r.id = id /\ r.handle \notin t.waiting
  BY DEF Sought
<1>3. t.active = r.id
  BY <1>2 DEF Sought
<1>4. PICK p : p = At(t, r.id)
  OBVIOUS
<1>5. p \in 1 .. Len(t.main) /\ t.main[p] = r /\ Len(t.main) \in Nat
  BY <1>1, <1>4, AtOf, InSock
<1>6. r.type # "close" /\ r.handle \notin Handles(t.wait) /\ r \in AllOf(t)
  <2>1. r \in AllOf(t) /\ r \in Request
    BY <1>1, InSock DEF AllOf
  <2>2. r.timed
    BY <1>1, <1>2, <2>1 DEF Well, Timed
  <2> QED BY <1>1, <1>2, <2>1, <2>2, InRequest DEF Counted
<1> DEFINE behind == p > 1 /\ t.main[p - 1].handle = r.handle
           keep   == behind /\ (request_is_input(r) => request_is_input(t.main[p - 1]))
<1>7. PICK v : v = IF keep THEN t ELSE cleared(t, r)
  OBVIOUS
<1>8. u = [EndAll(v, {r}) EXCEPT !.active = EndOfList]
  <2>1. t.main[At(t, t.active)] = r /\ At(t, t.active) = p
    BY <1>3, <1>4, <1>5
  <2>2. u = [End(v, r) EXCEPT !.active = EndOfList]
    <3> HIDE DEF cleared
    <3>1. CASE request_is_input(r)
      BY <1>7, <2>1, <3>1 DEF reply_timeout_to_request, cleared
    <3>2. CASE ~request_is_input(r)
      BY <1>7, <2>1, <3>2 DEF reply_timeout_to_request, cleared
    <3> QED BY <3>1, <3>2
  <2> QED BY <2>2 DEF End
<1>9. AllOk(v, {r}) /\ SetsOnly(t, v)
  <2>1. CASE keep
    <3>1. p - 1 \in 1 .. Len(t.main) /\ p - 1 < p
      BY <1>5, <2>1
    <3>2. t.main[p - 1] \in AllOf(t) /\ t.main[p - 1] # r
      <4>1. t.main[p - 1] \in AllOf(t)
        BY <1>1, <3>1, AtPlace
      <4>2. t.main[p - 1].id # t.main[p].id
        BY <1>1, <1>5, <3>1 DEF InOrder, Sorted
      <4> QED BY <1>5, <4>1, <4>2
    <3>3. Kin(t.main[p - 1], r)
      <4>1. request_is_input(t.main[p - 1]) => request_is_input(r)
        BY <1>1, <1>5, <2>1, <3>1 DEF InOrder, Sorted
      <4> QED BY <2>1, <4>1 DEF Kin
    <3>4. AllOk(t, {r})
      BY <1>1, <1>6, <3>2, <3>3, OthersOk
    <3>5. SetsOnly(t, t)
      BY <1>1 DEF SetsOnly, SameLists
    <3> QED BY <1>7, <2>1, <3>4, <3>5
  <2>2. CASE ~keep
    <3>1. ASSUME NEW q \in 1 .. p - 1 PROVE ~Kin(t.main[q], r)
      <4> SUFFICES ASSUME Kin(t.main[q], r) PROVE keep
        BY <2>2
      <4>1. q \in 1 .. Len(t.main) /\ q < p /\ p > 1 /\ p - 1 \in q .. p /\ p - 1 \in 1 .. Len(t.main)
        BY <1>5
      <4>2. t.main[q].handle = r.handle /\ t.main[q].handle = t.main[p].handle
        BY <1>5 DEF Kin
      <4>3. \A j \in q .. p : t.main[j].handle = t.main[q].handle
        BY <1>1, <1>5, <4>1, <4>2 DEF InOrder, Sorted
      <4>4. t.main[p - 1].handle = r.handle
        BY <4>1, <4>2, <4>3
      <4>5. request_is_input(r) => request_is_input(t.main[p - 1])
        <5>1. CASE q = p - 1
          BY <5>1 DEF Kin
        <5>2. CASE q < p - 1
          <6>1. request_is_input(t.main[q]) => request_is_input(t.main[p - 1])
            BY <1>1, <4>1, <4>2, <4>4, <5>2 DEF InOrder, Sorted
          <6> QED BY <6>1 DEF Kin
        <5> QED BY <1>5, <5>1, <5>2
      <4> QED BY <4>1, <4>4, <4>5
    <3>2. AllOk(cleared(t, r), {r}) /\ SetsOnly(t, cleared(t, r))
      BY <1>1, <1>5, <1>6, <3>1, Cleared
    <3> QED BY <1>7, <2>2, <3>2
  <2> QED BY <2>1, <2>2
<1> HIDE DEF keep
<1>10. v.main = t.main /\ v.waiting = t.waiting
  BY <1>9 DEF SetsOnly, SameLists
<1>11. Well(v, n, all)
  <2>1. v.current \in Pointers(t) /\ SameLists(t, v) /\ v.top = t.top
    BY <1>1, <1>9 DEF SetsOnly, InOrder
  <2> QED BY <1>1, <2>1, SameWell
<1>12. PICK w : w = EndAll(v, {r})
  OBVIOUS
<1>13. EndedWell(v, w, {r}, n) /\ Well(w, n, all)
  <2>1. {r} \subseteq Requests(v.main) /\ \A x \in {r} : x.handle = r.handle
    BY <1>10
  <2>2. r.handle \notin v.waiting
    BY <1>2, <1>10
  <2> QED BY <1>11, <1>12, <2>1, <2>2, EndsWell
<1>14. AllOk(w, {})
  BY <1>9, <1>13, EndedOk DEF EndedWell
<1> QED BY <1>8, <1>12, <1>13, <1>14, ActiveNone

(* A timeout ends its request, and the sockets are as they should be.       *)
LEMMA TimeoutKeeps ==
  ASSUME GoodRequests, SockInv, NEW id \in 1 .. MaxRequests, Timeout(id)
  PROVE  SockInv'
<1>1. /\ asked \in Nat /\ asked \in 0 .. MaxRequests /\ sent \subseteq 1 .. MaxRequests
      /\ Well(sock, asked, sent)
  BY InvSock
<1>2. /\ GettingEvent /\ id \in sent /\ sent' = sent \ {id} /\ asked' = asked
      /\ state' = state /\ the_next_event' = the_next_event
  BY DEF Timeout
<1>3. AllOk(sock, {}) /\ MaxRequests \in Nat
  BY <1>2 DEF SockInv, GoodRequests
<1>4. id \in Nat /\ id # EndOfList
  BY <1>3 DEF EndOfList
<1>5. PICK t : t = find_timed_out_request(sock, id)
  OBVIOUS
<1>6. PICK b \in Nat : Sought(t, b, id, asked, sent)
  BY <1>1, <1>3, <1>4, <1>5, FoundIs
<1>7. sock' = reply_timeout_to_request(t)
  BY <1>5 DEF Timeout
<1>8. Well(sock', asked, sent) /\ AllOk(sock', {})
  <2>1. CASE t.active = EndOfList
    <3>1. sock' = t
      BY <1>7, <2>1 DEF reply_timeout_to_request
    <3> QED BY <1>6, <3>1 DEF Sought
  <2>2. CASE t.active # EndOfList
    BY <1>1, <1>2, <1>4, <1>6, <1>7, <2>2, TimedOut
  <2> QED BY <2>1, <2>2
<1>9. Well(sock', asked, sent')
  BY <1>2, <1>8, WellLess
<1> QED BY <1>1, <1>2, <1>8, <1>9, GettingKeeps

-----------------------------------------------------------------------------
(* Flush.                                                                   *)

(* find_socket_request finds the first request of a socket.                 *)
LEMMA LeastIs ==
  ASSUME NEW s \in Sock, NEW h, NEW q \in 1 .. Len(s.main), s.main[q].handle = h,
         NEW p, p = CHOOSE f \in OnSocket(s, h) : \A j \in OnSocket(s, h) : f =< j
  PROVE  FirstOn(s, p, h)
<1>1. Len(s.main) \in Nat /\ DOMAIN s.main = 1 .. Len(s.main)
  BY InSock
<1>2. PICK f \in 1 .. q : FirstOn(s, f, h)
  BY FirstIs
<1>3. f \in OnSocket(s, h) /\ \A j \in OnSocket(s, h) : f =< j
  BY <1>1, <1>2 DEF FirstOn, OnSocket
<1>4. p \in OnSocket(s, h) /\ \A j \in OnSocket(s, h) : p =< j
  BY <1>3
<1>5. \A j \in 1 .. p - 1 : s.main[j].handle # h
  <2> SUFFICES ASSUME NEW j \in 1 .. p - 1, s.main[j].handle = h PROVE FALSE
    OBVIOUS
  <2>1. p \in 1 .. Len(s.main)
    BY <1>1, <1>4 DEF OnSocket
  <2>2. j \in 1 .. Len(s.main) /\ ~(p =< j)
    BY <1>1, <2>1
  <2>3. j \in OnSocket(s, h)
    BY <1>1, <2>2 DEF OnSocket
  <2> QED BY <1>4, <2>2, <2>3
<1> QED BY <1>1, <1>4, <1>5 DEF FirstOn, OnSocket

(* Everything on a socket ends, what waits for it too.                      *)
FlushesAll(s, h, c, v, t, w, u) ==
  /\ c = s.count - Len(Kept(s.wait, On(h, Requests(s.wait))))
  /\ v = [s EXCEPT !.fout = s.fout \ {h}, !.waiting = s.waiting \ {h}, !.count = c]
  /\ t = EndAll(v, On(h, AllOf(s)))
  /\ w = [t EXCEPT !.fin = t.fin \ {h}]
  /\ u = IF h \in w.fout THEN w ELSE [w EXCEPT !.ferr = w.ferr \ {h}]

(* All requests of a socket are flushed and it is watched no more.          *)
LEMMA FlushedAll ==
  ASSUME GoodRequests, NEW s, NEW n \in Nat, NEW all, Well(s, n, all), AllOk(s, {}), NEW h \in Handle,
         NEW c, NEW v, NEW t, NEW w, NEW u, FlushesAll(s, h, c, v, t, w, u)
  PROVE  Well(u, n, all) /\ AllOk(u, {})
<1>0. /\ c = s.count - Len(Kept(s.wait, On(h, Requests(s.wait))))
      /\ v = [s EXCEPT !.fout = s.fout \ {h}, !.waiting = s.waiting \ {h}, !.count = c]
      /\ t = EndAll(v, On(h, AllOf(s)))
      /\ w = [t EXCEPT !.fin = t.fin \ {h}]
      /\ u = IF h \in w.fout THEN w ELSE [w EXCEPT !.ferr = w.ferr \ {h}]
  BY DEF FlushesAll
<1> DEFINE rs     == On(h, AllOf(s))
           waited == On(h, Requests(s.wait))
<1>1. s \in Sock /\ InOrder(s, n) /\ Counted(s) /\ Tops(s) /\ Timed(s, all, n) /\ s.wait \in Seq(Request)
  BY InSock DEF Well, InOrder
<1>2. c = Len(Kept(s.wait, Requests(s.wait) \ waited)) /\ c \in Int
  <2>1. PICK a : a = Len(Kept(s.wait, waited))
    OBVIOUS
  <2>2. PICK b : b = Len(Kept(s.wait, Requests(s.wait) \ waited))
    OBVIOUS
  <2>3. a \in Nat /\ b \in Nat
    BY <1>1, <2>1, <2>2, KeptParts
  <2>4. a + b = Len(s.wait)
    BY <1>1, <2>1, <2>2, KeptSplit
  <2>5. c = Len(s.wait) - a
    BY <1>0, <1>1, <2>1 DEF Counted, waited
  <2>6. c = b
    BY <2>3, <2>4, <2>5
  <2> QED BY <2>2, <2>3, <2>6
<1> HIDE DEF waited
<1>3. /\ v \in Sock /\ v.main = s.main /\ v.wait = s.wait /\ v.answers = s.answers /\ v.alarms = s.alarms
      /\ v.current = s.current /\ v.top = s.top /\ v.count = c /\ v.waiting = s.waiting \ {h}
      /\ v.fin = s.fin /\ v.fout = s.fout \ {h} /\ v.ferr = s.ferr
  BY ONLY <1>0, <1>1, <1>2 DEF Sock
<1>4. AllOf(v) = AllOf(s) /\ Ids(v) = Ids(s) /\ Pointers(v) = Pointers(s)
  BY <1>3 DEF AllOf, Ids, Pointers
<1>5. InOrder(v, n)
  BY <1>1, <1>3, <1>4 DEF InOrder
<1>6. rs \subseteq AllOf(v)
  BY <1>4 DEF On
<1>7. /\ InOrder(t, n) /\ Requests(t.main) = Requests(s.main) \ rs
      /\ Requests(t.wait) = Requests(s.wait) \ rs /\ AllOf(t) = AllOf(s) \ rs
  <2>1. PICK x : x = rs
    OBVIOUS
  <2>2. x \subseteq AllOf(v) /\ t = EndAll(v, x)
    BY <1>0, <1>6, <2>1
  <2>3. /\ InOrder(t, n) /\ Requests(t.main) = Requests(v.main) \ x
        /\ Requests(t.wait) = Requests(v.wait) \ x /\ AllOf(t) = AllOf(v) \ x
    BY <1>5, <2>2, EndAllKeeps
  <2> QED BY <1>3, <1>4, <2>1, <2>3
<1>8. Ended(v, t, rs)
  BY <1>0, <1>3, EndAllFields
<1>9. /\ t.count = c /\ t.waiting = s.waiting \ {h} /\ t.top = s.top /\ t.alarms \subseteq s.alarms
      /\ t.fin = s.fin /\ t.fout = s.fout \ {h} /\ t.ferr = s.ferr
      /\ t.wait = Kept(s.wait, Requests(s.wait) \ rs)
  BY <1>3, <1>8 DEF Ended, SameSets, SameRest
<1>10. Requests(s.wait) \ rs = Requests(s.wait) \ waited
  BY DEF AllOf, On, waited
<1>11. Counted(t)
  <2>1. t.count = Len(t.wait)
    BY <1>2, <1>9, <1>10
  <2>2. Handles(t.wait) = Handles(s.wait) \ {h} /\ Handles(t.main) = Handles(s.main) \ {h}
    BY <1>7 DEF Handles, AllOf, On
  <2> QED BY <1>1, <1>9, <2>1, <2>2 DEF Counted
<1>12. Tops(t)
  <2>1. Handles(t.main) \subseteq Handles(s.main)
    BY <1>7 DEF Handles
  <2> QED BY <1>1, <1>9, <2>1, TopsLess
<1>13. Timed(t, all, n)
  BY <1>1, <1>7, <1>9, TimedLess
<1>14. Well(t, n, all)
  BY <1>7, <1>11, <1>12, <1>13 DEF Well
<1>15. t \in Sock /\ t.current \in Pointers(t)
  BY <1>7 DEF InOrder
<1>16. SameLists(t, u) /\ u.current = t.current /\ u.top = t.top
       /\ u.fin = t.fin \ {h} /\ u.fout = t.fout /\ u.ferr = t.ferr \ {h}
  <2>1. SameLists(t, w) /\ w.current = t.current /\ w.top = t.top
        /\ w.fin = t.fin \ {h} /\ w.fout = t.fout /\ w.ferr = t.ferr
    <3>1. w = [t EXCEPT !.fin = t.fin \ {h}]
      BY <1>0
    <3> QED BY ONLY <1>15, <3>1 DEF SameLists, Sock
  <2>2. w \in Sock /\ u = [w EXCEPT !.ferr = w.ferr \ {h}]
    BY <1>0, <1>9, <2>1 DEF SameLists
  <2>3. SameLists(w, u) /\ u.current = w.current /\ u.top = w.top
        /\ u.fin = w.fin /\ u.fout = w.fout /\ u.ferr = w.ferr \ {h}
    BY ONLY <2>2 DEF SameLists, Sock
  <2> QED BY <2>1, <2>3 DEF SameLists
<1>17. Well(u, n, all)
  <2>1. u.current \in Pointers(t) /\ SameLists(t, u) /\ u.top = t.top
    BY <1>15, <1>16
  <2> QED BY <1>14, <2>1, SameWell
<1>18. AllOf(u) = AllOf(s) \ rs /\ Requests(u.main) = Requests(s.main) \ rs
  BY <1>7, <1>16 DEF SameLists, AllOf
<1>19. AllOk(u, {})
  <2> SUFFICES ASSUME NEW x \in Handle PROVE SocketOk(u, x, {})
    BY DEF AllOk
  <2>1. CASE x = h
    <3>1. On(h, AllOf(u)) \subseteq {}
      BY <1>18 DEF On
    <3> QED BY <1>9, <1>16, <2>1, <3>1, SocketNone
  <2>2. CASE x # h
    <3>1. On(x, AllOf(u)) \ {} = On(x, AllOf(s)) \ {}
      BY <1>18, <2>2 DEF On
    <3>2. On(x, Requests(s.main)) \ {} \subseteq Requests(u.main)
      BY <1>18, <2>2 DEF On
    <3>3. SocketOk(s, x, {})
      BY DEF AllOk
    <3>4. (x \in u.fin <=> x \in s.fin) /\ (x \in u.fout <=> x \in s.fout) /\ (x \in u.ferr <=> x \in s.ferr)
      BY <1>9, <1>16, <2>2
    <3> HIDE DEF rs
    <3> QED BY <3>1, <3>2, <3>3, <3>4, SocketSame
  <2> QED BY <2>1, <2>2
<1> QED BY <1>17, <1>19

(* The requests for input end, after a merge, and those for output stay.     *)
LEMMA FlushedInput ==
  ASSUME GoodRequests, NEW s, NEW n \in Nat, NEW all, Well(s, n, all), AllOk(s, {}), NEW h \in Handle,
         h \in s.fout, NEW p, FirstOn(s, p, h), NEW m, m = MergeAt(s, p),
         NEW t, t = EndAll(m, {r \in On(h, Requests(m.main)) : request_is_input(r)}),
         NEW u, u = [t EXCEPT !.fin = t.fin \ {h}]
  PROVE  Well(u, n, all) /\ AllOk(u, {}) /\ h \in u.fout
<1> DEFINE rs == {r \in On(h, Requests(m.main)) : request_is_input(r)}
<1>1. p \in 1 .. Len(s.main) /\ s.main[p].handle = h /\ \A j \in 1 .. p - 1 : s.main[j].handle # h
  BY DEF FirstOn
<1>2. MergedWell(s, m, p, n, h) /\ Well(m, n, all) /\ h \notin m.waiting
  BY <1>1, MergedStays
<1>3. AllOk(m, {}) /\ m.fout = s.fout
  BY <1>2 DEF MergedWell, AllOk, SameSets
<1>4. rs \subseteq Requests(m.main) /\ (\A r \in rs : r.handle = h)
  BY DEF On
<1>5. EndedWell(m, t, rs, n) /\ Well(t, n, all)
  BY <1>2, <1>4, EndsWell
<1>6. /\ AllOf(t) = AllOf(m) \ rs /\ Requests(t.main) = Requests(m.main) \ rs /\ t.wait = m.wait
      /\ t.fin = m.fin /\ t.fout = m.fout /\ t.ferr = m.ferr
  BY <1>5 DEF EndedWell, SameSets
<1>7. t \in Sock /\ t.current \in Pointers(t)
  BY <1>5 DEF Well, InOrder
<1>8. SameLists(t, u) /\ u.current = t.current /\ u.top = t.top
      /\ u.fin = t.fin \ {h} /\ u.fout = t.fout /\ u.ferr = t.ferr
  BY ONLY <1>7, u = [t EXCEPT !.fin = t.fin \ {h}] DEF SameLists, Sock
<1>9. Well(u, n, all)
  <2>1. u.current \in Pointers(t) /\ SameLists(t, u) /\ u.top = t.top
    BY <1>7, <1>8
  <2> QED BY ONLY <1>5, <2>1, SameWell
<1>10. AllOf(u) = AllOf(m) \ rs /\ Requests(u.main) = Requests(m.main) \ rs
  BY <1>6, <1>8 DEF SameLists, AllOf
<1>11. AllOk(u, {})
  <2> SUFFICES ASSUME NEW x \in Handle PROVE SocketOk(u, x, {})
    BY DEF AllOk
  <2>1. SocketOk(m, x, {})
    BY <1>3 DEF AllOk
  <2>2. CASE x = h
    <3>1. \A r \in On(h, AllOf(u)) : ~request_is_input(r) /\ r \in On(h, AllOf(m))
      <4>1. On(h, Requests(m.wait)) = {}
        BY <1>2 DEF Well, Counted, Handles, On
      <4> QED BY <1>10, <4>1 DEF AllOf, On
    <3>2. h \in u.fout /\ h \notin u.fin /\ h \in u.ferr
      BY <1>3, <1>6, <1>8, <2>1, <2>2 DEF SocketOk
    <3>3. \E r \in On(h, AllOf(u)) \ {} : request_is_output(r)
      <4>1. PICK r \in On(h, AllOf(m)) : request_is_output(r)
        BY <1>3, <2>1, <2>2 DEF SocketOk
      <4>2. r \notin rs
        BY <4>1 DEF request_is_output
      <4> QED BY <1>10, <4>1, <4>2 DEF On
    <3> QED BY <2>2, <3>1, <3>2, <3>3 DEF SocketOk
  <2>3. CASE x # h
    <3>1. On(x, AllOf(u)) \ {} = On(x, AllOf(m)) \ {}
      BY <1>10, <2>3 DEF On
    <3>2. On(x, Requests(m.main)) \ {} \subseteq Requests(u.main)
      BY <1>10, <2>3 DEF On
    <3>3. (x \in u.fin <=> x \in m.fin) /\ (x \in u.fout <=> x \in m.fout) /\ (x \in u.ferr <=> x \in m.ferr)
      BY <1>6, <1>8, <2>3
    <3>4. x \in u.fin <=> x \in m.fin
      BY ONLY <3>3
    <3>5. x \in u.fout <=> x \in m.fout
      BY ONLY <3>3
    <3>6. x \in u.ferr <=> x \in m.ferr
      BY ONLY <3>3
    <3> QED BY ONLY <2>1, <3>1, <3>2, <3>4, <3>5, <3>6, SocketSame, Zenon
  <2> QED BY <2>2, <2>3
<1> QED BY <1>3, <1>6, <1>8, <1>9, <1>11

(* flush_socket_requests keeps the invariant.                               *)
LEMMA Flushed ==
  ASSUME GoodRequests, NEW s, NEW n \in Nat, NEW all, Well(s, n, all), AllOk(s, {}), NEW h \in Handle,
         NEW alltypes \in BOOLEAN, NEW u, u = flush_socket_requests(s, h, alltypes)
  PROVE  Well(u, n, all) /\ AllOk(u, {})
<1> DEFINE watched == IF alltypes THEN s.ferr ELSE s.fin
<1>1. s \in Sock /\ Counted(s) /\ SocketOk(s, h, {})
  BY DEF Well, InOrder, AllOk
<1>2. CASE h \notin watched
  <2>1. u = s
    BY <1>2 DEF flush_socket_requests
  <2> QED BY <2>1
<1>3. CASE h \in watched
  <2>1. h \in s.fin \/ h \in s.fout
    BY <1>1, <1>3 DEF SocketOk
  <2>2. PICK r \in AllOf(s) : r.handle = h
    BY <1>1, <2>1 DEF SocketOk, On
  <2>3. h \in Handles(s.main)
    BY <1>1, <2>2 DEF Counted, Handles, AllOf
  <2>4. PICK q \in 1 .. Len(s.main) : s.main[q].handle = h
    <3>1. h \in {x.handle : x \in Requests(s.main)}
      BY ONLY <2>3 DEF Handles
    <3>2. PICK x \in Requests(s.main) : x.handle = h
      BY ONLY <3>1
    <3>3. s \in Sock
      BY ONLY <1>1
    <3>4. Requests(s.main) = {s.main[i] : i \in 1 .. Len(s.main)}
      BY ONLY <3>3, InSock
    <3>5. PICK i \in 1 .. Len(s.main) : x = s.main[i]
      BY ONLY <3>2, <3>4
    <3> QED BY ONLY <3>2, <3>5
  <2>5. PICK p : p = CHOOSE f \in OnSocket(s, h) : \A j \in OnSocket(s, h) : f =< j
    OBVIOUS
  <2>6. FirstOn(s, p, h)
    BY <1>1, <2>4, <2>5, LeastIs
  <2>7. CASE alltypes \/ h \notin s.fout
    <3>1. PICK c : c = s.count - Len(Kept(s.wait, On(h, Requests(s.wait))))
      OBVIOUS
    <3>2. PICK v : v = [s EXCEPT !.fout = s.fout \ {h}, !.waiting = s.waiting \ {h}, !.count = c]
      OBVIOUS
    <3>3. PICK t : t = EndAll(v, On(h, AllOf(s)))
      OBVIOUS
    <3>4. PICK w : w = [t EXCEPT !.fin = t.fin \ {h}]
      OBVIOUS
    <3>5. u = IF h \in w.fout THEN w ELSE [w EXCEPT !.ferr = w.ferr \ {h}]
      BY <1>3, <2>7, <3>1, <3>2, <3>3, <3>4 DEF flush_socket_requests
    <3>6. FlushesAll(s, h, c, v, t, w, u)
      BY <3>1, <3>2, <3>3, <3>4, <3>5 DEF FlushesAll
    <3> QED BY <3>6, FlushedAll
  <2>8. CASE ~(alltypes \/ h \notin s.fout)
    <3>1. PICK m : m = MergeAt(s, p)
      OBVIOUS
    <3>2. PICK t : t = EndAll(m, {x \in On(h, Requests(m.main)) : request_is_input(x)})
      OBVIOUS
    <3>3. PICK w : w = [t EXCEPT !.fin = t.fin \ {h}]
      OBVIOUS
    <3>4. Well(w, n, all) /\ AllOk(w, {}) /\ h \in w.fout
      BY <2>6, <2>8, <3>1, <3>2, <3>3, FlushedInput
    <3>5. u = IF h \in w.fout THEN w ELSE [w EXCEPT !.ferr = @ \ {h}]
      BY <1>3, <2>5, <2>8, <3>1, <3>2, <3>3 DEF flush_socket_requests
    <3> QED BY <3>4, <3>5
  <2> QED BY <2>7, <2>8
<1> QED BY <1>2, <1>3

(* A flush ends requests, and leaves the sockets as they should be.         *)
LEMMA FlushKeeps ==
  ASSUME GoodRequests, SockInv, NEW h \in Handle, NEW b \in BOOLEAN, Flush(h, b)
  PROVE  SockInv'
<1>1. asked \in Nat /\ sent \subseteq 1 .. MaxRequests /\ Well(sock, asked, sent)
  BY InvSock
<1>2. /\ GettingEvent /\ sock' = flush_socket_requests(sock, h, b) /\ sent' = sent /\ asked' = asked
      /\ state' = state /\ the_next_event' = the_next_event
  BY DEF Flush, Steady
<1>3. AllOk(sock, {})
  BY <1>2 DEF SockInv
<1>4. Well(sock', asked, sent') /\ AllOk(sock', {})
  BY <1>1, <1>2, <1>3, Flushed
<1> QED BY <1>1, <1>2, <1>4, GettingKeeps

-----------------------------------------------------------------------------
(* The housekeeping.                                                        *)

(* The recursion of Housekeeping is well-founded.                           *)
LEMMA HousekeepingIs ==
  ASSUME NEW s, Bound(s) \in Nat
  PROVE  /\ Housekeeping(s)[0] = s
         /\ \A i \in 1 .. Bound(s) : Housekeeping(s)[i] = HousekeepStep(Housekeeping(s)[i - 1], i)
<1> DEFINE n == Bound(s)
           Step(b, i) == IF i = 0 THEN s ELSE HousekeepStep(b[i - 1], i)
           Are(b, m) == b = [i \in 0 .. m |-> Step(b, i)]
           Some == {m \in Nat : \E b : Are(b, m)}
<1>1. 0 \in Some
  <2> DEFINE k0 == [i \in 0 .. 0 |-> s]
  <2>1. Are(k0, 0)
    OBVIOUS
  <2> QED BY <2>1
<1>2. ASSUME NEW m \in 0 .. n - 1, m \in Some PROVE m + 1 \in Some
  <2>1. PICK k : Are(k, m)
    BY <1>2
  <2> DEFINE c == [i \in 0 .. m + 1 |-> IF i = m + 1 THEN HousekeepStep(k[m], i) ELSE k[i]]
  <2>2. \A i \in 0 .. m + 1 : c[i] = Step(c, i)
    <3>1. ASSUME NEW i \in 0 .. m PROVE c[i] = Step(c, i)
      <4>1. c[i] = Step(k, i)
        BY <2>1
      <4>2. i # 0 => c[i - 1] = k[i - 1]
        OBVIOUS
      <4> QED BY <4>1, <4>2
    <3>2. c[m + 1] = Step(c, m + 1)
      OBVIOUS
    <3>3. \A i \in 0 .. m + 1 : i \in 0 .. m \/ i = m + 1
      OBVIOUS
    <3> HIDE DEF c, Step
    <3> QED BY <3>1, <3>2, <3>3
  <2>3. Are(c, m + 1)
    <3>1. c = [i \in 0 .. m + 1 |-> c[i]]
      OBVIOUS
    <3> HIDE DEF c, Step
    <3> QED BY <2>2, <3>1
  <2>4. m + 1 \in Nat
    OBVIOUS
  <2> HIDE DEF Are, c
  <2> QED BY <2>3, <2>4
<1>3. n \in Some
  <2>1. n \in Nat /\ n \in 0 .. n
    OBVIOUS
  <2> HIDE DEF Some, n
  <2> QED BY <1>1, <1>2, <2>1, UpTo
<1>4. Are(Housekeeping(s), n)
  <2>1. PICK k : Are(k, n)
    BY <1>3
  <2>2. Housekeeping(s) = CHOOSE b : Are(b, n)
    BY DEF Housekeeping
  <2> HIDE DEF Are
  <2> QED BY <2>1, <2>2
<1> QED BY <1>4


(* The housekeeping up to place p: it merged what waits for the sockets it   *)
(* went by, and has them in its range when it is to have a new one.          *)
Housed(t, p, b, n, all) ==
  /\ Well(t, n, all) /\ AllOk(t, {}) /\ GoneBy(t, p) /\ Bound(t) =< b
  /\ t.count > 0 \/ t.deleted => \A q \in 1 .. Len(t.main) : q =< p => t.main[q].handle =< t.newtop

(* At the first request of a socket the housekeeping merges and raises the  *)
(* bound.                                                                   *)
LEMMA HousesAt ==
  ASSUME GoodRequests, NEW s, NEW n \in Nat, NEW all, NEW b \in Nat, NEW p \in Nat, Housed(s, p, b, n, all),
         s.count > 0 \/ s.deleted, p + 1 \in 1 .. Len(s.main),
         NEW t, t = HousekeepAt(s, p + 1)
  PROVE  Housed(t, p + 1, b, n, all)
<1> DEFINE h == s.main[p + 1].handle
<1>1. /\ Well(s, n, all) /\ AllOk(s, {}) /\ GoneBy(s, p) /\ Bound(s) =< b /\ s \in Sock /\ InOrder(s, n)
      /\ Len(s.main) \in Nat
      /\ \A q \in 1 .. Len(s.main) : q =< p => s.main[q].handle =< s.newtop
  BY InSock DEF Housed, Well, InOrder
<1>2. (p + 1) - 1 = p /\ \A q \in 1 .. Len(s.main) : q =< p + 1 => q =< p \/ q = p + 1
  BY <1>1
<1>3. CASE p + 1 > 1 /\ s.main[p].handle = h
  <2>1. t = s
    BY <1>2, <1>3 DEF HousekeepAt
  <2>2. p \in 1 .. Len(s.main) /\ p =< p
    BY <1>1, <1>3
  <2>3. h \notin s.waiting /\ h =< s.newtop
    BY <1>1, <1>3, <2>2 DEF GoneBy
  <2>4. GoneBy(s, p + 1)
    BY <1>1, <1>2, <2>3 DEF GoneBy
  <2>5. \A q \in 1 .. Len(s.main) : q =< p + 1 => s.main[q].handle =< s.newtop
    BY <1>1, <1>2, <2>3
  <2> QED BY <1>1, <2>1, <2>4, <2>5 DEF Housed
<1>4. CASE ~(p + 1 > 1 /\ s.main[p].handle = h)
  <2>1. PICK m : m = MergeAt(s, p + 1)
    OBVIOUS
  <2>2. PICK k : k = Larger(h, m.newtop)
    OBVIOUS
  <2>3. t = [m EXCEPT !.newtop = k]
    <3>1. t = [m EXCEPT !.newtop = Larger(h, m.newtop)]
      BY <1>2, <1>4, <2>1 DEF HousekeepAt
    <3> QED BY <2>2, <3>1
  <2>4. /\ Well(m, n, all) /\ AllOk(m, {}) /\ GoneBy(m, p + 1)
        /\ MergedWell(s, m, p + 1, n, h)
    <3>1. GoneBy(s, (p + 1) - 1)
      BY <1>1, <1>2
    <3> QED BY <1>1, <2>1, <3>1, MergeGoesBy
  <2> HIDE DEF h
  <2>5. m \in Sock /\ InOrder(m, n) /\ m.current \in Pointers(m)
    BY <2>4 DEF Well, InOrder
  <2>6. /\ m.newtop = s.newtop /\ Bound(m) =< Bound(s) /\ m.main[p + 1].handle = h
        /\ p + 1 \in 1 .. Len(m.main) /\ \A q \in 1 .. (p + 1) - 1 : m.main[q] = s.main[q]
    BY <2>4 DEF MergedWell
  <2>7. h \in Nat /\ m.newtop \in Nat
    <3>1. m.main[p + 1] \in Request
      BY <2>5, <2>6, AtPlace
    <3> QED BY <2>5, <2>6, <3>1, InRequest DEF Sock
  <2>8. k \in Nat /\ h =< k /\ m.newtop =< k
    BY <2>2, <2>7 DEF Larger
  <2>9. SameLists(m, t) /\ SameSets(m, t) /\ t.current = m.current /\ t.top = m.top /\ t.newtop = k
    BY ONLY <2>3, <2>5, <2>8 DEF SameLists, SameSets, Sock
  <2>10. Well(t, n, all)
    BY <2>4, <2>5, <2>9, SameWell
  <2>11. AllOk(t, {})
    BY <2>4, <2>9 DEF AllOk, SocketOk, AllOf, SameLists, SameSets
  <2>12. GoneBy(t, p + 1)
    BY <2>4, <2>9 DEF GoneBy, SameLists
  <2>13. Bound(t) =< b
    <3>1. Bound(t) = Bound(m) /\ Bound(m) \in Nat /\ Bound(s) \in Nat
      BY <1>1, <2>5, <2>9, BoundIs DEF Bound, SameLists
    <3> QED BY <1>1, <2>6, <3>1
  <2>14. ASSUME NEW q \in 1 .. Len(t.main), q =< p + 1 PROVE t.main[q].handle =< t.newtop
    <3>1. t.main = m.main
      BY <2>9 DEF SameLists
    <3>2. q = p + 1 \/ q \in 1 .. p
      BY <2>14
    <3>3. CASE q = p + 1
      BY <2>6, <2>8, <2>9, <3>1, <3>3
    <3>4. CASE q \in 1 .. p
      <4>1. q \in 1 .. Len(s.main) /\ q =< p /\ q \in 1 .. (p + 1) - 1
        BY <1>1, <3>4
      <4>2. s.main[q].handle =< m.newtop /\ m.main[q] = s.main[q]
        BY <1>1, <2>6, <4>1
      <4>3. s.main[q].handle \in Nat
        BY <1>1, <4>1, AtPlace, InRequest
      <4>4. PICK y : y = s.main[q].handle
        OBVIOUS
      <4>5. PICK z : z = m.newtop
        OBVIOUS
      <4>6. y =< k
        <5>1. y \in Nat /\ z \in Nat /\ k \in Nat /\ y =< z /\ z =< k
          BY <2>7, <2>8, <4>2, <4>3, <4>4, <4>5
        <5> QED BY ONLY <5>1
      <4> QED BY <2>9, <3>1, <4>2, <4>4, <4>6
    <3> QED BY <3>2, <3>3, <3>4
  <2> QED BY <2>10, <2>11, <2>12, <2>13, <2>14 DEF Housed
<1> QED BY <1>3, <1>4

(* One round of the housekeeping.                                           *)
LEMMA HousesOn ==
  ASSUME GoodRequests, NEW s, NEW n \in Nat, NEW all, NEW b \in Nat, NEW p \in Nat, Housed(s, p, b, n, all)
  PROVE  Housed(HousekeepStep(s, p + 1), p + 1, b, n, all)
<1>1. s \in Sock /\ Len(s.main) \in Nat /\ Counted(s) /\ Len(s.wait) \in Nat
  BY InSock DEF Housed, Well, InOrder
<1>2. CASE (s.count > 0 \/ s.deleted) /\ p + 1 =< Len(s.main)
  <2>1. p + 1 \in 1 .. Len(s.main)
    BY <1>1, <1>2
  <2>2. PICK t : t = HousekeepAt(s, p + 1)
    OBVIOUS
  <2>3. Housed(t, p + 1, b, n, all)
    BY <1>2, <2>1, <2>2, HousesAt
  <2> QED BY <1>2, <2>2, <2>3 DEF HousekeepStep
<1>3. CASE ~((s.count > 0 \/ s.deleted) /\ p + 1 =< Len(s.main))
  <2>1. HousekeepStep(s, p + 1) = s
    BY <1>3 DEF HousekeepStep
  <2>2. CASE ~(s.count > 0 \/ s.deleted)
    <3>1. s.waiting = {}
      <4>1. Len(s.wait) = 0
        BY <1>1, <2>2 DEF Counted
      <4>2. Requests(s.wait) = {}
        <5>1. Requests(s.wait) = {s.wait[q] : q \in 1 .. 0}
          BY <1>1, <4>1, InSock
        <5> QED BY <5>1
      <4> QED BY <1>1, <4>2 DEF Counted, Handles
    <3>2. GoneBy(s, p + 1)
      BY <3>1 DEF GoneBy
    <3> QED BY <2>1, <2>2, <3>2 DEF Housed
  <2>3. CASE ~(p + 1 =< Len(s.main))
    <3>1. \A q \in 1 .. Len(s.main) : q =< p
      BY <1>1, <2>3
    <3>2. GoneBy(s, p + 1)
      BY <3>1 DEF Housed, GoneBy
    <3> QED BY <2>1, <3>1, <3>2 DEF Housed
  <2> QED BY <1>3, <2>2, <2>3
<1> QED BY <1>2, <1>3

(* After as many rounds as there are requests, the bound is over all        *)
(* sockets.                                                                 *)
LEMMA HousekeptWell ==
  ASSUME GoodRequests, NEW s, NEW n \in Nat, NEW all, Well(s, n, all), AllOk(s, {}),
         NEW t, t = Housekept(s)
  PROVE  Well(t, n, all) /\ AllOk(t, {})
<1>1. PICK zero : zero = 0
  OBVIOUS
<1>2. PICK u : u = [s EXCEPT !.newtop = zero]
  OBVIOUS
<1>3. s \in Sock /\ s.current \in Pointers(s) /\ zero \in Nat
  BY <1>1 DEF Well, InOrder
<1>4. SameLists(s, u) /\ SameSets(s, u) /\ u.current = s.current /\ u.top = s.top /\ u \in Sock
  BY ONLY <1>2, <1>3 DEF SameLists, SameSets, Sock
<1>5. Well(u, n, all)
  BY <1>3, <1>4, SameWell
<1>6. AllOk(u, {})
  BY <1>4 DEF AllOk, SocketOk, AllOf, SameLists, SameSets
<1> DEFINE k == Housekeeping(u)
           b == Bound(u)
           Some == {p \in 0 .. b : Housed(k[p], p, b, n, all)}
<1>7. b \in Nat /\ Bound(s) = b
  BY <1>3, <1>4, BoundIs DEF Bound, SameLists
<1>8. k[0] = u /\ \A p \in 1 .. b : k[p] = HousekeepStep(k[p - 1], p)
  BY <1>7, HousekeepingIs
<1>9. Bound(u) =< b
  BY <1>7
<1>10. Housekept(s) = Settled(k[b])
  BY <1>1, <1>2, <1>7 DEF Housekept
<1> HIDE DEF k, b
<1>11. 0 \in Some
  <2>1. \A q \in 1 .. Len(u.main) : ~(q =< 0)
    OBVIOUS
  <2>2. GoneBy(u, 0)
    BY <2>1 DEF GoneBy
  <2> QED BY <1>5, <1>6, <1>7, <1>8, <1>9, <2>1, <2>2 DEF Housed
<1>12. ASSUME NEW p \in 0 .. b - 1, p \in Some PROVE p + 1 \in Some
  <2>1. p + 1 \in 1 .. b /\ p + 1 \in 0 .. b /\ (p + 1) - 1 = p /\ p \in Nat
    BY <1>7
  <2>2. PICK x : x = k[p]
    OBVIOUS
  <2>3. Housed(x, p, b, n, all)
    BY <1>12, <2>2
  <2>4. Housed(HousekeepStep(x, p + 1), p + 1, b, n, all)
    BY <1>7, <2>1, <2>3, HousesOn
  <2>5. k[p + 1] = HousekeepStep(x, p + 1)
    BY <1>8, <2>1, <2>2
  <2> QED BY <2>1, <2>4, <2>5
<1>13. b \in Some
  <2> HIDE DEF Some
  <2>1. b \in 0 .. b
    BY <1>7
  <2> QED BY <1>7, <1>11, <1>12, <2>1, UpTo
<1>14. PICK x : x = k[b]
  OBVIOUS
<1>15. Housed(x, b, b, n, all) /\ t = Settled(x)
  BY <1>10, <1>13, <1>14
<1>16. Well(x, n, all) /\ AllOk(x, {}) /\ x \in Sock /\ x.current \in Pointers(x)
  BY <1>15 DEF Housed, Well, InOrder
<1>17. CASE ~x.deleted
  <2>1. t = x
    BY <1>15, <1>17 DEF Settled
  <2> QED BY <1>16, <2>1
<1>18. CASE x.deleted
  <2>1. t = [x EXCEPT !.top = x.newtop, !.deleted = FALSE]
    BY <1>15, <1>18 DEF Settled
  <2>2. SameLists(x, t) /\ SameSets(x, t) /\ t.current = x.current /\ t.top = x.newtop
    BY ONLY <1>16, <2>1 DEF SameLists, SameSets, Sock
  <2>3. Tops(t)
    <3>1. \A q \in 1 .. Len(x.main) : q =< b
      <4>1. Len(x.main) \in Nat /\ Len(x.wait) \in Nat /\ Len(x.main) + Len(x.wait) =< b
        BY <1>15, <1>16, InSock DEF Housed, Bound
      <4>2. PICK i, j : i = Len(x.main) /\ j = Len(x.wait)
        OBVIOUS
      <4>3. i \in Nat /\ j \in Nat /\ i + j =< b
        BY <4>1, <4>2
      <4>4. \A q \in 1 .. i : q =< b
        BY ONLY <1>7, <4>3
      <4> QED BY <4>2, <4>4
    <3>2. \A q \in 1 .. Len(x.main) : x.main[q].handle =< x.newtop
      BY <1>15, <1>18, <3>1 DEF Housed
    <3>3. Requests(x.main) = {x.main[q] : q \in 1 .. Len(x.main)}
      BY <1>16, InSock
    <3> QED BY <2>2, <3>2, <3>3 DEF Tops, Handles, SameLists
  <2>4. Well(t, n, all)
    BY <1>16, <2>2, <2>3, TopsWell
  <2>5. AllOk(t, {})
    BY <1>16, <2>2 DEF AllOk, SocketOk, AllOf, SameLists, SameSets
  <2> QED BY <2>4, <2>5
<1> QED BY <1>17, <1>18

(* Before it blocks the agent merges, finds the range of the sockets anew,   *)
(* and what select finds is of those it watches.                             *)
LEMMA BlockingKeeps ==
  ASSUME GoodRequests, SockInv, wait_for_activity_blocking
  PROVE  SockInv'
<1>1. asked \in Nat /\ sent \subseteq 1 .. MaxRequests /\ Well(sock, asked, sent)
  BY InvSock
<1>2. PICK s : s = Housekept(sock)
  OBVIOUS
<1>3. /\ GettingEvent /\ sent' = sent /\ asked' = asked /\ state' = state
      /\ sock' = s \/ sock' \in Selected(s)
  BY <1>2 DEF wait_for_activity_blocking, SelectBlocks
<1>4. AllOk(sock, {})
  BY <1>3 DEF SockInv
<1>5. Well(s, asked, sent) /\ AllOk(s, {})
  BY <1>1, <1>2, <1>4, HousekeptWell
<1>6. Well(sock', asked, sent') /\ AllOk(sock', {})
  <2>1. CASE sock' = s
    BY <1>3, <1>5, <2>1
  <2>2. CASE sock' \in Selected(s)
    <3>1. s \in Sock /\ s.current \in Pointers(s)
      BY <1>5 DEF Well, InOrder
    <3>2. PICK t : t = sock'
      OBVIOUS
    <3>3. SameRequests(s, t) /\ t.alarms = s.alarms
      BY <2>2, <3>1, <3>2, SelectedSame
    <3>4. SameLists(s, t) /\ t.current \in Pointers(s) /\ t.top = s.top
      BY <3>1, <3>3 DEF SameRequests, SameLists
    <3>5. Well(t, asked, sent)
      BY <1>5, <3>4, SameWell
    <3>6. AllOk(t, {})
      BY <1>5, <3>3 DEF AllOk, SocketOk, AllOf, SameRequests
    <3> QED BY <1>3, <3>2, <3>5, <3>6
  <2> QED BY <1>3, <2>1, <2>2
<1> QED BY <1>1, <1>3, <1>6, GettingKeeps

-----------------------------------------------------------------------------
(* The theorems.                                                            *)

(* The invariant holds at first.                                            *)
LEMMA InitHolds ==
  ASSUME GoodRequests, SInit
  PROVE  SockInv
<1>1. MaxRequests \in Nat
  BY DEF GoodRequests
<1>2. /\ sock.main = << >> /\ sock.wait = << >> /\ sock.count = 0 /\ sock.waiting = {}
      /\ sock.fin = {} /\ sock.fout = {} /\ sock.ferr = {} /\ sock.top = 0 /\ sock.current = EndOfList
      /\ sock.alarms = {} /\ sock.answers = [n \in 1 .. MaxRequests |-> 0]
  BY DEF SInit
<1>3. sock \in Sock
  <2>1. PICK none : none = << >>
    OBVIOUS
  <2>2. none \in Seq(Request)
    BY <2>1
  <2>3. PICK zero : zero = 0
    OBVIOUS
  <2>4. zero \in Nat /\ zero \in Int
    BY <2>3
  <2>5. PICK zeros : zeros = [n \in 1 .. MaxRequests |-> 0]
    OBVIOUS
  <2>6. zeros \in [1 .. MaxRequests -> Nat]
    BY <2>5
  <2>7. PICK empty : empty = {}
    OBVIOUS
  <2>8. empty \in SUBSET Handle /\ empty \in SUBSET (1 .. MaxRequests)
    BY <2>7
  <2>9. PICK no : no = FALSE
    OBVIOUS
  <2>10. no \in BOOLEAN
    BY <2>9
  <2>11. sock = [main |-> none, wait |-> none, count |-> zero, waiting |-> empty,
                 fin |-> empty, fout |-> empty, ferr |-> empty, rin |-> empty, rout |-> empty, rerr |-> empty,
                 top |-> zero, newtop |-> zero, deleted |-> no, delwalk |-> no,
                 current |-> zero, active |-> zero, alarms |-> empty, answers |-> zeros]
    BY <2>1, <2>3, <2>5, <2>7, <2>9 DEF SInit, EndOfList
  <2> QED BY ONLY <2>2, <2>4, <2>6, <2>8, <2>10, <2>11 DEF Sock
<1>4. Requests(sock.main) = {} /\ Requests(sock.wait) = {} /\ AllOf(sock) = {} /\ Ids(sock) = {}
  BY <1>2 DEF Requests, AllOf, Ids
<1>5. InOrder(sock, asked)
  <2>1. asked = 0
    BY DEF SInit
  <2>2. Sorted(sock.main) /\ Ascending(sock.wait)
    BY <1>2 DEF Sorted, Ascending
  <2>3. \A i \in 1 .. MaxRequests : sock.answers[i] = IF i > asked \/ i \in Ids(sock) THEN 0 ELSE 1
    BY <1>1, <1>2, <2>1
  <2> QED BY <1>2, <1>3, <1>4, <2>2, <2>3 DEF InOrder, Pointers
<1>6. Counted(sock) /\ Tops(sock)
  BY <1>2, <1>4 DEF Counted, Tops, Handles
<1>7. Timed(sock, sent, asked)
  BY <1>2, <1>4 DEF Timed, SInit
<1>8. AllOk(sock, {})
  BY <1>2, <1>4 DEF AllOk, SocketOk, On
<1>9. TypeInv /\ WalkInv
  BY <1>1 DEF SInit, TypeInv, WalkInv, InWalk
<1> QED BY <1>5, <1>6, <1>7, <1>8, <1>9 DEF SockInv, Well

(* Every step keeps the invariant.                                          *)
LEMMA NextHolds ==
  ASSUME GoodRequests, SockInv, [SNext]_svars
  PROVE  SockInv'
<1>1. ASSUME NEW h \in Handle, NEW a \in Ask[h], AskSocket(h, a) PROVE SockInv'
  BY <1>1, AskKeeps
<1>2. ASSUME NEW h \in Handle, NEW b \in BOOLEAN, Flush(h, b) PROVE SockInv'
  BY <1>2, FlushKeeps
<1>3. ASSUME NEW id \in 1 .. MaxRequests, Timeout(id) PROVE SockInv'
  BY <1>3, TimeoutKeeps
<1>4. ASSUME NEW id \in 1 .. MaxRequests, Alarm(id) PROVE SockInv'
  BY <1>4, AlarmKeeps
<1>5. CASE Activity
  BY <1>5, ActivityKeeps
<1>6. CASE Internal
  <2>1. CASE MoveData
    BY <2>1, MoveDataKeeps
  <2>2. CASE ReplyOk
    BY <2>2, ReplyOkKeeps
  <2>3. CASE confirm_socket_connected \/ close_the_socket
    BY <2>3, ConfirmKeeps
  <2>4. CASE Incomplete
    BY <2>4, IncompleteKeeps
  <2>5. CASE CancelAll
    BY <2>5, CancelAllKeeps
  <2>6. CASE WalkEnds
    BY <2>6, WalkEndsKeeps
  <2> QED BY <1>6, <2>1, <2>2, <2>3, <2>4, <2>5, <2>6 DEF Internal
<1>7. CASE Shutdown
  BY <1>7, ShutdownKeeps
<1>8. CASE check_activity_nonblock
  BY <1>8, NonblockKeeps
<1>9. CASE wait_for_activity_blocking
  BY <1>9, BlockingKeeps
<1>10. CASE UNCHANGED svars
  BY <1>10, StutterKeeps
<1> QED BY <1>1, <1>2, <1>3, <1>4, <1>5, <1>6, <1>7, <1>8, <1>9, <1>10 DEF SNext

(* The socket agent keeps its requests and its sets of sockets in order, for *)
(* any sockets and any requests that its users may make of them.            *)
THEOREM SockHolds ==
  ASSUME GoodRequests
  PROVE  SSpec => []SockInv
<1>1. SInit => SockInv
  BY InitHolds
<1>2. SockInv /\ [SNext]_svars => SockInv'
  BY NextHolds
<1> QED BY <1>1, <1>2, PTL DEF SSpec

(* The invariant implies the description of the lists.                      *)
LEMMA OrderAsDescribed ==
  ASSUME GoodRequests, SockInv
  PROVE  ListsAsDescribed
<1>1. /\ sock \in Sock /\ InOrder(sock, asked) /\ Counted(sock)
      /\ DOMAIN sock.main = 1 .. Len(sock.main) /\ Len(sock.main) \in Nat
  BY InvSock, InSock
<1>2. ASSUME NEW p \in DOMAIN sock.main, NEW q \in DOMAIN sock.main,
             p < q, sock.main[p].handle = sock.main[q].handle
      PROVE  /\ \A j \in p .. q : sock.main[j].handle = sock.main[p].handle
             /\ request_is_input(sock.main[p]) => request_is_input(sock.main[q])
             /\ request_is_input(sock.main[p]) \/ request_is_output(sock.main[q])
                  => sock.main[p].id < sock.main[q].id
  <2>1. /\ Kin(sock.main[p], sock.main[q]) => sock.main[p].id < sock.main[q].id
        /\ \A j \in p .. q : sock.main[j].handle = sock.main[p].handle
        /\ request_is_input(sock.main[p]) => request_is_input(sock.main[q])
    BY <1>1, <1>2 DEF InOrder, Sorted
  <2>2. request_is_input(sock.main[p]) \/ request_is_output(sock.main[q]) =>
          Kin(sock.main[p], sock.main[q])
    BY <1>2, <2>1 DEF Kin, request_is_output
  <2> QED BY <2>1, <2>2
<1>3. Pointers(sock) = {EndOfList} \cup {sock.main[p].id : p \in DOMAIN sock.main}
  BY DEF Pointers, Requests
<1>4. state \in {"Socket-Activity", "After-Activity"} => sock.active \in Pointers(sock)
  BY DEF SockInv, WalkInv, InWalk, WalkStands, ActiveBehind, Done, Pointers
<1>5. sock.current \in Pointers(sock)
  BY <1>1 DEF InOrder
<1> QED BY <1>1, <1>2, <1>3, <1>4, <1>5 DEF ListsAsDescribed, WaitersReachable, Counted

(* The invariant implies that what is asked for is watched.                 *)
LEMMA WatchesThem ==
  ASSUME GoodRequests, SockInv
  PROVE  EveryRequestWatched
<1> SUFFICES ASSUME state # "Stopped" PROVE EveryRequestWatched
  BY DEF EveryRequestWatched
<1>1. /\ sock \in Sock /\ InOrder(sock, asked) /\ Counted(sock) /\ Tops(sock)
      /\ AllOf(sock) \subseteq Request
  BY InvSock, InSock
<1>2. GettingEvent \/ InWalk
  BY DEF SockInv, TypeInv, GettingEvent, InWalk
<1>3. GettingEvent => AllOk(sock, {})
  BY DEF SockInv
<1>4. InWalk => AllOk(sock, AtWork)
  BY DEF SockInv, WalkInv, WalkStands
<1>5. \A r \in AllOf(sock) : r.handle \in Handle /\ r.handle \in Nat /\ r.handle \in Handles(sock.main)
  <2>1. \A r \in AllOf(sock) : r.handle \in Handle /\ r.handle \in Nat
    BY <1>1, InRequest
  <2> QED BY <1>1, <2>1 DEF Counted, Handles, AllOf
<1>6. ASSUME NEW r \in AllOf(sock), r.id # sock.active \/ GettingEvent
      PROVE  /\ r.handle \in sock.ferr \cap (IF request_is_input(r) THEN sock.fin ELSE sock.fout)
             /\ r.handle =< Larger(sock.top, sock.newtop)
  <2>1. r \in On(r.handle, AllOf(sock)) /\ r.handle \in Handle
    BY <1>5 DEF On
  <2>2. PICK out : AllOk(sock, out) /\ r \notin out
    <3>1. CASE GettingEvent
      <4>1. r \notin {}
        OBVIOUS
      <4> QED BY <1>3, <3>1, <4>1
    <3>2. CASE ~GettingEvent
      <4>1. r \notin AtWork
        BY <1>6, <3>2 DEF AtWork, Working
      <4> QED BY <1>2, <1>4, <3>2, <4>1
    <3> QED BY <3>1, <3>2
  <2>3. SocketOk(sock, r.handle, out)
    BY <2>1, <2>2 DEF AllOk
  <2>4. r.handle \in sock.ferr \cap (IF request_is_input(r) THEN sock.fin ELSE sock.fout)
    BY <2>1, <2>2, <2>3 DEF SocketOk
  <2>5. r.handle =< sock.top
    BY <1>1, <1>5 DEF Tops
  <2>6. r.handle =< Larger(sock.top, sock.newtop)
    <3>1. PICK h, a, b : h = r.handle /\ a = sock.top /\ b = sock.newtop
      OBVIOUS
    <3>2. h \in Nat /\ a \in Nat /\ b \in Nat /\ h =< a
      BY <1>1, <1>5, <2>5, <3>1 DEF Sock
    <3>3. h =< Larger(a, b)
      BY ONLY <3>2 DEF Larger
    <3> QED BY <3>1, <3>3
  <2> QED BY <2>4, <2>6
<1>7. ASSUME GettingEvent
      PROVE  /\ sock.ferr = Handles(sock.main) /\ sock.ferr = sock.fin \cup sock.fout
             /\ \A h \in sock.ferr : h =< sock.top
  <2>1. sock.fin \subseteq Handle /\ sock.fout \subseteq Handle /\ sock.ferr \subseteq Handle
    BY <1>1 DEF Sock
  <2>2. \A h \in Handle : SocketOk(sock, h, {})
    BY <1>3, <1>7 DEF AllOk
  <2>3. sock.ferr = sock.fin \cup sock.fout
    BY <2>1, <2>2 DEF SocketOk
  <2>4. Handles(sock.main) \subseteq sock.ferr
    <3> SUFFICES ASSUME NEW r \in Requests(sock.main) PROVE r.handle \in sock.ferr
      BY DEF Handles
    <3>1. r \in AllOf(sock)
      BY DEF AllOf
    <3>2. r \in On(r.handle, AllOf(sock)) \ {} /\ r.handle \in Handle
      BY <1>5, <3>1 DEF On
    <3> QED BY <2>2, <3>2 DEF SocketOk
  <2>5. sock.ferr \subseteq Handles(sock.main)
    <3> SUFFICES ASSUME NEW h \in sock.ferr PROVE h \in Handles(sock.main)
      OBVIOUS
    <3>1. \E r \in On(h, AllOf(sock)) : TRUE
      BY <2>1, <2>2, <2>3 DEF SocketOk
    <3> QED BY <1>5, <3>1 DEF On
  <2> QED BY <1>1, <2>3, <2>4, <2>5 DEF Tops
<1> QED BY <1>6, <1>7 DEF EveryRequestWatched

(* RequestsWatched: the lists are as the comment that opens smtsock.c says,  *)
(* and select watches for every request but the one at work.                *)
THEOREM RequestsAreWatched ==
  ASSUME GoodRequests
  PROVE  SSpec => []RequestsWatched
<1>1. SockInv => RequestsWatched
  BY OrderAsDescribed, WatchesThem DEF RequestsWatched
<1> QED BY <1>1, SockHolds, PTL

(* EndsOnce: a request is in a list or has ended, once.                     *)
THEOREM RequestsEndOnce ==
  ASSUME GoodRequests
  PROVE  SSpec => []EndsOnce
<1>1. SockInv => EndsOnce
  <2> SUFFICES ASSUME SockInv, NEW n \in 1 .. asked
               PROVE  sock.answers[n] = IF n \in Ids(sock) THEN 0 ELSE 1
    BY DEF EndsOnce
  <2>1. InOrder(sock, asked) /\ asked \in Nat /\ asked \in 0 .. MaxRequests /\ MaxRequests \in Nat
    BY InvSock DEF GoodRequests
  <2>2. n \in 1 .. MaxRequests /\ ~(n > asked)
    BY <2>1
  <2> QED BY <2>1, <2>2 DEF InOrder
<1> QED BY <1>1, SockHolds, PTL
=============================================================================
