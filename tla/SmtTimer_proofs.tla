-------------------------- MODULE SmtTimer_proofs --------------------------
(***************************************************************************)
(* The asynchronous functions of the SMT kernel and the timer agent, which  *)
(* is all of them that has clients: for any number of functions, polling    *)
(* functions, threads, clients and requests, and any dates, delays, cycles  *)
(* and priorities.                                                          *)
(*                                                                         *)
(* The first part is about SmtAsync alone.  Its inductive invariant says    *)
(* that the two lists hold the same blocks, each in its order, that the     *)
(* pointer into the list by time points into it wherever step 2 follows it, *)
(* and that no reading of the clock lies ahead of the clock.                *)
(*                                                                         *)
(* The second part adds the agent.  The list of requests and the kernel's   *)
(* lists of functions are kept by different code, which runs at different   *)
(* times: the inductive invariant says what each may count on.  No          *)
(* descheduled function is on the list while smt_exec walks it; and unless  *)
(* the agent's own blocking function answers requests too, every request is *)
(* scheduled at its own date, by one block, except while it is being        *)
(* answered.                                                                *)
(***************************************************************************)
EXTENDS SmtTimer, SmtLists_proofs, FiniteSetTheorems

-----------------------------------------------------------------------------
(* Lists.                                                                   *)

(* async_destroy keeps what it does not free, in order and at increasing    *)
(* places: idx says where each node of the shorter list was.                *)
LEMMA WithoutPlaces ==
  ASSUME NEW T, NEW s \in Seq(T), NEW S
  PROVE  \E m \in Nat : \E idx \in [1 .. m -> 1 .. Len(s)] :
           /\ Without(s, S) = [n \in 1 .. m |-> s[idx[n]]]
           /\ \A n \in 1 .. m : s[idx[n]] \notin S
           /\ \A a, b \in 1 .. m : a < b => idx[a] < idx[b]
           /\ \A k \in 1 .. Len(s) : s[k] \notin S => \E n \in 1 .. m : idx[n] = k
<1> DEFINE kept == {k \in DOMAIN s : s[k] \notin S}
           upto(k) == {j \in kept : j =< k}
           m == Cardinality(kept)
           place == [k \in kept |-> Cardinality(upto(k))]
           idx == [n \in 1 .. m |-> CHOOSE k \in kept : Cardinality(upto(k)) = n]
<1>1. /\ Len(s) \in Nat /\ DOMAIN s = 1 .. Len(s)
      /\ kept \subseteq 1 .. Len(s) /\ kept \subseteq Int
  OBVIOUS
<1>2. IsFiniteSet(kept) /\ m \in Nat
  <2>1. IsFiniteSet(1 .. Len(s))
    BY <1>1, FS_Interval
  <2>2. IsFiniteSet(kept)
    <3> HIDE DEF kept
    <3> QED BY <1>1, <2>1, FS_Subset
  <2> QED BY <2>2, FS_CardinalityType
<1>3. \A k \in kept : /\ IsFiniteSet(upto(k)) /\ Cardinality(upto(k)) \in 1 .. m
                      /\ k \in upto(k)
  <2> TAKE k \in kept
  <2>1. upto(k) \subseteq kept /\ k \in upto(k)
    BY <1>1
  <2> HIDE DEF kept, upto
  <2>2. IsFiniteSet(upto(k)) /\ Cardinality(upto(k)) =< m
    BY <1>2, <2>1, FS_Subset
  <2>3. Cardinality(upto(k)) \in Nat /\ Cardinality(upto(k)) # 0
    BY <2>1, <2>2, FS_CardinalityType, FS_EmptySet
  <2> QED BY <1>2, <2>1, <2>2, <2>3
<1>4. \A j, k \in kept : j < k => Cardinality(upto(j)) < Cardinality(upto(k))
  <2> SUFFICES ASSUME NEW j \in kept, NEW k \in kept, j < k
               PROVE  Cardinality(upto(j)) < Cardinality(upto(k))
    OBVIOUS
  <2>1. upto(j) \subseteq upto(k) /\ k \notin upto(j) /\ k \in upto(k)
    BY <1>1
  <2>2. /\ IsFiniteSet(upto(k)) /\ Cardinality(upto(k)) \in Int
        /\ Cardinality(upto(j)) \in Int
    <3> HIDE DEF upto, kept, m
    <3> QED BY <1>2, <1>3
  <2> HIDE DEF upto
  <2> QED BY <2>1, <2>2, FS_Subset
<1>5. place \in Surjection(kept, 1 .. m)
  <2>1. place \in [kept -> 1 .. m]
    BY <1>3
  <2>2. \A j, k \in kept : place[j] = place[k] => j = k
    <3> SUFFICES ASSUME NEW j \in kept, NEW k \in kept, place[j] = place[k]
                 PROVE  j = k
      OBVIOUS
    <3>1. Cardinality(upto(j)) = Cardinality(upto(k))
      OBVIOUS
    <3>3. Cardinality(upto(j)) \in Int
      <4> HIDE DEF upto, kept, m
      <4> QED BY <1>2, <1>3
    <3>2. ~(j < k) /\ ~(k < j)
      <4> HIDE DEF upto
      <4> QED BY <1>4, <3>1, <3>3
    <3> QED BY <1>1, <3>2
  <2>3. IsFiniteSet(1 .. m) /\ Cardinality(1 .. m) = m
    <3> HIDE DEF m
    <3> QED BY <1>2, FS_Interval
  <2> HIDE DEF place, kept
  <2>4. place \in Injection(kept, 1 .. m)
    BY <2>1, <2>2 DEF Injection, IsInjective
  <2> QED BY <2>3, <2>4, FS_Injection
<1>6. \A n \in 1 .. m : \E k \in kept : Cardinality(upto(k)) = n
  <2> TAKE n \in 1 .. m
  <2>1. \E k \in kept : place[k] = n
    <3> HIDE DEF place, kept
    <3> QED BY <1>5 DEF Surjection
  <2> QED BY <2>1
<1>7. \A n \in 1 .. m : idx[n] \in kept /\ Cardinality(upto(idx[n])) = n
  BY <1>6
<1>8. Without(s, S) = [n \in 1 .. m |-> s[idx[n]]]
  BY DEF Without
<1>9. \A a, b \in 1 .. m : a < b => idx[a] < idx[b]
  <2> SUFFICES ASSUME NEW a \in 1 .. m, NEW b \in 1 .. m, a < b PROVE idx[a] < idx[b]
    OBVIOUS
  <2> HIDE DEF idx, upto
  <2>1. idx[a] # idx[b]
    BY <1>7
  <2>2. ~(idx[b] < idx[a])
    <3>1. idx[b] < idx[a] => b < a
      BY <1>4, <1>7
    <3> QED BY <1>2, <3>1
  <2> QED BY <1>1, <1>7, <2>1, <2>2
<1>10. \A k \in 1 .. Len(s) : s[k] \notin S => \E n \in 1 .. m : idx[n] = k
  <2> SUFFICES ASSUME NEW k \in 1 .. Len(s), s[k] \notin S
               PROVE  \E n \in 1 .. m : idx[n] = k
    OBVIOUS
  <2>1. k \in kept
    BY <1>1
  <2> DEFINE n == Cardinality(upto(k))
  <2>2. n \in 1 .. m
    BY <1>3, <2>1
  <2>3. idx[n] \in kept /\ Cardinality(upto(idx[n])) = n
    BY <1>7, <2>2
  <2>4. ~(idx[n] < k) /\ ~(k < idx[n])
    <3> HIDE DEF idx, upto
    <3> QED BY <1>2, <1>4, <2>1, <2>2, <2>3
  <2>5. idx[n] = k
    <3>1. idx[n] \in Int /\ k \in Int
      <4> HIDE DEF idx, n, kept
      <4> QED BY <1>1, <2>1, <2>3
    <3> HIDE DEF idx, n, kept
    <3> QED BY <2>4, <3>1
  <2> QED BY <2>2, <2>5
<1>11. idx \in [1 .. m -> 1 .. Len(s)]
  <2> HIDE DEF kept, upto
  <2> QED BY <1>1, <1>7
<1>12. \A n \in 1 .. m : s[idx[n]] \notin S
  <2> TAKE n \in 1 .. m
  <2>1. idx[n] \in kept
    BY <1>7
  <2> HIDE DEF idx
  <2> QED BY <2>1
<1> HIDE DEF idx, m
<1> QED BY <1>2, <1>8, <1>9, <1>10, <1>11, <1>12

(* ... so it is a list of the other members, none of them twice, and any    *)
(* two of them are in the order they were in.                               *)
LEMMA WithoutKeeps ==
  ASSUME NEW T, NEW s \in Seq(T), NEW S
  PROVE  /\ Without(s, S) \in Seq(T)
         /\ Members(Without(s, S)) = Members(s) \ S
         /\ NoDuplicates(s) => NoDuplicates(Without(s, S))
         /\ \A a, b \in DOMAIN Without(s, S) : a < b =>
              \E c, d \in DOMAIN s : c < d /\ Without(s, S)[a] = s[c] /\ Without(s, S)[b] = s[d]
<1>0. PICK m \in Nat : \E idx \in [1 .. m -> 1 .. Len(s)] :
        /\ Without(s, S) = [n \in 1 .. m |-> s[idx[n]]]
        /\ \A n \in 1 .. m : s[idx[n]] \notin S
        /\ \A a, b \in 1 .. m : a < b => idx[a] < idx[b]
        /\ \A k \in 1 .. Len(s) : s[k] \notin S => \E n \in 1 .. m : idx[n] = k
  BY WithoutPlaces
<1>1. PICK idx \in [1 .. m -> 1 .. Len(s)] :
        /\ Without(s, S) = [n \in 1 .. m |-> s[idx[n]]]
        /\ \A n \in 1 .. m : s[idx[n]] \notin S
        /\ \A a, b \in 1 .. m : a < b => idx[a] < idx[b]
        /\ \A k \in 1 .. Len(s) : s[k] \notin S => \E n \in 1 .. m : idx[n] = k
  BY <1>0
<1> DEFINE w == Without(s, S)
<1>2. Len(s) \in Nat /\ DOMAIN s = 1 .. Len(s) /\ \A k \in 1 .. Len(s) : s[k] \in T
  OBVIOUS
<1>3. \A n \in 1 .. m : idx[n] \in 1 .. Len(s)
  OBVIOUS
<1>4. DOMAIN w = 1 .. m /\ \A n \in 1 .. m : w[n] = s[idx[n]]
  BY <1>1
<1>5. w \in [1 .. m -> T]
  BY <1>1, <1>2, <1>3
<1>6. w \in Seq(T)
  BY <1>5
<1> HIDE DEF w
<1>7. Members(w) = Members(s) \ S
  <2>1. ASSUME NEW y \in Members(w) PROVE y \in Members(s) \ S
    <3>1. PICK n \in 1 .. m : y = w[n]
      BY <1>4, <2>1 DEF Members
    <3> QED BY <3>1, <1>1, <1>2, <1>3, <1>4 DEF Members
  <2>2. ASSUME NEW y \in Members(s) \ S PROVE y \in Members(w)
    <3>1. PICK k \in 1 .. Len(s) : y = s[k]
      BY <1>2, <2>2 DEF Members
    <3>2. PICK n \in 1 .. m : idx[n] = k
      BY <1>1, <2>2, <3>1
    <3> QED BY <3>1, <3>2, <1>4 DEF Members
  <2> QED BY <2>1, <2>2
<1>8. NoDuplicates(s) => NoDuplicates(w)
  <2> SUFFICES ASSUME NoDuplicates(s), NEW a \in 1 .. m, NEW b \in 1 .. m, w[a] = w[b]
               PROVE  a = b
    BY <1>4 DEF NoDuplicates
  <2>1. idx[a] = idx[b]
    BY <1>2, <1>3, <1>4 DEF NoDuplicates
  <2>2. ~(a < b) /\ ~(b < a)
    BY <1>1, <1>3, <2>1
  <2> QED BY <2>2
<1>9. ASSUME NEW a \in DOMAIN w, NEW b \in DOMAIN w, a < b
      PROVE  \E c, d \in DOMAIN s : c < d /\ w[a] = s[c] /\ w[b] = s[d]
  <2>1. a \in 1 .. m /\ b \in 1 .. m
    BY <1>4
  <2>2. idx[a] \in DOMAIN s /\ idx[b] \in DOMAIN s /\ idx[a] < idx[b]
    BY <1>1, <1>2, <1>3, <1>9, <2>1
  <2> QED BY <1>4, <2>1, <2>2
<1> QED BY <1>6, <1>7, <1>8, <1>9 DEF w

(* Two nodes of a list x was linked into are in the order they were in, or  *)
(* one of them is x and the other was on its side of the slot.              *)
LEMMA LinkBeforeOrder ==
  ASSUME NEW T, NEW s \in Seq(T), NEW x \in T, NEW k \in 1 .. Len(s) + 1,
         NEW a \in DOMAIN LinkBefore(s, k, x), NEW b \in DOMAIN LinkBefore(s, k, x), a < b
  PROVE  \/ \E c, d \in DOMAIN s : /\ c < d
                                   /\ LinkBefore(s, k, x)[a] = s[c]
                                   /\ LinkBefore(s, k, x)[b] = s[d]
         \/ /\ LinkBefore(s, k, x)[a] = x
            /\ \E d \in DOMAIN s : d >= k /\ LinkBefore(s, k, x)[b] = s[d]
         \/ /\ LinkBefore(s, k, x)[b] = x
            /\ \E c \in DOMAIN s : c < k /\ LinkBefore(s, k, x)[a] = s[c]
<1> DEFINE l == LinkBefore(s, k, x)
<1>1. Len(s) \in Nat /\ DOMAIN s = 1 .. Len(s) /\ k \in 1 .. Len(s) + 1
  OBVIOUS
<1>2. /\ DOMAIN l = 1 .. Len(s) + 1
      /\ \A n \in 1 .. Len(s) + 1 :
           l[n] = IF n < k THEN s[n] ELSE IF n = k THEN x ELSE s[n - 1]
  BY DEF LinkBefore
<1> HIDE DEF l
<1> SUFFICES \/ \E c, d \in DOMAIN s : c < d /\ l[a] = s[c] /\ l[b] = s[d]
             \/ l[a] = x /\ \E d \in DOMAIN s : d >= k /\ l[b] = s[d]
             \/ l[b] = x /\ \E c \in DOMAIN s : c < k /\ l[a] = s[c]
  BY DEF l
<1>3. a \in 1 .. Len(s) + 1 /\ b \in 1 .. Len(s) + 1 /\ a < b
  BY <1>2 DEF l
<1>4. CASE b < k
  <2>1. a \in DOMAIN s /\ b \in DOMAIN s /\ l[a] = s[a] /\ l[b] = s[b]
    BY <1>1, <1>2, <1>3, <1>4
  <2> QED BY <1>3, <2>1
<1>5. CASE b = k
  <2>1. a \in DOMAIN s /\ a < k /\ l[a] = s[a] /\ l[b] = x
    BY <1>1, <1>2, <1>3, <1>5
  <2> QED BY <2>1
<1>6. CASE b > k
  <2>1. b - 1 \in DOMAIN s /\ b - 1 >= k /\ l[b] = s[b - 1]
    BY <1>1, <1>2, <1>3, <1>6
  <2>2. CASE a < k
    <3>1. a \in DOMAIN s /\ a < b - 1 /\ l[a] = s[a]
      BY <1>1, <1>2, <1>3, <1>6, <2>2
    <3> QED BY <2>1, <3>1
  <2>3. CASE a = k
    BY <1>1, <1>2, <1>3, <2>1, <2>3
  <2>4. CASE a > k
    <3>1. a - 1 \in DOMAIN s /\ a - 1 < b - 1 /\ l[a] = s[a - 1]
      BY <1>1, <1>2, <1>3, <1>6, <2>4
    <3> QED BY <2>1, <3>1
  <2> QED BY <1>1, <1>3, <2>2, <2>3, <2>4
<1> QED BY <1>1, <1>3, <1>4, <1>5, <1>6

-----------------------------------------------------------------------------
(* The invariant.                                                           *)

ListsOK ==
  /\ byTime \in Seq(Block) /\ byPriority \in Seq(Block)
  /\ entry \in [Block -> Async]
  /\ OrdersAgree /\ OrdersSorted

WalkOK ==
  /\ async \in Block \cup {ListHead}
  /\ pc = "due" => async \in Members(byTime) \cup {ListHead}
  /\ In("async") \/ In("idle") => async \in Members(byTime)

ClockOK ==
  /\ clock \in 0 .. MaxClock /\ cur_date \in 0 .. MaxClock
  /\ cur_date =< clock

AInv == ListsOK /\ WalkOK /\ ClockOK

(* What the lists have in common, with what the blocks of them hold: enough *)
(* for the two orders to be compared.                                        *)
LEMMA EntryOf ==
  ASSUME ListsOK
  PROVE  /\ Len(byTime) \in Nat /\ DOMAIN byTime = 1 .. Len(byTime)
         /\ Len(byPriority) \in Nat /\ DOMAIN byPriority = 1 .. Len(byPriority)
         /\ \A b \in Block : /\ entry[b].fn \in Fn \cup {None}
                             /\ entry[b].priority \in Nat /\ entry[b].date \in Nat
         /\ \A k \in DOMAIN byTime : byTime[k] \in Block /\ byTime[k] \in Members(byTime)
         /\ \A k \in DOMAIN byPriority :
              byPriority[k] \in Block /\ byPriority[k] \in Members(byTime)
<1>1. /\ Len(byTime) \in Nat /\ DOMAIN byTime = 1 .. Len(byTime)
      /\ Len(byPriority) \in Nat /\ DOMAIN byPriority = 1 .. Len(byPriority)
      /\ \A k \in DOMAIN byTime : byTime[k] \in Block
      /\ \A k \in DOMAIN byPriority : byPriority[k] \in Block
  BY DEF ListsOK
<1>2. \A b \in Block : /\ entry[b].fn \in Fn \cup {None}
                       /\ entry[b].priority \in Nat /\ entry[b].date \in Nat
  BY DEF ListsOK, Async
<1>3. /\ \A k \in DOMAIN byTime : byTime[k] \in Members(byTime)
      /\ \A k \in DOMAIN byPriority : byPriority[k] \in Members(byTime)
  BY DEF ListsOK, OrdersAgree, Members
<1> QED BY <1>1, <1>2, <1>3

(* The scans of schedule_async_nonblock stop somewhere.                      *)
LEMMA TimeSlotExists ==
  ASSUME ListsOK, NEW d \in Nat
  PROVE  /\ TimeSlot(d) \in 1 .. Len(byTime) + 1
         /\ \A j \in 1 .. TimeSlot(d) - 1 : entry[byTime[j]].date < d
         /\ TimeSlot(d) \in DOMAIN byTime => entry[byTime[TimeSlot(d)]].date >= d
<1> DEFINE Later == {k \in 1 .. Len(byTime) + 1 :
                       k \in DOMAIN byTime => entry[byTime[k]].date >= d}
<1>1. /\ Len(byTime) \in Nat /\ DOMAIN byTime = 1 .. Len(byTime)
      /\ \A k \in 1 .. Len(byTime) : entry[byTime[k]].date \in Nat
  BY EntryOf
<1>2. Len(byTime) + 1 \in Later /\ Later \subseteq Nat
  BY <1>1
<1>3. PICK k \in Later : \A j \in Later : k <= j
  <2> HIDE DEF Later
  <2> QED BY <1>2, SmallestNumber
<1>4. \A j \in 1 .. k - 1 : entry[byTime[j]].date < d
  <2> TAKE j \in 1 .. k - 1
  <2>1. j \in 1 .. Len(byTime) /\ ~(k <= j)
    BY <1>1, <1>2
  <2>2. j \notin Later
    BY <1>3, <2>1
  <2> QED BY <1>1, <2>1, <2>2
<1> QED BY <1>4 DEF TimeSlot

LEMMA PrioritySlotExists ==
  ASSUME ListsOK, NEW p \in Nat, NEW d \in Nat
  PROVE  /\ PrioritySlot(p, d) \in 1 .. Len(byPriority) + 1
         /\ \A j \in 1 .. PrioritySlot(p, d) - 1 : ~Precedes(p, d, entry[byPriority[j]])
         /\ PrioritySlot(p, d) \in DOMAIN byPriority
              => Precedes(p, d, entry[byPriority[PrioritySlot(p, d)]])
<1> DEFINE Behind == {k \in 1 .. Len(byPriority) + 1 :
                        k \in DOMAIN byPriority => Precedes(p, d, entry[byPriority[k]])}
<1>1. Len(byPriority) \in Nat /\ DOMAIN byPriority = 1 .. Len(byPriority)
  BY EntryOf
<1>2. Len(byPriority) + 1 \in Behind /\ Behind \subseteq Nat
  BY <1>1
<1>3. PICK k \in Behind : \A j \in Behind : k <= j
  <2> HIDE DEF Behind
  <2> QED BY <1>2, SmallestNumber
<1>4. \A j \in 1 .. k - 1 : ~Precedes(p, d, entry[byPriority[j]])
  <2> TAKE j \in 1 .. k - 1
  <2>1. j \in 1 .. Len(byPriority) + 1 /\ j \in DOMAIN byPriority /\ ~(k <= j)
    BY <1>1, <1>2
  <2>2. j \notin Behind
    BY <1>3, <2>1
  <2> QED BY <2>1, <2>2
<1> QED BY <1>4 DEF PrioritySlot

(* async_destroy takes functions out of both lists, in the same order.       *)
LEMMA DestroyKeeps ==
  ASSUME ListsOK, NEW S, Destroy(S)
  PROVE  ListsOK' /\ Members(byTime)' = Members(byTime) \ S
<1>1. /\ byTime' \in Seq(Block) /\ Members(byTime)' = Members(byTime) \ S
      /\ NoDuplicates(byTime)'
      /\ \A a, b \in DOMAIN byTime' : a < b =>
           \E c, d \in DOMAIN byTime : c < d /\ byTime'[a] = byTime[c] /\ byTime'[b] = byTime[d]
  <2>1. byTime' = Without(byTime, S)
    BY DEF Destroy
  <2>2. byTime \in Seq(Block) /\ NoDuplicates(byTime)
    BY DEF ListsOK, OrdersAgree
  <2> QED BY <2>1, <2>2, WithoutKeeps
<1>2. /\ byPriority' \in Seq(Block) /\ Members(byPriority)' = Members(byPriority) \ S
      /\ NoDuplicates(byPriority)'
      /\ \A a, b \in DOMAIN byPriority' : a < b =>
           \E c, d \in DOMAIN byPriority :
              c < d /\ byPriority'[a] = byPriority[c] /\ byPriority'[b] = byPriority[d]
  <2>1. byPriority' = Without(byPriority, S)
    BY DEF Destroy
  <2>2. byPriority \in Seq(Block) /\ NoDuplicates(byPriority)
    BY DEF ListsOK, OrdersAgree
  <2> QED BY <2>1, <2>2, WithoutKeeps
<1>3. OrdersAgree'
  BY <1>1, <1>2 DEF ListsOK, OrdersAgree
<1>4. entry' \in [Block -> Async]
  BY DEF Destroy, ListsOK, Free, Async
<1>5. /\ \A a \in DOMAIN byTime' : byTime'[a] \in Block /\ byTime'[a] \notin S
      /\ \A a \in DOMAIN byPriority' : byPriority'[a] \in Block /\ byPriority'[a] \notin S
  <2>1. /\ \A a \in DOMAIN byTime' : byTime'[a] \in Members(byTime)'
        /\ \A a \in DOMAIN byPriority' : byPriority'[a] \in Members(byPriority)'
    BY DEF Members
  <2> QED BY <1>1, <1>2, <2>1
<1>6. \A b \in Block : b \notin S => entry'[b] = entry[b]
  BY DEF Destroy
<1>7. \A a, b \in DOMAIN byTime' :
        a < b => entry'[byTime'[a]].date =< entry'[byTime'[b]].date
  BY <1>1, <1>5, <1>6 DEF ListsOK, OrdersSorted
<1>8. \A a, b \in DOMAIN byPriority' :
        LET x == entry'[byPriority'[a]]
            y == entry'[byPriority'[b]]
        IN  a < b => x.priority > y.priority \/ (x.priority = y.priority /\ x.date =< y.date)
  BY <1>2, <1>5, <1>6 DEF ListsOK, OrdersSorted
<1>9. OrdersSorted'
  BY <1>7, <1>8 DEF OrdersSorted
<1> QED BY <1>1, <1>2, <1>3, <1>4, <1>9 DEF ListsOK

(* A descheduled function keeps its date and its priority.                   *)
LEMMA NullifyKeeps ==
  ASSUME ListsOK, NEW F, Nullify(F)
  PROVE  ListsOK' /\ Members(byTime)' = Members(byTime)
<1>1. byTime' = byTime /\ byPriority' = byPriority
  BY DEF Nullify
<1>2. \A b \in Block : /\ entry'[b] \in Async
                       /\ entry'[b].date = entry[b].date
                       /\ entry'[b].priority = entry[b].priority
  BY DEF Nullify, ListsOK, Async
<1>3. entry' \in [Block -> Async]
  BY <1>2 DEF Nullify
<1>4. OrdersAgree'
  BY <1>1 DEF ListsOK, OrdersAgree
<1>5. OrdersSorted'
  <2>1. /\ \A k \in DOMAIN byTime : byTime[k] \in Block
        /\ \A k \in DOMAIN byPriority : byPriority[k] \in Block
    BY EntryOf
  <2>2. \A k \in DOMAIN byTime : entry'[byTime'[k]].date = entry[byTime[k]].date
    BY <1>1, <1>2, <2>1
  <2>3. \A k \in DOMAIN byPriority :
          /\ entry'[byPriority'[k]].date = entry[byPriority[k]].date
          /\ entry'[byPriority'[k]].priority = entry[byPriority[k]].priority
    BY <1>1, <1>2, <2>1
  <2> QED BY <1>1, <2>2, <2>3 DEF ListsOK, OrdersSorted
<1> QED BY <1>1, <1>3, <1>4, <1>5 DEF ListsOK, Members

(* schedule_async_nonblock adds the function to both lists, in both orders.  *)
LEMMA InsertKeeps ==
  ASSUME ListsOK, NEW b \in Block \ Members(byTime), NEW f \in Fn, NEW p \in Nat, NEW d \in Nat,
         Insert(b, f, p, d)
  PROVE  ListsOK' /\ Members(byTime)' = Members(byTime) \cup {b}
<1> DEFINE at == TimeSlot(d)
           pt == PrioritySlot(p, d)
<1>1. /\ at \in 1 .. Len(byTime) + 1
      /\ \A j \in 1 .. at - 1 : entry[byTime[j]].date < d
      /\ at \in DOMAIN byTime => entry[byTime[at]].date >= d
  BY TimeSlotExists
<1>2. /\ pt \in 1 .. Len(byPriority) + 1
      /\ \A j \in 1 .. pt - 1 : ~Precedes(p, d, entry[byPriority[j]])
      /\ pt \in DOMAIN byPriority => Precedes(p, d, entry[byPriority[pt]])
  BY PrioritySlotExists
<1>3. byTime' = LinkBefore(byTime, at, b) /\ byPriority' = LinkBefore(byPriority, pt, b)
  BY DEF Insert
<1>4. /\ entry' \in [Block -> Async]
      /\ entry'[b].date = d /\ entry'[b].priority = p
      /\ \A c \in Block : c # b => entry'[c] = entry[c]
  BY DEF Insert, ListsOK, Async
<1>5. /\ byTime \in Seq(Block) /\ byPriority \in Seq(Block)
      /\ NoDuplicates(byTime) /\ NoDuplicates(byPriority)
      /\ b \notin Members(byTime) /\ b \notin Members(byPriority)
      /\ Members(byTime) = Members(byPriority)
  BY DEF ListsOK, OrdersAgree
<1> HIDE DEF at, pt
<1>6. /\ byTime' \in Seq(Block)
      /\ Members(byTime)' = Members(byTime) \cup {b}
      /\ NoDuplicates(byTime)'
  BY <1>1, <1>3, <1>5, LinkBeforeMembers
<1>7. /\ byPriority' \in Seq(Block)
      /\ Members(byPriority)' = Members(byPriority) \cup {b}
      /\ NoDuplicates(byPriority)'
  BY <1>2, <1>3, <1>5, LinkBeforeMembers
<1>8. OrdersAgree'
  BY <1>5, <1>6, <1>7 DEF OrdersAgree
<1>9. /\ Len(byTime) \in Nat /\ DOMAIN byTime = 1 .. Len(byTime)
      /\ Len(byPriority) \in Nat /\ DOMAIN byPriority = 1 .. Len(byPriority)
      /\ \A k \in DOMAIN byTime : byTime[k] \in Block /\ byTime[k] # b
      /\ \A k \in DOMAIN byPriority : byPriority[k] \in Block /\ byPriority[k] # b
      /\ \A c \in Block : entry[c].priority \in Nat /\ entry[c].date \in Nat
  BY EntryOf
<1>10. ASSUME NEW m \in DOMAIN byTime', NEW n \in DOMAIN byTime', m < n
       PROVE  entry'[byTime'[m]].date =< entry'[byTime'[n]].date
  <2>1. \A c \in DOMAIN byTime : c < at => entry[byTime[c]].date < d
    BY <1>1, <1>9
  <2>2. \A c \in DOMAIN byTime : c >= at => entry[byTime[c]].date >= d
    <3> TAKE c \in DOMAIN byTime
    <3> HAVE c >= at
    <3>1. at \in DOMAIN byTime /\ (c = at \/ at < c)
      BY <1>1, <1>9
    <3>2. entry[byTime[at]].date =< entry[byTime[c]].date
      BY <3>1, <1>9 DEF ListsOK, OrdersSorted
    <3> QED BY <1>1, <1>9, <3>1, <3>2
  <2>3. \/ \E c, e \in DOMAIN byTime : c < e /\ byTime'[m] = byTime[c] /\ byTime'[n] = byTime[e]
        \/ byTime'[m] = b /\ \E e \in DOMAIN byTime : e >= at /\ byTime'[n] = byTime[e]
        \/ byTime'[n] = b /\ \E c \in DOMAIN byTime : c < at /\ byTime'[m] = byTime[c]
    BY <1>1, <1>3, <1>5, <1>10, LinkBeforeOrder
  <2>4. CASE \E c, e \in DOMAIN byTime : c < e /\ byTime'[m] = byTime[c] /\ byTime'[n] = byTime[e]
    BY <1>4, <1>9, <2>4 DEF ListsOK, OrdersSorted
  <2>5. CASE byTime'[m] = b /\ \E e \in DOMAIN byTime : e >= at /\ byTime'[n] = byTime[e]
    BY <1>4, <1>9, <2>2, <2>5
  <2>6. CASE byTime'[n] = b /\ \E c \in DOMAIN byTime : c < at /\ byTime'[m] = byTime[c]
    BY <1>4, <1>9, <2>1, <2>6
  <2> QED BY <2>3, <2>4, <2>5, <2>6
<1> DEFINE Before(x, y) == \/ x.priority > y.priority
                           \/ x.priority = y.priority /\ x.date =< y.date
<1>11. ASSUME NEW m \in DOMAIN byPriority', NEW n \in DOMAIN byPriority', m < n
       PROVE  Before(entry'[byPriority'[m]], entry'[byPriority'[n]])
  <2> DEFINE old(k) == entry[byPriority[k]]
  <2>0. \A c, e \in DOMAIN byPriority : c < e => Before(old(c), old(e))
    BY DEF ListsOK, OrdersSorted
  <2>1. \A c \in DOMAIN byPriority :
          c < pt => old(c).priority > p \/ (old(c).priority = p /\ old(c).date < d)
    BY <1>2, <1>9 DEF Precedes
  <2>2. \A c \in DOMAIN byPriority :
          c >= pt => old(c).priority < p \/ (old(c).priority = p /\ old(c).date >= d)
    <3> TAKE c \in DOMAIN byPriority
    <3> HAVE c >= pt
    <3>1. pt \in DOMAIN byPriority /\ (c = pt \/ pt < c)
      BY <1>2, <1>9
    <3>2. c = pt \/ Before(old(pt), old(c))
      BY <3>1, <2>0
    <3>3. old(pt).priority < p \/ (old(pt).priority = p /\ old(pt).date >= d)
      BY <1>2, <3>1 DEF Precedes
    <3> QED BY <1>9, <3>1, <3>2, <3>3
  <2>3. \/ \E c, e \in DOMAIN byPriority :
             c < e /\ byPriority'[m] = byPriority[c] /\ byPriority'[n] = byPriority[e]
        \/ /\ byPriority'[m] = b
           /\ \E e \in DOMAIN byPriority : e >= pt /\ byPriority'[n] = byPriority[e]
        \/ /\ byPriority'[n] = b
           /\ \E c \in DOMAIN byPriority : c < pt /\ byPriority'[m] = byPriority[c]
    BY <1>2, <1>3, <1>5, <1>11, LinkBeforeOrder
  <2>4. ASSUME NEW c \in DOMAIN byPriority, NEW e \in DOMAIN byPriority, c < e,
               byPriority'[m] = byPriority[c], byPriority'[n] = byPriority[e]
        PROVE  Before(entry'[byPriority'[m]], entry'[byPriority'[n]])
    <3>1. entry'[byPriority'[m]] = old(c) /\ entry'[byPriority'[n]] = old(e)
      BY <1>4, <1>9, <2>4
    <3> QED BY <2>0, <2>4, <3>1
  <2>5. ASSUME byPriority'[m] = b, NEW e \in DOMAIN byPriority, e >= pt,
               byPriority'[n] = byPriority[e]
        PROVE  Before(entry'[byPriority'[m]], entry'[byPriority'[n]])
    <3>1. entry'[byPriority'[n]] = old(e)
      BY <1>4, <1>9, <2>5
    <3> QED BY <1>4, <1>9, <2>2, <2>5, <3>1
  <2>6. ASSUME byPriority'[n] = b, NEW c \in DOMAIN byPriority, c < pt,
               byPriority'[m] = byPriority[c]
        PROVE  Before(entry'[byPriority'[m]], entry'[byPriority'[n]])
    <3>1. entry'[byPriority'[m]] = old(c)
      BY <1>4, <1>9, <2>6
    <3> QED BY <1>4, <1>9, <2>1, <2>6, <3>1
  <2> HIDE DEF Before
  <2> QED BY <2>3, <2>4, <2>5, <2>6
<1>12. OrdersSorted'
  BY <1>10, <1>11 DEF OrdersSorted
<1> QED BY <1>4, <1>6, <1>7, <1>8, <1>12 DEF ListsOK

LEMMA QuietLists ==
  ASSUME ListsOK, UNCHANGED <<byTime, byPriority, entry>>
  PROVE  ListsOK' /\ Members(byTime)' = Members(byTime)
BY DEF ListsOK, OrdersAgree, OrdersSorted, Members, NoDuplicates

(* request_all_threads_shutdown empties the lists.                           *)
LEMMA ShutdownKeeps ==
  ASSUME ListsOK
  PROVE  /\ RequestAllThreadsShutdown => ListsOK' /\ Members(byTime)' = {}
         /\ ShutdownIfRequested => ListsOK'
<1>1. ASSUME RequestAllThreadsShutdown PROVE ListsOK' /\ Members(byTime)' = {}
  <2>1. Destroy(Members(byTime))
    BY <1>1 DEF RequestAllThreadsShutdown
  <2>2. ListsOK' /\ Members(byTime)' = Members(byTime) \ Members(byTime)
    BY <2>1, DestroyKeeps
  <2> QED BY <2>2
<1>2. ASSUME ShutdownIfRequested, ~shutdown_request PROVE ListsOK'
  <2>1. UNCHANGED <<byTime, byPriority, entry>>
    BY <1>2 DEF ShutdownIfRequested
  <2> QED BY <2>1, QuietLists
<1> QED BY <1>1, <1>2 DEF ShutdownIfRequested

(* The walk goes on to another node of the list, or to the head.             *)
LEMMA NextOfIs ==
  ASSUME ListsOK, NEW b \in Members(byTime)
  PROVE  /\ NextOf(byTime, b) \in (Members(byTime) \ {b}) \cup {ListHead}
         /\ PrevOf(byTime, b) \in Members(byTime) \cup {ListHead}
<1>1. /\ byTime \in Seq(Block) /\ NoDuplicates(byTime)
      /\ Len(byTime) \in Nat /\ DOMAIN byTime = 1 .. Len(byTime)
      /\ \A k \in DOMAIN byTime : byTime[k] \in Members(byTime)
  BY EntryOf DEF ListsOK, OrdersAgree
<1>2. PlaceOf(byTime, b) \in 1 .. Len(byTime) /\ byTime[PlaceOf(byTime, b)] = b
  BY <1>1, PlaceOfMember
<1> DEFINE at == PlaceOf(byTime, b)
           n == Len(byTime)
<1>3. n \in Nat /\ DOMAIN byTime = 1 .. n /\ at \in 1 .. n /\ byTime[at] = b
  BY <1>1, <1>2
<1> HIDE DEF at, n
<1>4. at # n => at + 1 \in DOMAIN byTime /\ byTime[at + 1] # b
  <2> HAVE at # n
  <2>1. at + 1 \in DOMAIN byTime /\ at \in DOMAIN byTime /\ at + 1 # at
    BY <1>3
  <2> QED BY <1>1, <1>3, <2>1 DEF NoDuplicates
<1>5. at # 1 => at - 1 \in DOMAIN byTime
  BY <1>3
<1> QED BY <1>1, <1>4, <1>5 DEF NextOf, PrevOf, at, n

LEMMA FirstIs ==
  ASSUME NEW T, NEW s \in Seq(T)
  PROVE  First(s) \in Members(s) \cup {ListHead}
BY DEF First, Members

LEMMA MembersAreBlocks ==
  ASSUME ListsOK PROVE Members(byTime) \subseteq Block
BY EntryOf DEF Members

-----------------------------------------------------------------------------
(* The steps.                                                               *)

LEMMA InitAInv == ASSUME Init PROVE AInv
<1> USE AsyncAssumption DEF Init
<1>1. byTime \in Seq(Block) /\ byPriority \in Seq(Block)
  OBVIOUS
<1>2. DOMAIN byTime = {} /\ DOMAIN byPriority = {}
  OBVIOUS
<1>3. OrdersAgree /\ OrdersSorted
  BY <1>2 DEF OrdersAgree, OrdersSorted, NoDuplicates, Members
<1>4. entry \in [Block -> Async]
  BY DEF Free, Async
<1>5. WalkOK
  BY DEF WalkOK, In
<1>6. ClockOK
  BY DEF ClockOK
<1> QED BY <1>1, <1>3, <1>4, <1>5, <1>6 DEF AInv, ListsOK

(* Where smt_exec does not follow the pointer into the list by time.         *)
LEMMA WalkElsewhere ==
  ASSUME async' \in Block \cup {ListHead}, pc' # "due", ~In("async")', ~In("idle")'
  PROVE  WalkOK'
BY DEF WalkOK

(* No step of smt_exec reads a date ahead of the clock.                      *)
LEMMA ClockKept ==
  ASSUME ClockOK
  PROVE  /\ Exec \/ SmtExec \/ UserCall \/ UNCHANGED vars => ClockOK'
         /\ Tick => ClockOK'
<1> USE AsyncAssumption
<1>1. ASSUME NEW d, Read(d) PROVE cur_date' = cur_date \/ cur_date' = clock
  BY <1>1 DEF Read, Reading
<1>2. DueCall \/ DueOutranked => cur_date' = cur_date \/ cur_date' = clock
  BY <1>1 DEF DueCall, DueOutranked
<1>3. Exec \/ SmtExec \/ UserCall \/ UNCHANGED vars
        => cur_date' \in {cur_date, clock, 0}
  BY <1>2 DEF Exec, LoopEnd, PollRemove, PollCountDown, PollCall, PollReturn, PollFails, StartAsync,
     DueEnd, AsyncReturn, AsyncFails, IdleCall, IdleSkip, IdleDangles, IdleEnd, StartDialog,
     FirstEvent, Module, ReturnPlain, ReturnRecycled, ReturnBroken, ListEnd, DialogEnd, WaitCall,
     NoWait, WaitReturn, WaitReturns, SmtExec, UserCall, ScheduleAsync, ScheduleAsyncFails,
     DescheduleAsync, DeschedulePolling, SchedulePolling, WakeThread, RegisterBlocking, SmtShutdown,
     MayCall, reading, local, vars
<1>4. Exec \/ SmtExec \/ UserCall \/ UNCHANGED vars => clock' = clock
  BY DEF Exec, LoopEnd, PollRemove, PollCountDown, PollCall, PollReturn, PollFails, StartAsync,
     DueCall, DueOutranked, DueEnd, AsyncReturn, AsyncFails, IdleCall, IdleSkip, IdleDangles,
     IdleEnd, StartDialog, FirstEvent, Module, ReturnPlain, ReturnRecycled, ReturnBroken, ListEnd,
     DialogEnd, WaitCall, NoWait, WaitReturn, WaitReturns, SmtExec, UserCall, ScheduleAsync,
     ScheduleAsyncFails, DescheduleAsync, DeschedulePolling, SchedulePolling, WakeThread,
     RegisterBlocking, SmtShutdown, MayCall, Steady, Return, vars
<1>5. Exec \/ SmtExec \/ UserCall \/ UNCHANGED vars => ClockOK'
  BY <1>3, <1>4 DEF ClockOK
<1>6. ASSUME Tick PROVE ClockOK'
  <2>1. cur_date' = cur_date /\ clock' = clock + 1 /\ clock < MaxClock
    BY <1>6 DEF Tick, local, reading
  <2> QED BY <2>1 DEF ClockOK
<1> QED BY <1>5, <1>6

(* The steps of smt_exec that leave the functions as they are and do not     *)
(* follow the pointer.                                                       *)
LEMMA QuietSteps ==
  ASSUME ListsOK, WalkOK,
         \/ LoopEnd \/ PollRemove \/ PollCountDown \/ PollCall \/ PollReturn \/ DueEnd
         \/ IdleDangles \/ IdleEnd \/ FirstEvent \/ Module \/ ReturnPlain \/ ReturnRecycled
         \/ ReturnBroken \/ ListEnd \/ WaitCall \/ NoWait \/ SmtExec
  PROVE  ListsOK' /\ WalkOK'
<1>1. UNCHANGED <<byTime, byPriority, entry>> /\ async' \in {async, ListHead}
  BY DEF LoopEnd, PollRemove, PollCountDown, PollCall, PollReturn, DueEnd, IdleDangles, IdleEnd,
     FirstEvent, Module, ReturnPlain, ReturnRecycled, ReturnBroken, ListEnd, WaitCall, NoWait,
     SmtExec, lists
<1>2. /\ pc' # "due" /\ pc' \in {"call", "main", "polls", "idle", "freed_read", "dialog",
                                 "modules", "dialog_end"}
      /\ pc' = "call" => caller' \in {"poll", "module", "wait"}
  BY DEF LoopEnd, PollRemove, PollCountDown, PollCall, PollReturn, DueEnd, IdleDangles, IdleEnd,
     FirstEvent, Module, ReturnPlain, ReturnRecycled, ReturnBroken, ListEnd, WaitCall, NoWait,
     SmtExec, Goto, Enter, Return
<1>3. WalkOK'
  <2>1. async' \in Block \cup {ListHead} /\ ~In("async")' /\ ~In("idle")'
    BY <1>1, <1>2 DEF WalkOK, In
  <2> QED BY <1>2, <2>1, WalkElsewhere
<1> QED BY <1>1, <1>3, QuietLists

(* The steps that may shut the program down there.                           *)
LEMMA ShutdownSteps ==
  ASSUME ListsOK, WalkOK,
         \/ PollFails \/ AsyncFails \/ StartDialog \/ DialogEnd
         \/ \E c \in Int : WaitReturns(c)
  PROVE  ListsOK' /\ WalkOK'
<1>1. ListsOK'
  <2>1. RequestAllThreadsShutdown \/ ShutdownIfRequested \/ UNCHANGED <<byTime, byPriority, entry>>
    BY DEF PollFails, AsyncFails, StartDialog, DialogEnd, WaitReturns
  <2> QED BY <2>1, ShutdownKeeps, QuietLists
<1>2. async' \in Block \cup {ListHead}
  <2>1. CASE AsyncFails
    <3>1. async \in Members(byTime)
      BY <2>1 DEF AsyncFails, WalkOK, In
    <3>2. PrevOf(byTime, async) \in Block \cup {ListHead}
      BY <3>1, NextOfIs, MembersAreBlocks
    <3> QED BY <2>1, <3>2 DEF AsyncFails
  <2>2. CASE PollFails \/ StartDialog \/ DialogEnd \/ \E c \in Int : WaitReturns(c)
    BY <2>2 DEF PollFails, StartDialog, DialogEnd, WaitReturns, WalkOK
  <2> QED BY <2>1, <2>2
<1>3. pc' \in {"polls", "idle", "dialog", "dialog_end", "modules", "loop", "wait", "main"}
  BY DEF PollFails, AsyncFails, StartDialog, DialogEnd, WaitReturns, Goto, Return
<1>4. WalkOK'
  <2>1. ~In("async")' /\ ~In("idle")' /\ pc' # "due"
    BY <1>3 DEF In
  <2> QED BY <1>2, <2>1, WalkElsewhere
<1> QED BY <1>1, <1>4

(* The walk.  Each step from one node to the next.                           *)
LEMMA WalkSteps ==
  ASSUME ListsOK, WalkOK,
         StartAsync \/ DueCall \/ DueOutranked \/ AsyncReturn \/ IdleCall \/ IdleSkip
  PROVE  ListsOK' /\ WalkOK'
<1>1. CASE StartAsync
  <2>1. ListsOK'
    <3>1. RequestAllThreadsShutdown \/ \E S : Destroy(S)
      BY <1>1 DEF StartAsync
    <3> QED BY <3>1, ShutdownKeeps, DestroyKeeps
  <2>2. byTime' \in Seq(Block)
    BY <2>1 DEF ListsOK
  <2>3. First(byTime') \in Members(byTime') \cup {ListHead}
    BY <2>2, FirstIs
  <2>4. async' \in Members(byTime)' \cup {ListHead} /\ pc' = "due"
    BY <1>1, <2>3 DEF StartAsync, Goto
  <2>5. Members(byTime)' \subseteq Block
    <3>1. \A k \in DOMAIN byTime' : byTime'[k] \in Block
      BY <2>2
    <3> QED BY <3>1 DEF Members
  <2> QED BY <2>1, <2>4, <2>5 DEF WalkOK, In
<1>2. CASE DueCall \/ IdleCall
  <2>1. UNCHANGED <<byTime, byPriority, entry>> /\ async' = async
    BY <1>2 DEF DueCall, IdleCall, lists
  <2>2. async \in Members(byTime) /\ pc' # "due"
    BY <1>2 DEF DueCall, IdleCall, WalkOK, Goto, Enter
  <2>3. ListsOK' /\ Members(byTime)' = Members(byTime)
    BY <2>1, QuietLists
  <2> QED BY <2>1, <2>2, <2>3 DEF WalkOK
<1>3. CASE DueOutranked
  <2>1. UNCHANGED <<byTime, byPriority, entry>> /\ async' = NextOf(byTime, async) /\ pc' = "due"
    BY <1>3 DEF DueOutranked, lists, Goto
  <2>2. async \in Members(byTime)
    BY <1>3 DEF DueOutranked, WalkOK
  <2>3. ListsOK' /\ Members(byTime)' = Members(byTime)
    BY <2>1, QuietLists
  <2>4. async' \in Members(byTime) \cup {ListHead}
    BY <2>1, <2>2, NextOfIs
  <2> QED BY <2>1, <2>3, <2>4, MembersAreBlocks DEF WalkOK, In
<1>4. CASE AsyncReturn
  <2>1. async \in Members(byTime)
    BY <1>4 DEF AsyncReturn, WalkOK, In
  <2>2. ListsOK' /\ Members(byTime)' = Members(byTime) \ {async}
    BY <1>4, DestroyKeeps DEF AsyncReturn
  <2>3. async' \in Members(byTime)' \cup {ListHead}
    BY <1>4, <2>1, <2>2, NextOfIs DEF AsyncReturn
  <2>4. pc' \in {"due", "idle"}
    BY <1>4 DEF AsyncReturn, Goto
  <2> QED BY <2>2, <2>3, <2>4, MembersAreBlocks DEF WalkOK, In
<1>5. CASE IdleSkip
  <2>1. UNCHANGED <<byTime, byPriority, entry>> /\ async' = NextOf(byTime, async) /\ pc' = "idle"
    BY <1>5 DEF IdleSkip, lists, Goto
  <2>2. async' \in Block \cup {ListHead}
    BY <1>5, <2>1, NextOfIs, MembersAreBlocks DEF IdleSkip
  <2>3. pc' # "due" /\ ~In("async")' /\ ~In("idle")'
    BY <2>1 DEF In
  <2> QED BY <2>1, <2>2, <2>3, QuietLists, WalkElsewhere
<1> QED BY <1>1, <1>2, <1>3, <1>4, <1>5

(* While user code runs the pointer stays, and so does what it points to.    *)
LEMMA UserWalk ==
  ASSUME ListsOK, WalkOK, ListsOK', UNCHANGED <<pc, caller, async>>,
         Members(byTime) \subseteq Members(byTime)'
  PROVE  WalkOK'
BY DEF WalkOK, In

LEMMA ScheduleKeeps ==
  ASSUME ListsOK, WalkOK, NEW f \in Fn, NEW p \in Nat, NEW d \in Nat, ScheduleAsync(f, p, d)
  PROVE  ListsOK' /\ WalkOK' /\ Members(byTime) \subseteq Members(byTime)'
<1>1. PICK b \in Block \ Members(byTime) : Insert(b, f, p, d)
  BY DEF ScheduleAsync
<1>2. ListsOK' /\ Members(byTime) \subseteq Members(byTime)'
  BY <1>1, InsertKeeps
<1>3. UNCHANGED <<pc, caller, async>>
  BY DEF ScheduleAsync, MayCall, local
<1> QED BY <1>2, <1>3, UserWalk

LEMMA UserSteps ==
  ASSUME ListsOK, WalkOK, ClockOK, UserCall
  PROVE  ListsOK' /\ WalkOK'
<1> USE AsyncAssumption
<1>1. UNCHANGED <<pc, caller, async>>
  BY DEF UserCall, ScheduleAsync, ScheduleAsyncFails, DescheduleAsync, DeschedulePolling,
     SchedulePolling, WakeThread, RegisterBlocking, SmtShutdown, MayCall, local
<1>2. ListsOK' /\ Members(byTime) \subseteq Members(byTime)'
  <2>1. ASSUME NEW f \in Fn, NEW p \in Prio, NEW d \in Nat, ScheduleAsync(f, p, d)
        PROVE  ListsOK' /\ Members(byTime) \subseteq Members(byTime)'
    <3>1. p \in Nat
      OBVIOUS
    <3> QED BY <2>1, <3>1, ScheduleKeeps
  <2>2. ASSUME NEW f \in Fn, DescheduleAsync(f)
        PROVE  ListsOK' /\ Members(byTime) \subseteq Members(byTime)'
    <3>1. Nullify({f})
      BY <2>2 DEF DescheduleAsync
    <3> QED BY <3>1, NullifyKeeps
  <2>3. ASSUME \/ ScheduleAsyncFails \/ RegisterBlocking \/ SmtShutdown
               \/ \E f \in Fn : DeschedulePolling(f)
               \/ \E f \in Fn, n \in Interval : SchedulePolling(f, n)
               \/ \E t \in Thread : WakeThread(t)
        PROVE  ListsOK' /\ Members(byTime) \subseteq Members(byTime)'
    <3>1. UNCHANGED <<byTime, byPriority, entry>>
      BY <2>3 DEF ScheduleAsyncFails, DeschedulePolling, SchedulePolling, WakeThread,
         RegisterBlocking, SmtShutdown, lists
    <3> QED BY <3>1, QuietLists
  <2>4. /\ \A n \in Delay : clock + n \in Nat
        /\ \A d \in Special : d \in Nat
    BY DEF ClockOK
  <2> QED BY <2>1, <2>2, <2>3, <2>4 DEF UserCall
<1> QED BY <1>1, <1>2, UserWalk

LEMMA ExecSteps ==
  ASSUME ListsOK, WalkOK, Exec \/ SmtExec
  PROVE  ListsOK' /\ WalkOK'
<1>1. WaitReturn => \E c \in Int : WaitReturns(c)
  <2>1. {0, 1} \cup (IF "fail" \in Allowed THEN {-1} ELSE {}) \subseteq Int
    OBVIOUS
  <2> QED BY <2>1 DEF WaitReturn
<1> QED BY <1>1, QuietSteps, ShutdownSteps, WalkSteps DEF Exec

LEMMA StillSteps ==
  ASSUME ListsOK, WalkOK, UNCHANGED <<byTime, byPriority, entry, pc, caller, async>>
  PROVE  ListsOK' /\ WalkOK'
BY QuietLists, UserWalk

(* The lists agree and are sorted, and the walk follows them, at every       *)
(* moment, whatever functions are scheduled, called and descheduled.         *)
THEOREM AsyncInvariance == Spec => []AInv
<1>1. Init => AInv
  BY InitAInv
<1>2. AInv /\ [Next]_vars => AInv'
  <2> SUFFICES ASSUME AInv, [Next]_vars PROVE AInv'
    OBVIOUS
  <2> USE DEF AInv
  <2>1. CASE UserCall
    BY <2>1, UserSteps, ClockKept
  <2>2. CASE Exec \/ SmtExec
    BY <2>2, ExecSteps, ClockKept
  <2>3. CASE Tick \/ UNCHANGED vars
    <3>1. UNCHANGED <<byTime, byPriority, entry, pc, caller, async>>
      BY <2>3 DEF Tick, vars, lists, local
    <3> QED BY <2>3, <3>1, StillSteps, ClockKept
  <2> QED BY <2>1, <2>2, <2>3 DEF Next
<1> QED BY <1>1, <1>2, PTL DEF Spec

(* The list by time and the list by priority always hold the same functions *)
(* once each, in order of date and of priority.                              *)
THEOREM OrdersStayKept == Spec => []OrdersKept
<1>1. AInv => OrdersKept
  BY DEF AInv, ListsOK, OrdersKept
<1> QED BY <1>1, AsyncInvariance, PTL

-----------------------------------------------------------------------------
(* The remaining variables.                                                 *)

Poll == [fn : Fn \cup {None}, interval : Interval, togo : Nat]

StateOK ==
  /\ pc \in {"main", "polls", "due", "idle", "dialog", "modules", "call", "dialog_end", "loop",
             "wait", "null_call", "freed_read"}
  /\ caller \in {"main", "poll", "async", "idle", "module", "wait"}
  /\ thread \in [Thread -> {"fresh", "busy", "passive", "ended"}] /\ cur \in Thread \cup {None}
  /\ first_date \in Nat
  /\ pollfns \in Seq(Poll)
  /\ async_removed \in BOOLEAN /\ timeRead \in BOOLEAN /\ waitfn \in BOOLEAN
  /\ shutdown_request \in BOOLEAN /\ told \in BOOLEAN
  /\ exec_type \in ExecTypes /\ result \in {"none", "more", "done"}
  /\ smt_errno \in {"none", "OUTOFMEMORY"}
  /\ calls \in 0 .. MaxCalls /\ i \in Nat \ {0}

LEMMA ReplaceInSeq ==
  ASSUME NEW T, NEW s \in Seq(T), NEW k, NEW x \in T
  PROVE  [s EXCEPT ![k] = x] \in Seq(T)
<1> DEFINE e == [s EXCEPT ![k] = x]
<1>1. Len(s) \in Nat /\ DOMAIN e = 1 .. Len(s) /\ \A j \in 1 .. Len(s) : e[j] \in T
  OBVIOUS
<1>2. e \in [1 .. Len(s) -> T]
  BY <1>1
<1> QED BY <1>1, <1>2

(* The first date that is not zero: what step 4 sleeps until.                *)
LEMMA FirstDateIs ==
  ASSUME ListsOK
  PROVE  /\ FirstDate \in Nat
         /\ \A b \in Members(byTime) :
              Scheduled(b) /\ entry[b].date # 0 => FirstDate =< entry[b].date
<1> DEFINE dated == {k \in DOMAIN byTime : entry[byTime[k]].fn # None /\ entry[byTime[k]].date # 0}
<1> USE AsyncAssumption
<1>1. /\ Len(byTime) \in Nat /\ DOMAIN byTime = 1 .. Len(byTime)
      /\ \A k \in DOMAIN byTime : entry[byTime[k]].date \in Nat
  BY EntryOf
<1>2. \A j, k \in DOMAIN byTime : j < k => entry[byTime[j]].date =< entry[byTime[k]].date
  BY DEF ListsOK, OrdersSorted
<1>3. ASSUME NEW b \in Members(byTime), Scheduled(b), entry[b].date # 0
      PROVE  \E k \in dated : byTime[k] = b
  BY <1>3 DEF Members, Scheduled
<1>4. CASE dated = {}
  BY <1>3, <1>4 DEF FirstDate
<1>5. CASE dated # {}
  <2> DEFINE k == CHOOSE k \in dated : \A j \in dated : k =< j
  <2>1. dated \subseteq Nat
    BY <1>1
  <2>2. \E k0 \in dated : \A j \in dated : k0 =< j
    <3> HIDE DEF dated
    <3> QED BY <1>5, <2>1, SmallestNumber
  <2>3. k \in dated /\ \A j \in dated : k =< j
    <3> HIDE DEF dated
    <3> QED BY <2>2
  <2>4. FirstDate = entry[byTime[k]].date
    BY <1>5 DEF FirstDate
  <2> HIDE DEF k
  <2>5. ASSUME NEW j \in dated PROVE entry[byTime[k]].date =< entry[byTime[j]].date
    <3>1. k = j \/ k < j
      BY <2>1, <2>3
    <3>2. k \in DOMAIN byTime /\ j \in DOMAIN byTime
      BY <2>3
    <3> QED BY <1>1, <1>2, <3>1, <3>2
  <2>6. FirstDate \in Nat
    BY <1>1, <2>3, <2>4
  <2> HIDE DEF dated
  <2> QED BY <1>3, <2>4, <2>5, <2>6
<1> QED BY <1>4, <1>5

(* The steps that change the polling functions.                              *)
LEMMA PollsTyped ==
  ASSUME StateOK, Next \/ UNCHANGED vars
  PROVE  pollfns' \in Seq(Poll)
<1> USE AsyncAssumption
<1>1. pollfns \in Seq(Poll) /\ i \in Nat \ {0}
  BY DEF StateOK
<1>2. /\ Len(pollfns) \in Nat /\ DOMAIN pollfns = 1 .. Len(pollfns)
      /\ \A j \in DOMAIN pollfns : /\ pollfns[j] \in Poll
                                   /\ pollfns[j].fn \in Fn \cup {None}
                                   /\ pollfns[j].interval \in Interval
                                   /\ pollfns[j].togo \in Nat
  <2>1. /\ Len(pollfns) \in Nat /\ DOMAIN pollfns = 1 .. Len(pollfns)
        /\ \A j \in DOMAIN pollfns : pollfns[j] \in Poll
    BY <1>1
  <2>2. \A p \in Poll : p.fn \in Fn \cup {None} /\ p.interval \in Interval /\ p.togo \in Nat
    BY DEF Poll
  <2> QED BY <2>1, <2>2
<1>3. ASSUME PollRemove PROVE pollfns' \in Seq(Poll)
  <2> DEFINE e == [pollfns EXCEPT ![i] = pollfns[Len(pollfns)]]
  <2>1. i \in DOMAIN pollfns /\ Len(pollfns) \in DOMAIN pollfns
    BY <1>2, <1>3 DEF PollRemove, Polling
  <2>2. e \in Seq(Poll) /\ Len(e) = Len(pollfns)
    BY <1>1, <1>2, <2>1, ReplaceInSeq
  <2>3. pollfns' = SubSeq(e, 1, Len(pollfns) - 1)
    BY <1>3 DEF PollRemove
  <2> HIDE DEF e
  <2> QED BY <1>2, <2>2, <2>3
<1>4. ASSUME NEW n \in Nat, Polling, pollfns' = [pollfns EXCEPT ![i].togo = n]
      PROVE  pollfns' \in Seq(Poll)
  <2>1. i \in DOMAIN pollfns
    BY <1>4 DEF Polling
  <2>2. [pollfns[i] EXCEPT !.togo = n] \in Poll
    BY <1>2, <2>1 DEF Poll
  <2>3. pollfns' = [pollfns EXCEPT ![i] = [pollfns[i] EXCEPT !.togo = n]]
    BY <1>4
  <2> QED BY <1>1, <2>2, <2>3, ReplaceInSeq
<1>5. ASSUME PollCountDown PROVE pollfns' \in Seq(Poll)
  <2> DEFINE n == IF pollfns[i].togo > 0 THEN pollfns[i].togo - 1 ELSE pollfns[i].togo
  <2>1. Polling /\ i \in DOMAIN pollfns
    BY <1>5 DEF PollCountDown, Polling
  <2>2. n \in Nat
    BY <1>2, <2>1
  <2>3. pollfns' = [pollfns EXCEPT ![i].togo = n]
    BY <1>5, <2>1 DEF PollCountDown
  <2> HIDE DEF n
  <2> QED BY <1>4, <2>1, <2>2, <2>3
<1>6. ASSUME PollCall PROVE pollfns' \in Seq(Poll)
  <2>1. Polling /\ i \in DOMAIN pollfns /\ pollfns' = [pollfns EXCEPT ![i].togo = pollfns[i].interval]
    BY <1>6 DEF PollCall, Polling
  <2>2. pollfns[i].interval \in Nat
    BY <1>2, <2>1
  <2> QED BY <1>4, <2>1, <2>2
<1>7. ASSUME NEW f \in Fn, NEW n \in Interval, SchedulePolling(f, n) PROVE pollfns' \in Seq(Poll)
  <2> DEFINE p == [fn |-> f, interval |-> n, togo |-> n]
  <2>1. p \in Poll
    BY DEF Poll
  <2>2. pollfns' = pollfns \/ pollfns' = Append(pollfns, p)
        \/ \E k : pollfns' = [pollfns EXCEPT ![k] = p]
    BY <1>7 DEF SchedulePolling
  <2> HIDE DEF p
  <2> QED BY <1>1, <2>1, <2>2, ReplaceInSeq
<1>8. ASSUME NEW f \in Fn, DeschedulePolling(f) PROVE pollfns' \in Seq(Poll)
  <2>1. /\ DOMAIN pollfns' = 1 .. Len(pollfns)
        /\ \A j \in 1 .. Len(pollfns) : pollfns'[j] \in Poll
    BY <1>2, <1>8 DEF DeschedulePolling, Poll
  <2>2. pollfns' = [j \in 1 .. Len(pollfns) |-> pollfns'[j]]
    BY <1>2, <1>8 DEF DeschedulePolling
  <2>3. pollfns' \in [1 .. Len(pollfns) -> Poll]
    BY <2>1, <2>2
  <2> QED BY <1>2, <2>3
<1>9. \/ PollRemove \/ PollCountDown \/ PollCall
      \/ \E f \in Fn, n \in Interval : SchedulePolling(f, n)
      \/ \E f \in Fn : DeschedulePolling(f)
      \/ pollfns' = pollfns
  BY DEF Next, UserCall, Exec, LoopEnd, PollReturn, PollFails, StartAsync, DueCall, DueOutranked,
     DueEnd, AsyncReturn, AsyncFails, IdleCall, IdleSkip, IdleDangles, IdleEnd, StartDialog,
     FirstEvent, Module, ReturnPlain, ReturnRecycled, ReturnBroken, ListEnd, DialogEnd, WaitCall,
     NoWait, WaitReturn, WaitReturns, SmtExec, Tick, ScheduleAsync, ScheduleAsyncFails,
     DescheduleAsync, WakeThread, RegisterBlocking, SmtShutdown, vars
<1> QED BY <1>1, <1>3, <1>5, <1>6, <1>7, <1>8, <1>9

LEMMA ShutdownTyped ==
  ASSUME StateOK, RequestAllThreadsShutdown \/ ShutdownIfRequested
  PROVE  /\ thread' \in [Thread -> {"fresh", "busy", "passive", "ended"}]
         /\ waitfn' \in BOOLEAN /\ shutdown_request' \in BOOLEAN /\ told' \in BOOLEAN
<1>1. CASE RequestAllThreadsShutdown
  BY <1>1 DEF RequestAllThreadsShutdown, StateOK
<1>2. CASE ~RequestAllThreadsShutdown
  BY <1>2 DEF ShutdownIfRequested, rest, StateOK
<1> QED BY <1>1, <1>2

(* The variables of the kernel, at a step of smt_exec.                       *)
LEMMA ExecTyped ==
  ASSUME StateOK, ListsOK, Exec \/ SmtExec
  PROVE  StateOK'
<1> USE AsyncAssumption
<1>1. /\ pc' \in {"main", "polls", "due", "idle", "dialog", "modules", "call", "dialog_end",
                  "loop", "wait", "null_call", "freed_read"}
      /\ caller' \in {"main", "poll", "async", "idle", "module", "wait"}
      /\ calls' \in 0 .. MaxCalls
  <2>1. /\ pc' \in {"main", "polls", "due", "idle", "dialog", "modules", "call", "dialog_end",
                    "loop", "wait", "null_call", "freed_read"}
        /\ caller' \in {caller, "main", "poll", "async", "idle", "module", "wait"}
        /\ calls' \in {calls, 0}
    BY DEF Exec, LoopEnd, PollRemove, PollCountDown, PollCall, PollReturn, PollFails, StartAsync,
       DueCall, DueOutranked, DueEnd, AsyncReturn, AsyncFails, IdleCall, IdleSkip, IdleDangles,
       IdleEnd, StartDialog, FirstEvent, Module, ReturnPlain, ReturnRecycled, ReturnBroken,
       ListEnd, DialogEnd, WaitCall, NoWait, WaitReturn, WaitReturns, SmtExec, Goto, Enter, Return
  <2> QED BY <2>1 DEF StateOK
<1>2. /\ thread' \in [Thread -> {"fresh", "busy", "passive", "ended"}]
      /\ waitfn' \in BOOLEAN /\ shutdown_request' \in BOOLEAN /\ told' \in BOOLEAN
  <2>1. CASE \/ PollFails \/ StartAsync \/ AsyncFails \/ StartDialog \/ DialogEnd \/ WaitReturn
    <3>1. RequestAllThreadsShutdown \/ ShutdownIfRequested \/ UNCHANGED rest
      BY <2>1 DEF PollFails, StartAsync, AsyncFails, StartDialog, DialogEnd, WaitReturn, WaitReturns
    <3>2. UNCHANGED rest => UNCHANGED <<thread, waitfn, shutdown_request, told>>
      BY DEF rest
    <3> QED BY <3>1, <3>2, ShutdownTyped DEF StateOK
  <2>2. CASE FirstEvent \/ ReturnBroken \/ ListEnd
    <3>1. /\ \E s \in {"busy", "passive", "ended"} : thread' = [thread EXCEPT ![cur] = s]
          /\ UNCHANGED <<waitfn, shutdown_request, told>>
      BY <2>2 DEF FirstEvent, ReturnBroken, ListEnd
    <3> QED BY <3>1 DEF StateOK
  <2>3. CASE \/ LoopEnd \/ PollRemove \/ PollCountDown \/ PollCall \/ PollReturn \/ DueCall
             \/ DueOutranked \/ DueEnd \/ AsyncReturn \/ IdleCall \/ IdleSkip \/ IdleDangles
             \/ IdleEnd \/ Module \/ ReturnPlain \/ ReturnRecycled \/ WaitCall \/ NoWait \/ SmtExec
    <3>1. UNCHANGED <<thread, waitfn, shutdown_request, told>>
      BY <2>3 DEF LoopEnd, PollRemove, PollCountDown, PollCall, PollReturn, DueCall, DueOutranked,
         DueEnd, AsyncReturn, IdleCall, IdleSkip, IdleDangles, IdleEnd, Module, ReturnPlain,
         ReturnRecycled, WaitCall, NoWait, SmtExec, rest
    <3> QED BY <3>1 DEF StateOK
  <2> QED BY <2>1, <2>2, <2>3 DEF Exec
<1>3. cur' \in Thread \cup {None}
  <2>1. cur' \in {cur, None} \/ cur' \in Thread
    BY DEF Exec, LoopEnd, PollRemove, PollCountDown, PollCall, PollReturn, PollFails, StartAsync,
       DueCall, DueOutranked, DueEnd, AsyncReturn, AsyncFails, IdleCall, IdleSkip, IdleDangles,
       IdleEnd, StartDialog, FirstEvent, Module, ReturnPlain, ReturnRecycled, ReturnBroken,
       ListEnd, DialogEnd, WaitCall, NoWait, WaitReturn, WaitReturns, SmtExec
  <2> QED BY <2>1 DEF StateOK
<1>4. first_date' \in Nat
  <2>1. first_date' \in {first_date, Never, FirstDate}
    BY DEF Exec, LoopEnd, PollRemove, PollCountDown, PollCall, PollReturn, PollFails, StartAsync,
       DueCall, DueOutranked, DueEnd, AsyncReturn, AsyncFails, IdleCall, IdleSkip, IdleDangles,
       IdleEnd, StartDialog, FirstEvent, Module, ReturnPlain, ReturnRecycled, ReturnBroken,
       ListEnd, DialogEnd, WaitCall, NoWait, WaitReturn, WaitReturns, SmtExec, Steady
  <2> QED BY <2>1, FirstDateIs DEF StateOK
<1>5. async_removed' \in BOOLEAN
  <2>1. async_removed' = async_removed \/ async_removed' = FALSE
    BY DEF Exec, LoopEnd, PollRemove, PollCountDown, PollCall, PollReturn, PollFails, StartAsync,
       DueCall, DueOutranked, DueEnd, AsyncReturn, AsyncFails, IdleCall, IdleSkip, IdleDangles,
       IdleEnd, StartDialog, FirstEvent, Module, ReturnPlain, ReturnRecycled, ReturnBroken,
       ListEnd, DialogEnd, WaitCall, NoWait, WaitReturn, WaitReturns, SmtExec, lists
  <2> QED BY <2>1 DEF StateOK
<1>6. timeRead' \in BOOLEAN
  <2>1. CASE DueCall \/ DueOutranked
    <3>1. \E b \in BOOLEAN : timeRead' = b
      BY <2>1 DEF DueCall, DueOutranked, Read
    <3> QED BY <3>1
  <2>2. CASE DueEnd \/ ReturnPlain
    <3>1. timeRead' = timeRead \/ \E b \in BOOLEAN : timeRead' = b
      BY <2>2 DEF DueEnd, ReturnPlain
    <3> QED BY <3>1 DEF StateOK
  <2>3. CASE ~(DueCall \/ DueOutranked \/ DueEnd \/ ReturnPlain)
    <3>1. timeRead' = timeRead \/ timeRead' = FALSE
      BY <2>3 DEF Exec, LoopEnd, PollRemove, PollCountDown, PollCall, PollReturn, PollFails,
         StartAsync, AsyncReturn, AsyncFails, IdleCall, IdleSkip, IdleDangles, IdleEnd,
         StartDialog, FirstEvent, Module, ReturnRecycled, ReturnBroken, ListEnd, DialogEnd,
         WaitCall, NoWait, WaitReturn, WaitReturns, SmtExec, reading
    <3> QED BY <3>1 DEF StateOK
  <2> QED BY <2>1, <2>2, <2>3
<1>7. /\ exec_type' \in ExecTypes /\ result' \in {"none", "more", "done"}
      /\ smt_errno' \in {"none", "OUTOFMEMORY"}
  <2>1. /\ exec_type' = exec_type \/ exec_type' \in ExecTypes
        /\ result' \in {result, "none", "more", "done"}
        /\ smt_errno' = smt_errno
    BY DEF Exec, LoopEnd, PollRemove, PollCountDown, PollCall, PollReturn, PollFails, StartAsync,
       DueCall, DueOutranked, DueEnd, AsyncReturn, AsyncFails, IdleCall, IdleSkip, IdleDangles,
       IdleEnd, StartDialog, FirstEvent, Module, ReturnPlain, ReturnRecycled, ReturnBroken,
       ListEnd, DialogEnd, WaitCall, NoWait, WaitReturn, WaitReturns, SmtExec, Steady, Return
  <2> QED BY <2>1 DEF StateOK
<1>8. i' \in Nat \ {0}
  <2>1. i' \in {i, i + 1, 1, Len(pollfns) + 1}
    BY DEF Exec, LoopEnd, PollRemove, PollCountDown, PollCall, PollReturn, PollFails, StartAsync,
       DueCall, DueOutranked, DueEnd, AsyncReturn, AsyncFails, IdleCall, IdleSkip, IdleDangles,
       IdleEnd, StartDialog, FirstEvent, Module, ReturnPlain, ReturnRecycled, ReturnBroken,
       ListEnd, DialogEnd, WaitCall, NoWait, WaitReturn, WaitReturns, SmtExec
  <2>2. i \in Nat \ {0} /\ Len(pollfns) \in Nat
    BY DEF StateOK
  <2> QED BY <2>1, <2>2
<1>9. pollfns' \in Seq(Poll)
  BY PollsTyped DEF Next
<1> QED BY <1>1, <1>2, <1>3, <1>4, <1>5, <1>6, <1>7, <1>8, <1>9 DEF StateOK

(* ... and at a call of user code.                                           *)
LEMMA UserTyped ==
  ASSUME StateOK, UserCall \/ Tick \/ UNCHANGED vars
  PROVE  StateOK'
<1>1. CASE Tick \/ UNCHANGED vars
  BY <1>1 DEF Tick, vars, lists, local, rest, reading, StateOK
<1>2. CASE UserCall
  <2>1. /\ UNCHANGED <<pc, caller, cur, first_date, timeRead, exec_type, result, i>>
        /\ calls' = calls + 1 /\ calls < MaxCalls
    BY <1>2 DEF UserCall, ScheduleAsync, ScheduleAsyncFails, DescheduleAsync, DeschedulePolling,
       SchedulePolling, WakeThread, RegisterBlocking, SmtShutdown, MayCall, local, reading
  <2>2. calls' \in 0 .. MaxCalls
    BY <2>1, AsyncAssumption DEF StateOK
  <2>3. /\ thread' = thread \/ \E t \in Thread : thread' = [thread EXCEPT ![t] = "busy"]
        /\ told' = told /\ smt_errno' \in {smt_errno, "OUTOFMEMORY"}
        /\ waitfn' = waitfn \/ waitfn' = TRUE
        /\ shutdown_request' = shutdown_request \/ shutdown_request' = TRUE
    BY <1>2 DEF UserCall, ScheduleAsync, ScheduleAsyncFails, DescheduleAsync, DeschedulePolling,
       SchedulePolling, WakeThread, RegisterBlocking, SmtShutdown, rest
  <2>4. async_removed' = async_removed \/ \E b \in BOOLEAN : async_removed' = b
    BY <1>2 DEF UserCall, ScheduleAsync, ScheduleAsyncFails, DescheduleAsync, DeschedulePolling,
       SchedulePolling, WakeThread, RegisterBlocking, SmtShutdown, lists, Nullify
  <2>5. pollfns' \in Seq(Poll)
    BY <1>2, PollsTyped DEF Next
  <2>6. /\ thread' \in [Thread -> {"fresh", "busy", "passive", "ended"}]
        /\ told' \in BOOLEAN /\ smt_errno' \in {"none", "OUTOFMEMORY"}
    BY <2>3 DEF StateOK
  <2>7. waitfn' \in BOOLEAN /\ shutdown_request' \in BOOLEAN /\ async_removed' \in BOOLEAN
    BY <2>3, <2>4 DEF StateOK
  <2> QED BY <2>1, <2>2, <2>5, <2>6, <2>7 DEF StateOK
<1> QED BY <1>1, <1>2

LEMMA InitStateOK == ASSUME Init PROVE StateOK
<1> USE AsyncAssumption DEF Init
<1>1. pollfns \in Seq(Poll)
  OBVIOUS
<1>2. /\ async_removed \in BOOLEAN /\ timeRead \in BOOLEAN /\ waitfn \in BOOLEAN
      /\ shutdown_request \in BOOLEAN /\ told \in BOOLEAN
  OBVIOUS
<1>3. thread \in [Thread -> {"fresh", "busy", "passive", "ended"}] /\ cur \in Thread \cup {None}
  OBVIOUS
<1> QED BY <1>1, <1>2, <1>3 DEF StateOK

LEMMA StateKept ==
  ASSUME StateOK, AInv, [Next]_vars
  PROVE  StateOK'
BY ExecTyped, UserTyped DEF Next, AInv

(* Every variable keeps its type.                                            *)
THEOREM AsyncTypesKept == Spec => []TypeOK
<1>1. Init => StateOK
  BY InitStateOK
<1>2. StateOK /\ AInv /\ [Next]_vars => StateOK'
  BY StateKept
<1>3. AInv /\ StateOK => TypeOK
  <2> SUFFICES ASSUME AInv, StateOK PROVE TypeOK
    OBVIOUS
  <2>1. /\ entry \in [Block -> Async] /\ async \in Block \cup {ListHead}
        /\ cur_date \in 0 .. MaxClock /\ clock \in 0 .. MaxClock
    BY DEF AInv, ListsOK, WalkOK, ClockOK
  <2>2. Members(byTime) \subseteq Block /\ Members(byPriority) \subseteq Block
    BY MembersAreBlocks DEF AInv, ListsOK, OrdersAgree
  <2>3. \A k \in DOMAIN pollfns :
          pollfns[k] \in [fn : Fn \cup {None}, interval : Interval, togo : Nat]
    <3>1. pollfns \in Seq(Poll)
      BY DEF StateOK
    <3>2. \A k \in DOMAIN pollfns : pollfns[k] \in Poll
      BY <3>1
    <3> QED BY <3>2 DEF Poll
  <2>4. {async_removed, timeRead, waitfn, shutdown_request, told} \subseteq BOOLEAN
    BY DEF StateOK
  <2> QED BY <2>1, <2>2, <2>3, <2>4 DEF TypeOK, StateOK
<1> QED BY <1>1, <1>2, <1>3, AsyncInvariance, PTL DEF Spec

-----------------------------------------------------------------------------
(* What follows.                                                            *)

LEMMA WaitEntered ==
  ASSUME ListsOK, WaitCall PROVE SleepsUntilFirst'
<1>1. UNCHANGED <<byTime, byPriority, entry>> /\ first_date' = FirstDate
  BY DEF WaitCall, lists
<1>2. \A b \in Members(byTime) : Scheduled(b) /\ entry[b].date # 0 => FirstDate =< entry[b].date
  BY FirstDateIs
<1>3. Members(byTime)' = Members(byTime)
  BY <1>1
<1> QED BY <1>1, <1>2, <1>3 DEF SleepsUntilFirst, Scheduled

(* The blocking function is told the date of the first function that has     *)
(* one: step 4 reads it off a list that is in order, and nothing is          *)
(* scheduled between that and the call.                                      *)
THEOREM NothingIsSleptPast == Spec => []SleepsUntilFirst
<1>1. Init => SleepsUntilFirst
  BY DEF Init, SleepsUntilFirst, In
<1>2. AInv /\ StateOK /\ SleepsUntilFirst /\ [Next]_vars => SleepsUntilFirst'
  <2> SUFFICES ASSUME AInv, StateOK, SleepsUntilFirst, [Next]_vars PROVE SleepsUntilFirst'
    OBVIOUS
  <2>1. CASE UserCall
    <3>1. calls' = calls + 1
      BY <2>1 DEF UserCall, ScheduleAsync, ScheduleAsyncFails, DescheduleAsync, DeschedulePolling,
         SchedulePolling, WakeThread, RegisterBlocking, SmtShutdown, MayCall
    <3>2. calls' # 0
      BY <3>1, AsyncAssumption DEF StateOK
    <3> QED BY <3>2 DEF SleepsUntilFirst
  <2>2. CASE WaitCall
    BY <2>2, WaitEntered DEF AInv
  <2>3. CASE (Exec /\ ~WaitCall) \/ SmtExec
    <3>1. ~In("wait")'
      BY <2>3 DEF Exec, LoopEnd, PollRemove, PollCountDown, PollCall, PollReturn, PollFails,
         StartAsync, DueCall, DueOutranked, DueEnd, AsyncReturn, AsyncFails, IdleCall, IdleSkip,
         IdleDangles, IdleEnd, StartDialog, FirstEvent, Module, ReturnPlain, ReturnRecycled,
         ReturnBroken, ListEnd, DialogEnd, NoWait, WaitReturn, WaitReturns, SmtExec, Goto, Enter,
         Return, In
    <3> QED BY <3>1 DEF SleepsUntilFirst
  <2>4. CASE Tick \/ UNCHANGED vars
    <3>1. UNCHANGED <<pc, caller, calls, byTime, entry, first_date>>
      BY <2>4 DEF Tick, vars, lists, local
    <3> QED BY <3>1 DEF SleepsUntilFirst, In, Scheduled, Members
  <2> QED BY <2>1, <2>2, <2>3, <2>4 DEF Next
<1>3. Init => StateOK
  BY InitStateOK
<1>4. StateOK /\ AInv /\ [Next]_vars => StateOK'
  BY StateKept
<1> QED BY <1>1, <1>2, <1>3, <1>4, AsyncInvariance, PTL DEF Spec

LEMMA DueCallIs ==
  ASSUME AInv, DueCall
  PROVE  /\ async \in Members(byTime) /\ entry[async].date =< clock
         /\ \A t \in Busy : rank[t] =< entry[async].priority
<1>1. async \in Members(byTime)
  BY DEF DueCall, AInv, WalkOK
<1>2. entry[async].date \in Nat /\ entry[async].priority \in Nat
  BY <1>1, MembersAreBlocks, EntryOf DEF AInv
<1>3. entry[async].date =< clock
  <2>1. Reading(entry[async].date) =< clock /\ Reading(entry[async].date) \in Nat
    BY AsyncAssumption DEF Reading, AInv, ClockOK
  <2>2. Reading(entry[async].date) >= entry[async].date
    BY DEF DueCall, IsDue
  <2> QED BY <1>2, <2>1, <2>2, AsyncAssumption DEF AInv, ClockOK
<1>4. \A t \in Busy : rank[t] =< entry[async].priority
  <2>1. \A t \in Busy : ~(rank[t] > entry[async].priority) /\ rank[t] \in Nat
    BY AsyncAssumption DEF DueCall, Outranked, Busy
  <2> QED BY <1>2, <2>1
<1> QED BY <1>1, <1>3, <1>4

(* Only step 2 calls a function for its date.                                *)
LEMMA DueCallOnly ==
  ASSUME Next \/ UNCHANGED vars, In("async")', ~In("async")
  PROVE  DueCall
BY DEF Next, UserCall, Exec, LoopEnd, PollRemove, PollCountDown, PollCall, PollReturn, PollFails,
   StartAsync, DueOutranked, DueEnd, AsyncReturn, AsyncFails, IdleCall, IdleSkip, IdleDangles,
   IdleEnd, StartDialog, FirstEvent, Module, ReturnPlain, ReturnRecycled, ReturnBroken, ListEnd,
   DialogEnd, WaitCall, NoWait, WaitReturn, WaitReturns, SmtExec, Tick, ScheduleAsync,
   ScheduleAsyncFails, DescheduleAsync, DeschedulePolling, SchedulePolling, WakeThread,
   RegisterBlocking, SmtShutdown, MayCall, Goto, Enter, Return, In, vars

(* A function is called when its date has come and nothing outranks it,      *)
(* although the clock may have been read long before.                        *)
THEOREM DueCallsAreTimely == Spec => CalledInTime
<1> DEFINE Timely == In("async")' /\ ~In("async")
                       => /\ entry[async].date =< clock
                          /\ \A t \in Busy : rank[t] =< entry[async].priority
<1>1. AInv /\ [Next]_vars => [Timely]_vars
  BY DueCallIs, DueCallOnly
<1> QED BY <1>1, AsyncInvariance, PTL DEF Spec, CalledInTime

-----------------------------------------------------------------------------
(* Polling functions.                                                       *)

Present == {pollfns[j].fn : j \in DOMAIN pollfns}

(* What a step may do to a polling function that is still to come.           *)
Kept(f) == f \in ToCome' \/ f = pollfns[i].fn \/ f \notin Present' \/ told'

LEMMA PollFacts ==
  ASSUME StateOK
  PROVE  /\ Len(pollfns) \in Nat /\ DOMAIN pollfns = 1 .. Len(pollfns)
         /\ i \in Nat \ {0} /\ pollfns \in Seq(Poll)
BY DEF StateOK

(* It is enough to say where the function is found afterwards.               *)
LEMMA FoundAgain ==
  ASSUME NEW f, f # None, NEW j \in DOMAIN pollfns', j >= i', pollfns'[j].fn = f
  PROVE  Kept(f)
BY DEF Kept, ToCome

(* A step that leaves the polling functions and the one being looked at.     *)
LEMMA PollsStill ==
  ASSUME UNCHANGED <<pollfns, i>>, NEW f \in ToCome
  PROVE  Kept(f)
<1>1. PICK j \in DOMAIN pollfns : j >= i /\ pollfns[j].fn = f /\ f # None
  BY DEF ToCome
<1> QED BY <1>1, FoundAgain

(* The removal of one puts the last one in its place, which is looked at     *)
(* next.                                                                     *)
LEMMA RemovalKeeps ==
  ASSUME StateOK, PollRemove, NEW f \in ToCome
  PROVE  Kept(f)
<1> DEFINE n == Len(pollfns)
           e == [pollfns EXCEPT ![i] = pollfns[n]]
<1>1. n \in Nat /\ DOMAIN pollfns = 1 .. n /\ i \in 1 .. n /\ pollfns[i].fn = None /\ i' = i
  BY PollFacts DEF PollRemove, Polling
<1>2. PICK j \in 1 .. n : j >= i /\ pollfns[j].fn = f /\ f # None
  BY <1>1 DEF ToCome
<1>3. /\ DOMAIN pollfns' = 1 .. n - 1
      /\ \A k \in 1 .. n - 1 : pollfns'[k] = e[k]
  <2>1. pollfns' = SubSeq(e, 1, n - 1)
    BY DEF PollRemove
  <2>2. e \in Seq(Poll) /\ Len(e) = n
    <3>1. pollfns \in Seq(Poll) /\ pollfns[n] \in Poll
      BY <1>1, PollFacts
    <3> QED BY <3>1, ReplaceInSeq
  <2> HIDE DEF e, n
  <2> QED BY <1>1, <2>1, <2>2
<1>4. /\ \A k \in 1 .. n : k # i => e[k] = pollfns[k]
      /\ e[i] = pollfns[n]
  BY <1>1
<1> HIDE DEF e, n
<1>5. j > i
  BY <1>1, <1>2
<1>6. CASE j = n
  <2>1. i \in DOMAIN pollfns' /\ pollfns'[i].fn = f
    BY <1>1, <1>2, <1>3, <1>4, <1>5, <1>6
  <2> QED BY <1>1, <1>2, <2>1, FoundAgain
<1>7. CASE j # n
  <2>1. j \in DOMAIN pollfns' /\ pollfns'[j].fn = f
    BY <1>1, <1>2, <1>3, <1>4, <1>5, <1>7
  <2> QED BY <1>1, <1>2, <2>1, FoundAgain
<1> QED BY <1>6, <1>7

(* The others stay where they are while the pass goes past one.              *)
LEMMA PassingKeeps ==
  ASSUME StateOK, PollCountDown \/ PollCall \/ PollReturn, NEW f \in ToCome
  PROVE  Kept(f)
<1>1. Len(pollfns) \in Nat /\ DOMAIN pollfns = 1 .. Len(pollfns) /\ i \in Nat
  BY PollFacts
<1>2. PICK j \in DOMAIN pollfns : j >= i /\ pollfns[j].fn = f /\ f # None
  BY DEF ToCome
<1>3. /\ DOMAIN pollfns' = DOMAIN pollfns
      /\ \A k \in DOMAIN pollfns : pollfns'[k].fn = pollfns[k].fn
      /\ i' \in {i, i + 1}
  <2>1. CASE PollCountDown
    BY <1>1, <2>1 DEF PollCountDown, Polling
  <2>2. CASE PollCall
    BY <1>1, <2>2 DEF PollCall, Polling
  <2>3. CASE PollReturn
    BY <2>3 DEF PollReturn
  <2> QED BY <2>1, <2>2, <2>3
<1>4. CASE j = i
  BY <1>2, <1>4 DEF Kept
<1>5. CASE j # i
  <2>1. j \in DOMAIN pollfns' /\ pollfns'[j].fn = f /\ j >= i'
    BY <1>1, <1>2, <1>3, <1>5
  <2> QED BY <1>2, <2>1, FoundAgain
<1> QED BY <1>4, <1>5

(* A call of schedule_polling_function leaves the others, and one that is    *)
(* there, in its place.                                                      *)
LEMMA SchedulingKeeps ==
  ASSUME StateOK, NEW g \in Fn, NEW n \in Interval, SchedulePolling(g, n), NEW f \in ToCome
  PROVE  Kept(f)
<1> DEFINE at == {k \in DOMAIN pollfns : pollfns[k].fn = g}
           p == [fn |-> g, interval |-> n, togo |-> n]
           k == CHOOSE k \in at : \A m \in at : k =< m
<1>1. Len(pollfns) \in Nat /\ DOMAIN pollfns = 1 .. Len(pollfns) /\ pollfns \in Seq(Poll)
  BY PollFacts
<1>2. PICK j \in DOMAIN pollfns : j >= i /\ pollfns[j].fn = f /\ f # None
  BY DEF ToCome
<1>3. i' = i
  BY DEF SchedulePolling, MayCall, local
<1>4. CASE at # {} /\ pollfns' = [pollfns EXCEPT ![k] = p]
  <2>1. at \subseteq Nat
    BY <1>1
  <2>2. \E k0 \in at : \A m \in at : k0 =< m
    <3> HIDE DEF at
    <3> QED BY <1>4, <2>1, SmallestNumber
  <2>3. k \in at
    <3> HIDE DEF at
    <3> QED BY <2>2
  <2> HIDE DEF k
  <2>4. k \in DOMAIN pollfns /\ pollfns[k].fn = p.fn
    BY <2>3
  <2>5. j \in DOMAIN pollfns' /\ pollfns'[j].fn = f
    BY <1>2, <1>4, <2>4
  <2> QED BY <1>2, <1>3, <2>5, FoundAgain
<1>5. CASE pollfns' = Append(pollfns, p)
  <2> HIDE DEF p
  <2>1. j \in DOMAIN pollfns' /\ pollfns'[j] = pollfns[j]
    BY <1>1, <1>2, <1>5
  <2> QED BY <1>2, <1>3, <2>1, FoundAgain
<1>6. CASE pollfns' = pollfns
  BY <1>3, <1>6, PollsStill
<1> HIDE DEF at, p, k
<1> QED BY <1>4, <1>5, <1>6 DEF SchedulePolling, at, p, k

(* A function that is descheduled is gone, the others stay.                  *)
LEMMA DeschedulingKeeps ==
  ASSUME StateOK, NEW g \in Fn, DeschedulePolling(g), NEW f \in ToCome
  PROVE  Kept(f)
<1>1. Len(pollfns) \in Nat /\ DOMAIN pollfns = 1 .. Len(pollfns)
  BY PollFacts
<1>2. PICK j \in DOMAIN pollfns : j >= i /\ pollfns[j].fn = f /\ f # None
  BY DEF ToCome
<1>3. /\ i' = i /\ DOMAIN pollfns' = DOMAIN pollfns
      /\ \A k \in DOMAIN pollfns :
           /\ pollfns[k].fn = g => pollfns'[k].fn \in {None, g}
           /\ pollfns[k].fn # g => pollfns'[k] = pollfns[k]
  BY DEF DeschedulePolling, MayCall, local
<1>4. CASE f = g
  <2>1. \A k \in DOMAIN pollfns : pollfns'[k].fn # f
    <3> TAKE k \in DOMAIN pollfns
    <3>1. pollfns[k] \in Poll
      BY PollFacts
    <3>2. pollfns[k].fn = g => pollfns'[k].fn = None
      BY <3>1 DEF DeschedulePolling, Poll
    <3> QED BY <1>2, <1>3, <1>4, <3>2
  <2> QED BY <1>3, <2>1 DEF Kept, Present
<1>5. CASE f # g
  <2>1. j \in DOMAIN pollfns' /\ pollfns'[j].fn = f
    BY <1>2, <1>3, <1>5
  <2> QED BY <1>2, <1>3, <2>1, FoundAgain
<1> QED BY <1>4, <1>5

(* A pass over the polling functions comes to each of them, whatever the     *)
(* functions it calls on the way schedule, deschedule and remove.            *)
THEOREM PassReachesAll == Spec => NobodySkipped
<1> DEFINE Reaching == pc = "polls" \/ In("poll") => \A f \in ToCome : Kept(f)
<1>1. StateOK /\ [Next]_vars => [Reaching]_vars
  <2> SUFFICES ASSUME StateOK, Next, pc = "polls" \/ In("poll"), NEW f \in ToCome PROVE Kept(f)
    OBVIOUS
  <2>1. CASE UserCall
    <3>1. CASE \E g \in Fn, n \in Interval : SchedulePolling(g, n)
      BY <3>1, SchedulingKeeps
    <3>2. CASE \E g \in Fn : DeschedulePolling(g)
      BY <3>2, DeschedulingKeeps
    <3>3. CASE ~(\E g \in Fn : DeschedulePolling(g)) /\ ~(\E g \in Fn, n \in Interval : SchedulePolling(g, n))
      <4>1. UNCHANGED <<pollfns, i>>
        BY <2>1, <3>3 DEF UserCall, ScheduleAsync, ScheduleAsyncFails, DescheduleAsync, WakeThread,
           RegisterBlocking, SmtShutdown, MayCall, local
      <4> QED BY <4>1, PollsStill
    <3> QED BY <3>1, <3>2, <3>3
  <2>2. CASE Exec
    <3>1. PollRemove \/ PollCountDown \/ PollCall \/ PollReturn \/ PollFails \/ StartAsync
      BY <2>2 DEF Exec, LoopEnd, DueCall, DueOutranked, DueEnd, AsyncReturn, AsyncFails, IdleCall,
         IdleSkip, IdleDangles, IdleEnd, StartDialog, FirstEvent, Module, ReturnPlain,
         ReturnRecycled, ReturnBroken, ListEnd, DialogEnd, WaitCall, NoWait, WaitReturn,
         WaitReturns, In
    <3>2. PollFails => Kept(f)
      BY DEF PollFails, RequestAllThreadsShutdown, Kept
    <3>3. StartAsync => Kept(f)
      <4>1. ASSUME StartAsync PROVE FALSE
        <5>1. PICK j \in DOMAIN pollfns : j >= i
          BY DEF ToCome
        <5> QED BY <4>1, <5>1, PollFacts DEF StartAsync
      <4> QED BY <4>1
    <3> QED BY <3>1, <3>2, <3>3, RemovalKeeps, PassingKeeps
  <2>3. CASE SmtExec \/ Tick
    <3>1. UNCHANGED <<pollfns, i>>
      BY <2>3 DEF SmtExec, Tick, local
    <3> QED BY <3>1, PollsStill
  <2> QED BY <2>1, <2>2, <2>3 DEF Next
<1>2. [Reaching]_vars =>
        [pc = "polls" \/ In("poll") =>
           \A f \in ToCome : \/ f \in ToCome' \/ f = pollfns[i].fn
                             \/ f \notin {pollfns'[j].fn : j \in DOMAIN pollfns'}
                             \/ told']_vars
  BY DEF Kept, Present
<1>3. Spec => []StateOK
  <2>1. Init => StateOK
    BY InitStateOK
  <2>2. StateOK /\ AInv /\ [Next]_vars => StateOK'
    BY StateKept
  <2> QED BY <2>1, <2>2, AsyncInvariance, PTL DEF Spec
<1> HIDE DEF Reaching
<1> QED BY <1>1, <1>2, <1>3, PTL DEF Spec, NobodySkipped

-----------------------------------------------------------------------------
(* The timer agent.                                                         *)

Request == [reply_to : Client \cup {None}, tag : Tag \cup {None},
            delay : Nat, cycles : Nat, date : Nat]

(* Requests.  One that was made has a delay or is for once, which tells it  *)
(* from an address that has not been used.                                   *)
RequestsOK ==
  /\ requests \in Seq(Fn) /\ NoDuplicates(requests)
  /\ req \in [Fn -> Request]
  /\ dropped \subseteq Fn /\ dropped \cap Live = {}
  /\ \A r \in Live \cup dropped : req[r].delay # 0 \/ req[r].cycles = 1
  /\ \A r \in Fn : req[r].delay \in Delay \cup {0, 1}
  /\ cur_time \in Nat
  /\ blocking = "other" => loopreq = 0 /\ cur_time = 0

(* The walk over the functions meets none that was descheduled.              *)
Walking == pc \in {"due", "idle"} \/ In("async") \/ In("idle")

NullsOK ==
  /\ pc \notin {"null_call", "freed_read"}
  /\ \A b \in Members(byTime) : entry[b].fn = None => async_removed
  /\ Walking => \A b \in Members(byTime) : entry[b].fn # None
  /\ pc = "idle" => async \in Members(byTime) \cup {ListHead}

(* What is being called is due.                                              *)
DueOK == In("async") => entry[async].date =< clock

ScheduledOK ==
  /\ ~In("idle")
  /\ \A b \in Ahead : entry[b].fn \in Live /\ entry[b].date = req[entry[b].fn].date
  /\ \A b, c \in Ahead : entry[b].fn = entry[c].fn => b = c
  /\ \A r \in Live : told \/ smt_errno # "none" \/ \E b \in Ahead : entry[b].fn = r
  /\ \A r \in Live : req[r].date < Never

TInv ==
  /\ AInv /\ RequestsOK /\ NullsOK /\ DueOK /\ rc \in Int
  /\ blocking = "other" => ScheduledOK

-----------------------------------------------------------------------------
(* Requests.                                                                *)

USE DEF Live

LEMMA TimerConstants ==
  /\ PriorityMax \in Nat
  /\ \A n \in Delay \cup {0, 1} : n \in Nat /\ MaxClock + n < Never
  /\ MaxClock \in Nat /\ Never \in Nat /\ None \notin Fn
<1>1. MaxClock \in Nat /\ Never \in Nat /\ None \notin Fn /\ MaxClock < Never
  BY AsyncAssumption
<1>2. PriorityMax \in Prio
  BY TimerAssumption DEF PriorityMax
<1>3. PriorityMax \in Nat
  BY <1>2, AsyncAssumption
<1>4. \A n \in Delay \cup {0, 1} : n \in Nat
  BY AsyncAssumption
<1>5. \A n \in Delay \cup {0, 1} : MaxClock + n < Never
  BY <1>1, TimerAssumption
<1> QED BY <1>1, <1>3, <1>4, <1>5

(* What the addresses hold.                                                  *)
LEMMA RequestIs ==
  ASSUME RequestsOK, NEW r \in Fn
  PROVE  req[r].date \in Nat /\ req[r].delay \in Nat /\ req[r].cycles \in Nat
BY DEF RequestsOK, Request

LEMMA LiveAddresses ==
  ASSUME RequestsOK PROVE Live \subseteq Fn
BY DEF RequestsOK, Members

(* An address that has not been used is in no list.                          *)
LEMMA UnusedIsNew ==
  ASSUME RequestsOK, NEW r \in Fn, req[r] = Unused
  PROVE  r \notin Live /\ r \notin dropped
<1> DEFINE zero == 0
<1>1. req[r].delay = zero /\ req[r].cycles = zero
  BY DEF Unused
<1>2. zero # 1
  OBVIOUS
<1> HIDE DEF zero
<1>3. ~(req[r].delay # zero \/ req[r].cycles = 1)
  BY <1>1, <1>2
<1> QED BY <1>3 DEF RequestsOK, zero

(* A new request: the list and the addresses.                                *)
LEMMA RequestCreated ==
  ASSUME RequestsOK, NEW r \in Fn, NEW q \in Client, NEW tag \in Tag, NEW delay \in Delay \cup {0, 1},
         NEW cycles \in Nat, NEW date \in Nat, delay # 0 \/ cycles = 1,
         req[r] = Unused, RequestCreate(r, q, tag, delay, cycles, date)
  PROVE  /\ RequestsOK'
         /\ Members(requests)' = Live \cup {r} /\ r \notin Live
         /\ req'[r].date = date
         /\ \A p \in Fn : p # r => req'[p] = req[p]
         /\ blocking' = blocking
<1>1. r \notin Live /\ r \notin dropped
  BY UnusedIsNew
<1>2. requests \in Seq(Fn) /\ NoDuplicates(requests) /\ requests' = Append(requests, r)
  BY DEF RequestsOK, RequestCreate
<1>3. /\ requests' \in Seq(Fn) /\ NoDuplicates(requests)'
      /\ Members(requests)' = Live \cup {r}
  BY <1>1, <1>2, AppendMembers
<1> DEFINE new == [reply_to |-> q, tag |-> tag, delay |-> delay, cycles |-> cycles, date |-> date]
<1>4. /\ new \in Request /\ new.delay = delay /\ new.cycles = cycles /\ new.date = date
  BY TimerConstants DEF Request
<1>5. /\ req' = [req EXCEPT ![r] = new] /\ dropped' = dropped /\ cur_time' = cur_time
      /\ blocking' = blocking /\ loopreq' = loopreq
  BY DEF RequestCreate
<1> HIDE DEF new
<1>6. /\ req' \in [Fn -> Request] /\ req'[r] = new
      /\ \A p \in Fn : p # r => req'[p] = req[p]
  BY <1>4, <1>5 DEF RequestsOK
<1>7. /\ dropped' \subseteq Fn /\ dropped' \cap Live' = {}
      /\ cur_time' \in Nat /\ (blocking' = "other" => loopreq' = 0 /\ cur_time' = 0)
  BY <1>1, <1>3, <1>5 DEF RequestsOK
<1>8. \A p \in Live' \cup dropped' : req'[p].delay # 0 \/ req'[p].cycles = 1
  <2> TAKE p \in Live' \cup dropped'
  <2>1. CASE p = r
    BY <1>4, <1>6, <2>1
  <2>2. CASE p # r
    <3>1. p \in Live \cup dropped /\ p \in Fn
      BY <1>3, <1>5, <2>2, LiveAddresses DEF RequestsOK
    <3> QED BY <1>6, <2>2, <3>1 DEF RequestsOK
  <2> QED BY <2>1, <2>2
<1>9. \A p \in Fn : req'[p].delay \in Delay \cup {0, 1}
  BY <1>4, <1>6 DEF RequestsOK
<1>10. RequestsOK'
  BY <1>3, <1>6, <1>7, <1>8, <1>9 DEF RequestsOK
<1> QED BY <1>1, <1>3, <1>4, <1>5, <1>6, <1>10

(* Requests that are dropped.                                                *)
LEMMA RequestsDropped ==
  ASSUME RequestsOK, NEW S \in SUBSET Live, Drop(S)
  PROVE  RequestsOK' /\ Members(requests)' = Live \ S /\ req' = req /\ blocking' = blocking
<1>1. /\ requests' = Without(requests, S) /\ dropped' = dropped \cup S
      /\ UNCHANGED <<req, cur_time, loopreq, blocking>>
  BY DEF Drop
<1>2. requests \in Seq(Fn) /\ NoDuplicates(requests)
  BY DEF RequestsOK
<1>3. /\ requests' \in Seq(Fn) /\ NoDuplicates(requests)'
      /\ Members(requests)' = Live \ S
  BY <1>1, <1>2, WithoutKeeps
<1>4. Live \subseteq Fn
  BY LiveAddresses
<1>5. /\ dropped' \subseteq Fn /\ dropped' \cap Live' = {}
      /\ \A r \in Live' \cup dropped' : req'[r].delay # 0 \/ req'[r].cycles = 1
  BY <1>1, <1>3, <1>4 DEF RequestsOK
<1> QED BY <1>1, <1>3, <1>5 DEF RequestsOK

(* A request is answered: it is done with, or has a later date.              *)
LEMMA RequestAnswered ==
  ASSUME RequestsOK, NEW r \in Fn, Answer(r), UNCHANGED cur_time,
         loopreq' = loopreq \/ blocking # "other"
  PROVE  /\ RequestsOK' /\ blocking' = blocking /\ dropped' = dropped
         /\ \A p \in Fn : p # r => req'[p] = req[p] /\ answers'[p] = answers[p]
         /\ \/ /\ req[r].cycles = 1 /\ Members(requests)' = Live \ {r} /\ req' = req
               /\ UNCHANGED <<byTime, byPriority, entry, smt_errno>>
            \/ /\ req[r].cycles # 1 /\ requests' = requests
               /\ req'[r].date = NextDate(req[r]) /\ NextDate(req[r]) \in Nat
               /\ Schedule(r, NextDate(req[r]))
<1>1. /\ requests \in Seq(Fn) /\ NoDuplicates(requests) /\ req \in [Fn -> Request]
      /\ cur_time' \in Nat
  BY DEF RequestsOK
<1>2. /\ blocking' = blocking /\ dropped' = dropped
      /\ \A p \in Fn : p # r => answers'[p] = answers[p]
  BY DEF Answer
<1>3. CASE req[r].cycles = 1
  <2>1. /\ requests' = Unlink(requests, r) /\ req' = req
        /\ UNCHANGED <<byTime, byPriority, entry, smt_errno>>
    BY <1>3 DEF Answer
  <2>2. /\ requests' \in Seq(Fn) /\ NoDuplicates(requests)' /\ Members(requests)' = Live \ {r}
    BY <1>1, <2>1, UnlinkType, UnlinkMembers
  <2>3. RequestsOK'
    BY <1>2, <2>1, <2>2 DEF RequestsOK
  <2> QED BY <1>2, <1>3, <2>1, <2>2, <2>3
<1>4. CASE req[r].cycles # 1
  <2> DEFINE date == NextDate(req[r])
             cycles == IF req[r].cycles > 1 THEN req[r].cycles - 1 ELSE req[r].cycles
             new == [req[r] EXCEPT !.date = date, !.cycles = cycles]
  <2>1. date \in Nat
    <3>1. req[r].date \in Nat /\ req[r].delay \in Nat
      BY RequestIs
    <3> QED BY <1>1, <3>1 DEF NextDate
  <2>2. cycles \in Nat
    BY RequestIs
  <2>3. requests' = requests /\ Schedule(r, date) /\ req' = [req EXCEPT ![r] = new]
    <3>1. /\ requests' = requests /\ Schedule(r, date)
          /\ req' = [req EXCEPT ![r].date = date, ![r].cycles = IF @ > 1 THEN @ - 1 ELSE @]
      BY <1>4 DEF Answer
    <3> HIDE DEF date
    <3>2. req' = [req EXCEPT ![r] = [req[r] EXCEPT !.date = date, !.cycles = cycles]]
      BY <1>1, <3>1
    <3> QED BY <3>1, <3>2
  <2> HIDE DEF date, cycles
  <2>4. /\ new \in Request /\ new.date = date /\ new.delay = req[r].delay
    <3>1. req[r] \in Request
      BY <1>1
    <3> QED BY <2>1, <2>2, <3>1 DEF Request
  <2> HIDE DEF new
  <2>5. /\ req' \in [Fn -> Request] /\ req'[r] = new
        /\ \A p \in Fn : p # r => req'[p] = req[p]
    BY <1>1, <2>3, <2>4
  <2>6. \A p \in Live' \cup dropped' : req'[p].delay # 0 \/ req'[p].cycles = 1
    <3> TAKE p \in Live' \cup dropped'
    <3>1. p \in Live \cup dropped /\ p \in Fn
      BY <1>2, <2>3 DEF RequestsOK, Members
    <3>2. req[p].delay # 0 \/ req[p].cycles = 1
      BY <3>1 DEF RequestsOK
    <3> QED BY <1>4, <2>4, <2>5, <3>1, <3>2
  <2>7. \A p \in Fn : req'[p].delay \in Delay \cup {0, 1}
    BY <2>4, <2>5 DEF RequestsOK
  <2>8. RequestsOK'
    BY <1>1, <1>2, <2>3, <2>5, <2>6, <2>7 DEF RequestsOK
  <2> QED BY <1>2, <1>4, <2>1, <2>3, <2>4, <2>5, <2>8 DEF date
<1> QED BY <1>3, <1>4

-----------------------------------------------------------------------------
(* The kernel's invariant, at the steps of the agent.                        *)

LEMMA ScheduledKeeps ==
  ASSUME ListsOK, NEW r \in Fn, NEW d \in Nat, Schedule(r, d)
  PROVE  ListsOK' /\ Members(byTime) \subseteq Members(byTime)'
<1>1. CASE \E b \in Block \ Members(byTime) : Insert(b, r, PriorityMax, d)
  BY <1>1, InsertKeeps, TimerConstants
<1>2. CASE UNCHANGED <<byTime, byPriority, entry>>
  BY <1>2, QuietLists
<1> QED BY <1>1, <1>2 DEF Schedule

LEMMA AnswerKeeps ==
  ASSUME ListsOK, RequestsOK, NEW r \in Fn, Answer(r), UNCHANGED cur_time
  PROVE  ListsOK' /\ Members(byTime) \subseteq Members(byTime)'
<1>1. CASE UNCHANGED <<byTime, byPriority, entry>>
  BY <1>1, QuietLists
<1>2. CASE Schedule(r, NextDate(req[r]))
  <2>1. cur_time' \in Nat
    BY DEF RequestsOK
  <2>2. NextDate(req[r]) \in Nat
    BY <2>1, RequestIs DEF NextDate
  <2> QED BY <1>2, <2>2, ScheduledKeeps
<1> QED BY <1>1, <1>2 DEF Answer

(* A client's call is for a request of an unused address, or drops some.     *)
LEMMA ClientCallIs ==
  ASSUME ClientCall, ClockOK
  PROVE  /\ In("module")
         /\ \/ \E r \in Fn, q \in Client, tag \in Tag, delay \in Delay \cup {0, 1}, cycles \in Nat :
                 \E n \in Delay \cup {1} :
                   /\ req[r] = Unused /\ (delay # 0 \/ cycles = 1)
                   /\ clock + n \in Nat /\ clock + n < Never
                   /\ ScheduleAsync(r, PriorityMax, clock + n) \/ ScheduleAsyncFails
                   /\ RequestCreate(r, q, tag, delay, cycles, clock + n)
            \/ \E S \in SUBSET Live : Drop(S)
<1>1. \A n \in Delay \cup {1} : clock + n \in Nat /\ clock + n < Never
  <2> TAKE n \in Delay \cup {1}
  <2>1. n \in Nat /\ MaxClock + n < Never /\ MaxClock \in Nat /\ Never \in Nat
    BY TimerConstants
  <2>2. clock \in Nat /\ clock =< MaxClock
    BY TimerConstants DEF ClockOK
  <2> QED BY <2>1, <2>2
<1>2. ASSUME NEW r \in Fn, req[r] = Unused, NEW q \in Client, NEW tag \in Tag, NEW n \in Delay,
             NEW c \in Cycles, CreateClock(r, q, tag, n, c)
      PROVE  \E delay \in Delay \cup {1} :
               /\ delay \in Delay \cup {0, 1} /\ delay # 0
               /\ ScheduleAsync(r, PriorityMax, clock + delay) \/ ScheduleAsyncFails
               /\ RequestCreate(r, q, tag, delay, c, clock + delay)
  BY <1>2 DEF CreateClock
<1>3. \A c \in Cycles : c \in Nat
  BY TimerAssumption
<1>4. CASE \E r \in {r \in Fn : req[r] = Unused}, q \in Client, tag \in Tag, n \in Delay :
             \E c \in Cycles : CreateClock(r, q, tag, n, c)
  BY <1>1, <1>2, <1>3, <1>4 DEF ClientCall
<1>5. CASE \E r \in {r \in Fn : req[r] = Unused}, q \in Client, tag \in Tag, n \in Delay :
             CreateWakeup(r, q, tag, clock + n)
  BY <1>1, <1>5 DEF ClientCall, CreateWakeup
<1>6. CASE \E q \in Client : \/ FlushRequestsForClient(q)
                             \/ \E tag \in Tag : ClearRequestsMatchingTag(q, tag)
  BY <1>6 DEF ClientCall, FlushRequestsForClient, ClearRequestsMatchingTag
<1> QED BY <1>4, <1>5, <1>6 DEF ClientCall

(* sleep_until_time runs only where it is the blocking function.             *)
LEMMA SleepStepsAre ==
  ASSUME RequestsOK,
         SleepForever \/ SleepTooLong \/ Sleep \/ SleepAnswer \/ SleepSkip \/ SleepEnd
  PROVE  blocking # "other"
<1>1. SleepForever \/ SleepTooLong \/ Sleep => blocking # "other"
  BY DEF SleepForever, SleepTooLong, Sleep, Sleeping
<1>2. Len(requests) \in Nat /\ DOMAIN requests = 1 .. Len(requests)
  BY DEF RequestsOK
<1>3. SleepAnswer \/ SleepSkip \/ SleepEnd => loopreq # 0
  BY <1>2 DEF SleepAnswer, SleepSkip, SleepEnd
<1> QED BY <1>1, <1>3 DEF RequestsOK

LEMMA WaitReturnsKeeps ==
  ASSUME AInv, NEW c \in Int, WaitReturns(c)
  PROVE  AInv'
<1>1. ListsOK' /\ WalkOK'
  BY ShutdownSteps DEF AInv
<1>2. UNCHANGED <<clock, cur_date>>
  BY DEF WaitReturns, Return, reading
<1>3. ClockOK'
  BY <1>2 DEF AInv, ClockOK
<1> QED BY <1>1, <1>3 DEF AInv

(* Each step of the agent in the kernel keeps the kernel's invariant.        *)
LEMMA KernelKept ==
  ASSUME AInv, RequestsOK, NullsOK, rc \in Int, TNext
  PROVE  AInv'
<1> USE DEF AInv
<1>1. CASE ClientCall
  <2>1. ASSUME NEW r \in Fn, NEW n \in Delay \cup {1}, clock + n \in Nat,
               ScheduleAsync(r, PriorityMax, clock + n)
        PROVE  AInv'
    <3>1. ListsOK' /\ WalkOK'
      BY <2>1, ScheduleKeeps, TimerConstants
    <3>2. UNCHANGED <<clock, cur_date>>
      BY <2>1 DEF ScheduleAsync, MayCall, local, reading
    <3> QED BY <3>1, <3>2 DEF ClockOK
  <2>2. ASSUME ScheduleAsyncFails PROVE AInv'
    <3>1. UNCHANGED <<byTime, byPriority, entry, pc, caller, async, clock, cur_date>>
      BY <2>2 DEF ScheduleAsyncFails, MayCall, lists, local, reading
    <3> QED BY <3>1, StillSteps DEF ClockOK
  <2>3. ASSUME NEW S, Drop(S) PROVE AInv'
    <3>1. UNCHANGED <<pc, caller, async, clock, cur_date>> /\ Nullify(S)
      BY <2>3 DEF Drop, MayCall, local, reading
    <3>2. ListsOK' /\ Members(byTime)' = Members(byTime)
      BY <3>1, NullifyKeeps
    <3> QED BY <3>1, <3>2, UserWalk DEF ClockOK
  <2> QED BY <1>1, <2>1, <2>2, <2>3, ClientCallIs
<1>2. ASSUME NEW r \in Fn, Answer(r), UNCHANGED <<cur_time, pc, caller, local, clock>> PROVE AInv'
  <2>1. ListsOK' /\ Members(byTime) \subseteq Members(byTime)'
    BY <1>2, AnswerKeeps
  <2>2. UNCHANGED <<async, cur_date>>
    BY <1>2 DEF local, reading
  <2> QED BY <1>2, <2>1, <2>2, UserWalk DEF ClockOK
<1>3. CASE GenerateResponseEvent
  <2>1. async \in Members(byTime)
    BY <1>3 DEF GenerateResponseEvent, WalkOK
  <2>2. entry[async].fn \in Fn
    BY <1>3, <2>1, MembersAreBlocks, EntryOf DEF GenerateResponseEvent, NullsOK, Walking
  <2> QED BY <1>2, <1>3, <2>2 DEF GenerateResponseEvent
<1>4. CASE SleepAnswer
  <2>1. requests[loopreq] \in Fn
    BY <1>4 DEF SleepAnswer, RequestsOK
  <2> QED BY <1>2, <1>4, <2>1 DEF SleepAnswer
<1>5. CASE SleepForever \/ SleepTooLong \/ SleepEnd
  <2>1. \E c \in Int : WaitReturns(c)
    BY <1>5 DEF SleepForever, SleepTooLong, SleepEnd
  <2> QED BY <2>1, WaitReturnsKeeps
<1>6. CASE Sleep \/ SleepSkip \/ ThreadWakes
  <2>1. UNCHANGED <<byTime, byPriority, entry, pc, caller, async, clock, cur_date>>
    BY <1>6 DEF Sleep, SleepSkip, ThreadWakes, WakeThread, MayCall, vars, lists, local, reading
  <2> QED BY <2>1, StillSteps DEF ClockOK
<1>7. CASE Kernel
  BY <1>7, ExecSteps, ClockKept DEF Kernel
<1>8. CASE TimePasses
  <2>1. Tick /\ UNCHANGED <<byTime, byPriority, entry, pc, caller, async>>
    BY <1>8 DEF TimePasses, Tick, lists, local
  <2> QED BY <2>1, StillSteps, ClockKept
<1> QED BY <1>1, <1>3, <1>4, <1>5, <1>6, <1>7, <1>8 DEF TNext

(* ... and the list of requests.                                             *)
LEMMA RequestsKept ==
  ASSUME AInv, RequestsOK, NullsOK, TNext
  PROVE  RequestsOK' /\ blocking' = blocking
<1>1. CASE ClientCall
  BY <1>1, ClientCallIs, RequestCreated, RequestsDropped DEF AInv
<1>2. CASE GenerateResponseEvent
  <2>1. async \in Members(byTime) /\ ListsOK
    BY <1>2 DEF GenerateResponseEvent, AInv, WalkOK
  <2>2. entry[async].fn \in Fn
    BY <1>2, <2>1, MembersAreBlocks, EntryOf DEF GenerateResponseEvent, NullsOK, Walking
  <2> QED BY <1>2, <2>2, RequestAnswered DEF GenerateResponseEvent
<1>3. CASE SleepAnswer
  <2>1. requests[loopreq] \in Fn
    BY <1>3 DEF SleepAnswer, RequestsOK
  <2> QED BY <1>3, <2>1, RequestAnswered, SleepStepsAre DEF SleepAnswer
<1>4. CASE SleepForever \/ SleepTooLong \/ Sleep \/ SleepSkip \/ SleepEnd
  <2>1. blocking # "other"
    BY <1>4, SleepStepsAre
  <2>2. /\ UNCHANGED <<requests, req, blocking, dropped>>
        /\ cur_time' \in {cur_time, clock}
    BY <1>4 DEF SleepForever, SleepTooLong, Sleep, SleepSkip, SleepEnd, timer
  <2>3. cur_time' \in Nat
    BY <2>2, TimerConstants DEF RequestsOK, AInv, ClockOK
  <2> QED BY <2>1, <2>2, <2>3 DEF RequestsOK
<1>5. CASE Kernel \/ TimePasses \/ ThreadWakes
  <2>1. UNCHANGED timer
    BY <1>5 DEF Kernel, TimePasses, ThreadWakes
  <2> QED BY <2>1 DEF timer, RequestsOK
<1> QED BY <1>1, <1>2, <1>3, <1>4, <1>5 DEF TNext

-----------------------------------------------------------------------------
(* Functions that were descheduled.                                          *)

(* A function that is scheduled has an address.                              *)
LEMMA InsertNulls ==
  ASSUME ListsOK, NEW b \in Block \ Members(byTime), NEW r \in Fn, NEW p \in Nat, NEW d \in Nat,
         Insert(b, r, p, d)
  PROVE  /\ Members(byTime)' = Members(byTime) \cup {b}
         /\ entry'[b].fn = r /\ entry'[b].date = d /\ r # None
         /\ \A c \in Members(byTime) : c # b /\ entry'[c] = entry[c]
<1>1. Members(byTime)' = Members(byTime) \cup {b}
  BY InsertKeeps
<1>2. entry'[b] = [fn |-> r, priority |-> p, date |-> d] /\ \A c \in Block : c # b => entry'[c] = entry[c]
  BY DEF Insert, ListsOK
<1>3. Members(byTime) \subseteq Block
  BY MembersAreBlocks
<1> QED BY <1>1, <1>2, <1>3, TimerConstants

LEMMA NullsStill ==
  ASSUME NullsOK, UNCHANGED <<pc, caller, async, async_removed>>,
         Members(byTime) \subseteq Members(byTime)',
         \A b \in Members(byTime) : entry'[b] = entry[b],
         \A b \in Members(byTime)' : b \in Members(byTime) \/ entry'[b].fn # None
  PROVE  NullsOK'
BY DEF NullsOK, Walking, In

(* Where nothing is walked, and the lists stay.                              *)
LEMMA NullsElsewhere ==
  ASSUME NullsOK, UNCHANGED <<byTime, entry, async_removed>>,
         pc' \notin {"null_call", "freed_read", "due", "idle"}, ~In("async")', ~In("idle")'
  PROVE  NullsOK'
<1>1. Members(byTime)' = Members(byTime)
  OBVIOUS
<1> QED BY <1>1 DEF NullsOK, Walking

(* ... or are emptied.                                                       *)
LEMMA NullsEmptied ==
  ASSUME Members(byTime)' = {}, pc' \notin {"null_call", "freed_read", "idle"}
  PROVE  NullsOK'
BY DEF NullsOK

LEMMA NullsDescheduled ==
  ASSUME ListsOK, NullsOK, NEW S \in SUBSET Fn, Nullify(S), In("module"),
         UNCHANGED <<pc, caller, async>>
  PROVE  NullsOK'
<1>1. Members(byTime)' = Members(byTime) /\ Members(byTime) \subseteq Block
  BY NullifyKeeps, MembersAreBlocks
<1>2. ASSUME NEW b \in Members(byTime), entry'[b].fn = None PROVE async_removed'
  <2>1. CASE entry[b].fn = None
    BY <2>1 DEF NullsOK, Nullify
  <2>2. CASE entry[b].fn # None
    <3>1. entry[b].fn \in S
      BY <1>1, <1>2, <2>2 DEF Nullify
    <3>2. entry[b].fn \in Functions
      BY <2>2 DEF Functions
    <3> QED BY <3>1, <3>2 DEF Nullify
  <2> QED BY <2>1, <2>2
<1> QED BY <1>1, <1>2 DEF NullsOK, Walking, In

(* The steps of smt_exec.                                                    *)
LEMMA NullsExec ==
  ASSUME AInv, NullsOK, Exec \/ SmtExec
  PROVE  NullsOK'
<1> USE DEF AInv
<1>1. CASE \/ LoopEnd \/ PollRemove \/ PollCountDown \/ PollCall \/ PollReturn \/ IdleEnd
           \/ FirstEvent \/ Module \/ ReturnPlain \/ ReturnRecycled \/ ReturnBroken \/ ListEnd
           \/ WaitCall \/ NoWait \/ SmtExec
  <2>1. UNCHANGED <<byTime, entry, async_removed>>
    BY <1>1 DEF LoopEnd, PollRemove, PollCountDown, PollCall, PollReturn, IdleEnd, FirstEvent,
       Module, ReturnPlain, ReturnRecycled, ReturnBroken, ListEnd, WaitCall, NoWait, SmtExec, lists
  <2>2. /\ pc' \in {"call", "main", "polls", "dialog", "modules", "dialog_end"}
        /\ pc' = "call" => caller' \in {"poll", "module", "wait"}
    BY <1>1 DEF LoopEnd, PollRemove, PollCountDown, PollCall, PollReturn, IdleEnd, FirstEvent,
       Module, ReturnPlain, ReturnRecycled, ReturnBroken, ListEnd, WaitCall, NoWait, SmtExec, Goto,
       Enter, Return
  <2>3. ~In("async")' /\ ~In("idle")' /\ pc' \notin {"null_call", "freed_read", "due", "idle"}
    BY <2>2 DEF In
  <2> QED BY <2>1, <2>3, NullsElsewhere
<1>2. ASSUME RequestAllThreadsShutdown \/ ShutdownIfRequested \/ UNCHANGED <<byTime, byPriority, entry>>,
             async_removed' = async_removed,
             pc' \in {"polls", "dialog_end", "modules", "loop", "wait", "main"}
      PROVE  NullsOK'
  <2>1. ~In("async")' /\ ~In("idle")' /\ pc' \notin {"null_call", "freed_read", "due", "idle"}
    BY <1>2 DEF In
  <2>2. CASE RequestAllThreadsShutdown
    BY <2>1, <2>2, ShutdownKeeps, NullsEmptied
  <2>3. CASE UNCHANGED <<byTime, byPriority, entry>>
    BY <1>2, <2>1, <2>3, NullsElsewhere
  <2> QED BY <1>2, <2>2, <2>3 DEF ShutdownIfRequested
<1>3. CASE PollFails \/ StartDialog \/ DialogEnd \/ WaitReturn
  <2>1. /\ RequestAllThreadsShutdown \/ ShutdownIfRequested \/ UNCHANGED <<byTime, byPriority, entry>>
        /\ async_removed' = async_removed
        /\ pc' \in {"polls", "dialog_end", "modules", "loop", "wait", "main"}
    BY <1>3 DEF PollFails, StartDialog, DialogEnd, WaitReturn, WaitReturns, Goto, Return
  <2> QED BY <1>2, <2>1
<1>4. ~AsyncFails
  BY TimerAssumption DEF AsyncFails, Allowed
<1>5. CASE StartAsync
  <2>1. pc' = "due" /\ async_removed' = FALSE
    BY <1>5 DEF StartAsync, Goto
  <2>2. \A b \in Members(byTime)' : entry'[b].fn # None
    <3>1. CASE RequestAllThreadsShutdown
      BY <3>1, ShutdownKeeps
    <3>2. CASE Destroy({b \in Block : async_removed /\ entry[b].fn = None})
      <4> DEFINE S == {b \in Block : async_removed /\ entry[b].fn = None}
      <4>1. Members(byTime)' = Members(byTime) \ S
        BY <3>2, DestroyKeeps
      <4>2. \A b \in Block \ S : entry'[b] = entry[b]
        BY <3>2 DEF Destroy
      <4>3. \A b \in Members(byTime) : b \in Block /\ (entry[b].fn = None => b \in S)
        BY MembersAreBlocks DEF NullsOK
      <4> HIDE DEF S
      <4> QED BY <4>1, <4>2, <4>3
    <3> QED BY <1>5, <3>1, <3>2 DEF StartAsync
  <2> QED BY <2>1, <2>2 DEF NullsOK
<1>6. CASE DueCall \/ IdleCall
  <2>1. async \in Members(byTime) /\ entry[async].fn # None
    BY <1>6 DEF DueCall, IdleCall, WalkOK, NullsOK, Walking
  <2>2. pc' = "call" /\ UNCHANGED <<byTime, entry, async_removed>>
    BY <1>6, <2>1 DEF DueCall, IdleCall, Enter, lists
  <2>3. pc \in {"due", "idle"}
    BY <1>6 DEF DueCall, IdleCall
  <2> QED BY <2>2, <2>3 DEF NullsOK, Walking, Members
<1>7. CASE DueOutranked \/ DueEnd \/ IdleSkip
  <2>1. /\ pc' \in {"due", "idle"} /\ pc \in {"due", "idle"}
        /\ UNCHANGED <<byTime, entry, async_removed>>
    BY <1>7 DEF DueOutranked, DueEnd, IdleSkip, Goto, lists
  <2>2. pc' = "idle" => async' \in Members(byTime) \cup {ListHead}
    BY <1>7, NextOfIs DEF DueOutranked, DueEnd, IdleSkip, Goto, WalkOK
  <2> QED BY <2>1, <2>2 DEF NullsOK, Walking, Members
<1>8. CASE AsyncReturn
  <2>1. pc' \in {"due", "idle"} /\ Walking /\ async_removed' = async_removed
    BY <1>8 DEF AsyncReturn, Goto, Walking, In
  <2>2. async \in Members(byTime)
    BY <1>8 DEF AsyncReturn, WalkOK, In
  <2>3. Members(byTime)' = Members(byTime) \ {async}
    BY <1>8, DestroyKeeps DEF AsyncReturn
  <2>4. async' \in Members(byTime)' \cup {ListHead}
    BY <1>8, <2>2, <2>3, NextOfIs DEF AsyncReturn
  <2>5. \A b \in Members(byTime)' : entry'[b] = entry[b]
    BY <1>8, <2>3, MembersAreBlocks DEF AsyncReturn, Destroy
  <2> QED BY <2>1, <2>3, <2>4, <2>5 DEF NullsOK
<1>9. ~IdleDangles
  BY DEF IdleDangles, NullsOK
<1> QED BY <1>1, <1>3, <1>4, <1>5, <1>6, <1>7, <1>8, <1>9 DEF Exec

LEMMA NullsKept ==
  ASSUME AInv, RequestsOK, NullsOK, TNext
  PROVE  NullsOK'
<1> USE DEF AInv
<1>1. ASSUME UNCHANGED <<byTime, entry, async_removed, pc, caller, async>> PROVE NullsOK'
  BY <1>1, NullsStill
<1>2. ASSUME NEW b \in Block \ Members(byTime), NEW r \in Fn, NEW d \in Nat,
             Insert(b, r, PriorityMax, d), UNCHANGED <<pc, caller, async, async_removed>>
      PROVE  NullsOK'
  <2>1. /\ Members(byTime)' = Members(byTime) \cup {b} /\ entry'[b].fn # None
        /\ \A c \in Members(byTime) : entry'[c] = entry[c]
    BY <1>2, InsertNulls, TimerConstants
  <2> QED BY <1>2, <2>1, NullsStill
<1>3. CASE ClientCall
  <2>1. ASSUME NEW r \in Fn, NEW d \in Nat, ScheduleAsync(r, PriorityMax, d) PROVE NullsOK'
    <3>1. /\ \E b \in Block \ Members(byTime) : Insert(b, r, PriorityMax, d)
          /\ UNCHANGED <<pc, caller, async, async_removed>>
      BY <2>1 DEF ScheduleAsync, MayCall, local
    <3> QED BY <1>2, <3>1
  <2>2. ScheduleAsyncFails => NullsOK'
    <3>1. ScheduleAsyncFails => UNCHANGED <<byTime, entry, async_removed, pc, caller, async>>
      BY DEF ScheduleAsyncFails, MayCall, lists, local
    <3> QED BY <1>1, <3>1
  <2>3. ASSUME NEW S \in SUBSET Live, Drop(S), In("module") PROVE NullsOK'
    <3>1. Nullify(S) /\ UNCHANGED <<pc, caller, async>> /\ S \in SUBSET Fn
      BY <2>3, LiveAddresses DEF Drop, MayCall, local
    <3> QED BY <2>3, <3>1, NullsDescheduled
  <2> QED BY <1>3, <2>1, <2>2, <2>3, ClientCallIs
<1>4. ASSUME NEW r \in Fn, Answer(r), UNCHANGED <<cur_time, pc, caller, async, async_removed>>
      PROVE  NullsOK'
  <2>1. NextDate(req[r]) \in Nat
    BY <1>4, RequestIs DEF NextDate, RequestsOK
  <2>2. \/ UNCHANGED <<byTime, entry>>
        \/ \E b \in Block \ Members(byTime) : Insert(b, r, PriorityMax, NextDate(req[r]))
    BY <1>4 DEF Answer, Schedule
  <2> QED BY <1>1, <1>2, <1>4, <2>1, <2>2
<1>5. CASE GenerateResponseEvent
  <2>1. async \in Members(byTime)
    BY <1>5 DEF GenerateResponseEvent, WalkOK
  <2>2. entry[async].fn \in Fn
    BY <1>5, <2>1, MembersAreBlocks, EntryOf DEF GenerateResponseEvent, NullsOK, Walking
  <2> QED BY <1>4, <1>5, <2>2 DEF GenerateResponseEvent, local
<1>6. CASE SleepAnswer
  <2>1. requests[loopreq] \in Fn
    BY <1>6 DEF SleepAnswer, RequestsOK
  <2> QED BY <1>4, <1>6, <2>1 DEF SleepAnswer, local
<1>7. CASE SleepForever \/ SleepTooLong \/ SleepEnd
  <2>1. PICK c : WaitReturns(c)
    BY <1>7 DEF SleepForever, SleepTooLong, SleepEnd
  <2>2. /\ RequestAllThreadsShutdown \/ UNCHANGED <<byTime, byPriority, entry>>
        /\ async_removed' = async_removed /\ pc' \in {"loop", "main"}
    BY <2>1 DEF WaitReturns, Goto, Return
  <2>3. ~In("async")' /\ ~In("idle")' /\ pc' \notin {"null_call", "freed_read", "due", "idle"}
    BY <2>2 DEF In
  <2>4. CASE RequestAllThreadsShutdown
    BY <2>3, <2>4, ShutdownKeeps, NullsEmptied
  <2>5. CASE UNCHANGED <<byTime, byPriority, entry>>
    BY <2>2, <2>3, <2>5, NullsElsewhere
  <2> QED BY <2>2, <2>4, <2>5
<1>8. CASE Sleep \/ SleepSkip \/ ThreadWakes \/ TimePasses
  <2>1. UNCHANGED <<byTime, entry, async_removed, pc, caller, async>>
    BY <1>8 DEF Sleep, SleepSkip, ThreadWakes, WakeThread, TimePasses, Tick, MayCall, vars, lists,
       local
  <2> QED BY <1>1, <2>1
<1>9. CASE Kernel
  BY <1>9, NullsExec DEF Kernel
<1> QED BY <1>3, <1>5, <1>6, <1>7, <1>8, <1>9 DEF TNext

(* What is being called stays due.                                           *)
LEMMA DueKept ==
  ASSUME AInv, RequestsOK, NullsOK, DueOK, TNext
  PROVE  DueOK'
<1> SUFFICES ASSUME In("async")' PROVE entry'[async'].date =< clock'
  BY DEF DueOK
<1>1. CASE GenerateResponseEvent \/ SleepAnswer
  <2>1. UNCHANGED <<pc, caller, async, clock>>
    BY <1>1 DEF GenerateResponseEvent, SleepAnswer, local
  <2>2. In("async") /\ async \in Members(byTime) /\ async \in Block
    BY <2>1, MembersAreBlocks DEF In, AInv, WalkOK
  <2>3. PICK r \in Fn : Answer(r) /\ cur_time' = cur_time
    <3>1. entry[async].fn \in Fn
      BY <2>2, EntryOf DEF NullsOK, Walking, AInv
    <3>2. SleepAnswer => requests[loopreq] \in Fn
      BY DEF SleepAnswer, RequestsOK
    <3> QED BY <1>1, <3>1, <3>2 DEF GenerateResponseEvent, SleepAnswer
  <2>4. entry'[async] = entry[async]
    <3>1. NextDate(req[r]) \in Nat
      BY <2>3, RequestIs DEF NextDate, RequestsOK
    <3>2. \/ UNCHANGED entry
          \/ \E b \in Block \ Members(byTime) : Insert(b, r, PriorityMax, NextDate(req[r]))
      BY <2>3 DEF Answer, Schedule
    <3> QED BY <2>2, <3>1, <3>2, InsertNulls, TimerConstants DEF AInv
  <2> QED BY <2>1, <2>2, <2>4 DEF DueOK
<1>2. CASE Kernel
  <2>1. CASE In("async")
    <3>1. AsyncReturn \/ AsyncFails
      BY <1>2, <2>1 DEF Kernel, Exec, LoopEnd, PollRemove, PollCountDown, PollCall, PollReturn,
         PollFails, StartAsync, DueCall, DueOutranked, DueEnd, IdleCall, IdleSkip, IdleDangles,
         IdleEnd, StartDialog, FirstEvent, Module, ReturnPlain, ReturnRecycled, ReturnBroken,
         ListEnd, DialogEnd, WaitCall, NoWait, WaitReturn, WaitReturns, SmtExec, Polling, In
    <3>2. pc' # "call"
      BY <3>1 DEF AsyncReturn, AsyncFails, Goto
    <3> QED BY <3>2 DEF In
  <2>2. CASE ~In("async")
    <3>1. DueCall
      BY <1>2, <2>2, DueCallOnly DEF Kernel, Next
    <3>2. UNCHANGED <<entry, async, clock>>
      BY <3>1 DEF DueCall, lists, Steady
    <3> QED BY <3>1, <3>2, DueCallIs
  <2> QED BY <2>1, <2>2
<1>3. CASE ClientCall
  <2>1. In("module") /\ UNCHANGED <<pc, caller>>
    BY <1>3 DEF ClientCall, CreateClock, CreateWakeup, FlushRequestsForClient,
       ClearRequestsMatchingTag, Drop, ScheduleAsync, ScheduleAsyncFails, MayCall
  <2> QED BY <2>1 DEF In
<1>4. CASE SleepForever \/ SleepTooLong \/ SleepEnd
  <2>1. pc' \in {"loop", "main"}
    BY <1>4 DEF SleepForever, SleepTooLong, SleepEnd, WaitReturns, Goto, Return
  <2> QED BY <2>1 DEF In
<1>5. CASE Sleep \/ SleepSkip \/ ThreadWakes \/ TimePasses
  <2>1. UNCHANGED <<entry, pc, caller, async>> /\ (clock' = clock \/ clock' = clock + 1)
    BY <1>5 DEF Sleep, SleepSkip, ThreadWakes, WakeThread, TimePasses, Tick, MayCall, vars, lists,
       local
  <2>2. entry[async].date =< clock /\ entry[async].date \in Nat /\ clock \in Nat
    <3>1. In("async")
      BY <2>1 DEF In
    <3> QED BY <3>1, MembersAreBlocks, EntryOf, TimerConstants DEF DueOK, AInv, WalkOK, ClockOK
  <2> QED BY <2>1, <2>2
<1> QED BY <1>1, <1>2, <1>3, <1>4, <1>5 DEF TNext

-----------------------------------------------------------------------------
(* The requests and what is scheduled for them.                              *)

(* Fewer functions, and fewer requests: those of the functions that went.    *)
LEMMA AheadShrinks ==
  ASSUME ScheduledOK, ~In("idle")',
         \A b \in Ahead' : /\ b \in Ahead /\ entry[b].fn \in Live'
                           /\ entry'[b].fn = entry[b].fn /\ entry'[b].date = entry[b].date,
         \A r \in Live' : r \in Live /\ req'[r].date = req[r].date,
         \A b \in Ahead : entry[b].fn \in Live' => b \in Ahead',
         told => told', smt_errno # "none" => smt_errno' # "none"
  PROVE  ScheduledOK'
<1>1. \A b \in Ahead' : entry'[b].fn \in Live' /\ entry'[b].date = req'[entry'[b].fn].date
  BY DEF ScheduledOK
<1>2. \A b, c \in Ahead' : entry'[b].fn = entry'[c].fn => b = c
  BY DEF ScheduledOK
<1>3. ASSUME NEW r \in Live', ~told', smt_errno' = "none"
      PROVE  \E b \in Ahead' : entry'[b].fn = r
  <2>1. PICK b \in Ahead : entry[b].fn = r
    BY <1>3 DEF ScheduledOK
  <2>2. b \in Ahead'
    BY <1>3, <2>1
  <2> QED BY <2>1, <2>2
<1>4. \A r \in Live' : req'[r].date < Never
  BY DEF ScheduledOK
<1> QED BY <1>1, <1>2, <1>3, <1>4 DEF ScheduledOK

(* One request is scheduled anew, in block b.                                *)
LEMMA AheadGrows ==
  ASSUME ScheduledOK, ~In("idle")', NEW r0, NEW b0 \in Ahead',
         entry'[b0].fn = r0, entry'[b0].date = req'[r0].date, req'[r0].date < Never,
         \A b \in Ahead' : b = b0 \/ /\ b \in Ahead /\ entry[b].fn # r0
                                     /\ entry'[b].fn = entry[b].fn
                                     /\ entry'[b].date = entry[b].date,
         Live' = Live \cup {r0},
         \A r \in Live : r # r0 => req'[r].date = req[r].date,
         \A b \in Ahead : entry[b].fn # r0 => b \in Ahead' /\ b # b0,
         told => told', smt_errno # "none" => smt_errno' # "none"
  PROVE  ScheduledOK'
<1>1. \A b \in Ahead' : entry'[b].fn \in Live' /\ entry'[b].date = req'[entry'[b].fn].date
  BY DEF ScheduledOK
<1>2. \A b, c \in Ahead' : entry'[b].fn = entry'[c].fn => b = c
  BY DEF ScheduledOK
<1>3. ASSUME NEW r \in Live', ~told', smt_errno' = "none"
      PROVE  \E b \in Ahead' : entry'[b].fn = r
  <2>1. CASE r = r0
    BY <2>1
  <2>2. CASE r # r0
    <3>1. PICK b \in Ahead : entry[b].fn = r
      BY <1>3, <2>2 DEF ScheduledOK
    <3>2. b \in Ahead' /\ b # b0
      BY <2>2, <3>1
    <3> QED BY <3>1, <3>2
  <2> QED BY <2>1, <2>2
<1>4. \A r \in Live' : req'[r].date < Never
  BY DEF ScheduledOK
<1> QED BY <1>1, <1>2, <1>3, <1>4 DEF ScheduledOK

(* There is no memory to schedule it, or the program shuts down.             *)
LEMMA AheadFails ==
  ASSUME ScheduledOK, ~In("idle")', told' \/ smt_errno' # "none",
         \A b \in Ahead' : /\ b \in Ahead /\ entry[b].fn \in Live'
                           /\ req'[entry[b].fn].date = req[entry[b].fn].date
                           /\ entry'[b].fn = entry[b].fn
                           /\ entry'[b].date = entry[b].date,
         \A r \in Live' : req'[r].date < Never
  PROVE  ScheduledOK'
<1>1. \A b \in Ahead' : entry'[b].fn \in Live' /\ entry'[b].date = req'[entry'[b].fn].date
  BY DEF ScheduledOK
<1>2. \A b, c \in Ahead' : entry'[b].fn = entry'[c].fn => b = c
  BY DEF ScheduledOK
<1> QED BY <1>1, <1>2 DEF ScheduledOK

(* A client's call.                                                          *)
LEMMA ScheduledClient ==
  ASSUME AInv, RequestsOK, ScheduledOK, ClientCall
  PROVE  ScheduledOK'
<1> USE DEF AInv
<1>1. In("module")' /\ In("module")
  BY DEF ClientCall, CreateClock, CreateWakeup, FlushRequestsForClient, ClearRequestsMatchingTag,
     Drop, ScheduleAsync, ScheduleAsyncFails, MayCall, In
<1>2. /\ Ahead = {b \in Members(byTime) : Scheduled(b)}
      /\ Ahead' = {b \in Members(byTime)' : Scheduled(b)'}
      /\ ~In("idle")'
  BY <1>1 DEF Ahead, In
<1>3. ASSUME NEW r \in Fn, NEW q \in Client, NEW tag \in Tag, NEW delay \in Delay \cup {0, 1},
             NEW cycles \in Nat, NEW n \in Delay \cup {1},
             req[r] = Unused, delay # 0 \/ cycles = 1, clock + n \in Nat, clock + n < Never,
             ScheduleAsync(r, PriorityMax, clock + n) \/ ScheduleAsyncFails,
             RequestCreate(r, q, tag, delay, cycles, clock + n)
      PROVE  ScheduledOK'
  <2> DEFINE d == clock + n
  <2>1. /\ Live' = Live \cup {r} /\ r \notin Live /\ req'[r].date = d
        /\ \A p \in Fn : p # r => req'[p] = req[p]
    BY <1>3, RequestCreated
  <2>2. \A b \in Ahead : entry[b].fn \in Live /\ entry[b].fn # r
    BY <2>1 DEF ScheduledOK
  <2>3. Live \subseteq Fn
    BY LiveAddresses
  <2>4. CASE ScheduleAsync(r, PriorityMax, d)
    <3>1. PICK b0 \in Block \ Members(byTime) : Insert(b0, r, PriorityMax, d)
      BY <2>4 DEF ScheduleAsync
    <3>2. told' = told /\ smt_errno' = smt_errno
      BY <2>4 DEF ScheduleAsync, rest
    <3>3. d \in Nat /\ d < Never
      BY <1>3
    <3> HIDE DEF d
    <3>4. /\ Members(byTime)' = Members(byTime) \cup {b0}
          /\ entry'[b0].fn = r /\ entry'[b0].date = d /\ r # None
          /\ \A c \in Members(byTime) : c # b0 /\ entry'[c] = entry[c]
      BY <3>1, <3>3, InsertNulls, TimerConstants
    <3>5. b0 \in Ahead'
      BY <1>2, <3>4 DEF Scheduled
    <3>6. ASSUME NEW b \in Ahead', b # b0 PROVE b \in Ahead /\ entry'[b] = entry[b]
      <4>1. b \in Members(byTime) /\ entry'[b] = entry[b]
        BY <1>2, <3>4, <3>6
      <4>2. Scheduled(b)
        BY <1>2, <3>6, <4>1 DEF Scheduled
      <4> QED BY <1>2, <4>1, <4>2
    <3>7. \A b \in Ahead : b \in Ahead' /\ b # b0
      BY <1>2, <3>4 DEF Scheduled
    <3>8. \A p \in Live : p # r => req'[p].date = req[p].date
      BY <2>1, <2>3
    <3> QED BY <1>2, <2>1, <2>2, <3>2, <3>3, <3>4, <3>5, <3>6, <3>7, <3>8, AheadGrows
  <2>5. CASE ScheduleAsyncFails
    <3>1. smt_errno' = "OUTOFMEMORY" /\ UNCHANGED <<byTime, entry>>
      BY <2>5 DEF ScheduleAsyncFails, lists
    <3>2. Ahead' = Ahead
      BY <1>2, <3>1 DEF Scheduled
    <3>3. \A p \in Live' : req'[p].date < Never
      BY <1>3, <2>1, <2>3 DEF ScheduledOK
    <3>4. \A b \in Ahead : req'[entry[b].fn].date = req[entry[b].fn].date
      BY <2>1, <2>2, <2>3
    <3> QED BY <1>2, <2>1, <2>2, <3>1, <3>2, <3>3, <3>4, AheadFails
  <2> QED BY <1>3, <2>4, <2>5
<1>4. ASSUME NEW S \in SUBSET Live, Drop(S) PROVE ScheduledOK'
  <2>1. Live' = Live \ S /\ req' = req
    BY <1>4, RequestsDropped
  <2>2. Nullify(S) /\ told' = told /\ smt_errno' = smt_errno
    BY <1>4 DEF Drop, rest
  <2>3. /\ Members(byTime)' = Members(byTime) /\ Members(byTime) \subseteq Block
    BY <2>2, NullifyKeeps, MembersAreBlocks
  <2>4. \A b \in Members(byTime) :
          /\ entry'[b].date = entry[b].date
          /\ entry[b].fn \in S => entry'[b].fn = None
          /\ entry[b].fn \notin S => entry'[b].fn = entry[b].fn
    BY <2>2, <2>3 DEF Nullify, ListsOK, Async
  <2>5. \A b \in Ahead' : b \in Ahead /\ entry'[b].fn = entry[b].fn /\ entry[b].fn \notin S
    BY <1>2, <2>3, <2>4 DEF Scheduled
  <2>6. \A b \in Ahead : entry[b].fn \notin S => b \in Ahead'
    BY <1>2, <2>3, <2>4 DEF Scheduled
  <2>7. \A b \in Ahead' : b \in Members(byTime) /\ entry[b].fn \in Live
    BY <1>2, <2>5 DEF ScheduledOK
  <2>8. \A b \in Ahead' : entry[b].fn \in Live' /\ entry'[b].date = entry[b].date
    BY <2>1, <2>4, <2>5, <2>7
  <2> QED BY <1>2, <2>1, <2>2, <2>5, <2>6, <2>8, AheadShrinks
<1> QED BY <1>3, <1>4, ClientCallIs

(* An answer, which is for the request of the function being called.         *)
LEMMA ScheduledAnswer ==
  ASSUME AInv, RequestsOK, NullsOK, DueOK, ScheduledOK, blocking = "other", GenerateResponseEvent
  PROVE  /\ ScheduledOK'
         /\ entry[async].fn \in Live /\ req[entry[async].fn].date =< clock
<1> USE DEF AInv
<1> DEFINE r == entry[async].fn
<1>1. /\ In("async") /\ In("async")' /\ calls = 0 /\ calls' = 1 /\ async' = async
      /\ UNCHANGED <<cur_time, loopreq, told>> /\ Answer(r)
  BY DEF GenerateResponseEvent, In, local, rest
<1>2. async \in Members(byTime) /\ async \in Block /\ r # None
  BY <1>1, MembersAreBlocks DEF WalkOK, NullsOK, Walking
<1>3. /\ Ahead = {b \in Members(byTime) : Scheduled(b)}
      /\ Ahead' = {b \in Members(byTime)' : Scheduled(b)' /\ b # async}
      /\ ~In("idle")'
  BY <1>1 DEF Ahead, In
<1>4. async \in Ahead /\ r \in Live /\ req[r].date = entry[async].date
  BY <1>2, <1>3 DEF Scheduled, ScheduledOK
<1>5. r \in Fn /\ Live \subseteq Fn
  BY <1>4, LiveAddresses
<1>6. req[r].date =< clock
  BY <1>1, <1>4 DEF DueOK
<1>7. \A b \in Ahead : b # async => entry[b].fn # r /\ entry[b].fn \in Live
  BY <1>4 DEF ScheduledOK
<1> HIDE DEF r
<1>8. /\ \A p \in Fn : p # r => req'[p] = req[p]
      /\ \/ /\ req[r].cycles = 1 /\ Members(requests)' = Live \ {r} /\ req' = req
            /\ UNCHANGED <<byTime, byPriority, entry, smt_errno>>
         \/ /\ req[r].cycles # 1 /\ requests' = requests
            /\ req'[r].date = NextDate(req[r]) /\ NextDate(req[r]) \in Nat
            /\ Schedule(r, NextDate(req[r]))
  BY <1>1, <1>5, RequestAnswered
<1>9. CASE Members(requests)' = Live \ {r} /\ req' = req /\ UNCHANGED <<byTime, entry, smt_errno>>
  <2>1. Ahead' = Ahead \ {async}
    BY <1>3, <1>9 DEF Scheduled
  <2>2. \A b \in Ahead' : entry[b].fn \in Live'
    BY <1>7, <1>9, <2>1
  <2>3. \A b \in Ahead : entry[b].fn \in Live' => b \in Ahead'
    BY <1>9, <2>1 DEF r
  <2> QED BY <1>1, <1>3, <1>4, <1>6, <1>9, <2>1, <2>2, <2>3, AheadShrinks DEF r
<1>10. CASE /\ requests' = requests
            /\ req'[r].date = NextDate(req[r]) /\ NextDate(req[r]) \in Nat
            /\ Schedule(r, NextDate(req[r]))
  <2> DEFINE d == NextDate(req[r])
  <2>1. d < Never
    <3>1. cur_time' = 0
      BY <1>1 DEF RequestsOK
    <3>2. /\ req[r].date \in Nat /\ req[r].delay \in Nat /\ clock \in Nat /\ clock =< MaxClock
          /\ MaxClock + req[r].delay < Never /\ MaxClock \in Nat /\ Never \in Nat
      BY <1>5, RequestIs, TimerConstants DEF RequestsOK, ClockOK
    <3> QED BY <1>6, <3>1, <3>2 DEF NextDate
  <2>2. Live' = Live /\ Live' = Live \cup {r} /\ d \in Nat /\ req'[r].date = d /\ Schedule(r, d)
    BY <1>4, <1>10 DEF r
  <2> HIDE DEF d
  <2>3. \A p \in Live : p # r => req'[p].date = req[p].date
    BY <1>5, <1>8
  <2>4. CASE \E b \in Block \ Members(byTime) : Insert(b, r, PriorityMax, d) /\ UNCHANGED smt_errno
    <3>1. PICK b0 \in Block \ Members(byTime) : Insert(b0, r, PriorityMax, d) /\ UNCHANGED smt_errno
      BY <2>4
    <3>2. /\ Members(byTime)' = Members(byTime) \cup {b0}
          /\ entry'[b0].fn = r /\ entry'[b0].date = d /\ r # None
          /\ \A c \in Members(byTime) : c # b0 /\ entry'[c] = entry[c]
      BY <1>5, <2>2, <3>1, InsertNulls, TimerConstants
    <3>3. b0 \in Ahead'
      BY <1>2, <1>3, <3>2 DEF Scheduled
    <3>4. ASSUME NEW b \in Ahead', b # b0
          PROVE  b \in Ahead /\ entry'[b] = entry[b] /\ b # async
      <4>1. b \in Members(byTime) /\ entry'[b] = entry[b] /\ b # async
        BY <1>3, <3>2, <3>4
      <4>2. Scheduled(b)
        BY <1>3, <3>4, <4>1 DEF Scheduled
      <4> QED BY <1>3, <4>1, <4>2
    <3>5. \A b \in Ahead : b # async => b \in Ahead' /\ b # b0
      BY <1>3, <3>2 DEF Scheduled
    <3>6. \A b \in Ahead : entry[b].fn # r => b # async
      BY DEF r
    <3>7. \A b \in Ahead' : b = b0 \/ /\ b \in Ahead /\ entry[b].fn # r
                                      /\ entry'[b].fn = entry[b].fn
                                      /\ entry'[b].date = entry[b].date
      BY <1>7, <3>4
    <3>8. \A b \in Ahead : entry[b].fn # r => b \in Ahead' /\ b # b0
      BY <3>5, <3>6
    <3>9. ScheduledOK'
      BY <1>1, <1>3, <2>1, <2>2, <2>3, <3>1, <3>2, <3>3, <3>7, <3>8, AheadGrows
    <3> QED BY <1>4, <1>6, <3>9 DEF r
  <2>5. CASE smt_errno' = "OUTOFMEMORY" /\ UNCHANGED <<byTime, byPriority, entry>>
    <3>1. Ahead' = Ahead \ {async}
      BY <1>3, <2>5 DEF Scheduled
    <3>2. \A p \in Live' : req'[p].date < Never
      BY <2>1, <2>2, <2>3 DEF ScheduledOK
    <3>3. \A b \in Ahead' : /\ b \in Ahead /\ entry[b].fn \in Live'
                            /\ req'[entry[b].fn].date = req[entry[b].fn].date
      BY <1>7, <2>2, <2>3, <3>1
    <3>4. ScheduledOK'
      BY <1>3, <2>5, <3>2, <3>3, AheadFails
    <3> QED BY <1>4, <1>6, <3>4 DEF r
  <2> QED BY <2>2, <2>4, <2>5 DEF Schedule
<1> QED BY <1>8, <1>9, <1>10

(* The steps of smt_exec.  It calls no function for idle time: those that    *)
(* are ahead have the date of a request.                                     *)
LEMMA ScheduledQuiet ==
  ASSUME ScheduledOK, UNCHANGED <<byTime, entry, requests, req, told, smt_errno>>,
         ~In("async"), In("async")' => calls' = 0, ~In("idle")'
  PROVE  ScheduledOK'
<1>1. Ahead' = Ahead
  BY DEF Ahead, Scheduled, In
<1>2. Live' = Live
  OBVIOUS
<1> QED BY <1>1, <1>2, AheadShrinks DEF ScheduledOK

LEMMA ScheduledEmptied ==
  ASSUME ListsOK, ScheduledOK, RequestAllThreadsShutdown, UNCHANGED <<requests, req>>, ~In("idle")'
  PROVE  ScheduledOK'
<1>1. Ahead' = {} /\ told'
  BY ShutdownKeeps DEF Ahead, RequestAllThreadsShutdown
<1>2. Live' = Live
  OBVIOUS
<1>3. \A r \in Live' : req'[r].date < Never
  BY <1>2 DEF ScheduledOK
<1> QED BY <1>1, <1>3, AheadFails

LEMMA ScheduledStart ==
  ASSUME AInv, ScheduledOK, StartAsync, UNCHANGED <<requests, req>>
  PROVE  ScheduledOK'
<1> USE DEF AInv
<1>1. ~In("idle")' /\ ~In("async")' /\ ~In("async") /\ smt_errno' = smt_errno
  BY DEF StartAsync, Goto, In, Steady
<1>2. CASE RequestAllThreadsShutdown
  BY <1>1, <1>2, ScheduledEmptied
<1>3. CASE Destroy({b \in Block : async_removed /\ entry[b].fn = None}) /\ UNCHANGED rest
  <2> DEFINE S == {b \in Block : async_removed /\ entry[b].fn = None}
  <2>1. Members(byTime)' = Members(byTime) \ S /\ Members(byTime) \subseteq Block
    BY <1>3, DestroyKeeps, MembersAreBlocks
  <2>2. /\ \A b \in Block \ S : entry'[b] = entry[b]
        /\ \A b \in Block : entry[b].fn # None => b \notin S
    BY <1>3 DEF Destroy
  <2> HIDE DEF S
  <2>3. \A b \in Ahead' : b \in Ahead /\ entry'[b] = entry[b]
    <3> TAKE b \in Ahead'
    <3>1. b \in Members(byTime)' /\ entry'[b].fn # None
      BY DEF Ahead, Scheduled
    <3>2. b \in Members(byTime) /\ b \in Block \ S
      BY <2>1, <3>1
    <3> QED BY <1>1, <2>2, <3>1, <3>2 DEF Ahead, Scheduled
  <2>4. \A b \in Ahead : b \in Ahead'
    <3> TAKE b \in Ahead
    <3>1. b \in Members(byTime) /\ entry[b].fn # None
      BY DEF Ahead, Scheduled
    <3>2. b \in Members(byTime)' /\ b \in Block \ S
      BY <2>1, <2>2, <3>1
    <3> QED BY <1>1, <2>2, <3>1, <3>2 DEF Ahead, Scheduled
  <2>5. told' = told /\ Live' = Live
    BY <1>3 DEF rest
  <2>6. \A b \in Ahead : entry[b].fn \in Live'
    BY <2>5 DEF ScheduledOK
  <2> QED BY <1>1, <2>3, <2>4, <2>5, <2>6, AheadShrinks
<1> QED BY <1>2, <1>3 DEF StartAsync

LEMMA ScheduledReturn ==
  ASSUME AInv, ScheduledOK, AsyncReturn, In("async"), calls = 1, UNCHANGED <<requests, req>>
  PROVE  ScheduledOK'
<1> USE DEF AInv
<1>1. ~In("idle")' /\ ~In("async")' /\ smt_errno' = smt_errno /\ told' = told
  BY DEF AsyncReturn, Goto, In, Steady, rest
<1>2. Members(byTime)' = Members(byTime) \ {async} /\ Members(byTime) \subseteq Block
  BY DestroyKeeps, MembersAreBlocks DEF AsyncReturn
<1>3. \A b \in Block : b # async => entry'[b] = entry[b]
  BY DEF AsyncReturn, Destroy
<1>4. \A b \in Ahead' : b \in Ahead /\ entry'[b] = entry[b]
  <2> TAKE b \in Ahead'
  <2>1. b \in Members(byTime)' /\ entry'[b].fn # None
    BY DEF Ahead, Scheduled
  <2>2. b \in Members(byTime) /\ b # async /\ entry'[b] = entry[b]
    BY <1>2, <1>3, <2>1
  <2> QED BY <2>1, <2>2 DEF Ahead, Scheduled
<1>5. \A b \in Ahead : b \in Ahead'
  <2> TAKE b \in Ahead
  <2>1. b \in Members(byTime) /\ entry[b].fn # None /\ b # async
    BY DEF Ahead, Scheduled
  <2>2. b \in Members(byTime)' /\ entry'[b] = entry[b]
    BY <1>2, <1>3, <2>1
  <2> QED BY <1>1, <2>1, <2>2 DEF Ahead, Scheduled
<1>6. Live' = Live
  OBVIOUS
<1>7. \A b \in Ahead : entry[b].fn \in Live'
  BY <1>6 DEF ScheduledOK
<1> QED BY <1>1, <1>4, <1>5, <1>6, <1>7, AheadShrinks

LEMMA ScheduledKernel ==
  ASSUME AInv, NullsOK, ScheduledOK, Kernel
  PROVE  ScheduledOK'
<1> USE DEF AInv
<1>1. /\ Exec \/ SmtExec
      /\ In("async") => calls = 1
      /\ UNCHANGED <<requests, req>>
  BY DEF Kernel, timer
<1>2. ~AsyncFails
  BY TimerAssumption DEF AsyncFails, Allowed
<1>3. ~IdleDangles
  BY DEF IdleDangles, NullsOK
<1>4. ~IdleCall
  <2> SUFFICES ASSUME IdleCall PROVE FALSE
    OBVIOUS
  <2>1. async \in Members(byTime) /\ entry[async].fn # None /\ entry[async].date = Never
    BY DEF IdleCall, NullsOK, Walking
  <2>2. ~In("async")
    BY DEF IdleCall, In
  <2>3. async \in Ahead
    BY <2>1, <2>2 DEF Ahead, Scheduled
  <2>4. Never < Never
    BY <2>1, <2>3 DEF ScheduledOK
  <2> QED BY <2>4, TimerConstants
<1>5. CASE \/ LoopEnd \/ PollRemove \/ PollCountDown \/ PollCall \/ PollReturn \/ IdleEnd
           \/ FirstEvent \/ Module \/ ReturnPlain \/ ReturnRecycled \/ ReturnBroken \/ ListEnd
           \/ WaitCall \/ NoWait \/ SmtExec \/ DueOutranked \/ DueEnd \/ IdleSkip
  <2>1. UNCHANGED <<byTime, entry, told, smt_errno>>
    BY <1>5 DEF LoopEnd, PollRemove, PollCountDown, PollCall, PollReturn, IdleEnd, FirstEvent,
       Module, ReturnPlain, ReturnRecycled, ReturnBroken, ListEnd, WaitCall, NoWait, SmtExec,
       DueOutranked, DueEnd, IdleSkip, lists, rest, Steady, Return
  <2>2. /\ pc' \in {"call", "main", "polls", "dialog", "modules", "dialog_end", "due", "idle"}
        /\ pc' = "call" => caller' \in {"poll", "module", "wait"}
        /\ ~In("async")
    BY <1>5 DEF LoopEnd, PollRemove, PollCountDown, PollCall, PollReturn, IdleEnd, FirstEvent,
       Module, ReturnPlain, ReturnRecycled, ReturnBroken, ListEnd, WaitCall, NoWait, SmtExec,
       DueOutranked, DueEnd, IdleSkip, Goto, Enter, Return, Polling, In
  <2>3. ~In("async")' /\ ~In("idle")'
    BY <2>2 DEF In
  <2> QED BY <1>1, <2>1, <2>2, <2>3, ScheduledQuiet
<1>6. CASE PollFails \/ StartDialog \/ DialogEnd \/ WaitReturn
  <2>1. /\ RequestAllThreadsShutdown \/ UNCHANGED <<byTime, entry, told>>
        /\ smt_errno' = smt_errno
        /\ pc' \in {"polls", "dialog_end", "modules", "loop", "wait", "main"}
        /\ ~In("async")
    BY <1>6 DEF PollFails, StartDialog, DialogEnd, WaitReturn, WaitReturns, Goto, Return, Steady,
       ShutdownIfRequested, rest, In
  <2>2. ~In("async")' /\ ~In("idle")'
    BY <2>1 DEF In
  <2> QED BY <1>1, <2>1, <2>2, ScheduledQuiet, ScheduledEmptied
<1>7. CASE StartAsync
  BY <1>1, <1>7, ScheduledStart
<1>8. CASE DueCall
  <2>1. async \in Members(byTime) /\ entry[async].fn # None
    BY <1>8 DEF DueCall, WalkOK, NullsOK, Walking
  <2>2. UNCHANGED <<byTime, entry, told, smt_errno>> /\ calls' = 0 /\ pc' = "call" /\ caller' = "async"
    BY <1>8, <2>1 DEF DueCall, Enter, lists, rest, Steady
  <2>3. ~In("async") /\ ~In("idle")'
    BY <1>8, <2>2 DEF DueCall, In
  <2> QED BY <1>1, <2>2, <2>3, ScheduledQuiet
<1>9. CASE AsyncReturn
  <2>1. In("async")
    BY <1>9 DEF AsyncReturn, ScheduledOK, In
  <2> QED BY <1>1, <1>9, <2>1, ScheduledReturn
<1> QED BY <1>1, <1>2, <1>3, <1>4, <1>5, <1>6, <1>7, <1>8, <1>9 DEF Exec

LEMMA ScheduledKept ==
  ASSUME AInv, RequestsOK, NullsOK, DueOK, ScheduledOK, blocking = "other", TNext
  PROVE  ScheduledOK'
<1>1. CASE ClientCall
  BY <1>1, ScheduledClient
<1>2. CASE GenerateResponseEvent
  BY <1>2, ScheduledAnswer
<1>3. CASE Kernel
  BY <1>3, ScheduledKernel
<1>4. CASE TimePasses
  <2>1. UNCHANGED <<byTime, entry, requests, req, told, smt_errno, pc, caller, async, calls>>
    BY <1>4 DEF TimePasses, Tick, lists, local, rest, timer
  <2>2. Ahead' = Ahead /\ Live' = Live
    BY <2>1 DEF Ahead, Scheduled, In
  <2> QED BY <2>1, <2>2 DEF ScheduledOK, In
<1>5. CASE ThreadWakes
  <2>1. UNCHANGED <<byTime, entry, requests, req, told, smt_errno, pc, caller>> /\ In("wait")
    BY <1>5 DEF ThreadWakes, WakeThread, MayCall, lists, timer
  <2>2. ~In("async") /\ ~In("async")' /\ ~In("idle")'
    BY <2>1 DEF In
  <2> QED BY <2>1, <2>2, ScheduledQuiet
<1> QED BY <1>1, <1>2, <1>3, <1>4, <1>5, SleepStepsAre DEF TNext

-----------------------------------------------------------------------------
(* The invariant.                                                           *)

LEMMA InitTInv == ASSUME TInit PROVE TInv
<1>1. /\ requests = << >> /\ req = [r \in Fn |-> Unused] /\ cur_time = 0 /\ loopreq = 0 /\ rc = 0
      /\ dropped = {} /\ Init
  BY DEF TInit
<1>2. pc = "main" /\ byTime = << >>
  BY <1>1 DEF Init
<1>3. AInv
  BY <1>1, InitAInv
<1>4. Live = {} /\ Members(byTime) = {} /\ Ahead = {}
  BY <1>1, <1>2 DEF Members, Ahead
<1>5. requests \in Seq(Fn) /\ NoDuplicates(requests)
  BY <1>1 DEF NoDuplicates
<1>6. Unused \in Request /\ Unused.delay = 0
  BY DEF Unused, Request
<1>7. RequestsOK
  BY <1>1, <1>4, <1>5, <1>6 DEF RequestsOK
<1>8. NullsOK
  BY <1>2, <1>4 DEF NullsOK
<1>9. DueOK /\ ScheduledOK
  BY <1>2, <1>4 DEF DueOK, ScheduledOK, In
<1> QED BY <1>1, <1>3, <1>7, <1>8, <1>9 DEF TInv

LEMMA TInvKept ==
  ASSUME TInv, [TNext]_tvars PROVE TInv'
<1>1. CASE TNext
  <2>1. AInv' /\ RequestsOK' /\ NullsOK' /\ DueOK' /\ blocking' = blocking
    BY <1>1, KernelKept, RequestsKept, NullsKept, DueKept DEF TInv
  <2>2. blocking = "other" => ScheduledOK'
    BY <1>1, ScheduledKept DEF TInv
  <2>3. rc' \in {rc, 0, 1}
    BY <1>1 DEF TNext, ClientCall, CreateClock, CreateWakeup, RequestCreate, FlushRequestsForClient,
       ClearRequestsMatchingTag, Drop, GenerateResponseEvent, SleepForever, SleepTooLong, Sleep,
       SleepAnswer, SleepSkip, SleepEnd, Kernel, TimePasses, ThreadWakes, timer
  <2>4. rc' \in Int
    BY <2>3 DEF TInv
  <2> QED BY <2>1, <2>2, <2>4 DEF TInv
<1>2. CASE UNCHANGED tvars
  <2>1. UNCHANGED <<byTime, byPriority, entry, async_removed, pc, caller, async, clock, cur_date,
                    told, smt_errno, calls>>
    BY <1>2 DEF tvars, vars, lists, local, reading, rest
  <2>2. UNCHANGED <<requests, req, cur_time, loopreq, rc, blocking, dropped>>
    BY <1>2 DEF tvars, timer
  <2>3. AInv'
    BY <2>1, StillSteps DEF TInv, AInv, ClockOK
  <2>4. RequestsOK'
    BY <2>2 DEF TInv, RequestsOK
  <2>5. NullsOK' /\ DueOK'
    BY <2>1 DEF TInv, NullsOK, DueOK, Walking, In
  <2>6. Ahead' = Ahead /\ Live' = Live
    BY <2>1, <2>2 DEF Ahead, Scheduled, In
  <2>7. ScheduledOK => ScheduledOK'
    BY <2>1, <2>2, <2>6 DEF ScheduledOK, In
  <2> QED BY <2>2, <2>3, <2>4, <2>5, <2>7 DEF TInv
<1> QED BY <1>1, <1>2

(* The kernel's lists and the agent's list agree at every moment, whatever   *)
(* requests are made, answered and dropped, in whatever order.               *)
THEOREM TimerInvariance == TSpec => []TInv
<1>1. TInit => TInv
  BY InitTInv
<1>2. TInv /\ [TNext]_tvars => TInv'
  BY TInvKept
<1> QED BY <1>1, <1>2, PTL DEF TSpec

(* Every request is scheduled at its date by one function of the kernel, and *)
(* nothing else is, unless memory ran out or the program shuts down.         *)
THEOREM RequestsStayScheduled == TSpec => []RequestsScheduled
<1>1. TInv => RequestsScheduled
  BY DEF TInv, RequestsOK, ScheduledOK, RequestsScheduled
<1> QED BY <1>1, TimerInvariance, PTL

(* The pointer smt_exec walks the functions with never leaves the list,      *)
(* although the functions called deschedule others and themselves.           *)
THEOREM WalkStaysSafe == TSpec => []WalkIsSafe
<1>1. TInv => WalkIsSafe
  BY DEF TInv, AInv, WalkOK, NullsOK, WalkIsSafe
<1> QED BY <1>1, TimerInvariance, PTL

(* No function that was descheduled is called.                               *)
THEOREM NoNullIsCalled == TSpec => []NoNullCall
<1>1. TInv => NoNullCall
  BY DEF TInv, NullsOK, NoNullCall
<1> QED BY <1>1, TimerInvariance, PTL

(* No reply is sent early, and none for a request its client has dropped.    *)
THEOREM AnswersAreRight == TSpec => AnsweredRightly
<1>1. ASSUME TInv, [TNext]_tvars, blocking = "other", NEW r \in Fn, answers'[r] # answers[r]
      PROVE  req[r].date =< clock /\ r \in Live /\ r \notin dropped
  <2>1. GenerateResponseEvent
    <3>1. answers' # answers
      BY <1>1
    <3>2. \/ SleepForever \/ SleepTooLong \/ Sleep \/ SleepAnswer \/ SleepSkip \/ SleepEnd
          \/ GenerateResponseEvent
      BY <1>1, <3>1 DEF TNext, ClientCall, CreateClock, CreateWakeup, RequestCreate,
         FlushRequestsForClient, ClearRequestsMatchingTag, Drop, Kernel, TimePasses, ThreadWakes,
         timer, tvars
    <3> QED BY <1>1, <3>2, SleepStepsAre DEF TInv
  <2>2. entry[async].fn \in Live /\ req[entry[async].fn].date =< clock
    BY <1>1, <2>1, ScheduledAnswer DEF TInv
  <2>3. r = entry[async].fn
    <3>1. entry[async].fn \in Fn
      BY <1>1, <2>2, LiveAddresses DEF TInv
    <3>2. Answer(entry[async].fn) /\ cur_time' = cur_time /\ loopreq' = loopreq
      BY <2>1 DEF GenerateResponseEvent
    <3> QED BY <1>1, <3>1, <3>2, RequestAnswered DEF TInv
  <2> QED BY <1>1, <2>2, <2>3 DEF TInv, RequestsOK
<1>2. TInv /\ [TNext]_tvars =>
        [blocking = "other" =>
           \A r \in Fn : answers'[r] # answers[r] =>
             /\ req[r].date =< clock
             /\ r \in Live /\ r \notin dropped]_tvars
  BY <1>1
<1> QED BY <1>2, TimerInvariance, PTL DEF TSpec, AnsweredRightly
=============================================================================
