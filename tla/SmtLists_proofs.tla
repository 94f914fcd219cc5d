-------------------------- MODULE SmtLists_proofs --------------------------
(***************************************************************************)
(* What the list operators of SmtLists return, for lists of any length     *)
(* over any set of nodes.                                                  *)
(***************************************************************************)
EXTENDS SmtLists, WellFoundedInduction, TLAPS

(* PlaceOf finds a member, for thread_relink's node.                        *)
LEMMA PlaceOfMember ==
  ASSUME NEW T, NEW s \in Seq(T), NEW x \in Members(s)
  PROVE  PlaceOf(s, x) \in 1 .. Len(s) /\ s[PlaceOf(s, x)] = x
BY DEF PlaceOf, Members

(* thread_unlink gives a list, shorter by one if the node was linked.       *)
LEMMA UnlinkType ==
  ASSUME NEW T, NEW s \in Seq(T), NEW x
  PROVE  /\ Unlink(s, x) \in Seq(T)
         /\ x \in Members(s) => Len(Unlink(s, x)) = Len(s) - 1
         /\ x \notin Members(s) => Unlink(s, x) = s
<1>1. CASE x \notin Members(s)
  BY <1>1 DEF Unlink
<1>2. CASE x \in Members(s)
  <2>1. Len(s) \in Nat /\ Len(s) >= 1
    BY <1>2, PlaceOfMember
  <2>2. Unlink(s, x) = [i \in 1 .. Len(s) - 1 |->
                          IF i < PlaceOf(s, x) THEN s[i] ELSE s[i + 1]]
    BY <1>2 DEF Unlink
  <2>3. \A i \in 1 .. Len(s) - 1 : s[i] \in T /\ s[i + 1] \in T
    BY <2>1
  <2>4. Unlink(s, x) \in [1 .. Len(s) - 1 -> T]
    BY <2>2, <2>3
  <2> QED BY <1>2, <2>1, <2>4
<1> QED BY <1>1, <1>2

(* Each node of the shorter list is a node of the old one, at the same      *)
(* place or the next, and in the same order.                                *)
LEMMA UnlinkElements ==
  ASSUME NEW T, NEW s \in Seq(T), NEW x \in Members(s), NEW i \in 1 .. Len(s) - 1
  PROVE  /\ i < PlaceOf(s, x)  => Unlink(s, x)[i] = s[i]
         /\ i >= PlaceOf(s, x) => Unlink(s, x)[i] = s[i + 1]
<1>1. PlaceOf(s, x) \in 1 .. Len(s)
  BY PlaceOfMember
<1> QED BY <1>1 DEF Unlink

(* thread_unlink removes the node and nothing else.                         *)
LEMMA UnlinkMembers ==
  ASSUME NEW T, NEW s \in Seq(T), NEW x, NoDuplicates(s)
  PROVE  Members(Unlink(s, x)) = Members(s) \ {x} /\ NoDuplicates(Unlink(s, x))
<1>1. CASE x \notin Members(s)
  BY <1>1, UnlinkType
<1>2. CASE x \in Members(s)
  <2> DEFINE p == PlaceOf(s, x)
             u == Unlink(s, x)
  <2>1. p \in 1 .. Len(s) /\ s[p] = x
    BY <1>2, PlaceOfMember
  <2>2. u \in Seq(T) /\ Len(u) = Len(s) - 1
    BY <1>2, UnlinkType
  <2>3. \A i \in 1 .. Len(s) - 1 : u[i] = IF i < p THEN s[i] ELSE s[i + 1]
    <3> TAKE i \in 1 .. Len(s) - 1
    <3>1. i < p \/ i >= p
      BY <2>1
    <3> QED BY <1>2, <3>1, UnlinkElements
  <2>4. Len(s) \in Nat /\ DOMAIN s = 1 .. Len(s) /\ DOMAIN u = 1 .. Len(s) - 1
    BY <2>2
  <2> HIDE DEF p, u
  <2>5. ASSUME NEW y \in Members(u) PROVE y \in Members(s) \ {x}
    <3>1. PICK i \in 1 .. Len(s) - 1 : y = u[i]
      BY <2>4, <2>5 DEF Members
    <3>2. CASE i < p
      <4>1. y = s[i] /\ i \in DOMAIN s /\ i # p
        BY <3>1, <3>2, <2>3, <2>4, <2>1
      <4> QED BY <4>1, <2>1, <2>4 DEF Members, NoDuplicates
    <3>3. CASE ~(i < p)
      <4>1. y = s[i + 1] /\ i + 1 \in DOMAIN s /\ i + 1 # p
        BY <3>1, <3>3, <2>3, <2>4, <2>1
      <4> QED BY <4>1, <2>1, <2>4 DEF Members, NoDuplicates
    <3> QED BY <3>2, <3>3
  <2>6. ASSUME NEW y \in Members(s) \ {x} PROVE y \in Members(u)
    <3>1. PICK i \in 1 .. Len(s) : y = s[i]
      BY <2>4, <2>6 DEF Members
    <3>2. i # p
      BY <3>1, <2>1, <2>6
    <3>3. CASE i < p
      <4>1. i \in DOMAIN u /\ u[i] = y
        BY <3>1, <3>3, <2>1, <2>3, <2>4
      <4> QED BY <4>1 DEF Members
    <3>4. CASE i > p
      <4>1. i - 1 \in DOMAIN u /\ u[i - 1] = y
        BY <3>1, <3>4, <2>1, <2>3, <2>4
      <4> QED BY <4>1 DEF Members
    <3> QED BY <3>2, <3>3, <3>4, <2>1
  <2>7. NoDuplicates(u)
    <3> SUFFICES ASSUME NEW i \in DOMAIN u, NEW j \in DOMAIN u, u[i] = u[j]
                 PROVE  i = j
      BY DEF NoDuplicates
    <3> DEFINE old(n) == IF n < p THEN n ELSE n + 1
    <3>1. \A n \in DOMAIN u : old(n) \in DOMAIN s /\ u[n] = s[old(n)]
      BY <2>1, <2>3, <2>4
    <3>2. old(i) = old(j)
      BY <3>1 DEF NoDuplicates
    <3> QED BY <2>1, <2>4, <3>2
  <2> QED BY <2>5, <2>6, <2>7 DEF u
<1> QED BY <1>1, <1>2

(* thread_unlink keeps the order of priorities.                             *)
LEMMA UnlinkSorted ==
  ASSUME NEW T, NEW s \in Seq(T), NEW x, NEW rank \in [T -> Nat], SortedBy(s, rank)
  PROVE  SortedBy(Unlink(s, x), rank)
<1>1. CASE x \notin Members(s)
  BY <1>1, UnlinkType
<1>2. CASE x \in Members(s)
  <2> DEFINE p == PlaceOf(s, x)
             u == Unlink(s, x)
  <2>1. p \in 1 .. Len(s)
    BY <1>2, PlaceOfMember
  <2>2. u \in Seq(T) /\ Len(u) = Len(s) - 1
    BY <1>2, UnlinkType
  <2>3. \A i \in 1 .. Len(s) - 1 : u[i] = IF i < p THEN s[i] ELSE s[i + 1]
    <3> TAKE i \in 1 .. Len(s) - 1
    <3>1. i < p \/ i >= p
      BY <2>1
    <3> QED BY <1>2, <3>1, UnlinkElements
  <2>4. Len(s) \in Nat /\ DOMAIN s = 1 .. Len(s) /\ DOMAIN u = 1 .. Len(s) - 1
    BY <2>2
  <2> HIDE DEF p, u
  <2> SUFFICES ASSUME NEW i \in DOMAIN u, NEW j \in DOMAIN u, i < j
               PROVE  rank[u[i]] >= rank[u[j]]
    BY DEF SortedBy, u
  <2> DEFINE old(n) == IF n < p THEN n ELSE n + 1
  <2>5. \A n \in DOMAIN u : old(n) \in DOMAIN s /\ u[n] = s[old(n)]
    <3> TAKE n \in DOMAIN u
    <3>1. n \in 1 .. Len(s) - 1 /\ n \in Int /\ p \in Int
      BY <2>1, <2>4
    <3>2. u[n] = IF n < p THEN s[n] ELSE s[n + 1]
      BY <2>3, <3>1
    <3>3. n \in DOMAIN s /\ n + 1 \in DOMAIN s
      BY <2>4, <3>1
    <3> QED BY <3>2, <3>3
  <2>6. old(i) < old(j)
    BY <2>1, <2>4
  <2> QED BY <2>5, <2>6 DEF SortedBy
<1> QED BY <1>1, <1>2

(* A set of numbers has a smallest one.                                    *)
LEMMA SmallestNumber ==
  ASSUME NEW N \in SUBSET Nat, N # {}
  PROVE  \E k \in N : \A j \in N : k <= j
<1>1. PICK k \in N : \A j \in N : ~(<<j, k>> \in OpToRel(<, Nat))
  <2>1. \E k \in N : \A j \in N : ~(<<j, k>> \in OpToRel(<, Nat))
    BY NatLessThanWellFounded, WFMin
  <2> QED BY <2>1
<1>2. \A j \in N : ~(j < k)
  BY <1>1 DEF OpToRel
<1> QED BY <1>2

(* The scan of activate_thread always stops at a slot.                      *)
LEMMA SlotExists ==
  ASSUME NEW T, NEW s \in Seq(T), NEW rank \in [T -> Nat], NEW p \in Nat
  PROVE  Slot(s, rank, p) \in 1 .. Len(s) + 1 /\ IsSlot(s, Slot(s, rank, p), rank, p)
<1> DEFINE Lower == {k \in 1 .. Len(s) + 1 : k \in DOMAIN s => p > rank[s[k]]}
<1>1. Len(s) \in Nat /\ DOMAIN s = 1 .. Len(s)
  OBVIOUS
<1>2. Len(s) + 1 \in Lower /\ Lower \subseteq Nat
  BY <1>1
<1>3. PICK k \in Lower : \A j \in Lower : k <= j
  <2> HIDE DEF Lower
  <2> QED BY <1>2, SmallestNumber
<1>4. \A j \in Lower : ~(j < k)
  BY <1>2, <1>3
<1>5. IsSlot(s, k, rank, p)
  <2>1. ASSUME NEW j \in 1 .. k - 1 PROVE ~(p > rank[s[j]])
    <3>1. j \in 1 .. Len(s) /\ j < k
      BY <1>1
    <3>2. j \notin Lower
      BY <3>1, <1>4
    <3> QED BY <3>1, <3>2, <1>1
  <2> QED BY <2>1, <1>1 DEF IsSlot
<1> QED BY <1>5 DEF Slot

(* thread_relink_before adds the node and nothing else.                     *)
LEMMA LinkBeforeMembers ==
  ASSUME NEW T, NEW s \in Seq(T), NEW x \in T, NEW k \in 1 .. Len(s) + 1
  PROVE  /\ LinkBefore(s, k, x) \in Seq(T)
         /\ Len(LinkBefore(s, k, x)) = Len(s) + 1
         /\ Members(LinkBefore(s, k, x)) = Members(s) \cup {x}
         /\ NoDuplicates(s) /\ x \notin Members(s) => NoDuplicates(LinkBefore(s, k, x))
<1> DEFINE l == LinkBefore(s, k, x)
<1>1. Len(s) \in Nat /\ DOMAIN s = 1 .. Len(s)
  OBVIOUS
<1>2. l = [i \in 1 .. Len(s) + 1 |->
             IF i < k THEN s[i] ELSE IF i = k THEN x ELSE s[i - 1]]
  BY DEF LinkBefore
<1>3. \A i \in 1 .. Len(s) + 1 : l[i] \in T
  <2> TAKE i \in 1 .. Len(s) + 1
  <2>1. CASE i < k
    BY <1>1, <1>2, <2>1
  <2>2. CASE i = k
    BY <1>2, <2>2
  <2>3. CASE i > k
    <3>1. i - 1 \in 1 .. Len(s)
      BY <2>3, <1>1
    <3> QED BY <3>1, <1>2, <2>3
  <2> QED BY <1>1, <2>1, <2>2, <2>3
<1>4. l \in [1 .. Len(s) + 1 -> T]
  BY <1>2, <1>3
<1>5. l \in Seq(T) /\ Len(l) = Len(s) + 1 /\ DOMAIN l = 1 .. Len(s) + 1
  BY <1>1, <1>4
<1>6. ASSUME NEW y \in Members(l) PROVE y \in Members(s) \cup {x}
  <2>1. PICK i \in 1 .. Len(s) + 1 : y = l[i]
    BY <1>5, <1>6 DEF Members
  <2>2. CASE i < k
    BY <1>1, <1>2, <2>1, <2>2 DEF Members
  <2>3. CASE i = k
    BY <1>2, <2>1, <2>3
  <2>4. CASE i > k
    <3>1. i - 1 \in DOMAIN s /\ y = s[i - 1]
      BY <1>1, <1>2, <2>1, <2>4
    <3> QED BY <3>1 DEF Members
  <2> QED BY <1>1, <2>2, <2>3, <2>4
<1>7. ASSUME NEW y \in Members(s) PROVE y \in Members(l)
  <2>1. PICK i \in 1 .. Len(s) : y = s[i]
    BY <1>1, <1>7 DEF Members
  <2>2. CASE i < k
    <3>1. i \in DOMAIN l /\ l[i] = y
      BY <1>1, <1>2, <1>5, <2>1, <2>2
    <3> QED BY <3>1 DEF Members
  <2>3. CASE ~(i < k)
    <3>1. i + 1 \in DOMAIN l /\ l[i + 1] = y
      BY <1>1, <1>2, <1>5, <2>1, <2>3
    <3> QED BY <3>1 DEF Members
  <2> QED BY <2>2, <2>3
<1>8. x \in Members(l)
  <2>1. k \in DOMAIN l /\ l[k] = x
    BY <1>1, <1>2, <1>5
  <2> QED BY <2>1 DEF Members
<1>9. ASSUME NoDuplicates(s), x \notin Members(s) PROVE NoDuplicates(l)
  <2> SUFFICES ASSUME NEW i \in DOMAIN l, NEW j \in DOMAIN l, l[i] = l[j]
               PROVE  i = j
    BY DEF NoDuplicates
  <2>1. \A m \in 1 .. Len(s) : s[m] # x
    BY <1>1, <1>9 DEF Members
  <2> QED BY <1>1, <1>2, <1>5, <1>9, <2>1 DEF NoDuplicates
<1> QED BY <1>5, <1>6, <1>7, <1>8, <1>9

(* Linking at the slot of the node's priority keeps the order.              *)
LEMMA LinkAtSlotSorted ==
  ASSUME NEW T, NEW s \in Seq(T), NEW x \in T, NEW rank \in [T -> Nat],
         SortedBy(s, rank), NEW k \in 1 .. Len(s) + 1, IsSlot(s, k, rank, rank[x])
  PROVE  SortedBy(LinkBefore(s, k, x), rank)
<1> DEFINE l == LinkBefore(s, k, x)
<1>1. Len(s) \in Nat /\ DOMAIN s = 1 .. Len(s) /\ \A i \in 1 .. Len(s) : rank[s[i]] \in Nat
  OBVIOUS
<1>2. l = [i \in 1 .. Len(s) + 1 |->
             IF i < k THEN s[i] ELSE IF i = k THEN x ELSE s[i - 1]]
  BY DEF LinkBefore
<1>3. DOMAIN l = 1 .. Len(s) + 1
  BY <1>2
<1> HIDE DEF l
<1>4. \A i, j \in 1 .. Len(s) : i <= j => rank[s[i]] >= rank[s[j]]
  BY <1>1 DEF SortedBy
<1>5. \A i \in 1 .. Len(s) : i < k => rank[s[i]] >= rank[x]
  BY <1>1 DEF IsSlot
<1>6. \A i \in 1 .. Len(s) : i >= k => rank[x] >= rank[s[i]]
  <2>1. TAKE i \in 1 .. Len(s)
  <2>2. HAVE i >= k
  <2>3. k \in DOMAIN s /\ rank[x] > rank[s[k]]
    BY <1>1, <2>2 DEF IsSlot
  <2>4. rank[s[k]] >= rank[s[i]]
    BY <1>1, <1>4, <2>2, <2>3
  <2> QED BY <1>1, <2>3, <2>4
<1> SUFFICES ASSUME NEW i \in DOMAIN l, NEW j \in DOMAIN l, i < j
             PROVE  rank[l[i]] >= rank[l[j]]
  BY DEF SortedBy, l
<1>7. CASE j < k
  BY <1>1, <1>2, <1>3, <1>4, <1>7
<1>8. CASE j = k
  BY <1>1, <1>2, <1>3, <1>5, <1>8
<1>9. CASE j > k /\ i < k
  <2>1. l[i] = s[i] /\ l[j] = s[j - 1] /\ i \in 1 .. Len(s) /\ j - 1 \in 1 .. Len(s)
    BY <1>1, <1>2, <1>3, <1>9
  <2>2. i <= j - 1
    BY <1>1, <1>3
  <2> QED BY <2>1, <2>2, <1>4
<1>10. CASE j > k /\ i = k
  <2>1. l[i] = x /\ l[j] = s[j - 1] /\ j - 1 \in 1 .. Len(s) /\ j - 1 >= k
    BY <1>1, <1>2, <1>3, <1>10
  <2> QED BY <2>1, <1>6
<1>11. CASE i > k
  <2>1. /\ l[i] = s[i - 1] /\ l[j] = s[j - 1]
        /\ i - 1 \in 1 .. Len(s) /\ j - 1 \in 1 .. Len(s) /\ i - 1 <= j - 1
    BY <1>1, <1>2, <1>3, <1>11
  <2> QED BY <2>1, <1>4
<1> QED BY <1>1, <1>3, <1>7, <1>8, <1>9, <1>10, <1>11

(* activate_thread: the list with x, once, and in order.                    *)
THEOREM RequeueKeeps ==
  ASSUME NEW T, NEW s \in Seq(T), NEW x \in T, NEW rank \in [T -> Nat], NoDuplicates(s)
  PROVE  /\ Requeue(s, rank, x) \in Seq(T)
         /\ Members(Requeue(s, rank, x)) = Members(s) \cup {x}
         /\ NoDuplicates(Requeue(s, rank, x))
         /\ SortedBy(s, rank) => SortedBy(Requeue(s, rank, x), rank)
<1> DEFINE u == Unlink(s, x)
           k == Slot(u, rank, rank[x])
<1>1. u \in Seq(T) /\ Members(u) = Members(s) \ {x} /\ NoDuplicates(u)
  BY UnlinkType, UnlinkMembers
<1>2. k \in 1 .. Len(u) + 1 /\ IsSlot(u, k, rank, rank[x])
  BY <1>1, SlotExists
<1>3. Requeue(s, rank, x) = LinkBefore(u, k, x)
  BY DEF Requeue
<1>4. SortedBy(s, rank) => SortedBy(u, rank)
  BY UnlinkSorted
<1> HIDE DEF u, k
<1>5. /\ LinkBefore(u, k, x) \in Seq(T)
      /\ Members(LinkBefore(u, k, x)) = Members(u) \cup {x}
      /\ NoDuplicates(LinkBefore(u, k, x))
  BY <1>1, <1>2, LinkBeforeMembers
<1>6. SortedBy(u, rank) => SortedBy(LinkBefore(u, k, x), rank)
  BY <1>1, <1>2, LinkAtSlotSorted
<1> QED BY <1>1, <1>3, <1>4, <1>5, <1>6

(* Linking a node before the list head.                                     *)
LEMMA AppendMembers ==
  ASSUME NEW T, NEW s \in Seq(T), NEW x \in T
  PROVE  /\ Append(s, x) \in Seq(T)
         /\ Members(Append(s, x)) = Members(s) \cup {x}
         /\ NoDuplicates(s) /\ x \notin Members(s) => NoDuplicates(Append(s, x))
<1> DEFINE a == Append(s, x)
<1>1. /\ Len(s) \in Nat /\ DOMAIN s = 1 .. Len(s)
      /\ a \in Seq(T) /\ Len(a) = Len(s) + 1 /\ DOMAIN a = 1 .. Len(s) + 1
      /\ a[Len(s) + 1] = x
      /\ \A i \in 1 .. Len(s) : a[i] = s[i]
  OBVIOUS
<1> HIDE DEF a
<1>2. Members(a) = Members(s) \cup {x}
  BY <1>1 DEF Members
<1>3. NoDuplicates(s) /\ x \notin Members(s) => NoDuplicates(a)
  BY <1>1 DEF Members, NoDuplicates
<1> QED BY <1>1, <1>2, <1>3 DEF a
=============================================================================
