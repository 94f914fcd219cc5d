------------------------------ MODULE SmtLists ------------------------------
(***************************************************************************)
(* The doubly-linked lists of the SMT kernel, as sequences.                *)
(*                                                                         *)
(* smtlib.c keeps every runnable thread on one circular list ordered by    *)
(* the priority of its agent, and every blocked thread on the list of what *)
(* it waits for.  A list is the sequence of its nodes from the head's      *)
(* `right' pointer on.  thread_relink exchanges pointers, so unlinking a   *)
(* node that is on no list changes nothing; Unlink has the same effect.    *)
(*                                                                         *)
(* The operators are written with explicit functions and not with          *)
(* SelectSeq, so that the theorems about them are within reach of SMT.     *)
(***************************************************************************)
EXTENDS Integers, Sequences

(* The members of a list.                                                  *)
Members(s) == {s[i] : i \in DOMAIN s}

(* No node is linked twice.                                                *)
NoDuplicates(s) == \A i, j \in DOMAIN s : s[i] = s[j] => i = j

(* The place of a member in a list.                                        *)
PlaceOf(s, x) == CHOOSE i \in DOMAIN s : s[i] = x

(* thread_unlink (x): the list without x; a list x is not on is unchanged. *)
Unlink(s, x) ==
  IF x \notin Members(s)
    THEN s
    ELSE [i \in 1 .. Len(s) - 1 |-> IF i < PlaceOf(s, x) THEN s[i] ELSE s[i + 1]]

(* thread_relink_before (x, s[k]): x linked in front of the k-th node, or  *)
(* in front of the list head, that is last, when k = Len(s) + 1.           *)
LinkBefore(s, k, x) ==
  [i \in 1 .. Len(s) + 1 |->
     IF i < k THEN s[i] ELSE IF i = k THEN x ELSE s[i - 1]]

(* Mutant: in front of the nodes of the same priority.                      *)
IsSlotInFront(s, k, rank, p) ==
  /\ k \in 1 .. Len(s) + 1
  /\ \A j \in 1 .. k - 1 : ~(p >= rank[s[j]])
  /\ k \in DOMAIN s => p >= rank[s[k]]

(* Where the scan of activate_thread stops: the first node of a strictly   *)
(* lower priority, else the list head.                                     *)
IsSlot(s, k, rank, p) ==
  /\ k \in 1 .. Len(s) + 1
  /\ \A j \in 1 .. k - 1 : ~(p > rank[s[j]])
  /\ k \in DOMAIN s => p > rank[s[k]]

Slot(s, rank, p) == CHOOSE k \in 1 .. Len(s) + 1 : IsSlot(s, k, rank, p)

(* The order the active list is meant to keep: never a lower priority      *)
(* before a higher one.                                                    *)
SortedBy(s, rank) ==
  \A i, j \in DOMAIN s : i < j => rank[s[i]] >= rank[s[j]]

(* Mutant: behind all others, whatever their priority.                      *)
RequeueLast(s, rank, x) == LinkBefore(Unlink(s, x), Len(Unlink(s, x)) + 1, x)

(* The list with x moved behind the nodes of its own priority.             *)
Requeue(s, rank, x) ==
  LinkBefore(Unlink(s, x), Slot(Unlink(s, x), rank, rank[x]), x)
=============================================================================
