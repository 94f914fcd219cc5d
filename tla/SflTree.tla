------------------------------ MODULE SflTree ------------------------------
(***************************************************************************)
(* Red-black trees (libsfl/sfltree.c), as their nodes are linked.           *)
(***************************************************************************)
EXTENDS Integers, Sequences, FiniteSets

CONSTANTS Key            \* the nodes are called by what they are ordered by, 1 and up

VARIABLES tree           \* [root, of]

NIL       == -1          \* no parent
TREE_NULL == 0           \* the node at every end
EMPTY     == [left |-> TREE_NULL, right |-> TREE_NULL, parent |-> NIL, colour |-> "BLACK"]

tree_init == [root |-> TREE_NULL, of |-> [n \in {TREE_NULL} \cup Key |-> EMPTY]]

Left(t, n)   == t.of[n].left
Right(t, n)  == t.of[n].right
Parent(t, n) == t.of[n].parent
Colour(t, n) == t.of[n].colour

(* The code has everything twice, once in the mirror.                       *)
Mirror(side) == IF side = "left" THEN "right" ELSE "left"
Child(t, n, side) == IF side = "left" THEN Left(t, n) ELSE Right(t, n)
SetChild(t, n, side, c) ==
  IF side = "left" THEN [t EXCEPT !.of[n].left = c] ELSE [t EXCEPT !.of[n].right = c]
SetParent(t, n, p) == [t EXCEPT !.of[n].parent = p]
Paint(t, n, colour) == [t EXCEPT !.of[n].colour = colour]

(* What hung below its parent as `was` is n instead.                        *)
Replace(t, p, was, n, side) ==
  IF p = NIL THEN [t EXCEPT !.root = n]
  ELSE IF Child(t, p, side) = was THEN SetChild(t, p, side, n)
  ELSE SetChild(t, p, Mirror(side), n)

(* rotate_left is to the "left".                                            *)
rotate(t, n, side) ==
  LET other == Child(t, n, Mirror(side))
      inner == Child(t, other, side)
      t1 == SetChild(t, n, Mirror(side), inner)
      t2 == IF inner # TREE_NULL THEN SetParent(t1, inner, n) ELSE t1
      t3 == IF other # TREE_NULL THEN SetParent(t2, other, Parent(t2, n)) ELSE t2
      t4 == Replace(t3, Parent(t3, n), n, other, side)
      t5 == SetChild(t4, other, side, n)
  IN  IF n # TREE_NULL THEN SetParent(t5, n, other) ELSE t5

RECURSIVE insert_fixup(_, _)
insert_fixup(t, n) ==
  IF n = t.root \/ Colour(t, Parent(t, n)) # "RED" THEN Paint(t, t.root, "BLACK")
  ELSE LET p     == Parent(t, n)
           g     == Parent(t, p)
           side  == IF p = Left(t, g) THEN "left" ELSE "right"
           uncle == Child(t, g, Mirror(side))
       IN  IF Colour(t, uncle) = "RED"
             THEN insert_fixup(Paint(Paint(Paint(t, p, "BLACK"), uncle, "BLACK"), g, "RED"), g)
             ELSE LET inside == n = Child(t, p, Mirror(side))
                      n1 == IF inside THEN p ELSE n
                      t1 == IF inside THEN rotate(t, p, side) ELSE t
                      p1 == Parent(t1, n1)
                      g1 == Parent(t1, p1)
                      t2 == Paint(Paint(t1, p1, "BLACK"), g1, "RED")
                  IN  insert_fixup(rotate(t2, g1, Mirror(side)), n1)

(* comp (current, tree): negative when the node in the tree is the smaller. *)
comp(current, n) == current - n

RECURSIVE PlaceFor(_, _, _, _)
PlaceFor(t, n, current, parent) ==
  IF current \in {TREE_NULL, n} THEN [found |-> current, parent |-> parent]
  ELSE PlaceFor(t, n, IF comp(current, n) < 0 THEN Right(t, current) ELSE Left(t, current),
                current)

(* Without duplicates.                                                      *)
tree_insert(t, n) ==
  LET place  == PlaceFor(t, n, t.root, NIL)
      parent == place.parent
      t1 == [t EXCEPT !.of[n] = [left |-> TREE_NULL, right |-> TREE_NULL,
                                 parent |-> parent, colour |-> "RED"]]
      t2 == CASE parent = NIL        -> [t1 EXCEPT !.root = n]
              [] parent # NIL /\ comp(parent, n) > 0 -> SetChild(t1, parent, "right", n)
              [] OTHER -> SetChild(t1, parent, "left", n)
  IN  IF place.found = n THEN t ELSE insert_fixup(t2, n)

RECURSIVE FindEq(_, _, _)
FindEq(t, n, current) ==
  IF current \in {TREE_NULL, n} THEN current
  ELSE FindEq(t, n, IF comp(current, n) < 0 THEN Right(t, current) ELSE Left(t, current))

tree_find_eq(t, n) == FindEq(t, n, t.root)

-----------------------------------------------------------------------------
VARIABLE inserted

Init == tree = tree_init /\ inserted = {}

Insert == \E n \in Key \ inserted : /\ tree' = tree_insert(tree, n)
                                    /\ inserted' = inserted \cup {n}

Next == Insert
Spec == Init /\ [][Next]_<<tree, inserted>>

(* tree_insert: "The data used by the compare functions must be filled in so *)
(* that tree_insert can find the correct place in the tree to insert the     *)
(* node": what was inserted is found by tree_find_eq.                        *)
InsertedIsFound == \A n \in inserted : tree_find_eq(tree, n) = n
=============================================================================
