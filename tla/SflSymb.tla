------------------------------ MODULE SflSymb ------------------------------
(***************************************************************************)
(* Symbol tables (libsfl/sflsymb.c): every symbol is in the list of all     *)
(* symbols and in the list of its hash bucket, both doubly linked and with  *)
(* the newest first.  Several symbols may have one name.                    *)
(***************************************************************************)
EXTENDS Integers, SequencesExt

CONSTANTS
  Name, Datum, NULL,
  sym_hash(_),       \* the bucket of a name
  MaxSymbols         \* bound on the number of the newest symbol

VARIABLE table       \* [symbols, hash, size, of]: of[s] is the structure of symbol s

Bucket == {sym_hash(n) : n \in Name}
NIL    == 0

(* Symbols are numbered in the order of their creation.                     *)
Symbols(t) == DOMAIN t.of
NewSymbol(t) == Max({0} \cup Symbols(t)) + 1

sym_create_table ==
  [symbols |-> NIL, hash |-> [b \in Bucket |-> NIL], size |-> 0, of |-> << >>]

RECURSIVE FindName(_, _, _)
FindName(t, s, name) ==
  IF s = NIL \/ t.of[s].name = name THEN s ELSE FindName(t, t.of[s].h_next, name)

sym_lookup_symbol(t, name) == FindName(t, t.hash[sym_hash(name)], name)

(* The structures with one field of one symbol, if there is one, changed.   *)
SetLink(of, s, link, to) ==
  IF s = NIL THEN of
  ELSE [of EXCEPT ![s] = CASE link = "next"   -> [@ EXCEPT !.next = to]
                           [] link = "prev"   -> [@ EXCEPT !.prev = to]
                           [] link = "h_next" -> [@ EXCEPT !.h_next = to]
                           [] link = "h_prev" -> [@ EXCEPT !.h_prev = to]]

sym_create_symbol(t, name, value) ==
  LET hash == sym_hash(name)
      s    == NewSymbol(t)
      new  == [next |-> t.symbols, prev |-> NIL, h_next |-> t.hash[hash], h_prev |-> NIL,
               name |-> name, value |-> value]
      of   == [n \in Symbols(t) \cup {s} |-> IF n = s THEN new ELSE t.of[n]]
  IN  [symbols |-> s, hash |-> [t.hash EXCEPT ![hash] = s], size |-> t.size + 1,
       of |-> SetLink(SetLink(of, t.symbols, "prev", s), t.hash[hash], "h_prev", s)]

sym_set_value(t, s, value) == [t EXCEPT !.of[s].value = value]

(* A symbol without a value keeps none.                                     *)
sym_assume_symbol(t, name, value) ==
  LET s == sym_lookup_symbol(t, name)
  IN  IF s = NIL THEN sym_create_symbol(t, name, value)
      ELSE IF t.of[s].value \notin {NULL, value} THEN sym_set_value(t, s, value)
      ELSE t

sym_delete_symbol(t, s) ==
  LET x   == t.of[s]
      of1 == SetLink(SetLink(t.of, x.prev, "next", x.next), x.next, "prev", x.prev)
      of2 == SetLink(SetLink(of1, x.h_prev, "h_next", x.h_next), x.h_next, "h_prev", x.h_prev)
  IN  [symbols |-> IF x.prev = NIL THEN x.next ELSE t.symbols,
       hash    |-> IF x.h_prev = NIL THEN [t.hash EXCEPT ![sym_hash(x.name)] = x.h_next]
                   ELSE t.hash,
       size    |-> t.size - 1,
       of      |-> [n \in Symbols(t) \ {s} |-> of2[n]]]

(* The list of all symbols, as it is walked.                                *)
RECURSIVE Walk(_, _)
Walk(t, s) == IF s = NIL THEN << >> ELSE <<s>> \o Walk(t, t.of[s].next)

RECURSIVE WalkBucket(_, _)
WalkBucket(t, s) == IF s = NIL THEN << >> ELSE <<s>> \o WalkBucket(t, t.of[s].h_next)

sym_empty_table(t) == sym_create_table

sym_merge_tables(t, import) ==
  FoldLeft(LAMBDA u, s : sym_assume_symbol(u, import.of[s].name, import.of[s].value),
           t, Walk(import, import.symbols))

(* qsort leaves symbols of one name in any order.                           *)
sym_sort_table(t, array) ==
  IF t.size = 0 THEN t
  ELSE LET At(s) == CHOOSE i \in DOMAIN array : array[i] = s
       IN  [t EXCEPT !.symbols = array[1],
                     !.of = [s \in Symbols(t) |->
                        [t.of[s] EXCEPT
                           !.prev = IF At(s) > 1 THEN array[At(s) - 1] ELSE NIL,
                           !.next = IF At(s) < t.size THEN array[At(s) + 1] ELSE NIL]]]

symb2strt(t) ==
  LET symbols == Walk(t, t.symbols)
  IN  [i \in DOMAIN symbols |-> <<t.of[symbols[i]].name, t.of[symbols[i]].value>>]

strt2symb(strings) ==
  FoldLeft(LAMBDA t, x : sym_assume_symbol(t, x[1], x[2]), sym_create_table, strings)

(* sym_exec_all with a function that deletes what it is called for, when    *)
(* the name is one of those given.                                          *)
sym_exec_all(t, names) ==
  FoldLeft(LAMBDA u, s : IF u.of[s].name \in names THEN sym_delete_symbol(u, s) ELSE u,
           t, Walk(t, t.symbols))

-----------------------------------------------------------------------------
Init == table = sym_create_table

CreateSymbol == /\ NewSymbol(table) =< MaxSymbols
                /\ \E n \in Name, v \in Datum \cup {NULL} :
                     table' = sym_create_symbol(table, n, v)
AssumeSymbol == /\ NewSymbol(table) =< MaxSymbols
                /\ \E n \in Name, v \in Datum : table' = sym_assume_symbol(table, n, v)
DeleteSymbol == \E s \in Symbols(table) : table' = sym_delete_symbol(table, s)
SortTable    == \E array \in SetToSeqs(Symbols(table)) :
                  /\ \A i \in 1 .. Len(array) - 1 :
                       table.of[array[i]].name =< table.of[array[i + 1]].name
                  /\ table' = sym_sort_table(table, array)
ExecAll      == \E n \in Name : table' = sym_exec_all(table, {n})

Next == CreateSymbol \/ AssumeSymbol \/ DeleteSymbol \/ SortTable \/ ExecAll

Spec == Init /\ [][Next]_table

-----------------------------------------------------------------------------
(* A list is linked both ways, ends on both sides, and has each of these    *)
(* symbols once.                                                            *)
Linked(t, list, Prev(_), members) ==
  /\ ToSet(list) = members /\ IsInjective(list)
  /\ \A i \in DOMAIN list : Prev(list[i]) = IF i = 1 THEN NIL ELSE list[i - 1]

Named(t, name) == {s \in Symbols(t) : t.of[s].name = name}

(* Through any sequence of creations, deletions, sorts and walks that       *)
(* delete, the two lists of a table hold the same symbols, and a lookup     *)
(* finds the symbol of the name that was created last.                      *)
SymbolsAgree ==
  /\ Linked(table, Walk(table, table.symbols), LAMBDA s : table.of[s].prev, Symbols(table))
  /\ \A b \in Bucket :
       Linked(table, WalkBucket(table, table.hash[b]), LAMBDA s : table.of[s].h_prev,
              {s \in Symbols(table) : sym_hash(table.of[s].name) = b})
  /\ table.size = Cardinality(Symbols(table))
  /\ \A n \in Name : sym_lookup_symbol(table, n) = Max({NIL} \cup Named(table, n))

(* A table exported as strings and imported again has the names and values  *)
(* of the first one, when it has one symbol of a name and all have values.  *)
ExportAgrees ==
  (\A n \in Name : /\ Cardinality(Named(table, n)) < 2
                   /\ \A s \in Named(table, n) : table.of[s].value # NULL)
    => LET copy == strt2symb(symb2strt(table))
       IN  \A n \in Name :
             {copy.of[s].value : s \in Named(copy, n)}
               = {table.of[s].value : s \in Named(table, n)}

(* sym_assume_symbol: "The symbol's value is set to the supplied value in   *)
(* all cases."                                                              *)
AssumeSetsValue ==
  \A n \in Name, v \in Datum :
    LET t == sym_assume_symbol(table, n, v)
    IN  t.of[sym_lookup_symbol(t, n)].value = v
=============================================================================
