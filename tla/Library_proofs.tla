---------------------------- MODULE Library_proofs ----------------------------
(***************************************************************************)
(* Three parts of the library that need nothing but themselves.            *)
(*                                                                         *)
(* The shared tables of an agent keep their meaning, for all tables, and   *)
(* however many threads look up whatever they declare.                      *)
(*                                                                         *)
(* The dates agree with the calendar: the numbers of days that dates are    *)
(* made into and made of, for every date there is, and what is computed of  *)
(* one day and the next, for the years that the code means.                 *)
(*                                                                         *)
(* The transfers reach whoever asked for them, for all plans of the        *)
(* clients, any number of sockets and of requests: by one invariant,        *)
(* TranInv, that relates the requests, the threads of the files, what is    *)
(* asked of the sockets and the answers.                                    *)
(***************************************************************************)
EXTENDS SmtDialog, SflDate, SmtTran, SmtLists_proofs, SequenceTheorems, FiniteSetTheorems, TLAPS

-----------------------------------------------------------------------------
(* The tables of dialogs.                                                   *)

(* Modules supply no number that passes the check without being an event.   *)
Proper == Supplied \subseteq Int /\ maxevent \notin Supplied

(* The row of the defaults state is never changed.                          *)
LEMMA DefaultsKept ==
  ASSUME TypeOK, TablesMeanTheSame, NEW e \in Event, defaults # NullState
  PROVE  LR_action[<<defaults, e>>] = action[<<defaults, e>>]
         /\ LR_nextst[<<defaults, e>>] = nextst[<<defaults, e>>]
<1>1. defaults \in State
  BY TablesAssumption
<1> QED
  BY <1>1, TablesAssumption DEF TablesMeanTheSame, HasDefault, Index, Target

(* An element that is still empty is one of an event the state does not    *)
(* accept itself.                                                           *)
LEMMA EmptyIsDefault ==
  ASSUME TypeOK, TablesMeanTheSame, NEW s \in State, NEW e \in Event,
         LR_action[<<s, e>>] = 0, defaults # NullState
  PROVE  HasDefault(s, e)
BY TablesAssumption DEF TablesMeanTheSame, HasDefault, Index, TypeOK

(* What is found means what the dialog declares.                            *)
LEMMA FoundIsDeclared ==
  ASSUME TypeOK, TablesMeanTheSame, NEW s \in State, NEW e \in Event,
         LR_action[<<s, e>>] # 0 \/ defaults = NullState
  PROVE  LR_action[<<s, e>>] = Index(s, e) /\ LR_nextst[<<s, e>>] = Target(s, e)
BY TablesAssumption DEF TablesMeanTheSame, HasDefault, Index, Target, TypeOK

(* Copying from the row of the defaults state keeps the meaning.            *)
LEMMA CopyKeeps ==
  ASSUME TypeOK, TablesMeanTheSame, NEW s \in State, NEW e \in Event,
         LR_action[<<s, e>>] = 0, defaults # NullState,
         Copy(<<s, e>>, <<defaults, e>>, s)
  PROVE  /\ LR_action' \in [State \X Event -> Nat]
         /\ LR_nextst' \in [State \X Event -> State]
         /\ TablesMeanTheSame'
         /\ LR_action'[<<s, e>>] = Index(s, e)
<1>1. defaults \in State /\ HasDefault(s, e)
  BY EmptyIsDefault, TablesAssumption
<1>2. /\ LR_action[<<defaults, e>>] = action[<<defaults, e>>]
      /\ LR_nextst[<<defaults, e>>] = nextst[<<defaults, e>>]
  BY DefaultsKept
<1>3. <<s, e>> \in State \X Event /\ <<defaults, e>> \in State \X Event
  BY <1>1
<1>4. /\ LR_action' = [LR_action EXCEPT ![<<s, e>>] = Index(s, e)]
      /\ LR_nextst' = [LR_nextst EXCEPT ![<<s, e>>] = Target(s, e)]
  BY <1>1, <1>2, <1>3 DEF Copy, Index, Target, HasDefault, TypeOK
<1>5. Index(s, e) \in Nat /\ Target(s, e) \in State
  BY <1>1, <1>3, TablesAssumption DEF Index, Target
<1>6. /\ LR_action' \in [State \X Event -> Nat]
      /\ LR_nextst' \in [State \X Event -> State]
  BY <1>4, <1>5 DEF TypeOK
<1>7. LR_action'[<<s, e>>] = Index(s, e) /\ LR_nextst'[<<s, e>>] = Target(s, e)
  BY <1>3, <1>4 DEF TypeOK
<1>8. ASSUME NEW r \in State, NEW f \in Event, <<r, f>> # <<s, e>>
      PROVE  LR_action'[<<r, f>>] = LR_action[<<r, f>>]
             /\ LR_nextst'[<<r, f>>] = LR_nextst[<<r, f>>]
  BY <1>4, <1>8 DEF TypeOK
<1>9. TablesMeanTheSame'
  <2> SUFFICES ASSUME NEW r \in State, NEW f \in Event
               PROVE  \/ /\ LR_action'[<<r, f>>] = action[<<r, f>>]
                         /\ LR_nextst'[<<r, f>>] = nextst[<<r, f>>] /\ ~HasDefault(r, f)
                      \/ /\ LR_action'[<<r, f>>] = 0 /\ HasDefault(r, f)
                         /\ (r = defaults => LR_nextst'[<<r, f>>] = nextst[<<r, f>>])
                      \/ /\ LR_action'[<<r, f>>] = Index(r, f) /\ HasDefault(r, f)
                         /\ LR_nextst'[<<r, f>>] = Target(r, f)
    BY DEF TablesMeanTheSame
  <2>1. CASE <<r, f>> = <<s, e>>
    <3>1. r = s /\ f = e
      BY <2>1
    <3> QED
      BY <3>1, <1>1, <1>7
  <2>2. CASE <<r, f>> # <<s, e>>
    BY <2>2, <1>8 DEF TablesMeanTheSame
  <2> QED
    BY <2>1, <2>2
<1> QED
  BY <1>6, <1>7, <1>9

(* Looking up an event leaves the tables as they should be, and finds what *)
(* is declared.                                                             *)
LEMMA LookupKeeps ==
  ASSUME TypeOK, TablesMeanTheSame, NEW t \in Thread, NEW s \in State, NEW e \in Event,
         LookupModuleVector(t, s, e)
  PROVE  /\ TypeOK' /\ TablesMeanTheSame'
         /\ thread' = [thread EXCEPT ![t] =
              [at |-> IF Index(s, e) = 0 THEN "refused" ELSE "list",
               state |-> s, event |-> e, index |-> Index(s, e)]]
         /\ LR_action'[<<s, e>>] = Index(s, e)
         /\ \A i \in State \X Event : LR_action[i] # 0 => LR_action'[i] = LR_action[i]
<1>1. Element(s, e) = <<s, e>> /\ Element(defaults, e) = <<defaults, e>>
  BY TablesAssumption DEF Element, Event
<1>2. <<s, e>> \in DOMAIN LR_action
  BY DEF TypeOK
<1>3. defaults # NullState => <<defaults, e>> \in DOMAIN LR_action
  BY TablesAssumption DEF TypeOK
<1>4. /\ IF LR_action[<<s, e>>] = 0 /\ defaults # NullState
           THEN Copy(<<s, e>>, <<defaults, e>>, s)
           ELSE UNCHANGED <<LR_action, LR_nextst>>
      /\ thread' = [thread EXCEPT ![t] =
           [at |-> IF LR_action'[<<s, e>>] = 0 THEN "refused" ELSE "list",
            state |-> s, event |-> e, index |-> LR_action'[<<s, e>>]]]
  BY <1>1, <1>2, <1>3 DEF LookupModuleVector
<1>5. /\ LR_action' \in [State \X Event -> Nat]
      /\ LR_nextst' \in [State \X Event -> State]
      /\ TablesMeanTheSame'
      /\ LR_action'[<<s, e>>] = Index(s, e)
  <2>1. CASE LR_action[<<s, e>>] = 0 /\ defaults # NullState
    BY <2>1, <1>4, CopyKeeps
  <2>2. CASE ~(LR_action[<<s, e>>] = 0 /\ defaults # NullState)
    BY <2>2, <1>4, FoundIsDeclared DEF TypeOK, TablesMeanTheSame
  <2> QED
    BY <2>1, <2>2
<1>6. Index(s, e) \in Nat
  BY <1>2, <1>5
<1>7. e \in Int
  BY TablesAssumption DEF Event
<1>8. \A i \in State \X Event : LR_action[i] # 0 => LR_action'[i] = LR_action[i]
  BY <1>4 DEF Copy, TypeOK
<1> QED
  BY <1>4, <1>5, <1>6, <1>7, <1>8 DEF TypeOK, Place

(* A thread in a module list is there by a transition that was looked up,   *)
(* and whose element therefore holds its next state.                        *)
ListsDeclared ==
  \A t \in Thread : thread[t].at = "list" =>
    /\ thread[t].event \in Event
    /\ LR_action[<<thread[t].state, thread[t].event>>] # 0

DialogInv == TypeOK /\ TablesMeanTheSame /\ ListsDeclared

(* The check of a number that a module supplies lets through the events.    *)
LEMMA InRangeIsEvent ==
  ASSUME Proper, NEW e \in Supplied
  PROVE  InRange(e) <=> e \in Event
BY TablesAssumption DEF Proper, InRange, Event

(* The tables begin as they are declared.                                   *)
LEMMA DialogInit == Init => DialogInv
<1> SUFFICES ASSUME Init PROVE DialogInv
  OBVIOUS
<1>1. TypeOK
  BY TablesAssumption DEF Init, TypeOK, Idle, Place
<1>2. TablesMeanTheSame
  BY TablesAssumption DEF Init, TablesMeanTheSame, HasDefault, Index, Target
<1>3. ListsDeclared
  BY DEF Init, ListsDeclared, Idle
<1> QED
  BY <1>1, <1>2, <1>3 DEF DialogInv

(* A look-up keeps the invariant for the thread and for all others.         *)
LEMMA LookupInv ==
  ASSUME DialogInv, NEW t \in Thread, NEW s \in State, NEW e \in Event,
         LookupModuleVector(t, s, e)
  PROVE  /\ DialogInv'
         /\ \A u \in Thread \ {t} : thread'[u] = thread[u]
         /\ thread'[t] = [at |-> IF Index(s, e) = 0 THEN "refused" ELSE "list",
                          state |-> s, event |-> e, index |-> Index(s, e)]
<1>1. /\ TypeOK' /\ TablesMeanTheSame'
      /\ thread' = [thread EXCEPT ![t] =
           [at |-> IF Index(s, e) = 0 THEN "refused" ELSE "list",
            state |-> s, event |-> e, index |-> Index(s, e)]]
      /\ LR_action'[<<s, e>>] = Index(s, e)
      /\ \A i \in State \X Event : LR_action[i] # 0 => LR_action'[i] = LR_action[i]
  BY LookupKeeps DEF DialogInv
<1>2. /\ \A u \in Thread \ {t} : thread'[u] = thread[u]
      /\ thread'[t] = [at |-> IF Index(s, e) = 0 THEN "refused" ELSE "list",
                       state |-> s, event |-> e, index |-> Index(s, e)]
  BY <1>1 DEF DialogInv, TypeOK
<1>3. ListsDeclared'
  <2> SUFFICES ASSUME NEW u \in Thread, thread'[u].at = "list"
               PROVE  /\ thread'[u].event \in Event
                      /\ LR_action'[<<thread'[u].state, thread'[u].event>>] # 0
    BY DEF ListsDeclared
  <2>1. CASE u = t
    BY <2>1, <1>1, <1>2
  <2>2. CASE u # t
    <3>1. thread'[u] = thread[u] /\ thread[u].state \in State
      BY <2>2, <1>2 DEF DialogInv, TypeOK
    <3>2. /\ thread[u].event \in Event
          /\ LR_action[<<thread[u].state, thread[u].event>>] # 0
      BY <3>1 DEF DialogInv, ListsDeclared
    <3> QED
      BY <3>1, <3>2, <1>1
  <2> QED
    BY <2>1, <2>2
<1> QED
  BY <1>1, <1>2, <1>3 DEF DialogInv

(* Where a thread in a module list goes on is what its dialog declares.     *)
LEMMA NextStateIsTarget ==
  ASSUME DialogInv, NEW t \in Thread, thread[t].at = "list"
  PROVE  /\ Element(thread[t].state, thread[t].event) = <<thread[t].state, thread[t].event>>
         /\ thread[t].event \in Event /\ thread[t].state \in State
         /\ LR_nextst[<<thread[t].state, thread[t].event>>]
              = Target(thread[t].state, thread[t].event)
         /\ Target(thread[t].state, thread[t].event) \in State
<1>1. /\ thread[t].event \in Event /\ thread[t].state \in State
      /\ LR_action[<<thread[t].state, thread[t].event>>] # 0
  BY DEF DialogInv, ListsDeclared, TypeOK
<1>2. thread[t].event # maxevent
  BY <1>1, TablesAssumption DEF Event
<1>3. LR_nextst[<<thread[t].state, thread[t].event>>]
        = Target(thread[t].state, thread[t].event)
  BY <1>1, FoundIsDeclared DEF DialogInv
<1>4. LR_nextst[<<thread[t].state, thread[t].event>>] \in State
  BY <1>1 DEF DialogInv, TypeOK
<1> QED
  BY <1>1, <1>2, <1>3, <1>4 DEF Element

(* Each action keeps the invariant, and does what is declared.              *)
LEMMA DialogStep ==
  ASSUME Proper, DialogInv, [Next]_vars
  PROVE  /\ DialogInv'
         /\ \A t \in Thread : thread'[t] # thread[t] =>
              \/ \E e \in Supplied \cap Event : Declared(t, e)
              \/ thread'[t].at = "refused" /\ \E e \in Supplied : e \notin Event
<1> DEFINE Fine(t) == \/ \E e \in Supplied \cap Event : Declared(t, e)
                      \/ thread'[t].at = "refused" /\ \E e \in Supplied : e \notin Event
<1>1. ASSUME NEW u \in Thread, NEW e \in Supplied, FirstEvent(u, e)
      PROVE  DialogInv' /\ \A t \in Thread : thread'[t] # thread[t] => Fine(t)
  <2>1. e \in Event /\ 0 \in State
    BY <1>1, InRangeIsEvent, TablesAssumption DEF FirstEvent
  <2>2. LookupModuleVector(u, 0, e) /\ thread[u].at = "start"
    BY <1>1 DEF FirstEvent
  <2>3. /\ DialogInv'
        /\ \A t \in Thread \ {u} : thread'[t] = thread[t]
        /\ thread'[u] = [at |-> IF Index(0, e) = 0 THEN "refused" ELSE "list",
                         state |-> 0, event |-> e, index |-> Index(0, e)]
    BY <2>1, <2>2, LookupInv
  <2>4. Declared(u, e)
    BY <2>1, <2>2, <2>3 DEF Declared
  <2> QED
    BY <2>1, <2>3, <2>4
<1>2. ASSUME NEW u \in Thread, NEW e \in Supplied, NextEvent(u, e)
      PROVE  DialogInv' /\ \A t \in Thread : thread'[t] # thread[t] => Fine(t)
  <2> DEFINE s == Target(thread[u].state, thread[u].event)
  <2>1. e \in Event
    BY <1>2, InRangeIsEvent DEF NextEvent
  <2>2. thread[u].at = "list"
    BY <1>2 DEF NextEvent
  <2>3. s \in State /\ LookupModuleVector(u, s, e)
    BY <1>2, <2>2, NextStateIsTarget DEF NextEvent
  <2> HIDE DEF s
  <2>4. /\ DialogInv'
        /\ \A t \in Thread \ {u} : thread'[t] = thread[t]
        /\ thread'[u] = [at |-> IF Index(s, e) = 0 THEN "refused" ELSE "list",
                         state |-> s, event |-> e, index |-> Index(s, e)]
    BY <2>1, <2>3, LookupInv
  <2>5. Declared(u, e)
    BY <2>2, <2>3, <2>4 DEF Declared, s
  <2> QED
    BY <2>1, <2>4, <2>5
<1>3. ASSUME NEW u \in Thread, NEW e \in Supplied, OutOfRange(u, e)
      PROVE  DialogInv' /\ \A t \in Thread : thread'[t] # thread[t] => Fine(t)
  <2>1. /\ e \notin Event
        /\ thread' = [thread EXCEPT ![u].at = "refused"]
        /\ UNCHANGED <<LR_action, LR_nextst>>
    BY <1>3, InRangeIsEvent DEF OutOfRange
  <2>2. TypeOK' /\ TablesMeanTheSame'
    BY <2>1 DEF DialogInv, TypeOK, Place, TablesMeanTheSame
  <2>3. ListsDeclared'
    BY <2>1 DEF DialogInv, ListsDeclared, TypeOK
  <2>4. \A t \in Thread : thread'[t] # thread[t] => thread'[t].at = "refused"
    BY <2>1 DEF DialogInv, TypeOK
  <2> QED
    BY <2>1, <2>2, <2>3, <2>4 DEF DialogInv
<1>4. CASE UNCHANGED vars
  BY <1>4 DEF vars, DialogInv, TypeOK, TablesMeanTheSame, ListsDeclared
<1> QED
  BY <1>1, <1>2, <1>3, <1>4 DEF Next

(* The tables that the threads of an agent share and fill in as they run    *)
(* always say what the dialog declares, for all dialogs, all numbers of     *)
(* threads, and any order of look-ups (lookup_module_vector).               *)
THEOREM TablesKept ==
  ASSUME Proper
  PROVE  Spec => [](TypeOK /\ TablesMeanTheSame)
<1>1. DialogInv /\ [Next]_vars => DialogInv'
  BY DialogStep
<1>2. DialogInv => TypeOK /\ TablesMeanTheSame
  BY DEF DialogInv
<1> QED
  BY DialogInit, <1>1, <1>2, PTL DEF Spec

(* Every transition a thread makes is the one its dialog declares, whatever *)
(* the others have looked up before (lookup_module_vector, smt_exec).       *)
THEOREM TransitionsDeclared ==
  ASSUME Proper
  PROVE  Spec => AsDeclared
<1> DEFINE Good == \A t \in Thread : thread'[t] # thread[t] =>
                     \/ \E e \in Supplied \cap Event : Declared(t, e)
                     \/ thread'[t].at = "refused" /\ \E e \in Supplied : e \notin Event
<1>1. DialogInv /\ [Next]_vars => DialogInv' /\ Good
  BY DialogStep
<1>2. DialogInv /\ [Next]_vars => DialogInv' /\ [Good]_vars
  BY <1>1
<1> QED
  BY DialogInit, <1>2, PTL DEF Spec, AsDeclared

-----------------------------------------------------------------------------
(* Dates.                                                                   *)

Fourth(n) == n % 4 = 0

(* A day of a year that begins in March. *)
MarchDay(c, y, m, d) ==
  /\ c \in Nat /\ y \in 0 .. 99 /\ m \in 0 .. 11 /\ d \in 1 .. 31
  /\ m \in {1, 3, 6, 8} => d =< 30
  /\ m = 11 => d =< IF Fourth(y + 1) /\ (y = 99 => Fourth(c + 1)) THEN 29 ELSE 28

YearDay(m, d)    == (153 * m + 2) \div 5 + d
CenturyDay(y, k) == (1461 * y) \div 4 + k - 1
Quarters(c, b)   == 4 * ((146097 * c) \div 4 + b) + 3

CenturyOf(a) == a \div 146097
RestOf(a)    == (a % 146097) \div 4
YearOf(b)    == (4 * b + 3) \div 1461
DayOf(b)     == (((4 * b + 3) % 1461) + 4) \div 4
MonthOf(k)   == (5 * k - 3) \div 153
MonthDay(k)  == (((5 * k - 3) % 153) + 5) \div 5

Joined(c, y, m, d) ==
  CASE m < 10 -> MAKE_DATE(c, y, m + 3, d)
        [] m >= 10 /\ y < 99 -> MAKE_DATE(c, y + 1, m - 9, d)
        [] m >= 10 /\ y = 99 -> MAKE_DATE(c + 1, 0, m - 9, d)

Number(c, y, m, d) == (146097 * c) \div 4 + (1461 * y) \div 4 + (153 * m + 2) \div 5 + d + 1721119

FromMarch(a) ==
   LET b == RestOf(a) k == DayOf(b) IN Joined(CenturyOf(a), YearOf(b), MonthOf(k), MonthDay(k))

(* days_to_date is the computation with years that begin in March.          *)
LEMMA Unfolded ==
  ASSUME NEW n
  PROVE  days_to_date(n) = FromMarch(4 * (n - 1721119) - 1)
  BY DEF days_to_date, FromMarch, Joined, CenturyOf, RestOf, YearOf, DayOf, MonthOf, MonthDay

(* What days_to_date takes apart, for the number of a day.                  *)
LEMMA NumberIs ==
  ASSUME NEW c \in Nat, NEW y \in Nat, NEW m \in Nat, NEW d \in Nat
  PROVE  4 * (Number(c, y, m, d) - 1721119) - 1 = Quarters(c, CenturyDay(y, YearDay(m, d)))
  BY DEF Number, Quarters, CenturyDay, YearDay

(* The (153 * m + 2) / 5 of date_to_days is undone by the (5 * k - 3) / 153 *)
(* of days_to_date.                                                         *)
LEMMA DayOfYear ==
  ASSUME NEW m \in 0 .. 11, NEW d \in 1 .. 31, m \in {1, 3, 6, 8} => d =< 30, m = 11 => d =< 29
  PROVE  /\ MonthOf(YearDay(m, d)) = m /\ MonthDay(YearDay(m, d)) = d
         /\ YearDay(m, d) \in 1 .. 366
         /\ m = 11 /\ d =< 28 => YearDay(m, d) =< 365
         /\ m < 11 => YearDay(m, d) =< 337
  BY DEF MonthOf, MonthDay, YearDay

(* A year of a century and a day of it come back from the day of the        *)
(* century.                                                                 *)
DayComesBack(y, k) ==
  /\ YearOf(CenturyDay(y, k)) = y /\ DayOf(CenturyDay(y, k)) = k
  /\ CenturyDay(y, k) \in Nat /\ CenturyDay(y, k) =< 36524
  /\ y < 99 \/ k < 366 => CenturyDay(y, k) =< 36523

(* The year has such a day: its last one only if there is a 29 February.   *)
HasDayOf(y, k) == ~Fourth(y + 1) => k < 366

(* A day of a century's calendar comes back from its number.                 *)
LEMMA DayOfCentury ==
  ASSUME NEW y \in 0 .. 99, NEW k \in 1 .. 366, HasDayOf(y, k)
  PROVE  DayComesBack(y, k)
<1>1. YearOf(CenturyDay(y, k)) = y
  BY DEF YearOf, CenturyDay, Fourth, HasDayOf
<1>2. DayOf(CenturyDay(y, k)) = k
  BY DEF DayOf, CenturyDay, Fourth, HasDayOf
<1>3. CenturyDay(y, k) \in Nat /\ CenturyDay(y, k) =< 36524
  BY DEF CenturyDay, Fourth, HasDayOf
<1>4. y < 99 \/ k < 366 => CenturyDay(y, k) =< 36523
  BY DEF CenturyDay, Fourth, HasDayOf
<1> QED BY <1>1, <1>2, <1>3, <1>4 DEF DayComesBack

(* A century and a day of it come back from the quarters of days.           *)
LEMMA DayOfAll ==
  ASSUME NEW c \in Nat, NEW b \in Nat, b =< 36524, ~Fourth(c + 1) => b < 36524
  PROVE  CenturyOf(Quarters(c, b)) = c /\ RestOf(Quarters(c, b)) = b
<1>1. CenturyOf(Quarters(c, b)) = c
  BY DEF CenturyOf, Quarters, Fourth
<1>2. RestOf(Quarters(c, b)) = b
  BY DEF RestOf, Quarters, Fourth
<1> QED BY <1>1, <1>2

(* days_to_date undoes the number of a day of a year that begins in March.  *)
LEMMA Back ==
  ASSUME NEW c, NEW y, NEW m, NEW d, MarchDay(c, y, m, d)
  PROVE  days_to_date(Number(c, y, m, d)) = Joined(c, y, m, d)
<1>1. /\ c \in Nat /\ y \in 0 .. 99 /\ m \in 0 .. 11 /\ d \in 1 .. 31
  BY DEF MarchDay
<1>2. m = 11 => d =< 29
  BY DEF MarchDay
<1>3. /\ MonthOf(YearDay(m, d)) = m /\ MonthDay(YearDay(m, d)) = d
      /\ YearDay(m, d) \in 1 .. 366
      /\ m = 11 /\ d =< 28 => YearDay(m, d) =< 365
      /\ m < 11 => YearDay(m, d) =< 337
  BY DayOfYear, <1>1, <1>2 DEF MarchDay
<1>4. PICK k : k = YearDay(m, d)
  OBVIOUS
<1>5. /\ MonthOf(k) = m /\ MonthDay(k) = d /\ k \in 1 .. 366
      /\ m = 11 /\ d =< 28 => k =< 365
      /\ m < 11 => k =< 337
  BY ONLY <1>3, <1>4
<1>6. ~Fourth(y + 1) => k < 366
  BY <1>1, <1>5 DEF MarchDay
<1>7. DayComesBack(y, k)
  <2>1. y \in 0 .. 99
    BY ONLY <1>1
  <2>2. k \in 1 .. 366
    BY ONLY <1>5
  <2>3. HasDayOf(y, k)
    BY ONLY <1>6 DEF HasDayOf
  <2> QED BY ONLY DayOfCentury, <2>1, <2>2, <2>3
<1>8. PICK b : b = CenturyDay(y, k)
  OBVIOUS
<1>9. YearOf(b) = y /\ DayOf(b) = k /\ b \in Nat /\ b =< 36524
  BY ONLY <1>7, <1>8 DEF DayComesBack
<1>10. ~Fourth(c + 1) => b < 36524
  <2>1. y < 99 \/ k < 366 => b =< 36523
    BY ONLY <1>7, <1>8 DEF DayComesBack
  <2> QED BY <1>1, <1>5, <1>9, <2>1 DEF MarchDay
<1>11. CenturyOf(Quarters(c, b)) = c /\ RestOf(Quarters(c, b)) = b
  BY DayOfAll, <1>1, <1>9, <1>10
<1>12. 4 * (Number(c, y, m, d) - 1721119) - 1 = Quarters(c, b)
  BY NumberIs, <1>1, <1>4, <1>8
<1>13. FromMarch(Quarters(c, b)) = Joined(c, y, m, d)
  BY ONLY <1>5, <1>9, <1>11 DEF FromMarch
<1> QED BY ONLY Unfolded, <1>12, <1>13

(* Every number has a century, and a day in it, and is the number of these. *)
LEMMA FromAll ==
  ASSUME NEW n \in Nat, NEW a, a = 4 * n + 3
  PROVE  /\ CenturyOf(a) \in Nat /\ RestOf(a) \in Nat /\ RestOf(a) =< 36524
         /\ ~Fourth(CenturyOf(a) + 1) => RestOf(a) < 36524
         /\ a = Quarters(CenturyOf(a), RestOf(a))
<1>1. CenturyOf(a) \in Nat
  BY DEF CenturyOf
<1>2. RestOf(a) \in Nat /\ RestOf(a) =< 36524
  BY DEF RestOf
<1>3. ~Fourth(CenturyOf(a) + 1) => RestOf(a) < 36524
  BY DEF CenturyOf, RestOf, Fourth
<1>4. a = Quarters(CenturyOf(a), RestOf(a))
  BY DEF CenturyOf, RestOf, Quarters
<1> QED BY <1>1, <1>2, <1>3, <1>4

(* Every day of a century has a year, and a day in it, and is the day of    *)
(* these.                                                                   *)
LEMMA FromCentury ==
  ASSUME NEW b \in Nat, b =< 36524
  PROVE  /\ YearOf(b) \in 0 .. 99 /\ DayOf(b) \in 1 .. 366
         /\ ~Fourth(YearOf(b) + 1) => DayOf(b) < 366
         /\ YearOf(b) = 99 /\ b < 36524 => DayOf(b) < 366
         /\ b = CenturyDay(YearOf(b), DayOf(b))
<1>1. YearOf(b) \in 0 .. 99
  BY DEF YearOf
<1>2. DayOf(b) \in 1 .. 366
  BY DEF DayOf
<1>3. ~Fourth(YearOf(b) + 1) => DayOf(b) < 366
  BY DEF YearOf, DayOf, Fourth
<1>4. YearOf(b) = 99 /\ b < 36524 => DayOf(b) < 366
  BY DEF YearOf, DayOf
<1>5. b = CenturyDay(YearOf(b), DayOf(b))
  BY DEF YearOf, DayOf, CenturyDay
<1> QED BY <1>1, <1>2, <1>3, <1>4, <1>5

(* Every day of a year has a month, and a day in it that the month has.     *)
LEMMA FromYear ==
  ASSUME NEW k \in 1 .. 366
  PROVE  /\ MonthOf(k) \in 0 .. 11 /\ MonthDay(k) \in 1 .. 31
         /\ MonthOf(k) \in {1, 3, 6, 8} => MonthDay(k) =< 30
         /\ MonthOf(k) = 11 => MonthDay(k) =< 29 /\ (k < 366 => MonthDay(k) =< 28)
         /\ k = YearDay(MonthOf(k), MonthDay(k))
<1>1. MonthOf(k) \in 0 .. 11
  BY DEF MonthOf
<1>2. MonthDay(k) \in 1 .. 31
  BY DEF MonthDay
<1>3. MonthOf(k) \in {1, 3, 6, 8} => MonthDay(k) =< 30
  BY DEF MonthOf, MonthDay
<1>4. MonthOf(k) = 11 => MonthDay(k) =< 29 /\ (k < 366 => MonthDay(k) =< 28)
  BY DEF MonthOf, MonthDay
<1>5. k = YearDay(MonthOf(k), MonthDay(k))
  BY DEF MonthOf, MonthDay, YearDay
<1> QED BY <1>1, <1>2, <1>3, <1>4, <1>5

FirstDay == 1721426

(* Every number of quarters that days_to_date takes apart is that of a day   *)
(* of a year that begins in March.                                          *)
LEMMA QuartersOf ==
  ASSUME NEW p \in Nat
  PROVE  \E c, y, m, d : /\ MarchDay(c, y, m, d)
                         /\ 4 * p + 3 = Quarters(c, CenturyDay(y, YearDay(m, d)))
<1> DEFINE a == 4 * p + 3
<1>1. PICK c, b : /\ c = CenturyOf(a) /\ b = RestOf(a) /\ c \in Nat /\ b \in Nat /\ b =< 36524
                  /\ ~Fourth(c + 1) => b < 36524
                  /\ a = Quarters(c, b)
  BY FromAll
<1> HIDE DEF a
<1>2. PICK y, k : /\ y = YearOf(b) /\ k = DayOf(b) /\ y \in 0 .. 99 /\ k \in 1 .. 366
                  /\ ~Fourth(y + 1) => k < 366
                  /\ y = 99 /\ b < 36524 => k < 366
                  /\ b = CenturyDay(y, k)
  BY ONLY <1>1, FromCentury
<1>3. PICK m, d : /\ m = MonthOf(k) /\ d = MonthDay(k) /\ m \in 0 .. 11 /\ d \in 1 .. 31
                  /\ m \in {1, 3, 6, 8} => d =< 30
                  /\ m = 11 => d =< 29 /\ (k < 366 => d =< 28)
                  /\ k = YearDay(m, d)
  <2>1. k \in 1 .. 366
    BY ONLY <1>2
  <2>2. /\ MonthOf(k) \in 0 .. 11 /\ MonthDay(k) \in 1 .. 31
        /\ MonthOf(k) \in {1, 3, 6, 8} => MonthDay(k) =< 30
        /\ MonthOf(k) = 11 => MonthDay(k) =< 29 /\ (k < 366 => MonthDay(k) =< 28)
        /\ k = YearDay(MonthOf(k), MonthDay(k))
    BY ONLY <2>1, FromYear
  <2> QED BY ONLY <2>2, Zenon
<1>4. m = 11 => d =< IF Fourth(y + 1) /\ (y = 99 => Fourth(c + 1)) THEN 29 ELSE 28
  <2>1. CASE k < 366
    BY ONLY <1>3, <2>1
  <2>2. CASE ~(k < 366)
    <3>1. Fourth(y + 1)
      BY ONLY <1>2, <2>2
    <3>2. y = 99 => ~(b < 36524)
      BY ONLY <1>2, <2>2
    <3>3. y = 99 => Fourth(c + 1)
      BY ONLY <3>2, <1>1
    <3> QED BY ONLY <3>1, <3>3, <1>3
  <2> QED BY <2>1, <2>2
<1>5. MarchDay(c, y, m, d)
  <2>1. c \in Nat
    BY ONLY <1>1
  <2>2. y \in 0 .. 99
    BY ONLY <1>2
  <2>3. m \in 0 .. 11 /\ d \in 1 .. 31 /\ (m \in {1, 3, 6, 8} => d =< 30)
    BY ONLY <1>3
  <2>4. /\ c \in Nat /\ y \in 0 .. 99 /\ m \in 0 .. 11 /\ d \in 1 .. 31
        /\ m \in {1, 3, 6, 8} => d =< 30
        /\ m = 11 => d =< IF Fourth(y + 1) /\ (y = 99 => Fourth(c + 1)) THEN 29 ELSE 28
    <3>1. m \in 0 .. 11 /\ d \in 1 .. 31
      BY ONLY <2>3, Zenon
    <3>2. m \in {1, 3, 6, 8} => d =< 30
      BY ONLY <2>3, Zenon
    <3> QED BY ONLY <2>1, <2>2, <3>1, <3>2, <1>4, Zenon
  <2> QED BY ONLY <2>4, Zenon DEF MarchDay
<1>6. a = Quarters(c, CenturyDay(y, YearDay(m, d)))
  <2>1. a = Quarters(c, b)
    BY ONLY <1>1
  <2>2. b = CenturyDay(y, k)
    BY ONLY <1>2
  <2>3. k = YearDay(m, d)
    BY ONLY <1>3
  <2> QED BY ONLY <2>1, <2>2, <2>3, Zenon
<1> QED BY <1>5, <1>6 DEF a

(* Every number is that of a day of a year that begins in March.            *)
LEMMA ToMarch ==
  ASSUME NEW n \in Nat, n > 1721119
  PROVE  \E c, y, m, d : MarchDay(c, y, m, d) /\ n = Number(c, y, m, d)
<1>1. PICK p \in Nat : p = n - 1721120
  OBVIOUS
<1>2. PICK c, y, m, d : /\ MarchDay(c, y, m, d)
                        /\ 4 * p + 3 = Quarters(c, CenturyDay(y, YearDay(m, d)))
  BY ONLY QuartersOf, p \in Nat
<1>3. c \in Nat /\ y \in Nat /\ m \in Nat /\ d \in Nat
  BY ONLY <1>2 DEF MarchDay
<1>4. 4 * (Number(c, y, m, d) - 1721119) - 1 = Quarters(c, CenturyDay(y, YearDay(m, d)))
  BY ONLY NumberIs, <1>3
<1>5. Number(c, y, m, d) \in Int
  BY <1>3 DEF Number
<1>6. PICK w \in Int : w = Number(c, y, m, d)
  BY ONLY <1>5
<1>7. 4 * (w - 1721119) - 1 = 4 * p + 3
  BY ONLY <1>6, <1>4, <1>2
<1>8. n = w
  BY <1>7, <1>1
<1> QED BY ONLY <1>2, <1>6, <1>8

(* Leap years, by the year in its century and the century.                  *)
LEMMA Leap ==
  ASSUME NEW c \in Nat, NEW r \in 0 .. 99
  PROVE  leap_year(100 * c + r + 1) <=> Fourth(r + 1) /\ (r = 99 => Fourth(c + 1))
<1>0. 100 * c + r + 1 > 0
  OBVIOUS
<1>1. CASE r = 99
  <2>1. (100 * c + r + 1) % 100 = 0 /\ ((100 * c + r + 1) % 400 = 0 <=> (c + 1) % 4 = 0) /\ (r + 1) % 4 = 0
    BY <1>1
  <2> QED BY <1>0, <1>1, <2>1 DEF leap_year, Fourth
<1>2. CASE r < 99
  <2>1. (100 * c + r + 1) % 100 # 0
    BY <1>2
  <2>2. (100 * c + r + 1) % 4 = 0 <=> (r + 1) % 4 = 0
    OBVIOUS
  <2>3. (100 * c + r + 1) % 400 # 0
    BY <1>2
  <2> QED BY <1>0, <1>2, <2>1, <2>2, <2>3 DEF leap_year, Fourth
<1> QED BY <1>1, <1>2

(* A date, and the same day of a year that begins in March.                 *)
SameDay(date, c, r, n, d) ==
  /\ MarchDay(c, r, n, d)
  /\ date = Joined(c, r, n, d) /\ date_to_days(date) = Number(c, r, n, d)
  /\ date = IF n < 10 THEN <<100 * c + r, n + 3, d>> ELSE <<100 * c + r + 1, n - 9, d>>

HasDay(date) == \E c \in Nat, r \in 0 .. 99, n \in 0 .. 11, d \in 1 .. 31 : SameDay(date, c, r, n, d)

(* From March on a date and its day of a year that begins in March have one *)
(* year.                                                                    *)
LEMMA LateDay ==
  ASSUME NEW c \in Nat, NEW r \in 0 .. 99, NEW n \in 0 .. 9, NEW d \in 1 .. 31
  PROVE  /\ d =< MonthDays(100 * c + r, n + 3) => SameDay(<<100 * c + r, n + 3, d>>, c, r, n, d)
         /\ MarchDay(c, r, n, d) =>
              d =< MonthDays(100 * c + r, n + 3) /\ SameDay(<<100 * c + r, n + 3, d>>, c, r, n, d)
<1>1. MarchDay(c, r, n, d) <=> d =< MonthDays(100 * c + r, n + 3)
  BY DEF MarchDay, MonthDays
<1>2. Joined(c, r, n, d) = <<100 * c + r, n + 3, d>>
  BY DEF Joined, MAKE_DATE
<1>3. (100 * c + r) % 100 = r /\ (100 * c + r) \div 100 = c
  OBVIOUS
<1>4. date_to_days(<<100 * c + r, n + 3, d>>) = Number(c, r, n, d)
  BY <1>3 DEF date_to_days, Number, GET_MONTH, GET_DAY, GET_YEAR, GET_CENTURY
<1>5. n < 10
  OBVIOUS
<1> QED BY <1>1, <1>2, <1>4, <1>5 DEF SameDay

(* January and February are months of the year that began in the March      *)
(* before.                                                                  *)
LEMMA EarlyDay ==
  ASSUME NEW c \in Nat, NEW r \in 0 .. 99, NEW n \in 10 .. 11, NEW d \in 1 .. 31
  PROVE  /\ d =< MonthDays(100 * c + r + 1, n - 9) => SameDay(<<100 * c + r + 1, n - 9, d>>, c, r, n, d)
         /\ MarchDay(c, r, n, d) =>
              d =< MonthDays(100 * c + r + 1, n - 9) /\ SameDay(<<100 * c + r + 1, n - 9, d>>, c, r, n, d)
<1>1. MarchDay(c, r, n, d) <=> d =< MonthDays(100 * c + r + 1, n - 9)
  BY Leap DEF MarchDay, MonthDays
<1>2. Joined(c, r, n, d) = <<100 * c + r + 1, n - 9, d>>
  <2>1. CASE r < 99
    BY <2>1 DEF Joined, MAKE_DATE
  <2>2. CASE r = 99
    BY <2>2 DEF Joined, MAKE_DATE
  <2> QED BY <2>1, <2>2
<1>3. date_to_days(<<100 * c + r + 1, n - 9, d>>) = Number(c, r, n, d)
  <2>1. CASE r < 99
    <3>1. (100 * c + r + 1) % 100 = r + 1 /\ (100 * c + r + 1) \div 100 = c
      BY <2>1
    <3> QED BY <2>1, <3>1 DEF date_to_days, Number, GET_MONTH, GET_DAY, GET_YEAR, GET_CENTURY
  <2>2. CASE r = 99
    <3>1. (100 * c + r + 1) % 100 = 0 /\ (100 * c + r + 1) \div 100 = c + 1
      BY <2>2
    <3> QED BY <2>2, <3>1 DEF date_to_days, Number, GET_MONTH, GET_DAY, GET_YEAR, GET_CENTURY
  <2> QED BY <2>1, <2>2
<1>4. ~(n < 10)
  OBVIOUS
<1> QED BY <1>1, <1>2, <1>3, <1>4 DEF SameDay

(* Every date of the calendar is a day of a year that begins in March.      *)
LEMMA InCalendar ==
  ASSUME NEW date \in Calendar
  PROVE  HasDay(date)
<1>1. PICK y \in Nat \ {0}, m \in 1 .. 12, d \in 1 .. 31 : date = <<y, m, d>> /\ d =< MonthDays(y, m)
  BY DEF Calendar
<1>2. CASE m > 2
  <2>1. PICK c \in Nat, r \in 0 .. 99 : y = 100 * c + r
    <3>1. y \div 100 \in Nat /\ y % 100 \in 0 .. 99 /\ y = 100 * (y \div 100) + (y % 100)
      OBVIOUS
    <3> QED BY <3>1
  <2>2. PICK n \in 0 .. 9 : m = n + 3
    <3>1. m - 3 \in 0 .. 9 /\ m = (m - 3) + 3
      BY <1>2
    <3> QED BY <3>1
  <2>3. date = <<100 * c + r, n + 3, d>> /\ d =< MonthDays(100 * c + r, n + 3)
    BY <1>1, <2>1, <2>2
  <2>4. SameDay(date, c, r, n, d)
    BY <2>3, LateDay
  <2>5. n \in 0 .. 11
    OBVIOUS
  <2> QED BY <2>4, <2>5 DEF HasDay
<1>3. CASE m =< 2
  <2>1. PICK c \in Nat, r \in 0 .. 99 : y = 100 * c + r + 1
    <3>1. (y - 1) \div 100 \in Nat /\ (y - 1) % 100 \in 0 .. 99 /\ y = 100 * ((y - 1) \div 100) + ((y - 1) % 100) + 1
      OBVIOUS
    <3> QED BY <3>1
  <2>2. PICK n \in 10 .. 11 : m = n - 9
    <3>1. m + 9 \in 10 .. 11 /\ m = (m + 9) - 9
      BY <1>3
    <3> QED BY <3>1
  <2>3. date = <<100 * c + r + 1, n - 9, d>> /\ d =< MonthDays(100 * c + r + 1, n - 9)
    BY <1>1, <2>1, <2>2
  <2>4. SameDay(date, c, r, n, d)
    BY <2>3, EarlyDay
  <2>5. n \in 0 .. 11
    OBVIOUS
  <2> QED BY <2>4, <2>5 DEF HasDay
<1>4. m > 2 \/ m =< 2
  OBVIOUS
<1> QED BY ONLY <1>2, <1>3, <1>4

(* Every such day from the first of the calendar on is a date of it.        *)
LEMMA OfMarch ==
  ASSUME NEW c, NEW r, NEW n, NEW d, MarchDay(c, r, n, d), Number(c, r, n, d) >= FirstDay
  PROVE  Joined(c, r, n, d) \in Calendar /\ SameDay(Joined(c, r, n, d), c, r, n, d)
<1>1. c \in Nat /\ r \in 0 .. 99 /\ n \in 0 .. 11 /\ d \in 1 .. 31
  BY DEF MarchDay
<1>2. CASE n < 10
  <2>1. 100 * c + r \in Nat \ {0}
    <3>1. c = 0 /\ r = 0 => (146097 * c) \div 4 + (1461 * r) \div 4 = 0
      OBVIOUS
    <3>2. (153 * n + 2) \div 5 + d < 307
      BY <1>1, <1>2
    <3>3. c = 0 /\ r = 0 => Number(c, r, n, d) < FirstDay
      BY <1>1, <3>1, <3>2 DEF Number, FirstDay
    <3> QED BY <3>3, <1>1 DEF Number, FirstDay
  <2>2. n \in 0 .. 9
    BY <1>1, <1>2
  <2>3. d =< MonthDays(100 * c + r, n + 3) /\ SameDay(<<100 * c + r, n + 3, d>>, c, r, n, d)
    BY <1>1, <2>2, LateDay
  <2>4. <<100 * c + r, n + 3, d>> \in Calendar
    <3>1. n + 3 \in 1 .. 12
      BY <2>2
    <3> QED BY <1>1, <2>1, <2>3, <3>1 DEF Calendar
  <2> QED BY <1>2, <2>3, <2>4 DEF SameDay
<1>3. CASE ~(n < 10)
  <2>2. n \in 10 .. 11
    BY <1>1, <1>3
  <2>3. d =< MonthDays(100 * c + r + 1, n - 9) /\ SameDay(<<100 * c + r + 1, n - 9, d>>, c, r, n, d)
    BY <1>1, <2>2, EarlyDay
  <2>4. <<100 * c + r + 1, n - 9, d>> \in Calendar
    <3>1. n - 9 \in 1 .. 12 /\ 100 * c + r + 1 \in Nat \ {0}
      BY <1>1, <2>2
    <3> QED BY <1>1, <2>3, <3>1 DEF Calendar
  <2> QED BY <1>3, <2>3, <2>4 DEF SameDay
<1> QED BY <1>1, <1>2, <1>3

(* days_to_date undoes date_to_days, for every date of the calendar.        *)
LEMMA DaysOfDates ==
  ASSUME NEW date \in Calendar
  PROVE  /\ date_to_days(date) \in Nat /\ date_to_days(date) >= FirstDay
         /\ days_to_date(date_to_days(date)) = date
<1>1. PICK c \in Nat, r \in 0 .. 99, n \in 0 .. 11, d \in 1 .. 31 : SameDay(date, c, r, n, d)
  BY InCalendar DEF HasDay
<1>2. days_to_date(date_to_days(date)) = date
  BY <1>1, Back DEF SameDay
<1>3. date_to_days(date) \in Nat /\ date_to_days(date) >= FirstDay
  <2>1. 100 * c + r # 0 \/ n >= 10
    BY <1>1 DEF SameDay, Calendar
  <2>2. c # 0 => (146097 * c) \div 4 > 36000
    OBVIOUS
  <2>3. r # 0 => (1461 * r) \div 4 > 364
    OBVIOUS
  <2>4. n >= 10 => (153 * n + 2) \div 5 >= 306
    OBVIOUS
  <2> QED BY <1>1, <2>1, <2>2, <2>3, <2>4 DEF SameDay, Number, FirstDay
<1> QED BY <1>2, <1>3

(* date_to_days undoes days_to_date, which gives a date of the calendar.    *)
LEMMA DatesOfDays ==
  ASSUME NEW n \in Nat, n >= FirstDay
  PROVE  days_to_date(n) \in Calendar /\ date_to_days(days_to_date(n)) = n
<1>1. PICK c, r, m, d : MarchDay(c, r, m, d) /\ n = Number(c, r, m, d)
  BY ToMarch DEF FirstDay
<1>2. days_to_date(n) = Joined(c, r, m, d)
  BY <1>1, Back
<1> QED BY <1>1, <1>2, OfMarch DEF SameDay

NextNumber(date, next) == next \in Calendar /\ date_to_days(next) = date_to_days(date) + 1

(* Two days whose numbers follow each other are dates whose numbers do.     *)
LEMMA SameNumbers ==
  ASSUME NEW date, NEW next, NEW c \in Nat, NEW r \in 0 .. 99, NEW n \in 0 .. 11, NEW d \in 1 .. 31,
         NEW c1 \in Nat, NEW r1 \in 0 .. 99, NEW n1 \in 0 .. 11, NEW d1 \in 1 .. 31,
         SameDay(date, c, r, n, d), SameDay(next, c1, r1, n1, d1), next \in Calendar,
         Number(c1, r1, n1, d1) = Number(c, r, n, d) + 1
  PROVE  NextNumber(date, next)
  BY DEF SameDay, NextNumber

(* Within a month the number moves on by one.                               *)
LEMMA NextOfMonth ==
  ASSUME NEW date \in Calendar, date[3] < MonthDays(date[1], date[2])
  PROVE  NextNumber(date, <<date[1], date[2], date[3] + 1>>)
<1>1. PICK c \in Nat, r \in 0 .. 99, n \in 0 .. 11, d \in 1 .. 31 : SameDay(date, c, r, n, d)
  BY InCalendar DEF HasDay
<1>2. date[1] \in Nat \ {0} /\ date[2] \in 1 .. 12 /\ date = <<date[1], date[2], date[3]>>
  BY DEF Calendar
<1>3. MonthDays(date[1], date[2]) =< 31 /\ MonthDays(date[1], date[2]) \in Nat
  BY <1>2 DEF MonthDays
<1>4. date[3] = d
  BY <1>1 DEF SameDay
<1>5. d + 1 \in 1 .. 31 /\ d + 1 =< MonthDays(date[1], date[2])
  BY <1>3, <1>4
<1>6. <<date[1], date[2], d + 1>> \in Calendar
  BY <1>2, <1>5 DEF Calendar
<1>7. Number(c, r, n, d + 1) = Number(c, r, n, d) + 1
  BY DEF Number
<1>8. SameDay(<<date[1], date[2], d + 1>>, c, r, n, d + 1)
  <2>1. CASE n < 10
    <3>1. n \in 0 .. 9 /\ date[1] = 100 * c + r /\ date[2] = n + 3
      BY <2>1, <1>1 DEF SameDay
    <3> QED BY <3>1, <1>5, LateDay
  <2>2. CASE ~(n < 10)
    <3>1. n \in 10 .. 11 /\ date[1] = 100 * c + r + 1 /\ date[2] = n - 9
      BY <2>2, <1>1 DEF SameDay
    <3> QED BY <3>1, <1>5, EarlyDay
  <2> QED BY <2>1, <2>2
<1> QED BY <1>1, <1>4, <1>5, <1>6, <1>7, <1>8, SameNumbers

(* Every month has a first day.                                             *)
LEMMA FirstOfMonth ==
  ASSUME NEW y \in Nat \ {0}, NEW m \in 1 .. 12
  PROVE  <<y, m, 1>> \in Calendar /\ 1 =< MonthDays(y, m)
<1>1. 1 =< MonthDays(y, m)
  BY DEF MonthDays
<1> QED BY <1>1 DEF Calendar

(* The first of a month follows the last of the one before, but for         *)
(* February.                                                                *)
LEMMA MonthsAre ==
  ASSUME NEW c \in Nat, NEW r \in 0 .. 99, NEW n \in 0 .. 10, NEW d,
         d = IF n \in {1, 3, 6, 8} THEN 30 ELSE 31
  PROVE  Number(c, r, n + 1, 1) = Number(c, r, n, d) + 1
<1>2. (153 * (n + 1) + 2) \div 5 + 1 = (153 * n + 2) \div 5 + d + 1
  OBVIOUS
<1> QED BY <1>2 DEF Number

(* The first of March follows the last of February, in leap years, too.     *)
LEMMA YearsAre ==
  ASSUME NEW c \in Nat, NEW r \in 0 .. 99, NEW d \in 1 .. 31, d = MonthDays(100 * c + r + 1, 2)
  PROVE  IF r < 99 THEN Number(c, r + 1, 0, 1) = Number(c, r, 11, d) + 1
                   ELSE Number(c + 1, 0, 0, 1) = Number(c, r, 11, d) + 1
<1>1. d = IF Fourth(r + 1) /\ (r = 99 => Fourth(c + 1)) THEN 29 ELSE 28
  BY Leap DEF MonthDays
<1>2. CASE r < 99
  <2>1. (1461 * (r + 1)) \div 4 = (1461 * r) \div 4 + IF Fourth(r + 1) THEN 366 ELSE 365
    BY DEF Fourth
  <2> QED BY <1>1, <1>2, <2>1 DEF Number
<1>3. CASE r = 99
  <2>1. (146097 * (c + 1)) \div 4 = (146097 * c) \div 4 + IF Fourth(c + 1) THEN 36525 ELSE 36524
    BY DEF Fourth
  <2>2. Fourth(r + 1)
    BY <1>3 DEF Fourth
  <2> QED BY <1>1, <1>3, <2>1, <2>2 DEF Number
<1> QED BY <1>2, <1>3

(* The number moves on by one at the end of each month but February.        *)
LEMMA MonthEnds ==
  ASSUME NEW date \in Calendar, NEW c \in Nat, NEW r \in 0 .. 99, NEW n \in 0 .. 10, NEW d \in 1 .. 31,
         NEW y \in Nat \ {0}, NEW m \in 1 .. 12,
         SameDay(date, c, r, n, d), d = IF n \in {1, 3, 6, 8} THEN 30 ELSE 31,
         IF n < 9 THEN y = 100 * c + r /\ m = n + 4 ELSE y = 100 * c + r + 1 /\ m = n - 8
  PROVE  NextNumber(date, <<y, m, 1>>)
<1>0. c \in Nat /\ r \in 0 .. 99 /\ 1 \in 1 .. 31
  OBVIOUS
<1>1. <<y, m, 1>> \in Calendar /\ 1 =< MonthDays(y, m)
  BY FirstOfMonth
<1>2. PICK k \in 1 .. 11 : k = n + 1
  OBVIOUS
<1>3. SameDay(<<y, m, 1>>, c, r, k, 1)
  <2>1. CASE n < 9
    <3>1. y = 100 * c + r /\ m = k + 3 /\ k \in 0 .. 9
      BY <1>2, <2>1
    <3>2. 1 =< MonthDays(100 * c + r, k + 3)
      BY <1>1, <3>1
    <3>3. SameDay(<<100 * c + r, k + 3, 1>>, c, r, k, 1)
      BY ONLY <3>1, <3>2, LateDay, <1>0
    <3> QED BY <3>1, <3>3
  <2>2. CASE ~(n < 9)
    <3>1. y = 100 * c + r + 1 /\ m = k - 9 /\ k \in 10 .. 11
      BY <1>2, <2>2
    <3>2. 1 =< MonthDays(100 * c + r + 1, k - 9)
      BY <1>1, <3>1
    <3>3. SameDay(<<100 * c + r + 1, k - 9, 1>>, c, r, k, 1)
      BY ONLY <3>1, <3>2, EarlyDay, <1>0
    <3> QED BY <3>1, <3>3
  <2> QED BY <2>1, <2>2
<1>4. Number(c, r, k, 1) = Number(c, r, n, d) + 1
  BY MonthsAre, <1>2
<1>5. k \in 0 .. 11 /\ 1 \in 1 .. 31 /\ n \in 0 .. 11
  OBVIOUS
<1> QED BY <1>1, <1>3, <1>4, <1>5, SameNumbers

(* The number moves on by one at the end of February.                       *)
LEMMA FebruaryEnds ==
  ASSUME NEW date \in Calendar, NEW c \in Nat, NEW r \in 0 .. 99, NEW d \in 1 .. 31, NEW y \in Nat \ {0},
         SameDay(date, c, r, 11, d), y = 100 * c + r + 1, d = MonthDays(y, 2)
  PROVE  NextNumber(date, <<y, 3, 1>>)
<1>0. 3 \in 1 .. 12
  OBVIOUS
<1>1. <<y, 3, 1>> \in Calendar /\ 1 =< MonthDays(y, 3)
  BY <1>0, FirstOfMonth
<1>2. IF r < 99 THEN Number(c, r + 1, 0, 1) = Number(c, r, 11, d) + 1
                   ELSE Number(c + 1, 0, 0, 1) = Number(c, r, 11, d) + 1
  BY YearsAre
<1>3. PICK c1 \in Nat, r1 \in 0 .. 99 : y = 100 * c1 + r1 /\ Number(c1, r1, 0, 1) = Number(c, r, 11, d) + 1
  <2>1. CASE r < 99
    <3>1. r + 1 \in 0 .. 99 /\ y = 100 * c + (r + 1)
      BY <2>1
    <3> QED BY <1>2, <2>1, <3>1
  <2>2. CASE ~(r < 99)
    <3>1. c + 1 \in Nat /\ 0 \in 0 .. 99 /\ y = 100 * (c + 1) + 0
      BY <2>2
    <3> QED BY <1>2, <2>2, <3>1
  <2> QED BY <2>1, <2>2
<1>4. SameDay(<<y, 3, 1>>, c1, r1, 0, 1)
  <2>1. 1 =< MonthDays(100 * c1 + r1, 0 + 3) /\ 0 \in 0 .. 9 /\ 1 \in 1 .. 31
    BY <1>1, <1>3
  <2>2. SameDay(<<100 * c1 + r1, 0 + 3, 1>>, c1, r1, 0, 1)
    BY ONLY <2>1, LateDay, c1 \in Nat, r1 \in 0 .. 99
  <2> QED BY <2>2, <1>3
<1>5. 0 \in 0 .. 11 /\ 1 \in 1 .. 31 /\ 11 \in 0 .. 11
  OBVIOUS
<1> QED BY <1>1, <1>3, <1>4, <1>5, SameNumbers

(* The number moves on by one at the end of a month.                        *)
LEMMA LastOfMonth ==
  ASSUME NEW y \in Nat \ {0}, NEW m \in 1 .. 12, NEW d \in 1 .. 31, d = MonthDays(y, m)
  PROVE  NextNumber(<<y, m, d>>, IF m < 12 THEN <<y, m + 1, 1>> ELSE <<y + 1, 1, 1>>)
<1>0. <<y, m, d>> \in Calendar
  BY DEF Calendar, MonthDays
<1>1. PICK c \in Nat, r \in 0 .. 99, n \in 0 .. 11, e \in 1 .. 31 : SameDay(<<y, m, d>>, c, r, n, e)
  BY <1>0, InCalendar DEF HasDay
<1>2. /\ e = d
      /\ IF n < 10 THEN y = 100 * c + r /\ m = n + 3 ELSE y = 100 * c + r + 1 /\ m = n - 9
  BY <1>1 DEF SameDay
<1>3. CASE n = 11
  <2>1. NextNumber(<<y, m, d>>, <<y, 3, 1>>)
    <3>1. SameDay(<<y, m, d>>, c, r, 11, d) /\ y = 100 * c + r + 1 /\ d = MonthDays(y, 2)
      BY <1>1, <1>2, <1>3
    <3> QED BY <1>0, <3>1, FebruaryEnds
  <2>2. m = 2 /\ m + 1 = 3
    BY <1>2, <1>3
  <2> QED BY <2>1, <2>2
<1>4. CASE n # 11
  <2>1. n \in 0 .. 10 /\ SameDay(<<y, m, d>>, c, r, n, d)
    BY <1>1, <1>2, <1>4
  <2>2. d = IF n \in {1, 3, 6, 8} THEN 30 ELSE 31
    BY <1>2, <1>4 DEF MonthDays
  <2>3. CASE n = 9
    <3>1. y + 1 \in Nat \ {0} /\ y + 1 = 100 * c + r + 1 /\ 1 \in 1 .. 12 /\ 1 = n - 8 /\ ~(n < 9) /\ ~(m < 12)
      BY <1>2, <2>3
    <3>2. NextNumber(<<y, m, d>>, <<y + 1, 1, 1>>)
      BY <1>0, <2>1, <2>2, <3>1, MonthEnds
    <3> QED BY <3>1, <3>2
  <2>4. CASE n # 9
    <3>1. m + 1 \in 1 .. 12 /\ m < 12 /\ IF n < 9 THEN y = 100 * c + r /\ m + 1 = n + 4 ELSE y = 100 * c + r + 1 /\ m + 1 = n - 8
      BY <1>2, <2>1, <2>4
    <3>2. NextNumber(<<y, m, d>>, <<y, m + 1, 1>>)
      BY <1>0, <2>1, <2>2, <3>1, MonthEnds
    <3> QED BY <3>1, <3>2
  <2> QED BY <2>3, <2>4
<1> QED BY <1>3, <1>4

(* The number moves on by one with each day.                                *)
LEMMA NextIs ==
  ASSUME NEW date \in Calendar
  PROVE  NextNumber(date, Tomorrow(date))
<1>1. PICK y \in Nat \ {0}, m \in 1 .. 12, d \in 1 .. 31 : date = <<y, m, d>> /\ d =< MonthDays(y, m)
  BY DEF Calendar
<1>2. MonthDays(y, m) \in Nat
  BY DEF MonthDays
<1>3. CASE d < MonthDays(y, m)
  <2>1. Tomorrow(date) = <<date[1], date[2], date[3] + 1>>
    BY <1>1, <1>3 DEF Tomorrow
  <2>2. date[3] < MonthDays(date[1], date[2])
    BY <1>1, <1>3
  <2> QED BY <2>1, <2>2, NextOfMonth
<1>4. CASE d = MonthDays(y, m)
  <2>1. Tomorrow(date) = IF m < 12 THEN <<y, m + 1, 1>> ELSE <<y + 1, 1, 1>>
    BY <1>1, <1>2, <1>4 DEF Tomorrow
  <2>2. NextNumber(<<y, m, d>>, IF m < 12 THEN <<y, m + 1, 1>> ELSE <<y + 1, 1, 1>>)
    BY <1>4, LastOfMonth
  <2> QED BY <1>1, <2>1, <2>2
<1> QED BY <1>1, <1>2, <1>3, <1>4

(* day_of_week depends on the number of a day only.                         *)
LEMMA Weekday ==
  ASSUME NEW date \in Calendar
  PROVE  day_of_week(date) = (date_to_days(date) + 1) % 7
<1>1. PICK c \in Nat, r \in 0 .. 99, n \in 0 .. 11, d \in 1 .. 31 : SameDay(date, c, r, n, d)
  BY InCalendar DEF HasDay
<1>2. day_of_week(date) = ((13 * (n + 1) - 1) \div 5 + d + r + r \div 4 + c \div 4 - 2 * c + 77) % 7
  <2>1. (100 * c + r) % 100 = r /\ (100 * c + r) \div 100 = c
    OBVIOUS
  <2>2. CASE n < 10
    <3>1. date = <<100 * c + r, n + 3, d>> /\ ~(n + 3 =< 2) /\ n + 3 + (-2) = n + 1
      BY <1>1, <2>2 DEF SameDay
    <3> QED BY <2>1, <3>1 DEF day_of_week, GET_MONTH, GET_CCYEAR, GET_DAY
  <2>3. CASE ~(n < 10)
    <3>1. date = <<100 * c + r + 1, n - 9, d>> /\ n - 9 =< 2 /\ n - 9 + 10 = n + 1 /\ 100 * c + r + 1 - 1 = 100 * c + r
      BY <1>1, <2>3 DEF SameDay
    <3> QED BY <2>1, <3>1 DEF day_of_week, GET_MONTH, GET_CCYEAR, GET_DAY
  <2> QED BY <2>2, <2>3
<1>3. date_to_days(date) = (146097 * c) \div 4 + (1461 * r) \div 4 + (153 * n + 2) \div 5 + d + 1721119
  BY <1>1 DEF SameDay, Number
<1>4. (146097 * c) \div 4 = 36524 * c + c \div 4
  OBVIOUS
<1>5. (1461 * r) \div 4 = 365 * r + r \div 4
  OBVIOUS
<1>6. (13 * (n + 1) - 1) \div 5 = (153 * n + 2) \div 5 - 28 * n + 2
  OBVIOUS
<1>7. PICK q \in Int, s \in Int, u \in Int : q = c \div 4 /\ s = r \div 4 /\ u = (153 * n + 2) \div 5
  OBVIOUS
<1>8. day_of_week(date) = (u - 28 * n + 2 + d + r + s + q - 2 * c + 77) % 7
  BY <1>2, <1>6, <1>7
<1>9. date_to_days(date) = 36524 * c + q + 365 * r + s + u + d + 1721119
  BY <1>3, <1>4, <1>5, <1>7
<1>10. ((36524 * c + q + 365 * r + s + u + d + 1721119) + 1) % 7 = (u - 28 * n + 2 + d + r + s + q - 2 * c + 77) % 7
  OBVIOUS
<1> QED BY <1>8, <1>9, <1>10

(* The weekday of a number of a day. *)
WeekdayOf(n) == (n + 1) % 7

(* The weekday of the date that has a number.                               *)
LEMMA WeekdayOfDays ==
  ASSUME NEW n \in Nat, n >= FirstDay
  PROVE  day_of_week(days_to_date(n)) = WeekdayOf(n)
  BY DatesOfDays, Weekday DEF WeekdayOf

(* next_weekday comes to the first weekday there is.                        *)
LEMMA NextWeekday ==
  ASSUME NEW date \in Calendar
  PROVE  \E k \in 1 .. 3 :
            /\ next_weekday(date) = days_to_date(date_to_days(date) + k)
            /\ WeekdayOf(date_to_days(date)) \in 1 .. 4 => k = 1
            /\ WeekdayOf(date_to_days(date)) = 5 => k = 3
            /\ \A n \in date_to_days(date) + 1 .. date_to_days(date) + k :
                 WeekdayOf(n) \in 1 .. 5 <=> n = date_to_days(date) + k
<1>1. PICK n \in Nat : n = date_to_days(date)
  BY DaysOfDates
<1>2. day_of_week(date) = WeekdayOf(n)
  BY <1>1, Weekday DEF WeekdayOf
<1>3. PICK k \in 1 .. 3 : k = CASE WeekdayOf(n) = 5 -> 3 [] WeekdayOf(n) = 6 -> 2 [] OTHER -> 1
  <2>1. (CASE WeekdayOf(n) = 5 -> 3 [] WeekdayOf(n) = 6 -> 2 [] OTHER -> 1) \in 1 .. 3
    OBVIOUS
  <2> QED BY <2>1
<1>4. next_weekday(date) = days_to_date(n + k)
  BY <1>1, <1>2, <1>3 DEF next_weekday
<1>5. WeekdayOf(n) \in 1 .. 4 => k = 1
  BY <1>3
<1>6. WeekdayOf(n) = 5 => k = 3
  BY <1>3
<1>7. \A j \in n + 1 .. n + k : WeekdayOf(j) \in 1 .. 5 <=> j = n + k
  <2> TAKE j \in n + 1 .. n + k
  <2> QED BY <1>3 DEF WeekdayOf
<1> QED BY <1>1, <1>4, <1>5, <1>6, <1>7

(* next_weekday leaves out weekend days only, and prev_weekday comes back.  *)
LEMMA WeekdaysAgree ==
  ASSUME NEW date \in Calendar
  PROVE  LET w == next_weekday(date)
         IN  /\ date_to_days(w) > date_to_days(date)
             /\ \A n \in date_to_days(date) + 1 .. date_to_days(w) :
                  day_of_week(days_to_date(n)) \in 1 .. 5 <=> n = date_to_days(w)
             /\ day_of_week(date) \in 1 .. 5 => prev_weekday(w) = date
<1> DEFINE w == next_weekday(date)
<1>1. PICK b \in Nat : b = date_to_days(date) /\ b >= FirstDay /\ days_to_date(b) = date
  BY DaysOfDates
<1>2. PICK k \in 1 .. 3 :
            /\ w = days_to_date(b + k)
            /\ WeekdayOf(b) \in 1 .. 4 => k = 1
            /\ WeekdayOf(b) = 5 => k = 3
            /\ \A n \in b + 1 .. b + k : WeekdayOf(n) \in 1 .. 5 <=> n = b + k
  BY <1>1, NextWeekday
<1> HIDE DEF w
<1>3. b + k \in Nat /\ b + k >= FirstDay
  BY <1>1 DEF FirstDay
<1>4. w \in Calendar /\ date_to_days(w) = b + k
  BY <1>2, <1>3, DatesOfDays
<1>5. \A n \in b + 1 .. b + k : day_of_week(days_to_date(n)) \in 1 .. 5 <=> n = b + k
  <2> TAKE n \in b + 1 .. b + k
  <2>1. n \in Nat /\ n >= FirstDay
    BY <1>1 DEF FirstDay
  <2> QED BY <1>2, <2>1, WeekdayOfDays
<1>6. ASSUME day_of_week(date) \in 1 .. 5
      PROVE  prev_weekday(w) = date
  <2>1. WeekdayOf(b) \in 1 .. 5
    BY <1>1, <1>6, Weekday DEF WeekdayOf
  <2>2. day_of_week(w) = (b + k + 1) % 7
    BY <1>4, Weekday
  <2>3. (CASE day_of_week(w) = 1 -> 3 [] day_of_week(w) = 0 -> 2 [] OTHER -> 1) = k
    <3>1. CASE WeekdayOf(b) = 5
      <4>1. k = 3 /\ (b + k + 1) % 7 = 1
        BY <1>2, <3>1 DEF WeekdayOf
      <4> QED BY <2>2, <4>1
    <3>2. CASE WeekdayOf(b) \in 1 .. 4
      <4>1. k = 1 /\ (b + k + 1) % 7 # 1 /\ (b + k + 1) % 7 # 0
        BY <1>2, <3>2 DEF WeekdayOf
      <4> QED BY <2>2, <4>1
    <3> QED BY <2>1, <3>1, <3>2
  <2>4. prev_weekday(w) = days_to_date(b + k - k)
    BY <1>4, <2>3 DEF prev_weekday
  <2>5. b + k - k = b
    OBVIOUS
  <2> QED BY <1>1, <2>4, <2>5
<1>7. b + k > b
  OBVIOUS
<1> QED BY <1>1, <1>4, <1>5, <1>6, <1>7 DEF w

(* The years in which the year without its century tells the leap years: *)
(* those of the last two centuries, without the years 00.                *)
KnownYear(y) == y \in Nat /\ y > 1900 /\ y < 2100 /\ y # 2000

Known(date) == date \in Calendar /\ KnownYear(date[1])

PackedYear(y) == y \in Nat /\ y >= 1980 /\ y =< 2107

(* Where the last two digits of a year are not 0 they tell the leap years.  *)
LEMMA LeapDigits ==
  ASSUME NEW y \in Nat, y % 100 # 0
  PROVE  y % 100 > 0 /\ (leap_year(y % 100) <=> leap_year(y))
<1>1. y > 0 /\ y % 100 > 0
  OBVIOUS
<1>2. y % 100 # 0 /\ y % 400 # 0 /\ (y % 100) % 100 # 0 /\ (y % 100) % 400 # 0
  BY <1>1
<1>3. (y % 100) % 4 = y % 4
  BY <1>1
<1> QED BY <1>1, <1>2, <1>3 DEF leap_year

(* These years are such ones.                                               *)
LEMMA LeapIs ==
  ASSUME NEW y, KnownYear(y)
  PROVE  y % 100 > 0 /\ (leap_year(y % 100) <=> leap_year(y))
<1>1. y \in Nat /\ y % 100 # 0
  BY DEF KnownYear
<1> QED BY <1>1, LeapDigits

(* The dates of the calendar are valid where valid_date does not stop.      *)
LEMMA ValidUnlessStopped ==
  ASSUME NEW date \in Calendar, ~Stops(date)
  PROVE  valid_date(date)
<1>1. PICK y \in Nat \ {0}, m \in 1 .. 12, d \in 1 .. 31 :
        date = <<y, m, d>> /\ d =< MonthDays(y, m)
  BY DEF Calendar
<1>2. ASSUME m = 2, d = 29
      PROVE  leap_year(y % 100)
  <2>1. leap_year(y)
    BY <1>1, <1>2 DEF MonthDays
  <2>2. y % 100 # 0
    BY <1>1, <1>2 DEF Stops, GET_YEAR, GET_MONTH, GET_DAY
  <2> QED BY <2>1, <2>2, LeapDigits
<1>3. d \in 1 .. <<31, 29, 31, 30, 31, 30, 31, 31, 30, 31, 30, 31>>[m]
  <2>1. m = 1 \/ m = 2 \/ m = 3 \/ m = 4 \/ m = 5 \/ m = 6 \/ m = 7 \/ m = 8 \/ m = 9 \/ m = 10 \/ m = 11 \/ m = 12
    OBVIOUS
  <2> QED BY <1>1, <2>1 DEF MonthDays
<1> QED BY <1>1, <1>2, <1>3 DEF valid_date, GET_MONTH, GET_DAY, GET_YEAR

(* In the years of the last two centuries it does not, those of 00 aside.   *)
LEMMA ValidDates ==
  ASSUME NEW date, Known(date)
  PROVE  valid_date(date)
<1>1. date \in Calendar /\ date[1] % 100 # 0
  BY DEF Known, KnownYear
<1> QED BY <1>1, ValidUnlessStopped DEF Stops, GET_YEAR

(* The days before a month, and the leap day. *)
Before(m) == <<0, 31, 59, 90, 120, 151, 181, 212, 243, 273, 304, 334>>[m]

DayInYear(y, m, d) == Before(m) + d + (IF m > 2 /\ leap_year(y) THEN 1 ELSE 0)

(* julian_date, with the leap year looked up by the whole year.             *)
LEMMA JulianIs ==
  ASSUME NEW y, NEW m \in 1 .. 12, NEW d \in 1 .. 31, KnownYear(y)
  PROVE  julian_date(<<y, m, d>>) = DayInYear(y, m, d)
  BY LeapIs DEF DayInYear, julian_date, Before, GET_MONTH, GET_DAY, GET_YEAR

(* The days before a month, from those before the month before it.          *)
LEMMA BeforeIs ==
  ASSUME NEW m \in 1 .. 11, NEW y
  PROVE  /\ Before(m) \in Nat /\ Before(m + 1) \in Nat
         /\ Before(m + 1) + (IF m + 1 > 2 /\ leap_year(y) THEN 1 ELSE 0)
              = Before(m) + (IF m > 2 /\ leap_year(y) THEN 1 ELSE 0) + MonthDays(y, m)
<1>1. m = 1 \/ m = 2 \/ m = 3 \/ m = 4 \/ m = 5 \/ m = 6 \/ m = 7 \/ m = 8 \/ m = 9 \/ m = 10 \/ m = 11
  OBVIOUS
<1> QED BY <1>1 DEF Before, MonthDays

(* No days are before January.                                              *)
LEMMA BeforeNat ==
  ASSUME NEW m \in 1 .. 12
  PROVE  Before(m) \in Nat /\ Before(1) = 0
<1>1. m = 1 \/ m = 2 \/ m = 3 \/ m = 4 \/ m = 5 \/ m = 6 \/ m = 7 \/ m = 8 \/ m = 9 \/ m = 10 \/ m = 11 \/ m = 12
  OBVIOUS
<1> QED BY <1>1 DEF Before

(* julian_date moves on by one with each day, and begins again with the     *)
(* year.                                                                    *)
LEMMA JulianAgrees ==
  ASSUME NEW date, Known(date)
  PROVE  julian_date(Tomorrow(date)) = IF Tomorrow(date)[1] # date[1] THEN 1 ELSE julian_date(date) + 1
<1>1. PICK y \in Nat, m \in 1 .. 12, d \in 1 .. 31 :
        date = <<y, m, d>> /\ d =< MonthDays(y, m) /\ KnownYear(y)
  <2>1. date \in Calendar /\ KnownYear(date[1])
    BY DEF Known
  <2>2. /\ date[1] \in Nat /\ date[2] \in 1 .. 12 /\ date[3] \in 1 .. 31
        /\ date = <<date[1], date[2], date[3]>> /\ date[3] =< MonthDays(date[1], date[2])
    BY ONLY <2>1 DEF Calendar
  <2> QED BY ONLY <2>1, <2>2
<1>2. MonthDays(y, m) \in 1 .. 31
  BY DEF MonthDays
<1>3. julian_date(date) = Before(m) + d + (IF m > 2 /\ leap_year(y) THEN 1 ELSE 0) /\ Before(m) \in Nat
  <2>0. KnownYear(y)
    BY <1>1 DEF KnownYear
  <2>1. julian_date(<<y, m, d>>) = DayInYear(y, m, d)
    BY <2>0, JulianIs, Zenon
  <2> QED BY <1>1, <2>1, BeforeNat DEF DayInYear
<1>4. CASE d < MonthDays(y, m)
  <2>1. Tomorrow(date) = <<y, m, d + 1>> /\ d + 1 \in 1 .. 31
    BY <1>1, <1>2, <1>4 DEF Tomorrow
  <2>0. KnownYear(y)
    BY <1>1 DEF KnownYear
  <2>2. julian_date(<<y, m, d + 1>>) = DayInYear(y, m, d + 1)
    BY <2>0, <2>1, JulianIs, Zenon
  <2> QED BY <1>1, <1>3, <2>1, <2>2 DEF DayInYear
<1>5. CASE d = MonthDays(y, m) /\ m < 12
  <2>1. Tomorrow(date) = <<y, m + 1, 1>> /\ m \in 1 .. 11 /\ m + 1 \in 1 .. 12 /\ 1 \in 1 .. 31
    BY <1>1, <1>2, <1>5 DEF Tomorrow
  <2>0. KnownYear(y)
    BY <1>1 DEF KnownYear
  <2>2. julian_date(<<y, m + 1, 1>>) = DayInYear(y, m + 1, 1)
    BY <2>0, <2>1, JulianIs, Zenon
  <2>3. /\ Before(m + 1) \in Nat
        /\ Before(m + 1) + (IF m + 1 > 2 /\ leap_year(y) THEN 1 ELSE 0)
              = Before(m) + (IF m > 2 /\ leap_year(y) THEN 1 ELSE 0) + MonthDays(y, m)
    BY <2>1, BeforeIs
  <2> QED BY <1>1, <1>2, <1>3, <1>5, <2>1, <2>2, <2>3 DEF DayInYear
<1>6. CASE d = MonthDays(y, m) /\ ~(m < 12)
  <2>1. Tomorrow(date) = <<y + 1, 1, 1>>
    BY <1>1, <1>2, <1>6 DEF Tomorrow
  <2>2. julian_date(<<y + 1, 1, 1>>) = 1
    BY BeforeNat DEF julian_date, Before, GET_MONTH, GET_DAY
  <2> QED BY <1>1, <2>1, <2>2
<1> QED BY <1>1, <1>2, <1>4, <1>5, <1>6

PackedDay(y, m, d) == (y - 1980) * 512 + m * 32 + d

(* The fields of a packed date do not overlap, from 1980 to 2107.           *)
LEMMA Packed ==
  ASSUME NEW y, NEW m \in 1 .. 12, NEW d \in 1 .. 31, PackedYear(y)
  PROVE  pack_date(<<y, m, d>>) = PackedDay(y, m, d)
<1>1. (y - 1980) * 512 + m * 32 + d \in Nat /\ (y - 1980) * 512 + m * 32 + d < 65536
  BY DEF PackedYear
<1>2. ((y - 1980) * 512 + m * 32 + d) % 65536 = (y - 1980) * 512 + m * 32 + d
  BY <1>1
<1> QED BY <1>2 DEF PackedDay, pack_date, GET_CCYEAR, GET_MONTH, GET_DAY

(* Packed dates come back, and are in the order of the dates;               *)
(* default_century gives a year its own century.                            *)
LEMMA PackingAgrees ==
  ASSUME NEW date \in Calendar
  PROVE  /\ date[1] \in 1981 .. 2107 => unpack_date(pack_date(date)) = date
         /\ date[1] \in 1980 .. 2106 => pack_date(date) < pack_date(Tomorrow(date))
         /\ default_century(<<date[1] % 100, date[2], date[3]>>) = date \/ date[1] \notin 1951 .. 2050
<1>1. PICK y \in Nat \ {0}, m \in 1 .. 12, d \in 1 .. 31 : date = <<y, m, d>> /\ d =< MonthDays(y, m)
  BY DEF Calendar
<1>2. MonthDays(y, m) \in 1 .. 31
  BY DEF MonthDays
<1>3. ASSUME y >= 1981, y =< 2107
      PROVE  unpack_date(pack_date(date)) = date
  <2>0. PackedYear(y)
    BY <1>3 DEF PackedYear
  <2>p. pack_date(<<y, m, d>>) = PackedDay(y, m, d)
    BY <2>0, Packed, Zenon
  <2>1. pack_date(date) = (y - 1980) * 512 + m * 32 + d
    BY <1>1, <2>p DEF PackedDay
  <2>2. PICK w \in Nat : w = (y - 1980) * 512 + m * 32 + d
    BY <1>3
  <2>3. w \div 512 + 80 = y - 1900 /\ (w % 512) \div 32 = m /\ w % 32 = d
    BY <1>3, <2>2
  <2>4. y - 1900 > 80 /\ 19 * 100 + (y - 1900) = y
    BY <1>3
  <2> QED BY <1>1, <2>1, <2>2, <2>3, <2>4 DEF unpack_date, MAKE_DATE
<1>4. ASSUME y >= 1980, y =< 2106
      PROVE  pack_date(date) < pack_date(Tomorrow(date))
  <2>0. PackedYear(y)
    BY <1>4 DEF PackedYear
  <2>p. pack_date(<<y, m, d>>) = PackedDay(y, m, d)
    BY <2>0, Packed, Zenon
  <2>1. pack_date(date) = (y - 1980) * 512 + m * 32 + d
    BY <1>1, <2>p DEF PackedDay
  <2>2. CASE d < MonthDays(y, m)
    <3>1. Tomorrow(date) = <<y, m, d + 1>> /\ d + 1 \in 1 .. 31
      BY <1>1, <1>2, <2>2 DEF Tomorrow
    <3>2. pack_date(<<y, m, d + 1>>) = PackedDay(y, m, d + 1)
      BY <2>0, <3>1, Packed, Zenon
    <3> QED BY <2>1, <3>1, <3>2 DEF PackedDay
  <2>3. CASE d = MonthDays(y, m) /\ m < 12
    <3>1. Tomorrow(date) = <<y, m + 1, 1>> /\ m + 1 \in 1 .. 12 /\ 1 \in 1 .. 31
      BY <1>1, <1>2, <2>3 DEF Tomorrow
    <3>2. pack_date(<<y, m + 1, 1>>) = PackedDay(y, m + 1, 1)
      BY <2>0, <3>1, Packed, Zenon
    <3> QED BY <2>1, <3>1, <3>2 DEF PackedDay
  <2>4. CASE d = MonthDays(y, m) /\ ~(m < 12)
    <3>1. Tomorrow(date) = <<y + 1, 1, 1>> /\ 1 \in 1 .. 12 /\ 1 \in 1 .. 31
      BY <1>1, <1>2, <1>4, <2>4 DEF Tomorrow
    <3>0. PackedYear(y + 1)
      BY <1>4 DEF PackedYear
    <3>2. pack_date(<<y + 1, 1, 1>>) = PackedDay(y + 1, 1, 1)
      BY <3>0, <3>1, Packed, Zenon
    <3> QED BY <2>1, <3>1, <3>2, <1>4 DEF PackedDay
  <2> QED BY <1>1, <1>2, <2>2, <2>3, <2>4
<1>5. ASSUME y >= 1951, y =< 2050
      PROVE  default_century(<<y % 100, m, d>>) = <<y, m, d>>
  <2>1. PICK r \in 0 .. 99 : r = y % 100
    OBVIOUS
  <2>2. r \div 100 = 0 /\ r % 100 = r /\ r + (IF r > 50 THEN 1900 ELSE 2000) = y
    BY <1>5, <2>1
  <2> QED BY <2>1, <2>2 DEF default_century, GET_CENTURY, GET_YEAR
<1>6. \A a, b \in Nat : y \in a .. b => y >= a /\ y =< b
  OBVIOUS
<1>7. /\ y \in 1981 .. 2107 => y >= 1981 /\ y =< 2107
      /\ y \in 1980 .. 2106 => y >= 1980 /\ y =< 2106
      /\ (y >= 1951 /\ y =< 2050) \/ y \notin 1951 .. 2050
  BY <1>6
<1> QED BY <1>1, <1>3, <1>4, <1>5, <1>7

LastDay(last) == date_to_days(<<last, 12, 31>>)

(* The last days of 1999 and 2099, in the years that began in March.        *)
LEMMA LastIs ==
  /\ LastDay(1999) = Number(19, 99, 9, 31)
  /\ LastDay(2099) = Number(20, 99, 9, 31)
<1>1. 2099 % 100 = 99 /\ 2099 \div 100 = 20 /\ 1999 % 100 = 99 /\ 1999 \div 100 = 19
  OBVIOUS
<1> QED BY <1>1 DEF LastDay, date_to_days, Number, GET_MONTH, GET_DAY, GET_YEAR, GET_CENTURY

(* A date up to the last of a century's last year is not of a later year.   *)
LEMMA YearsKnown ==
  ASSUME NEW date \in Calendar, NEW k \in {19, 20}, date_to_days(date) =< Number(k, 99, 9, 31)
  PROVE  date[1] =< 100 * k + 99
<1>1. PICK c \in Nat, r \in 0 .. 99, n \in 0 .. 11, d \in 1 .. 31 : SameDay(date, c, r, n, d)
  BY InCalendar DEF HasDay
<1>2. Number(c, r, n, d) =< Number(k, 99, 9, 31)
  BY <1>1 DEF SameDay
<1>3. IF n < 10 THEN date[1] = 100 * c + r ELSE date[1] = 100 * c + r + 1
  BY <1>1 DEF SameDay
<1>4. c =< k
  <2>1. c >= k + 1 => (146097 * c) \div 4 >= (146097 * k) \div 4 + 36524
    OBVIOUS
  <2>2. (1461 * r) \div 4 >= 0 /\ (153 * n + 2) \div 5 >= 0
    OBVIOUS
  <2>3. Number(k, 99, 9, 31) = (146097 * k) \div 4 + 36159 + 275 + 31 + 1721119
    BY DEF Number
  <2> QED BY <1>2, <2>1, <2>2, <2>3 DEF Number
<1>5. CASE c = k /\ r = 99
  <2>1. (153 * n + 2) \div 5 + d =< 275 + 31
    BY <1>2, <1>5 DEF Number
  <2>2. n < 10
    BY <2>1
  <2> QED BY <1>3, <1>5, <2>2
<1>6. CASE c = k /\ r < 99
  BY <1>3, <1>6
<1>7. CASE c < k
  BY <1>3, <1>7
<1> QED BY <1>4, <1>5, <1>6, <1>7

(* A day later no year is earlier.                                          *)
LEMMA YearsGrow ==
  ASSUME NEW date \in Calendar
  PROVE  /\ date[1] \in Nat /\ Tomorrow(date)[1] \in Nat
         /\ Tomorrow(date)[1] >= date[1]
<1>1. date[1] \in Nat
  BY DEF Calendar
<1>2. Tomorrow(date)[1] = date[1] \/ Tomorrow(date)[1] = date[1] + 1
  BY DEF Tomorrow
<1> QED BY <1>1, <1>2

(* A day of one of the two centuries, from which the days that are left end *)
(* in that century. *)
Within(date, last, left) ==
  date[1] > last - 99 /\ date_to_days(date) + left =< LastDay(last)

(* What holds of the day, whichever day the walk has come to. *)
DateInv ==
  /\ day = [date |-> day.date, number |-> day.number]
  /\ day.date \in Calendar
  /\ day.number \in Nat /\ day.number =< Days
  /\ \E last \in {1999, 2099} : Within(day.date, last, Days - day.number)

(* A date of the two centuries is of a known year.                          *)
LEMMA WithinKnown ==
  ASSUME NEW date \in Calendar, NEW last \in {1999, 2099}, NEW left \in Nat, Within(date, last, left)
  PROVE  Known(date)
<1>1. date_to_days(date) \in Nat /\ date[1] \in Nat
  BY DaysOfDates, YearsGrow
<1>2. CASE last = 1999
  <2>1. LastDay(1999) = Number(19, 99, 9, 31) /\ Number(19, 99, 9, 31) \in Int
    BY LastIs DEF Number
  <2>2. date_to_days(date) =< Number(19, 99, 9, 31)
    BY <1>1, <1>2, <2>1 DEF Within
  <2>3. date[1] =< 100 * 19 + 99
    BY <2>2, YearsKnown
  <2> QED BY <1>1, <1>2, <2>3 DEF Within, Known, KnownYear
<1>3. CASE last = 2099
  <2>1. LastDay(2099) = Number(20, 99, 9, 31) /\ Number(20, 99, 9, 31) \in Int
    BY LastIs DEF Number
  <2>2. date_to_days(date) =< Number(20, 99, 9, 31)
    BY <1>1, <1>3, <2>1 DEF Within
  <2>3. date[1] =< 100 * 20 + 99
    BY <2>2, YearsKnown
  <2> QED BY <1>1, <1>3, <2>3 DEF Within, Known, KnownYear
<1> QED BY <1>2, <1>3

(* The dates from which days are counted are such dates.                    *)
LEMMA DateInvStarts ==
  ASSUME GoodDates, DateInit
  PROVE  DateInv
<1>1. PICK d \in Starts : day = [date |-> d, number |-> 0]
  BY DEF DateInit
<1>2. PICK last \in {1999, 2099} : Within(d, last, Days)
  BY DEF GoodDates, LastDay, Within
<1>3. d \in Calendar /\ Days \in Nat /\ Days - 0 = Days
  BY DEF GoodDates
<1>4. day.date = d /\ day.number = 0
  BY <1>1
<1>5. Within(day.date, last, Days - day.number)
  BY <1>2, <1>3, <1>4
<1> QED BY <1>1, <1>3, <1>4, <1>5 DEF DateInv

(* And stay so from day to day.                                             *)
LEMMA DateInvKept ==
  ASSUME GoodDates, DateInv, [NextDay]_day
  PROVE  DateInv'
<1>1. CASE NextDay
  <2>1. NextNumber(day.date, Tomorrow(day.date))
    BY NextIs DEF DateInv
  <2>2. day'.date = Tomorrow(day.date) /\ day'.number = day.number + 1
        /\ day' = [date |-> day'.date, number |-> day'.number]
    BY <1>1 DEF NextDay
  <2>3. day'.date \in Calendar /\ date_to_days(day'.date) = date_to_days(day.date) + 1
    BY <2>1, <2>2 DEF NextNumber
  <2>4. PICK last \in {1999, 2099} : Within(day.date, last, Days - day.number)
    BY DEF DateInv
  <2>5. date_to_days(day.date) \in Nat /\ LastDay(last) \in Int /\ Days \in Nat
    BY DaysOfDates, LastIs DEF Number, DateInv, GoodDates
  <2>6. day'.number \in Nat /\ day'.number =< Days
    BY <1>1, <2>2, <2>5 DEF NextDay, DateInv
  <2>7. day'.date[1] > last - 99
    BY <2>2, <2>4, YearsGrow DEF Within, DateInv
  <2>8. date_to_days(day'.date) + (Days - day'.number) =< LastDay(last)
    BY <2>2, <2>3, <2>4, <2>5 DEF Within, DateInv
  <2>9. Within(day'.date, last, Days - day'.number)
    BY <2>7, <2>8 DEF Within
  <2> QED BY <2>2, <2>3, <2>6, <2>9 DEF DateInv
<1>2. CASE UNCHANGED day
  BY <1>2 DEF DateInv
<1> QED BY <1>1, <1>2

(* In such a state everything computed of the day agrees with the next day. *)
LEMMA DateInvShows ==
  ASSUME GoodDates, DateInv
  PROVE  DatesAgree
<1>1. day.date \in Calendar
  BY DEF DateInv
<1>2. Known(day.date)
  <2>1. PICK last \in {1999, 2099} : Within(day.date, last, Days - day.number)
    BY DEF DateInv
  <2>2. Days - day.number \in Nat
    BY DEF DateInv, GoodDates
  <2> QED BY <1>1, <2>1, <2>2, WithinKnown
<1>3. date_to_days(Tomorrow(day.date)) = date_to_days(day.date) + 1 /\ Tomorrow(day.date) \in Calendar
  BY <1>1, NextIs DEF NextNumber
<1>4. day_of_week(Tomorrow(day.date)) = (day_of_week(day.date) + 1) % 7
  <2>1. PICK n \in Nat : n = date_to_days(day.date)
    BY <1>1, DaysOfDates
  <2>2. day_of_week(day.date) = (n + 1) % 7 /\ day_of_week(Tomorrow(day.date)) = (n + 1 + 1) % 7
    BY <1>1, <1>3, <2>1, Weekday
  <2>3. (n + 1 + 1) % 7 = (((n + 1) % 7) + 1) % 7
    OBVIOUS
  <2> QED BY <2>2, <2>3
<1>5. valid_date(day.date) /\ days_to_date(date_to_days(day.date)) = day.date
  BY <1>1, <1>2, ValidDates, DaysOfDates
<1>6. julian_date(Tomorrow(day.date)) =
        IF Tomorrow(day.date)[1] # day.date[1] THEN 1 ELSE julian_date(day.date) + 1
  BY <1>2, JulianAgrees
<1> QED BY <1>1, <1>3, <1>4, <1>5, <1>6, WeekdaysAgree, PackingAgrees DEF DatesAgree

(* For every date of the calendar from 1901 to 1999 or from 2001 to 2099,   *)
(* and any number of days counted from it within that century, the          *)
(* conversions of sfldate.c agree with the calendar: date_to_days and       *)
(* days_to_date undo each other and move on by one, weekdays, days of the   *)
(* year and packed dates follow, and valid_date accepts them.  In 2000 they *)
(* fail: julian_date and valid_date run into the assertion of leap_year.    *)
THEOREM DatesFollowTheCalendar ==
  ASSUME GoodDates
  PROVE  DateSpec => []DatesAgree
<1>1. DateInit => DateInv
  BY DateInvStarts
<1>2. DateInv /\ [NextDay]_day => DateInv'
  BY DateInvKept
<1>3. DateInv => DatesAgree
  BY DateInvShows
<1> QED BY <1>1, <1>2, <1>3, PTL DEF DateSpec

IsTime(t) == t \in (0 .. 23) \X (0 .. 59) \X (0 .. 59) \X (0 .. 99)

(* A time comes back from its centiseconds.                                 *)
LEMMA TimeIs ==
  ASSUME NEW t, IsTime(t)
  PROVE  /\ time_to_csecs(t) \in Nat /\ time_to_csecs(t) < INTERVAL_DAY
         /\ csecs_to_time(time_to_csecs(t)) = t
<1>1. PICK h \in 0 .. 23, m \in 0 .. 59, s \in 0 .. 59, c \in 0 .. 99 : t = <<h, m, s, c>>
  <2>1. /\ t[1] \in 0 .. 23 /\ t[2] \in 0 .. 59 /\ t[3] \in 0 .. 59 /\ t[4] \in 0 .. 99
        /\ t = <<t[1], t[2], t[3], t[4]>>
    BY DEF IsTime
  <2> QED BY <2>1
<1>2. PICK n \in Nat : n = h * 360000 + m * 6000 + s * 100 + c
  OBVIOUS
<1>3. time_to_csecs(t) = n
  BY <1>1, <1>2 DEF time_to_csecs
<1>4. n < INTERVAL_DAY
  BY <1>2 DEF INTERVAL_DAY
<1>5. n \div 360000 = h
  BY <1>2
<1>6. (n % 360000) \div 6000 = m
  BY <1>2
<1>7. (n % 6000) \div 100 = s
  BY <1>2
<1>8. n % 100 = c
  BY <1>2
<1> QED BY <1>1, <1>3, <1>4, <1>5, <1>6, <1>7, <1>8 DEF csecs_to_time

(* Centiseconds of a day come back from their time.                         *)
LEMMA CsecsAre ==
  ASSUME NEW n \in Nat, n < INTERVAL_DAY
  PROVE  /\ valid_time(csecs_to_time(n)) /\ time_to_csecs(csecs_to_time(n)) = n
<1>1. n \div 360000 < 24
  BY DEF INTERVAL_DAY
<1>2. (n % 360000) \div 6000 < 60
  OBVIOUS
<1>3. (n % 6000) \div 100 < 60
  OBVIOUS
<1>4. (n \div 360000) * 360000 + ((n % 360000) \div 6000) * 6000 + ((n % 6000) \div 100) * 100 + (n % 100) = n
  <2>1. n = (n \div 360000) * 360000 + (n % 360000)
    OBVIOUS
  <2>2. n % 360000 = ((n % 360000) \div 6000) * 6000 + (n % 6000)
    OBVIOUS
  <2>3. n % 6000 = ((n % 6000) \div 100) * 100 + (n % 100)
    OBVIOUS
  <2>4. n \div 360000 \in Int /\ n % 360000 \in Int /\ (n % 360000) \div 6000 \in Int /\ n % 6000 \in Int
        /\ (n % 6000) \div 100 \in Int /\ n % 100 \in Int
    OBVIOUS
  <2> QED BY <2>1, <2>2, <2>3, <2>4
<1> QED BY <1>1, <1>2, <1>3, <1>4 DEF csecs_to_time, time_to_csecs, valid_time

(* Days and centiseconds carried over. *)
CarriedOver(n) == n \div INTERVAL_DAY
LeftOver(n)    == n % INTERVAL_DAY

(* What is carried over and what is left of centiseconds make them up.      *)
LEMMA CarriedIs ==
  ASSUME NEW n \in Nat
  PROVE  /\ CarriedOver(n) \in Nat /\ LeftOver(n) \in Nat /\ LeftOver(n) < INTERVAL_DAY
         /\ n = INTERVAL_DAY * CarriedOver(n) + LeftOver(n)
         /\ INTERVAL_DAY \in Nat \ {0}
  BY DEF CarriedOver, LeftOver, INTERVAL_DAY

(* What was carried over when an interval was added is borrowed when it is  *)
(* taken off.                                                               *)
LEMMA BorrowedIs ==
  ASSUME NEW t \in Nat, t < INTERVAL_DAY, NEW i \in Nat
  PROVE  /\ CarriedOver(LeftOver(t + i) - i) = -CarriedOver(t + i)
         /\ LeftOver(LeftOver(t + i) - i) = t
  BY DEF CarriedOver, LeftOver, INTERVAL_DAY

IsFuture(f, date, t, n, i) ==
  /\ f = <<f[1], f[2]>> /\ f[1] \in Calendar /\ valid_time(f[2])
  /\ date_to_days(f[1]) = date_to_days(date) + n + CarriedOver(time_to_csecs(t) + i)
  /\ time_to_csecs(f[2]) = LeftOver(time_to_csecs(t) + i)

(* future_date, by the number of its day and the centiseconds of its time.  *)
LEMMA FutureIs ==
  ASSUME NEW date \in Calendar, NEW t, IsTime(t), NEW n \in Nat, NEW i \in Nat
  PROVE  IsFuture(future_date(date, t, n, i), date, t, n, i)
<1>1. PICK b \in Nat : b = date_to_days(date) /\ b >= FirstDay
  BY DaysOfDates
<1>2. PICK s \in Nat : s = time_to_csecs(t)
  BY TimeIs
<1>3. PICK c \in Nat : c = s + i
  OBVIOUS
<1>4. CarriedOver(c) \in Nat /\ LeftOver(c) \in Nat /\ LeftOver(c) < INTERVAL_DAY
  BY CarriedIs
<1>5. future_date(date, t, n, i) = <<days_to_date(b + n + CarriedOver(c)), csecs_to_time(LeftOver(c))>>
  BY <1>1, <1>2, <1>3 DEF future_date, CarriedOver, LeftOver
<1>6. b + n + CarriedOver(c) \in Nat /\ b + n + CarriedOver(c) >= FirstDay
  BY <1>1, <1>4 DEF FirstDay
<1>7. /\ days_to_date(b + n + CarriedOver(c)) \in Calendar
      /\ date_to_days(days_to_date(b + n + CarriedOver(c))) = b + n + CarriedOver(c)
  BY <1>6, DatesOfDays
<1>8. valid_time(csecs_to_time(LeftOver(c))) /\ time_to_csecs(csecs_to_time(LeftOver(c))) = LeftOver(c)
  BY <1>4, CsecsAre
<1> QED BY <1>1, <1>2, <1>3, <1>5, <1>7, <1>8 DEF IsFuture

(* past_date undoes future_date, and date_diff is the interval, both ways.  *)
LEMMA IntervalIs ==
  ASSUME NEW date \in Calendar, NEW t, IsTime(t), NEW n \in Nat, NEW i \in Nat
  PROVE  LET f    == future_date(date, t, n, i)
             diff == date_diff(f[1], f[2], date, t)
             back == date_diff(date, t, f[1], f[2])
         IN  /\ valid_time(f[2])
             /\ past_date(f[1], f[2], n, i) = <<date, t>>
             /\ diff[1] * INTERVAL_DAY + diff[2] = n * INTERVAL_DAY + i
             /\ back = <<-diff[1], -diff[2]>>
             /\ diff[1] >= 0 /\ diff[2] >= 0
<1>1. PICK f : f = future_date(date, t, n, i)
  OBVIOUS
<1>2. PICK b \in Nat : b = date_to_days(date) /\ b >= FirstDay /\ days_to_date(b) = date
  BY DaysOfDates
<1>3. PICK s \in Nat : s = time_to_csecs(t) /\ s < INTERVAL_DAY /\ csecs_to_time(s) = t
  BY TimeIs
<1>4. PICK k \in Nat, x \in Nat : /\ k = CarriedOver(s + i) /\ x = LeftOver(s + i) /\ x < INTERVAL_DAY
                                  /\ s + i = INTERVAL_DAY * k + x
  <2>1. s + i \in Nat
    OBVIOUS
  <2> QED BY <2>1, CarriedIs
<1>5. /\ valid_time(f[2])
      /\ date_to_days(f[1]) = b + n + k
      /\ time_to_csecs(f[2]) = x
  <2>1. /\ valid_time(f[2])
        /\ date_to_days(f[1]) = date_to_days(date) + n + CarriedOver(time_to_csecs(t) + i)
        /\ time_to_csecs(f[2]) = LeftOver(time_to_csecs(t) + i)
    <3>1. IsFuture(f, date, t, n, i)
      BY <1>1, FutureIs
    <3> QED BY <3>1 DEF IsFuture
  <2> QED BY <2>1, <1>2, <1>3, <1>4
<1>6. past_date(f[1], f[2], n, i) = <<date, t>>
  <2>1. past_date(f[1], f[2], n, i) = <<days_to_date(b + n + k - n + CarriedOver(x - i)), csecs_to_time(LeftOver(x - i))>>
    BY <1>5 DEF past_date, CarriedOver, LeftOver
  <2>2. CarriedOver(x - i) = -k /\ LeftOver(x - i) = s
    BY <1>3, <1>4, BorrowedIs
  <2>3. b + n + k - n + (-k) = b
    OBVIOUS
  <2> QED BY <1>2, <1>3, <2>1, <2>2, <2>3
<1>7. PICK w \in Nat : w = INTERVAL_DAY /\ w > 0
  BY DEF INTERVAL_DAY
<1>8. date_diff(f[1], f[2], date, t) =
        IF n + k > 0 /\ x < s THEN <<n + k - 1, x - s + w>> ELSE <<n + k, x - s>>
  <2>1. b + n + k - b = n + k /\ ~(n + k < 0)
    OBVIOUS
  <2>2. x - s < 0 <=> x < s
    OBVIOUS
  <2> QED BY <1>2, <1>3, <1>5, <1>7, <2>1, <2>2 DEF date_diff
<1>9. date_diff(date, t, f[1], f[2]) =
        IF n + k > 0 /\ x < s THEN <<-(n + k) + 1, s - x - w>> ELSE <<-(n + k), s - x>>
  <2>1. b - (b + n + k) = -(n + k) /\ ~(-(n + k) > 0) /\ (-(n + k) < 0 <=> n + k > 0)
    OBVIOUS
  <2>2. s - x > 0 <=> x < s
    OBVIOUS
  <2> QED BY <1>2, <1>3, <1>5, <1>7, <2>1, <2>2 DEF date_diff
<1>10. s + i = w * k + x /\ x < w /\ s < w
  BY <1>3, <1>4, <1>7
<1>11. n + k = 0 => n = 0 /\ k = 0 /\ x - s = i /\ x >= s
  <2>1. n + k = 0 => n = 0 /\ k = 0
    OBVIOUS
  <2> QED BY <2>1, <1>10
<1> HIDE <1>7
<1>12. PICK e \in Int : e = w * k
  OBVIOUS
<1>13. PICK g \in Int : g = w * n
  OBVIOUS
<1>14. CASE n + k > 0 /\ x < s
  <2>1. (n + k - 1) * w + (x - s + w) = n * w + i
    <3>1. (n + k - 1) * w = g + e - w
      BY <1>12, <1>13
    <3> QED BY <3>1, <1>10, <1>12, <1>13
  <2>2. n + k - 1 >= 0 /\ x - s + w >= 0 /\ -(n + k) + 1 = -(n + k - 1) /\ s - x - w = -(x - s + w)
    BY <1>14, <1>10
  <2> QED BY <1>1, <1>5, <1>6, <1>7, <1>8, <1>9, <1>14, <2>1, <2>2
<1>15. CASE ~(n + k > 0 /\ x < s)
  <2>1. (n + k) * w + (x - s) = n * w + i
    <3>1. (n + k) * w = g + e
      BY <1>12, <1>13
    <3> QED BY <3>1, <1>10, <1>12, <1>13
  <2>2. x >= s
    BY <1>11, <1>15
  <2>3. n + k >= 0 /\ x - s >= 0 /\ s - x = -(x - s)
    BY <2>2
  <2> QED BY <1>1, <1>5, <1>6, <1>7, <1>8, <1>9, <1>15, <2>1, <2>3
<1> QED BY ONLY <1>14, <1>15

(* future_date, past_date and date_diff agree, for every such date, every   *)
(* time of the day and every interval of whatever length, that leads to a   *)
(* day on which valid_date does not stop.                                   *)
THEOREM IntervalsComeBack ==
  ASSUME GoodDates
  PROVE  DateSpec => []IntervalsAgree
<1>1. DateInit => DateInv
  BY DateInvStarts
<1>2. DateInv /\ [NextDay]_day => DateInv'
  BY DateInvKept
<1>3. DateInv => IntervalsAgree
  <2> SUFFICES ASSUME DateInv, NEW t \in Times, NEW i \in Intervals, NEW n \in {0, 1}
               PROVE  LET f    == future_date(day.date, t, n, i)
                          diff == date_diff(f[1], f[2], day.date, t)
                          back == date_diff(day.date, t, f[1], f[2])
                      IN  ~Stops(f[1]) =>
                          /\ valid_date(f[1]) /\ valid_time(f[2])
                          /\ past_date(f[1], f[2], n, i) = <<day.date, t>>
                          /\ diff[1] * INTERVAL_DAY + diff[2] = n * INTERVAL_DAY + i
                          /\ back = <<-diff[1], -diff[2]>>
                          /\ diff[1] >= 0 /\ diff[2] >= 0
    BY DEF IntervalsAgree
  <2>1. day.date \in Calendar /\ IsTime(t) /\ n \in Nat /\ i \in Nat
    BY DEF DateInv, GoodDates, IsTime
  <2>2. PICK f : f = future_date(day.date, t, n, i)
    OBVIOUS
  <2>3. f[1] \in Calendar
    BY <2>1, <2>2, FutureIs DEF IsFuture
  <2>4. ~Stops(f[1]) => valid_date(f[1])
    BY <2>3, ValidUnlessStopped
  <2> QED BY <2>1, <2>2, <2>4, IntervalIs
<1> QED BY <1>1, <1>2, <1>3, PTL DEF DateSpec

-----------------------------------------------------------------------------
(* The transfers.                                                           *)

(* A request of a client: a block, a file, or something else.               *)
BlockKinds == Puts \cup Gets
FileKinds  == {"putf", "getf"}
Transfers  == BlockKinds \cup FileKinds

IsSeq(s) == Len(s) \in Nat /\ s = [i \in 1 .. Len(s) |-> s[i]]

TranFields   == {"plan", "asked", "answers", "requests", "pipes", "commit", "fileio_threads",
                 "threads", "disk", "socks"}
SockFields   == {"state", "writes", "reads", "out", "incoming"}
RequestFields == {"id", "sending", "huge", "handle", "size", "in_header", "in_progress", "pipe"}
FileFields   == {"id", "kind", "handle", "ascii", "content", "at", "end", "maxsize", "filesize"}

Good(list) ==
  /\ IsSeq(list)
  /\ \A i \in 1 .. Len(list) : list[i].kind \in Kinds /\ (list[i].kind \in Transfers => list[i].socket \in Sockets)

Shape(t) ==
  /\ DOMAIN t = TranFields
  /\ Good(t.plan) /\ Good(t.asked)
  /\ IsSeq(t.answers) /\ IsSeq(t.threads) /\ t.fileio_threads \in Nat
  /\ \A k \in 1 .. Len(t.threads) : DOMAIN t.threads[k] = FileFields
  /\ \A r \in t.requests : DOMAIN r = RequestFields
  /\ DOMAIN t.socks = Sockets
  /\ \A h \in Sockets : /\ DOMAIN t.socks[h] = SockFields /\ IsSeq(t.socks[h].writes) /\ IsSeq(t.socks[h].reads)
                         /\ t.socks[h].state \in {"open", "closed", "error"}

(* The requests and the threads are of those who asked for them.            *)
RequestsOk(requests, asked) ==
  \A r \in requests :
    /\ r.id \in 1 .. Len(asked) /\ asked[r.id].kind \in BlockKinds /\ r.handle = asked[r.id].socket
    /\ r.sending <=> asked[r.id].kind \in Puts
    /\ r.huge <=> asked[r.id].kind \in Huge
    /\ {r.sending, r.huge, r.in_header, r.in_progress} \subseteq BOOLEAN
    /\ \A q \in requests : q.id = r.id => q = r

ThreadsOk(threads, asked) ==
  \A k \in 1 .. Len(threads) :
    threads[k].id # 0 =>
      /\ threads[k].id \in 1 .. Len(asked) /\ asked[threads[k].id].kind \in FileKinds
      /\ threads[k].kind = asked[threads[k].id].kind /\ threads[k].handle = asked[threads[k].id].socket
      /\ \A j \in 1 .. Len(threads) : threads[j].id = threads[k].id => j = k

Asked(asked, h, n, kinds) == n \in 1 .. Len(asked) /\ asked[n].socket = h /\ asked[n].kind \in kinds

AllAsked(list, h, asked, kinds) == \A i \in 1 .. Len(list) : Asked(asked, h, list[i].id, kinds)

EntriesOk(socks, asked) ==
  \A h \in Sockets : /\ AllAsked(socks[h].writes, h, asked, Puts \cup {"putf"})
                     /\ AllAsked(socks[h].reads, h, asked, Gets \cup {"getf"})

(* Who waits for an answer, and who has one.                                *)
Waits(t) == {r.id : r \in t.requests} \cup {t.threads[k].id : k \in Running(t)}
Has(answers, n) == \E i \in 1 .. Len(answers) : answers[i].to = n

AnswersOk(answers, asked, waits) ==
  \A i \in 1 .. Len(answers) :
    LET n == answers[i].to
    IN  /\ n \in 1 .. Len(asked)
        /\ asked[n].kind \in Transfers =>
             /\ answers[i].kind \in {OkOf[asked[n].kind], "closed", "error"}
             /\ n \notin waits
             /\ \A j \in 1 .. Len(answers) : answers[j].to = n => j = i

(* What was asked for before a commit that is answered is over.             *)
CommitsOk(answers, asked, waits, commit) ==
  /\ \A i \in 1 .. Len(answers) :
       LET n == answers[i].to
       IN  asked[n].kind = "commit" =>
             \A m \in 1 .. n - 1 : asked[m].kind \in Transfers =>
                m \notin waits /\ \A j \in 1 .. Len(answers) : answers[j].to = m => j < i
  /\ commit # NULL => /\ commit \in 1 .. Len(asked) /\ asked[commit].kind = "commit"
                      /\ ~Has(answers, commit)

LostOk(answers, asked, waits, socks) ==
  \A n \in 1 .. Len(asked) :
    asked[n].kind \in Transfers /\ ~Has(answers, n) /\ n \notin waits =>
      /\ asked[n].kind \in BlockKinds /\ socks[asked[n].socket].state = "closed"
      /\ \E i \in 1 .. Len(answers) :
           LET m == answers[i].to
           IN  /\ m \in 1 .. Len(asked) /\ asked[m].kind \in BlockKinds
               /\ asked[m].socket = asked[n].socket /\ answers[i].kind = "closed"

CountOk(threads, n) == Cardinality({k \in 1 .. Len(threads) : threads[k].id # 0}) <= n

(* What has something to come, the ones of out aside.                       *)
Entry(sock, n) ==
  \/ \E i \in 1 .. Len(sock.writes) : sock.writes[i].id = n
  \/ \E i \in 1 .. Len(sock.reads) : sock.reads[i].id = n

Twice(sock, n) ==
  \E i, j \in 1 .. Len(sock.writes) : i < j /\ sock.writes[i].id = n /\ sock.writes[j].id = n

RequestsToCome(requests, socks, out) ==
  \A r \in requests :
    r.pipe = NULL /\ r.in_progress /\ r.id \notin out =>
      /\ Entry(socks[r.handle], r.id)
      /\ r.sending /\ r.in_header => Twice(socks[r.handle], r.id)

ThreadsToCome(threads, socks, out) ==
  \A k \in 1 .. Len(threads) :
    threads[k].id # 0 /\ threads[k].id \notin out => Entry(socks[threads[k].handle], threads[k].id)

TranOk(t, out) ==
  /\ Shape(t)
  /\ RequestsOk(t.requests, t.asked) /\ ThreadsOk(t.threads, t.asked) /\ EntriesOk(t.socks, t.asked)
  /\ AnswersOk(t.answers, t.asked, Waits(t)) /\ CommitsOk(t.answers, t.asked, Waits(t), t.commit)
  /\ LostOk(t.answers, t.asked, Waits(t), t.socks)
  /\ CountOk(t.threads, t.fileio_threads)
  /\ RequestsToCome(t.requests, t.socks, out) /\ ThreadsToCome(t.threads, t.socks, out)

Started(t) == \A r \in t.requests : r.pipe = NULL => r.in_progress

TranInv == TranOk(tran, {}) /\ Started(tran)

(* Induction over the numbers up to n.                                      *)
LEMMA UpTo ==
  ASSUME NEW n \in Nat, NEW S, 0 \in S,
         \A i \in 0 .. n - 1 : i \in S => i + 1 \in S
  PROVE  0 .. n \subseteq S
<1> DEFINE Missed == {i \in 0 .. n : i \notin S}
<1>1. SUFFICES ASSUME Missed # {} PROVE FALSE
  OBVIOUS
<1>2. PICK k \in Missed : \A j \in Missed : k <= j
  <2>1. Missed \in SUBSET Nat
    OBVIOUS
  <2> HIDE DEF Missed
  <2> QED BY <1>1, <2>1, SmallestNumber
<1>3. k # 0 /\ k - 1 \in 0 .. n - 1 /\ k - 1 \notin Missed
  BY <1>2
<1>4. k - 1 \in S
  BY <1>3
<1> QED BY <1>2, <1>3, <1>4

(* The places of a list that gets one more.                                 *)
LEMMA OneMore ==
  ASSUME NEW l \in Nat
  PROVE  /\ 1 .. l \subseteq 1 .. l + 1 /\ l + 1 \in 1 .. l + 1
         /\ \A i \in 1 .. l + 1 : i \in 1 .. l \/ i = l + 1
         /\ \A i \in 1 .. l : i < l + 1
  OBVIOUS

(* Lists of anything.                                                       *)
LEMMA SeqIs ==
  ASSUME NEW s, IsSeq(s)
  PROVE  \E S : s \in Seq(S)
<1>1. Len(s) \in Nat /\ s = [i \in 1 .. Len(s) |-> s[i]]
  BY DEF IsSeq
<1> DEFINE S == {s[i] : i \in 1 .. Len(s)}
<1>2. s \in [1 .. Len(s) -> S]
  <2>1. [i \in 1 .. Len(s) |-> s[i]] \in [1 .. Len(s) -> S]
    OBVIOUS
  <2> HIDE DEF S
  <2> QED BY ONLY <1>1, <2>1
<1> HIDE DEF S
<1> QED BY <1>1, <1>2

(* Facts about sequences whose elements are of no stated set.                *)
LEMMA SeqWas ==
  ASSUME NEW S, NEW s \in Seq(S)
  PROVE  IsSeq(s)
BY DEF IsSeq

LEMMA EmptyIs == IsSeq(<< >>) /\ Len(<< >>) = 0
<1>1. << >> \in Seq({})
  OBVIOUS
<1> QED BY <1>1, SeqWas

LEMMA AppendIs ==
  ASSUME NEW s, IsSeq(s), NEW e
  PROVE  /\ IsSeq(Append(s, e)) /\ Len(s) \in Nat
         /\ Len(Append(s, e)) = Len(s) + 1
         /\ \A i \in 1 .. Len(s) : Append(s, e)[i] = s[i]
         /\ Append(s, e)[Len(s) + 1] = e
<1>1. PICK S : s \in Seq(S)
  BY SeqIs
<1>2. s \in Seq(S \cup {e})
  BY <1>1
<1>3. Append(s, e) \in Seq(S \cup {e})
  BY <1>2
<1>4. IsSeq(Append(s, e))
  BY ONLY <1>3, SeqWas
<1> QED BY <1>2, <1>4

LEMMA TailIs ==
  ASSUME NEW s, IsSeq(s), s # << >>
  PROVE  /\ IsSeq(Tail(s)) /\ Len(s) \in Nat \ {0}
         /\ Len(Tail(s)) = Len(s) - 1
         /\ \A i \in 1 .. Len(s) - 1 : Tail(s)[i] = s[i + 1]
         /\ Head(s) = s[1]
<1>1. PICK S : s \in Seq(S)
  BY SeqIs
<1>2. Tail(s) \in Seq(S)
  BY <1>1
<1>3. IsSeq(Tail(s))
  BY ONLY <1>2, SeqWas
<1> QED BY <1>1, <1>3

LEMMA ConcatIs ==
  ASSUME NEW s, NEW r, IsSeq(s), IsSeq(r)
  PROVE  /\ IsSeq(s \o r) /\ Len(s \o r) = Len(s) + Len(r) /\ Len(s) \in Nat /\ Len(r) \in Nat
         /\ \A i \in 1 .. Len(s) : (s \o r)[i] = s[i]
         /\ \A i \in 1 .. Len(r) : (s \o r)[Len(s) + i] = r[i]
<1>1. PICK S : s \in Seq(S)
  BY SeqIs
<1>2. PICK R : r \in Seq(R)
  BY SeqIs
<1>3. s \in Seq(S \cup R) /\ r \in Seq(S \cup R)
  BY <1>1, <1>2
<1>4. s \o r \in Seq(S \cup R)
  BY <1>3
<1>5. IsSeq(s \o r)
  BY ONLY <1>4, SeqWas
<1> QED BY <1>3, <1>5

LEMMA ExceptIs ==
  ASSUME NEW s, IsSeq(s), NEW k \in 1 .. Len(s), NEW e
  PROVE  /\ IsSeq([s EXCEPT ![k] = e]) /\ Len([s EXCEPT ![k] = e]) = Len(s)
         /\ \A i \in 1 .. Len(s) : [s EXCEPT ![k] = e][i] = IF i = k THEN e ELSE s[i]
<1>1. PICK S : s \in Seq(S)
  BY SeqIs
<1>2. s \in Seq(S \cup {e})
  BY <1>1
<1>3. [s EXCEPT ![k] = e] \in Seq(S \cup {e})
  BY <1>2
<1>4. IsSeq([s EXCEPT ![k] = e])
  BY ONLY <1>3, SeqWas
<1> QED BY <1>2, <1>4

-----------------------------------------------------------------------------
(* What the parts of TranOk need of a change.                               *)

(* An answer for one who waits, and does not wait any more.                 *)
AnswerOk(asked, n, kind) ==
  n \in 1 .. Len(asked) /\ asked[n].kind \in Transfers /\ kind \in {OkOf[asked[n].kind], "closed", "error"}

(* A last answer, to one that waited, keeps the answers in order.            *)
LEMMA AnsweredKeeps ==
  ASSUME NEW answers, IsSeq(answers), NEW asked, Len(asked) \in Nat, NEW waits, NEW after, NEW e,
         AnswerOk(asked, e.to, e.kind),
         e.to \in waits, after \subseteq waits \ {e.to},
         AnswersOk(answers, asked, waits)
  PROVE  AnswersOk(Append(answers, e), asked, after)
<1> DEFINE u == Append(answers, e)
           l == Len(answers)
<1>1. /\ l \in Nat /\ Len(u) = l + 1
      /\ \A i \in 1 .. l : u[i] = answers[i]
      /\ u[l + 1] = e
  BY AppendIs
<1>2. (\A i \in 1 .. l + 1 : i \in 1 .. l \/ i = l + 1)
  BY <1>1
<1>3. \A i \in 1 .. l : answers[i].to # e.to
  BY DEF AnswersOk, AnswerOk
<1> HIDE DEF u, l
<1>4. ASSUME NEW i \in 1 .. l + 1, asked[u[i].to].kind \in Transfers,
             NEW j \in 1 .. l + 1, u[j].to = u[i].to
      PROVE  j = i
  BY <1>1, <1>2, <1>3, <1>4 DEF AnswersOk, l
<1>5. ASSUME NEW i \in 1 .. l + 1
      PROVE  /\ u[i].to \in 1 .. Len(asked)
             /\ asked[u[i].to].kind \in Transfers =>
                  u[i].kind \in {OkOf[asked[u[i].to].kind], "closed", "error"} /\ u[i].to \notin after
  <2>1. CASE i \in 1 .. l
    BY <1>1, <2>1 DEF AnswersOk, l
  <2>2. CASE i = l + 1
    BY <1>1, <2>2 DEF AnswerOk
  <2> QED BY <1>2, <2>1, <2>2
<1>6. AnswersOk(u, asked, after)
  BY <1>1, <1>4, <1>5 DEF AnswersOk
<1> QED BY <1>6 DEF u

(* And no commit is answered before a transfer that waits.                   *)
LEMMA CommitsKeep ==
  ASSUME NEW answers, IsSeq(answers), NEW asked, Len(asked) \in Nat, NEW waits, NEW after, NEW e, NEW commit,
         AnswerOk(asked, e.to, e.kind),
         e.to \in waits, after \subseteq waits,
         AnswersOk(answers, asked, waits), CommitsOk(answers, asked, waits, commit)
  PROVE  CommitsOk(Append(answers, e), asked, after, commit)
<1> DEFINE u == Append(answers, e)
           l == Len(answers)
<1>1. /\ l \in Nat /\ Len(u) = l + 1
      /\ \A i \in 1 .. l : u[i] = answers[i]
      /\ u[l + 1] = e
  BY AppendIs
<1>2. (\A i \in 1 .. l + 1 : i \in 1 .. l \/ i = l + 1)
  BY <1>1
<1>0. asked[e.to].kind # "commit"
  BY DEF AnswerOk, Transfers, BlockKinds, FileKinds, Puts, Gets
<1> HIDE DEF u, l
<1>4. ASSUME NEW i \in 1 .. l + 1, asked[u[i].to].kind = "commit",
             NEW m \in 1 .. u[i].to - 1, asked[m].kind \in Transfers
      PROVE  m \notin after /\ \A j \in 1 .. l + 1 : u[j].to = m => j < i
  <2>1. i \in 1 .. l /\ u[i] = answers[i]
    BY <1>0, <1>1, <1>2, <1>4
  <2>2. m \notin waits /\ \A j \in 1 .. l : answers[j].to = m => j < i
    BY <2>1, <1>4 DEF CommitsOk, l
  <2>3. e.to # m
    BY <2>2
  <2> QED BY <1>1, <1>2, <2>2, <2>3
<1>5. commit # NULL => ~Has(u, commit)
  BY <1>0, <1>1, <1>2 DEF CommitsOk, Has, l
<1>6. CommitsOk(u, asked, after, commit)
  BY <1>1, <1>4, <1>5 DEF CommitsOk
<1> QED BY <1>6 DEF u

(* And who waits on a closed socket still has an answer of it to come.       *)
LEMMA LostKeeps ==
  ASSUME NEW answers, IsSeq(answers), NEW asked, Len(asked) \in Nat, NEW waits, NEW after, NEW e, NEW socks,
         \A n \in waits \ {e.to} : n \in after \/ (/\ n \in 1 .. Len(asked) /\ asked[n].kind \in BlockKinds
                                                  /\ socks[asked[n].socket].state = "closed"
                                                  /\ e.to \in 1 .. Len(asked) /\ asked[e.to].kind \in BlockKinds
                                                  /\ asked[e.to].socket = asked[n].socket /\ e.kind = "closed"),
         LostOk(answers, asked, waits, socks)
  PROVE  LostOk(Append(answers, e), asked, after, socks)
<1> DEFINE u == Append(answers, e)
           l == Len(answers)
<1>1. /\ l \in Nat /\ Len(u) = l + 1
      /\ \A i \in 1 .. l : u[i] = answers[i]
      /\ u[l + 1] = e
  BY AppendIs
<1>2. (\A i \in 1 .. l + 1 : i \in 1 .. l \/ i = l + 1)
  BY <1>1
<1>3. 1 .. l \subseteq 1 .. l + 1 /\ l + 1 \in 1 .. l + 1
  BY <1>1
<1> HIDE DEF u, l
<1>4. SUFFICES ASSUME NEW n \in 1 .. Len(asked), asked[n].kind \in Transfers, ~Has(u, n), n \notin after
      PROVE  /\ asked[n].kind \in BlockKinds /\ socks[asked[n].socket].state = "closed"
             /\ \E i \in 1 .. Len(u) :
                  LET m == u[i].to
                  IN  /\ m \in 1 .. Len(asked) /\ asked[m].kind \in BlockKinds
                      /\ asked[m].socket = asked[n].socket /\ u[i].kind = "closed"
  BY DEF LostOk, u
<1>5. ~Has(answers, n) /\ n # e.to
  BY <1>1, <1>3, <1>4 DEF Has, l
<1>6. CASE n \in waits
  BY <1>1, <1>3, <1>4, <1>5, <1>6
<1>7. CASE n \notin waits
  <2>1. /\ asked[n].kind \in BlockKinds /\ socks[asked[n].socket].state = "closed"
        /\ \E i \in 1 .. l :
             LET m == answers[i].to
             IN  /\ m \in 1 .. Len(asked) /\ asked[m].kind \in BlockKinds
                 /\ asked[m].socket = asked[n].socket /\ answers[i].kind = "closed"
    BY <1>4, <1>5, <1>7 DEF LostOk, l
  <2> QED BY <1>1, <1>3, <2>1
<1> QED BY <1>6, <1>7
-----------------------------------------------------------------------------
(* Asking the socket agent.                                                 *)

(* All but the sockets is the same.                                         *)
Same(t, u) ==
  /\ u.plan = t.plan /\ u.asked = t.asked /\ u.answers = t.answers /\ u.requests = t.requests
  /\ u.pipes = t.pipes /\ u.commit = t.commit /\ u.fileio_threads = t.fileio_threads
  /\ u.threads = t.threads

(* What was to come still is.                                               *)
Grows(socks, more) ==
  \A h \in Sockets :
    /\ more[h].state = socks[h].state
    /\ \A n : (Entry(socks[h], n) => Entry(more[h], n)) /\ (Twice(socks[h], n) => Twice(more[h], n))

(* What is to come stays so over two steps, and for all who wait.            *)
LEMMA GrowsOn ==
  ASSUME NEW a, NEW b, NEW c, Grows(a, b), Grows(b, c)
  PROVE  Grows(a, c)
BY DEF Grows

LEMMA ToComeOn ==
  ASSUME NEW t, NEW u, NEW out, Shape(t), Grows(t.socks, u.socks),
         RequestsOk(t.requests, t.asked), ThreadsOk(t.threads, t.asked), Good(t.asked)
  PROVE  /\ RequestsToCome(t.requests, t.socks, out) => RequestsToCome(t.requests, u.socks, out)
         /\ ThreadsToCome(t.threads, t.socks, out) => ThreadsToCome(t.threads, u.socks, out)
<1>1. \A r \in t.requests : r.handle \in Sockets
  BY DEF RequestsOk, Good, Transfers
<1>2. \A k \in 1 .. Len(t.threads) : t.threads[k].id # 0 => t.threads[k].handle \in Sockets
  BY DEF ThreadsOk, Good, Transfers
<1> QED BY <1>1, <1>2 DEF RequestsToCome, ThreadsToCome, Grows

(* A write or a read adds one entry to one list of its socket.               *)
LEMMA WriteIs ==
  ASSUME NEW t, Shape(t), NEW h \in Sockets, NEW n, NEW units
  PROVE  LET u == Write(t, h, n, units)
         IN  /\ Shape(u) /\ Same(t, u)
             /\ u.socks[h].state = t.socks[h].state /\ u.socks[h].reads = t.socks[h].reads
             /\ u.socks[h].writes = Append(t.socks[h].writes, [id |-> n, units |-> units])
             /\ \A g \in Sockets : g # h => u.socks[g] = t.socks[g]
<1> DEFINE e == [id |-> n, units |-> units]
           w == Append(t.socks[h].writes, e)
           u == [t EXCEPT !.socks[h].writes = w]
<1>1. u = Write(t, h, n, units)
  BY DEF Write
<1>2. IsSeq(w)
  BY AppendIs DEF Shape
<1> HIDE DEF w
<1>3. /\ DOMAIN u = TranFields /\ Same(t, u)
      /\ DOMAIN u.socks = Sockets /\ DOMAIN u.socks[h] = SockFields
      /\ u.socks[h].state = t.socks[h].state /\ u.socks[h].reads = t.socks[h].reads
      /\ u.socks[h].writes = w
      /\ \A g \in Sockets : g # h => u.socks[g] = t.socks[g]
  BY DEF Shape, TranFields, SockFields, Same
<1> HIDE DEF u
<1>4. Shape(u)
  BY <1>2, <1>3 DEF Shape, Same
<1> QED BY <1>1, <1>3, <1>4 DEF w, e

LEMMA ReadIs ==
  ASSUME NEW t, Shape(t), NEW h \in Sockets, NEW n, NEW min, NEW max
  PROVE  LET u == Read(t, h, n, min, max)
         IN  /\ Shape(u) /\ Same(t, u)
             /\ u.socks[h].state = t.socks[h].state /\ u.socks[h].writes = t.socks[h].writes
             /\ u.socks[h].reads = Append(t.socks[h].reads, [id |-> n, min |-> min, max |-> max])
             /\ \A g \in Sockets : g # h => u.socks[g] = t.socks[g]
<1> DEFINE e == [id |-> n, min |-> min, max |-> max]
           w == Append(t.socks[h].reads, e)
           u == [t EXCEPT !.socks[h].reads = w]
<1>1. u = Read(t, h, n, min, max)
  BY DEF Read
<1>2. IsSeq(w)
  BY AppendIs DEF Shape
<1> HIDE DEF w
<1>3. /\ DOMAIN u = TranFields /\ Same(t, u)
      /\ DOMAIN u.socks = Sockets /\ DOMAIN u.socks[h] = SockFields
      /\ u.socks[h].state = t.socks[h].state /\ u.socks[h].writes = t.socks[h].writes
      /\ u.socks[h].reads = w
      /\ \A g \in Sockets : g # h => u.socks[g] = t.socks[g]
  BY DEF Shape, TranFields, SockFields, Same
<1> HIDE DEF u
<1>4. Shape(u)
  BY <1>2, <1>3 DEF Shape, Same
<1> QED BY <1>1, <1>3, <1>4 DEF w, e

(* One more entry, for one who may have it.                                 *)
LEMMA MoreAsked ==
  ASSUME NEW list, IsSeq(list), NEW e, NEW h, NEW asked, NEW kinds,
         AllAsked(list, h, asked, kinds), Asked(asked, h, e.id, kinds)
  PROVE  AllAsked(Append(list, e), h, asked, kinds)
<1> DEFINE u == Append(list, e)
           l == Len(list)
<1>1. /\ l \in Nat /\ Len(u) = l + 1 /\ \A i \in 1 .. l : u[i] = list[i]
      /\ u[l + 1] = e
  BY AppendIs
<1>2. (\A i \in 1 .. l + 1 : i \in 1 .. l \/ i = l + 1)
  BY <1>1
<1>3. \A i \in 1 .. l : Asked(asked, h, list[i].id, kinds)
  BY DEF AllAsked
<1> HIDE DEF u, l
<1>4. \A i \in 1 .. Len(u) : Asked(asked, h, u[i].id, kinds)
  BY <1>1, <1>2, <1>3
<1> QED BY <1>4 DEF AllAsked, u

(* What leaves a socket's list was asked of that socket.                     *)
LEMMA FewerAsked ==
  ASSUME NEW list, IsSeq(list), list # << >>, NEW h, NEW asked, NEW kinds,
         AllAsked(list, h, asked, kinds)
  PROVE  AllAsked(Tail(list), h, asked, kinds) /\ Asked(asked, h, Head(list).id, kinds)
<1> DEFINE u == Tail(list)
           l == Len(list)
<1>1. /\ l \in Nat \ {0} /\ Len(u) = l - 1 /\ \A i \in 1 .. l - 1 : u[i] = list[i + 1]
      /\ Head(list) = list[1]
  BY TailIs
<1>2. 1 \in 1 .. l /\ \A i \in 1 .. l - 1 : i + 1 \in 1 .. l
  BY <1>1
<1>3. \A i \in 1 .. l : Asked(asked, h, list[i].id, kinds)
  BY DEF AllAsked
<1> HIDE DEF u, l
<1>4. \A i \in 1 .. Len(u) : Asked(asked, h, u[i].id, kinds)
  BY <1>1, <1>2, <1>3
<1> QED BY <1>1, <1>2, <1>3, <1>4 DEF AllAsked, u

(* The sockets have more to do, and nothing else has changed.               *)
Queued(t, u) == Shape(u) /\ Same(t, u) /\ EntriesOk(u.socks, u.asked) /\ Grows(t.socks, u.socks)

Once(sock, n) == \E i \in 1 .. Len(sock.writes) : sock.writes[i].id = n

(* Entries are queued one after the other.                                   *)
LEMMA QueuedOn ==
  ASSUME NEW a, NEW b, NEW c, Queued(a, b), Queued(b, c)
  PROVE  Queued(a, c)
<1>1. Grows(a.socks, c.socks)
  BY GrowsOn DEF Queued
<1> QED BY <1>1 DEF Queued, Same

(* The entry queued is there, and takes none from the others.                *)
LEMMA WriteGrows ==
  ASSUME NEW t, Shape(t), NEW h \in Sockets, NEW n, NEW units,
         EntriesOk(t.socks, t.asked), Asked(t.asked, h, n, Puts \cup {"putf"})
  PROVE  LET u == Write(t, h, n, units)
         IN  /\ Queued(t, u) /\ Entry(u.socks[h], n) /\ Once(u.socks[h], n)
             /\ Once(t.socks[h], n) => Twice(u.socks[h], n)
<1> DEFINE u == Write(t, h, n, units)
           w == t.socks[h].writes
           v == u.socks[h].writes
           l == Len(w)
<1>1. /\ Shape(u) /\ Same(t, u)
      /\ u.socks[h].state = t.socks[h].state /\ u.socks[h].reads = t.socks[h].reads
      /\ v = Append(w, [id |-> n, units |-> units])
      /\ \A g \in Sockets : g # h => u.socks[g] = t.socks[g]
  BY WriteIs
<1>2. IsSeq(w)
  BY DEF Shape
<1>3. /\ l \in Nat /\ Len(v) = l + 1 /\ \A i \in 1 .. l : v[i] = w[i]
      /\ v[l + 1].id = n
  BY <1>1, <1>2, AppendIs
<1>4. /\ 1 .. l \subseteq 1 .. l + 1 /\ l + 1 \in 1 .. l + 1
      /\ \A i \in 1 .. l + 1 : (i \in 1 .. l \/ i = l + 1)
      /\ \A i \in 1 .. l : i < l + 1
  BY ONLY <1>3, OneMore
<1> HIDE DEF u
<1>5. EntriesOk(u.socks, u.asked)
  <2>1. u.asked = t.asked
    BY <1>1 DEF Same
  <2>2. AllAsked(w, h, t.asked, Puts \cup {"putf"})
    BY DEF EntriesOk
  <2> DEFINE e == [id |-> n, units |-> units]
  <2>3. AllAsked(v, h, t.asked, Puts \cup {"putf"})
    <3>1. e.id = n
      OBVIOUS
    <3>2. Asked(t.asked, h, e.id, Puts \cup {"putf"})
      BY <3>1
    <3> HIDE DEF e
    <3>3. AllAsked(Append(w, e), h, t.asked, Puts \cup {"putf"})
      BY ONLY <3>2, <2>2, <1>2, MoreAsked
    <3> QED BY <1>1, <3>3 DEF e
  <2>4. ASSUME NEW g \in Sockets
        PROVE  /\ AllAsked(u.socks[g].writes, g, t.asked, Puts \cup {"putf"})
               /\ AllAsked(u.socks[g].reads, g, t.asked, Gets \cup {"getf"})
    <3>1. CASE g = h
      BY ONLY <3>1, <2>3, <1>1, EntriesOk(t.socks, t.asked), g \in Sockets DEF EntriesOk
    <3>2. CASE g # h
      BY ONLY <3>2, <1>1, EntriesOk(t.socks, t.asked), g \in Sockets DEF EntriesOk
    <3> QED BY <3>1, <3>2
  <2> QED BY <2>1, <2>4 DEF EntriesOk
<1>7. Grows(t.socks, u.socks)
  <2>1. ASSUME NEW m PROVE /\ Entry(t.socks[h], m) => Entry(u.socks[h], m)
                           /\ Twice(t.socks[h], m) => Twice(u.socks[h], m)
    BY <1>1, <1>3, <1>4 DEF Entry, Twice
  <2> QED BY <2>1, <1>1 DEF Grows
<1>8. \E i \in 1 .. Len(v) : v[i].id = n
  BY <1>3, <1>4
<1>9. (\E i \in 1 .. l : w[i].id = n) => Twice(u.socks[h], n)
  BY <1>3, <1>4 DEF Twice
<1>10. Entry(u.socks[h], n)
  BY <1>8 DEF Entry
<1>11. Queued(t, u)
  BY <1>1, <1>5, <1>7 DEF Queued
<1>12. Once(u.socks[h], n) /\ (Once(t.socks[h], n) => Twice(u.socks[h], n))
  BY <1>8, <1>9 DEF Once
<1> QED BY <1>10, <1>11, <1>12 DEF u

LEMMA ReadGrows ==
  ASSUME NEW t, Shape(t), NEW h \in Sockets, NEW n, NEW min, NEW max,
         EntriesOk(t.socks, t.asked), Asked(t.asked, h, n, Gets \cup {"getf"})
  PROVE  LET u == Read(t, h, n, min, max)
         IN  Queued(t, u) /\ Entry(u.socks[h], n)
<1> DEFINE u == Read(t, h, n, min, max)
           w == t.socks[h].reads
           v == u.socks[h].reads
           l == Len(w)
<1>1. /\ Shape(u) /\ Same(t, u)
      /\ u.socks[h].state = t.socks[h].state /\ u.socks[h].writes = t.socks[h].writes
      /\ v = Append(w, [id |-> n, min |-> min, max |-> max])
      /\ \A g \in Sockets : g # h => u.socks[g] = t.socks[g]
  BY ReadIs
<1>2. IsSeq(w)
  BY DEF Shape
<1>3. /\ l \in Nat /\ Len(v) = l + 1 /\ \A i \in 1 .. l : v[i] = w[i]
      /\ v[l + 1].id = n
  BY <1>1, <1>2, AppendIs
<1>4. /\ 1 .. l \subseteq 1 .. l + 1 /\ l + 1 \in 1 .. l + 1
      /\ \A i \in 1 .. l + 1 : (i \in 1 .. l \/ i = l + 1)
  BY <1>3
<1> HIDE DEF u
<1>5. EntriesOk(u.socks, u.asked)
  <2>1. u.asked = t.asked
    BY <1>1 DEF Same
  <2>2. AllAsked(w, h, t.asked, Gets \cup {"getf"})
    BY DEF EntriesOk
  <2> DEFINE e == [id |-> n, min |-> min, max |-> max]
  <2>3. AllAsked(v, h, t.asked, Gets \cup {"getf"})
    <3>1. e.id = n
      OBVIOUS
    <3>2. Asked(t.asked, h, e.id, Gets \cup {"getf"})
      BY <3>1
    <3> HIDE DEF e
    <3>3. AllAsked(Append(w, e), h, t.asked, Gets \cup {"getf"})
      BY ONLY <3>2, <2>2, <1>2, MoreAsked
    <3> QED BY <1>1, <3>3 DEF e
  <2>4. ASSUME NEW g \in Sockets
        PROVE  /\ AllAsked(u.socks[g].writes, g, t.asked, Puts \cup {"putf"})
               /\ AllAsked(u.socks[g].reads, g, t.asked, Gets \cup {"getf"})
    <3>1. CASE g = h
      BY ONLY <3>1, <2>3, <1>1, EntriesOk(t.socks, t.asked), g \in Sockets DEF EntriesOk
    <3>2. CASE g # h
      BY ONLY <3>2, <1>1, EntriesOk(t.socks, t.asked), g \in Sockets DEF EntriesOk
    <3> QED BY <3>1, <3>2
  <2> QED BY <2>1, <2>4 DEF EntriesOk
<1>7. Grows(t.socks, u.socks)
  <2>1. ASSUME NEW m PROVE /\ Entry(t.socks[h], m) => Entry(u.socks[h], m)
                           /\ Twice(t.socks[h], m) => Twice(u.socks[h], m)
    BY <1>1, <1>3, <1>4 DEF Entry, Twice
  <2> QED BY <2>1, <1>1 DEF Grows
<1>8. Entry(u.socks[h], n)
  BY <1>3, <1>4 DEF Entry
<1>9. Queued(t, u)
  BY <1>1, <1>5, <1>7 DEF Queued
<1> QED BY <1>8, <1>9 DEF u
-----------------------------------------------------------------------------
(* process_transfer_requests.                                               *)

(* A request is looked up by the number that made it.                        *)
LEMMA FoundIs ==
  ASSUME NEW t, RequestsOk(t.requests, t.asked), NEW n
  PROVE  /\ request_lookup(t, n) # {} => Found(t, n) \in t.requests /\ Found(t, n).id = n
         /\ \A r \in t.requests : r.id = n => request_lookup(t, n) # {} /\ Found(t, n) = r
<1>1. request_lookup(t, n) # {} => Found(t, n) \in request_lookup(t, n)
  BY DEF Found
<1>2. \A r \in request_lookup(t, n) : r \in t.requests /\ r.id = n
  BY DEF request_lookup
<1>3. \A r \in t.requests : r.id = n => r \in request_lookup(t, n)
  BY DEF request_lookup
<1>4. \A r, q \in t.requests : q.id = r.id => q = r
  BY DEF RequestsOk
<1> QED BY <1>1, <1>2, <1>3, <1>4

(* A request in good order: who asked for it.                               *)
LEMMA RequestIs ==
  ASSUME NEW t, Shape(t), RequestsOk(t.requests, t.asked), NEW r \in t.requests
  PROVE  /\ r.handle \in Sockets /\ r.sending \in BOOLEAN /\ r.in_header \in BOOLEAN /\ r.in_progress \in BOOLEAN
         /\ r.id \in 1 .. Len(t.asked) /\ t.asked[r.id].kind \in BlockKinds
         /\ r.sending => Asked(t.asked, r.handle, r.id, Puts \cup {"putf"})
         /\ ~r.sending => Asked(t.asked, r.handle, r.id, Gets \cup {"getf"})
<1>1. /\ r.id \in 1 .. Len(t.asked) /\ t.asked[r.id].kind \in BlockKinds /\ r.handle = t.asked[r.id].socket
      /\ r.sending <=> t.asked[r.id].kind \in Puts
      /\ r.sending \in BOOLEAN /\ r.in_header \in BOOLEAN /\ r.in_progress \in BOOLEAN
  BY DEF RequestsOk
<1>2. r.handle \in Sockets
  BY <1>1 DEF Shape, Good, Transfers
<1>3. t.asked[r.id].kind \in Puts \/ t.asked[r.id].kind \in Gets
  BY <1>1 DEF BlockKinds
<1> QED BY <1>1, <1>2, <1>3 DEF Asked

Coming(t, r) == Entry(t.socks[r.handle], r.id) /\ (r.sending => Twice(t.socks[r.handle], r.id))

(* put_request and get_request leave something to come for a request.        *)
LEMMA PutGrows ==
  ASSUME NEW t, Shape(t), RequestsOk(t.requests, t.asked), EntriesOk(t.socks, t.asked),
         NEW r \in t.requests, r.sending
  PROVE  Queued(t, put_request(t, r)) /\ Coming(put_request(t, r), r)
<1> DEFINE h == r.handle
           n == r.id
           m == Write(t, h, n, <<Header(n)>>)
           u == Write(m, h, n, Body(n, r.size))
<1>1. h \in Sockets /\ Asked(t.asked, h, n, Puts \cup {"putf"})
  BY RequestIs
<1>2. Queued(t, m) /\ Once(m.socks[h], n)
  <2> HIDE DEF h, n
  <2> QED BY <1>1, WriteGrows
<1> HIDE DEF m
<1>3. Asked(m.asked, h, n, Puts \cup {"putf"}) /\ Shape(m) /\ EntriesOk(m.socks, m.asked)
  BY <1>1, <1>2 DEF Queued, Same
<1>4. Queued(m, u) /\ Entry(u.socks[h], n) /\ (Once(m.socks[h], n) => Twice(u.socks[h], n))
  <2> HIDE DEF h, n
  <2> QED BY <1>1, <1>3, WriteGrows
<1>5. put_request(t, r) = u
  BY DEF put_request, m
<1> HIDE DEF u
<1>6. Queued(t, u)
  BY <1>2, <1>4, QueuedOn
<1> QED BY <1>2, <1>4, <1>5, <1>6 DEF Coming

LEMMA GetGrows ==
  ASSUME NEW t, Shape(t), RequestsOk(t.requests, t.asked), EntriesOk(t.socks, t.asked),
         NEW r \in t.requests, ~r.sending
  PROVE  Queued(t, get_request(t, r)) /\ Coming(get_request(t, r), r)
<1> DEFINE h == r.handle
           n == r.id
           u == get_request(t, r)
<1>1. h \in Sockets /\ Asked(t.asked, h, n, Gets \cup {"getf"})
  BY RequestIs
<1>2. \E min, max : u = Read(t, h, n, min, max)
  BY DEF get_request
<1> HIDE DEF u, h, n
<1>3. PICK min, max : u = Read(t, h, n, min, max)
  BY <1>2
<1>4. Queued(t, u) /\ Entry(u.socks[h], n)
  BY <1>1, <1>3, ReadGrows
<1> QED BY <1>4 DEF Coming, u, h, n

(* So each request started has something to come, the others as before.      *)
LEMMA StartGrows ==
  ASSUME NEW t, Shape(t), RequestsOk(t.requests, t.asked), EntriesOk(t.socks, t.asked), NEW n, NEW lucky
  PROVE  /\ Queued(t, Start(t, n, lucky))
         /\ \A r \in t.requests : r.id = n /\ Ready(r, lucky) => Coming(Start(t, n, lucky), r)
<1> DEFINE r == Found(t, n)
           u == Start(t, n, lucky)
<1>1. CASE request_lookup(t, n) = {} \/ ~Ready(r, lucky)
  <2>1. u = t
    BY <1>1 DEF Start
  <2>2. \A q \in t.requests : q.id = n => ~Ready(q, lucky)
    BY <1>1, FoundIs
  <2>3. Queued(t, t)
    BY DEF Queued, Same, Grows
  <2> QED BY <2>1, <2>2, <2>3
<1>2. CASE request_lookup(t, n) # {} /\ Ready(r, lucky)
  <2>1. r \in t.requests /\ \A q \in t.requests : q.id = n => q = r
    BY <1>2, FoundIs
  <2>2. u = IF r.sending THEN put_request(t, r) ELSE get_request(t, r)
    BY <1>2 DEF Start
  <2> HIDE DEF u, r
  <2>3. Queued(t, u) /\ Coming(u, r)
    <3>1. CASE r.sending
      BY <2>1, <2>2, <3>1, PutGrows
    <3>2. CASE ~r.sending
      BY <2>1, <2>2, <3>2, GetGrows
    <3> QED BY <3>1, <3>2
  <2> QED BY <2>1, <2>3 DEF u
<1> QED BY <1>1, <1>2

(* The recursion of Starting is well-founded.                               *)
LEMMA StartingIs ==
  ASSUME NEW t, Len(t.asked) \in Nat, NEW lucky
  PROVE  /\ Starting(t, lucky)[0] = t
         /\ \A n \in 1 .. Len(t.asked) : Starting(t, lucky)[n] = Start(Starting(t, lucky)[n - 1], n, lucky)
<1> DEFINE l == Len(t.asked)
           Step(b, n) == IF n = 0 THEN t ELSE Start(b[n - 1], n, lucky)
           Are(b, m) == b = [n \in 0 .. m |-> Step(b, n)]
           Some == {m \in Nat : \E b : Are(b, m)}
<1>1. 0 \in Some
  <2> DEFINE k0 == [n \in 0 .. 0 |-> t]
  <2>1. Are(k0, 0)
    OBVIOUS
  <2> QED BY <2>1
<1>2. ASSUME NEW m \in 0 .. l - 1, m \in Some PROVE m + 1 \in Some
  <2>1. PICK k : Are(k, m)
    BY <1>2
  <2> DEFINE c == [n \in 0 .. m + 1 |-> IF n = m + 1 THEN Start(k[m], n, lucky) ELSE k[n]]
  <2>2. \A n \in 0 .. m + 1 : c[n] = Step(c, n)
    <3>1. ASSUME NEW n \in 0 .. m PROVE c[n] = Step(c, n)
      <4>1. c[n] = Step(k, n)
        BY <2>1
      <4>2. n # 0 => c[n - 1] = k[n - 1]
        OBVIOUS
      <4> QED BY <4>1, <4>2
    <3>2. c[m + 1] = Step(c, m + 1)
      OBVIOUS
    <3>3. \A n \in 0 .. m + 1 : n \in 0 .. m \/ n = m + 1
      OBVIOUS
    <3> HIDE DEF c, Step
    <3> QED BY <3>1, <3>2, <3>3
  <2>3. Are(c, m + 1)
    <3>1. c = [n \in 0 .. m + 1 |-> c[n]]
      OBVIOUS
    <3> HIDE DEF c, Step
    <3> QED BY <2>2, <3>1
  <2>4. m + 1 \in Nat
    OBVIOUS
  <2> HIDE DEF Are, c
  <2> QED BY <2>3, <2>4
<1>3. l \in Some
  <2>1. l \in Nat /\ l \in 0 .. l
    OBVIOUS
  <2> HIDE DEF Some, l
  <2> QED BY <1>1, <1>2, <2>1, UpTo
<1>4. Are(Starting(t, lucky), l)
  <2>1. PICK k : Are(k, l)
    BY <1>3
  <2>2. Starting(t, lucky) = CHOOSE b : Are(b, l)
    BY DEF Starting
  <2> HIDE DEF Are
  <2> QED BY <2>1, <2>2
<1> DEFINE s == Starting(t, lucky)
<1>5. \A n \in 0 .. l : s[n] = Step(s, n)
  <2>1. s = [n \in 0 .. l |-> Step(s, n)]
    BY <1>4
  <2> HIDE DEF s, l, Step
  <2> QED BY <2>1
<1>6. 0 \in 0 .. l /\ \A n \in 1 .. l : n \in 0 .. l /\ n # 0
  OBVIOUS
<1> HIDE DEF s, l
<1>7. s[0] = t /\ \A n \in 1 .. l : s[n] = Start(s[n - 1], n, lucky)
  BY <1>5, <1>6
<1> QED BY <1>7 DEF s, l

(* And so have all requests, at the end of the walk.                         *)
LEMMA StartingGrows ==
  ASSUME NEW t, Shape(t), RequestsOk(t.requests, t.asked), EntriesOk(t.socks, t.asked), NEW lucky
  PROVE  LET u == Starting(t, lucky)[Len(t.asked)]
         IN  Queued(t, u) /\ \A r \in t.requests : Ready(r, lucky) => Coming(u, r)
<1> DEFINE l == Len(t.asked)
           s == Starting(t, lucky)
           On(n) == /\ Queued(t, s[n])
                    /\ \A r \in t.requests : r.id <= n /\ Ready(r, lucky) => Coming(s[n], r)
           Some == {n \in Nat : On(n)}
<1>1. l \in Nat
  BY DEF Shape, Good, IsSeq
<1>2. s[0] = t /\ \A n \in 1 .. l : s[n] = Start(s[n - 1], n, lucky)
  BY <1>1, StartingIs
<1>3. \A r \in t.requests : r.id \in 1 .. l
  BY DEF RequestsOk
<1> HIDE DEF s, l
<1>4. 0 \in Some
  <2>1. \A r \in t.requests : ~(r.id <= 0)
    BY <1>1, <1>3
  <2>2. Queued(t, t)
    BY DEF Queued, Same, Grows
  <2>3. On(0)
    BY <1>2, <2>1, <2>2
  <2> HIDE DEF On
  <2> QED BY <2>3
<1>5. ASSUME NEW m \in 0 .. l - 1, m \in Some PROVE m + 1 \in Some
  <2> DEFINE n == m + 1
             v == s[m]
             u == s[n]
  <2>0. n \in 1 .. l /\ n \in Nat /\ n - 1 = m
    BY <1>1
  <2>1. On(m)
    BY <1>5
  <2>2. u = Start(v, n, lucky)
    BY <2>0, <1>2
  <2>3. v.requests = t.requests /\ v.asked = t.asked
    BY <2>1 DEF Queued, Same
  <2> HIDE DEF n, v, u
  <2>4. Shape(v) /\ RequestsOk(v.requests, v.asked) /\ EntriesOk(v.socks, v.asked)
    BY <2>1, <2>3 DEF Queued, v
  <2>5. /\ Queued(v, u)
        /\ \A r \in v.requests : r.id = n /\ Ready(r, lucky) => Coming(u, r)
    BY <2>2, <2>4, StartGrows
  <2>6. Queued(t, u)
    BY <2>1, <2>5, QueuedOn DEF v
  <2>8. ASSUME NEW r \in t.requests, r.id <= n, Ready(r, lucky) PROVE Coming(u, r)
    <3>1. CASE r.id = n
      BY <3>1, <2>3, <2>5, <2>8
    <3>2. CASE r.id # n
      <4>1. r.id <= m
        BY <3>2, <2>8, <1>3, <1>1 DEF n
      <4>2. Coming(v, r)
        BY <4>1, <2>1, <2>8 DEF v
      <4>3. r.handle \in Sockets
        BY RequestIs
      <4> QED BY <4>2, <4>3, <2>5 DEF Coming, Queued, Grows
    <3> QED BY <3>1, <3>2
  <2>9. On(n)
    BY <2>6, <2>8 DEF u
  <2> HIDE DEF On
  <2> QED BY <2>9, <2>0 DEF n
<1>6. 0 .. l \subseteq Some
  <2> HIDE DEF Some
  <2> QED BY <1>1, <1>4, <1>5, UpTo
<1>7. On(l)
  <2>1. l \in 0 .. l
    BY <1>1
  <2> HIDE DEF On
  <2> QED BY <1>6, <2>1
<1>8. \A r \in t.requests : r.id <= l
  BY <1>1, <1>3
<1> QED BY <1>7, <1>8 DEF s, l
(* Everybody who can be is started.                                         *)
Mark(r, lucky) == [r EXCEPT !.in_progress = r.in_progress \/ Ready(r, lucky)]

(* A request marked in progress is the same request.                         *)
LEMMA MarkIs ==
  ASSUME NEW r, DOMAIN r = RequestFields, NEW lucky
  PROVE  /\ DOMAIN Mark(r, lucky) = RequestFields
         /\ Mark(r, lucky).id = r.id /\ Mark(r, lucky).sending = r.sending /\ Mark(r, lucky).huge = r.huge
         /\ Mark(r, lucky).handle = r.handle /\ Mark(r, lucky).size = r.size
         /\ Mark(r, lucky).in_header = r.in_header /\ Mark(r, lucky).pipe = r.pipe
         /\ Mark(r, lucky).in_progress = (r.in_progress \/ Ready(r, lucky))
BY DEF Mark, RequestFields

LEMMA MarkedOk ==
  ASSUME NEW t, Shape(t), RequestsOk(t.requests, t.asked), NEW lucky
  PROVE  RequestsOk({Mark(r, lucky) : r \in t.requests}, t.asked)
<1> DEFINE M == {Mark(r, lucky) : r \in t.requests}
<1>1. SUFFICES ASSUME NEW q \in M
      PROVE  /\ q.id \in 1 .. Len(t.asked) /\ t.asked[q.id].kind \in BlockKinds /\ q.handle = t.asked[q.id].socket
             /\ q.sending <=> t.asked[q.id].kind \in Puts
             /\ q.huge <=> t.asked[q.id].kind \in Huge
             /\ {q.sending, q.huge, q.in_header, q.in_progress} \subseteq BOOLEAN
             /\ \A p \in M : p.id = q.id => p = q
  BY DEF RequestsOk
<1>2. PICK r \in t.requests : q = Mark(r, lucky)
  OBVIOUS
<1>3. /\ q.id = r.id /\ q.sending = r.sending /\ q.huge = r.huge /\ q.handle = r.handle
      /\ q.in_header = r.in_header /\ q.in_progress = (r.in_progress \/ Ready(r, lucky))
  BY <1>2, MarkIs DEF Shape
<1>4. q.in_progress \in BOOLEAN
  BY <1>3
<1>5. ASSUME NEW p \in M, p.id = q.id PROVE p = q
  <2>1. PICK s \in t.requests : p = Mark(s, lucky)
    OBVIOUS
  <2>2. p.id = s.id
    BY <2>1, MarkIs DEF Shape
  <2>3. s = r
    BY <2>2, <1>3, <1>5 DEF RequestsOk
  <2> QED BY <2>1, <2>3, <1>2
<1> HIDE DEF M
<1>6. /\ r.id \in 1 .. Len(t.asked) /\ t.asked[r.id].kind \in BlockKinds /\ r.handle = t.asked[r.id].socket
      /\ r.sending <=> t.asked[r.id].kind \in Puts
      /\ r.huge <=> t.asked[r.id].kind \in Huge
      /\ r.sending \in BOOLEAN /\ r.huge \in BOOLEAN /\ r.in_header \in BOOLEAN
  BY DEF RequestsOk
<1> QED BY <1>3, <1>4, <1>5, <1>6

(* process_transfer_requests keeps the invariant.                            *)
LEMMA ProcessKeeps ==
  ASSUME NEW t, TranOk(t, {}), NEW lucky
  PROVE  LET u == process_transfer_requests(t, lucky) IN TranOk(u, {}) /\ Started(u)
<1> DEFINE s == Starting(t, lucky)[Len(t.asked)]
           M == {Mark(r, lucky) : r \in t.requests}
           u == [s EXCEPT !.requests = M]
<1>1. process_transfer_requests(t, lucky) = u
  BY DEF process_transfer_requests, Mark
<1>2. /\ Shape(t) /\ RequestsOk(t.requests, t.asked) /\ ThreadsOk(t.threads, t.asked) /\ EntriesOk(t.socks, t.asked)
      /\ AnswersOk(t.answers, t.asked, Waits(t)) /\ CommitsOk(t.answers, t.asked, Waits(t), t.commit)
      /\ LostOk(t.answers, t.asked, Waits(t), t.socks)
      /\ CountOk(t.threads, t.fileio_threads)
      /\ RequestsToCome(t.requests, t.socks, {}) /\ ThreadsToCome(t.threads, t.socks, {})
  BY DEF TranOk
<1>3. Queued(t, s) /\ \A r \in t.requests : Ready(r, lucky) => Coming(s, r)
  BY <1>2, StartingGrows
<1>4. RequestsOk(M, t.asked)
  BY <1>2, MarkedOk
<1>5. ASSUME NEW q \in M
      PROVE  \E r \in t.requests :
               /\ q.id = r.id /\ q.sending = r.sending /\ q.handle = r.handle
               /\ q.in_header = r.in_header /\ q.pipe = r.pipe
               /\ q.in_progress = (r.in_progress \/ Ready(r, lucky)) /\ DOMAIN q = RequestFields
  <2>1. PICK r \in t.requests : q = Mark(r, lucky)
    OBVIOUS
  <2>2. /\ q.id = r.id /\ q.sending = r.sending /\ q.handle = r.handle
        /\ q.in_header = r.in_header /\ q.pipe = r.pipe
        /\ q.in_progress = (r.in_progress \/ Ready(r, lucky)) /\ DOMAIN q = RequestFields
    BY <1>2, <2>1, MarkIs DEF Shape
  <2> QED BY <2>2
<1>6. {q.id : q \in M} = {r.id : r \in t.requests}
  <2>1. \A r \in t.requests : Mark(r, lucky).id = r.id
    BY <1>2, MarkIs DEF Shape
  <2> QED BY <2>1
<1> HIDE DEF s, M
<1>7. /\ DOMAIN u = TranFields /\ u.requests = M
      /\ u.plan = t.plan /\ u.asked = t.asked /\ u.answers = t.answers
      /\ u.pipes = t.pipes /\ u.commit = t.commit /\ u.fileio_threads = t.fileio_threads
      /\ u.threads = t.threads /\ u.socks = s.socks
  BY <1>3 DEF Queued, Same, Shape, TranFields
<1> HIDE DEF u
<1>8. Shape(u)
  BY <1>3, <1>5, <1>7 DEF Queued, Shape, Same
<1>9. Waits(u) = Waits(t)
  BY <1>6, <1>7 DEF Waits, Running
<1>10. Grows(t.socks, u.socks) /\ EntriesOk(u.socks, u.asked)
  BY <1>3, <1>7 DEF Queued, Same
<1>11. LostOk(t.answers, t.asked, Waits(t), u.socks)
  <2>1. \A n \in 1 .. Len(t.asked) : t.asked[n].kind \in BlockKinds => t.asked[n].socket \in Sockets
    BY <1>2 DEF Shape, Good, Transfers
  <2> QED BY <2>1, <1>2, <1>10 DEF LostOk, Grows
<1>12. RequestsToCome(t.requests, u.socks, {}) /\ ThreadsToCome(t.threads, u.socks, {})
  BY <1>2, <1>10, ToComeOn DEF Shape
<1>13. RequestsToCome(M, u.socks, {})
  <2>1. ASSUME NEW q \in M, q.pipe = NULL, q.in_progress
        PROVE  Entry(u.socks[q.handle], q.id) /\ (q.sending /\ q.in_header => Twice(u.socks[q.handle], q.id))
    <3>1. PICK r \in t.requests :
            /\ q.id = r.id /\ q.sending = r.sending /\ q.handle = r.handle
            /\ q.in_header = r.in_header /\ q.pipe = r.pipe
            /\ q.in_progress = (r.in_progress \/ Ready(r, lucky))
      BY <1>5
    <3>2. CASE r.in_progress
      BY <3>1, <3>2, <2>1, <1>12 DEF RequestsToCome
    <3>3. CASE Ready(r, lucky)
      BY <3>1, <3>3, <1>3, <1>7 DEF Coming
    <3> QED BY <3>1, <3>2, <3>3, <2>1
  <2> QED BY <2>1 DEF RequestsToCome
<1>14. Started(u)
  <2>1. ASSUME NEW q \in M, q.pipe = NULL PROVE q.in_progress
    <3>1. PICK r \in t.requests :
            q.pipe = r.pipe /\ q.in_progress = (r.in_progress \/ Ready(r, lucky))
      BY <1>5
    <3>2. r.in_progress \/ Ready(r, lucky)
      BY <3>1, <2>1 DEF Ready
    <3> QED BY <3>1, <3>2
  <2> QED BY <2>1, <1>7 DEF Started
<1>15. TranOk(u, {})
  BY <1>2, <1>4, <1>7, <1>8, <1>9, <1>10, <1>11, <1>12, <1>13 DEF TranOk
<1> QED BY <1>1, <1>14, <1>15
-----------------------------------------------------------------------------
(* Answers.                                                                 *)

(* Who does not wait needs nothing to come.                                 *)
LEMMA OutLess ==
  ASSUME NEW t, NEW out, NEW less, TranOk(t, out), \A n \in Waits(t) : n \in out => n \in less
  PROVE  TranOk(t, less)
<1>1. RequestsToCome(t.requests, t.socks, less)
  BY DEF TranOk, RequestsToCome, Waits
<1>2. ThreadsToCome(t.threads, t.socks, less)
  <2>1. ASSUME NEW k \in 1 .. Len(t.threads), t.threads[k].id # 0
        PROVE  t.threads[k].id \in Waits(t)
    <3>1. k \in Running(t)
      BY <2>1 DEF TranOk, Shape, IsSeq, Running
    <3> QED BY <3>1 DEF Waits
  <2> QED BY <2>1 DEF TranOk, ThreadsToCome
<1> QED BY <1>1, <1>2 DEF TranOk

(* The threads of files that run are those with a request.                   *)
LEMMA RunningIs ==
  ASSUME NEW t, Shape(t)
  PROVE  /\ Len(t.threads) \in Nat
         /\ Running(t) = {k \in 1 .. Len(t.threads) : t.threads[k].id # 0}
<1>1. DOMAIN t.threads = 1 .. Len(t.threads) /\ Len(t.threads) \in Nat
  <2> DEFINE s == t.threads
             l == Len(s)
  <2>1. l \in Nat /\ s = [i \in 1 .. l |-> s[i]]
    BY DEF Shape, IsSeq
  <2> HIDE DEF s, l
  <2>2. DOMAIN s = 1 .. l
    BY <2>1
  <2> QED BY <2>1, <2>2 DEF s, l
<1> QED BY <1>1 DEF Running

(* A block has been asked for, a file too: nobody has asked for both.       *)
LEMMA WaitsApart ==
  ASSUME NEW t, Shape(t), RequestsOk(t.requests, t.asked), ThreadsOk(t.threads, t.asked)
  PROVE  /\ \A r \in t.requests, k \in Running(t) : r.id # t.threads[k].id
         /\ \A n \in Waits(t) : n \in 1 .. Len(t.asked) /\ t.asked[n].kind \in Transfers
<1>1. \A r \in t.requests : r.id \in 1 .. Len(t.asked) /\ t.asked[r.id].kind \in BlockKinds
  BY DEF RequestsOk
<1>2. \A k \in Running(t) : t.threads[k].id \in 1 .. Len(t.asked) /\ t.asked[t.threads[k].id].kind \in FileKinds
  BY RunningIs DEF ThreadsOk
<1>3. \A x : ~(x \in BlockKinds /\ x \in FileKinds)
  BY DEF BlockKinds, FileKinds, Puts, Gets
<1> QED BY <1>1, <1>2, <1>3 DEF Waits, Transfers

(* A request is answered and destroyed: one fewer waits.                     *)
LEMMA RequestAnswered ==
  ASSUME NEW t, NEW out, TranOk(t, out), NEW r \in t.requests, NEW kind, NEW data,
         AnswerOk(t.asked, r.id, kind)
  PROVE  LET u == request_destroy(Answer(t, r.id, kind, data), r.id)
         IN  TranOk(u, out) /\ Waits(u) = Waits(t) \ {r.id} /\ u.socks = t.socks /\ u.asked = t.asked
<1> DEFINE n == r.id
           e == [to |-> n, kind |-> kind, data |-> data]
           A == Append(t.answers, e)
           R == {q \in t.requests : q.id # n}
           u == [[t EXCEPT !.answers = A] EXCEPT !.requests = R]
<1>0. u = request_destroy(Answer(t, n, kind, data), n)
  <2>1. Answer(t, n, kind, data) = [t EXCEPT !.answers = A]
    BY DEF Answer
  <2>2. [t EXCEPT !.answers = A].requests = t.requests
    <3> HIDE DEF A
    <3> QED BY DEF TranOk, Shape, TranFields
  <2> QED BY <2>1, <2>2 DEF request_destroy
<1>1. /\ Shape(t) /\ RequestsOk(t.requests, t.asked) /\ ThreadsOk(t.threads, t.asked) /\ EntriesOk(t.socks, t.asked)
      /\ AnswersOk(t.answers, t.asked, Waits(t)) /\ CommitsOk(t.answers, t.asked, Waits(t), t.commit)
      /\ LostOk(t.answers, t.asked, Waits(t), t.socks)
      /\ CountOk(t.threads, t.fileio_threads)
      /\ RequestsToCome(t.requests, t.socks, out) /\ ThreadsToCome(t.threads, t.socks, out)
  BY DEF TranOk
<1>2. e.to = n /\ e.kind = kind
  OBVIOUS
<1> HIDE DEF e
<1>3. IsSeq(t.answers) /\ IsSeq(A) /\ Len(t.asked) \in Nat
  BY <1>1, AppendIs DEF Shape, Good, IsSeq
<1> HIDE DEF A
<1>4. /\ DOMAIN u = TranFields /\ u.requests = R /\ u.answers = A
      /\ u.plan = t.plan /\ u.asked = t.asked
      /\ u.pipes = t.pipes /\ u.commit = t.commit /\ u.fileio_threads = t.fileio_threads
      /\ u.threads = t.threads /\ u.socks = t.socks
  BY <1>1 DEF Shape, TranFields
<1> HIDE DEF u
<1>5. Shape(u)
  BY <1>1, <1>3, <1>4 DEF Shape
<1>6. n \in Waits(t) /\ Waits(u) = Waits(t) \ {n}
  <2>1. Running(u) = Running(t)
    BY <1>4 DEF Running
  <2>2. \A k \in Running(t) : t.threads[k].id # n
    BY <1>1, WaitsApart
  <2> QED BY <2>1, <2>2, <1>4 DEF Waits
<1>7. RequestsOk(R, t.asked)
  BY <1>1 DEF RequestsOk
<1>8. AnswersOk(A, t.asked, Waits(u))
  BY <1>1, <1>2, <1>3, <1>6, AnsweredKeeps DEF A
<1>9. CommitsOk(A, t.asked, Waits(u), t.commit)
  BY <1>1, <1>2, <1>3, <1>6, CommitsKeep DEF A
<1>10. LostOk(A, t.asked, Waits(u), t.socks)
  BY <1>1, <1>2, <1>3, <1>6, LostKeeps DEF A
<1>11. RequestsToCome(R, t.socks, out)
  BY <1>1 DEF RequestsToCome
<1>12. TranOk(u, out)
  BY <1>1, <1>4, <1>5, <1>7, <1>8, <1>9, <1>10, <1>11 DEF TranOk
<1> QED BY <1>0, <1>4, <1>6, <1>12

(* The requests on a socket that is closed.                                 *)
LEMMA SocketAnswered ==
  ASSUME NEW t, NEW out, TranOk(t, out), NEW r \in t.requests, t.socks[r.handle].state = "closed"
  PROVE  LET u == destroy_socket_requests(Answer(t, r.id, "closed", << >>), r.handle)
         IN  TranOk(u, out) /\ Waits(u) \subseteq Waits(t) \ {r.id} /\ u.socks = t.socks /\ u.asked = t.asked
<1> DEFINE n == r.id
           h == r.handle
           e == [to |-> n, kind |-> "closed", data |-> << >>]
           A == Append(t.answers, e)
           R == {q \in t.requests : q.handle # h}
           u == [[t EXCEPT !.answers = A] EXCEPT !.requests = R]
<1>0. u = destroy_socket_requests(Answer(t, n, "closed", << >>), h)
  <2>1. Answer(t, n, "closed", << >>) = [t EXCEPT !.answers = A]
    BY DEF Answer
  <2>2. [t EXCEPT !.answers = A].requests = t.requests
    <3> HIDE DEF A
    <3> QED BY DEF TranOk, Shape, TranFields
  <2> QED BY <2>1, <2>2 DEF destroy_socket_requests
<1>1. /\ Shape(t) /\ RequestsOk(t.requests, t.asked) /\ ThreadsOk(t.threads, t.asked) /\ EntriesOk(t.socks, t.asked)
      /\ AnswersOk(t.answers, t.asked, Waits(t)) /\ CommitsOk(t.answers, t.asked, Waits(t), t.commit)
      /\ LostOk(t.answers, t.asked, Waits(t), t.socks)
      /\ CountOk(t.threads, t.fileio_threads)
      /\ RequestsToCome(t.requests, t.socks, out) /\ ThreadsToCome(t.threads, t.socks, out)
  BY DEF TranOk
<1>2. e.to = n /\ e.kind = "closed"
  OBVIOUS
<1> HIDE DEF e
<1>3. IsSeq(t.answers) /\ IsSeq(A) /\ Len(t.asked) \in Nat
  BY <1>1, AppendIs DEF Shape, Good, IsSeq
<1> HIDE DEF A
<1>4. /\ DOMAIN u = TranFields /\ u.requests = R /\ u.answers = A
      /\ u.plan = t.plan /\ u.asked = t.asked
      /\ u.pipes = t.pipes /\ u.commit = t.commit /\ u.fileio_threads = t.fileio_threads
      /\ u.threads = t.threads /\ u.socks = t.socks
  BY <1>1 DEF Shape, TranFields
<1> HIDE DEF u
<1>5. Shape(u)
  BY <1>1, <1>3, <1>4 DEF Shape
<1>6. /\ n \in Waits(t) /\ Waits(u) \subseteq Waits(t) \ {n}
      /\ \A m \in Waits(t) : m \in Waits(u) \/ \E q \in t.requests : q.id = m /\ q.handle = h
  <2>1. Running(u) = Running(t)
    BY <1>4 DEF Running
  <2>2. \A k \in Running(t) : t.threads[k].id # n
    BY <1>1, WaitsApart
  <2>3. \A q \in R : q.id # n
    BY <1>1 DEF RequestsOk
  <2> QED BY <2>1, <2>2, <2>3, <1>4 DEF Waits
<1>7. RequestsOk(R, t.asked)
  BY <1>1 DEF RequestsOk
<1>8. \A q \in t.requests : /\ q.id \in 1 .. Len(t.asked) /\ t.asked[q.id].kind \in BlockKinds
                            /\ q.handle = t.asked[q.id].socket
  BY <1>1 DEF RequestsOk
<1>9. AnswerOk(t.asked, n, "closed")
  BY <1>8 DEF AnswerOk, Transfers
<1>10. AnswersOk(A, t.asked, Waits(u))
  BY <1>1, <1>2, <1>3, <1>6, <1>9, AnsweredKeeps DEF A
<1>11. CommitsOk(A, t.asked, Waits(u), t.commit)
  BY <1>1, <1>2, <1>3, <1>6, <1>9, CommitsKeep DEF A
<1>12. LostOk(A, t.asked, Waits(u), t.socks)
  <2>1. \A m \in Waits(t) \ {e.to} :
          m \in Waits(u) \/ (/\ m \in 1 .. Len(t.asked) /\ t.asked[m].kind \in BlockKinds
                             /\ t.socks[t.asked[m].socket].state = "closed"
                             /\ e.to \in 1 .. Len(t.asked) /\ t.asked[e.to].kind \in BlockKinds
                             /\ t.asked[e.to].socket = t.asked[m].socket /\ e.kind = "closed")
    BY <1>2, <1>6, <1>8
  <2> QED BY <2>1, <1>1, <1>3, LostKeeps DEF A
<1>13. RequestsToCome(R, t.socks, out)
  BY <1>1 DEF RequestsToCome
<1>14. TranOk(u, out)
  BY <1>1, <1>4, <1>5, <1>7, <1>10, <1>11, <1>12, <1>13 DEF TranOk
<1> QED BY <1>0, <1>4, <1>6, <1>14
(* A thread of a file ends.                                                 *)
Ends(t, u, k, kind, data) ==
  /\ DOMAIN u = TranFields
  /\ u.answers = Append(t.answers, [to |-> t.threads[k].id, kind |-> kind, data |-> data])
  /\ u.threads = [t.threads EXCEPT ![k] = [@ EXCEPT !.id = 0]]
  /\ u.fileio_threads \in Nat /\ u.fileio_threads + 1 >= t.fileio_threads
  /\ u.plan = t.plan /\ u.asked = t.asked /\ u.requests = t.requests
  /\ u.pipes = t.pipes /\ u.commit = t.commit /\ u.socks = t.socks

(* A thread that ends is counted off.                                        *)
LEMMA FewerRunning ==
  ASSUME NEW t, Shape(t), NEW k \in Running(t)
  PROVE  /\ IsFiniteSet(Running(t)) /\ Cardinality(Running(t)) \in Nat \ {0}
         /\ Cardinality(Running(t) \ {k}) = Cardinality(Running(t)) - 1
<1> DEFINE R == Running(t)
<1>1. IsFiniteSet(R)
  <2>1. IsFiniteSet(1 .. Len(t.threads))
    BY RunningIs, FS_Interval
  <2>2. R \subseteq 1 .. Len(t.threads)
    BY RunningIs
  <2> HIDE DEF R
  <2> QED BY <2>1, <2>2, FS_Subset
<1> HIDE DEF R
<1>2. k \in R
  BY DEF R
<1>3. Cardinality(R) \in Nat /\ Cardinality(R) # 0
  <2>1. Cardinality(R) \in Nat
    BY <1>1, FS_CardinalityType
  <2>2. Cardinality(R) # 0
    BY <1>1, <1>2, FS_EmptySet
  <2> QED BY <2>1, <2>2
<1>4. Cardinality(R \ {k}) = Cardinality(R) - 1
  BY <1>1, <1>2, FS_RemoveElement
<1> QED BY <1>1, <1>3, <1>4 DEF R

(* It is answered, and waits no more, however it ends.                       *)
LEMMA ThreadEnds ==
  ASSUME NEW t, NEW out, TranOk(t, out), NEW k \in Running(t), NEW kind, NEW data, NEW u,
         AnswerOk(t.asked, t.threads[k].id, kind), Ends(t, u, k, kind, data)
  PROVE  TranOk(u, out) /\ Waits(u) = Waits(t) \ {t.threads[k].id}
<1> DEFINE n == t.threads[k].id
           e == [to |-> n, kind |-> kind, data |-> data]
           A == Append(t.answers, e)
           l == Len(t.threads)
<1>0. PICK F : F = [t.threads[k] EXCEPT !.id = 0]
  OBVIOUS
<1>1. /\ Shape(t) /\ RequestsOk(t.requests, t.asked) /\ ThreadsOk(t.threads, t.asked) /\ EntriesOk(t.socks, t.asked)
      /\ AnswersOk(t.answers, t.asked, Waits(t)) /\ CommitsOk(t.answers, t.asked, Waits(t), t.commit)
      /\ LostOk(t.answers, t.asked, Waits(t), t.socks)
      /\ CountOk(t.threads, t.fileio_threads)
      /\ RequestsToCome(t.requests, t.socks, out) /\ ThreadsToCome(t.threads, t.socks, out)
  BY DEF TranOk
<1>2. e.to = n /\ e.kind = kind
  OBVIOUS
<1>3. /\ DOMAIN u = TranFields /\ u.answers = A /\ u.threads = [t.threads EXCEPT ![k] = F]
      /\ u.fileio_threads \in Nat /\ u.fileio_threads + 1 >= t.fileio_threads
      /\ u.plan = t.plan /\ u.asked = t.asked /\ u.requests = t.requests
      /\ u.pipes = t.pipes /\ u.commit = t.commit /\ u.socks = t.socks
  BY <1>0 DEF Ends
<1> HIDE DEF e
<1>4. IsSeq(t.answers) /\ IsSeq(A) /\ Len(t.asked) \in Nat
  BY <1>1, AppendIs DEF Shape, Good, IsSeq
<1> HIDE DEF A
<1>5. k \in 1 .. l /\ l \in Nat /\ n # 0 /\ Running(t) = {i \in 1 .. l : t.threads[i].id # 0}
  BY <1>1, RunningIs
<1>6. DOMAIN F = FileFields /\ F.id = 0
  BY <1>0, <1>1, <1>5 DEF Shape, FileFields
<1>7. /\ IsSeq(u.threads) /\ Len(u.threads) = l
      /\ \A i \in 1 .. l : u.threads[i] = IF i = k THEN F ELSE t.threads[i]
  <2>1. IsSeq(t.threads)
    BY <1>1 DEF Shape
  <2>2. k \in 1 .. Len(t.threads)
    BY <1>5
  <2>3. u.threads = [t.threads EXCEPT ![k] = F]
    BY <1>3
  <2>4. PICK s : s = t.threads
    OBVIOUS
  <2>5. IsSeq(s) /\ k \in 1 .. Len(s) /\ u.threads = [s EXCEPT ![k] = F] /\ l = Len(s)
    BY ONLY <2>1, <2>2, <2>3, <2>4
  <2>6. /\ IsSeq(u.threads) /\ Len(u.threads) = l
        /\ \A i \in 1 .. Len(s) : u.threads[i] = IF i = k THEN F ELSE s[i]
    BY ONLY <2>5, ExceptIs
  <2> QED BY ONLY <2>4, <2>6
<1>8. Shape(u)
  BY <1>1, <1>3, <1>4, <1>6, <1>7 DEF Shape
<1>9. Running(u) = Running(t) \ {k}
  BY <1>5, <1>6, <1>7, <1>8, RunningIs
<1>10. n \in Waits(t) /\ Waits(u) = Waits(t) \ {n}
  <2>1. \A r \in t.requests : r.id # n
    BY <1>1, WaitsApart
  <2>2. \A i \in Running(u) : u.threads[i].id = t.threads[i].id /\ t.threads[i].id # n
    BY <1>1, <1>5, <1>7, <1>9 DEF ThreadsOk
  <2>3. \A i \in Running(t) : i = k \/ i \in Running(u)
    BY <1>9
  <2> QED BY <2>1, <2>2, <2>3, <1>3, <1>9 DEF Waits
<1>11. ThreadsOk(u.threads, t.asked)
  BY <1>1, <1>6, <1>7 DEF ThreadsOk
<1>12. CountOk(u.threads, u.fileio_threads)
  <2>1. Cardinality(Running(u)) = Cardinality(Running(t)) - 1 /\ Cardinality(Running(t)) \in Nat
    BY <1>1, <1>9, FewerRunning
  <2>2. Cardinality(Running(t)) <= t.fileio_threads
    BY <1>1, <1>5 DEF CountOk
  <2>3. t.fileio_threads \in Nat
    BY <1>1 DEF Shape
  <2>4. Cardinality(Running(u)) <= u.fileio_threads
    BY <2>1, <2>2, <2>3, <1>3
  <2> QED BY <2>4, <1>8, RunningIs DEF CountOk
<1>13. AnswersOk(A, t.asked, Waits(u))
  BY <1>1, <1>2, <1>4, <1>10, AnsweredKeeps DEF A
<1>14. CommitsOk(A, t.asked, Waits(u), t.commit)
  BY <1>1, <1>2, <1>4, <1>10, CommitsKeep DEF A
<1>15. LostOk(A, t.asked, Waits(u), t.socks)
  BY <1>1, <1>2, <1>4, <1>10, LostKeeps DEF A
<1>16. ThreadsToCome(u.threads, t.socks, out)
  BY <1>1, <1>6, <1>7 DEF ThreadsToCome
<1>17. TranOk(u, out)
  BY <1>1, <1>3, <1>8, <1>11, <1>12, <1>13, <1>14, <1>15, <1>16 DEF TranOk
<1> QED BY <1>10, <1>17

(* With the answer of a transfer that is done, or a fatal error.             *)
LEMMA FileAnswered ==
  ASSUME NEW t, NEW out, TranOk(t, out), NEW k \in Running(t), NEW kind, NEW data,
         AnswerOk(t.asked, t.threads[k].id, kind)
  PROVE  LET u == Done(t, k, kind, data)
         IN  TranOk(u, out) /\ Waits(u) = Waits(t) \ {t.threads[k].id} /\ u.socks = t.socks /\ u.asked = t.asked
<1> DEFINE A == Append(t.answers, [to |-> t.threads[k].id, kind |-> kind, data |-> data])
           v == [t EXCEPT !.answers = A]
           w == [v EXCEPT !.fileio_threads = t.fileio_threads - 1]
           u == [w EXCEPT !.threads = [t.threads EXCEPT ![k] = [@ EXCEPT !.id = 0]]]
<1>1. Shape(t) /\ t.fileio_threads \in Nat \ {0}
  <2>1. Shape(t) /\ Cardinality(Running(t)) <= t.fileio_threads /\ t.fileio_threads \in Nat
    BY RunningIs DEF TranOk, CountOk, Shape
  <2>2. Cardinality(Running(t)) \in Nat \ {0}
    BY <2>1, FewerRunning
  <2> QED BY <2>1, <2>2
<1> HIDE DEF A
<1>2. v.fileio_threads = t.fileio_threads /\ v.threads = t.threads /\ w.threads = t.threads
  BY <1>1 DEF Shape, TranFields
<1>3. Done(t, k, kind, data) = u
  BY <1>2 DEF Done, Answer, Finish, A
<1>4. Ends(t, u, k, kind, data)
  BY <1>1 DEF Ends, Shape, TranFields, A
<1> HIDE DEF u
<1>5. TranOk(u, out) /\ Waits(u) = Waits(t) \ {t.threads[k].id}
  BY <1>4, ThreadEnds
<1> QED BY <1>3, <1>4, <1>5 DEF Ends

LEMMA FileFailed ==
  ASSUME NEW t, NEW out, TranOk(t, out), NEW k \in Running(t)
  PROVE  LET u == signal_fatal_error(t, k)
         IN  TranOk(u, out) /\ Waits(u) = Waits(t) \ {t.threads[k].id} /\ u.socks = t.socks /\ u.asked = t.asked
<1> DEFINE A == Append(t.answers, [to |-> t.threads[k].id, kind |-> "error", data |-> << >>])
           v == [t EXCEPT !.answers = A]
           u == [v EXCEPT !.threads = [t.threads EXCEPT ![k] = [@ EXCEPT !.id = 0]]]
<1>1. Shape(t) /\ t.fileio_threads \in Nat
  BY DEF TranOk, Shape
<1> HIDE DEF A
<1>2. v.threads = t.threads
  BY <1>1 DEF Shape, TranFields
<1>3. signal_fatal_error(t, k) = u
  BY <1>2 DEF signal_fatal_error, Raise, Answer, Finish, A
<1>4. Ends(t, u, k, "error", << >>)
  BY <1>1 DEF Ends, Shape, TranFields, A
<1>5. AnswerOk(t.asked, t.threads[k].id, "error")
  <2>1. t.threads[k].id \in Waits(t)
    BY DEF Waits
  <2> QED BY <2>1, WaitsApart DEF TranOk, AnswerOk
<1> HIDE DEF u
<1>6. TranOk(u, out) /\ Waits(u) = Waits(t) \ {t.threads[k].id}
  BY <1>4, <1>5, ThreadEnds
<1> QED BY <1>3, <1>4, <1>6 DEF Ends
-----------------------------------------------------------------------------
(* A thread or a request that goes on.                                      *)

Moves(t, u, k, f) ==
  /\ DOMAIN u = TranFields
  /\ DOMAIN f = FileFields
  /\ f.id = t.threads[k].id /\ f.kind = t.threads[k].kind /\ f.handle = t.threads[k].handle
  /\ u.threads = [t.threads EXCEPT ![k] = f]
  /\ u.plan = t.plan /\ u.asked = t.asked /\ u.answers = t.answers /\ u.requests = t.requests
  /\ u.pipes = t.pipes /\ u.commit = t.commit /\ u.fileio_threads = t.fileio_threads /\ u.socks = t.socks

(* A thread goes on in its file without an answer.                           *)
LEMMA ThreadMoves ==
  ASSUME NEW t, NEW out, TranOk(t, out), NEW k \in Running(t), NEW u, NEW f, Moves(t, u, k, f)
  PROVE  /\ TranOk(u, out) /\ Running(u) = Running(t)
         /\ \A i \in Running(t) : u.threads[i].id = t.threads[i].id /\ u.threads[i].kind = t.threads[i].kind
                                  /\ u.threads[i].handle = t.threads[i].handle
<1> DEFINE l == Len(t.threads)
<1>1. /\ Shape(t) /\ RequestsOk(t.requests, t.asked) /\ ThreadsOk(t.threads, t.asked) /\ EntriesOk(t.socks, t.asked)
      /\ AnswersOk(t.answers, t.asked, Waits(t)) /\ CommitsOk(t.answers, t.asked, Waits(t), t.commit)
      /\ LostOk(t.answers, t.asked, Waits(t), t.socks)
      /\ CountOk(t.threads, t.fileio_threads)
      /\ RequestsToCome(t.requests, t.socks, out) /\ ThreadsToCome(t.threads, t.socks, out)
  BY DEF TranOk
<1>2. k \in 1 .. l /\ l \in Nat /\ Running(t) = {i \in 1 .. l : t.threads[i].id # 0}
  BY <1>1, RunningIs
<1>3. /\ IsSeq(u.threads) /\ Len(u.threads) = l
      /\ \A i \in 1 .. l : u.threads[i] = IF i = k THEN f ELSE t.threads[i]
  <2>1. IsSeq(t.threads)
    BY <1>1 DEF Shape
  <2>2. u.threads = [t.threads EXCEPT ![k] = f]
    BY DEF Moves
  <2> QED BY <2>1, <2>2, <1>2, ExceptIs
<1>4. \A i \in 1 .. l : u.threads[i].id = t.threads[i].id /\ u.threads[i].kind = t.threads[i].kind
                        /\ u.threads[i].handle = t.threads[i].handle /\ DOMAIN u.threads[i] = FileFields
  BY <1>1, <1>3 DEF Moves, Shape
<1>5. Shape(u)
  BY <1>1, <1>3, <1>4 DEF Shape, Moves
<1>6. Running(u) = Running(t)
  BY <1>2, <1>3, <1>4, <1>5, RunningIs
<1>7. Waits(u) = Waits(t)
  BY <1>2, <1>4, <1>6 DEF Waits, Moves
<1>8. ThreadsOk(u.threads, t.asked)
  BY <1>1, <1>3, <1>4 DEF ThreadsOk
<1>9. CountOk(u.threads, t.fileio_threads)
  <2>1. {i \in 1 .. l : u.threads[i].id # 0} = {i \in 1 .. l : t.threads[i].id # 0}
    BY <1>4
  <2> QED BY <2>1, <1>1, <1>3 DEF CountOk
<1>10. ThreadsToCome(u.threads, t.socks, out)
  BY <1>1, <1>3, <1>4 DEF ThreadsToCome
<1>11. TranOk(u, out)
  BY <1>1, <1>5, <1>7, <1>8, <1>9, <1>10 DEF TranOk, Moves
<1> QED BY <1>2, <1>4, <1>6, <1>11

Follows(t, r, q) ==
  /\ DOMAIN q = RequestFields
  /\ q.id = r.id /\ q.sending = r.sending /\ q.huge = r.huge /\ q.handle = r.handle /\ q.pipe = r.pipe
  /\ q.in_header = FALSE /\ q.in_progress \in BOOLEAN
  /\ q.in_progress /\ q.pipe = NULL => Entry(t.socks[r.handle], r.id)

(* A request goes from its header to its body.                               *)
LEMMA RequestMoves ==
  ASSUME NEW t, NEW r \in t.requests, TranOk(t, {r.id}), NEW q, Follows(t, r, q)
  PROVE  TranOk(Become(t, r, q), {})
<1> DEFINE R == (t.requests \ {r}) \cup {q}
           u == [t EXCEPT !.requests = R]
<1>1. /\ Shape(t) /\ RequestsOk(t.requests, t.asked) /\ ThreadsOk(t.threads, t.asked) /\ EntriesOk(t.socks, t.asked)
      /\ AnswersOk(t.answers, t.asked, Waits(t)) /\ CommitsOk(t.answers, t.asked, Waits(t), t.commit)
      /\ LostOk(t.answers, t.asked, Waits(t), t.socks)
      /\ CountOk(t.threads, t.fileio_threads)
      /\ RequestsToCome(t.requests, t.socks, {r.id}) /\ ThreadsToCome(t.threads, t.socks, {r.id})
  BY DEF TranOk
<1>2. Become(t, r, q) = u
  BY DEF Become
<1>3. \A p \in R : p = q \/ (p \in t.requests /\ p.id # r.id)
  BY <1>1 DEF RequestsOk
<1>4. q \in R /\ \A p \in t.requests : p.id # r.id => p \in R
  OBVIOUS
<1> HIDE DEF R
<1>5. /\ DOMAIN u = TranFields /\ u.requests = R
      /\ u.plan = t.plan /\ u.asked = t.asked /\ u.answers = t.answers
      /\ u.pipes = t.pipes /\ u.commit = t.commit /\ u.fileio_threads = t.fileio_threads
      /\ u.threads = t.threads /\ u.socks = t.socks
  BY <1>1 DEF Shape, TranFields
<1> HIDE DEF u
<1>6. Shape(u)
  BY <1>1, <1>3, <1>5 DEF Shape, Follows
<1>7. Waits(u) = Waits(t)
  <2>1. Running(u) = Running(t)
    BY <1>5 DEF Running
  <2>2. \A p \in R : \E s \in t.requests : p.id = s.id
    BY <1>3 DEF Follows
  <2>3. \A s \in t.requests : \E p \in R : p.id = s.id
    BY <1>4 DEF Follows
  <2> QED BY <2>1, <2>2, <2>3, <1>5 DEF Waits
<1>8. RequestsOk(R, t.asked)
  <2>1. ASSUME NEW p \in R
        PROVE  /\ p.id \in 1 .. Len(t.asked) /\ t.asked[p.id].kind \in BlockKinds /\ p.handle = t.asked[p.id].socket
               /\ p.sending <=> t.asked[p.id].kind \in Puts
               /\ p.huge <=> t.asked[p.id].kind \in Huge
               /\ {p.sending, p.huge, p.in_header, p.in_progress} \subseteq BOOLEAN
               /\ \A s \in R : s.id = p.id => s = p
    <3>1. CASE p = q
      <4>1. \A s \in R : s.id = q.id => s = q
        BY <1>3 DEF Follows
      <4> QED BY <4>1, <3>1, <1>1 DEF RequestsOk, Follows
    <3>2. CASE p \in t.requests /\ p.id # r.id
      <4>1. \A s \in R : s.id = p.id => s = p
        BY <3>2, <1>1, <1>3 DEF RequestsOk, Follows
      <4> QED BY <4>1, <3>2, <1>1 DEF RequestsOk
    <3> QED BY <3>1, <3>2, <1>3
  <2> QED BY <2>1 DEF RequestsOk
<1>9. RequestsToCome(R, t.socks, {})
  <2>1. ASSUME NEW p \in R, p.pipe = NULL, p.in_progress
        PROVE  /\ Entry(t.socks[p.handle], p.id)
               /\ p.sending /\ p.in_header => Twice(t.socks[p.handle], p.id)
    <3>1. CASE p = q
      BY <3>1, <2>1 DEF Follows
    <3>2. CASE p \in t.requests /\ p.id # r.id
      BY <3>2, <2>1, <1>1 DEF RequestsToCome
    <3> QED BY <3>1, <3>2, <1>3
  <2> QED BY <2>1 DEF RequestsToCome
<1>10. ThreadsToCome(t.threads, t.socks, {})
  <2>1. \A k \in 1 .. Len(t.threads) : t.threads[k].id # 0 => t.threads[k].id # r.id
    BY <1>1, WaitsApart, RunningIs
  <2> QED BY <2>1, <1>1 DEF ThreadsToCome
<1>11. TranOk(u, {})
  BY <1>1, <1>5, <1>6, <1>7, <1>8, <1>9, <1>10 DEF TranOk
<1> QED BY <1>2, <1>11
(* An answer of the socket agent takes the first of what a socket has to do. *)
LEMMA OthersToCome ==
  ASSUME NEW t, NEW u, NEW h \in Sockets, NEW n, TranOk(t, {}),
         Shape(u), Same(t, u), EntriesOk(u.socks, u.asked),
         \A g \in Sockets : g # h => u.socks[g] = t.socks[g],
         u.socks[h].state = t.socks[h].state,
         \A m : m # n => /\ Entry(t.socks[h], m) => Entry(u.socks[h], m)
                         /\ Twice(t.socks[h], m) => Twice(u.socks[h], m)
  PROVE  TranOk(u, {n}) /\ Waits(u) = Waits(t)
<1>1. /\ Shape(t) /\ RequestsOk(t.requests, t.asked) /\ ThreadsOk(t.threads, t.asked) /\ EntriesOk(t.socks, t.asked)
      /\ AnswersOk(t.answers, t.asked, Waits(t)) /\ CommitsOk(t.answers, t.asked, Waits(t), t.commit)
      /\ LostOk(t.answers, t.asked, Waits(t), t.socks)
      /\ CountOk(t.threads, t.fileio_threads)
      /\ RequestsToCome(t.requests, t.socks, {}) /\ ThreadsToCome(t.threads, t.socks, {})
  BY DEF TranOk
<1>2. Waits(u) = Waits(t)
  BY DEF Same, Waits, Running
<1>3. \A g \in Sockets : u.socks[g].state = t.socks[g].state
  OBVIOUS
<1>4. LostOk(t.answers, t.asked, Waits(t), u.socks)
  <2>1. \A m \in 1 .. Len(t.asked) : t.asked[m].kind \in BlockKinds => t.asked[m].socket \in Sockets
    BY <1>1 DEF Shape, Good, Transfers
  <2> QED BY <2>1, <1>1, <1>3 DEF LostOk
<1>5. \A g \in Sockets : \A m : m # n => /\ Entry(t.socks[g], m) => Entry(u.socks[g], m)
                                         /\ Twice(t.socks[g], m) => Twice(u.socks[g], m)
  OBVIOUS
<1>6. RequestsToCome(t.requests, u.socks, {n})
  <2>1. \A r \in t.requests : r.handle \in Sockets
    BY <1>1, RequestIs
  <2> QED BY <2>1, <1>1, <1>5 DEF RequestsToCome
<1>7. ThreadsToCome(t.threads, u.socks, {n})
  <2>1. \A k \in 1 .. Len(t.threads) : t.threads[k].id # 0 => t.threads[k].handle \in Sockets
    BY <1>1 DEF ThreadsOk, Shape, Good, Transfers
  <2> QED BY <2>1, <1>1, <1>5 DEF ThreadsToCome
<1>8. TranOk(u, {n})
  BY <1>1, <1>2, <1>4, <1>6, <1>7 DEF TranOk, Same
<1> QED BY <1>2, <1>8

WriteDone(t, h, o) == [t EXCEPT !.socks[h] = [@ EXCEPT !.writes = Tail(t.socks[h].writes), !.out = o]]
ReadDone(t, h, o)  == [t EXCEPT !.socks[h] = [@ EXCEPT !.reads = Tail(t.socks[h].reads), !.incoming = o]]

(* The socket agent answers the first entry of a list: only who asked for it *)
(* may have nothing to come.                                                 *)
LEMMA WriteTaken ==
  ASSUME NEW t, TranOk(t, {}), NEW h \in Sockets, t.socks[h].writes # << >>, NEW o
  PROVE  LET n == Head(t.socks[h].writes).id
             u == WriteDone(t, h, o)
         IN  /\ TranOk(u, {n}) /\ u.requests = t.requests /\ u.threads = t.threads /\ u.asked = t.asked
             /\ Asked(t.asked, h, n, Puts \cup {"putf"})
             /\ Twice(t.socks[h], n) => Entry(u.socks[h], n)
<1> DEFINE w == t.socks[h].writes
           v == Tail(w)
           n == Head(w).id
           s == [t.socks[h] EXCEPT !.writes = v, !.out = o]
           u == [t EXCEPT !.socks[h] = s]
           l == Len(w)
<1>1. Shape(t) /\ EntriesOk(t.socks, t.asked) /\ IsSeq(w) /\ DOMAIN t.socks[h] = SockFields
  BY DEF TranOk, Shape
<1>2. /\ IsSeq(v) /\ l \in Nat \ {0} /\ Len(v) = l - 1 /\ \A i \in 1 .. l - 1 : v[i] = w[i + 1]
      /\ n = w[1].id
  BY <1>1, TailIs
<1>3. AllAsked(v, h, t.asked, Puts \cup {"putf"}) /\ Asked(t.asked, h, n, Puts \cup {"putf"})
  <2>1. AllAsked(w, h, t.asked, Puts \cup {"putf"})
    BY <1>1 DEF EntriesOk
  <2> QED BY <2>1, <1>1, FewerAsked
<1> HIDE DEF v
<1>4. /\ DOMAIN s = SockFields /\ s.writes = v /\ s.reads = t.socks[h].reads /\ s.state = t.socks[h].state
  BY <1>1 DEF SockFields
<1> HIDE DEF s
<1>5. /\ DOMAIN u = TranFields /\ Same(t, u)
      /\ DOMAIN u.socks = Sockets /\ u.socks[h] = s
      /\ \A g \in Sockets : g # h => u.socks[g] = t.socks[g]
  BY <1>1 DEF Shape, TranFields, Same
<1>0. WriteDone(t, h, o) = u
  BY DEF WriteDone, s, v
<1> HIDE DEF u
<1>6. Shape(u)
  BY <1>1, <1>2, <1>4, <1>5 DEF Shape, Same
<1>7. EntriesOk(u.socks, u.asked)
  <2>1. AllAsked(s.writes, h, t.asked, Puts \cup {"putf"}) /\ AllAsked(s.reads, h, t.asked, Gets \cup {"getf"})
    BY <1>1, <1>3, <1>4 DEF EntriesOk
  <2> QED BY <2>1, <1>1, <1>5 DEF EntriesOk, Same
<1>8. \A i \in 1 .. l : i = 1 \/ (i - 1 \in 1 .. l - 1 /\ v[i - 1] = w[i])
  BY <1>2
<1>9. ASSUME NEW m PROVE /\ m # n /\ Entry(t.socks[h], m) => Entry(s, m)
                         /\ m # n /\ Twice(t.socks[h], m) => Twice(s, m)
                         /\ Twice(t.socks[h], m) => Entry(s, m)
  <2>1. ASSUME NEW i \in 1 .. l, w[i].id = m, m # n PROVE i - 1 \in 1 .. Len(v) /\ v[i - 1].id = m
    BY <2>1, <1>2, <1>8
  <2>2. m # n /\ Entry(t.socks[h], m) => Entry(s, m)
    BY <2>1, <1>4 DEF Entry
  <2>3. ASSUME m # n, Twice(t.socks[h], m) PROVE Twice(s, m)
    <3>1. PICK i, j \in 1 .. l : i < j /\ w[i].id = m /\ w[j].id = m
      BY <2>3 DEF Twice
    <3>2. i - 1 < j - 1
      BY <3>1
    <3> QED BY <3>1, <3>2, <2>1, <2>3, <1>4 DEF Twice
  <2>4. ASSUME Twice(t.socks[h], m) PROVE Entry(s, m)
    <3>1. PICK i, j \in 1 .. l : i < j /\ w[i].id = m /\ w[j].id = m
      BY <2>4 DEF Twice
    <3>2. j - 1 \in 1 .. Len(v) /\ v[j - 1].id = m
      BY <3>1, <1>2, <1>8
    <3> QED BY <3>2, <1>4 DEF Entry
  <2> QED BY <2>2, <2>3, <2>4
<1>10. TranOk(u, {n})
  <2> HIDE DEF n, w
  <2> QED BY <1>4, <1>5, <1>6, <1>7, <1>9, OthersToCome
<1>11. u.requests = t.requests /\ u.threads = t.threads /\ u.asked = t.asked
  BY <1>5 DEF Same
<1>12. Twice(t.socks[h], n) => Entry(u.socks[h], n)
  BY <1>5, <1>9
<1> QED BY <1>3, <1>10, <1>11, <1>12, <1>0

LEMMA ReadTaken ==
  ASSUME NEW t, TranOk(t, {}), NEW h \in Sockets, t.socks[h].reads # << >>, NEW o
  PROVE  LET n == Head(t.socks[h].reads).id
             u == ReadDone(t, h, o)
         IN  /\ TranOk(u, {n}) /\ u.requests = t.requests /\ u.threads = t.threads /\ u.asked = t.asked
             /\ Asked(t.asked, h, n, Gets \cup {"getf"})
<1> DEFINE w == t.socks[h].reads
           v == Tail(w)
           n == Head(w).id
           s == [t.socks[h] EXCEPT !.reads = v, !.incoming = o]
           u == [t EXCEPT !.socks[h] = s]
           l == Len(w)
<1>1. Shape(t) /\ EntriesOk(t.socks, t.asked) /\ IsSeq(w) /\ DOMAIN t.socks[h] = SockFields
  BY DEF TranOk, Shape
<1>2. /\ IsSeq(v) /\ l \in Nat \ {0} /\ Len(v) = l - 1 /\ \A i \in 1 .. l - 1 : v[i] = w[i + 1]
      /\ n = w[1].id
  BY <1>1, TailIs
<1>3. AllAsked(v, h, t.asked, Gets \cup {"getf"}) /\ Asked(t.asked, h, n, Gets \cup {"getf"})
  <2>1. AllAsked(w, h, t.asked, Gets \cup {"getf"})
    BY <1>1 DEF EntriesOk
  <2> QED BY <2>1, <1>1, FewerAsked
<1> HIDE DEF v
<1>4. /\ DOMAIN s = SockFields /\ s.reads = v /\ s.writes = t.socks[h].writes /\ s.state = t.socks[h].state
  BY <1>1 DEF SockFields
<1> HIDE DEF s
<1>5. /\ DOMAIN u = TranFields /\ Same(t, u)
      /\ DOMAIN u.socks = Sockets /\ u.socks[h] = s
      /\ \A g \in Sockets : g # h => u.socks[g] = t.socks[g]
  BY <1>1 DEF Shape, TranFields, Same
<1>0. ReadDone(t, h, o) = u
  BY DEF ReadDone, s, v
<1> HIDE DEF u
<1>6. Shape(u)
  BY <1>1, <1>2, <1>4, <1>5 DEF Shape, Same
<1>7. EntriesOk(u.socks, u.asked)
  <2>1. AllAsked(s.writes, h, t.asked, Puts \cup {"putf"}) /\ AllAsked(s.reads, h, t.asked, Gets \cup {"getf"})
    BY <1>1, <1>3, <1>4 DEF EntriesOk
  <2> QED BY <2>1, <1>1, <1>5 DEF EntriesOk, Same
<1>8. \A i \in 1 .. l : i = 1 \/ (i - 1 \in 1 .. l - 1 /\ v[i - 1] = w[i])
  BY <1>2
<1>9. ASSUME NEW m PROVE /\ m # n /\ Entry(t.socks[h], m) => Entry(s, m)
                         /\ Twice(t.socks[h], m) => Twice(s, m)
  <2>1. ASSUME NEW i \in 1 .. l, w[i].id = m, m # n PROVE i - 1 \in 1 .. Len(v) /\ v[i - 1].id = m
    BY <2>1, <1>2, <1>8
  <2>2. m # n /\ Entry(t.socks[h], m) => Entry(s, m)
    BY <2>1, <1>4 DEF Entry
  <2>3. Twice(t.socks[h], m) => Twice(s, m)
    BY <1>4 DEF Twice
  <2> QED BY <2>2, <2>3
<1>10. TranOk(u, {n})
  <2> HIDE DEF n, w
  <2> QED BY <1>4, <1>5, <1>6, <1>7, <1>9, OthersToCome
<1>11. u.requests = t.requests /\ u.threads = t.threads /\ u.asked = t.asked
  BY <1>5 DEF Same
<1> QED BY <1>3, <1>10, <1>11, <1>0
(* Who asked is known by the number: what the answer is for.                *)
LEMMA AskedFor ==
  ASSUME NEW t, Shape(t), RequestsOk(t.requests, t.asked), NEW r \in t.requests, NEW h
  PROVE  /\ Asked(t.asked, h, r.id, Puts \cup {"putf"}) =>
              /\ r.sending /\ r.handle = h
              /\ AnswerOk(t.asked, r.id, IF r.huge THEN "puth_ok" ELSE "putb_ok")
         /\ Asked(t.asked, h, r.id, Gets \cup {"getf"}) =>
              /\ ~r.sending /\ r.handle = h
              /\ AnswerOk(t.asked, r.id, IF r.huge THEN "geth_ok" ELSE "getb_ok")
         /\ AnswerOk(t.asked, r.id, "error") /\ AnswerOk(t.asked, r.id, "closed")
<1> DEFINE k == t.asked[r.id].kind
<1>1. /\ r.id \in 1 .. Len(t.asked) /\ k \in BlockKinds /\ r.handle = t.asked[r.id].socket
      /\ r.sending <=> k \in Puts
      /\ r.huge <=> k \in Huge
      /\ r.sending \in BOOLEAN /\ r.huge \in BOOLEAN
  BY DEF RequestsOk
<1> HIDE DEF k
<1>2. k \in Transfers
  BY <1>1 DEF Transfers
<1>3. /\ k \in {"putb", "puth", "getb", "geth"} /\ (k \in Puts <=> k \in {"putb", "puth"})
      /\ (k \in Gets <=> k \in {"getb", "geth"}) /\ (k \in Huge <=> k \in {"puth", "geth"})
  BY <1>1 DEF BlockKinds, Puts, Gets, Huge
<1>4. OkOf[k] = CASE k = "putb" -> "putb_ok" [] k = "puth" -> "puth_ok" [] k = "getb" -> "getb_ok" [] k = "geth" -> "geth_ok"
  BY <1>3 DEF OkOf
<1>5. Asked(t.asked, h, r.id, Puts \cup {"putf"}) =>
        k \in Puts /\ r.handle = h /\ OkOf[k] = IF r.huge THEN "puth_ok" ELSE "putb_ok"
  BY <1>1, <1>3, <1>4 DEF Asked, k
<1>6. Asked(t.asked, h, r.id, Gets \cup {"getf"}) =>
        k \in Gets /\ ~(k \in Puts) /\ r.handle = h /\ OkOf[k] = IF r.huge THEN "geth_ok" ELSE "getb_ok"
  BY <1>1, <1>3, <1>4 DEF Asked, k
<1> QED BY <1>1, <1>2, <1>5, <1>6 DEF AnswerOk, k

(* That request is answered or asks again, after a write and after a read.   *)
LEMMA AfterWriteKeeps ==
  ASSUME NEW t, NEW n, TranOk(t, {n}), ThreadOf(t, n) = {}, NEW h,
         Asked(t.asked, h, n, Puts \cup {"putf"}),
         \A r \in t.requests : r.id = n /\ r.pipe = NULL /\ r.in_progress /\ r.in_header => Entry(t.socks[h], n)
  PROVE  TranOk(update_request_after_write(t, n), {})
<1> DEFINE r == Found(t, n)
           u == update_request_after_write(t, n)
<1>1. Shape(t) /\ RequestsOk(t.requests, t.asked)
  BY DEF TranOk
<1>2. CASE request_lookup(t, n) = {}
  <2>1. u = t
    BY <1>2 DEF update_request_after_write
  <2>2. n \notin Waits(t)
    BY <1>2 DEF Waits, ThreadOf, request_lookup
  <2>3. TranOk(t, {})
    BY <2>2, OutLess
  <2> QED BY <2>1, <2>3
<1>3. CASE request_lookup(t, n) # {} /\ r.in_header
  <2> DEFINE q == [r EXCEPT !.in_header = FALSE]
  <2>1. u = Become(t, r, q)
    BY <1>3 DEF update_request_after_write
  <2>2. r \in t.requests /\ r.id = n
    BY <1>1, <1>3, FoundIs
  <2> HIDE DEF r, u
  <2>3. r.handle = h
    BY <1>1, <2>2, AskedFor
  <2>4. Follows(t, r, q)
    BY <1>1, <1>3, <2>2, <2>3, RequestIs DEF Follows, Shape, RequestFields, r
  <2>5. TranOk(t, {r.id})
    BY <2>2
  <2> HIDE DEF q
  <2>6. TranOk(Become(t, r, q), {})
    BY <2>2, <2>4, <2>5, RequestMoves
  <2> QED BY <2>1, <2>6 DEF u
<1>4. CASE request_lookup(t, n) # {} /\ ~r.in_header
  <2>1. PICK kind : kind = IF r.huge THEN "puth_ok" ELSE "putb_ok"
    OBVIOUS
  <2>2. u = request_destroy(Answer(t, n, kind, << >>), n)
    BY <1>4, <2>1 DEF update_request_after_write
  <2>3. r \in t.requests /\ r.id = n
    BY <1>1, <1>4, FoundIs
  <2>4. PICK p : p = r
    OBVIOUS
  <2> HIDE DEF r, u
  <2>5. AnswerOk(t.asked, p.id, kind)
    BY <1>1, <2>1, <2>3, <2>4, AskedFor
  <2>6. PICK data, w : data = << >> /\ w = request_destroy(Answer(t, p.id, kind, data), p.id)
    OBVIOUS
  <2>7. p \in t.requests /\ p.id = n /\ w = u
    BY <2>2, <2>3, <2>4, <2>6
  <2>8. TranOk(w, {n}) /\ Waits(w) = Waits(t) \ {p.id}
    <3>1. PICK o : o = {n}
      OBVIOUS
    <3>2. TranOk(t, o) /\ p \in t.requests
      BY <2>7, <3>1
    <3>3. TranOk(w, o) /\ Waits(w) = Waits(t) \ {p.id}
      <4>1. w = request_destroy(Answer(t, p.id, kind, data), p.id)
        BY <2>6
      <4>2. LET v == request_destroy(Answer(t, p.id, kind, data), p.id)
            IN  TranOk(v, o) /\ Waits(v) = Waits(t) \ {p.id} /\ v.socks = t.socks /\ v.asked = t.asked
        BY ONLY <2>5, <3>2, RequestAnswered
      <4> QED BY ONLY <4>1, <4>2
    <3> QED BY <3>1, <3>3
  <2>9. TranOk(w, {})
    BY <2>7, <2>8, OutLess
  <2> QED BY <2>7, <2>9 DEF u
<1> QED BY <1>2, <1>3, <1>4

LEMMA AfterReadKeeps ==
  ASSUME NEW t, NEW n, TranOk(t, {n}), ThreadOf(t, n) = {}, NEW h,
         Asked(t.asked, h, n, Gets \cup {"getf"}), NEW units
  PROVE  TranOk(update_request_after_read(t, n, units), {})
<1> DEFINE r == Found(t, n)
           u == update_request_after_read(t, n, units)
<1>1. Shape(t) /\ RequestsOk(t.requests, t.asked)
  BY DEF TranOk
<1>2. CASE request_lookup(t, n) = {}
  <2>1. u = t
    BY <1>2 DEF update_request_after_read
  <2>2. n \notin Waits(t)
    BY <1>2 DEF Waits, ThreadOf, request_lookup
  <2>3. TranOk(t, {})
    BY <2>2, OutLess
  <2> QED BY <2>1, <2>3
<1>3. CASE request_lookup(t, n) # {} /\ r.in_header
  <2> DEFINE q == [r EXCEPT !.size = units[1].size, !.in_header = FALSE, !.in_progress = FALSE]
  <2>1. u = Become(t, r, q)
    BY <1>3 DEF update_request_after_read
  <2>2. r \in t.requests /\ r.id = n
    BY <1>1, <1>3, FoundIs
  <2> HIDE DEF r, u
  <2>3. Follows(t, r, q)
    BY <1>1, <2>2 DEF Follows, Shape, RequestFields
  <2>4. TranOk(t, {r.id})
    BY <2>2
  <2> HIDE DEF q
  <2>5. TranOk(Become(t, r, q), {})
    BY <2>2, <2>3, <2>4, RequestMoves
  <2> QED BY <2>1, <2>5 DEF u
<1>4. CASE request_lookup(t, n) # {} /\ ~r.in_header
  <2>1. PICK kind : kind = IF r.huge THEN "geth_ok" ELSE "getb_ok"
    OBVIOUS
  <2>2. u = request_destroy(Answer(t, n, kind, units), n)
    BY <1>4, <2>1 DEF update_request_after_read
  <2>3. r \in t.requests /\ r.id = n
    BY <1>1, <1>4, FoundIs
  <2>4. PICK p : p = r
    OBVIOUS
  <2> HIDE DEF r, u
  <2>5. AnswerOk(t.asked, p.id, kind)
    BY <1>1, <2>1, <2>3, <2>4, AskedFor
  <2>6. PICK w : w = request_destroy(Answer(t, p.id, kind, units), p.id)
    OBVIOUS
  <2>7. p \in t.requests /\ p.id = n /\ w = u
    BY <2>2, <2>3, <2>4, <2>6
  <2>8. TranOk(w, {n}) /\ Waits(w) = Waits(t) \ {p.id}
    <3>1. PICK o : o = {n}
      OBVIOUS
    <3>2. TranOk(t, o) /\ p \in t.requests
      BY <2>7, <3>1
    <3>3. TranOk(w, o) /\ Waits(w) = Waits(t) \ {p.id}
      BY ONLY <2>5, <2>6, <3>2, RequestAnswered
    <3> QED BY <3>1, <3>3
  <2>9. TranOk(w, {})
    BY <2>7, <2>8, OutLess
  <2> QED BY <2>7, <2>9 DEF u
<1> QED BY <1>2, <1>3, <1>4

-----------------------------------------------------------------------------
(* Files.                                                                   *)
LEMMA FileIs ==
  ASSUME NEW t, Shape(t), ThreadsOk(t.threads, t.asked), NEW k \in Running(t)
  PROVE  LET f == t.threads[k]
         IN  /\ f.handle \in Sockets /\ DOMAIN f = FileFields /\ f.kind \in FileKinds
             /\ AnswerOk(t.asked, f.id, "error") /\ AnswerOk(t.asked, f.id, "closed")
             /\ f.kind = "putf" => AnswerOk(t.asked, f.id, "putf_ok") /\ Asked(t.asked, f.handle, f.id, Puts \cup {"putf"})
             /\ f.kind = "getf" => AnswerOk(t.asked, f.id, "getf_ok") /\ Asked(t.asked, f.handle, f.id, Gets \cup {"getf"})
             /\ \A h : Asked(t.asked, h, f.id, Puts \cup {"putf"}) => f.kind = "putf" /\ f.handle = h
             /\ \A h : Asked(t.asked, h, f.id, Gets \cup {"getf"}) => f.kind = "getf" /\ f.handle = h
             /\ \A r \in t.requests : RequestsOk(t.requests, t.asked) => r.id # f.id
<1> DEFINE f == t.threads[k]
<1>1. k \in 1 .. Len(t.threads) /\ f.id # 0
  BY RunningIs
<1>2. /\ f.id \in 1 .. Len(t.asked) /\ t.asked[f.id].kind \in FileKinds
      /\ f.kind = t.asked[f.id].kind /\ f.handle = t.asked[f.id].socket /\ DOMAIN f = FileFields
  BY <1>1 DEF ThreadsOk, Shape
<1> HIDE DEF f
<1>3. f.handle \in Sockets
  BY <1>2 DEF Shape, Good, Transfers
<1>4. f.kind = "putf" \/ f.kind = "getf"
  BY <1>2 DEF FileKinds
<1>5. f.kind \notin Puts \cup Gets
  BY <1>4 DEF Puts, Gets
<1>6. OkOf["putf"] = "putf_ok" /\ OkOf["getf"] = "getf_ok"
  BY DEF OkOf
<1>7. AnswerOk(t.asked, f.id, "error") /\ AnswerOk(t.asked, f.id, "closed")
  BY <1>2 DEF AnswerOk, Transfers
<1>8. f.kind = "putf" => AnswerOk(t.asked, f.id, "putf_ok") /\ Asked(t.asked, f.handle, f.id, Puts \cup {"putf"})
  BY <1>2, <1>6 DEF AnswerOk, Asked, Transfers
<1>9. f.kind = "getf" => AnswerOk(t.asked, f.id, "getf_ok") /\ Asked(t.asked, f.handle, f.id, Gets \cup {"getf"})
  BY <1>2, <1>6 DEF AnswerOk, Asked, Transfers
<1>10. \A h : Asked(t.asked, h, f.id, Puts \cup {"putf"}) => f.kind = "putf" /\ f.handle = h
  BY <1>2, <1>5 DEF Asked
<1>11. \A h : Asked(t.asked, h, f.id, Gets \cup {"getf"}) => f.kind = "getf" /\ f.handle = h
  BY <1>2, <1>5 DEF Asked
<1>12. \A r \in t.requests : RequestsOk(t.requests, t.asked) => r.id # f.id
  BY WaitsApart DEF f
<1> QED BY <1>2, <1>3, <1>4, <1>7, <1>8, <1>9, <1>10, <1>11, <1>12 DEF f

(* One who had nothing to come has again.                                   *)
LEMMA QueuedKeeps ==
  ASSUME NEW t, NEW k \in Running(t), TranOk(t, {t.threads[k].id}), NEW u, Queued(t, u),
         Entry(u.socks[t.threads[k].handle], t.threads[k].id)
  PROVE  TranOk(u, {})
<1> DEFINE n == t.threads[k].id
<1>1. /\ Shape(t) /\ RequestsOk(t.requests, t.asked) /\ ThreadsOk(t.threads, t.asked) /\ EntriesOk(t.socks, t.asked)
      /\ AnswersOk(t.answers, t.asked, Waits(t)) /\ CommitsOk(t.answers, t.asked, Waits(t), t.commit)
      /\ LostOk(t.answers, t.asked, Waits(t), t.socks)
      /\ CountOk(t.threads, t.fileio_threads)
      /\ RequestsToCome(t.requests, t.socks, {n}) /\ ThreadsToCome(t.threads, t.socks, {n})
  BY DEF TranOk
<1>2. Waits(u) = Waits(t)
  BY DEF Queued, Same, Waits, Running
<1>3. LostOk(t.answers, t.asked, Waits(t), u.socks)
  <2>1. \A m \in 1 .. Len(t.asked) : t.asked[m].kind \in BlockKinds => t.asked[m].socket \in Sockets
    BY <1>1 DEF Shape, Good, Transfers
  <2> QED BY <2>1, <1>1 DEF LostOk, Queued, Grows
<1>4. RequestsToCome(t.requests, u.socks, {n}) /\ ThreadsToCome(t.threads, u.socks, {n})
  <2>1. Good(t.asked) /\ Grows(t.socks, u.socks)
    BY <1>1 DEF Shape, Queued
  <2> HIDE DEF n
  <2> QED BY <1>1, <2>1, ToComeOn
<1>5. RequestsToCome(t.requests, u.socks, {})
  <2>1. \A r \in t.requests : r.id # n
    BY <1>1, WaitsApart
  <2> QED BY <2>1, <1>4 DEF RequestsToCome
<1>6. ThreadsToCome(t.threads, u.socks, {})
  <2>1. \A i \in 1 .. Len(t.threads) : t.threads[i].id = n => i = k
    BY <1>1, RunningIs DEF ThreadsOk
  <2> QED BY <2>1, <1>4 DEF ThreadsToCome
<1> QED BY <1>1, <1>2, <1>3, <1>5, <1>6 DEF TranOk, Queued, Same

(* And a thread queues its next block, or ends.                              *)
LEMMA SendBufferKeeps ==
  ASSUME NEW t, NEW k \in Running(t), TranOk(t, {t.threads[k].id}), t.threads[k].kind = "putf"
  PROVE  TranOk(SendBuffer(t, k), {})
<1> DEFINE f == t.threads[k]
           n == f.id
<1>1. Shape(t) /\ ThreadsOk(t.threads, t.asked)
  BY DEF TranOk
<1>2. /\ f.handle \in Sockets /\ DOMAIN f = FileFields /\ AnswerOk(t.asked, n, "putf_ok")
      /\ Asked(t.asked, f.handle, n, Puts \cup {"putf"})
  BY <1>1, FileIs
<1>3. \/ SendBuffer(t, k) = Done(t, k, "putf_ok", <<f.filesize>>)
      \/ \E a, b, text : SendBuffer(t, k) = Write([t EXCEPT !.threads[k] = [f EXCEPT !.at = a, !.filesize = b]],
                                                 f.handle, f.id, text)
  BY DEF SendBuffer
<1>4. CASE SendBuffer(t, k) = Done(t, k, "putf_ok", <<f.filesize>>)
  <2> DEFINE u == Done(t, k, "putf_ok", <<f.filesize>>)
  <2>1. TranOk(u, {n}) /\ Waits(u) = Waits(t) \ {n}
    BY <1>2, FileAnswered
  <2> HIDE DEF u, n
  <2>2. TranOk(u, {})
    BY <2>1, OutLess
  <2> QED BY <2>2, <1>4 DEF u
<1>5. ASSUME NEW a, NEW b, NEW text,
             SendBuffer(t, k) = Write([t EXCEPT !.threads[k] = [f EXCEPT !.at = a, !.filesize = b]], f.handle, f.id, text)
      PROVE  TranOk(SendBuffer(t, k), {})
  <2>0. PICK g : g = [f EXCEPT !.at = a, !.filesize = b]
    OBVIOUS
  <2>1. PICK m : m = [t EXCEPT !.threads[k] = g]
    OBVIOUS
  <2>2. Moves(t, m, k, g)
    BY <1>1, <1>2, <2>0, <2>1 DEF Moves, Shape, TranFields, FileFields
  <2>3. TranOk(m, {n}) /\ Running(m) = Running(t) /\ m.threads[k].id = n /\ m.threads[k].handle = f.handle
    BY <2>2, ThreadMoves
  <2>4. m.asked = t.asked
    BY <2>2 DEF Moves
  <2>5. SendBuffer(t, k) = Write(m, f.handle, n, text)
    BY <1>5, <2>0, <2>1
  <2> DEFINE u == Write(m, f.handle, n, text)
  <2>6. Shape(m) /\ EntriesOk(m.socks, m.asked)
    BY <2>3 DEF TranOk
  <2>7. Queued(m, u) /\ Entry(u.socks[f.handle], n)
    <3> HIDE DEF f, n
    <3> QED BY <2>4, <2>6, <1>2, WriteGrows
  <2> HIDE DEF u
  <2>8. TranOk(u, {})
    BY <2>3, <2>7, QueuedKeeps
  <2> QED BY <2>5, <2>8 DEF u
<1> QED BY <1>3, <1>4, <1>5

LEMMA GetBufferKeeps ==
  ASSUME NEW t, NEW k \in Running(t), TranOk(t, {t.threads[k].id}), t.threads[k].kind = "getf"
  PROVE  TranOk(GetBuffer(t, k), {})
<1> DEFINE f == t.threads[k]
           n == f.id
           u == Read(t, f.handle, n, 1, BUFFER_SIZE)
<1>1. Shape(t) /\ ThreadsOk(t.threads, t.asked) /\ EntriesOk(t.socks, t.asked)
  BY DEF TranOk
<1>2. f.handle \in Sockets /\ Asked(t.asked, f.handle, n, Gets \cup {"getf"})
  BY <1>1, FileIs
<1>3. Queued(t, u) /\ Entry(u.socks[f.handle], n)
  <2> HIDE DEF f, n
  <2> QED BY <1>1, <1>2, ReadGrows
<1>4. GetBuffer(t, k) = u
  BY DEF GetBuffer
<1> HIDE DEF u
<1>5. TranOk(u, {})
  BY <1>3, QueuedKeeps
<1> QED BY <1>4, <1>5

LEMMA ReceivedKeeps ==
  ASSUME NEW t, NEW k \in Running(t), TranOk(t, {t.threads[k].id}), t.threads[k].kind = "getf", NEW units
  PROVE  TranOk(GetBuffer(write_file_data_buffer(t, k, units), k), {})
<1> DEFINE f == t.threads[k]
           u == write_file_data_buffer(t, k, units)
<1>1. Shape(t) /\ ThreadsOk(t.threads, t.asked) /\ DOMAIN f = FileFields
  BY FileIs DEF TranOk
<1>2. \E b, d : u = [[t EXCEPT !.threads = [t.threads EXCEPT ![k] = [f EXCEPT !.filesize = b]]] EXCEPT !.disk = d]
  <2>1. [t EXCEPT !.threads = 0].disk = t.disk
    BY <1>1 DEF Shape, TranFields
  <2> QED BY <1>1 DEF write_file_data_buffer, Shape, TranFields
<1>3. PICK b, d : u = [[t EXCEPT !.threads = [t.threads EXCEPT ![k] = [f EXCEPT !.filesize = b]]] EXCEPT !.disk = d]
  BY <1>2
<1>4. PICK g : g = [f EXCEPT !.filesize = b]
  OBVIOUS
<1> HIDE DEF u
<1>5. Moves(t, u, k, g)
  BY <1>1, <1>3, <1>4 DEF Moves, Shape, TranFields, FileFields
<1>6. /\ TranOk(u, {f.id}) /\ Running(u) = Running(t) /\ u.threads[k].id = f.id
      /\ u.threads[k].kind = "getf"
  BY <1>5, ThreadMoves
<1>7. TranOk(GetBuffer(u, k), {})
  BY <1>6, GetBufferKeeps
<1> QED BY <1>7 DEF u

-----------------------------------------------------------------------------
(* The end of a socket: one after the other is answered.                    *)
LEMMA EndingIs ==
  ASSUME NEW t, NEW all, Len(all) \in Nat, NEW how
  PROVE  /\ Ending(t, all, how)[0] = t
         /\ \A n \in 1 .. Len(all) : Ending(t, all, how)[n] = Ended(Ending(t, all, how)[n - 1], all[n].id, how)
<1> DEFINE l == Len(all)
           Step(b, n) == IF n = 0 THEN t ELSE Ended(b[n - 1], all[n].id, how)
           Are(b, m) == b = [n \in 0 .. m |-> Step(b, n)]
           Some == {m \in Nat : \E b : Are(b, m)}
<1>1. 0 \in Some
  <2> DEFINE k0 == [n \in 0 .. 0 |-> t]
  <2>1. Are(k0, 0)
    OBVIOUS
  <2> QED BY <2>1
<1>2. ASSUME NEW m \in 0 .. l - 1, m \in Some PROVE m + 1 \in Some
  <2>1. PICK k : Are(k, m)
    BY <1>2
  <2> DEFINE c == [n \in 0 .. m + 1 |-> IF n = m + 1 THEN Ended(k[m], all[n].id, how) ELSE k[n]]
  <2>2. \A n \in 0 .. m + 1 : c[n] = Step(c, n)
    <3>1. ASSUME NEW n \in 0 .. m PROVE c[n] = Step(c, n)
      <4>1. c[n] = Step(k, n)
        BY <2>1
      <4>2. n # 0 => c[n - 1] = k[n - 1]
        OBVIOUS
      <4> QED BY <4>1, <4>2
    <3>2. c[m + 1] = Step(c, m + 1)
      OBVIOUS
    <3>3. \A n \in 0 .. m + 1 : n \in 0 .. m \/ n = m + 1
      OBVIOUS
    <3> HIDE DEF c, Step
    <3> QED BY <3>1, <3>2, <3>3
  <2>3. Are(c, m + 1)
    <3>1. c = [n \in 0 .. m + 1 |-> c[n]]
      OBVIOUS
    <3> HIDE DEF c, Step
    <3> QED BY <2>2, <3>1
  <2>4. m + 1 \in Nat
    OBVIOUS
  <2> HIDE DEF Are, c
  <2> QED BY <2>3, <2>4
<1>3. l \in Some
  <2>1. l \in Nat /\ l \in 0 .. l
    OBVIOUS
  <2> HIDE DEF Some, l
  <2> QED BY <1>1, <1>2, <2>1, UpTo
<1>4. Are(Ending(t, all, how), l)
  <2>1. PICK k : Are(k, l)
    BY <1>3
  <2>2. Ending(t, all, how) = CHOOSE b : Are(b, l)
    BY DEF Ending
  <2> HIDE DEF Are
  <2> QED BY <2>1, <2>2
<1> DEFINE s == Ending(t, all, how)
<1>5. \A n \in 0 .. l : s[n] = Step(s, n)
  <2>1. s = [n \in 0 .. l |-> Step(s, n)]
    BY <1>4
  <2> HIDE DEF s, l, Step
  <2> QED BY <2>1
<1>6. 0 \in 0 .. l /\ \A n \in 1 .. l : n \in 0 .. l /\ n # 0
  OBVIOUS
<1> HIDE DEF s, l
<1>7. s[0] = t /\ \A n \in 1 .. l : s[n] = Ended(s[n - 1], all[n].id, how)
  BY <1>5, <1>6
<1> QED BY <1>7 DEF s, l

(* One of them.                                                             *)
Over(t, u, n, out) ==
  TranOk(u, out) /\ n \notin Waits(u) /\ Waits(u) \subseteq Waits(t) /\ u.socks = t.socks /\ u.asked = t.asked

(* A socket that closes or fails answers each of its entries.                *)
LEMMA EndedKeeps ==
  ASSUME NEW t, NEW out, TranOk(t, out), NEW n, NEW h, Asked(t.asked, h, n, Transfers),
         NEW how \in {"closed", "error"}, t.socks[h].state = how
  PROVE  Over(t, Ended(t, n, how), n, out)
<1> DEFINE u == Ended(t, n, how)
<1>1. Shape(t) /\ RequestsOk(t.requests, t.asked) /\ ThreadsOk(t.threads, t.asked)
  BY DEF TranOk
<1>2. CASE ThreadOf(t, n) = {} /\ request_lookup(t, n) = {}
  <2>1. u = t
    BY <1>2 DEF Ended, update_request_after_closed, update_request_after_error
  <2>2. n \notin Waits(t)
    BY <1>2 DEF Waits, ThreadOf, request_lookup
  <2> HIDE DEF u
  <2> QED BY <2>1, <2>2 DEF Over, u
<1>3. CASE ThreadOf(t, n) = {} /\ request_lookup(t, n) # {}
  <2>1. PICK r : r = Found(t, n)
    OBVIOUS
  <2>2. r \in t.requests /\ r.id = n
    BY <1>1, <1>3, <2>1, FoundIs
  <2>3. r.handle = h /\ AnswerOk(t.asked, r.id, "error")
    <3>1. r.handle = t.asked[r.id].socket
      BY <1>1, <2>2 DEF RequestsOk
    <3>2. r.handle = h
      BY <3>1, <2>2 DEF Asked
    <3>3. AnswerOk(t.asked, r.id, "error")
      BY <1>1, <2>2, AskedFor
    <3> QED BY <3>2, <3>3
  <2>4. CASE how = "closed"
    <3>1. u = destroy_socket_requests(Answer(t, r.id, "closed", << >>), r.handle)
      BY <1>3, <2>1, <2>2, <2>4 DEF Ended, update_request_after_closed
    <3> HIDE DEF u
    <3>2. t.socks[r.handle].state = "closed"
      BY <2>3, <2>4
    <3>3. TranOk(u, out) /\ Waits(u) \subseteq Waits(t) \ {r.id} /\ u.socks = t.socks /\ u.asked = t.asked
      BY ONLY TranOk(t, out), <2>2, <3>1, <3>2, SocketAnswered
    <3> QED BY <2>2, <3>3 DEF Over, u
  <2>5. CASE how = "error"
    <3>0. PICK data, error : data = << >> /\ error = "error"
      OBVIOUS
    <3>1. u = request_destroy(Answer(t, r.id, error, data), r.id)
      BY <1>3, <2>1, <2>2, <2>5, <3>0 DEF Ended, update_request_after_error, Raise
    <3>2. LET v == request_destroy(Answer(t, r.id, error, data), r.id)
          IN  TranOk(v, out) /\ Waits(v) = Waits(t) \ {r.id} /\ v.socks = t.socks /\ v.asked = t.asked
      <4>1. AnswerOk(t.asked, r.id, error)
        BY <2>3, <3>0
      <4>2. r \in t.requests
        BY <2>2
      <4> QED BY ONLY TranOk(t, out), <4>1, <4>2, RequestAnswered
    <3> HIDE DEF u
    <3> QED BY <2>2, <3>1, <3>2 DEF Over, u
  <2> QED BY <2>4, <2>5
<1>4. CASE ThreadOf(t, n) # {}
  <2>1. PICK k : k = CHOOSE j \in ThreadOf(t, n) : TRUE
    OBVIOUS
  <2>2. k \in Running(t) /\ t.threads[k].id = n
    BY <1>4, <2>1 DEF ThreadOf
  <2>3. \E kind, data : u = Done(t, k, kind, data) /\ AnswerOk(t.asked, t.threads[k].id, kind)
    <3>1. /\ AnswerOk(t.asked, t.threads[k].id, "error") /\ AnswerOk(t.asked, t.threads[k].id, "closed")
          /\ t.threads[k].kind = "getf" => AnswerOk(t.asked, t.threads[k].id, "getf_ok")
      BY <1>1, <2>2, FileIs
    <3>2. CASE how = "closed" /\ t.threads[k].kind = "getf"
      <4>1. u = Done(t, k, "getf_ok", <<t.threads[k].filesize>>)
        BY <1>4, <2>1, <3>2 DEF Ended
      <4> HIDE DEF u
      <4> QED BY <3>1, <3>2, <4>1
    <3>3. CASE ~(how = "closed" /\ t.threads[k].kind = "getf")
      <4>1. u = Done(t, k, how, << >>)
        BY <1>4, <2>1, <3>3 DEF Ended
      <4>2. AnswerOk(t.asked, t.threads[k].id, how)
        BY <3>1
      <4> HIDE DEF u
      <4> QED BY <4>1, <4>2
    <3> QED BY <3>2, <3>3
  <2> HIDE DEF u
  <2>4. PICK kind, data : u = Done(t, k, kind, data) /\ AnswerOk(t.asked, t.threads[k].id, kind)
    BY <2>3
  <2>5. LET v == Done(t, k, kind, data)
        IN  TranOk(v, out) /\ Waits(v) = Waits(t) \ {t.threads[k].id} /\ v.socks = t.socks /\ v.asked = t.asked
    BY ONLY TranOk(t, out), <2>2, <2>4, FileAnswered
  <2> QED BY <2>2, <2>4, <2>5 DEF Over, u
<1> QED BY <1>2, <1>3, <1>4

(* The lists of the socket are taken away first.                            *)
Emptied(t, h, how) == [t EXCEPT !.socks[h] = [@ EXCEPT !.state = how, !.writes = << >>, !.reads = << >>]]

(* Its lists are emptied first: whoever had an entry may have nothing to     *)
(* come.                                                                     *)
LEMMA Cleared ==
  ASSUME NEW t, TranOk(t, {}), NEW h \in Sockets, NEW how \in {"closed", "error"},
         t.socks[h].state \in {"open", how}, NEW out, \A m : Entry(t.socks[h], m) => m \in out
  PROVE  LET u == Emptied(t, h, how)
         IN  TranOk(u, out) /\ u.asked = t.asked /\ u.socks[h].state = how
<1> DEFINE s == [t.socks[h] EXCEPT !.state = how, !.writes = << >>, !.reads = << >>]
           u == [t EXCEPT !.socks = [t.socks EXCEPT ![h] = s]]
<1>1. /\ Shape(t) /\ RequestsOk(t.requests, t.asked) /\ ThreadsOk(t.threads, t.asked) /\ EntriesOk(t.socks, t.asked)
      /\ AnswersOk(t.answers, t.asked, Waits(t)) /\ CommitsOk(t.answers, t.asked, Waits(t), t.commit)
      /\ LostOk(t.answers, t.asked, Waits(t), t.socks)
      /\ CountOk(t.threads, t.fileio_threads)
      /\ RequestsToCome(t.requests, t.socks, {}) /\ ThreadsToCome(t.threads, t.socks, {})
  BY DEF TranOk
<1>2. DOMAIN s = SockFields /\ s.state = how /\ s.writes = << >> /\ s.reads = << >>
  BY <1>1 DEF Shape, SockFields
<1>3. Emptied(t, h, how) = u
  BY DEF Emptied
<1> HIDE DEF s
<1>4. /\ DOMAIN u = TranFields /\ Same(t, u) /\ u.socks = [t.socks EXCEPT ![h] = s]
  BY <1>1 DEF Shape, TranFields, Same
<1> HIDE DEF u
<1>5. DOMAIN u.socks = Sockets /\ u.socks[h] = s /\ \A g \in Sockets : g # h => u.socks[g] = t.socks[g]
  BY <1>1, <1>4 DEF Shape
<1>6. Shape(u)
  BY <1>1, <1>2, <1>4, <1>5, EmptyIs DEF Shape, Same
<1>7. EntriesOk(u.socks, u.asked)
  <2>1. /\ AllAsked(s.writes, h, t.asked, Puts \cup {"putf"})
        /\ AllAsked(s.reads, h, t.asked, Gets \cup {"getf"})
    <3>1. Len(s.writes) = 0 /\ Len(s.reads) = 0
      BY <1>2, EmptyIs
    <3> QED BY <3>1 DEF AllAsked
  <2>2. u.asked = t.asked
    BY <1>4 DEF Same
  <2>3. ASSUME NEW g \in Sockets
        PROVE  /\ AllAsked(u.socks[g].writes, g, u.asked, Puts \cup {"putf"})
               /\ AllAsked(u.socks[g].reads, g, u.asked, Gets \cup {"getf"})
    <3>1. CASE g = h
      BY <1>5, <2>1, <2>2, <3>1
    <3>2. CASE g # h
      BY <1>1, <1>5, <2>2, <3>2 DEF EntriesOk
    <3> QED BY <3>1, <3>2
  <2> QED BY <2>3 DEF EntriesOk
<1>8. Waits(u) = Waits(t)
  BY <1>4 DEF Same, Waits, Running
<1>9. LostOk(u.answers, u.asked, Waits(u), u.socks)
  <2>1. \A n \in 1 .. Len(t.asked) : t.asked[n].kind \in BlockKinds => t.asked[n].socket \in Sockets
    BY <1>1 DEF Shape, Good, Transfers
  <2>2. \A g \in Sockets : t.socks[g].state = "closed" => u.socks[g].state = "closed"
    BY <1>2, <1>5
  <2> QED BY <2>1, <2>2, <1>1, <1>4, <1>8 DEF LostOk, Same
<1>10. RequestsToCome(u.requests, u.socks, out)
  <2>1. \A r \in t.requests : r.handle \in Sockets
    BY <1>1, RequestIs
  <2>2. \A g \in Sockets : \A m : m \notin out /\ Entry(t.socks[g], m) =>
          Entry(u.socks[g], m) /\ (Twice(t.socks[g], m) => Twice(u.socks[g], m))
    BY <1>5
  <2> QED BY <2>1, <2>2, <1>1, <1>4 DEF RequestsToCome, Same
<1>11. ThreadsToCome(u.threads, u.socks, out)
  <2>1. \A k \in 1 .. Len(t.threads) : t.threads[k].id # 0 => t.threads[k].handle \in Sockets
    BY <1>1, FileIs, RunningIs
  <2>2. \A g \in Sockets : \A m : m \notin out /\ Entry(t.socks[g], m) => Entry(u.socks[g], m)
    BY <1>5
  <2> QED BY <2>1, <2>2, <1>1, <1>4 DEF ThreadsToCome, Same
<1>12. TranOk(u, out)
  BY <1>1, <1>4, <1>6, <1>7, <1>8, <1>9, <1>10, <1>11 DEF TranOk, Same
<1> QED BY <1>2, <1>3, <1>4, <1>5, <1>12 DEF Same

(* At the end of the walk all of them are answered.                          *)
LEMMA EndKeeps ==
  ASSUME NEW t, TranOk(t, {}), NEW h \in Sockets, NEW how \in {"closed", "error"},
         t.socks[h].state \in {"open", how}
  PROVE  LET all == t.socks[h].writes \o t.socks[h].reads
             u   == [t EXCEPT !.socks[h] = [@ EXCEPT !.state = how, !.writes = << >>, !.reads = << >>]]
         IN  TranOk(Ending(u, all, how)[Len(all)], {})
<1>0. PICK all, u : /\ all = t.socks[h].writes \o t.socks[h].reads
                    /\ u = [t EXCEPT !.socks[h] = [@ EXCEPT !.state = how, !.writes = << >>, !.reads = << >>]]
  OBVIOUS
<1> DEFINE l == Len(all)
           e == Ending(u, all, how)
           out == {all[j].id : j \in 1 .. l}
           On(i) == /\ TranOk(e[i], out) /\ e[i].socks = u.socks /\ e[i].asked = u.asked
                    /\ \A j \in 1 .. i : all[j].id \notin Waits(e[i])
           Some == {i \in Nat : On(i)}
<1>1. /\ IsSeq(t.socks[h].writes) /\ IsSeq(t.socks[h].reads)
      /\ AllAsked(t.socks[h].writes, h, t.asked, Puts \cup {"putf"})
      /\ AllAsked(t.socks[h].reads, h, t.asked, Gets \cup {"getf"})
  BY DEF TranOk, Shape, EntriesOk
<1>2. /\ l \in Nat
      /\ \A j \in 1 .. l : Asked(t.asked, h, all[j].id, Transfers)
      /\ \A m : Entry(t.socks[h], m) => m \in out
  <2>0. PICK w, r : w = t.socks[h].writes /\ r = t.socks[h].reads
    OBVIOUS
  <2>1. all = w \o r
    BY <1>0, <2>0
  <2>2. /\ IsSeq(w \o r) /\ Len(w \o r) = Len(w) + Len(r) /\ Len(w) \in Nat /\ Len(r) \in Nat
        /\ \A i \in 1 .. Len(w) : (w \o r)[i] = w[i]
        /\ \A i \in 1 .. Len(r) : (w \o r)[Len(w) + i] = r[i]
    <3>1. IsSeq(w) /\ IsSeq(r)
      BY <1>1, <2>0
    <3> QED BY ONLY <3>1, ConcatIs
  <2>3. Puts \cup {"putf"} \subseteq Transfers /\ Gets \cup {"getf"} \subseteq Transfers
    BY DEF Transfers, BlockKinds, FileKinds
  <2>4. /\ \A i \in 1 .. Len(w) : Asked(t.asked, h, w[i].id, Transfers)
        /\ \A i \in 1 .. Len(r) : Asked(t.asked, h, r[i].id, Transfers)
    BY <1>1, <2>0, <2>3 DEF AllAsked, Asked
  <2>5. \A m : Entry(t.socks[h], m) => \/ \E i \in 1 .. Len(w) : w[i].id = m
                                       \/ \E i \in 1 .. Len(r) : r[i].id = m
    BY <2>0 DEF Entry
  <2>6. \A j \in 1 .. l : j \in 1 .. Len(w) \/ (j - Len(w) \in 1 .. Len(r) /\ j = Len(w) + (j - Len(w)))
    BY <2>1, <2>2
  <2>7. \A j \in 1 .. l : Asked(t.asked, h, all[j].id, Transfers)
    <3>1. \A i \in 1 .. Len(w) : all[i] = w[i]
      BY <2>1, <2>2
    <3>2. \A i \in 1 .. Len(r) : all[Len(w) + i] = r[i]
      BY <2>1, <2>2
    <3> HIDE DEF l
    <3> QED BY <2>4, <2>6, <3>1, <3>2
  <2>8. \A i \in 1 .. Len(w) : w[i].id \in out
    BY <2>1, <2>2
  <2>9. \A i \in 1 .. Len(r) : r[i].id \in out
    <3>1. \A i \in 1 .. Len(r) : Len(w) + i \in 1 .. l /\ all[Len(w) + i] = r[i]
      BY <2>1, <2>2
    <3> QED BY <3>1
  <2> HIDE DEF out
  <2>10. \A m : Entry(t.socks[h], m) => m \in out
    BY <2>5, <2>8, <2>9
  <2>11. l \in Nat
    BY <2>1, <2>2
  <2> QED BY <2>7, <2>10, <2>11
<1>3. TranOk(u, out) /\ u.asked = t.asked /\ u.socks[h].state = how
  <2>1. PICK o : o = out
    OBVIOUS
  <2>2. \A m : Entry(t.socks[h], m) => m \in o
    BY <1>2, <2>1
  <2>3. LET v == Emptied(t, h, how)
        IN  TranOk(v, o) /\ v.asked = t.asked /\ v.socks[h].state = how
    BY <2>2, Cleared
  <2>4. u = Emptied(t, h, how)
    BY <1>0 DEF Emptied
  <2> HIDE DEF out
  <2> QED BY <2>1, <2>3, <2>4
<1>4. e[0] = u /\ \A i \in 1 .. l : e[i] = Ended(e[i - 1], all[i].id, how)
  BY <1>2, EndingIs
<1> HIDE DEF e, l, out
<1>5. 0 \in Some
  <2>1. On(0)
    BY <1>3, <1>4
  <2> HIDE DEF On
  <2> QED BY <2>1
<1>6. ASSUME NEW m \in 0 .. l - 1, m \in Some PROVE m + 1 \in Some
  <2>0. PICK n : n = m + 1
    OBVIOUS
  <2>1. n \in 1 .. l /\ n \in Nat /\ n - 1 = m
    BY <1>2, <2>0
  <2>2. PICK v, w, id : v = e[m] /\ w = e[n] /\ id = all[n].id
    OBVIOUS
  <2>3. On(m)
    BY <1>6
  <2>4. w = Ended(v, id, how)
    BY <1>4, <2>1, <2>2
  <2>5. /\ TranOk(v, out) /\ v.socks = u.socks /\ v.asked = u.asked
        /\ \A j \in 1 .. m : all[j].id \notin Waits(v)
    BY <2>2, <2>3
  <2>6. Asked(v.asked, h, id, Transfers) /\ v.socks[h].state = how
    BY <1>2, <1>3, <2>1, <2>2, <2>5
  <2>7. Over(v, w, id, out)
    BY <2>4, <2>5, <2>6, EndedKeeps
  <2>8. \A j \in 1 .. n : all[j].id \notin Waits(w)
    <3>1. \A j \in 1 .. n : j \in 1 .. m \/ j = n
      BY <2>1
    <3> QED BY <2>2, <2>5, <2>7, <3>1 DEF Over
  <2>9. On(n)
    BY <2>2, <2>5, <2>7, <2>8 DEF Over
  <2> HIDE DEF On
  <2> QED BY <2>0, <2>1, <2>9
<1>7. 0 .. l \subseteq Some
  <2> HIDE DEF Some
  <2> QED BY <1>2, <1>5, <1>6, UpTo
<1>8. On(l)
  <2>1. l \in 0 .. l
    BY <1>2
  <2> HIDE DEF On
  <2> QED BY <1>7, <2>1
<1>9. TranOk(e[l], {})
  <2>1. PICK v : v = e[l]
    OBVIOUS
  <2>2. TranOk(v, out) /\ \A n \in Waits(v) : n \in out => n \in {}
    BY <1>8, <2>1 DEF out
  <2>3. TranOk(v, {})
    BY <2>2, OutLess
  <2> QED BY <2>1, <2>3
<1> QED BY <1>0, <1>9 DEF e, l

-----------------------------------------------------------------------------
(* Somebody asks.  Until a request or a thread is made the number n is of   *)
(* nobody.                                                                  *)
Unserved(t, n) ==
  /\ Shape(t)
  /\ RequestsOk(t.requests, t.asked) /\ ThreadsOk(t.threads, t.asked) /\ EntriesOk(t.socks, t.asked)
  /\ AnswersOk(t.answers, t.asked, Waits(t)) /\ CommitsOk(t.answers, t.asked, Waits(t), t.commit)
  /\ LostOk(t.answers, t.asked, Waits(t) \cup {n}, t.socks)
  /\ CountOk(t.threads, t.fileio_threads)
  /\ RequestsToCome(t.requests, t.socks, {}) /\ ThreadsToCome(t.threads, t.socks, {})
  /\ n \in Nat \ {0} /\ Len(t.asked) = n
  /\ n \notin Waits(t) /\ \A i \in 1 .. Len(t.answers) : t.answers[i].to \in 1 .. n - 1

AskedIs(t, n, a, kinds) == t.asked[n] = a /\ a.kind \in kinds

(* A new event is not yet served, and nobody has answered it.                *)
LEMMA AskIs ==
  ASSUME NEW t, TranOk(t, {}), t.plan # << >>
  PROVE  LET a == Head(t.plan)
             n == Len(t.asked) + 1
             u == [t EXCEPT !.asked = Append(@, a), !.plan = Tail(@)]
         IN  /\ Unserved(u, n) /\ u.asked[n] = a /\ a.kind \in Kinds
             /\ a.kind \in Transfers => a.socket \in Sockets
<1> DEFINE l == Len(t.asked)
           n == l + 1
<1>0. PICK a, A, P : a = Head(t.plan) /\ A = Append(t.asked, a) /\ P = Tail(t.plan)
  OBVIOUS
<1> DEFINE u == [t EXCEPT !.asked = A, !.plan = P]
<1>1. /\ Shape(t) /\ RequestsOk(t.requests, t.asked) /\ ThreadsOk(t.threads, t.asked) /\ EntriesOk(t.socks, t.asked)
      /\ AnswersOk(t.answers, t.asked, Waits(t)) /\ CommitsOk(t.answers, t.asked, Waits(t), t.commit)
      /\ LostOk(t.answers, t.asked, Waits(t), t.socks)
      /\ CountOk(t.threads, t.fileio_threads)
      /\ RequestsToCome(t.requests, t.socks, {}) /\ ThreadsToCome(t.threads, t.socks, {})
  BY DEF TranOk
<1>2. [t EXCEPT !.asked = Append(@, Head(t.plan)), !.plan = Tail(@)] = u
  BY <1>0
<1>3. /\ DOMAIN u = TranFields /\ u.plan = P /\ u.asked = A /\ u.answers = t.answers /\ u.requests = t.requests
      /\ u.pipes = t.pipes /\ u.commit = t.commit /\ u.fileio_threads = t.fileio_threads
      /\ u.threads = t.threads /\ u.socks = t.socks
  BY <1>1 DEF Shape, TranFields
<1> HIDE DEF u
<1>4. IsSeq(t.plan) /\ IsSeq(t.asked)
  BY <1>1 DEF Shape, Good
<1>5. /\ IsSeq(A) /\ l \in Nat /\ Len(A) = n
      /\ \A i \in 1 .. l : A[i] = t.asked[i]
      /\ A[n] = a
  BY <1>0, <1>4, AppendIs
<1>6. /\ IsSeq(P) /\ Len(t.plan) \in Nat \ {0} /\ Len(P) = Len(t.plan) - 1
      /\ \A i \in 1 .. Len(t.plan) - 1 : P[i] = t.plan[i + 1]
      /\ a = t.plan[1]
  BY <1>0, <1>4, TailIs
<1>7. a.kind \in Kinds /\ (a.kind \in Transfers => a.socket \in Sockets)
  BY <1>1, <1>6 DEF Shape, Good
<1> HIDE DEF l
<1>8. n \in Nat \ {0} /\ n - 1 = l /\ 1 .. l \subseteq 1 .. n /\ n \notin 1 .. l
      /\ \A i \in 1 .. n : i \in 1 .. l \/ i = n
  BY <1>5
<1>9. Good(A)
  <2>1. Good(t.asked)
    BY <1>1 DEF Shape
  <2> HIDE DEF n
  <2> QED BY <2>1, <1>5, <1>7, <1>8 DEF Good, l
<1>10. Good(P)
  <2>1. Good(t.plan)
    BY <1>1 DEF Shape
  <2>2. \A i \in 1 .. Len(P) : i + 1 \in 1 .. Len(t.plan) /\ P[i] = t.plan[i + 1]
    BY <1>6
  <2> QED BY <2>1, <2>2, <1>6 DEF Good
<1>11. Shape(u)
  BY <1>1, <1>3, <1>9, <1>10 DEF Shape
<1>12. Waits(u) = Waits(t) /\ \A m \in Waits(t) : m \in 1 .. l
  <2>1. Waits(u) = Waits(t)
    BY <1>3 DEF Waits, Running
  <2>2. \A m \in Waits(t) : m \in 1 .. l
    BY <1>1, WaitsApart DEF l
  <2> QED BY <2>1, <2>2
<1> HIDE DEF n
<1>13. RequestsOk(t.requests, A)
  BY <1>1, <1>5, <1>8 DEF RequestsOk, l
<1>14. ThreadsOk(t.threads, A)
  BY <1>1, <1>5, <1>8 DEF ThreadsOk, l
<1>15. EntriesOk(t.socks, A)
  <2>1. \A h, m, kinds : Asked(t.asked, h, m, kinds) => Asked(A, h, m, kinds)
    BY <1>5, <1>8 DEF Asked, l
  <2> QED BY <2>1, <1>1 DEF EntriesOk, AllAsked
<1>16. \A i \in 1 .. Len(t.answers) : t.answers[i].to \in 1 .. l
  BY <1>1 DEF AnswersOk, l
<1>17. AnswersOk(t.answers, A, Waits(t))
  BY <1>1, <1>5, <1>8, <1>16 DEF AnswersOk, l
<1>18. CommitsOk(t.answers, A, Waits(t), t.commit)
  <2>1. \A i \in 1 .. Len(t.answers) : \A m \in 1 .. t.answers[i].to - 1 : m \in 1 .. l
    BY <1>5, <1>16
  <2> QED BY <2>1, <1>1, <1>5, <1>8, <1>16 DEF CommitsOk, l
<1>19. LostOk(t.answers, A, Waits(t) \cup {n}, t.socks)
  <2>1. \A m \in 1 .. n : m \notin Waits(t) \cup {n} => m \in 1 .. l /\ m \notin Waits(t)
    BY <1>8
  <2>2. ASSUME NEW m \in 1 .. n, A[m].kind \in Transfers, ~Has(t.answers, m), m \notin Waits(t) \cup {n}
        PROVE  /\ A[m].kind \in BlockKinds /\ t.socks[A[m].socket].state = "closed"
               /\ \E i \in 1 .. Len(t.answers) :
                    LET k == t.answers[i].to
                    IN  /\ k \in 1 .. Len(A) /\ A[k].kind \in BlockKinds
                        /\ A[k].socket = A[m].socket /\ t.answers[i].kind = "closed"
    <3>1. m \in 1 .. l /\ m \notin Waits(t) /\ A[m] = t.asked[m]
      BY <2>1, <2>2, <1>5
    <3>2. /\ t.asked[m].kind \in BlockKinds /\ t.socks[t.asked[m].socket].state = "closed"
          /\ \E i \in 1 .. Len(t.answers) :
               LET k == t.answers[i].to
               IN  /\ k \in 1 .. l /\ t.asked[k].kind \in BlockKinds
                   /\ t.asked[k].socket = t.asked[m].socket /\ t.answers[i].kind = "closed"
      BY <1>1, <2>2, <3>1 DEF LostOk, l
    <3> QED BY <3>1, <3>2, <1>5, <1>8
  <2> QED BY <2>2, <1>5 DEF LostOk
<1>20. Unserved(u, n)
  BY <1>1, <1>3, <1>5, <1>8, <1>11, <1>12, <1>13, <1>14, <1>15, <1>16, <1>17, <1>18, <1>19 DEF Unserved
<1> QED BY <1>0, <1>2, <1>3, <1>5, <1>7, <1>20 DEF n, l

(* A block is asked for.                                                    *)
LEMMA RequestMade ==
  ASSUME NEW t, NEW n, Unserved(t, n), NEW a, AskedIs(t, n, a, BlockKinds)
  PROVE  TranOk(request_create(t, n, a), {})
<1>a. t.asked[n] = a /\ a.kind \in BlockKinds
  BY DEF AskedIs
<1> USE <1>a
<1>0. PICK q : q = [id |-> n, sending |-> a.kind \in Puts, huge |-> a.kind \in Huge, handle |-> a.socket,
                    size |-> a.size, in_header |-> TRUE, in_progress |-> FALSE,
                    pipe |-> IF t.pipes /= NULL /\ a.pipe \in t.pipes THEN a.pipe ELSE NULL]
  OBVIOUS
<1> DEFINE R == t.requests \cup {q}
           u == [t EXCEPT !.requests = R]
<1>1. /\ Shape(t) /\ RequestsOk(t.requests, t.asked) /\ ThreadsOk(t.threads, t.asked) /\ EntriesOk(t.socks, t.asked)
      /\ AnswersOk(t.answers, t.asked, Waits(t)) /\ CommitsOk(t.answers, t.asked, Waits(t), t.commit)
      /\ LostOk(t.answers, t.asked, Waits(t) \cup {n}, t.socks)
      /\ CountOk(t.threads, t.fileio_threads)
      /\ RequestsToCome(t.requests, t.socks, {}) /\ ThreadsToCome(t.threads, t.socks, {})
      /\ n \in Nat \ {0} /\ Len(t.asked) = n
      /\ n \notin Waits(t) /\ \A i \in 1 .. Len(t.answers) : t.answers[i].to \in 1 .. n - 1
  BY DEF Unserved
<1>2. request_create(t, n, a) = u
  BY <1>0 DEF request_create
<1>3. /\ DOMAIN q = RequestFields /\ q.id = n /\ (q.sending <=> a.kind \in Puts) /\ (q.huge <=> a.kind \in Huge)
      /\ q.handle = a.socket /\ q.in_header = TRUE /\ q.in_progress = FALSE
      /\ q.sending \in BOOLEAN /\ q.huge \in BOOLEAN
  <2>1. PICK b, c : b = (a.kind \in Puts) /\ c = (a.kind \in Huge)
    OBVIOUS
  <2>2. q = [id |-> n, sending |-> b, huge |-> c, handle |-> a.socket,
             size |-> a.size, in_header |-> TRUE, in_progress |-> FALSE,
             pipe |-> IF t.pipes /= NULL /\ a.pipe \in t.pipes THEN a.pipe ELSE NULL]
    BY <1>0, <2>1
  <2>3. /\ DOMAIN q = RequestFields /\ q.id = n /\ q.sending = b /\ q.huge = c
        /\ q.handle = a.socket /\ q.in_header = TRUE /\ q.in_progress = FALSE
    BY ONLY <2>2 DEF RequestFields
  <2>4. q.sending = (a.kind \in Puts) /\ q.huge = (a.kind \in Huge)
    BY <2>1, <2>3
  <2>5. (q.sending <=> a.kind \in Puts) /\ (q.huge <=> a.kind \in Huge)
    BY <2>4
  <2>6. q.sending \in BOOLEAN /\ q.huge \in BOOLEAN
    BY <2>4
  <2> QED BY <2>3, <2>5, <2>6
<1>4. /\ DOMAIN u = TranFields /\ u.requests = R
      /\ u.plan = t.plan /\ u.asked = t.asked /\ u.answers = t.answers
      /\ u.pipes = t.pipes /\ u.commit = t.commit /\ u.fileio_threads = t.fileio_threads
      /\ u.threads = t.threads /\ u.socks = t.socks
  BY <1>1 DEF Shape, TranFields
<1>5. \A r \in R : r = q \/ (r \in t.requests /\ r.id # n)
  BY <1>1 DEF Waits
<1>6. q \in R /\ t.requests \subseteq R
  OBVIOUS
<1> HIDE DEF R, u
<1>7. Shape(u)
  BY <1>1, <1>3, <1>4, <1>5 DEF Shape
<1>8. Waits(u) = Waits(t) \cup {n}
  <2>1. Running(u) = Running(t)
    BY <1>4 DEF Running
  <2>2. {r.id : r \in R} = {r.id : r \in t.requests} \cup {n}
    BY <1>3, <1>5, <1>6
  <2> QED BY <2>1, <2>2, <1>4 DEF Waits
<1>9. RequestsOk(R, t.asked)
  <2>1. n \in 1 .. Len(t.asked)
    BY <1>1
  <2>2. ASSUME NEW r \in R
        PROVE  /\ r.id \in 1 .. Len(t.asked) /\ t.asked[r.id].kind \in BlockKinds /\ r.handle = t.asked[r.id].socket
               /\ r.sending <=> t.asked[r.id].kind \in Puts
               /\ r.huge <=> t.asked[r.id].kind \in Huge
               /\ {r.sending, r.huge, r.in_header, r.in_progress} \subseteq BOOLEAN
               /\ \A s \in R : s.id = r.id => s = r
    <3>1. CASE r = q
      <4>1. \A s \in R : s.id = q.id => s = q
        BY <1>3, <1>5
      <4> QED BY <4>1, <3>1, <2>1, <1>3
    <3>2. CASE r \in t.requests /\ r.id # n
      <4>1. \A s \in R : s.id = r.id => s = r
        BY <3>2, <1>1, <1>3, <1>5 DEF RequestsOk
      <4> QED BY <4>1, <3>2, <1>1 DEF RequestsOk
    <3> QED BY <3>1, <3>2, <1>5
  <2> QED BY <2>2 DEF RequestsOk
<1>10. \A i \in 1 .. Len(t.answers) : t.answers[i].to # n
  BY <1>1
<1>11. AnswersOk(t.answers, t.asked, Waits(u))
  BY <1>1, <1>8, <1>10 DEF AnswersOk
<1>12. CommitsOk(t.answers, t.asked, Waits(u), t.commit)
  <2>1. \A i \in 1 .. Len(t.answers) : n \notin 1 .. t.answers[i].to - 1
    BY <1>1
  <2> QED BY <2>1, <1>1, <1>8 DEF CommitsOk
<1>13. RequestsToCome(R, t.socks, {})
  BY <1>1, <1>3, <1>5 DEF RequestsToCome
<1>14. TranOk(u, {})
  BY <1>1, <1>4, <1>7, <1>8, <1>9, <1>11, <1>12, <1>13 DEF TranOk
<1> QED BY <1>2, <1>14

(* A file is: the thread is there and has asked for nothing yet.            *)
ThreadMade(t, n, a) ==
  [t EXCEPT !.fileio_threads = @ + 1,
            !.threads = Append(@, [id |-> n, kind |-> a.kind, handle |-> a.socket, ascii |-> a.ascii,
                                   content |-> a.content, at |-> a.start, end |-> a.end,
                                   maxsize |-> a.maxsize, filesize |-> 0]),
            !.disk = Append(@, << >>)]

(* A thread made for it has everything to come.                              *)
LEMMA ThreadIsMade ==
  ASSUME NEW t, NEW n, Unserved(t, n), NEW a, AskedIs(t, n, a, FileKinds)
  PROVE  LET u == ThreadMade(t, n, a)
             k == Len(t.threads) + 1
         IN  TranOk(u, {n}) /\ k \in Running(u) /\ u.threads[k].id = n /\ u.threads[k].kind = a.kind
<1>a. t.asked[n] = a /\ a.kind \in FileKinds
  BY DEF AskedIs
<1> USE <1>a
<1>0. PICK f, D, c : /\ f = [id |-> n, kind |-> a.kind, handle |-> a.socket, ascii |-> a.ascii,
                             content |-> a.content, at |-> a.start, end |-> a.end,
                             maxsize |-> a.maxsize, filesize |-> 0]
                     /\ D = Append(t.disk, << >>)
                     /\ c = t.fileio_threads + 1
  OBVIOUS
<1> DEFINE l == Len(t.threads)
           k == l + 1
           F == Append(t.threads, f)
           u == [t EXCEPT !.fileio_threads = c, !.threads = F, !.disk = D]
<1>1. /\ Shape(t) /\ RequestsOk(t.requests, t.asked) /\ ThreadsOk(t.threads, t.asked) /\ EntriesOk(t.socks, t.asked)
      /\ AnswersOk(t.answers, t.asked, Waits(t)) /\ CommitsOk(t.answers, t.asked, Waits(t), t.commit)
      /\ LostOk(t.answers, t.asked, Waits(t) \cup {n}, t.socks)
      /\ CountOk(t.threads, t.fileio_threads)
      /\ RequestsToCome(t.requests, t.socks, {}) /\ ThreadsToCome(t.threads, t.socks, {})
      /\ n \in Nat \ {0} /\ Len(t.asked) = n
      /\ n \notin Waits(t) /\ \A i \in 1 .. Len(t.answers) : t.answers[i].to \in 1 .. n - 1
  BY DEF Unserved
<1>2. ThreadMade(t, n, a) = u
  BY <1>0 DEF ThreadMade
<1>3. DOMAIN f = FileFields /\ f.id = n /\ f.kind = a.kind /\ f.handle = a.socket
  BY <1>0 DEF FileFields
<1>4. /\ IsSeq(F) /\ l \in Nat /\ Len(F) = k
      /\ \A i \in 1 .. l : F[i] = t.threads[i]
      /\ F[k] = f
  <2>1. IsSeq(t.threads)
    BY <1>1 DEF Shape
  <2> QED BY <2>1, AppendIs
<1> HIDE DEF F, l
<1>5. /\ DOMAIN u = TranFields /\ u.threads = F /\ u.fileio_threads = t.fileio_threads + 1
      /\ u.plan = t.plan /\ u.asked = t.asked /\ u.answers = t.answers /\ u.requests = t.requests
      /\ u.pipes = t.pipes /\ u.commit = t.commit /\ u.socks = t.socks
  BY <1>0, <1>1 DEF Shape, TranFields
<1> HIDE DEF u
<1>6. k \in 1 .. k /\ k \notin 1 .. l /\ \A i \in 1 .. k : i \in 1 .. l \/ i = k
  BY <1>4
<1> HIDE DEF k
<1>7. Shape(u)
  <2>1. \A i \in 1 .. Len(F) : DOMAIN F[i] = FileFields
    BY <1>1, <1>3, <1>4, <1>6 DEF Shape, l
  <2>2. t.fileio_threads + 1 \in Nat
    BY <1>1 DEF Shape
  <2> QED BY <1>1, <1>4, <1>5, <2>1, <2>2 DEF Shape
<1>8. Running(t) = {i \in 1 .. l : t.threads[i].id # 0} /\ Running(u) = {i \in 1 .. k : F[i].id # 0}
  BY <1>1, <1>4, <1>5, <1>7, RunningIs DEF l
<1>9. Running(u) = Running(t) \cup {k} /\ k \notin Running(t)
  <2>1. n # 0 /\ 1 .. l \subseteq 1 .. k
    BY <1>1, <1>4 DEF k
  <2> QED BY <2>1, <1>3, <1>4, <1>6, <1>8
<1>10. Waits(u) = Waits(t) \cup {n}
  <2>1. \A i \in Running(t) : F[i].id = t.threads[i].id
    BY <1>4, <1>8
  <2> QED BY <2>1, <1>3, <1>4, <1>5, <1>9 DEF Waits
<1>11. ThreadsOk(F, t.asked)
  <2>1. \A i \in 1 .. l : t.threads[i].id # 0 => t.threads[i].id # n
    BY <1>1, <1>8 DEF Waits
  <2>2. n \in 1 .. Len(t.asked)
    BY <1>1
  <2>3. ASSUME NEW i \in 1 .. k, F[i].id # 0
        PROVE  /\ F[i].id \in 1 .. Len(t.asked) /\ t.asked[F[i].id].kind \in FileKinds
               /\ F[i].kind = t.asked[F[i].id].kind /\ F[i].handle = t.asked[F[i].id].socket
               /\ \A j \in 1 .. k : F[j].id = F[i].id => j = i
    <3>1. CASE i = k
      <4>1. \A j \in 1 .. k : F[j].id = n => j = k
        BY <1>1, <1>4, <1>6, <2>1
      <4> QED BY <4>1, <3>1, <2>2, <1>3, <1>4
    <3>2. CASE i \in 1 .. l
      <4>1. F[i] = t.threads[i] /\ t.threads[i].id # 0 /\ t.threads[i].id # n
        BY <3>2, <2>1, <2>3, <1>4
      <4>2. \A j \in 1 .. k : F[j].id = F[i].id => j \in 1 .. l /\ t.threads[j].id = t.threads[i].id
        BY <4>1, <1>3, <1>4, <1>6
      <4>3. /\ t.threads[i].id \in 1 .. Len(t.asked) /\ t.asked[t.threads[i].id].kind \in FileKinds
            /\ t.threads[i].kind = t.asked[t.threads[i].id].kind
            /\ t.threads[i].handle = t.asked[t.threads[i].id].socket
            /\ \A j \in 1 .. l : t.threads[j].id = t.threads[i].id => j = i
        BY <4>1, <3>2, <1>1 DEF ThreadsOk, l
      <4> QED BY <4>1, <4>2, <4>3
    <3> QED BY <3>1, <3>2, <1>6
  <2> QED BY <2>3, <1>4 DEF ThreadsOk
<1>12. CountOk(F, t.fileio_threads + 1)
  <2>1. IsFiniteSet(Running(t))
    <3>1. IsFiniteSet(1 .. l)
      BY <1>4, FS_Interval
    <3> QED BY <3>1, <1>8, FS_Subset
  <2>2. Cardinality(Running(u)) = Cardinality(Running(t)) + 1 /\ Cardinality(Running(t)) \in Nat
    BY <2>1, <1>9, FS_AddElement, FS_CardinalityType
  <2>3. Cardinality(Running(t)) <= t.fileio_threads
    BY <1>1, <1>8 DEF CountOk, l
  <2>4. t.fileio_threads \in Nat
    BY <1>1 DEF Shape
  <2>5. Cardinality(Running(u)) <= t.fileio_threads + 1
    BY <2>2, <2>3, <2>4
  <2> QED BY <2>5, <1>4, <1>8 DEF CountOk
<1>13. \A i \in 1 .. Len(t.answers) : t.answers[i].to # n
  BY <1>1
<1>14. AnswersOk(t.answers, t.asked, Waits(u))
  BY <1>1, <1>10, <1>13 DEF AnswersOk
<1>15. CommitsOk(t.answers, t.asked, Waits(u), t.commit)
  <2>1. \A i \in 1 .. Len(t.answers) : n \notin 1 .. t.answers[i].to - 1
    BY <1>1
  <2> QED BY <2>1, <1>1, <1>10 DEF CommitsOk
<1>16. RequestsToCome(t.requests, t.socks, {n})
  BY <1>1 DEF RequestsToCome
<1>17. ThreadsToCome(F, t.socks, {n})
  <2>1. \A i \in 1 .. Len(F) : F[i].id # 0 /\ F[i].id \notin {n} => i \in 1 .. l /\ F[i] = t.threads[i]
    BY <1>3, <1>4, <1>6
  <2> QED BY <2>1, <1>1 DEF ThreadsToCome, l
<1>18. TranOk(u, {n})
  BY <1>1, <1>5, <1>7, <1>10, <1>11, <1>12, <1>14, <1>15, <1>16, <1>17 DEF TranOk
<1> QED BY <1>2, <1>3, <1>4, <1>5, <1>9, <1>18 DEF k, l

(* It starts with its first block, or fails at once.                         *)
LEMMA StartKeeps ==
  ASSUME NEW t, NEW n, Unserved(t, n), NEW a, AskedIs(t, n, a, FileKinds), NEW ok \in BOOLEAN
  PROVE  TranOk(StartFile(t, n, a, ok), {})
<1>0. PICK u, k, out : u = ThreadMade(t, n, a) /\ k = Len(t.threads) + 1 /\ out = {n}
  OBVIOUS
<1>1. TranOk(u, out) /\ k \in Running(u) /\ u.threads[k].id = n /\ u.threads[k].kind = a.kind
  <2>1. LET v == ThreadMade(t, n, a)
            j == Len(t.threads) + 1
        IN  TranOk(v, {n}) /\ j \in Running(v) /\ v.threads[j].id = n /\ v.threads[j].kind = a.kind
    BY ThreadIsMade
  <2> QED BY <1>0, <2>1
<1>2. a.kind = "putf" \/ a.kind = "getf"
  BY DEF AskedIs, FileKinds
<1>3. TranOk(u, {u.threads[k].id})
  BY <1>0, <1>1
<1>4. CASE ~ok
  <2>0. PICK v : v = signal_fatal_error(u, k)
    OBVIOUS
  <2>1. StartFile(t, n, a, ok) = v
    BY <1>0, <1>4, <2>0 DEF StartFile, ThreadMade
  <2>2. LET w == signal_fatal_error(u, k)
        IN  TranOk(w, out) /\ Waits(w) = Waits(u) \ {u.threads[k].id} /\ w.socks = u.socks /\ w.asked = u.asked
    <3>1. TranOk(u, out) /\ k \in Running(u)
      BY <1>1
    <3> QED BY ONLY <3>1, FileFailed
  <2>3. TranOk(v, out) /\ \A m \in Waits(v) : m \in out => m \in {}
    BY <2>0, <2>2, <1>0, <1>1
  <2>4. TranOk(v, {})
    BY <2>3, OutLess
  <2> QED BY <2>1, <2>4
<1>5. CASE ok /\ a.kind = "putf"
  <2>1. StartFile(t, n, a, ok) = SendBuffer(u, k)
    BY <1>0, <1>5 DEF StartFile, ThreadMade
  <2>2. TranOk(SendBuffer(u, k), {})
    BY <1>1, <1>3, <1>5, SendBufferKeeps
  <2> QED BY <2>1, <2>2
<1>6. CASE ok /\ a.kind = "getf"
  <2>1. StartFile(t, n, a, ok) = GetBuffer(u, k)
    BY <1>0, <1>6 DEF StartFile, ThreadMade
  <2>2. TranOk(GetBuffer(u, k), {})
    BY <1>1, <1>3, <1>6, GetBufferKeeps
  <2> QED BY <2>1, <2>2
<1> QED BY <1>2, <1>4, <1>5, <1>6

(* Something else is asked for.                                             *)
LEMMA NothingToServe ==
  ASSUME NEW t, NEW n, Unserved(t, n), t.asked[n].kind \notin Transfers
  PROVE  TranOk(t, {})
<1>1. LostOk(t.answers, t.asked, Waits(t), t.socks)
  <2>1. LostOk(t.answers, t.asked, Waits(t) \cup {n}, t.socks)
    BY DEF Unserved
  <2> QED BY <2>1 DEF LostOk
<1> QED BY <1>1 DEF Unserved, TranOk

(* The pipes are of no concern to the answers.                               *)
LEMMA PipesKeep ==
  ASSUME NEW t, TranOk(t, {}), NEW p
  PROVE  TranOk([t EXCEPT !.pipes = p], {})
<1> DEFINE u == [t EXCEPT !.pipes = p]
<1>1. /\ DOMAIN u = TranFields /\ u.threads = t.threads /\ u.fileio_threads = t.fileio_threads
      /\ u.plan = t.plan /\ u.asked = t.asked /\ u.answers = t.answers /\ u.requests = t.requests
      /\ u.commit = t.commit /\ u.socks = t.socks
  BY DEF TranOk, Shape, TranFields
<1> HIDE DEF u
<1>2. Waits(u) = Waits(t)
  BY <1>1 DEF Waits, Running
<1>3. Shape(u)
  BY <1>1 DEF Shape, TranOk
<1>4. TranOk(u, {})
  BY <1>1, <1>2, <1>3 DEF TranOk
<1> QED BY <1>4 DEF u

(* A commit: answered when nobody waits.                                    *)
Committed(t, c) == [Answer(t, c, "closed", << >>) EXCEPT !.commit = NULL]

(* A commit is kept, or answered when nothing else waits.                    *)
LEMMA CommitKept ==
  ASSUME NEW t, TranOk(t, {}), NEW c, c \in 1 .. Len(t.asked), t.asked[c].kind = "commit", ~Has(t.answers, c)
  PROVE  TranOk([t EXCEPT !.commit = c], {})
<1> DEFINE u == [t EXCEPT !.commit = c]
<1>1. /\ DOMAIN u = TranFields /\ u.threads = t.threads /\ u.fileio_threads = t.fileio_threads
      /\ u.plan = t.plan /\ u.asked = t.asked /\ u.answers = t.answers /\ u.requests = t.requests
      /\ u.commit = c /\ u.socks = t.socks
  BY DEF TranOk, Shape, TranFields
<1> HIDE DEF u
<1>2. Waits(u) = Waits(t)
  BY <1>1 DEF Waits, Running
<1>3. Shape(u)
  BY <1>1 DEF Shape, TranOk
<1>4. CommitsOk(t.answers, t.asked, Waits(t), c)
  BY DEF TranOk, CommitsOk
<1>5. TranOk(u, {})
  BY <1>1, <1>2, <1>3, <1>4 DEF TranOk
<1> QED BY <1>5 DEF u

LEMMA CommitAnswered ==
  ASSUME NEW t, TranOk(t, {}), NEW c, c \in 1 .. Len(t.asked), t.asked[c].kind = "commit",
         t.requests = {}, t.fileio_threads = 0
  PROVE  TranOk(Committed(t, c), {})
<1>0. PICK e, A : e = [to |-> c, kind |-> "closed", data |-> << >>] /\ A = Append(t.answers, e)
  OBVIOUS
<1> DEFINE u == [[t EXCEPT !.answers = A] EXCEPT !.commit = NULL]
           l == Len(t.answers)
<1>1. /\ Shape(t) /\ RequestsOk(t.requests, t.asked) /\ ThreadsOk(t.threads, t.asked) /\ EntriesOk(t.socks, t.asked)
      /\ AnswersOk(t.answers, t.asked, Waits(t)) /\ CommitsOk(t.answers, t.asked, Waits(t), t.commit)
      /\ LostOk(t.answers, t.asked, Waits(t), t.socks)
      /\ CountOk(t.threads, t.fileio_threads)
      /\ RequestsToCome(t.requests, t.socks, {}) /\ ThreadsToCome(t.threads, t.socks, {})
  BY DEF TranOk
<1>2. Committed(t, c) = u
  BY <1>0 DEF Answer, Committed
<1>3. /\ DOMAIN u = TranFields /\ u.threads = t.threads /\ u.fileio_threads = t.fileio_threads
      /\ u.plan = t.plan /\ u.asked = t.asked /\ u.answers = A /\ u.requests = t.requests
      /\ u.commit = NULL /\ u.socks = t.socks
  BY <1>1 DEF Shape, TranFields
<1> HIDE DEF u
<1>4. e.to = c /\ e.kind = "closed"
  BY <1>0
<1>5. /\ IsSeq(A) /\ l \in Nat /\ Len(A) = l + 1
      /\ \A i \in 1 .. l : A[i] = t.answers[i]
      /\ A[l + 1] = e
  <2>1. IsSeq(t.answers)
    BY <1>1 DEF Shape
  <2> QED BY <2>1, <1>0, AppendIs
<1>6. Shape(u)
  BY <1>1, <1>3, <1>5 DEF Shape
<1>7. Waits(t) = {} /\ Waits(u) = {}
  <2>1. Running(t) = {}
    <3>1. Cardinality({k \in 1 .. Len(t.threads) : t.threads[k].id # 0}) <= 0
      BY <1>1 DEF CountOk
    <3>2. Running(t) = {k \in 1 .. Len(t.threads) : t.threads[k].id # 0}
      BY <1>1, RunningIs
    <3>3. ASSUME NEW k \in Running(t) PROVE FALSE
      <4>1. Cardinality(Running(t)) \in Nat \ {0}
        BY <1>1, FewerRunning
      <4>2. Cardinality(Running(t)) <= 0
        BY <3>1, <3>2
      <4> QED BY <4>1, <4>2
    <3> QED BY <3>3
  <2> QED BY <2>1, <1>3 DEF Waits, Running
<1>8. t.asked[c].kind \notin Transfers
  BY DEF Transfers, BlockKinds, FileKinds, Puts, Gets
<1>9. (\A i \in 1 .. l + 1 : i \in 1 .. l \/ i = l + 1)
  BY <1>5
<1>10. 1 .. l \subseteq 1 .. l + 1 /\ l + 1 \in 1 .. l + 1 /\ \A i \in 1 .. l : i < l + 1
  BY <1>5
<1>11. AnswersOk(A, t.asked, {})
  <2>1. ASSUME NEW i \in 1 .. Len(A)
        PROVE  LET n == A[i].to
               IN  /\ n \in 1 .. Len(t.asked)
                   /\ t.asked[n].kind \in Transfers =>
                        /\ A[i].kind \in {OkOf[t.asked[n].kind], "closed", "error"}
                        /\ n \notin {}
                        /\ \A j \in 1 .. Len(A) : A[j].to = n => j = i
    <3>1. CASE i = l + 1
      BY <3>1, <1>4, <1>5, <1>8
    <3>2. CASE i \in 1 .. l
      <4>1. A[i] = t.answers[i]
        BY <3>2, <1>5
      <4>2. t.answers[i].to \in 1 .. Len(t.asked)
        BY <3>2, <1>1 DEF AnswersOk
      <4>3. CASE t.asked[t.answers[i].to].kind \in Transfers
        <5>1. \A j \in 1 .. Len(A) : A[j].to = t.answers[i].to => j \in 1 .. l /\ t.answers[j].to = t.answers[i].to
          BY <4>3, <1>4, <1>5, <1>8, <1>9
        <5>2. /\ t.answers[i].kind \in {OkOf[t.asked[t.answers[i].to].kind], "closed", "error"}
              /\ \A j \in 1 .. l : t.answers[j].to = t.answers[i].to => j = i
          BY <3>2, <4>3, <1>1 DEF AnswersOk
        <5> QED BY <4>1, <4>2, <5>1, <5>2
      <4>4. CASE t.asked[t.answers[i].to].kind \notin Transfers
        BY <4>1, <4>2, <4>4
      <4> QED BY <4>3, <4>4
    <3> QED BY <3>1, <3>2, <1>5, <1>9
  <2> QED BY <2>1 DEF AnswersOk
<1>12. CommitsOk(A, t.asked, {}, NULL)
  <2>1. ASSUME NEW i \in 1 .. l + 1, t.asked[A[i].to].kind = "commit", NEW m \in 1 .. A[i].to - 1,
               t.asked[m].kind \in Transfers, NEW j \in 1 .. l + 1, A[j].to = m
        PROVE  j < i
    <3>1. j \in 1 .. l /\ t.answers[j].to = m
      BY <2>1, <1>4, <1>5, <1>8, <1>9
    <3>2. CASE i = l + 1
      BY <3>1, <3>2, <1>10
    <3>3. CASE i \in 1 .. l
      BY <3>1, <3>3, <2>1, <1>1, <1>5 DEF CommitsOk
    <3> QED BY <3>2, <3>3, <1>9
  <2> QED BY <2>1, <1>5 DEF CommitsOk
<1>13. LostOk(A, t.asked, {}, t.socks)
  <2>1. ASSUME NEW n \in 1 .. Len(t.asked), t.asked[n].kind \in Transfers, ~Has(A, n)
        PROVE  /\ t.asked[n].kind \in BlockKinds /\ t.socks[t.asked[n].socket].state = "closed"
               /\ \E i \in 1 .. Len(A) :
                    LET m == A[i].to
                    IN  /\ m \in 1 .. Len(t.asked) /\ t.asked[m].kind \in BlockKinds
                        /\ t.asked[m].socket = t.asked[n].socket /\ A[i].kind = "closed"
    <3>1. ~Has(t.answers, n)
      BY <2>1, <1>5, <1>10 DEF Has
    <3>2. /\ t.asked[n].kind \in BlockKinds /\ t.socks[t.asked[n].socket].state = "closed"
          /\ \E i \in 1 .. l :
               LET m == t.answers[i].to
               IN  /\ m \in 1 .. Len(t.asked) /\ t.asked[m].kind \in BlockKinds
                   /\ t.asked[m].socket = t.asked[n].socket /\ t.answers[i].kind = "closed"
      BY <2>1, <3>1, <1>1, <1>7 DEF LostOk
    <3> QED BY <3>2, <1>5, <1>10
  <2> QED BY <2>1 DEF LostOk
<1>14. TranOk(u, {})
  BY <1>1, <1>3, <1>6, <1>7, <1>11, <1>12, <1>13 DEF TranOk
<1> QED BY <1>2, <1>14

(* okay_if_no_requests_left does either.                                     *)
LEMMA CommitKeeps ==
  ASSUME NEW t, NEW n, Unserved(t, n), t.asked[n].kind = "commit"
  PROVE  TranOk(okay_if_no_requests_left(t, n), {})
<1>1. TranOk(t, {})
  <2>1. t.asked[n].kind \notin Transfers
    BY DEF Transfers, BlockKinds, FileKinds, Puts, Gets
  <2> QED BY <2>1, NothingToServe
<1>2. PICK c : c = IF t.commit = NULL THEN n ELSE t.commit
  OBVIOUS
<1>3. c \in 1 .. Len(t.asked) /\ t.asked[c].kind = "commit" /\ ~Has(t.answers, c)
  <2>1. n \in 1 .. Len(t.asked) /\ ~Has(t.answers, n)
    <3>1. /\ n \in Nat \ {0} /\ Len(t.asked) = n
          /\ \A i \in 1 .. Len(t.answers) : t.answers[i].to \in 1 .. n - 1
      BY DEF Unserved
    <3>2. \A i \in 1 .. Len(t.answers) : t.answers[i].to # n
      BY <3>1
    <3> QED BY <3>1, <3>2 DEF Has
  <2>2. t.commit # NULL => /\ t.commit \in 1 .. Len(t.asked) /\ t.asked[t.commit].kind = "commit"
                           /\ ~Has(t.answers, t.commit)
    BY <1>1 DEF TranOk, CommitsOk
  <2> QED BY <1>2, <2>1, <2>2
<1>4. PICK u : u = [t EXCEPT !.commit = c]
  OBVIOUS
<1>5. TranOk(u, {})
  BY <1>1, <1>3, <1>4, CommitKept
<1>6. u.commit = c /\ u.asked = t.asked /\ u.requests = t.requests /\ u.fileio_threads = t.fileio_threads
  BY <1>1, <1>4 DEF TranOk, Shape, TranFields
<1>7. [t EXCEPT !.commit = IF @ = NULL THEN n ELSE @] = u
  BY <1>2, <1>4
<1>8. okay_if_no_requests_left(t, n) =
        IF t.requests = {} /\ t.fileio_threads = 0
        THEN Committed(u, c) ELSE u
  <2>1. okay_if_no_requests_left(t, n) =
          LET v == [t EXCEPT !.commit = IF @ = NULL THEN n ELSE @]
          IN  IF t.requests = {} /\ t.fileio_threads = 0 THEN Committed(v, v.commit) ELSE v
    BY DEF okay_if_no_requests_left, Committed
  <2>2. okay_if_no_requests_left(t, n) =
          IF t.requests = {} /\ t.fileio_threads = 0 THEN Committed(u, u.commit) ELSE u
    BY ONLY <1>7, <2>1
  <2> QED BY <1>6, <2>2
<1>9. t.requests = {} /\ t.fileio_threads = 0 =>
        TranOk(Committed(u, c), {})
  <2>1. c \in 1 .. Len(u.asked) /\ u.asked[c].kind = "commit"
    BY <1>3, <1>6
  <2>2. t.requests = {} /\ t.fileio_threads = 0 => u.requests = {} /\ u.fileio_threads = 0
    BY <1>6
  <2> QED BY ONLY <2>1, <2>2, <1>5, CommitAnswered
<1> QED BY <1>5, <1>8, <1>9

-----------------------------------------------------------------------------
(* The actions.                                                             *)
LEMMA ProcessNext ==
  ASSUME NEW t, TranOk(t, {}), Process(t)
  PROVE  TranInv'
<1>1. PICK lucky : tran' = process_transfer_requests(t, lucky)
  BY DEF Process
<1>2. LET u == process_transfer_requests(t, lucky) IN TranOk(u, {}) /\ Started(u)
  BY ProcessKeeps
<1> QED BY <1>1, <1>2 DEF TranInv

(* A step that leaves the requests alone needs the invariant only.           *)
LEMMA ThreadNext ==
  ASSUME TranInv, NEW u, TranOk(u, {}), u.requests = tran.requests, tran' = u
  PROVE  TranInv'
BY DEF TranInv, Started

(* The threads leave the requests alone.                                    *)
LEMMA RequestsStay ==
  ASSUME NEW t, Shape(t), NEW k
  PROVE  /\ \A h, n, units : Write(t, h, n, units).requests = t.requests
         /\ \A h, n, min, max : Read(t, h, n, min, max).requests = t.requests
         /\ \A f : [t EXCEPT !.threads[k] = f].requests = t.requests
         /\ \A kind, data : Done(t, k, kind, data).requests = t.requests
         /\ signal_fatal_error(t, k).requests = t.requests
         /\ SendBuffer(t, k).requests = t.requests
         /\ GetBuffer(t, k).requests = t.requests
         /\ \A units : GetBuffer(write_file_data_buffer(t, k, units), k).requests = t.requests
<1>1. DOMAIN t = TranFields
  BY DEF Shape
<1>2. \A s, h, n, units : DOMAIN s = TranFields => Write(s, h, n, units).requests = s.requests
  BY DEF Write, TranFields
<1>3. \A s, h, n, min, max : DOMAIN s = TranFields => Read(s, h, n, min, max).requests = s.requests
  BY DEF Read, TranFields
<1>4. \A f : [t EXCEPT !.threads[k] = f].requests = t.requests /\ DOMAIN [t EXCEPT !.threads[k] = f] = TranFields
  BY <1>1 DEF TranFields
<1>5. \A s : DOMAIN s = TranFields => Finish(s, k).requests = s.requests
  BY DEF Finish, TranFields
<1>6. \A n, kind, data : Answer(t, n, kind, data).requests = t.requests /\ DOMAIN Answer(t, n, kind, data) = TranFields
  BY <1>1 DEF Answer, TranFields
<1>7. \A kind, data : Done(t, k, kind, data).requests = t.requests
  <2>1. \A s : DOMAIN s = TranFields =>
          /\ [s EXCEPT !.fileio_threads = @ - 1].requests = s.requests
          /\ DOMAIN [s EXCEPT !.fileio_threads = @ - 1] = TranFields
    BY DEF TranFields
  <2>2. ASSUME NEW kind, NEW data PROVE Done(t, k, kind, data).requests = t.requests
    <3>1. PICK s : s = Answer(t, t.threads[k].id, kind, data)
      OBVIOUS
    <3>2. DOMAIN s = TranFields /\ s.requests = t.requests
      BY <3>1, <1>6
    <3>3. PICK v : v = [s EXCEPT !.fileio_threads = @ - 1]
      OBVIOUS
    <3>4. DOMAIN v = TranFields /\ v.requests = t.requests
      BY <3>2, <3>3, <2>1
    <3>5. Done(t, k, kind, data) = Finish(v, k)
      BY <3>1, <3>3 DEF Done
    <3> QED BY <3>4, <3>5, <1>5
  <2> QED BY <2>2
<1>8. signal_fatal_error(t, k).requests = t.requests
  BY <1>5, <1>6 DEF signal_fatal_error, Raise
<1>9. SendBuffer(t, k).requests = t.requests
  <2>1. \/ SendBuffer(t, k) = Done(t, k, "putf_ok", <<t.threads[k].filesize>>)
        \/ \E f, h, n, text : SendBuffer(t, k) = Write([t EXCEPT !.threads[k] = f], h, n, text)
    BY DEF SendBuffer
  <2>2. ASSUME NEW f, NEW h, NEW n, NEW text, SendBuffer(t, k) = Write([t EXCEPT !.threads[k] = f], h, n, text)
        PROVE  SendBuffer(t, k).requests = t.requests
    <3>1. PICK v : v = [t EXCEPT !.threads[k] = f]
      OBVIOUS
    <3>2. v.requests = t.requests /\ DOMAIN v = TranFields
      BY <3>1, <1>4
    <3>3. SendBuffer(t, k) = Write(v, h, n, text)
      BY <2>2, <3>1
    <3> QED BY <3>2, <3>3, <1>2
  <2>3. (\E f, h, n, text : SendBuffer(t, k) = Write([t EXCEPT !.threads[k] = f], h, n, text)) =>
          SendBuffer(t, k).requests = t.requests
    BY ONLY <2>2
  <2>4. Done(t, k, "putf_ok", <<t.threads[k].filesize>>).requests = t.requests
    BY <1>7
  <2> QED BY ONLY <2>1, <2>3, <2>4
<1>10. GetBuffer(t, k).requests = t.requests
  BY <1>1, <1>3 DEF GetBuffer
<1>11. \A units : GetBuffer(write_file_data_buffer(t, k, units), k).requests = t.requests
  <2>1. \A units : /\ write_file_data_buffer(t, k, units).requests = t.requests
                   /\ DOMAIN write_file_data_buffer(t, k, units) = TranFields
    <3>1. ASSUME NEW units
          PROVE  /\ write_file_data_buffer(t, k, units).requests = t.requests
                 /\ DOMAIN write_file_data_buffer(t, k, units) = TranFields
      <4> DEFINE u == write_file_data_buffer(t, k, units)
                 f == t.threads[k]
      <4>1. \E b, d : u = [[t EXCEPT !.threads = [t.threads EXCEPT ![k] = [f EXCEPT !.filesize = b]]] EXCEPT !.disk = d]
        <5>1. [t EXCEPT !.threads = 0].disk = t.disk
          BY <1>1 DEF TranFields
        <5> QED BY <1>1 DEF write_file_data_buffer, TranFields
      <4>2. PICK b, d : u = [[t EXCEPT !.threads = [t.threads EXCEPT ![k] = [f EXCEPT !.filesize = b]]] EXCEPT !.disk = d]
        BY <4>1
      <4> HIDE DEF u
      <4>3. u.requests = t.requests /\ DOMAIN u = TranFields
        BY <1>1, <4>2 DEF TranFields
      <4> QED BY <4>3 DEF u
    <3> QED BY <3>1
  <2> QED BY <2>1, <1>3 DEF GetBuffer
<1> QED BY <1>1, <1>2, <1>3, <1>4, <1>7, <1>8, <1>9, <1>10, <1>11

(* Each step of the agent keeps the invariant.                               *)
LEMMA AskNext ==
  ASSUME TranInv, AskTransfer
  PROVE  TranInv'
<1>0. PICK n, a, t : /\ n = Len(tran.asked) + 1 /\ a = Head(tran.plan)
                     /\ t = [tran EXCEPT !.asked = Append(@, a), !.plan = Tail(@)]
  OBVIOUS
<1>1. TranOk(tran, {}) /\ tran.plan # << >>
  BY DEF TranInv, AskTransfer
<1>2. /\ Unserved(t, n) /\ t.asked[n] = a /\ a.kind \in Kinds
      /\ a.kind \in Transfers => a.socket \in Sockets
  <2>1. LET b == Head(tran.plan)
            m == Len(tran.asked) + 1
            u == [tran EXCEPT !.asked = Append(@, b), !.plan = Tail(@)]
        IN  /\ Unserved(u, m) /\ u.asked[m] = b /\ b.kind \in Kinds
            /\ b.kind \in Transfers => b.socket \in Sockets
    BY <1>1, AskIs
  <2> QED BY <1>0, <2>1
<1>3. \/ a.kind \in Puts \cup Gets /\ Process(request_create(t, n, a))
      \/ a.kind \in {"putf", "getf"} /\ \E ok \in BOOLEAN : Process(StartFile(t, n, a, ok))
      \/ a.kind = "commit" /\ Process(okay_if_no_requests_left(t, n))
      \/ a.kind = "pipe"   /\ Process(create_transfer_pipe(t, a.pipe))
      \/ a.kind = "clear"  /\ Process(destroy_all_transfer_pipes(t))
  BY <1>0 DEF AskTransfer
<1>4. CASE a.kind \in Puts \cup Gets /\ Process(request_create(t, n, a))
  <2>1. TranOk(request_create(t, n, a), {})
    BY <1>2, <1>4, RequestMade DEF AskedIs, BlockKinds
  <2> QED BY <2>1, <1>4, ProcessNext
<1>5. CASE a.kind \in {"putf", "getf"} /\ \E ok \in BOOLEAN : Process(StartFile(t, n, a, ok))
  <2>1. PICK ok \in BOOLEAN : Process(StartFile(t, n, a, ok))
    BY <1>5
  <2>2. TranOk(StartFile(t, n, a, ok), {})
    BY <1>2, <1>5, StartKeeps DEF AskedIs, FileKinds
  <2> QED BY <2>1, <2>2, ProcessNext
<1>6. CASE a.kind = "commit" /\ Process(okay_if_no_requests_left(t, n))
  <2>1. TranOk(okay_if_no_requests_left(t, n), {})
    BY <1>2, <1>6, CommitKeeps
  <2> QED BY <2>1, <1>6, ProcessNext
<1>7. a.kind \in {"pipe", "clear"} => TranOk(t, {})
  <2>1. a.kind \in {"pipe", "clear"} => a.kind \notin Transfers
    BY DEF Transfers, BlockKinds, FileKinds, Puts, Gets
  <2> QED BY <2>1, <1>2, NothingToServe
<1>8. CASE a.kind = "pipe" /\ Process(create_transfer_pipe(t, a.pipe))
  <2>1. create_transfer_pipe(t, a.pipe) = t \/ \E p : create_transfer_pipe(t, a.pipe) = [t EXCEPT !.pipes = p]
    BY DEF create_transfer_pipe
  <2>2. TranOk(create_transfer_pipe(t, a.pipe), {})
    BY <1>7, <1>8, <2>1, PipesKeep
  <2> QED BY <2>2, <1>8, ProcessNext
<1>9. CASE a.kind = "clear" /\ Process(destroy_all_transfer_pipes(t))
  <2>1. TranOk(destroy_all_transfer_pipes(t), {})
    BY <1>7, <1>9, PipesKeep DEF destroy_all_transfer_pipes
  <2> QED BY <2>1, <1>9, ProcessNext
<1> QED BY <1>3, <1>4, <1>5, <1>6, <1>8, <1>9

LEMMA SockWriteNext ==
  ASSUME TranInv, NEW h \in Sockets, SockWrite(h)
  PROVE  TranInv'
<1>0. PICK n, o, t : /\ n = Head(tran.socks[h].writes).id
                     /\ o = tran.socks[h].out \o Head(tran.socks[h].writes).units
                     /\ t = WriteDone(tran, h, o)
  OBVIOUS
<1>9. t = Written(h)
  BY <1>0 DEF Written, WriteDone
<1>1. TranOk(tran, {}) /\ tran.socks[h].writes # << >> /\ Started(tran)
  BY DEF TranInv, SockWrite
<1>2. /\ TranOk(t, {n}) /\ t.requests = tran.requests /\ t.threads = tran.threads /\ t.asked = tran.asked
      /\ Asked(tran.asked, h, n, Puts \cup {"putf"})
      /\ Twice(tran.socks[h], n) => Entry(t.socks[h], n)
  <2>1. LET m == Head(tran.socks[h].writes).id
            u == WriteDone(tran, h, o)
        IN  /\ TranOk(u, {m}) /\ u.requests = tran.requests /\ u.threads = tran.threads /\ u.asked = tran.asked
            /\ Asked(tran.asked, h, m, Puts \cup {"putf"})
            /\ Twice(tran.socks[h], m) => Entry(u.socks[h], m)
    BY <1>1, WriteTaken
  <2> QED BY <1>0, <2>1
<1>3. \/ ThreadOf(t, n) = {} /\ Process(update_request_after_write(t, n))
      \/ \E k \in ThreadOf(t, n) : tran' = SendBuffer(t, k)
  BY <1>0, <1>9 DEF SockWrite
<1>4. Shape(t) /\ RequestsOk(t.requests, t.asked) /\ ThreadsOk(t.threads, t.asked)
  BY <1>2 DEF TranOk
<1>5. CASE ThreadOf(t, n) = {} /\ Process(update_request_after_write(t, n))
  <2>1. ASSUME NEW r \in t.requests, r.id = n, r.pipe = NULL, r.in_progress, r.in_header
        PROVE  Entry(t.socks[h], n)
    <3>1. r.sending /\ r.handle = h
      BY <1>2, <1>4, <2>1, AskedFor
    <3>2. RequestsToCome(tran.requests, tran.socks, {})
      BY <1>1 DEF TranOk
    <3>3. Twice(tran.socks[h], n)
      BY <1>2, <2>1, <3>1, <3>2 DEF RequestsToCome
    <3> QED BY <1>2, <3>3
  <2>2. Asked(t.asked, h, n, Puts \cup {"putf"})
    BY <1>2
  <2>3. TranOk(update_request_after_write(t, n), {})
    BY <1>2, <1>5, <2>1, <2>2, AfterWriteKeeps
  <2> QED BY <2>3, <1>5, ProcessNext
<1>6. CASE \E k \in ThreadOf(t, n) : tran' = SendBuffer(t, k)
  <2>1. PICK k \in ThreadOf(t, n) : tran' = SendBuffer(t, k)
    BY <1>6
  <2>2. k \in Running(t) /\ t.threads[k].id = n
    BY DEF ThreadOf
  <2>3. t.threads[k].kind = "putf"
    BY <1>2, <1>4, <2>2, FileIs
  <2>4. TranOk(SendBuffer(t, k), {})
    BY <1>2, <2>2, <2>3, SendBufferKeeps
  <2>5. SendBuffer(t, k).requests = tran.requests
    BY <1>2, <1>4, RequestsStay
  <2> QED BY <2>1, <2>4, <2>5, ThreadNext
<1> QED BY <1>3, <1>5, <1>6

LEMMA SockReadNext ==
  ASSUME TranInv, NEW h \in Sockets, SockRead(h)
  PROVE  TranInv'
<1>1. TranOk(tran, {}) /\ tran.socks[h].reads # << >> /\ Started(tran)
  BY DEF TranInv, SockRead
<1>2. PICK n, o, t, units :
        /\ n = Head(tran.socks[h].reads).id
        /\ t = ReadDone(tran, h, o)
        /\ \/ ThreadOf(t, n) = {} /\ Process(update_request_after_read(t, n, units))
           \/ \E k \in ThreadOf(t, n) : tran' = GetBuffer(write_file_data_buffer(t, k, units), k)
  <2>1. PICK m : LET t == Received(h, m)
                     n == Head(tran.socks[h].reads).id
                     units == SubSeq(tran.socks[h].incoming, 1, m)
                 IN  \/ ThreadOf(t, n) = {} /\ Process(update_request_after_read(t, n, units))
                     \/ \E k \in ThreadOf(t, n) : tran' = GetBuffer(write_file_data_buffer(t, k, units), k)
    BY DEF SockRead
  <2>2. \E o : Received(h, m) = ReadDone(tran, h, o)
    BY DEF Received, ReadDone
  <2> QED BY <2>1, <2>2
<1>3. /\ TranOk(t, {n}) /\ t.requests = tran.requests /\ t.threads = tran.threads /\ t.asked = tran.asked
      /\ Asked(tran.asked, h, n, Gets \cup {"getf"})
  <2>1. LET m == Head(tran.socks[h].reads).id
            u == ReadDone(tran, h, o)
        IN  /\ TranOk(u, {m}) /\ u.requests = tran.requests /\ u.threads = tran.threads /\ u.asked = tran.asked
            /\ Asked(tran.asked, h, m, Gets \cup {"getf"})
    BY <1>1, ReadTaken
  <2> QED BY <1>2, <2>1
<1>4. Shape(t) /\ RequestsOk(t.requests, t.asked) /\ ThreadsOk(t.threads, t.asked)
  BY <1>3 DEF TranOk
<1>5. CASE ThreadOf(t, n) = {} /\ Process(update_request_after_read(t, n, units))
  <2>1. Asked(t.asked, h, n, Gets \cup {"getf"})
    BY <1>3
  <2>2. TranOk(update_request_after_read(t, n, units), {})
    BY <1>3, <1>5, <2>1, AfterReadKeeps
  <2> QED BY <2>2, <1>5, ProcessNext
<1>6. CASE \E k \in ThreadOf(t, n) : tran' = GetBuffer(write_file_data_buffer(t, k, units), k)
  <2>1. PICK k \in ThreadOf(t, n) : tran' = GetBuffer(write_file_data_buffer(t, k, units), k)
    BY <1>6
  <2>2. k \in Running(t) /\ t.threads[k].id = n
    BY DEF ThreadOf
  <2>3. t.threads[k].kind = "getf"
    BY <1>3, <1>4, <2>2, FileIs
  <2>4. TranOk(GetBuffer(write_file_data_buffer(t, k, units), k), {})
    BY <1>3, <2>2, <2>3, ReceivedKeeps
  <2>5. GetBuffer(write_file_data_buffer(t, k, units), k).requests = tran.requests
    BY <1>3, <1>4, RequestsStay
  <2> QED BY <2>1, <2>4, <2>5, ThreadNext
<1> QED BY <1>2, <1>5, <1>6

LEMMA EndNext ==
  ASSUME TranInv, NEW h \in Sockets, NEW how \in {"closed", "error"}, tran.socks[h].state \in {"open", how},
         EndAll(h, how)
  PROVE  TranInv'
<1>1. TranOk(tran, {})
  BY DEF TranInv
<1>2. LET all == tran.socks[h].writes \o tran.socks[h].reads
          u   == [tran EXCEPT !.socks[h] = [@ EXCEPT !.state = how, !.writes = << >>, !.reads = << >>]]
      IN  TranOk(Ending(u, all, how)[Len(all)], {})
  BY <1>1, EndKeeps
<1> QED BY <1>2, ProcessNext DEF EndAll

LEMMA FailNext ==
  ASSUME TranInv, NEW k \in Running(tran), FileFails(k)
  PROVE  TranInv'
<1>0. PICK h, n : h = tran.threads[k].handle /\ n = tran.threads[k].id
  OBVIOUS
<1>1. TranOk(tran, {}) /\ Started(tran)
  BY DEF TranInv
<1>2. h \in Sockets
  <2>1. Shape(tran) /\ ThreadsOk(tran.threads, tran.asked)
    BY <1>1 DEF TranOk
  <2> QED BY <2>1, <1>0, FileIs
<1>3. PICK t : /\ TranOk(t, {n}) /\ t.requests = tran.requests /\ t.threads = tran.threads
               /\ tran' = signal_fatal_error(t, k)
  <2>1. CASE /\ tran.socks[h].writes /= << >> /\ Head(tran.socks[h].writes).id = n
             /\ tran' = signal_fatal_error(Written(h), k)
    <3>1. PICK o : o = tran.socks[h].out \o Head(tran.socks[h].writes).units
      OBVIOUS
    <3>2. tran' = signal_fatal_error(WriteDone(tran, h, o), k)
      BY <2>1, <3>1 DEF WriteDone, Written
    <3>3. LET m == Head(tran.socks[h].writes).id
              u == WriteDone(tran, h, o)
          IN  /\ TranOk(u, {m}) /\ u.requests = tran.requests /\ u.threads = tran.threads /\ u.asked = tran.asked
              /\ Asked(tran.asked, h, m, Puts \cup {"putf"})
              /\ Twice(tran.socks[h], m) => Entry(u.socks[h], m)
      BY <1>1, <1>2, <2>1, WriteTaken
    <3> QED BY <2>1, <3>2, <3>3
  <2>2. CASE /\ tran.socks[h].reads /= << >> /\ Head(tran.socks[h].reads).id = n
             /\ tran' = signal_fatal_error(Received(h, 1), k)
    <3>1. PICK o : Received(h, 1) = ReadDone(tran, h, o)
      BY DEF Received, ReadDone
    <3>2. LET m == Head(tran.socks[h].reads).id
              u == ReadDone(tran, h, o)
          IN  /\ TranOk(u, {m}) /\ u.requests = tran.requests /\ u.threads = tran.threads /\ u.asked = tran.asked
              /\ Asked(tran.asked, h, m, Gets \cup {"getf"})
      BY <1>1, <1>2, <2>2, ReadTaken
    <3> QED BY <2>2, <3>1, <3>2
  <2> QED BY <1>0, <2>1, <2>2 DEF FileFails
<1>4. Shape(t) /\ k \in Running(t) /\ t.threads[k].id = n
  BY <1>0, <1>3 DEF TranOk, Running
<1>5. PICK u, out : u = signal_fatal_error(t, k) /\ out = {n}
  OBVIOUS
<1>6. TranOk(u, out) /\ Waits(u) = Waits(t) \ {n}
  <2>1. TranOk(t, out)
    BY <1>3, <1>5
  <2>2. LET v == signal_fatal_error(t, k)
        IN  TranOk(v, out) /\ Waits(v) = Waits(t) \ {t.threads[k].id} /\ v.socks = t.socks /\ v.asked = t.asked
    BY ONLY <2>1, <1>4, FileFailed
  <2> QED BY <2>2, <1>4, <1>5
<1>7. TranOk(u, {})
  <2>1. \A m \in Waits(u) : m \in out => m \in {}
    BY <1>5, <1>6
  <2> QED BY <2>1, <1>6, OutLess
<1>8. u.requests = tran.requests
  BY <1>3, <1>4, <1>5, RequestsStay
<1> QED BY <1>3, <1>5, <1>7, <1>8, ThreadNext

(* The invariant holds at first, and every step keeps it.                    *)
LEMMA InitOk ==
  ASSUME GoodTransfers, TranInit
  PROVE  TranInv
<1>1. PICK plan \in Plans :
        tran = [plan |-> plan, asked |-> << >>, answers |-> << >>, requests |-> {}, pipes |-> {}, commit |-> NULL,
                fileio_threads |-> 0, threads |-> << >>, disk |-> << >>,
                socks |-> [h \in Sockets |->
                            [state |-> "open", writes |-> << >>, reads |-> << >>,
                             out |-> << >>, incoming |-> Incoming(h)]]]
  BY DEF TranInit
<1>2. /\ DOMAIN tran = TranFields /\ tran.plan = plan /\ tran.asked = << >> /\ tran.answers = << >>
      /\ tran.requests = {} /\ tran.commit = NULL /\ tran.fileio_threads = 0 /\ tran.threads = << >>
      /\ tran.socks = [h \in Sockets |-> [state |-> "open", writes |-> << >>, reads |-> << >>,
                                          out |-> << >>, incoming |-> Incoming(h)]]
  BY <1>1 DEF TranFields
<1>3. IsSeq(<< >>) /\ Len(<< >>) = 0 /\ 1 .. 0 = {}
  BY EmptyIs
<1>4. \A h \in Sockets : /\ DOMAIN tran.socks[h] = SockFields
                         /\ tran.socks[h].writes = << >> /\ tran.socks[h].reads = << >>
  BY <1>2 DEF SockFields
<1>5. DOMAIN tran.socks = Sockets
  BY <1>2
<1>6. Good(plan)
  <2>1. /\ plan = [i \in 1 .. Len(plan) |-> plan[i]] /\ Len(plan) \in Nat
        /\ \A i \in DOMAIN plan : /\ plan[i].kind \in Kinds
                                  /\ plan[i].kind \in {"putb", "puth", "getb", "geth", "putf", "getf"} =>
                                       plan[i].socket \in Sockets
    BY DEF GoodTransfers
  <2>2. DOMAIN plan = 1 .. Len(plan)
    BY <2>1
  <2>3. Transfers = {"putb", "puth", "getb", "geth", "putf", "getf"}
    BY DEF Transfers, BlockKinds, FileKinds, Puts, Gets
  <2> QED BY <2>1, <2>2, <2>3 DEF Good, IsSeq
<1>7. Good(<< >>)
  BY <1>3 DEF Good
<1>8. Shape(tran)
  BY <1>2, <1>3, <1>4, <1>5, <1>6, <1>7 DEF Shape
<1>9. Waits(tran) = {}
  <2>1. Running(tran) = {}
    BY <1>2, <1>3, <1>8, RunningIs
  <2> QED BY <2>1, <1>2 DEF Waits
<1>10. RequestsOk(tran.requests, tran.asked) /\ RequestsToCome(tran.requests, tran.socks, {}) /\ Started(tran)
  BY <1>2 DEF RequestsOk, RequestsToCome, Started
<1>11. ThreadsOk(tran.threads, tran.asked) /\ ThreadsToCome(tran.threads, tran.socks, {})
  BY <1>2, <1>3 DEF ThreadsOk, ThreadsToCome
<1>12. EntriesOk(tran.socks, tran.asked)
  BY <1>3, <1>4 DEF EntriesOk, AllAsked
<1>13. AnswersOk(tran.answers, tran.asked, {}) /\ CommitsOk(tran.answers, tran.asked, {}, tran.commit)
  BY <1>2, <1>3 DEF AnswersOk, CommitsOk
<1>14. LostOk(tran.answers, tran.asked, {}, tran.socks)
  BY <1>2, <1>3 DEF LostOk
<1>15. CountOk(tran.threads, tran.fileio_threads)
  <2>1. {k \in 1 .. 0 : tran.threads[k].id # 0} = {}
    BY <1>3
  <2> QED BY <2>1, <1>2, <1>3, FS_EmptySet DEF CountOk
<1> QED BY <1>8, <1>9, <1>10, <1>11, <1>12, <1>13, <1>14, <1>15 DEF TranInv, TranOk

LEMMA TranNextKeeps ==
  ASSUME TranInv, TranNext
  PROVE  TranInv'
<1>1. CASE AskTransfer
  BY <1>1, AskNext
<1>2. ASSUME NEW h \in Sockets, SockWrite(h) PROVE TranInv'
  BY <1>2, SockWriteNext
<1>3. ASSUME NEW h \in Sockets, SockRead(h) PROVE TranInv'
  BY <1>3, SockReadNext
<1>4. ASSUME NEW h \in Sockets, NEW how \in {"closed", "error"}, SockEnd(h, how) PROVE TranInv'
  BY <1>4, EndNext DEF SockEnd
<1>5. ASSUME NEW h \in Sockets, SockGone(h) PROVE TranInv'
  <2>1. tran.socks[h].state \in {"closed", "error"}
    <3>1. tran.socks[h].state \in {"open", "closed", "error"}
      BY DEF TranInv, TranOk, Shape
    <3> QED BY <3>1, <1>5 DEF SockGone
  <2> QED BY <2>1, <1>5, EndNext DEF SockGone
<1>6. ASSUME NEW k \in Running(tran), FileFails(k) PROVE TranInv'
  BY <1>6, FailNext
<1> QED BY <1>1, <1>2, <1>3, <1>4, <1>5, <1>6 DEF TranNext

-----------------------------------------------------------------------------
(* The invariant holds in every state that can be reached.                  *)
LEMMA TranInvHolds ==
  ASSUME GoodTransfers
  PROVE  TranSpec => []TranInv
<1>1. TranInit => TranInv
  BY InitOk
<1>2. TranInv /\ [TranNext]_tran => TranInv'
  <2>1. TranInv /\ TranNext => TranInv'
    BY TranNextKeeps
  <2>2. TranInv /\ UNCHANGED tran => TranInv'
    BY DEF TranInv
  <2> QED BY <2>1, <2>2
<1> QED BY <1>1, <1>2, PTL DEF TranSpec

(* Who waits, by the answers, is who the invariant says.                     *)
LEMMA WaitingIs ==
  ASSUME TranInv
  PROVE  /\ DOMAIN tran.answers = 1 .. Len(tran.answers) /\ Len(tran.answers) \in Nat
         /\ \A n : Waiting(n) <=> n \in Waits(tran)
         /\ \A n \in BlockAsks \cup FileAsks : n \in 1 .. Len(tran.asked) /\ tran.asked[n].kind \in Transfers
         /\ \A n \in 1 .. Len(tran.asked) : tran.asked[n].kind \in BlockKinds => n \in BlockAsks
<1>1. Shape(tran)
  BY DEF TranInv, TranOk
<1>2. /\ DOMAIN tran.answers = 1 .. Len(tran.answers) /\ Len(tran.answers) \in Nat
      /\ DOMAIN tran.asked = 1 .. Len(tran.asked)
  <2>1. IsSeq(tran.answers) /\ IsSeq(tran.asked)
    BY <1>1 DEF Shape, Good
  <2>2. \A s : IsSeq(s) => DOMAIN s = 1 .. Len(s) /\ Len(s) \in Nat
    <3>1. ASSUME NEW s, IsSeq(s) PROVE DOMAIN s = 1 .. Len(s) /\ Len(s) \in Nat
      <4>1. PICK S : s \in Seq(S)
        BY <3>1, SeqIs
      <4> QED BY <4>1
    <3> QED BY <3>1
  <2> QED BY <2>1, <2>2
<1>3. \A n : Waiting(n) <=> n \in Waits(tran)
  BY DEF Waiting, Waits, request_lookup, ThreadOf
<1>4. \A n \in BlockAsks \cup FileAsks : n \in 1 .. Len(tran.asked) /\ tran.asked[n].kind \in Transfers
  BY <1>2 DEF BlockAsks, FileAsks, KindOf, Transfers, BlockKinds, FileKinds
<1>5. \A n \in 1 .. Len(tran.asked) : tran.asked[n].kind \in BlockKinds => n \in BlockAsks
  BY <1>2 DEF BlockAsks, KindOf, BlockKinds
<1> QED BY <1>2, <1>3, <1>4, <1>5

(* The three properties follow from the invariant.                           *)
LEMMA AnsweredOnceIs ==
  ASSUME TranInv
  PROVE  AnsweredOnce
<1>1. /\ AnswersOk(tran.answers, tran.asked, Waits(tran))
      /\ LostOk(tran.answers, tran.asked, Waits(tran), tran.socks)
  BY DEF TranInv, TranOk
<1>2. ASSUME NEW n \in BlockAsks \cup FileAsks
      PROVE  /\ \A i \in AnswersTo(n) : /\ AnswersTo(n) = {i} /\ ~Waiting(n)
                                        /\ tran.answers[i].kind \in {OkOf[KindOf(n)], "closed", "error"}
             /\ AnswersTo(n) = {} /\ ~Waiting(n) =>
                  /\ n \in BlockAsks /\ tran.socks[tran.asked[n].socket].state = "closed"
                  /\ \E m \in BlockAsks : \E i \in AnswersTo(m) :
                       tran.asked[m].socket = tran.asked[n].socket /\ tran.answers[i].kind = "closed"
  <2>1. n \in 1 .. Len(tran.asked) /\ tran.asked[n].kind \in Transfers
    BY WaitingIs
  <2>2. \A m : AnswersTo(m) = {i \in 1 .. Len(tran.answers) : tran.answers[i].to = m}
    BY WaitingIs DEF AnswersTo
  <2>3. ASSUME NEW i \in AnswersTo(n)
        PROVE  /\ AnswersTo(n) = {i} /\ ~Waiting(n)
               /\ tran.answers[i].kind \in {OkOf[KindOf(n)], "closed", "error"}
    <3>1. /\ tran.answers[i].kind \in {OkOf[tran.asked[n].kind], "closed", "error"}
          /\ n \notin Waits(tran)
          /\ \A j \in 1 .. Len(tran.answers) : tran.answers[j].to = n => j = i
      BY <1>1, <2>1, <2>2 DEF AnswersOk
    <3>2. AnswersTo(n) = {i}
      BY <2>2, <3>1
    <3> QED BY <3>1, <3>2, WaitingIs DEF KindOf
  <2>4. ASSUME AnswersTo(n) = {}, ~Waiting(n)
        PROVE  /\ n \in BlockAsks /\ tran.socks[tran.asked[n].socket].state = "closed"
               /\ \E m \in BlockAsks : \E i \in AnswersTo(m) :
                    tran.asked[m].socket = tran.asked[n].socket /\ tran.answers[i].kind = "closed"
    <3>1. ~Has(tran.answers, n) /\ n \notin Waits(tran)
      BY <2>2, <2>4, WaitingIs DEF Has
    <3>2. tran.asked[n].kind \in BlockKinds /\ tran.socks[tran.asked[n].socket].state = "closed"
      BY <1>1, <2>1, <3>1 DEF LostOk
    <3>3. PICK i \in 1 .. Len(tran.answers) :
            LET m == tran.answers[i].to
            IN  /\ m \in 1 .. Len(tran.asked) /\ tran.asked[m].kind \in BlockKinds
                /\ tran.asked[m].socket = tran.asked[n].socket /\ tran.answers[i].kind = "closed"
      BY <1>1, <2>1, <3>1 DEF LostOk
    <3>4. tran.answers[i].to \in BlockAsks /\ i \in AnswersTo(tran.answers[i].to) /\ n \in BlockAsks
      BY <2>1, <2>2, <3>2, <3>3, WaitingIs
    <3> QED BY <3>2, <3>3, <3>4
  <2> QED BY <2>3, <2>4
<1> QED BY <1>2 DEF AnsweredOnce

LEMMA SomethingIsToCome ==
  ASSUME TranInv
  PROVE  SomethingToCome
<1>1. /\ Shape(tran) /\ RequestsOk(tran.requests, tran.asked) /\ ThreadsOk(tran.threads, tran.asked)
      /\ RequestsToCome(tran.requests, tran.socks, {}) /\ ThreadsToCome(tran.threads, tran.socks, {})
      /\ Started(tran)
  BY DEF TranInv, TranOk
<1>2. ASSUME NEW n \in BlockAsks \cup FileAsks, Waiting(n), ~\E r \in request_lookup(tran, n) : r.pipe /= NULL
      PROVE  LET s == tran.socks[tran.asked[n].socket]
             IN  n \in {s.writes[i].id : i \in DOMAIN s.writes} \cup {s.reads[i].id : i \in DOMAIN s.reads}
  <2>0. PICK s : s = tran.socks[tran.asked[n].socket]
    OBVIOUS
  <2>1. n \in 1 .. Len(tran.asked) /\ tran.asked[n].kind \in Transfers
    BY WaitingIs
  <2>2. tran.asked[n].socket \in Sockets
    BY <1>1, <2>1 DEF Shape, Good
  <2>3. DOMAIN s.writes = 1 .. Len(s.writes) /\ DOMAIN s.reads = 1 .. Len(s.reads)
    <3>1. IsSeq(s.writes) /\ IsSeq(s.reads)
      BY <1>1, <2>0, <2>2 DEF Shape
    <3>2. PICK S : s.writes \in Seq(S)
      BY <3>1, SeqIs
    <3>3. PICK R : s.reads \in Seq(R)
      BY <3>1, SeqIs
    <3> QED BY <3>2, <3>3
  <2>4. Entry(s, n)
    <3>1. CASE request_lookup(tran, n) # {}
      <4>1. PICK r \in tran.requests : r.id = n /\ r.pipe = NULL
        BY <3>1, <1>2 DEF request_lookup
      <4>2. r.in_progress /\ r.handle = tran.asked[n].socket
        BY <4>1, <1>1 DEF Started, RequestsOk
      <4> QED BY <4>1, <4>2, <2>0, <1>1 DEF RequestsToCome
    <3>2. CASE ThreadOf(tran, n) # {}
      <4>1. PICK k \in Running(tran) : tran.threads[k].id = n
        BY <3>2 DEF ThreadOf
      <4>2. k \in 1 .. Len(tran.threads) /\ tran.threads[k].id # 0
        BY <1>1, RunningIs
      <4>3. tran.threads[k].handle = tran.asked[n].socket
        BY <4>1, <4>2, <1>1 DEF ThreadsOk
      <4> QED BY <4>1, <4>2, <4>3, <2>0, <1>1 DEF ThreadsToCome
    <3> QED BY <3>1, <3>2, <1>2 DEF Waiting
  <2>5. n \in {s.writes[i].id : i \in DOMAIN s.writes} \cup {s.reads[i].id : i \in DOMAIN s.reads}
    BY <2>3, <2>4 DEF Entry
  <2> QED BY <2>0, <2>5
<1> QED BY <1>2 DEF SomethingToCome

LEMMA CommitIsLast ==
  ASSUME TranInv
  PROVE  CommitWaits
<1>1. /\ Shape(tran) /\ AnswersOk(tran.answers, tran.asked, Waits(tran))
      /\ CommitsOk(tran.answers, tran.asked, Waits(tran), tran.commit)
      /\ CountOk(tran.threads, tran.fileio_threads)
  BY DEF TranInv, TranOk
<1>2. \A m : AnswersTo(m) = {i \in 1 .. Len(tran.answers) : tran.answers[i].to = m}
  BY WaitingIs DEF AnswersTo
<1>3. tran.fileio_threads >= Cardinality(Running(tran))
  <2>1. Cardinality(Running(tran)) <= tran.fileio_threads
    BY <1>1, RunningIs DEF CountOk
  <2> QED BY <2>1
<1>4. ASSUME NEW p \in DOMAIN tran.answers, KindOf(tran.answers[p].to) = "commit",
             NEW n \in BlockAsks \cup FileAsks, n < tran.answers[p].to, AnswersTo(n) # {}
      PROVE  \E q \in AnswersTo(n) : q < p
  <2>1. p \in 1 .. Len(tran.answers) /\ tran.answers[p].to \in 1 .. Len(tran.asked)
    BY <1>1, WaitingIs DEF AnswersOk
  <2>2. n \in 1 .. Len(tran.asked) /\ tran.asked[n].kind \in Transfers
    BY WaitingIs
  <2>3. n \in 1 .. tran.answers[p].to - 1
    BY <1>4, <2>1, <2>2
  <2>4. \A j \in 1 .. Len(tran.answers) : tran.answers[j].to = n => j < p
    BY <1>1, <1>4, <2>1, <2>2, <2>3 DEF CommitsOk, KindOf
  <2> QED BY <2>4, <1>2, <1>4
<1>5. tran.commit = NULL \/ AnswersTo(tran.commit) = {}
  BY <1>1, <1>2 DEF CommitsOk, Has
<1> QED BY <1>3, <1>4, <1>5 DEF CommitWaits

(* smttran.c:850: whatever the clients ask for and in whatever order the    *)
(* sockets answer and end, nobody is answered twice or with the answer of   *)
(* another; who gets no answer asked for a block on a socket that closed    *)
(* while another request on it was answered.                                *)
THEOREM TransfersAnsweredOnce ==
  ASSUME GoodTransfers
  PROVE  TranSpec => []AnsweredOnce
<1>1. TranSpec => []TranInv
  BY TranInvHolds
<1>2. TranInv => AnsweredOnce
  BY AnsweredOnceIs
<1> QED BY <1>1, <1>2, PTL

(* A request without a pipe, and a file, that wait have something to come   *)
(* from their socket: put_request and get_request are never missed.         *)
THEOREM TransfersComeOn ==
  ASSUME GoodTransfers
  PROVE  TranSpec => []SomethingToCome
<1>1. TranSpec => []TranInv
  BY TranInvHolds
<1>2. TranInv => SomethingToCome
  BY SomethingIsToCome
<1> QED BY <1>1, <1>2, PTL

(* smttran.c:1405: a commit is answered after everybody who asked before it *)
(* and gets an answer, and the count of the threads never falls short.      *)
THEOREM CommitsComeLast ==
  ASSUME GoodTransfers
  PROVE  TranSpec => []CommitWaits
<1>1. TranSpec => []TranInv
  BY TranInvHolds
<1>2. TranInv => CommitWaits
  BY CommitIsLast
<1> QED BY <1>1, <1>2, PTL
=============================================================================
