---------------------------- MODULE GslProgram ----------------------------
(***************************************************************************)
(* Running a script (agent ggcode, ggcode.c): the lines that steer, the    *)
(* stack of scopes and the stack of positions to return to.  The           *)
(* interpreter fetches the line behind the present one (gsl->line), and    *)
(* executes it; what an expression comes to, how many items a for finds,   *)
(* and that a line may fail, is left open.                                 *)
(*                                                                         *)
(* The thread executes one script to its end, or to its first error        *)
(* (execute full).                                                         *)
(***************************************************************************)
EXTENDS GslScript

CONSTANTS
  MaxItems,        \* bound on the items of a for
  MaxCalls         \* bound on the calls that are open at a time

VARIABLE run       \* line, scopes (scope_stack), calls (script_stack), macros and phase

pvars == <<svars, run>>

PInit ==
  /\ SInit
  /\ run = [line |-> 0, scopes |-> << >>, calls |-> << >>, macros |-> {}, phase |-> "idle"]

(* call_load_initial_script: a script that is rejected is not run.          *)
Execute ==
  /\ run.phase = "idle" /\ load.phase = "loaded"
  /\ run' = [run EXCEPT !.phase = "running"]
  /\ UNCHANGED svars

-----------------------------------------------------------------------------
(* Scope blocks; the predefined ones below them are left out.               *)

create_scope_block(r, type, name, left) ==
  [r EXCEPT !.scopes = Append(@, [type |-> type, name |-> name, left |-> left])]

destroy_scope_block(r) == [r EXCEPT !.scopes = Front(@)]

(* The blocks from the last one of a type on; an interpreter that finds none *)
(* goes on through the list head.                                           *)
LastOf(scopes, type) == Max({0} \cup {k \in DOMAIN scopes : scopes[k].type = type})

destroy_for_block(r) == [r EXCEPT !.scopes = SubSeq(@, 1, LastOf(@, "for") - 1)]

Wild(r) == [r EXCEPT !.phase = "wild"]
Fail(r) == [r EXCEPT !.phase = "failed"]

-----------------------------------------------------------------------------
(* Positions.                                                               *)

skip_block(r) == [r EXCEPT !.line = script[r.line].block_end]

(* The lines that are met by skipping from line i on.                       *)
RECURSIVE Skipped(_)
Skipped(i) == {i} \cup (IF Type(i) \in Enders THEN {} ELSE Skipped(script[i].block_end))
Ended(i) == CHOOSE k \in Skipped(i) : Type(k) \in Enders

block_end_type(i) == IF script[i].block_end = 0 THEN "undefined" ELSE Type(script[i].block_end)

RECURSIVE go_to_top_of_loop(_)
go_to_top_of_loop(i) ==
  LET up == script[i].loop_start
  IN  IF up = 0 \/ block_end_type(i) = "else" \/ block_end_type(up) \in {"endfor", "endwhile"}
      THEN up ELSE go_to_top_of_loop(up)

(* Up to a loop that ends with endfor, 0 when there is none.                *)
RECURSIVE UpToFor(_)
UpToFor(i) == IF i = 0 \/ block_end_type(i) = "endfor" THEN i ELSE UpToFor(go_to_top_of_loop(i))

(* The names of scope blocks are compared while the loops are left.         *)
RECURSIVE NamedTop(_, _)
NamedTop(r, name) ==
  IF r.line = 0 \/ r.scopes = << >> \/ Last(r.scopes).name \in {NULL, name} THEN r
  ELSE NamedTop([destroy_scope_block(r) EXCEPT !.line = UpToFor(go_to_top_of_loop(r.line))], name)

go_to_top_of_named_block(r, i) ==
  LET top == [r EXCEPT !.line = go_to_top_of_loop(i)]
  IN  IF script[i].name = NULL THEN top
      ELSE NamedTop([top EXCEPT !.line = UpToFor(@)], script[i].name)

(* Mutant: one block is skipped, as at the beginning of the loop.           *)
IterateSkipsOne(r) ==
  LET k == LastOf(r.scopes, "for")
      s == SubSeq(r.scopes, 1, k)
  IN  IF k = 0 THEN Wild(r)
      ELSE IF s[k].left > 0 THEN [r EXCEPT !.scopes = [s EXCEPT ![k].left = @ - 1]]
      ELSE [skip_block(r) EXCEPT !.scopes = Front(s)]

(* next_scope_item, at the top of the loop.  Without an item the loop is    *)
(* left by its endfor.                                                      *)
iterate_for_loop(r) ==
  LET k == LastOf(r.scopes, "for")
      s == SubSeq(r.scopes, 1, k)
  IN  IF k = 0 THEN Wild(r)
      ELSE IF s[k].left > 0 THEN [r EXCEPT !.scopes = [s EXCEPT ![k].left = @ - 1]]
      ELSE [r EXCEPT !.scopes = Front(s), !.line = Ended(r.line)]

(* confirm_op1_name_is_correct, go_to_top_of_block, iterate_for_loop.       *)
EndOfBody(r, i) ==
  IF r.scopes = << >> THEN Wild(r)
  ELSE IF script[i].name \notin {NULL, Last(r.scopes).name} THEN Fail(r)
  ELSE iterate_for_loop([r EXCEPT !.line = script[i].loop_start])

-----------------------------------------------------------------------------
(* The lines.  Each is fetched (get_next_script_line) and executed.         *)
At == run.line + 1

Runs(types) ==
  /\ run.phase = "running" /\ At \in Lines /\ Type(At) \in types
  /\ UNCHANGED svars

Here == [run EXCEPT !.line = At]

Straight ==
  /\ Runs({"other", "incoming", "template", "endtemplate", "endif"})
  /\ run' = Here

(* What is evaluated for a line may be undefined, a class may have no such  *)
(* function, a scope not be found.                                          *)
LineFails ==
  /\ Runs({"other", "incoming", "for", "endfor", "scope", "new", "endscope", "endnew", "while", "endwhile", "if",
           "next", "last", "macro", "function", "call", "return"})
  /\ run' = Fail(Here)

(* initialise_for_block; what the where clause rejects is not an item.      *)
For ==
  /\ Runs({"for"})
  /\ \E n \in 0 .. MaxItems :
       run' = IF n = 0 THEN skip_block(Here)
              ELSE create_scope_block(Here, "for", script[At].name, n - 1)

(* The end of the body, or of the else of the loop.                         *)
RunEndFor ==
  /\ Runs({"endfor"})
  /\ run' = IF block_end_type(script[At].loop_start) = "else" THEN Here ELSE EndOfBody(Here, At)

OpenScope ==
  /\ Runs({"scope", "new"})
  /\ run' = create_scope_block(Here, Type(At), script[At].name, 0)

EndScope ==
  /\ Runs({"endscope", "endnew"})
  /\ run' = IF script[At].name \notin {NULL, Last(run.scopes).name} THEN Fail(Here)
            ELSE destroy_scope_block(Here)

(* The condition is evaluated at the top of the loop.                       *)
WhileCondition(r) == run' \in {r, skip_block(r)}

While ==
  /\ Runs({"while"})
  /\ WhileCondition(Here)

EndWhile ==
  /\ Runs({"endwhile"})
  /\ WhileCondition([run EXCEPT !.line = script[At].loop_start])

(* The first part whose condition holds, else, or nothing.                  *)
If ==
  /\ Runs({"if"})
  /\ \E k \in Skipped(At) :
       /\ Type(k) = "endif" => \A j \in Skipped(At) : Type(j) # "else"
       /\ run' = [run EXCEPT !.line = k]

(* The end of a part that has run: the rest is skipped, and an endfor that  *)
(* is met ends the body of a loop.                                          *)
EndOfPart ==
  /\ Runs({"else", "elsif"})
  /\ LET r == [run EXCEPT !.line = Ended(At)]
     IN  run' = IF Type(r.line) = "endfor" THEN EndOfBody(r, r.line) ELSE r

(* An event the dialog does not know in this state.                         *)
Illegal(r) == [r EXCEPT !.phase = "illegal"]

(* Iterating-Loop.                                                          *)
Next1 ==
  /\ Runs({"next"})
  /\ LET r == go_to_top_of_named_block(run, At)
     IN  IF r.line = 0 THEN run' = Fail(Here)
         ELSE CASE Type(r.line) = "for"   -> run' = iterate_for_loop(r)
                [] Type(r.line) = "while" -> WhileCondition(r)
                [] OTHER                  -> run' = Illegal(r)

(* Terminating-Loop: behind an else the endfor is skipped to.               *)
Last1 ==
  /\ Runs({"last"})
  /\ LET r == go_to_top_of_named_block(run, At)
     IN  run' = IF r.line = 0 THEN Fail(Here)
                ELSE CASE block_end_type(r.line) = "endwhile" -> skip_block(r)
                       [] block_end_type(r.line) \in {"endfor", "else"} ->
                            destroy_for_block([r EXCEPT !.line = Ended(@)])
                       [] OTHER -> Illegal(r)

(* register_macro_or_function, in the first scope.                          *)
Macro ==
  /\ Runs({"macro", "function"})
  /\ run' = [skip_block(Here) EXCEPT !.macros = {k \in @ : script[k].name # script[At].name} \cup {At}]

(* push_script_position and initialise_macro_block; nothing of that name.   *)
Call ==
  /\ Runs({"call"})
  /\ Len(run.calls) < MaxCalls
  /\ LET found == {k \in run.macros : script[k].name = script[At].name}
     IN  run' = IF found = {} THEN Fail(Here)
                ELSE LET r == create_scope_block(create_scope_block(run, "macro", script[At].name, 0),
                                                 "my", "my", 0)
                     IN  [r EXCEPT !.calls = Append(@, At), !.line = Max(found)]

(* Mutant: the two blocks that a call creates are destroyed.                *)
ReturnPopsTwo ==
  /\ Runs({"return", "endmacro", "endfunction"})
  /\ LET n == Len(run.scopes)
     IN  run' = IF n < 2 \/ run.calls = << >> THEN Fail([run EXCEPT !.scopes = << >>])
                ELSE [run EXCEPT !.scopes = SubSeq(@, 1, n - 2),
                                 !.calls = Front(@), !.line = Last(run.calls)]

(* close_macro_block and pop_script_position.                               *)
Return ==
  /\ Runs({"return", "endmacro", "endfunction"})
  /\ LET k == LastOf(run.scopes, "macro")
     IN  run' = IF k = 0 THEN Fail([run EXCEPT !.scopes = << >>])
                ELSE [run EXCEPT !.scopes = SubSeq(@, 1, k - 1),
                                 !.calls = Front(@), !.line = Last(run.calls)]

EndOfScript ==
  /\ run.phase = "running" /\ At \notin Lines
  /\ run' = IF run.calls = << >> THEN [run EXCEPT !.phase = "done"]
            ELSE [run EXCEPT !.calls = Front(@), !.line = Last(run.calls)]
  /\ UNCHANGED svars

Step ==
  \/ Straight \/ LineFails \/ For \/ RunEndFor \/ OpenScope \/ EndScope \/ While \/ EndWhile
  \/ If \/ EndOfPart \/ Next1 \/ Last1 \/ Macro \/ Call \/ Return

PNext == (Load /\ UNCHANGED run) \/ Execute \/ Step \/ EndOfScript

PSpec == PInit /\ [][PNext]_pvars

-----------------------------------------------------------------------------
(* What the structure of a script asks for.                                 *)

Blocks == {o \in Lines : Type(o) \in Openers}
ElseOf(o) == {k \in Middle(o) : Type(k) = "else"}
(* The lines that run with a scope of o: not those of the else of a for.    *)
InScope(i, o) == o < i /\ i =< (IF Type(o) = "for" THEN Min(MarksOf(o)) ELSE EndLine(o))
(* The macro around line i, or 0.                                           *)
MacroOf(i) == Max({0} \cup {o \in Blocks : Type(o) \in {"macro", "function"} /\ o < i /\ i =< EndLine(o)})

LoopsAround(i) ==
  {o \in Blocks : o > MacroOf(i) /\ Type(o) \in {"for", "while"} /\ InScope(i, o) /\ i < EndLine(o)}

(* The loop that next and last are for.                                     *)
Target(i) ==
  Max({0} \cup (IF script[i].name = NULL THEN LoopsAround(i)
                ELSE {o \in LoopsAround(i) : Type(o) = "for" /\ script[o].name = script[i].name}))

(* A next or last whose loop the interpreter finds: there is one; no scope  *)
(* is on the way; a for with an else on the way, or a loop with an else      *)
(* that is gone to, has the line in itself and not in a block of its own.   *)
Clear(i) ==
  LET t == Target(i)
      between == {o \in Blocks : t < o /\ Inside(i, o)}
  IN  /\ t # 0
      /\ \A o \in between : /\ Type(o) \notin {"scope", "new"}
                            /\ ElseOf(o) = {} \/ Type(o) = "if" \/ PartEnd(i) = EndLine(o)
      /\ ElseOf(t) = {} \/ (between = {} /\ script[i].name = NULL)

ClearScript == \A i \in Lines : Type(i) \in {"next", "last"} => Clear(i)

(* Where a line leads to.                                                   *)
Leads(i) ==
  LET o == Max({0} \cup {b \in Blocks : Inside(i, b) \/ EndLine(b) = i})
      After(b) == EndLine(b) + 1
      Otherwise(b)  == IF ElseOf(b) = {} THEN After(b) ELSE Max(ElseOf(b)) + 1
  IN  CASE Type(i) = "if"  -> {i + 1, Otherwise(i)} \cup {k + 1 : k \in Middle(i)}
        [] Type(i) = "for" -> {i + 1, Otherwise(i)}
        [] Type(i) = "while" -> {i + 1, After(i)}
        [] Type(i) \in {"else", "elsif"} -> IF Type(o) = "if" THEN {After(o)} ELSE {o + 1, After(o)}
        [] Type(i) = "endfor" -> IF ElseOf(o) = {} THEN {o + 1, After(o)} ELSE {i + 1}
        [] Type(i) = "endwhile" -> {o + 1, After(o)}
        [] Type(i) = "next" -> {Target(i) + 1, After(Target(i))}
        [] Type(i) = "last" -> {After(Target(i))}
        [] Type(i) \in {"macro", "function"} -> {After(i)}
        [] Type(i) = "call" -> {k + 1 : k \in {k \in run.macros : script[k].name = script[i].name}}
        [] Type(i) \in {"return", "endmacro", "endfunction"} ->
             IF run.calls = << >> THEN {} ELSE {Last(run.calls) + 1}
        [] OTHER -> {i + 1}

(* Every line leads to where the nesting of the script says.                *)
StepFollows ==
  run.phase = "running" /\ run'.phase = "running" /\ At \in Lines /\ ClearScript
    => run'.line + 1 \in Leads(At)

FollowsNesting == [][StepFollows]_pvars

(* The scopes that are open are those of the blocks around the line that is *)
(* next, in each of the calls under way.                                    *)
ScopesOf(i) ==
  LET open == {o \in Blocks : o > MacroOf(i) /\ Type(o) \in {"for", "scope", "new"} /\ InScope(i, o)}
      Block(o) == [type |-> Type(o), name |-> script[o].name]
  IN  [k \in 1 .. Cardinality(open) |->
         Block(CHOOSE o \in open : Cardinality({b \in open : b < o}) = k - 1)]

ScopesMatch ==
  run.phase = "running" /\ ClearScript =>
    LET places == Append(run.calls, At)
        Frame(i) == <<[type |-> "macro", name |-> script[i].name], [type |-> "my", name |-> "my"]>>
        Segment(k) == IF k = 1 THEN ScopesOf(places[1])
                      ELSE Frame(places[k - 1]) \o ScopesOf(places[k])
    IN  [k \in DOMAIN run.scopes |-> [type |-> run.scopes[k].type, name |-> run.scopes[k].name]]
          = FlattenSeq([k \in DOMAIN places |-> Segment(k)])

(* The interpreter never looks for a scope that is not there, and its       *)
(* dialog never gets an event it does not know.                             *)
NeverLost == run.phase \in {"wild", "illegal"} => ~ClearScript
=============================================================================
