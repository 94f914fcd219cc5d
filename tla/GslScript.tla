----------------------------- MODULE GslScript -----------------------------
(***************************************************************************)
(* Loading a script (agent ggscrp, ggscrp.c).  The parser gives one node   *)
(* per line; the loader links the lines of a block to the line that ends   *)
(* its part (block_end) and every line to the loop around it (loop_start). *)
(* An interpreter that skips a block or goes back to the top of a loop     *)
(* follows these links and knows nothing else of the nesting.              *)
(*                                                                         *)
(* A line is its index in the script, 0 the null pointer.                  *)
(***************************************************************************)
EXTENDS Integers, Sequences, SequencesExt, FiniteSetsExt

CONSTANTS
  NULL,
  Source           \* the scripts: sequences of nodes [type, name]

VARIABLES
  source,          \* the script that is read
  script,          \* its lines, as far as they are loaded
  load             \* the loader: control_stack, control, loop_start, error and phase,
                   \* and whether a line was refused, which only the properties use

svars == <<source, script, load>>

Loops   == {"for", "while", "macro", "function"}
Plain   == {"scope", "new", "template"}
Openers == {"if"} \cup Loops \cup Plain
EndOf   == [endif |-> "if", endfor |-> "for", endwhile |-> "while", endmacro |-> "macro",
            endfunction |-> "function", endscope |-> "scope", endnew |-> "new",
            endtemplate |-> "template"]
Enders  == DOMAIN EndOf
Marks   == Enders \cup {"else", "elsif"}

NoControl == [type |-> "undefined", line |-> 0]

SInit ==
  /\ source \in Source
  /\ script = << >>
  /\ load = [control_stack |-> << >>, control |-> NoControl, loop_start |-> 0,
             error |-> FALSE, refused |-> FALSE, phase |-> "reading"]

-----------------------------------------------------------------------------
(* save_the_node.                                                           *)
SaveTheNode(node) ==
  Append(script, [type |-> node.type, name |-> node.name,
                  loop_start |-> load.loop_start, block_end |-> 0])

(* Mutant: blocks that have ended are not stepped over.                     *)
LinkAll(lines, first) ==
  [i \in DOMAIN lines |-> IF i \in first .. Len(lines) - 1 THEN [lines[i] EXCEPT !.block_end = Len(lines)]
                          ELSE lines[i]]

(* pop_control: every line on the way from the control's line to the last  *)
(* one gets that as its end; blocks that have ended are stepped over.      *)
LinkTo(lines, first) ==
  LET last == Len(lines)
      Step(w, i) ==
        IF i # w.at THEN w
        ELSE IF w.lines[i].block_end # 0 THEN [w EXCEPT !.at = w.lines[i].block_end]
        ELSE [lines |-> [w.lines EXCEPT ![i].block_end = last], at |-> i + 1]
  IN  FoldLeft(Step, [lines |-> lines, at |-> first], [k \in 1 .. last - first |-> first + k - 1]).lines

Popped(l) ==
  IF l.control_stack = << >> THEN [l EXCEPT !.control = NoControl]
  ELSE [l EXCEPT !.control = Last(l.control_stack), !.control_stack = Front(l.control_stack)]

Matches(l, types) == l.control_stack # << >> /\ Last(l.control_stack).type \in types

Push(l, type) == [l EXCEPT !.control_stack = Append(@, [type |-> type, line |-> Len(script) + 1])]

(* The exception for an unmatched control leaves out the rest of the list, *)
(* reports the error, and reads on.                                         *)
Unmatched(l) == [l EXCEPT !.error = TRUE]

(* get_previous_loop_start.                                                 *)
Outer(l) == [l EXCEPT !.loop_start = script[l.loop_start].loop_start]

-----------------------------------------------------------------------------
Node == source[Len(script) + 1]

Reads(types) ==
  /\ load.phase = "reading" /\ Len(script) < Len(source)
  /\ Node.type \in types
  /\ UNCHANGED source

Other ==
  /\ Reads({"other", "call", "return", "next", "last"})
  /\ script' = SaveTheNode(Node) /\ UNCHANGED load

(* Push-The-Control, after Save-Loop-Start for what next and last, or the  *)
(* end of a macro, look for.                                                *)
Opens ==
  /\ Reads(Openers)
  /\ script' = SaveTheNode(Node)
  /\ load' = [Push(load, Node.type) EXCEPT
                !.loop_start = IF Node.type \in Loops THEN Len(script) + 1 ELSE @]

(* A line that ends a control of one of these types.                        *)
Ends(types) ==
  /\ Reads(Marks)
  /\ IF Matches(load, types) THEN script' = LinkTo(SaveTheNode(Node), Last(load.control_stack).line)
     ELSE script' = SaveTheNode(Node)

EndsPlain ==
  /\ Reads({"endscope", "endnew", "endtemplate"})
  /\ Ends({EndOf[Node.type]})
  /\ load' = IF Matches(load, {EndOf[Node.type]}) THEN Popped(load) ELSE Unmatched(Popped(load))

EndsLoop ==
  /\ Reads({"endwhile", "endmacro", "endfunction"})
  /\ Ends({EndOf[Node.type]})
  /\ load' = IF Matches(load, {EndOf[Node.type]}) THEN Outer(Popped(load)) ELSE Unmatched(Popped(load))

Elsif ==
  /\ Reads({"elsif"})
  /\ Ends({"if"})
  /\ load' = IF Matches(load, {"if"}) THEN Push(Popped(load), "if") ELSE Unmatched(Popped(load))

Else ==
  /\ Reads({"else"})
  /\ Ends({"if", "for"})
  /\ load' = IF Matches(load, {"if", "for"}) THEN Push(Popped(load), "else")
             ELSE Unmatched(Popped(load))

(* Whether the else that has been popped is that of the present loop.       *)
ElseOfLoop(l) == l.loop_start # 0 /\ script[l.loop_start].block_end = l.control.line

(* After-End-If: an else must not be that of a for (confirm_if_block).      *)
EndIf ==
  /\ Reads({"endif"})
  /\ Ends({"if", "else"})
  /\ LET popped == Popped(load)
     IN  load' = IF ~Matches(load, {"if", "else"}) \/ (popped.control.type = "else" /\ ElseOfLoop(popped))
                   THEN Unmatched(popped)
                 ELSE popped

(* After-End-For: an else must be that of the loop (confirm_for_loop).      *)
EndFor ==
  /\ Reads({"endfor"})
  /\ Ends({"for", "else"})
  /\ LET popped == Popped(load)
     IN  load' = IF ~Matches(load, {"for", "else"}) \/ (popped.control.type = "else" /\ ~ElseOfLoop(popped))
                   THEN Unmatched(popped)
                 ELSE Outer(popped)

(* What the parser refuses is reported, and gives no line; here the script *)
(* goes on behind it.                                                       *)
ParseError ==
  /\ Reads({"bad"})
  /\ source' = RemoveAt(source, Len(script) + 1)
  /\ load' = [load EXCEPT !.error = TRUE, !.refused = TRUE]
  /\ UNCHANGED script

(* The text of an incoming line is read up to its terminator, or is not     *)
(* terminated.                                                               *)
Incoming ==
  /\ Reads({"incoming"})
  /\ script' = SaveTheNode(Node)
  /\ load' \in {load, [load EXCEPT !.error = TRUE, !.refused = TRUE, !.control_stack = << >>,
                                   !.phase = "rejected"]}

(* At the end of the file a control may be left over; return_done.          *)
EndOfFile ==
  /\ load.phase = "reading" /\ Len(script) = Len(source)
  /\ LET left == load.control_stack # << >>
     IN  load' = [Popped(load) EXCEPT !.error = @ \/ left, !.control_stack = << >>,
                    !.phase = IF load.error \/ left THEN "rejected" ELSE "loaded"]
  /\ UNCHANGED <<source, script>>

Load ==
  Other \/ Opens \/ EndsPlain \/ EndsLoop \/ Elsif \/ Else \/ EndIf \/ EndFor \/ ParseError
  \/ Incoming \/ EndOfFile

-----------------------------------------------------------------------------
(* The nesting of a script, from the script alone.                          *)
Type(i)   == script[i].type
Lines     == DOMAIN script
Depth(i)  == Cardinality({k \in 1 .. i - 1 : Type(k) \in Openers})
               - Cardinality({k \in 1 .. i - 1 : Type(k) \in Enders})
(* The lines of the block that i opens: what follows at a greater depth, to *)
(* the line that ends it.                                                   *)
EndLine(i) ==
  LET ends == {k \in Lines : k > i /\ Type(k) \in Enders /\ Depth(k) = Depth(i) + 1}
  IN  IF ends = {} THEN 0 ELSE Min(ends)
Inside(i, o) == Type(o) \in Openers /\ o < i /\ i < EndLine(o)
(* The blocks around line i, its own else and elsif lines included.         *)
Around(i) == {o \in 1 .. i - 1 : Inside(i, o)}
Middle(o) == {k \in o + 1 .. EndLine(o) - 1 : Type(k) \in {"else", "elsif"} /\ Depth(k) = Depth(o) + 1}
MarksOf(o) == Middle(o) \cup {EndLine(o)}

WellNested ==
  /\ \A i \in Lines : Type(i) \in Marks => Depth(i) > 0
  /\ Depth(Len(script) + 1) = 0
  /\ \A o \in Lines : Type(o) \in Openers =>
       /\ EndOf[Type(EndLine(o))] = Type(o)
       /\ \A k \in Middle(o) :
            \/ /\ Type(k) = "elsif" /\ Type(o) = "if"
               /\ \A j \in Middle(o) : Type(j) = "else" => j > k
            \/ /\ Type(k) = "else" /\ Type(o) \in {"if", "for"}
               /\ \A j \in Middle(o) \ {k} : Type(j) # "else"

(* The end of the part of a block line i is in: for a line that begins a   *)
(* part, of that part.                                                      *)
PartEnd(i) ==
  LET blocks == {o \in Lines : Type(o) \in Openers /\ o =< i /\ i < EndLine(o)}
  IN  IF blocks = {} THEN 0 ELSE Min({k \in MarksOf(Max(blocks)) : k > i})

LoopAround(i) ==
  LET loops == {o \in 1 .. i - 1 : Type(o) \in Loops /\ i =< EndLine(o)}
  IN  IF loops = {} THEN 0 ELSE Max(loops)

-----------------------------------------------------------------------------
(* A script is accepted when, and only when, its blocks nest and all of it  *)
(* was read: what is reported as unmatched never makes up for another line.  *)
AcceptsWhatNests ==
  load.phase \in {"loaded", "rejected"} =>
    ((load.phase = "loaded") <=> (WellNested /\ ~load.refused))

(* The links of a script that is accepted are those of its nesting.         *)
LinksAsNested ==
  load.phase = "loaded" =>
    \A i \in Lines : script[i].block_end = PartEnd(i) /\ script[i].loop_start = LoopAround(i)

(* Whatever is unmatched before it, a line that ends a loop finds one.      *)
LoopStartKnown ==
  LET loops == {k \in DOMAIN load.control_stack : load.control_stack[k].type \in Loops}
  IN  loops # {} => load.loop_start # 0
=============================================================================
