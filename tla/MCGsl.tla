------------------------------- MODULE MCGsl -------------------------------
(***************************************************************************)
(* The parts of GSL that run by themselves, for model checking: every      *)
(* behaviour is of one of them, the subject, and the others rest.          *)
(***************************************************************************)
EXTENDS MCScripts, MCLines

VARIABLES
  subject,
  source, script, load, run,               \* of programs
  parse,                                   \* of lines
  calc                                     \* of expressions

G == INSTANCE GslProgram WITH NULL <- NoName, Source <- AllScripts, MaxItems <- 2, MaxCalls <- 2

P == INSTANCE GslParser WITH Lines <- AllLines

(* The expressions: up to three operators, literals of one and of several   *)
(* parts with substitutions in them, and two symbols that are undefined,    *)
(* numbers, items, texts that are numbers, nearly numbers, or empty.        *)
X == INSTANCE GslExpr WITH NULL <- NoName, Trees <- {}, Environments <- {}

XLeaves ==
  {X!Literal(X!TextNode(s)) : s \in {<<30, 31>>, <<5>>}} \cup {X!NumberNode(n) : n \in {20, 0}}
    \cup {X!Symbol([name |-> n, written |-> <<20, 34>>]) : n \in {"x", "y"}}
XWhole == X!Symbol([name |-> "x", written |-> <<20, 34>>])
YWhole == X!Symbol([name |-> "y", written |-> <<30, 34>>])
XOperators == {"+", "-", "*", "/", "|", "&", "?", "??",
               "=", "<>", "<", ">", "<=", ">=", "?=", "?<>", "?<", "?>="}
OneOperator ==
  {X!Operation(op, NoName, r) : op \in {"!", "+", "-"}, r \in XLeaves}
    \cup {X!Operation("?", l, NoName) : l \in XLeaves}
    \cup {X!Operation(op, l, r) : op \in XOperators, l \in XLeaves, r \in XLeaves}
TwoOperators ==
  {X!Operation(op, X!Operation(op2, l, YWhole), XWhole) :
     op \in {"+", "=", "?", "|", "??"}, op2 \in {"+", "/", "??", "&", "?=", "*"}, l \in XLeaves}
    \cup {X!Operation(op, XWhole, X!Operation(op2, l, YWhole)) :
            op \in {"+", "?", "|", "&"}, op2 \in {"+", "/", "??", "*"}, l \in XLeaves}
Substitutions ==
  {X!Substitute(l, m, f) :
     l \in {XWhole, X!Operation("?", XWhole, NoName), X!Operation("??", YWhole, XWhole),
            X!Literal(X!TextNode(<<30, 13, 16, 39, 5>>))},
     m \in {NoName, << >>, <<"neat">>, <<"c">>, <<"left">>, <<"camel">>, <<"c", "upper">>},
     f \in {NoName, [width |-> 4, left |-> TRUE, conversion |-> "s"],
                    [width |-> 3, left |-> FALSE, conversion |-> "d"]}}
Literals ==
  {X!Literal(X!Parts(<<X!TextNode(<<30, 13, 16, 39>>), s>>)) : s \in Substitutions}
    \cup {X!Literal(X!Parts(ps)) : ps \in {<<X!TextNode(<<30>>), X!TextNode(<<31>>)>>,
                                          <<X!TextNode(<<30>>), X!TextNode(<<31>>), XWhole>>}}
XValues == {X!init_value, X!Unknown(<<3>>), X!Unknown(<<30, 14, 21>>), X!Unknown(<< >>),
            X!Number(-15), X!Item(1)}
YValues == {X!init_value, X!Unknown(<<0>>), X!Item(1)}

E == INSTANCE GslExpr WITH
       NULL <- NoName,
       Trees <- XLeaves \cup OneOperator \cup TwoOperators \cup Substitutions \cup Literals,
       Environments <- {[x |-> a, y |-> b] : a \in XValues, b \in YValues}

program == <<source, script, load, run>>
NoProgram == source = NoName /\ script = NoName /\ load = NoName /\ run = NoName

Init ==
  \/ subject = "programs"    /\ G!PInit /\ parse = NoName /\ calc = NoName
  \/ subject = "lines"       /\ P!PrInit /\ NoProgram /\ calc = NoName
  \/ subject = "expressions" /\ E!ExInit /\ NoProgram /\ parse = NoName

Next ==
  /\ UNCHANGED subject
  /\ \/ subject = "programs"    /\ G!PNext  /\ UNCHANGED <<parse, calc>>
     \/ subject = "lines"       /\ P!PrNext /\ UNCHANGED <<program, calc>>
     \/ subject = "expressions" /\ E!ExNext /\ UNCHANGED <<program, parse>>

Spec == Init /\ [][Next]_<<subject, program, parse, calc>>

-----------------------------------------------------------------------------
(* The properties of the subjects, each in the module of its subject.  The  *)
(* links of a script are checked once it is loaded.                         *)
ScriptsLoad ==
  subject = "programs" /\ run.phase = "idle" =>
    G!AcceptsWhatNests /\ G!LinksAsNested /\ G!LoopStartKnown
(* An expression means the same every time it is evaluated, what its        *)
(* operators say, and what its substitutions and modifiers promise; but for *)
(* ?= of two undefined operands, which is true where the manual says FALSE, *)
(* and for "abc" & 1, which is 0 where 1 & "abc" is an error: those are taken *)
(* as the code computes them.                                               *)
ValuesComputed ==
  subject = "expressions" =>
    /\ E!KeptIsComputed
    /\ E!EvaluatesAsWritten
    /\ E!SubstitutesDefined
    /\ E!PrettyAsWritten
ScopesMatch    == subject = "programs" => G!ScopesMatch /\ G!NeverLost
FollowsNesting == [][subject = "programs" => G!StepFollows]_program
=============================================================================
