----------------------------- MODULE MCScripts -----------------------------
(***************************************************************************)
(* The scripts that GslProgram is checked with: next and last at all       *)
(* places in two loops, among if, for with and without else, while and     *)
(* scope; macros with returns and calls at all places; and all sequences   *)
(* of few lines, which mostly do not nest.                                 *)
(***************************************************************************)
EXTENDS Sequences, Integers

CONSTANT NoName

Nd(t, n) == <<[type |-> t, name |-> n]>>
N(t)     == Nd(t, NoName)
Plain1   == N("other")
CallM    == Nd("call", "m")

While1(s)     == N("while") \o s \o N("endwhile")
For1(n, s)    == Nd("for", n) \o s \o Nd("endfor", n)
ForElse(s, t) == Nd("for", "a") \o s \o N("else") \o t \o N("endfor")
Scope1(s)     == Nd("scope", "b") \o s \o N("endscope")
Macro1(s)     == Nd("macro", "m") \o s \o N("endmacro")

(* What is in S, and in every part of an if.                                *)
Ifs(S) ==
  S \cup UNION {{N("if") \o s \o N("endif"),
                 N("if") \o s \o N("else") \o Plain1 \o N("endif"),
                 N("if") \o Plain1 \o N("elsif") \o s \o N("endif"),
                 N("if") \o Plain1 \o N("elsif") \o Plain1 \o N("else") \o s \o N("endif")} : s \in S}

Leave  == {N("next"), N("last")}
LeaveA == Leave \cup {Nd("next", "a"), Nd("last", "a")}
Loops1 == {While1(s) : s \in Ifs(Leave)} \cup {For1("b", s) : s \in Ifs(Leave)}
InA ==
  {For1("b", s) : s \in Ifs(LeaveA)} \cup {While1(s) : s \in Ifs(LeaveA)}
    \cup {Scope1(s) : s \in Loops1}
    \cup {ForElse(s, Plain1) : s \in Leave} \cup {ForElse(Plain1, s) : s \in Loops1 \cup LeaveA}
    \cup {Scope1(While1(N("if") \o Scope1(Plain1) \o N("endif")))}
Nests == {For1("a", s) : s \in Ifs(InA)} \cup {For1("b", For1("a", s)) : s \in InA}

Returns == {N("return"), Plain1} \cup Ifs({N("return")})
Bodies  == {For1("a", Scope1(s)) : s \in Returns} \cup {While1(s) : s \in Returns}
             \cup Returns \cup Ifs({CallM})
Macros  ==
  {Macro1(s) \o t : s \in Bodies,
     t \in {CallM, For1("b", CallM), Nd("scope", "b") \o CallM \o Nd("endscope", "x")}}
    \cup {For1("b", Macro1(s) \o CallM) : s \in Bodies}

Anything ==
  UNION {[1 .. n -> {[type |-> t, name |-> NoName] :
                       t \in {"other", "if", "else", "elsif", "endif", "for", "endfor", "while",
                              "endwhile", "scope", "endscope", "macro", "endmacro", "incoming", "bad"}}] :
           n \in 0 .. 2}
    \cup [1 .. 4 -> {[type |-> t, name |-> NoName] : t \in {"if", "else", "endif", "for", "endfor"}}]

AllScripts == Nests \cup Macros \cup Anything
=============================================================================
