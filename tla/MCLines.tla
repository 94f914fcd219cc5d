------------------------------ MODULE MCLines ------------------------------
(***************************************************************************)
(* The lines GslParser is checked with: for each command the tokens that   *)
(* may stand behind it, and how many of them.                               *)
(***************************************************************************)
EXTENDS Integers

Token(event, text) == [event |-> event, text |-> text]
Words(events)      == {Token(e, e) : e \in events}

Name    == Token("literal", "a")
Digits  == Token("number", "5")
Minus   == Token("sign", "-")
Point   == Token("point", ".")
Arrow   == Token("member", "->")
Dollar  == Token("substitute", "$(")
Opening == Token("open", "(")
Closing == Token("close", ")")
Comma   == Token("comma", ",")
Equals  == Token("operator", "=")
Absent  == Token("default", "?")

Expression == {Name, Digits, Minus, Token("operator", "*"), Token("unary", "!"), Absent,
               Opening, Closing, Comma, Token("operator", "|"), Equals}
Names      == {Name, Digits, Minus, Point, Arrow, Dollar, Closing}
Strings    == {Token("quote", "q"), Name, Dollar, Closing, Token("pretty", ":"), Token("format", "%")}
Members    == {Name, Arrow, Opening, Closing, Comma, Equals}
Calls      == {Name, Point, Opening, Closing, Comma}
Assigned   == {Name, Digits, Point, Equals, Token("arithmetic", "+"), Absent, Opening, Closing}
Locators   == Words({"to", "before", "after", "as"})

Line(command, tokens, most) == [command |-> command, tokens |-> tokens, most |-> most]

AllLines ==
  {Line("echo", Expression, 5), Line("echo", Names, 5), Line("echo", Strings, 6), Line("echo", Members, 7),
   Line("define", Assigned, 5), Line("implicit", Assigned \cup {Minus, Arrow}, 4),
   Line("macro", Calls, 5), Line("invoke", Calls, 5), Line("implicit", Calls \cup Words({"to"}), 5),
   Line("for", {Name, Point, Equals} \cup Words({"as", "where", "by", "nostack", "noalias"}), 6),
   Line("new", {Name, Point} \cup Words({"to", "before", "nostack", "as"}), 6),
   Line("xml", {Name, Point, Digits} \cup Words({"to", "as", "from", "incoming"}), 6),
   Line("template", {Minus, Digits, Name}, 3)}
  \cup {Line(c, {Name, Point} \cup Locators, 5) : c \in {"move", "copy", "delete", "xml", "save"}}
  \cup {Line("sort", {Name, Point, Minus} \cup Words({"by", "nostack"}), 4),
        Line("scope", {Name, Point} \cup Words({"as", "by", "nostack", "noalias"}), 5)}
  \cup {Line(c, {Name, Digits, Equals}, 3) :
          c \in {"output", "append", "if", "elsif", "while", "abort", "return", "include", "gsl"}}
  \cup {Line(c, {Name, Digits}, 2) :
          c \in {"next", "last", "endfor", "endscope", "endmacro", "endfunction", "endnew"}}
  \cup {Line(c, {Name}, 1) : c \in {"else", "endif", "endwhile", "endtemplate", "close"}}
=============================================================================
