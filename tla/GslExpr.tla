------------------------------ MODULE GslExpr ------------------------------
(***************************************************************************)
(* The expressions of GSL: the values of ggcomm.c and their evaluation in  *)
(* ggcode.c.                                                               *)
(*                                                                         *)
(* A value has a type and, once somebody asked for it, a text: a constant  *)
(* of the script is a string, a symbol and a substitution are of unknown   *)
(* type until a numeric operator looks at them.  The interpreter keeps the *)
(* value of a node whose operands are constants in the node itself, so     *)
(* that a second evaluation of the line reads it instead of computing it.  *)
(* The hazard is the conversion: number_value and string_value change the  *)
(* operand they are asked about, and the operators differ in which operand *)
(* they ask, when, and what an undefined one does to them.                 *)
(*                                                                         *)
(* A text is a sequence of codes: 0 .. 9 the digits, then the named ones,  *)
(* 20 .. 29 capitals and 30 .. 39 the same letters small.                  *)
(* A number is its value in tenths.                                        *)
(***************************************************************************)
EXTENDS Integers, Sequences, FiniteSets, TLC, SequencesExt

CONSTANTS NULL,
  Trees,            \* the expressions evaluated
  Environments      \* what the symbols stand for

Unit == 10          \* a number n is n / Unit

Point == 10
Minus == 11
Plus  == 12
Space == 13
Line  == 14
Bar   == 15         \* '_'

IsDigit(c) == c \in 0 .. 9
IsUpper(c) == c \in 20 .. 29
IsLower(c) == c \in 30 .. 39
IsAlpha(c) == c \in 20 .. 39
IsAlnum(c) == IsDigit(c) \/ IsAlpha(c)
ToUpper(c) == IF IsLower(c) THEN c - 10 ELSE c
ToLower(c) == IF IsUpper(c) THEN c + 10 ELSE c

-----------------------------------------------------------------------------
(* Values.                                                                 *)
init_value == [type |-> "undefined", s |-> NULL, n |-> 0]

Text(s)    == [type |-> "string", s |-> s, n |-> 0]
Unknown(s) == [type |-> "unknown", s |-> s, n |-> 0]
Number(n)  == [type |-> "number", s |-> NULL, n |-> n]
Item(i)    == [type |-> "pointer", s |-> NULL, n |-> i]

IsDefined(v) == v.type /= "undefined"

RECURSIVE DigitsOf(_), NumberOf(_)
DigitsOf(k) == IF k < 10 THEN <<k>> ELSE Append(DigitsOf(k \div 10), k % 10)
NumberOf(s) == IF s = << >> THEN 0 ELSE NumberOf(Front(s)) * 10 + Last(s)

(* string_value prints a number without its trailing zeros, an item as its  *)
(* own value (the text of an item i is <<20, i>>), and the undefined value  *)
(* as the empty text; the text is kept in the value.                        *)
TextOf(v) ==
  LET size == IF v.n < 0 THEN -v.n ELSE v.n
      frac == size % Unit
  IN  IF v.s /= NULL THEN v.s
      ELSE CASE v.type = "number" ->
                  (IF v.n < 0 THEN <<Minus>> ELSE << >>) \o DigitsOf(size \div Unit)
                    \o (IF frac = 0 THEN << >> ELSE <<Point, frac>>)
             [] v.type = "pointer" -> <<20, v.n>>
             [] OTHER -> << >>

string_value(v) == [v EXCEPT !.s = TextOf(v)]

(* The digits a text starts with.                                           *)
Leading(s) == SubSeq(s, 1, CHOOSE k \in 0 .. Len(s) :
                             /\ \A i \in 1 .. k : IsDigit(s[i])
                             /\ k = Len(s) \/ ~IsDigit(s[k + 1]))

(* number_value: a sign, digits, a point and digits, of which any may miss; *)
(* a text of which nothing is left over is a number from then on, the       *)
(* others are strings.  An empty text and a value without a text stay what  *)
(* they are, and count as zero.                                             *)
number_value(v) ==
  IF v.type = "number" \/ v.s = NULL \/ v.s = << >> THEN v
  ELSE LET signed == Head(v.s) \in {Minus, Plus}
           sign   == IF Head(v.s) = Minus THEN -1 ELSE 1
           body   == IF signed THEN Tail(v.s) ELSE v.s
           whole  == Leading(body)
           rest   == SubSeq(body, Len(whole) + 1, Len(body))
           frac   == IF rest /= << >> /\ Head(rest) = Point THEN Leading(Tail(rest)) ELSE << >>
           tenths == IF frac = << >> THEN 0 ELSE Head(frac)
           over   == IF rest /= << >> /\ Head(rest) = Point
                     THEN SubSeq(rest, Len(frac) + 2, Len(rest)) ELSE rest
       IN  IF over = << >>
           THEN [v EXCEPT !.type = "number", !.n = sign * (NumberOf(whole) * Unit + tenths)]
           ELSE [v EXCEPT !.type = "string"]

(* What number_value returns.                                               *)
Amount(w)   == IF w.type = "number" THEN w.n ELSE 0
AsNumber(v) == Amount(number_value(v))

Truth(b) == Number(IF b THEN Unit ELSE 0)

-----------------------------------------------------------------------------
(* How the operand of a substitution is changed before it is put into the  *)
(* text: pretty_print with its modifiers.                                  *)
Mapped(s, Op(_)) == [i \in DOMAIN s |-> Op(s[i])]

(* Each run of letters gets one capital at its start.                       *)
strneat(s) ==
  [i \in DOMAIN s |-> IF i > 1 /\ IsAlpha(s[i - 1]) THEN ToLower(s[i]) ELSE ToUpper(s[i])]

(* Only letters and digits are kept, and the first after something else is  *)
(* a capital; with pascal the first of all is one, too.                     *)
Camel(s, pascal) ==
  LET starts(i) == IF i = 1 THEN pascal ELSE ~IsAlnum(s[i - 1])
      \* What follows a dropped code starts a word, the first word included.
      cased == [i \in DOMAIN s |-> IF starts(i) THEN ToUpper(s[i]) ELSE s[i]]
  IN  SelectSeq(cased, IsAlnum)

Identifier(s, mark) ==
  [i \in DOMAIN s |-> IF IsAlpha(s[i]) \/ (i > 1 /\ IsDigit(s[i])) THEN s[i] ELSE mark]

LinesOf(s) ==
  LET Put(ls, c) == IF c = Line THEN Append(ls, << >>)
                    ELSE [ls EXCEPT ![Len(ls)] = Append(@, c)]
  IN  FoldLeft(Put, << << >> >>, s)

Joined(ls) ==
  FoldLeft(LAMBDA t, l : t \o <<Line>> \o l, Head(ls), Tail(ls))

IndentOf(l) == CHOOSE k \in 0 .. Len(l) :
                 /\ \A i \in 1 .. k : l[i] = Space
                 /\ k = Len(l) \/ l[k + 1] /= Space

(* left: the spaces all lines that are not blank start with are removed,    *)
(* and blank lines are emptied.                                             *)
strleft(s) ==
  LET ls     == LinesOf(s)
      used   == {i \in DOMAIN ls : IndentOf(ls[i]) < Len(ls[i])}
      least  == CHOOSE k \in {IndentOf(ls[i]) : i \in used} : \A i \in used : k <= IndentOf(ls[i])
  IN  Joined([i \in DOMAIN ls |-> IF i \in used THEN SubSeq(ls[i], least + 1, Len(ls[i]))
                                  ELSE << >>])

Modified(s, m) ==
  CASE m = "lower"  -> Mapped(s, ToLower)
    [] m = "upper"  -> Mapped(s, ToUpper)
    [] m = "neat"   -> strneat(s)
    [] m = "camel"  -> Camel(s, FALSE)
    [] m = "pascal" -> Camel(s, TRUE)
    [] m = "c"      -> Identifier(s, Bar)
    [] m = "cobol"  -> Identifier(s, Minus)
    [] m = "left"   -> strleft(s)
    [] OTHER        -> s

(* Without a case modifier the way the symbol is written is the example:    *)
(* its first letters decide.                                                *)
ByExample(s, example) ==
  LET Run(k, Op(_)) == \A i \in k .. Len(example) : Op(example[i]) \/ ~IsAlpha(example[i])
      small == {i \in DOMAIN example : ~(IsUpper(example[i]) \/ ~IsAlpha(example[i]))}
      first == IF small = {} THEN Len(example) + 1 ELSE CHOOSE i \in small : \A j \in small : i <= j
      c     == IF IsUpper(example[1]) THEN first ELSE 1
  IN  CASE Len(example) <= 1 -> s
        [] c = Len(example) + 1 -> Mapped(s, ToUpper)
        [] Len(example) > 1 /\ c = 2 /\ IsLower(example[2]) /\ Run(2, IsLower) -> strneat(s)
        [] Len(example) > 1 /\ c = 1 /\ IsLower(example[1]) /\ Run(1, IsLower) -> Mapped(s, ToLower)
        [] OTHER -> s

Casing == {"lower", "upper", "neat", "camel", "pascal", "no"}

(* modifiers is NULL when the substitution has none; an empty list of them  *)
(* asks for the value as it is.                                             *)
pretty_print(s, modifiers, example) ==
  LET listed == IF modifiers = NULL THEN << >> ELSE modifiers
      shown  == FoldLeft(Modified, s, listed)
      plain  == modifiers = << >> \/ \E i \in DOMAIN listed : listed[i] \in Casing
  IN  IF example = NULL \/ plain THEN shown ELSE ByExample(shown, example)

(* A format has a width, a side and a conversion: 's' pads each line of the *)
(* value, 'd' prints the whole part of its number.                          *)
Padded(s, format) ==
  LET room == [i \in 1 .. format.width - Len(s) |-> Space]
  IN  IF format.left THEN s \o room ELSE room \o s

format_output(v, format) ==
  LET ls    == LinesOf(v.s)
      last  == Len(ls)
      lines == [i \in DOMAIN ls |-> IF i = last /\ ls[i] = << >> THEN << >>
                                    ELSE Padded(ls[i], format)]
      whole == DigitsOf(AsNumber(v) \div Unit)
  IN  [v EXCEPT !.type = "unknown",
                !.s = CASE format = NULL -> v.s
                        [] format /= NULL /\ format.conversion = "s" -> Joined(lines)
                        [] OTHER -> Padded(whole, format)]

-----------------------------------------------------------------------------
(* The nodes of an expression: texts and the literals made of them,        *)
(* numbers, symbols, substitutions and operators.  Not has no left operand *)
(* and neither have the signs; default may miss its right one.             *)
TextNode(s)     == [kind |-> "text", s |-> s]
NumberNode(n)   == [kind |-> "number", n |-> n]
Literal(l)      == [kind |-> "literal", l |-> l]
Parts(ps)       == [kind |-> "concat", parts |-> ps]
Symbol(x)       == [kind |-> "symbol", symbol |-> x]
Substitute(l, modifiers, format) ==
  [kind |-> "substitute", l |-> l, modifiers |-> modifiers, format |-> format]
Operation(op, l, r) == [kind |-> "operator", op |-> op, l |-> l, r |-> r]

Arithmetic == {"+", "-", "*", "/", "!"}
Plain      == {"=", "<>", ">", "<", ">=", "<="}
SafeOf     == [op \in Plain |-> "?" \o op]
Safe       == {SafeOf[op] : op \in Plain}
PlainOf(op) == IF op \in Plain THEN op ELSE CHOOSE p \in Plain : SafeOf[p] = op

(* evaluate_arithmetic_operator.  l is NULL for the operators of one        *)
(* operand.                                                                 *)
Value(v)  == [v |-> v, err |-> NULL]
Failed(e) == [v |-> init_value, err |-> e]
Illegal   == "Illegal numeric operand"

(* An operand of unknown type is looked at as a number unless the other one *)
(* is a string.                                                             *)
Beside(v, other) == IF other.type /= "string" /\ v.type = "unknown" THEN number_value(v) ELSE v

Added(x, y) ==
  IF x.type = "number" /\ y.type = "number" THEN Value(Number(x.n + y.n))
  ELSE Value(Text(TextOf(x) \o TextOf(y)))

Repeated(x, y) ==
  LET count == IF y.n < 0 THEN -((-y.n) \div Unit) ELSE y.n \div Unit
  IN  CASE y.type /= "number" -> Failed(Illegal)
        [] y.type = "number" /\ x.type = "string" /\ count < 0 -> Failed("String repeat count is negative.")
        [] y.type = "number" /\ x.type = "string" /\ count >= 0 ->
             Value(Text(FlattenSeq([i \in 1 .. count |-> TextOf(x)])))
        [] OTHER -> Value(Number((x.n * y.n) \div Unit))

Numeric(op, x, y) ==
  CASE x.type /= "number" \/ y.type /= "number" -> Failed(Illegal)
    [] op = "/" /\ y.n = 0 -> Failed("Division by zero.")
    [] OTHER -> Value(CASE op = "-" -> Number(x.n - y.n)
                        [] op = "/" -> Number((x.n * Unit) \div y.n)
                        [] op = "|" -> Truth(x.n /= 0 \/ y.n /= 0)
                        [] op = "&" -> Truth(x.n /= 0 /\ y.n /= 0))

OneOperand(op, y) ==
  IF y.type /= "number" THEN Failed(Illegal)
  ELSE Value(CASE op = "!" -> Truth(y.n = 0) [] op = "+" -> Number(y.n) [] op = "-" -> Number(-y.n))

evaluate_arithmetic_operator(op, a, b) ==
  CASE a /= NULL /\ ~IsDefined(a) -> Value(init_value)
    [] ~IsDefined(b)  -> Value(init_value)
    [] a = NULL       -> OneOperand(op, number_value(b))
    [] op = "+"       -> Added(Beside(a, Beside(b, a)), Beside(b, a))
    [] op = "*"       -> Repeated(IF a.type /= "string" THEN number_value(a) ELSE a, number_value(b))
    [] OTHER          -> Numeric(op, number_value(a), number_value(b))

(* The order of numbers and of texts.                                       *)
RECURSIVE Before(_, _)
Before(s, t) == /\ t /= << >>
                /\ \/ s = << >>
                   \/ Head(s) < Head(t)
                   \/ Head(s) = Head(t) /\ Before(Tail(s), Tail(t))

Compared(op, less, equal) ==
  CASE op = "="  -> equal
    [] op = "<>" -> ~equal
    [] op = "<"  -> less
    [] op = ">"  -> ~less /\ ~equal
    [] op = "<=" -> less \/ equal
    [] op = ">=" -> ~less

ComparedAs(p, x, y) ==
  Truth(IF x.type = "number" /\ y.type = "number" THEN Compared(p, x.n < y.n, x.n = y.n)
        ELSE Compared(p, Before(TextOf(x), TextOf(y)), TextOf(x) = TextOf(y)))

(* evaluate_comparison_operator.  Two items are equal or not, and nothing   *)
(* else; an item is not comparable with a scalar.                           *)
evaluate_comparison_operator(op, a, b) ==
  LET p     == PlainOf(op)
      items == {v \in {1, 2} : (IF v = 1 THEN a ELSE b).type = "pointer"}
  IN  CASE ~IsDefined(a) \/ ~IsDefined(b) ->
             IF op \in Plain THEN Value(init_value)
             ELSE Value(Truth(p = "=" /\ ~IsDefined(a) /\ ~IsDefined(b)))
        [] IsDefined(a) /\ IsDefined(b) /\ items = {1, 2} ->
             IF p \in {"=", "<>"} THEN Value(Truth((p = "=") <=> (a.n = b.n))) ELSE Value(init_value)
        [] IsDefined(a) /\ IsDefined(b) /\ items \in {{1}, {2}} ->
             Failed("Illegal comparison between pointer and scalar values.")
        [] OTHER -> Value(ComparedAs(p, Beside(a, Beside(b, a)), Beside(b, a)))

-----------------------------------------------------------------------------
(* The evaluation of a node.  The nodes whose value is kept are the cache, *)
(* by their path from the root; a value that was kept is not constant for  *)
(* the node above (begin_evaluating_node copies it and returns), and a     *)
(* node that failed keeps nothing.  A result is a value, whether it is     *)
(* constant, the error that ended the evaluation, and the cache.           *)
Result(v, constant, err, cache) == [v |-> v, constant |-> constant, err |-> err, cache |-> cache]

Applied(op, a, b) ==
  IF op \in Plain \cup Safe THEN evaluate_comparison_operator(op, a, b)
  ELSE evaluate_arithmetic_operator(op, a, b)
Done(done, constant, cache) == Result(done.v, constant, done.err, cache)

FinishAny(path, r) ==
  IF r.err = NULL /\ path \notin DOMAIN r.cache THEN [r EXCEPT !.cache = (path :> r.v) @@ @] ELSE r

finish_evaluating_node(path, r) ==
  IF r.err = NULL /\ r.constant /\ path \notin DOMAIN r.cache
  THEN [r EXCEPT !.cache = (path :> r.v) @@ @] ELSE r

(* Spaces in front of the end of a line are lost when texts are joined.     *)
Trimmed(s) ==
  LET Cut(l) == SubSeq(l, 1, CHOOSE k \in 0 .. Len(l) :
                               /\ \A i \in k + 1 .. Len(l) : l[i] = Space
                               /\ k = 0 \/ l[k] /= Space)
      ls == LinesOf(s)
  IN  Joined([i \in DOMAIN ls |-> IF i = Len(ls) THEN ls[i] ELSE Cut(ls[i])])

(* A text with its escapes: the code after one stands for itself, and n for *)
(* the end of a line.                                                       *)
Escape  == 16
LetterN == 39
RECURSIVE Unescaped(_)
Unescaped(s) ==
  IF s = << >> THEN s
  ELSE IF Head(s) = Escape /\ Len(s) > 1
       THEN <<IF s[2] = LetterN THEN Line ELSE s[2]>> \o Unescaped(SubSeq(s, 3, Len(s)))
       ELSE <<Head(s)>> \o Unescaped(Tail(s))

(* The operators that look at their first operand before the second is      *)
(* evaluated.                                                               *)
Decided(op, a) ==
  \/ op = "?"  /\ IsDefined(a)
  \/ op = "??" /\ (~IsDefined(a) \/ AsNumber(a) = 0)
  \/ op = "|"  /\ IsDefined(a) /\ AsNumber(a) /= 0
  \/ op = "&"  /\ IsDefined(a) /\ AsNumber(a) = 0

DecidedValue(op, a) ==
  CASE op = "?" -> a [] op = "??" -> init_value [] op = "|" -> Truth(TRUE) [] op = "&" -> Truth(FALSE)

(* The undefined value a substitution accepts: its expression ends with a   *)
(* default operator that has no second operand, or with an if operator      *)
(* whose test is false.                                                     *)
Blank(l, test) ==
  /\ l.kind = "operator"
  /\ \/ l.op = "?" /\ l.r = NULL
     \/ l.op = "??" /\ AsNumber(test) = 0

RECURSIVE Eval(_, _, _, _)
Eval(node, env, path, cache) ==
  LET Sub(n, i, c) == Eval(n, env, Append(path, i), c)
      Computed ==
        CASE node.kind = "text" -> Result(Unknown(Unescaped(node.s)), TRUE, NULL, cache)
          [] node.kind = "number" ->
               Result(number_value(Unknown(TextOf(Number(node.n)))), TRUE, NULL, cache)
          [] node.kind = "symbol" -> Result(env[node.symbol.name], FALSE, NULL, cache)
          [] node.kind = "literal" ->
               LET a == Sub(node.l, 1, cache)
               IN  IF a.err = NULL /\ a.v.type \in {"undefined", "pointer"} THEN [a EXCEPT !.v = init_value]
                   ELSE [a EXCEPT !.v = Text(TextOf(a.v))]
          [] node.kind = "concat" ->
               LET Join(acc, i) ==
                     IF acc.err /= NULL THEN acc
                     ELSE LET r == Sub(node.parts[i], i, acc.cache)
                          IN  [r EXCEPT !.constant = @ /\ acc.constant,
                                        !.v = IF IsDefined(@) /\ IsDefined(acc.v)
                                              THEN Text(TextOf(acc.v) \o TextOf(@)) ELSE init_value]
                   all == FoldLeftDomain(Join, Result(Text(<< >>), Len(node.parts) = 2, NULL, cache), node.parts)
               IN  [all EXCEPT !.v = IF IsDefined(@) THEN Text(Trimmed(@.s)) ELSE @,
                               !.constant = @ /\ IsDefined(all.v)]
          [] node.kind = "substitute" ->
               LET a     == Sub(node.l, 1, cache)
                   first == IF node.l.kind = "operator" /\ node.l.op = "??"
                            THEN Eval(node.l.l, env, path \o <<1, 1>>, cache).v ELSE init_value
                   plain == CASE IsDefined(a.v) -> [a.v EXCEPT !.s = TextOf(a.v)]
                              [] ~IsDefined(a.v) /\ Blank(node.l, first) -> Unknown(<< >>)
                              [] OTHER -> init_value
                   example == IF node.l.kind = "symbol" THEN node.l.symbol.written ELSE NULL
                   shown == [plain EXCEPT !.s = pretty_print(@, node.modifiers, example)]
               IN  IF a.err /= NULL \/ ~IsDefined(plain) THEN [a EXCEPT !.v = init_value]
                   ELSE [a EXCEPT !.v = format_output(shown, node.format)]
          [] OTHER ->
               LET a == IF node.l = NULL THEN Result(NULL, TRUE, NULL, cache) ELSE Sub(node.l, 1, cache)
                   b == IF node.r = NULL THEN Result(init_value, TRUE, NULL, a.cache)
                        ELSE Sub(node.r, 2, a.cache)
                   both == a.constant /\ b.constant
               IN  CASE a.err /= NULL -> a
                     [] a.err = NULL /\ Decided(node.op, a.v) ->
                          Result(DecidedValue(node.op, a.v), node.op = "?" /\ a.constant, NULL, a.cache)
                     [] a.err = NULL /\ ~Decided(node.op, a.v) /\ b.err /= NULL -> b
                     [] a.err = NULL /\ ~Decided(node.op, a.v) /\ b.err = NULL /\ node.op \in {"?", "??"} ->
                          Result(b.v, both, NULL, b.cache)
                     [] OTHER -> Done(Applied(node.op, a.v, b.v), both /\ node.op \notin Plain \cup Safe, b.cache)
  IN  IF path \in DOMAIN cache THEN Result(cache[path], FALSE, NULL, cache)
      ELSE finish_evaluating_node(path, Computed)

Fresh(node, env) == Eval(node, env, << >>, << >>)

-----------------------------------------------------------------------------
(* One expression evaluated twice, as in a loop, with other values of its  *)
(* symbols the second time; an error ends the script.                      *)
VARIABLE calc

ExInit == \E t \in Trees :
  calc = [tree |-> t, times |-> 0, env |-> NULL, r |-> Result(init_value, FALSE, NULL, << >>)]

Evaluate(e) ==
  /\ calc.times < 2 /\ calc.r.err = NULL
  /\ calc' = [calc EXCEPT !.times = @ + 1, !.env = e, !.r = Eval(calc.tree, e, << >>, @.cache)]

ExNext == \E e \in Environments : Evaluate(e)

-----------------------------------------------------------------------------
Same(q, r) == q.v = r.v /\ q.err = r.err

(* ggcode.c: a value that is kept is the value the node has whatever the    *)
(* symbols are: what the second evaluation reads is what it would have      *)
(* computed.                                                                *)
KeptIsComputed ==
  calc.times > 0 => Same(calc.r, Fresh(calc.tree, calc.env))

(* README.md, Expressions.  The default operator, the if operator and the   *)
(* logical operators: an operand that decides the result is the only one    *)
(* looked at, so that the second may be undefined or an error.              *)
DecidesAlone(t, a, b, r) ==
  /\ t.op = "?" => Same(r, IF IsDefined(a.v) THEN a ELSE b)
  /\ t.op = "??" => IF IsDefined(a.v) /\ AsNumber(a.v) /= 0 THEN Same(r, b)
                    ELSE r.err = NULL /\ ~IsDefined(r.v)
  /\ t.op = "|" /\ IsDefined(a.v) /\ AsNumber(a.v) /= 0 => r.err = NULL /\ r.v = Truth(TRUE)
  /\ t.op = "&" /\ number_value(a.v).type = "number" /\ AsNumber(a.v) = 0 =>
       r.err = NULL /\ r.v = Truth(FALSE)

(* The comparisons are the six of one order, the safe ones are false when   *)
(* an operand is undefined (?= of two undefined operands is true), and a    *)
(* value that looks like a number is compared as one with another.          *)
With(t, op) == Fresh([t EXCEPT !.op = op], calc.env)

Ordered(holds, a, b) ==
  /\ Cardinality({"<", "=", ">"} \cap holds) = 1
  /\ (">=" \in holds) <=> ("<" \notin holds)
  /\ ("<=" \in holds) <=> (">" \notin holds)
  /\ ("<>" \in holds) <=> ("=" \notin holds)
  /\ a.type = "number" /\ b.type = "number" => (("<" \in holds) <=> a.n < b.n)

Orders(t, a, b, r) ==
  LET scalars == \A v \in {a.v, b.v} : v.type \notin {"undefined", "pointer"}
      texts   == a.v.type = "string" \/ b.v.type = "string"
  IN  /\ t.op \in Safe => IF IsDefined(a.v) /\ IsDefined(b.v)
                          THEN Same(r, With(t, PlainOf(t.op)))
                          ELSE IsDefined(a.v) \/ IsDefined(b.v) \/ t.op /= "?=" => r.v = Truth(FALSE)
      /\ t.op \in Plain /\ scalars =>
           Ordered({op \in Plain : With(t, op).v = Truth(TRUE)},
                   IF texts THEN a.v ELSE number_value(a.v), IF texts THEN b.v ELSE number_value(b.v))

(* The arithmetic operators take numbers, with the two exceptions of the    *)
(* README: texts are added and repeated.                                    *)
Computes(t, a, b, r) ==
  LET x == number_value(a.v)
      y == number_value(b.v)
      scalars == \A v \in {a.v, b.v} : v.type \notin {"undefined", "pointer"} /\ TextOf(v) /= << >>
      numbers == x.type = "number" /\ y.type = "number"
      texts   == a.v.type = "string" \/ b.v.type = "string"
  IN  scalars =>
      /\ t.op = "+" /\ (~numbers \/ texts) => TextOf(r.v) = TextOf(a.v) \o TextOf(b.v)
      /\ t.op = "+" /\ numbers /\ ~texts => AsNumber(r.v) = x.n + y.n
      /\ t.op \in {"-", "/"} /\ ~numbers => r.err = Illegal
      /\ t.op = "-" /\ numbers => r.v = Number(x.n - y.n)
      /\ t.op = "/" /\ numbers /\ y.n > 0 => x.n * Unit - r.v.n * y.n \in 0 .. y.n - 1
      /\ t.op = "*" /\ y.type /= "number" => r.err = Illegal
      /\ t.op = "*" /\ r.err = NULL /\ (a.v.type = "string" \/ x.type = "string") =>
           Len(TextOf(r.v)) = Len(TextOf(a.v)) * (y.n \div Unit)

(* What the README says of the operators holds for every expression, on any *)
(* of its evaluations.                                                      *)
Promised(t, a, b, r) ==
  a.err = NULL => /\ DecidesAlone(t, a, b, r)
                  /\ b.err = NULL => Orders(t, a, b, r) /\ Computes(t, a, b, r)

EvaluatesAsWritten ==
  LET t == calc.tree
  IN  calc.times > 0 /\ t.kind = "operator" /\ t.l /= NULL /\ t.r /= NULL =>
        Promised(t, Fresh(t.l, calc.env), Fresh(t.r, calc.env), calc.r)

(* README.md, Substituting: an undefined value reaches the text only where  *)
(* the expression ends with a default operator without a second operand (or *)
(* an if whose test fails), and then it is empty.                           *)
Shown(t, v, shown) ==
  /\ IsDefined(v) => IsDefined(shown)
  /\ ~IsDefined(v) /\ IsDefined(shown) =>
       /\ t.l.kind = "operator" /\ ((t.l.op = "?" /\ t.l.r = NULL) \/ t.l.op = "??")
       /\ t.format = NULL => shown.s = << >>

SubstitutesDefined ==
  calc.times > 0 /\ calc.tree.kind = "substitute" /\ calc.r.err = NULL =>
    Shown(calc.tree, Fresh(calc.tree.l, calc.env).v, calc.r.v)

(* README.md, the pretty-print modifiers: applied again they change         *)
(* nothing; c gives a C identifier and cobol a COBOL one; left keeps the    *)
(* lines, and one of them starts in the first column; only camel and pascal *)
(* drop anything.                                                           *)
PrettyPrints(s) ==
  /\ \A m \in {"lower", "upper", "neat", "c", "cobol", "left", "no"} :
       /\ Modified(Modified(s, m), m) = Modified(s, m)
       /\ m /= "left" => Len(Modified(s, m)) = Len(s)
  /\ \A mark \in {Bar, Minus} : LET w == Identifier(s, mark) IN
       \A i \in DOMAIN w : (IsAlpha(w[i]) \/ (i > 1 /\ IsDigit(w[i]))) \/ w[i] = mark
  /\ LET ls == LinesOf(strleft(s)) IN
       /\ Len(ls) = Len(LinesOf(s))
       /\ (\A i \in DOMAIN ls : ls[i] = << >>) \/ \E i \in DOMAIN ls : ls[i] /= << >> /\ ls[i][1] /= Space
  /\ \A pascal \in BOOLEAN : \A i \in DOMAIN Camel(s, pascal) : IsAlnum(Camel(s, pascal)[i])

(* The texts that get into a substitution are pretty-printed as written.    *)
PrettyAsWritten ==
  calc.tree.kind = "substitute" /\ calc.times > 0 /\ IsDefined(calc.r.v) => PrettyPrints(calc.r.v.s)
=============================================================================
