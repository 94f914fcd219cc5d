----------------------------- MODULE GslParser -----------------------------
(***************************************************************************)
(* Parsing one line of a script (agent ggpars, ggpars.c) into a tree of    *)
(* nodes.  The dialog of the agent takes one token after the other; its    *)
(* calls and returns are those of the grammar, and the tree is changed in   *)
(* place: an operator goes in above what its priority lets it take.         *)
(*                                                                         *)
(* Tokens are what the scanners tell apart.  Widths and spaces, comments    *)
(* and lines that are continued, bracketed identifiers, templates and the   *)
(* command literal are left out.                                            *)
(***************************************************************************)
EXTENDS Integers, Sequences, SequencesExt, FiniteSetsExt, TLC

CONSTANTS
  Lines            \* kinds of lines: a command, the tokens behind it and a bound on their number

VARIABLE
  parse            \* the thread, with the tokens it has read

-----------------------------------------------------------------------------
(* Nodes: their index in parse.nodes, 0 the null pointer.  brackets are the *)
(* open ones in front of what a node stands for; closed (a history) those    *)
(* that have been closed.                                                    *)

Fields == <<"scope", "name", "op1", "op2", "as", "to", "before", "after">>

init_script_node ==
  [type |-> "UNDEFINED", operator |-> "", text |-> "", brackets |-> 0, closed |-> 0, parent |-> 0, stacked |-> FALSE,
   scope |-> 0, name |-> 0, op1 |-> 0, op2 |-> 0, as |-> 0, to |-> 0, before |-> 0, after |-> 0]

Comparative == {"=", "<>", ">", ">=", "?=", "?<>"}

priority(op) ==
  CASE op = "" -> 8 [] op \in {"*", "/"} -> 7 [] op \in {"+", "-"} -> 6 [] op \in {"??", "?"} -> 5
    [] op \in Comparative -> 4 [] op = "!" -> 3 [] op \in {"|", "&"} -> 2 [] op = "," -> 1

Raise(p, event) == [p EXCEPT !.exception = event, !.todo = << >>]

(* *the_node_ptr: a field of the_parent, or the root.                       *)
There(p) == IF p.parent = 0 THEN p.root ELSE p.nodes[p.parent][p.field]

SetThere(p, n) ==
  IF p.parent = 0 THEN [p EXCEPT !.root = n] ELSE [p EXCEPT !.nodes[p.parent][p.field] = n]

Owned(p, n) == IF n = 0 THEN p ELSE [p EXCEPT !.nodes[n].brackets = 0, !.nodes[n].parent = Len(p.nodes)]

return_one_level(p) ==
  LET here == There(p)
      up   == p.nodes[p.parent].parent
  IN  IF p.brackets > 0 \/ (here # 0 /\ p.nodes[here].brackets > 0) THEN Raise(p, "error")
      ELSE [p EXCEPT !.parent = up,
              !.field = IF up = 0 THEN "root"
                        ELSE Fields[Min({k \in DOMAIN Fields : p.nodes[up][Fields[k]] = p.parent})]]

(* Up as long as the parent is of a kind.                                   *)
RECURSIVE ReturnWhile(_, _)
ReturnWhile(p, kind) ==
  LET n == p.nodes[p.parent]
      goes == CASE kind = "root"       -> TRUE
                [] kind = "string"     -> n.type = "OPERATOR" /\ n.operator = ""
                [] kind = "arguments"  -> n.type = "OPERATOR" /\ n.operator = ","
                [] kind = "expression" -> n.type = "OPERATOR" /\ n.operator # ","
                [] kind = "data"       -> n.type \in {"MEMBER", "ATTRIBUTE"}
                [] kind = "bracket"    -> /\ p.nodes[There(p)].brackets = 0
                                          /\ n.type = "OPERATOR" /\ n.operator # ","
  IN  IF p.parent = 0 \/ p.exception # "" \/ ~goes THEN p ELSE ReturnWhile(return_one_level(p), kind)

(* Mutant: an operator of the same priority is not left.                    *)
RECURSIVE InsertRight(_, _)
InsertRight(p, operator) ==
  LET n == p.nodes[p.parent]
  IN  IF p.parent = 0 \/ p.exception # "" THEN p
      ELSE IF /\ n.type = "OPERATOR"
              /\ There(p) # 0 => p.nodes[There(p)].brackets = 0
              /\ n.op1 = 0 \/ priority(n.operator) > priority(operator)
             THEN InsertRight(return_one_level(p), operator)
           ELSE p

(* Above the operators of the same or a higher priority, and unary ones.    *)
RECURSIVE find_operator_insertion_point(_, _)
find_operator_insertion_point(p, operator) ==
  LET n == p.nodes[p.parent]
  IN  IF p.parent = 0 \/ p.exception # "" THEN p
      ELSE IF /\ n.type = "OPERATOR"
              /\ There(p) # 0 => p.nodes[There(p)].brackets = 0
              /\ n.op1 = 0 \/ priority(n.operator) >= priority(operator)
             THEN find_operator_insertion_point(return_one_level(p), operator)
           ELSE p

(* A node of its own, or the first operand of a new operator.  The brackets *)
(* that are open go to the node that stands for the operand.                *)
Above(p, node, child) ==
  LET here == There(p)
      new  == [node EXCEPT !.parent = p.parent, ![child] = here,
                           !.brackets = IF here = 0 THEN 0 ELSE p.nodes[here].brackets]
      p1   == [p EXCEPT !.nodes = Append(@, new)]
  IN  SetThere(Owned(p1, here), Len(p1.nodes))

insert_operator_node(p) ==
  LET p1 == find_operator_insertion_point(p, p.operator)
      p2 == Above(p1, [init_script_node EXCEPT !.type = "OPERATOR", !.operator = p.operator], "op1")
  IN  IF p1.exception # "" THEN p1
      ELSE [p2 EXCEPT !.operator = "", !.nodes[There(p2)].brackets = @ + p.brackets, !.brackets = 0]

(* Behind what is there, an operator without a sign puts the two together.  *)
insert_simple_node(p, type) ==
  LET node == [init_script_node EXCEPT !.type = type, !.brackets = p.brackets,
                                       !.stacked = type \in {"FOR", "SCOPE", "NEW", "MEMBER"}]
      bare == [p EXCEPT !.brackets = 0]
      p1   == find_operator_insertion_point(bare, "")
      p2   == Above(p1, [init_script_node EXCEPT !.type = "OPERATOR"], "op1")
      join == There(p2)
  IN  IF There(p) = 0
        THEN SetThere([bare EXCEPT !.nodes = Append(@, [node EXCEPT !.parent = p.parent])], Len(p.nodes) + 1)
      ELSE IF p1.exception # "" THEN p1
      ELSE [p2 EXCEPT !.nodes = Append([@ EXCEPT ![join].op2 = Len(p2.nodes) + 1],
                                       [node EXCEPT !.parent = join]),
                      !.parent = join, !.field = "op2"]

insert_text_node(p, text) ==
  LET p1 == insert_simple_node(p, "TEXT")
  IN  IF p1.exception # "" THEN p1 ELSE [p1 EXCEPT !.nodes[There(p1)].text = text]

insert_data_specifier_node(p, type) ==
  Above(p, [init_script_node EXCEPT !.type = type, !.stacked = type = "MEMBER"], "scope")

Ready(p, field) ==
  LET p1 == [p EXCEPT !.parent = There(p), !.field = field]
  IN  IF There(p1) # 0 THEN Raise(p1, "other") ELSE p1

copy_the_operator(p) == [p EXCEPT !.nodes[There(p)].operator = p.operator, !.operator = ""]

close_one_bracket(p) ==
  LET p1   == ReturnWhile(p, "bracket")
      here == There(p1)
  IN  IF There(p) = 0 THEN Raise(p, IF p.brackets > 0 THEN "error" ELSE "no_bracket")
      ELSE IF p1.exception # "" THEN p1
      ELSE IF p1.nodes[here].brackets > 0 THEN [p1 EXCEPT !.nodes[here].brackets = @ - 1, !.nodes[here].closed = @ + 1]
      ELSE Raise(p1, "no_bracket")

separate_name_from_scope(p) ==
  LET here == There(p)
      node == p.nodes[here].op1
      of   == p.nodes[node]
      p1   == [p EXCEPT !.nodes[here].op1 = 0]
  IN  CASE node = 0 -> p1
        [] node # 0 /\ of.type = "ATTRIBUTE" ->
             [p1 EXCEPT !.nodes[here].scope = of.scope, !.nodes[here].name = of.name,
                        !.nodes[of.scope].parent = here, !.nodes[of.name].parent = here]
        [] node # 0 /\ of.type = "MEMBER" -> [p1 EXCEPT !.nodes[here].scope = node]
        [] OTHER -> [p1 EXCEPT !.nodes[here].name = node]

change_number_to_symbol_node(p) ==
  LET here == There(p)
  IN  [p EXCEPT !.nodes[here].type = "SYMBOL", !.nodes[here].operator = "",
                !.nodes[p.nodes[here].op1].operator = p.nodes[here].operator]

unset_stacked_flag(p) ==
  IF p.nodes[There(p)].stacked THEN [p EXCEPT !.nodes[There(p)].stacked = FALSE] ELSE Raise(p, "other")

-----------------------------------------------------------------------------
(* The dialog: for each state and event the next state and the modules.     *)

M(name)    == <<name, "">>
Get        == <<"get", "expression">>
Script     == <<"get", "script">>
Command    == <<"get", "command">>
Quoted     == <<"get", "quoted">>
Template   == <<"get", "template">>
Modifier   == <<"get", "modifier">>
Rewind     == M("rewind")
Return     == M("return")
Parent     == M("parent")
Separate   == M("separate")
To(kind)   == <<"to", kind>>
Call(s)    == <<"call", s>>
Insert(t)  == <<"insert", t>>
Into(f)    == <<"ready", f>>

Again(next, modules) == <<next, <<Rewind>> \o modules \o <<Get>>>>

Named(next, word) ==
  <<next, <<Insert(word), Into("op1"), Rewind, Call("Expect_Data_Specifier"), Parent, Separate,
            Call("Allow_Arguments"), Get>>>>
Scoped(next) == <<next, <<Into("name"), Rewind, Call("Expect_Identifier"), Parent, Get>>>>
Dotted ==
  <<"Allow_Operator",
    <<Insert("SYMBOL"), Into("op1"), M("attribute"), Into("scope"), Insert("TEXT"), Parent, Into("name"),
      Rewind, Call("Expect_Identifier"), Call("Continue_Data_Specifier"), Parent, Separate,
      Call("Allow_Arguments"), Get>>>>
Fraction ==
  <<"Allow_Operator",
    <<Insert("NUMBER"), Into("op2"), Rewind, Call("Expect_Number"), Parent, M("restore"), M("copy"), Get>>>>
Decimal ==
  <<"After_Number", <<Insert("NUMBER"), Into("op1"), Rewind, Call("Expect_Number"), Get>>>>
Attribute ==
  <<"Allow_Operator",
    <<M("restore"), M("copy"), M("attribute"), Into("name"), Rewind, Call("Expect_Identifier"), Parent,
      Call("Continue_Data_Specifier"), Parent, M("tosymbol"), Separate, Call("Allow_Arguments"), Get>>>>
Operator ==
  <<"Expect_Operand", <<M("operator"), Into("op2"), Get>>>>
Clause(next, field, call) == <<next, <<Into(field), Call(call), Parent, Script>>>>
(* A line without a command defines a symbol or calls a macro.              *)
Implicit(save) ==
  <<"Expect_Assign_Or_Args",
    save \o <<Insert("DEFINE"), Into("op1"), Rewind, Call("Expect_Data_Specifier"), Parent, Separate, Script>>>>
Continue_Data_Specifier ==
  [member |-> <<"After_Member", <<M("member"), Into("name"), Call("Allow_Identifier"), Parent, Get>>>>,
   point  |-> <<"After_Scope_Point", <<M("attribute"), Get>>>>,
   other  |-> <<"", <<To("data"), Rewind, Return>>>>]
(* The state of an operand, which itself is expected again behind a bracket *)
(* or a !: a state that inherits from Expect-Operand stays what it is.      *)
Operand_State(state) ==
  [quote |-> Again("Allow_Operator", <<Call("Expect_String")>>),
   sign  |-> <<"After_Sign", <<M("save"), Get>>>>,
   unary |-> <<state, <<Insert("OPERATOR"), M("sign"), Into("op2"), Get>>>>,
   number |-> Decimal,
   point  |-> <<"After_Point", <<Get>>>>,
   literal |-> Named("Allow_Operator", "SYMBOL"),
   member  |-> Named("Allow_Operator", "SYMBOL"),
   substitute |-> Named("Allow_Operator", "SYMBOL"),
   open  |-> <<state, <<M("bracket"), Get>>>>]
Modified(field) == <<"Expect_Modifier", <<Parent, Into(field), Modifier>>>>
Assignment ==
  [simple |-> <<"Expect_End_Of_Line", <<M("copy"), Into("op2"), Call("Allow_Operand"), Parent, Get>>>>,
   arithmetic |-> <<"Expect_End_Of_Line", <<M("copy"), Into("op2"), Call("Expect_Operand"), Parent, Get>>>>]
Locator(state) ==
  [to |-> Clause(state, "to", "Expect_Data_Specifier"),
   before |-> Clause(state, "before", "Expect_Data_Specifier"),
   after |-> Clause(state, "after", "Expect_Data_Specifier"),
   as |-> <<state, <<Into("as"), Call("Expect_Identifier"), Parent, Get>>>>]
Naming(state) ==
  [as |-> Clause(state, "as", "Expect_Identifier"),
   noalias |-> <<state, <<Into("as"), Insert("TEXT"), Parent, Script>>>>,
   nostack |-> <<state, <<M("unstack"), Script>>>>,
   other |-> <<"Expect_End_Of_Line", <<Rewind, Get>>>>]

dialog ==
 [Expect_Script |->
    [literal |-> Implicit(<< >>), substitute |-> Implicit(<< >>), point |-> Implicit(<< >>),
     member |-> Implicit(<< >>), number |-> Implicit(<< >>), sign |-> Implicit(<<M("save")>>),
     end |-> <<"", <<Insert("COMMENT"), M("ok")>>>>],
  Expect_Operand |-> Operand_State("Expect_Operand"),
  Allow_Operand |-> Operand_State("Allow_Operand") @@ [other |-> <<"", <<To("expression"), Rewind, Return>>>>],
  After_Sign |->
    [number |-> Decimal, point |-> <<"After_Sign_Point", <<Get>>>>,
     other |-> <<"Expect_Operand", <<M("restore"), Insert("OPERATOR"), M("sign"), Into("op2"), Rewind, Get>>>>],
  After_Sign_Point |->
    [number |-> Fraction,
     other |-> <<"After_Point", <<Insert("OPERATOR"), M("sign"), Into("op2"), Rewind, Get>>>>],
  After_Point |->
    [number |-> Fraction, literal |-> Dotted, substitute |-> Dotted,
     other |-> <<"Allow_Operator", <<Insert("SYMBOL"), Rewind, Get>>>>],
  After_Number |->
    [point |-> <<"After_Number_Point", <<Get>>>>,
     member |-> <<"Allow_Operator",
                  <<M("restore"), M("copy"), Rewind, Call("Continue_Data_Specifier"), Parent,
                    M("tosymbol"), Separate, Call("Allow_Arguments"), Get>>>>,
     other |-> <<"Allow_Operator", <<M("restore"), M("copy"), Parent, Rewind, Get>>>>],
  After_Number_Point |->
    [number |-> <<"Allow_Operator", <<Parent, M("restore"), M("copy"), Into("op2"), Rewind,
                                      Call("Expect_Number"), Parent, Get>>>>,
     literal |-> Attribute, substitute |-> Attribute,
     other |-> <<"Allow_Operator", <<Rewind, Get>>>>],
  Expect_Signed_Number |->
    [sign |-> <<"Expect_Unsigned_Number", <<M("save"), Get>>>>,
     number |-> <<"", <<M("text"), Return>>>>],
  Expect_Unsigned_Number |-> [number |-> <<"", <<M("text"), Return>>>>],
  Allow_Operator |->
    [unary |-> Operator, sign |-> Operator, operator |-> Operator,
     default |-> <<"Allow_Operand", <<M("operator"), Into("op2"), Get>>>>,
     close |-> <<"Allow_Operator", <<M("close"), Get>>>>,
     no_bracket |-> <<"", <<To("expression"), Rewind, Return>>>>,
     other |-> <<"", <<To("expression"), Rewind, Return>>>>],
  Allow_Arguments |->
    [open |-> <<"Continue_Arguments", <<M("call_node"), Into("op1"), Call("Allow_Operand"), Get>>>>,
     other |-> <<"", <<Rewind, Return>>>>],
  Continue_Arguments |->
    [comma |-> <<"Continue_Arguments", <<M("operator"), Into("op2"), Call("Allow_Operand"), Get>>>>,
     close |-> <<"", <<To("arguments"), Parent, Return>>>>],
  Expect_String |-> [quote |-> <<"Continue_String", <<Insert("LITERAL"), Into("op1"), Quoted>>>>],
  Continue_String |->
    [text |-> <<"Continue_String", <<M("text"), Quoted>>>>,
     substitute |-> <<"Continue_String", <<Call("Expect_Substitute"), Quoted>>>>,
     quote |-> <<"", <<M("spaces"), To("string"), Parent, Return>>>>],
  Expect_Identifier |->
    [literal |-> <<"Continue_Identifier", <<M("text"), Get>>>>,
     substitute |-> <<"Continue_Identifier", <<Call("Expect_Substitute"), Get>>>>],
  Allow_Identifier |->
    [literal |-> <<"Continue_Identifier", <<M("text"), Get>>>>,
     substitute |-> <<"Continue_Identifier", <<Call("Expect_Substitute"), Get>>>>,
     other |-> <<"", <<Rewind, Return>>>>],
  Continue_Identifier |->
    [literal |-> <<"Continue_Identifier", <<M("text"), Get>>>>,
     number |-> <<"Continue_Identifier", <<M("text"), Get>>>>,
     substitute |-> <<"Continue_Identifier", <<Call("Expect_Substitute"), Get>>>>,
     other |-> <<"", <<To("string"), Rewind, Return>>>>],
  Expect_Substitute |->
    [pretty |-> Modified("op2"), format |-> Modified("as"), close |-> <<"", <<Parent, Return>>>>],
  Expect_Modifier |->
    [text |-> <<"Expect_Modifier", <<M("text"), Modifier>>>>,
     substitute |-> <<"Expect_Modifier", <<Call("Expect_Substitute"), Modifier>>>>,
     other |-> <<"Expect_Substitute", <<M("empty"), To("string"), Rewind, Modifier>>>>],
  Continue_Data_Specifier |-> Continue_Data_Specifier,
  Expect_Data_Specifier |->
    [literal |-> Again("Continue_Data_Specifier", <<Call("Expect_Identifier")>>),
     substitute |-> Again("Continue_Data_Specifier", <<Call("Expect_Identifier")>>),
     number |-> Again("Continue_Data_Specifier", <<Call("Expect_Number")>>),
     sign |-> Again("Continue_Data_Specifier", <<Call("Expect_Number"), M("restore"), M("copy")>>),
     point |-> <<"After_Scope_Point", <<M("attribute"), Into("scope"), Insert("TEXT"), Parent, Get>>>>]
      @@ Continue_Data_Specifier,
  After_Member |->
    [open |-> <<"After_Member_Expression", <<Into("before"), Call("Expect_Operand"), Parent, Get>>>>,
     other |-> <<"Continue_Data_Specifier", <<Rewind, Get>>>>],
  After_Member_Expression |->
    [close |-> <<"Continue_Data_Specifier", <<Get>>>>,
     comma |-> <<"After_Member_As", <<Into("as"), Call("Expect_Identifier"), Parent, Get>>>>],
  After_Member_As |-> [close |-> <<"Continue_Data_Specifier", <<Get>>>>],
  After_Scope_Point |->
    [literal |-> Scoped("Continue_Data_Specifier"), substitute |-> Scoped("Continue_Data_Specifier"),
     other |-> <<"", <<Into("name"), Insert("TEXT"), Parent, Rewind, Return>>>>],
  Expect_Assign |-> Assignment,
  Expect_Assign_Or_Args |->
    Assignment @@ [open |-> <<"Expect_End_Of_Line", <<M("call_node"), Rewind, Call("Allow_Arguments"), Get>>>>],
  Expect_For |->
    Naming("Expect_For")
      @@ [where |-> Clause("Expect_For", "before", "Expect_Operand"),
          by |-> Clause("Expect_For", "after", "Expect_Operand")],
  Expect_Scope |-> Naming("Expect_Scope"),
  Expect_New |-> Locator("Expect_New") @@ Naming("Expect_New"),
  Allow_Macro_Args |->
    [open |-> <<"After_Open_Macro_Args", <<Into("op1"), Get>>>>, other |-> <<"", <<Rewind, Return>>>>],
  After_Open_Macro_Args |->
    [literal |-> Again("Continue_Macro_Args", <<Call("Expect_Identifier")>>),
     substitute |-> Again("Continue_Macro_Args", <<Call("Expect_Identifier")>>),
     close |-> <<"", <<Parent, Return>>>>],
  Continue_Macro_Args |->
    [comma |-> <<"Continue_Macro_Args", <<M("operator"), Into("op2"), Call("Expect_Identifier"), Get>>>>,
     close |-> <<"", <<To("arguments"), Parent, Return>>>>],
  Expect_Source |->
    [from |-> <<"Expect_End_Of_Line", <<Into("scope"), Call("Expect_Operand"), Parent, Get>>>>,
     incoming |-> <<"Expect_Terminator", <<Into("name"), Template>>>>,
     other |-> <<"Expect_End_Of_Line",
                 <<Into("op1"), Rewind, Call("Expect_Operand"), Parent, Rewind, Get>>>>],
  Expect_Terminator |-> [text |-> <<"Expect_End_Of_Line", <<M("text"), Get>>>>],
  Expect_Save |->
    [as |-> <<"Expect_End_Of_Line", <<Into("as"), Call("Expect_Operand"), Parent, Get>>>>,
     other |-> <<"Expect_End_Of_Line", <<Rewind, Get>>>>],
  Allow_Locator |-> Locator("Allow_Locator") @@ [other |-> <<"", <<Rewind, Return>>>>],
  Allow_Number |->
    [sign |-> <<"Expect_Unsigned_Number", <<M("save"), Get>>>>,
     number |-> <<"", <<M("text"), Return>>>>,
     other |-> <<"", <<Rewind, Return>>>>],
  Expect_End_Of_Line |-> [end |-> <<"", <<To("root"), M("ok")>>>>]]

(* A call enters a state, for a substitution with modules of its own.       *)
Entry(s) ==
  IF s = "Expect_Substitute" THEN <<Insert("SUBSTITUTE"), Into("op1"), Call("Expect_Operand"), Modifier>>
  ELSE <<Get>>
Entered(s) == IF s = "Expect_Number" THEN "Expect_Signed_Number" ELSE s

(* Expect-Script: the first word of a line, if it is a command.             *)
AtEnd(modules) == <<"Expect_End_Of_Line", modules \o <<Get>>>>
Operand(type, call) == AtEnd(<<Insert(type), Into("op1"), Call(call)>>)
NameAnd(type, next, last) ==
  <<next, <<Insert(type), Into("op1"), Call("Expect_Data_Specifier"), Parent, Separate>> \o last>>
ScopeAnd(type, next, last) == <<next, <<Insert(type), Into("scope"), Call("Expect_Data_Specifier"), Parent>> \o last>>

block_command ==
  [if    |-> Operand("IF", "Expect_Operand"),    elsif |-> Operand("ELSIF", "Expect_Operand"),
   else  |-> AtEnd(<<Insert("ELSE")>>),          endif |-> AtEnd(<<Insert("END_IF")>>),
   for   |-> NameAnd("FOR", "Expect_For", <<Script>>),
   scope |-> ScopeAnd("SCOPE", "Expect_Scope", <<Script>>),
   endfor |-> Operand("END_FOR", "Allow_Identifier"), endscope |-> Operand("END_SCOPE", "Allow_Identifier"),
   new   |-> NameAnd("NEW", "Expect_New", <<Script>>), endnew |-> Operand("END_NEW", "Allow_Identifier"),
   while |-> Operand("WHILE", "Expect_Operand"), endwhile |-> AtEnd(<<Insert("END_WHILE")>>),
   next  |-> Operand("NEXT", "Allow_Identifier"), last |-> Operand("LAST", "Allow_Identifier"),
   macro |-> NameAnd("MACRO", "Expect_End_Of_Line", <<Call("Allow_Macro_Args"), Get>>)]

other_command ==
  [output |-> Operand("OUTPUT", "Expect_Operand"), append |-> Operand("APPEND", "Expect_Operand"),
   close |-> AtEnd(<<Insert("CLOSE")>>),           endmacro |-> Operand("END_MACRO", "Allow_Identifier"),
   function |-> NameAnd("FUNCTION", "Expect_End_Of_Line", <<Call("Allow_Macro_Args"), Get>>),
   endfunction |-> Operand("END_FUNCTION", "Allow_Identifier"),
   return |-> Operand("RETURN", "Allow_Operand"),
   invoke |-> NameAnd("CALL", "Expect_End_Of_Line", <<Call("Allow_Arguments"), Get>>),
   gsl   |-> <<"Expect_Source", <<Insert("GSL"), Script>>>>,
   include |-> AtEnd(<<Insert("GSL"), Into("scope"), Call("Expect_Operand")>>),
   xml   |-> <<"Expect_Source", <<Insert("XML"), Call("Allow_Locator"), Script>>>>,
   template |-> Operand("TEMPLATE", "Allow_Number"), endtemplate |-> AtEnd(<<Insert("END_TEMPLATE")>>),
   echo  |-> Operand("ECHO", "Expect_Operand"),    abort |-> Operand("ABORT", "Allow_Operand"),
   define |-> NameAnd("DEFINE", "Expect_Assign", <<Script>>),
   move  |-> ScopeAnd("MOVE", "Expect_End_Of_Line", <<Call("Allow_Locator"), Get>>),
   copy  |-> ScopeAnd("COPY", "Expect_End_Of_Line", <<Call("Allow_Locator"), Get>>),
   delete |-> ScopeAnd("DELETE", "Expect_End_Of_Line", <<Call("Allow_Locator"), Get>>),
   save  |-> ScopeAnd("SAVE", "Expect_Save", <<Get>>),
   sort  |-> NameAnd("SORT", "Expect_For", <<Script>>)]

command == block_command @@ other_command @@ [implicit |-> <<"Expect_Script", <<Command>>>>]

-----------------------------------------------------------------------------
(* The modules.                                                             *)
Do(p, m) ==
  LET arg == m[2]
      here == There(p)
  IN  CASE m[1] = "get"     -> [p EXCEPT !.mode = arg, !.prev = p.ptr, !.ptr = @ + 1]
        [] m[1] = "rewind"  -> [p EXCEPT !.ptr = p.prev]
        [] m[1] = "call"    -> [p EXCEPT !.stack = Append(@, [state |-> p.state, next |-> p.next, todo |-> p.todo]),
                                         !.next = Entered(arg), !.todo = Entry(arg)]
        [] m[1] = "return"  -> [p EXCEPT !.stack = Front(@), !.state = Last(p.stack).state,
                                         !.next = Last(p.stack).next, !.todo = Last(p.stack).todo]
        [] m[1] = "insert"  -> insert_simple_node(p, arg)
        [] m[1] = "text"    -> insert_text_node(p, p.line[p.prev].text)
        [] m[1] \in {"empty", "spaces"} -> IF here = 0 THEN insert_simple_node(p, "TEXT") ELSE p
        [] m[1] = "ready"   -> Ready(p, arg)
        [] m[1] = "parent"  -> IF p.parent = 0 THEN p ELSE return_one_level(p)
        [] m[1] = "to"      -> ReturnWhile(p, arg)
        [] m[1] = "save"    -> [p EXCEPT !.sign = p.operator]
        [] m[1] = "restore" -> [p EXCEPT !.operator = p.sign, !.sign = ""]
        [] m[1] = "copy"    -> copy_the_operator(p)
        [] m[1] = "sign"    -> [p EXCEPT !.nodes[here].operator = p.operator]
        [] m[1] = "operator" -> insert_operator_node(p)
        [] m[1] = "bracket" -> [p EXCEPT !.brackets = @ + 1]
        [] m[1] = "close"   -> close_one_bracket(p)
        [] m[1] = "member"  -> insert_data_specifier_node(p, "MEMBER")
        [] m[1] = "attribute" -> insert_data_specifier_node(p, "ATTRIBUTE")
        [] m[1] = "separate" -> separate_name_from_scope(p)
        [] m[1] = "tosymbol" -> change_number_to_symbol_node(p)
        [] m[1] = "call_node" -> [p EXCEPT !.nodes[here].type = "CALL"]
        [] m[1] = "unstack" -> unset_stacked_flag(p)
        [] m[1] = "ok"      -> [p EXCEPT !.result = "ok"]

(* An event in the present state; what the state does not know is an error. *)
Take(p, event) ==
  LET of == dialog[p.state]
      e  == IF event \in DOMAIN of THEN event ELSE "other"
  IN  IF event = "error" \/ e \notin DOMAIN of THEN [p EXCEPT !.exception = "", !.result = "error"]
      ELSE [p EXCEPT !.exception = "", !.next = of[e][1], !.todo = of[e][2]]

(* The scanners: what a token is to them, and the operator they note.  The  *)
(* words of clauses are known in expressions too, but << is two operators   *)
(* there, of which the second is expected nowhere.                          *)
Clauses == {"as", "where", "by", "to", "before", "after", "nostack", "noalias", "from", "incoming"}

Scanned(mode, t) ==
  CASE mode = "quoted"   -> IF t.event \in {"quote", "substitute", "end"} THEN t.event ELSE "text"
    [] mode = "template" -> IF t.event \in {"substitute", "end"} THEN t.event ELSE "text"
    [] mode = "modifier" ->
         IF t.event \in {"pretty", "format", "close", "substitute", "end"} THEN t.event ELSE "text"
    [] mode = "command"  -> IF t.event \in Clauses \ {"incoming"} THEN "literal" ELSE t.event
    [] mode = "script"   -> IF t.text = "=" THEN "simple" ELSE t.event
    [] mode = "expression" ->
         IF t.event \in {"pretty", "format", "arithmetic", "incoming"} THEN "other" ELSE t.event

the_operator(p, t) ==
  CASE p.mode = "expression" /\ t.event \in {"sign", "unary", "operator", "default", "comma"} -> t.text
    [] p.mode = "command" /\ t.event = "sign" -> t.text
    [] p.mode = "script" /\ t.event \in {"sign", "arithmetic"} -> t.text
    [] p.mode = "script" /\ t.event \notin {"sign", "arithmetic", "open", "close", "point", "member"} -> ""
    [] OTHER -> p.operator

Read(p) ==
  LET t == p.line[p.prev]
  IN  Take([p EXCEPT !.operator = the_operator(p, t)], Scanned(p.mode, t))

(* The modules of an event, those of calls and exceptions and of tokens     *)
(* that are read again included, up to the next token.                      *)
RECURSIVE Execute(_)
Execute(p) ==
  IF p.result # "" THEN p
  ELSE IF p.exception # "" THEN Execute(Take(p, p.exception))
  ELSE IF p.todo # << >> THEN Execute(Do([p EXCEPT !.todo = Tail(@)], Head(p.todo)))
  ELSE IF p.prev <= Len(p.line) THEN Execute(Read([p EXCEPT !.state = p.next]))
  ELSE [p EXCEPT !.state = p.next]

-----------------------------------------------------------------------------
PrInit ==
  \E l \in Lines :
    parse = Execute([words |-> l.tokens, most |-> l.most, line |-> << >>,
                     nodes |-> << >>, root |-> 0, parent |-> 0, field |-> "root", brackets |-> 0,
                     operator |-> "", sign |-> "", mode |-> "script", prev |-> 0, ptr |-> 1,
                     state |-> "Expect_Script", next |-> command[l.command][1], todo |-> command[l.command][2],
                     stack |-> << >>, exception |-> "", result |-> ""])

(* What may follow: letters and digits are scanned as one.                  *)
End == [event |-> "end", text |-> ""]
May(t) ==
  LET before == IF parse.line = << >> THEN "" ELSE Last(parse.line).event
  IN  /\ Len(parse.line) = parse.most => t = End
      /\ t = End => parse.mode # "quoted"
      /\ t.event \in {"literal", "number"} => before # "literal"
      /\ t.event = "number" => before # "number"

(* The next token of the line.                                              *)
NextToken(t) ==
  /\ parse.result = "" /\ May(t)
  /\ parse' = Execute(Read([parse EXCEPT !.line = Append(@, t)]))

PrNext == \E t \in parse.words \cup {End} : NextToken(t)
-----------------------------------------------------------------------------
(* Properties of a line that has been accepted.                             *)

Texts(tokens) == [k \in DOMAIN tokens |-> tokens[k].text]
Between(a, s, b, count) == [k \in 1 .. count |-> a] \o s \o [k \in 1 .. count |-> b]
Binary(n) == n.type = "OPERATOR" /\ n.op1 # 0
If(node, s) == IF node = 0 THEN << >> ELSE s

(* A tree written out again.                                                *)
RECURSIVE Written(_, _)
Written(nodes, n) ==
  LET x == nodes[n]
      W(m) == IF m = 0 THEN << >> ELSE Written(nodes, m)
      Sign == IF x.operator = "" THEN << >> ELSE <<x.operator>>
      Specifier == W(x.scope) \o (IF x.name = 0 /\ x.scope # 0 THEN << >> ELSE
                                    (IF x.name = 0 \/ x.scope # 0 THEN <<".">> ELSE << >>) \o W(x.name))
      Modifiers == IF x.as # 0 /\ x.op2 # 0 /\ x.as < x.op2
                     THEN If(x.as, <<"%">> \o W(x.as)) \o If(x.op2, <<":">> \o W(x.op2))
                   ELSE If(x.op2, <<":">> \o W(x.op2)) \o If(x.as, <<"%">> \o W(x.as))
      Inner ==
        CASE x.type = "TEXT"       -> Sign \o (IF x.text = "" THEN << >> ELSE <<x.text>>)
          [] x.type = "OPERATOR"   -> W(x.op1) \o Sign \o W(x.op2)
          [] x.type = "NUMBER"     -> Sign \o W(x.op1) \o If(x.op2, <<".">> \o W(x.op2))
          [] x.type = "SYMBOL"     -> Specifier
          [] x.type = "CALL"       -> Specifier \o Between("(", W(x.op1), ")", 1)
          [] x.type = "ATTRIBUTE"  -> W(x.scope) \o <<".">> \o W(x.name)
          [] x.type = "MEMBER"     -> W(x.scope) \o <<"->">> \o W(x.name) \o
                                      If(x.before, Between("(", W(x.before) \o If(x.as, <<",">> \o W(x.as)), ")", 1))
          [] x.type = "SUBSTITUTE" -> Between("$(", W(x.op1) \o Modifiers, ")", 1)
          [] x.type = "LITERAL"    -> Between("q", W(x.op1), "q", 1)
  IN  Between("(", Inner, ")", x.closed)

(* The parts of a line behind its first part: each clause and its field.  A  *)
(* clause with nothing behind it may be written again; behind the clauses of *)
(* xml its operand comes.                                                    *)
FieldOf == [as |-> "as", where |-> "before", by |-> "after", to |-> "to", noalias |-> "as",
            before |-> "before", after |-> "after", from |-> "scope", incoming |-> "name"]

Accepted == parse.result = "ok"
Nodes    == parse.nodes
Root     == Nodes[parse.root]

(* Where clauses begin: what is behind << is text.                           *)
Starts(tokens) ==
  {k \in DOMAIN tokens : tokens[k].event \in Clauses /\ (k > 1 => tokens[k - 1].event # "incoming")}

Clausewise(tokens) ==
  LET starts == Starts(tokens)
      W(n) == IF n = 0 THEN << >> ELSE Written(Nodes, n)
      Part(k) == SubSeq(tokens, k + 1, Min({i \in starts \cup {Len(tokens) + 1} : i > k}) - 1)
      OfField(f) == {k \in starts : tokens[k].event \in DOMAIN FieldOf /\ FieldOf[tokens[k].event] = f}
      Behind(f) ==
        FoldLeftDomain(LAMBDA s, k : IF k \in OfField(f) THEN s \o Texts(Part(k)) ELSE s, << >>, tokens)
  IN  /\ \A f \in {"as", "before", "after", "to", "scope", "name"} :
           OfField(f) # {} \/ f \notin {"scope", "name"} =>
             W(Root[f]) \o (IF Root.type = "XML" /\ Max(starts \cup {0}) \in OfField(f) THEN W(Root.op1) ELSE << >>)
               = Behind(f)
      /\ \A k \in starts : tokens[k].event = "nostack" => Part(k) = << >>
      /\ Root.stacked <=> Root.type \in {"FOR", "SCOPE", "NEW"} /\ \A k \in starts : tokens[k].event # "nostack"

(* The tokens of a line are those its tree stands for, in this order: none  *)
(* is lost, none is put elsewhere, whatever the operators and brackets did   *)
(* to the tree on the way.                                                   *)
KeepsTheTokens ==
  Accepted =>
    LET tokens == Front(parse.line)
        start  == Min(Starts(tokens) \cup {Len(tokens) + 1})
        W(n)   == IF n = 0 THEN << >> ELSE Written(Nodes, n)
        Of  == IF Root.name = 0 THEN W(Root.scope)
                  ELSE IF Root.scope = 0 THEN W(Root.name) ELSE W(Root.scope) \o <<".">> \o W(Root.name)
        Args   == IF Root.op1 = 0 THEN {<< >>, <<"(", ")">>} ELSE {Between("(", W(Root.op1), ")", 1)}
        First  == CASE Root.type \in {"FOR", "SORT", "NEW"} -> {Of}
                    [] Root.type \in {"MACRO", "FUNCTION", "CALL"} -> {Of \o a : a \in Args}
                    [] Root.type = "DEFINE" ->
                         {Of \o <<IF Root.operator = "" THEN "=" ELSE Root.operator>> \o W(Root.op2)}
                    [] Root.type \in {"SCOPE", "SAVE", "MOVE", "COPY", "DELETE"} -> {W(Root.scope)}
                    [] Root.type = "XML" /\ start =< Len(tokens) -> {<< >>}
                    [] Root.type = "GSL" /\ start > Len(tokens) -> {W(Root.scope) \o W(Root.op1)}
                    [] OTHER -> {W(Root.op1)}
    IN  Texts(SubSeq(tokens, 1, start - 1)) \in First /\ Clausewise(tokens)

(* An operator takes what binds tighter, and of the same priority what is   *)
(* to its left; a sign or a ! takes one operand.                            *)
KeepsPriorities ==
  Accepted =>
    \A n \in DOMAIN Nodes :
      LET x == Nodes[n]
          Bare(m) == m # 0 /\ Nodes[m].closed = 0 /\ Binary(Nodes[m])
      IN  (x.type = "OPERATOR" /\ x.operator # "," =>
            /\ Bare(x.op1) => priority(Nodes[x.op1].operator) >= priority(x.operator)
            /\ Bare(x.op2) => /\ x.op1 # 0
                              /\ priority(Nodes[x.op2].operator) > priority(x.operator))

(* A node of the tree is the child of its parent, and of nobody else.  An    *)
(* attribute whose two parts were taken is left behind.                      *)
KeepsTheLinks ==
  LET children(n) == {k \in DOMAIN Fields : Nodes[n][Fields[k]] # 0}
      OfTree(n)   == n = parse.root \/ \E k \in children(Nodes[n].parent) : Nodes[Nodes[n].parent][Fields[k]] = n
  IN  Accepted =>
        \A n \in DOMAIN Nodes : OfTree(n) =>
          /\ \A k \in children(n) : Nodes[Nodes[n][Fields[k]]].parent = n
          /\ \A j, k \in children(n) : j # k => Nodes[n][Fields[j]] # Nodes[n][Fields[k]]

(* What an expression is: operands and operators in turn; a bracket behind   *)
(* a name opens arguments, each may be missing; the right operand of ? may   *)
(* be missing.  Where code and manual differ nothing is said: the manual     *)
(* lets that operand be missing in brackets as well, where the parser wants  *)
(* it, and the parser takes a ! with nothing behind it where an operand may  *)
(* be missing.                                                               *)
Wanted(tokens) ==
  LET Step(s, k) ==
        LET e   == tokens[k].event
            top == IF s.open = << >> THEN "line" ELSE Last(s.open)
            Complete == s.want \in {"operator", "optional"}
            Unclear  == \/ s.want = "optional" /\ top = "group" /\ e = "close"
                        \/ s.want = "bare" /\ e \in {"comma", "close", "end"}
            Goes(want) == [s EXCEPT !.want = want]
            Opens(want, kind) == [want |-> want, open |-> Append(s.open, kind)]
            Operands == {"operand", "optional", "bare"}
        IN  CASE s.want \in {"error", "unclear"}                 -> s
              [] Unclear                                         -> Goes("unclear")
              [] e \in {"literal", "number"} /\ s.want \in Operands -> Goes("operator")
              [] e = "unary" /\ s.want \in {"optional", "bare"}   -> Goes("bare")
              [] e \in {"sign", "unary"}                         -> Goes("operand")
              [] e = "operator" /\ s.want = "operator"           -> Goes("operand")
              [] e = "default" /\ s.want = "operator"            -> Goes("optional")
              [] e = "open" /\ s.want \in Operands               -> Opens("operand", "group")
              [] e = "open" /\ s.want = "operator" /\ tokens[k - 1].event = "literal" ->
                   Opens("optional", "arguments")
              [] e = "comma" /\ Complete /\ top = "arguments"    -> Goes("optional")
              [] e = "close" /\ Complete /\ top # "line" -> [want |-> "operator", open |-> Front(s.open)]
              [] e = "end" /\ Complete /\ top = "line"           -> Goes("nothing")
              [] OTHER -> Goes("error")
  IN  FoldLeftDomain(Step, [want |-> "operand", open |-> << >>], tokens).want

(* A line that echoes is accepted where an expression ends, and nothing else *)
(* is, though some errors are only found at a later token; none is seen in   *)
(* what an expression may begin with.                                        *)
AcceptsExpressions ==
  LET wanted == Wanted(parse.line)
  IN  wanted # "unclear" =>
      /\ parse.result = "ok" <=> wanted = "nothing"
      /\ parse.result = "error" => wanted = "error"
      /\ parse.line # << >> /\ Last(parse.line) = End => parse.result # ""

(* What the parser is known to misread, and what the tree then is like: a    *)
(* number with a point and nothing behind it leaves the rest of the line in  *)
(* the number; a sign in front of a point that begins no number is taken     *)
(* for the next number's as well; a name behind a point at the beginning of  *)
(* an operand, and another point with nothing behind it, is not taken apart;  *)
(* the sign of a template's number is lost.                                  *)
Misread ==
  LET Event(k) == IF k \in DOMAIN parse.line THEN parse.line[k].event ELSE ""
      Begins(k) == /\ Event(k) = "point"
                   /\ Event(k - 1) \notin {"literal", "number", "close", "member"} \/ Event(k - 2) = "as"
      Bare(k)   == Event(k) = "point" /\ Event(k + 1) \notin {"number", "literal", "substitute"}
  IN  \E k \in DOMAIN parse.line :
        \/ Bare(k) /\ (Event(k - 1) = "number" \/ \E j \in 1 .. k - 1 : Begins(j))
        \/ Event(k) = "point" /\ Event(k - 1) = "sign" /\ Event(k + 1) # "number"
        \/ Accepted /\ Root.type = "TEMPLATE" /\ Event(k) = "sign"

(* All a line that is not misread promises.                                 *)
ParsedRight ==
  \/ Misread
  \/ KeepsTheTokens /\ KeepsPriorities /\ KeepsTheLinks
=============================================================================
