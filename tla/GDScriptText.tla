------------------------------ MODULE GDScriptText ------------------------------
(***************************************************************************)
(* How a program is written down: the grammar of the language, from its    *)
(* table of precedences instead of from the parser.                        *)
(***************************************************************************)
EXTENDS GDScriptLexer, GDScriptParser

\* The higher the tighter.  Operators of one level group from the left, but for
\* the conditional one, which groups from the right.
Precedence(e) ==
    CASE e.expr = "as"      -> 0
      [] e.expr = "ternary" -> 1
      [] e.expr = "logical" -> IF e.op = "or" THEN 2 ELSE 3
      [] e.expr = "binary"  ->
           (CASE e.op = "IN" -> 5
              [] e.op \in {"CMP_EQ", "CMP_NEQ"} -> 6
              [] e.op \in {"CMP_LT", "CMP_LTE", "CMP_GT", "CMP_GTE"} -> 7
              [] e.op = "BIT_OR" -> 8
              [] e.op = "BIT_XOR" -> 9
              [] e.op = "BIT_AND" -> 10
              [] e.op \in {"SHL", "SHR"} -> 11
              [] e.op \in {"ADD", "SUB"} -> 12
              [] e.op \in {"MUL", "DIV", "MOD"} -> 13
              [] e.op = "POW" -> 15)
      [] e.expr = "unary"   -> IF e.op = "NOT" THEN 4 ELSE 16
      [] e.expr = "is"      -> 14
      [] OTHER -> 17

Symbol(op) == CHOOSE s \in DOMAIN BinaryOp : BinaryOp[s] = op

\* The characters of an operator; "and", "or" and "not" can be words, too.
Spelling(token, style) ==
    IF token \in Range(Operators) /\ ~(style.words /\ token \in Keywords)
    THEN CHOOSE s \in DOMAIN Operators : Operators[s] = token
    ELSE <<token>>

\* With a blank between words that would be one.
Spaced(text) ==
    FlattenSeq([i \in DOMAIN text |->
        IF i > 1 /\ {text[i - 1], text[i]} \intersect (Characters \ DOMAIN Digit) = {}
                /\ ~(text[i - 1] \in DOMAIN Digit /\ text[i] \in DOMAIN Digit)
        THEN <<"SP", text[i]>> ELSE <<text[i]>>])

\* A style: what comes between words, after an opening bracket, before the end of
\* a line and after it, what indents, what ends a simple statement that another
\* follows (nothing: the end of the line), whether "op=" is used, and whether the
\* logical operators are words.
Separated(parts, by) == FlattenSeq([i \in DOMAIN parts |-> IF i = 1 THEN parts[1] ELSE by \o parts[i]])
Listed(open, items, close, style) ==
    open \o style.inner \o Separated(items, <<",">> \o style.inner) \o close

RECURSIVE DigitsOf(_)
DigitsOf(k) == IF k > 9 THEN DigitsOf(k \div 10) \o DigitsOf(k % 10)
               ELSE <<CHOOSE d \in DOMAIN Digit : Digit[d] = k>>

RECURSIVE Expression(_, _)
RECURSIVE InContext(_, _, _)

\* In parentheses where the context asks for a tighter expression.
InContext(e, level, style) ==
    IF Precedence(e) < level THEN <<"(">> \o style.inner \o Expression(e, style) \o <<")">>
    ELSE Expression(e, style)

Arguments(args, style) ==
    Listed(<<"(">>, [i \in DOMAIN args |->
                        (IF args[i][1] = "" THEN <<>> ELSE <<args[i][1], "=">>)
                            \o InContext(args[i][2], 0, style)], <<")">>, style)

Expression(e, style) ==
    LET p == Precedence(e)
        In(x, level) == InContext(x, level, style)
        \* The name of a variable would be the key itself.
        Key(x) == IF {Head(In(x, 0))} \intersect (Characters \union Keywords) # {} THEN In(x, 0)
                  ELSE InContext(x, 99, style)
        Infix(s) == style.between \o Spelling(s, style) \o <<"SP">>
    IN  CASE e.expr = "literal"  -> IF e.type = "BOOL" THEN <<IF e.val = 1 THEN "true" ELSE "false">>
                                    ELSE DigitsOf(e.val)
          [] e.expr = "null"     -> <<"null">>
          [] e.expr = "float"    -> e.digits
          [] e.expr = "string"   ->
                (CASE e.string_type = "STRING" -> <<>>
                   [] e.string_type = "STRING_NAME" -> <<"&">>
                   [] e.string_type = "NODE_PATH" -> <<"^">>) \o style.quotes \o e.text \o style.quotes
          [] e.expr = "variable" -> <<e.name>>
          [] e.expr = "binary"   -> In(e.left, p) \o Infix(Symbol(e.op)) \o In(e.right, p + 1)
          [] e.expr = "logical"  -> In(e.left, p) \o Infix(e.op) \o In(e.right, p + 1)
          [] e.expr = "unary"    ->
                (CASE e.op = "NOT" -> Spelling("not", style) [] e.op = "NEG" -> <<"-">> [] e.op = "BIT_NOT" -> <<"~">>)
                    \o In(e.operand, p)
          [] e.expr = "is"       -> In(e.value, p) \o Infix("is") \o <<e.type_name>>
          [] e.expr = "as"       -> In(e.value, p) \o Infix("as") \o <<e.class_name>>
          [] e.expr = "ternary"  ->
                In(e.yes, 2) \o Infix("if") \o In(e.cond, 2) \o Infix("else") \o In(e.no, 1)
          [] e.expr = "call"     -> <<e.function_name>> \o Arguments(e.arguments, style)
          [] e.expr = "member"   -> In(e.object, p) \o <<".", e.member_name>>
          [] e.expr = "method"   -> In(e.object, p) \o <<".", e.member_name>> \o Arguments(e.arguments, style)
          [] e.expr = "index"    -> In(e.object, p) \o <<"[">> \o In(e.index, 0) \o <<"]">>
          [] e.expr = "array"    ->
                Listed(<<"[">>, [i \in DOMAIN e.elements |-> In(e.elements[i], 0)], <<"]">>, style)
          [] e.expr = "dictionary" ->
                Listed(<<"{">>, [i \in DOMAIN e.pairs |->
                                    Key(e.pairs[i][1]) \o <<":">> \o In(e.pairs[i][2], 0)],
                       <<"}">>, style)

RECURSIVE Pattern(_, _)
Pattern(p, style) ==
    LET Rest == IF p.open THEN <<<<".", ".">>>> ELSE <<>>
    IN  CASE p.kind = "wildcard" -> <<"_">>
          [] p.kind = "bind"     -> <<"var", p.name>>
          [] p.kind = "value"    -> InContext(p.value, 0, style)
          [] p.kind = "array"    ->
                Listed(<<"[">>, [i \in DOMAIN p.elements |-> Pattern(p.elements[i], style)] \o Rest,
                       <<"]">>, style)
          [] p.kind = "dictionary" ->
                Listed(<<"{">>, [i \in DOMAIN p.entries |->
                                    InContext(p.entries[i][1], 0, style)
                                    \o (IF p.entries[i][2] = <<>> THEN <<>>
                                        ELSE <<":">> \o Pattern(p.entries[i][2][1], style))] \o Rest,
                       <<"}">>, style)

Hint(type) == IF type = "" THEN <<>> ELSE <<":", type>>
DefaultText(e, style) == IF e = NoExpr THEN <<>> ELSE <<"=">> \o InContext(e, 0, style)
Compound(s, style) ==
    /\ style.compound
    /\ s.value.expr = "binary"
    /\ s.value.op \in {"ADD", "SUB", "MUL", "DIV", "MOD", "POW", "BIT_AND", "BIT_OR", "BIT_XOR", "SHL", "SHR"}
    /\ s.value.left = (IF s.stmt = "assign" THEN VariableExpr(s.name) ELSE s.target)

Assignment(s, target, style) ==
    IF Compound(s, style)
    THEN target \o Spelling(CHOOSE c \in DOMAIN CompoundOp : CompoundOp[c] = Symbol(s.value.op), style)
                \o InContext(s.value.right, 0, style)
    ELSE target \o <<"=">> \o InContext(s.value, 0, style)

\* The text of a statement that fits on a line.
Simple(s, style) ==
    CASE s.stmt = "var"       -> <<IF s.is_const THEN "const" ELSE "var", s.name>> \o Hint(s.type_hint)
                                    \o DefaultText(s.value, style)
      [] s.stmt = "assign"    -> Assignment(s, <<s.name>>, style)
      [] s.stmt = "assign to" -> Assignment(s, Expression(s.target, style), style)
      [] s.stmt = "expr"      -> Expression(s.value, style)
      [] s.stmt = "return"    -> <<"return">> \o (IF s.value = NoExpr THEN <<>> ELSE InContext(s.value, 0, style))
      [] OTHER                -> <<s.stmt>>

IsSimple(s) == s.stmt \notin {"if", "while", "for", "match"}

Line(depth, text, style) ==
    FlattenSeq([i \in 1 .. depth |-> style.unit]) \o text \o style.eol \o style.gap

RECURSIVE Block(_, _, _)
RECURSIVE If(_, _, _, _)

\* An if that is all there is in an else branch is an elif.
If(s, keyword, depth, style) ==
    Line(depth, <<keyword>> \o InContext(s.cond, 0, style) \o <<":">>, style)
    \o Block(s.then, depth + 1, style)
    \o (IF s.else = <<>> THEN <<>>
        ELSE IF Len(s.else) = 1 /\ s.else[1].stmt = "if" THEN If(s.else[1], "elif", depth, style)
        ELSE Line(depth, <<"else", ":">>, style) \o Block(s.else, depth + 1, style))

BranchText(b, depth, style) ==
    Line(depth, Separated([i \in DOMAIN b.patterns |-> Pattern(b.patterns[i], style)], <<",">>)
                \o (IF b.guard = NoExpr THEN <<>> ELSE <<"when">> \o InContext(b.guard, 0, style))
                \o <<":">>, style)
    \o Block(b.body, depth + 1, style)

Block(body, depth, style) ==
    LET Joined(i) == /\ style.join # <<>> /\ i < Len(body)
                     /\ IsSimple(body[i]) /\ IsSimple(body[i + 1])
                     /\ body[i] # ReturnStmt(NoExpr)
        Text(i) ==
            LET s == body[i]
            IN  CASE s.stmt = "if"    -> If(s, "if", depth, style)
                  [] s.stmt = "while" -> Line(depth, <<"while">> \o InContext(s.cond, 0, style) \o <<":">>, style)
                                         \o Block(s.body, depth + 1, style)
                  [] s.stmt = "for"   -> Line(depth, <<"for", s.variable, "in">>
                                                     \o InContext(s.iterable, 0, style) \o <<":">>, style)
                                         \o Block(s.body, depth + 1, style)
                  [] s.stmt = "match" ->
                        Line(depth, <<IF s.is_switch THEN "switch" ELSE "match">>
                                    \o InContext(s.subject, 0, style) \o <<":">>, style)
                        \o FlattenSeq([k \in DOMAIN s.branches |->
                                            BranchText(s.branches[k], depth + 1, style)])
                  [] OTHER -> IF i > 1 /\ Joined(i - 1)
                              THEN Simple(s, style) \o (IF Joined(i) THEN style.join ELSE style.eol \o style.gap)
                              ELSE IF Joined(i) THEN FlattenSeq([d \in 1 .. depth |-> style.unit])
                                                     \o Simple(s, style) \o style.join
                              ELSE Line(depth, Simple(s, style), style)
    IN  FlattenSeq([i \in DOMAIN body |-> Text(i)])

Declarations(p, style) ==
    LET Global(g) ==
            Line(0, (IF g.is_property THEN <<"@", "export", "SP">> ELSE <<>>)
                    \o Simple(TypedVarStmt(g.name, g.type_hint, g.value, g.is_const), style), style)
        Struct(s) ==
            Line(0, <<"struct", s.name, ":">>, style)
            \o FlattenSeq([i \in DOMAIN s.fields |->
                    Line(1, <<"var", s.fields[i].name>> \o Hint(s.fields[i].type_hint)
                            \o DefaultText(s.fields[i].default_value, style), style)])
        EnumMember(m) == <<m.name, "=">> \o (IF m.value < 0 THEN <<"-">> \o DigitsOf(-m.value) ELSE DigitsOf(m.value))
        Enum(e) ==
            Line(0, <<"enum">> \o (IF e.name = "" THEN <<>> ELSE <<e.name>>)
                    \o Listed(<<"{">>, [i \in DOMAIN e.members |->
                                          IF i > 1 /\ e.members[i].value = e.members[i - 1].value + 1
                                          THEN <<e.members[i].name>> ELSE EnumMember(e.members[i])],
                              <<"}">>, style), style)
        Param(a) == <<a.name>> \o Hint(a.type_hint) \o DefaultText(a.default_value, style)
        Function(f) ==
            Line(0, <<"func", f.name>>
                    \o Listed(<<"(">>, [i \in DOMAIN f.parameters |-> Param(f.parameters[i])], <<")">>, style)
                    \o (IF f.return_type = "" THEN <<>> ELSE <<"-", ">", f.return_type>>) \o <<":">>, style)
            \o Block(f.body, 1, style)
    IN  FlattenSeq([i \in DOMAIN p.globals |-> Global(p.globals[i])])
        \o FlattenSeq([i \in DOMAIN p.structs |-> Struct(p.structs[i])])
        \o FlattenSeq([i \in DOMAIN p.enums |-> Enum(p.enums[i])])
        \o FlattenSeq([i \in DOMAIN p.functions |-> Function(p.functions[i])])
================================================================================
