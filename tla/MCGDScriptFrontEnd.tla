--------------------------- MODULE MCGDScriptFrontEnd ---------------------------
(***************************************************************************)
(* Programs and the ways to write them, and arbitrary short files.         *)
(***************************************************************************)
EXTENDS GDScriptFrontEnd, GDScriptText

(* Styles. *)

PlainStyle ==
    [inner |-> <<>>, between |-> <<"SP">>, quotes |-> <<"\"">>, unit |-> <<"TAB">>, eol |-> <<"LF">>,
     gap |-> <<>>, join |-> <<>>, compound |-> FALSE, words |-> TRUE]

\* Lists and parentheses on lines of their own, operators behind a backslash.
BrokenStyle ==
    [PlainStyle EXCEPT !.inner = <<"LF", "SP", "SP">>, !.between = <<"BS", "SP", "LF", "TAB">>,
                       !.quotes = <<"\"", "\"", "\"">>, !.words = FALSE]

\* Comments and blank lines, statements on one line.
DenseStyle ==
    [PlainStyle EXCEPT !.inner = <<"#", "x", "LF">>, !.between = <<>>, !.quotes = <<"'">>,
                       !.unit = <<"SP", "SP">>, !.eol = <<"SP", "#", "if", "LF">>,
                       !.gap = <<"TAB", "LF", "#", "x", "LF">>, !.join = <<";", "SP">>,
                       !.compound = TRUE]
Styles == {PlainStyle, BrokenStyle, DenseStyle}

(* Programs. *)

A == VariableExpr("a")
B == VariableExpr("b")
C == VariableExpr("c")
Text == StringExpr("STRING", <<"x">>)

Func(body) == [EmptyProgram EXCEPT !.functions = <<FunctionDecl("f", <<>>, "", body)>>]

\* An expression from one or two others.
Contexts(e, f) ==
    {BinaryExpr(op, e, f) : op \in {"ADD", "SUB", "MUL", "POW", "SHL", "BIT_AND", "BIT_XOR", "BIT_OR",
                                    "CMP_LT", "CMP_EQ", "IN"}}
    \union {LogicalExpr(op, e, f) : op \in {"and", "or"}}
    \union {UnaryExpr(op, e) : op \in {"NEG", "NOT", "BIT_NOT"}}
    \union {TernaryExpr(e, f, C), TernaryExpr(C, e, f), TypeTestExpr(e, "T"), ClassCastExpr(e, "T"),
            MemberExpr(e, "x"), IndexExpr(e, f), CallExpr("g", <<<<"", e>>, <<"x", f>>>>),
            MethodCallExpr(e, "g", <<<<"", f>>>>), ArrayLiteralExpr(<<e, f>>),
            DictionaryLiteralExpr(<<<<Text, e>>, <<e, f>>>>)}

Leaves == {LiteralExpr(12), BoolExpr(1), BoolExpr(0), NullExpr, FloatExpr(<<"1", ".", "2">>), Text,
           StringExpr("STRING_NAME", <<"x">>), StringExpr("NODE_PATH", <<"x", "/", "#">>), A}

Expressions == Leaves
    \union UNION { Contexts(x, B) \union Contexts(A, x) : x \in Contexts(A, C) }

Simples == { VarDeclStmt("x", NoExpr), TypedVarStmt("x", "T", A, FALSE), TypedVarStmt("x", "", A, TRUE),
             AssignStmt("a", BinaryExpr("ADD", A, B)), AssignStmt("a", BinaryExpr("SHL", A, B)),
             AssignToStmt(IndexExpr(A, B), BinaryExpr("POW", IndexExpr(A, B), C)),
             AssignToStmt(MemberExpr(A, "x"), B), ExprStmt(CallExpr("g", <<>>)),
             ReturnStmt(NoExpr), ReturnStmt(A), BreakStmt, ContinueStmt, PassStmt }

\* Statements around a block.
Blocks(body) ==
    { IfStmt(A, body, <<>>), IfStmt(A, <<PassStmt>>, body), IfStmt(A, <<PassStmt>>, <<IfStmt(B, body, <<PassStmt>>)>>),
      WhileStmt(A, body), ForStmt("x", A, body),
      MatchStmt(A, <<Branch(<<ValuePattern(LiteralExpr(1)), ValuePattern(B)>>, NoExpr, body),
                     Branch(<<BindPattern("y")>>, C, body)>>, FALSE),
      MatchStmt(A, <<Branch(<<ArrayPattern(<<WildcardPattern, ArrayPattern(<<>>, TRUE)>>, FALSE)>>, NoExpr, body),
                     Branch(<<DictionaryPattern(<<<<Text, <<BindPattern("y")>>>>, <<LiteralExpr(2), <<>>>>>>, TRUE)>>,
                            NoExpr, body)>>, TRUE) }

Statements == { <<s, t>> : s, t \in Simples }
    \union { <<x, y, BreakStmt>> : x, y \in Blocks(<<PassStmt, ReturnStmt(A)>>) }
    \union { <<y>> : y \in UNION { Blocks(<<x>>) : x \in UNION { Blocks(<<z>>) : z \in {BreakStmt} } } }

Programs ==
    { Func(<<ReturnStmt(e)>>) : e \in Expressions } \union { Func(body) : body \in Statements }
    \union { [globals |-> gs, structs |-> ss, enums |-> es, functions |-> fs] :
        gs \in { <<>>, <<GlobalDecl("a", "T", A, FALSE, TRUE), GlobalDecl("b", "", A, TRUE, FALSE)>> },
        ss \in { <<>>, <<StructDecl("S", <<Field("x", "T", NoExpr), Field("y", "", A)>>)>> },
        es \in { <<>>, <<EnumDecl("", <<Member("x", 0), Member("y", 1)>>),
                         EnumDecl("E", <<Member("x", -2), Member("y", -1), Member("z", 3)>>)>> },
        fs \in { <<>>, <<FunctionDecl("f", <<Parameter("a", "", NoExpr), Parameter("b", "T", A)>>, "T", <<PassStmt>>),
                         FunctionDecl("g", <<>>, "", <<ReturnStmt(NoExpr)>>)>> } }

(* Files of four lines, in which no bracket is closed that is not open. *)

Lines == { i \o rest : i \in {<<>>, <<"SP">>, <<"SP", "SP">>, <<"TAB">>},
                       rest \in {<<"a", "LF">>, <<"LF">>, <<"#", "LF">>} }
         \union { <<"a", "(", "LF">>, <<"a", "BS", "LF">>, <<"SP", ")", "LF">> }
Closes(file) == \A n \in DOMAIN file :
    Cardinality({i \in 1 .. n : file[i] = ")"}) <= Cardinality({i \in 1 .. n : file[i] = "("})
Files == { file \in { a \o b \o c \o d : a \in {<<"a", "LF">>, <<"SP", "a", "LF">>}, b, c, d \in Lines } :
               Closes(file) }

MCTexts ==
    { [text |-> Spaced(Declarations(p, style)), program |-> <<p>>] : p \in Programs, style \in Styles }
    \union { [text |-> file, program |-> <<>>] : file \in Files }
===============================================================================
