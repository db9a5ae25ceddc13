-------------------------- MODULE MCGDScriptCompiler --------------------------
(* Four values in three registers, around host calls; requests on both sides  *)
(* of every boundary of the instruction formats; families of programs and the *)
(* calls made of them.                                                        *)
EXTENDS GDScriptCompiler, MCGDScriptFrontEnd

(* Registers. *)

MCVRegs == {"v1", "v2", "v3", "v4"}
MCPool == <<"s11", "t4", "t5">>

\* A value may be put where a call expects its first argument, or where it is
\* wanted for an operation.
MCForceable == {"a0", "t4"}
MCClobberedLists == { <<"a0">>, <<"a0", "a1">> }
MCCode == << {"v1", "v3"}, {"v2", "v4"}, {"v2", "v3"}, {"v1"} >>

(* Instructions. *)

\* A number of 32 bits, given by its halves.
HalfWords(high, low) == Signed(Left(Low(Bits(high), 16), 16) \cup Low(Bits(low), 16), 32)

MCSmall == {Bits(n) : n \in {0, 1, 2047, -1, -2048}}
MCMiddle == {Bits(n) : n \in {2048, 4095, 4096, 6144, -2049, -4096, 1000000}}
MCWide == {HalfWords(\h7FFF, \hF7FF), HalfWords(-\h8000, 0), HalfWords(-\h8000, \h7FF), HalfWords(-\h8000, \h800)}
MCHuge == {{31}, 0 .. 31, 0 .. 62, 32 .. 63, (0 .. 63) \ {31}, {40, 3}}
\* What lui and addi do not make on a machine of 64 bits.
MCCarried == {HalfWords(\h7FFF, \hF800), HalfWords(\h7FFF, -1)}

MCPairs == {<<5, 6>>, <<6, 5>>, <<10, 10>>, <<0, 7>>}
OffsetRequests(ops, registers, imms) == {Request(op, r[1], r[2], 7, i) : op \in ops, r \in registers, i \in imms}
StoreRequests(ops, registers, imms) == {Request(op, 7, r[1], r[2], i) : op \in ops, r \in registers, i \in imms}
ThreeRegisters(ops) == {Request(op, r[1], r[2], 9, {}) : op \in ops, r \in {<<5, 6>>, <<30, 16>>, <<0, 9>>}}

MCIntegers == ThreeRegisters(DOMAIN ALU \cup {"mv", "seqz", "snez", "sext.w"})
MCFloats == ThreeRegisters(DOMAIN FPU \cup {"fadd", "fsub", "fmul", "fdiv", "fcvt.d.s", "fcvt.s.d", "fcvt.d.l", "fcvt.l.d", "fmv.d",
                                  "fmv.s", "fsqrt.d", "fabs.d"})
            \cup {Request(op, r, 6, 0, {}) : op \in {"fcvt.d.r", "fcvt.r.d"}, r \in {5, 6}}
MCMemory == OffsetRequests(DOMAIN Loads \cup {"flr"}, MCPairs \ {<<0, 7>>}, MCSmall \cup MCMiddle \cup MCWide)
            \cup StoreRequests(DOMAIN Stores \cup {"fsr"}, MCPairs, MCSmall \cup MCMiddle \cup MCWide)
MCImmediates == OffsetRequests({"addi", "xori", "jalr"}, MCPairs, MCSmall \cup MCMiddle)
                \cup OffsetRequests({"add_offset"}, MCPairs \ {<<0, 7>>}, MCSmall \cup MCMiddle \cup MCWide)
                \cup OffsetRequests({"li"}, {<<5, 0>>}, MCSmall \cup MCMiddle \cup MCWide \cup MCHuge)
                \cup OffsetRequests({"srai", "slli"}, {<<5, 6>>}, {Bits(n) : n \in {0, 1, 31, 32, 63}})
MCLabels == StoreRequests(DOMAIN BranchCodes, MCPairs, {{}}) \cup OffsetRequests({"jal", "la"}, {<<0, 0>>, <<1, 0>>} , {{}})

MCRequests == MCIntegers \cup MCFloats \cup MCMemory \cup MCImmediates
              \cup {q \in MCLabels : q.op = "la" => q.rd # 0}
MCCarriedRequests == OffsetRequests({"li"}, {<<5, 0>>}, MCCarried \cup MCWide)

MCDisplacements == {Bits(n) : n \in {0, 4, 12, -4, -8, 4094, 4095, 4096, -4096, -4097, -4098, 1048574, 1048576, -1048570, -1048572,
                                     -1048576, -1048578, 6144, 123456, -123458, 100000004}}

(* Programs. *)

a == VariableExpr("a")
b == VariableExpr("b")
x == VariableExpr("x")
y == VariableExpr("y")
i == VariableExpr("i")
g == VariableExpr("g")
h == VariableExpr("h")
K(k) == LiteralExpr(k)
F(q) == FloatExpr(q)
Str(t) == StringExpr("STRING", t)
Yes == BoolExpr(1)
Bin(op, l, r) == BinaryExpr(op, l, r)
Add(l, r) == BinaryExpr("ADD", l, r)
Lt(l, r) == BinaryExpr("CMP_LT", l, r)
List(es) == ArrayLiteralExpr(es)
Do(e) == ExprStmt(e)
Ret(e) == ReturnStmt(e)
Var(v, e) == VarDeclStmt(v, e)
Typed(v, hint, e) == TypedVarStmt(v, hint, e, FALSE)
Set_(v, e) == AssignStmt(v, e)
To(target, e) == AssignToStmt(target, e)
Args(es) == [k \in DOMAIN es |-> <<"", es[k]>>]
CallOf(f, es) == CallExpr(f, Args(es))
Meth(e, name, es) == MethodCallExpr(e, name, Args(es))
At_(e, k) == IndexExpr(e, k)
Mem(e, name) == MemberExpr(e, name)
Vec(e1, e2) == CallOf("Vector2", <<e1, e2>>)
VecI(e1, e2) == CallOf("Vector2i", <<e1, e2>>)

N(n) == <<"INT", n>>
R(q) == <<"FLOAT", q>>
T(t) == <<"STRING", t>>

P(hint, v) == Parameter(v, hint, NoExpr)
Fn(name, params, type, body) == FunctionDecl(name, params, type, body)
F2(hint, type, body) == Fn("f", <<P(hint, "a"), P(hint, "b")>>, type, body)
Global(v, hint, e) == GlobalDecl(v, hint, e, FALSE, FALSE)
Program(gs, fs) == [EmptyProgram EXCEPT !.globals = gs, !.functions = fs]
Source(program, calls) == [program |-> program, calls |-> calls]
OneFunction(f, lists) == Source(Program(<<>>, <<f>>), [k \in DOMAIN lists |-> <<"f", lists[k]>>])

IntLists == << <<N(5), N(3)>>, <<N(-4), N(2)>>, <<N(3), N(3)>>, <<N(32767), N(1)>>, <<N(1), N(0)>> >>
MixedLists == << <<N(5), R(6)>>, <<R(-3), N(2)>>, <<R(8), R(8)>>, <<N(2), N(3)>> >>

IntOps == DOMAIN IntInstruction \ {"SHL", "SHR"}

\* Every operator and comparison, typed or not, as a value and as a condition.
OperatorSources ==
    { OneFunction(F2(hint, type, <<Ret(Bin(op, a, b))>>), IntLists) :
        op \in IntOps \union {"POW"}, hint \in {"int", ""}, type \in {""} } \union
    { OneFunction(F2(hint, "", <<IfStmt(Bin(op, a, b), <<Ret(Bin(op, b, a))>>, <<>>), Ret(K(7))>>), l) :
        op \in Comparisons, hint \in {"int", ""}, l \in {IntLists} } \union
    { OneFunction(F2("", "", <<IfStmt(Bin(op, a, b), <<Ret(K(1))>>, <<>>), Ret(Bin(op2, a, b))>>), MixedLists) :
        op \in {"CMP_LT", "CMP_GTE"}, op2 \in {"ADD", "SUB", "MUL", "CMP_EQ"} }


\* Numbers that are converted where a variable, a result or an operand has a type.
Floats ==
    { OneFunction(F2("float", type, <<Typed("x", hint, Bin(op, a, b)), IfStmt(Lt(x, F(4)), <<Ret(x)>>, <<>>),
                                 Ret(Add(x, K(1)))>>),
             << <<R(6), R(2)>>, <<R(-5), R(8)>>, <<R(0), R(3)>> >>) :
        op \in DOMAIN FloatInstruction, type \in {"", "float"}, hint \in {"", "float"} } \union
    { OneFunction(Fn("f", <<P("int", "a"), P("bool", "b")>>, "float",
                <<Typed("x", hint, b), Set_("x", v), IfStmt(x, <<Ret(x)>>, <<>>), Ret(a)>>),
             << <<N(3), Bool(TRUE)>>, <<N(-1), Bool(FALSE)>> >>) :
        hint \in {"int", "float"}, v \in {b, Yes, K(0)} }

\* Short circuits, choices and signs, over whatever counts as true.
Conditions ==
    { OneFunction(F2("", "", <<Var("x", TernaryExpr(c, List(<<a>>), b)), Do(CallOf("print", <<c, x>>)),
                          WhileStmt(c, <<Set_("a", K(0)), Set_("b", Str("")), IfStmt(UnaryExpr("NOT", c), <<BreakStmt>>, <<>>),
                                         ReturnStmt(K(9))>>), Ret(x)>>),
             << <<N(2), T("s")>>, <<R(0), T("")>>, <<Bool(TRUE), R(-4)>>, <<T(""), N(0)>> >>) :
        c \in { LogicalExpr("and", a, b), LogicalExpr("or", a, UnaryExpr("NOT", b)), UnaryExpr("NOT", a),
                TypeTestExpr(a, "int"), LogicalExpr("and", TypeTestExpr(b, "String"), b) } }

\* Components are read and written in what a variable, a field, an element or a
\* global holds, of a known type or not.
Vectors ==
    LET ways == { <<Typed("x", hint, v), To(Mem(x, "x"), b), Ret(e)>> :
                    hint \in {"", "Vector2"}, v \in {Vec(b, K(3)), Vec(F(3), b)},
                    e \in {x, Mem(x, "x"), Add(x, x), Bin("CMP_EQ", x, Vec(b, K(3)))} }
        lists == << <<N(0), N(2)>>, <<N(0), R(5)>> >>
    IN  { OneFunction(F2("", "", body), lists) : body \in ways } \union
        { OneFunction(F2("", "", <<Var("x", v), Var("y", x), To(Mem(x, "y"), a), Ret(List(<<x, y, Mem(x, "y")>>))>>),
                 << <<N(3), N(7)>>, <<N(-1), N(2)>> >>) : v \in {VecI(b, K(3)), VecI(a, b)} } \union
        { OneFunction(F2("", "", <<Var("y", a), To(Mem(y, "x"), K(9)), Ret(List(<<a, y, Mem(y, "x")>>))>>),
                 << <<<<"VECTOR2", <<4, 8>>>>, N(0)>>, <<<<"VECTOR2I", <<1, 2>>>>, N(0)>>, <<N(1), N(1)>> >>) }

\* Elements from either end, missing ones, copies that are not, and arrays in arrays.
ArrayLists == << <<N(0), N(5)>>, <<N(1), N(6)>>, <<N(-1), N(7)>>, <<N(-2), N(8)>>, <<N(2), N(1)>>, <<N(-3), N(1)>> >>
Arrays ==
    { OneFunction(Fn("f", <<P("int", "a"), P("", "b")>>, "",
                <<Typed("x", hint, List(<<K(1), Str("s")>>)), Var("y", List(<<x, x>>)), s,
                  Do(Meth(x, "append", <<b>>)), Ret(List(<<x, y, Meth(y, "size", <<>>)>>))>>), ArrayLists) :
        hint \in {"", "Array"},
        s \in { To(At_(x, a), b), Do(CallOf("print", <<At_(x, a), b>>)), To(At_(At_(y, K(0)), a), b),
                Set_("b", At_(At_(y, a), K(0))), To(At_(y, a), x), Set_("b", Meth(x, "pop_back", <<>>)) } } \union
    { OneFunction(F2("", "", <<ForStmt("i", e, <<IfStmt(Bin("CMP_EQ", i, b), <<s>>, <<>>), Set_("a", Add(a, i))>>), Ret(a)>>),
             << <<N(1), N(2)>>, <<N(0), N(5)>>, <<N(10), N(0)>> >>) :
        e \in { CallOf("range", <<K(4)>>), CallOf("range", <<K(3), b, K(-1)>>), CallOf("range", <<a, K(3)>>),
                List(<<K(2), K(0), K(5)>>), K(3), DictionaryLiteralExpr(<< <<K(2), K(1)>>, <<K(5), K(1)>> >>) },
        s \in {BreakStmt, ContinueStmt, Ret(List(<<i>>))} }


\* Structs, of which one is a field of the other, and dictionaries with and without
\* a known type.
Structs == << StructDecl("Q", <<Field("k", "int", K(4)), Field("w", "float", NoExpr), Field("l", "Array", NoExpr)>>),
              StructDecl("O", <<Field("q", "Q", NoExpr), Field("v", "Vector2", NoExpr), Field("n", "String", Str("o"))>>) >>
WithStructs(f, lists) ==
    Source([Program(<<>>, <<f>>) EXCEPT !.structs = Structs], [k \in DOMAIN lists |-> <<"f", lists[k]>>])
Named(name, e) == <<name, e>>

StructSources ==
    { WithStructs(Fn("f", <<P("", "a"), P("int", "b")>>, "", <<Typed("x", "O", made), s, Ret(List(<<x, e>>))>>),
                  << <<N(3), N(0)>>, <<T("t"), N(2)>> >>) :
        made \in { NoExpr, CallExpr("O", << Named("v", Vec(b, K(2))), Named("n", Str("p")) >>),
                   MethodCallExpr(VariableExpr("O"), "new", << <<"", CallExpr("Q", <<Named("w", b)>>)>> >>) },
        s \in { To(Mem(Mem(x, "q"), "k"), b), To(Mem(Mem(x, "v"), "y"), b), To(Mem(x, "n"), Str("r")),
                Do(Meth(Mem(Mem(x, "q"), "l"), "append", <<a>>)), To(Mem(Mem(x, "q"), "w"), F(5)) },
        e \in { Mem(Mem(x, "q"), "w"), Mem(Mem(x, "v"), "y") } }

Dict == DictionaryLiteralExpr(<< <<Str("k"), a>>, <<K(2), List(<<b>>)>> >>)
Dictionaries ==
    { OneFunction(Fn("f", <<P("", "a"), P("", "b")>>, "",
                <<Typed("x", hint, Dict), Var("y", x), s, Ret(List(<<x, Meth(y, "size", <<>>), At_(x, Str("k"))>>))>>),
             << <<N(3), N(2)>>, <<T("k"), T("k")>>, <<N(2), N(9)>> >>) :
        hint \in {"", "Dictionary"},
        s \in { To(At_(y, b), K(7)), To(Mem(x, "k"), b), Do(CallOf("print", <<Mem(x, "k"), At_(x, b)>>)),
                Do(Meth(At_(y, K(2)), "append", <<a>>)), IfStmt(Bin("IN", b, x), <<Ret(a)>>, <<>>),
                ForStmt("i", x, <<IfStmt(Bin("CMP_EQ", At_(x, i), a), <<Ret(i)>>, <<>>)>>),
                IfStmt(Meth(x, "has", <<b>>), <<To(At_(x, b), a), Ret(b)>>, <<ReturnStmt(y)>>) } }

\* Patterns of every kind, guards, bindings and tables of jumps.
Case(patterns, body) == Branch(patterns, NoExpr, body)
Answer(k) == <<Set_("x", Add(x, K(k)))>>
Table == << Case(<<ValuePattern(K(0)), ValuePattern(K(2))>>, Answer(1)), Case(<<ValuePattern(K(3))>>, Answer(2)),
            Case(<<ValuePattern(K(4))>>, Answer(3)), Case(<<ValuePattern(K(-1))>>, <<ReturnStmt(b)>>) >>
Matching(type, branches, is_switch, lists) ==
    OneFunction(Fn("f", <<P(type, "a"), P("", "b")>>, "", <<Var("x", K(10)), MatchStmt(a, branches, is_switch), Ret(x)>>), lists)

Scalars == << <<N(0), N(8)>>, <<N(1), N(8)>>, <<N(2), N(8)>>, <<N(3), N(8)>>, <<N(4), N(8)>>, <<N(5), N(8)>>,
              <<N(-1), N(8)>>, <<N(-2), N(8)>> >>
Matches ==
    { Matching(type, branches, FALSE, Scalars) :
        type \in {"int", ""},
        branches \in { Table, Append(Table, Case(<<WildcardPattern>>, Answer(5))),
                       <<Case(<<BindPattern("y")>>, <<Set_("x", y)>>)>>,
                       <<Branch(<<BindPattern("y")>>, Lt(y, K(2)), <<Set_("x", y)>>), Case(<<WildcardPattern>>, Answer(1))>>,
                       <<Branch(<<ValuePattern(K(0))>>, b, Answer(6))>> \o Tail(Table) } }
    \union { Matching("int", Table, TRUE, Scalars), Matching("", Table, FALSE, << <<R(8), N(1)>>, <<R(5), N(1)>> >>) }
    \union
    { OneFunction(F2("", "", <<Var("x", K(10)), MatchStmt(At_(List(<<e>>), K(0)), << Case(<<ArrayPattern(<<ValuePattern(K(1)), BindPattern("y")>>, open)>>, <<Set_("x", y)>>),
                                                     Case(<<ArrayPattern(<<>>, FALSE)>>, Answer(1)),
                                                     Branch(<<DictionaryPattern(<< <<Str("k"), <<BindPattern("y")>> >> >>, open)>>, Lt(y, b), <<Set_("x", y)>>),
                                                     Case(<<DictionaryPattern(<< <<K(2), <<>> >> >>, TRUE)>>, Answer(2)) >>, FALSE), Ret(x)>>),
             << <<N(3), N(2)>>, <<N(1), N(9)>> >>) :
        open \in BOOLEAN,
        e \in { a, List(<<K(1), b>>), List(<<a, b, b>>), List(<<>>), Dict, DictionaryLiteralExpr(<< <<Str("k"), a>> >>) } }


\* Functions that call each other and themselves, with defaults, many arguments and
\* results on the way.
Calls(fs, calls) == Source([Program(<<>>, fs) EXCEPT !.structs = Structs], calls)
Fact == Fn("fact", <<P("int", "a")>>, "int",
           <<IfStmt(Lt(a, K(2)), <<Ret(K(1))>>, <<>>), Ret(Bin("MUL", a, CallOf("fact", <<Bin("SUB", a, K(1))>>)))>>)
Pick == Fn("pick", <<P("", "a"), Parameter("b", "", K(4)), Parameter("x", "", Str("d"))>>, "",
           <<IfStmt(TypeTestExpr(a, "int"), <<Set_("a", x)>>, <<>>), Var("y", List(<<b, a>>)), Set_("b", K(0)), Ret(y)>>)
Const(name, e) == Fn(name, <<P("", "a")>>, "", <<Ret(e)>>)

CallSources ==
    { Calls(<<Fact, Pick, Const("c", e), F2("", "", <<Var("x", CallOf("pick", <<a>>)), Var("y", CallOf("c", <<b>>)),
                                     Do(CallOf("print", <<x, y, CallOf("c", <<K(5)>>)>>)), Ret(r)>>)>>,
            << <<"f", <<N(0), N(6)>>>>, <<"fact", <<N(4)>>>>, <<"f", <<T("s"), R(6)>>>>, <<"c", <<N(9)>>>> >>) :
        e \in { K(3), F(2), Yes, NullExpr, a, Str("z"), List(<<a>>), CallOf("typeof", <<a>>), TypeTestExpr(a, "float") },
        r \in { CallOf("pick", <<x, y>>), Add(CallOf("fact", <<K(3)>>), CallOf("fact", <<CallOf("fact", <<K(2)>>)>>)),
                CallOf("pick", <<CallOf("c", <<a>>), CallOf("pick", <<y>>), b>>) } } \union
    { Calls(<<Fn("g", <<P("", "a"), P("", "b"), P("", "c"), P("", "d"), P("", "e"), P("", "i"), P("", "x")>>, "",
                 <<Var("y", Add(a, x)), IfStmt(b, <<Ret(List(<<y, i, VariableExpr("e")>>))>>, <<>>), Ret(VariableExpr("d"))>>),
              F2("", "", <<IfStmt(a, <<Ret(CallOf("g", <<a, b, K(3), K(4), K(5), K(6), b>>))>>, <<>>),
                           Ret(CallOf("g", <<b, a, K(3), List(<<a>>), K(5), K(6), K(7)>>))>>)>>,
            << <<"f", <<N(1), N(0)>>>>, <<"f", <<N(0), N(2)>>>>, <<"g", <<N(1), N(2), N(3), N(4), N(5), N(6), N(7)>>>> >>) }
    \union
    { Calls(<<F2("", "", <<Do(CallOf("print", <<a>>)), Do(CallOf("assert", <<Bin(op, a, b)>>)), Do(CallOf("print", <<>>)), Ret(b)>>),
              Fn("g", <<P("int", "a")>>, "", <<ForStmt("i", K(3), <<Do(CallOf("f", <<i, a>>))>>), Ret(a)>>)>>,
            << <<"f", <<N(1), N(0)>>>>, <<"g", <<N(1)>>>>, <<"f", <<N(0), N(2)>>>>, <<"g", <<N(7)>>>> >>) :
        op \in {"CMP_LT", "CMP_NEQ"} }

\* Globals of every type, computed and not, that one call leaves to the next.
Globals(gs, body) ==
    Source([Program(gs, <<Fn("f", <<P("", "a"), P("int", "b")>>, "", body)>>) EXCEPT !.structs = Structs,
             !.enums = <<EnumDecl("E", <<Member("U", 3), Member("V", 7)>>), EnumDecl("", <<Member("M", 5)>>)>>],
           << <<"f", <<T("s"), N(1)>>>>, <<"f", <<N(4), N(0)>>>>, <<"f", <<R(10), N(-1)>>>> >>)

GlobalSources ==
    { Globals(<<Global("g", hint, e[1]), GlobalDecl("h", "", Bin("MUL", K(3), VariableExpr("M")), FALSE, TRUE),
                GlobalDecl("k", "int", K(6), TRUE, FALSE)>>,
              <<Set_("h", Add(h, VariableExpr("k"))), Do(CallOf("print", <<g, h>>)), s, Set_("g", e[2]), Ret(r)>>) :
        hint \in {"", "float"}, e \in { <<F(2), Add(F(5), b)>>, <<F(-8), Add(g, F(1))>> },
        s \in { Set_("h", Mem(VariableExpr("E"), "V")), Set_("g", Add(g, g)) }, r \in { g, h } } \union
    { Globals(<<Global("g", hint, e[1]), Global("h", "", Add(K(1), K(2)))>>,
              <<Set_("h", Add(h, K(1))), s, Set_("g", e[2]), Ret(List(<<h, g>>))>>) :
        hint \in {"", "String"}, e \in { <<Str("a"), Str("b")>>, <<Str(""), Add(g, Str("c"))>>, <<Add(Str("x"), Str("y")), Str("")>> },
        s \in { PassStmt, IfStmt(Bin("CMP_EQ", g, Str("b")), <<Set_("g", Str("e"))>>, <<>>), Do(CallOf("print", <<g>>)) } } \union
    { Globals(<<Global("g", hint, e), GlobalDecl("h", "bool", NoExpr, FALSE, TRUE)>>,
              <<s, Do(Meth(g, "append", <<a>>)), Set_("h", UnaryExpr("NOT", h)), Ret(List(<<h, Meth(g, "size", <<>>)>>))>>) :
        hint \in {"", "Array"}, e \in {List(<<>>), List(<<K(1), List(<<>>)>>)},
        s \in { PassStmt, Set_("g", List(<<b>>)), ForStmt("i", g, <<Do(CallOf("print", <<i>>))>>),
                IfStmt(g, <<To(At_(g, K(0)), b)>>, <<>>) } } \union
    { Globals(<<Global("g", "O", NoExpr), Global("h", "Vector2", Vec(K(1), K(2)))>>,
              <<s, To(Mem(h, "x"), Add(Mem(h, "y"), F(2))), Ret(List(<<g, h>>))>>) :
        s \in { To(Mem(Mem(g, "q"), "k"), b), To(Mem(Mem(g, "v"), "x"), b), To(Mem(g, "n"), Str("r")),
                Set_("g", CallExpr("O", <<Named("n", Str("p"))>>)), Do(Meth(Mem(Mem(g, "q"), "l"), "append", <<h>>)) } }

MCSources == OperatorSources \union Floats \union Conditions \union Vectors \union Arrays \union StructSources
             \union Dictionaries \union Matches \union CallSources \union GlobalSources
===============================================================================
