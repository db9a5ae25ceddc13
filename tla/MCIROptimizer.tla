----------------------------- MODULE MCIROptimizer -----------------------------
(* Families of functions to compile: two parameters, a local x, a global g.    *)
EXTENDS IROptimizer

m == VariableExpr("m")
n == VariableExpr("n")
x == VariableExpr("x")
g == VariableExpr("g")
K(k) == LiteralExpr(k)
Add(a, b) == BinaryExpr("ADD", a, b)
Sub(a, b) == BinaryExpr("SUB", a, b)
Div(a, b) == BinaryExpr("DIV", a, b)
Lt(a, b) == BinaryExpr("CMP_LT", a, b)
Not(a) == UnaryExpr("NOT", a)
Neg(a) == UnaryExpr("NEG", a)

MCGlobals == <<"g">>

Function(body) ==
    FunctionDecl("f", <<Parameter("n", "", NoExpr), Parameter("m", "", NoExpr)>>, "", body)

Assigns ==
    { AssignStmt("x", K(2)), AssignStmt("x", n), AssignStmt("x", Add(x, n)), AssignStmt("x", g),
      AssignStmt("n", Sub(n, K(1))), AssignStmt("n", Add(x, m)), AssignStmt("g", x) }

\* Three assignments in a row.
Straight ==
    { Function(<<VarDeclStmt("x", e), s1, s2, s3, ReturnStmt(Sub(x, n))>>) :
        e \in {K(1), n}, s1 \in Assigns, s2 \in Assigns, s3 \in Assigns }

\* A loop around statements that may leave it, go round again, return, or hide
\* a variable.
Exits == { IfStmt(Lt(n, K(1)), <<BreakStmt>>, <<>>), IfStmt(Lt(x, n), <<ReturnStmt(x)>>, <<>>) }

Steps == Assigns \union Exits \union
    { VarDeclStmt("x", K(2)), IfStmt(Lt(n, m), <<AssignStmt("x", n)>>, <<ContinueStmt>>) }

Loop(c, body) ==
    Function(<<VarDeclStmt("x", K(1)), WhileStmt(c, Append(body, AssignStmt("n", Sub(n, K(1))))),
               ReturnStmt(x)>>)

\* A block may not declare a variable twice.
Pairs == {p \in Steps \X Steps : p[1].stmt # "var" \/ p[2].stmt # "var"}

Loops ==
    { Loop(c, p) : p \in Pairs, c \in {Lt(K(0), n), LogicalExpr("and", Lt(K(0), n), Lt(x, K(3)))} }
    \union { Loop(BoolExpr(1), <<s1, s2>>) : s1 \in Steps, s2 \in Exits }
    \union { Loop(Lt(K(0), n), <<VarDeclStmt("x", K(2)), s1, s2>>) : s1 \in Assigns, s2 \in Assigns }

\* A loop in a loop.
NestedLoops ==
    { Function(<<VarDeclStmt("x", K(0)),
                 WhileStmt(Lt(x, n), <<s1, WhileStmt(c, <<s2, AssignStmt("m", Sub(m, K(1)))>>),
                                       AssignStmt("x", Add(x, K(1)))>>),
                 ReturnStmt(r)>>) :
        c \in {Lt(K(0), m), Not(Lt(m, K(1)))}, s1 \in Assigns, r \in {x, m},
        s2 \in {BreakStmt, ContinueStmt, AssignStmt("g", K(3)), IfStmt(Lt(m, n), <<BreakStmt>>, <<>>)} }

\* Every comparison, as a condition and as a value, short circuits and signs.
Tests ==
    { BinaryExpr(op, a, b) : op \in Comparisons, a \in {n, K(1)}, b \in {m, K(0)} } \union
    { LogicalExpr(op, a, b) : op \in {"and", "or"}, a \in {n, Lt(n, m)}, b \in {Not(m), BoolExpr(0)} } \union
    { Not(Neg(n)), Neg(K(-4)) }

Conditionals ==
    { Function(<<VarDeclStmt("x", TernaryExpr(c, a, m)),
                 IfStmt(c, <<AssignStmt("x", Div(x, b))>>, <<AssignStmt("g", c)>>), ReturnStmt(x)>>) :
        c \in Tests, a \in {n, Div(K(-4), K(-1)), Sub(K(-4), K(1))}, b \in {K(0), m} }

MCSources == Straight \union Loops \union NestedLoops \union Conditionals
MCArguments == {0, 2, NaN}

\* Every pass, as the compiler runs them; and the ones that move code or reach
\* across instructions, on the code as it was generated.
MCPipeline == {Range(pipeline)}
MCSelections == MCPipeline \union {{"licm", "peephole", "redundant-stores"}}
===============================================================================
