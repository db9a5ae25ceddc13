------------------------------ MODULE GDScriptAST ------------------------------
(***************************************************************************)
(* Syntax trees of the GDScript compiler (ast.h): records, of which "expr" *)
(* or "stmt" tells the class.  Positions are left out.  A pointer that may *)
(* be null holds NoExpr instead.                                           *)
(***************************************************************************)
EXTENDS Integers, Sequences

(* Expressions. *)

NoExpr == [expr |-> "none"]
LiteralExpr(k) == [expr |-> "literal", type |-> "INT", val |-> k]
BoolExpr(k) == [expr |-> "literal", type |-> "BOOL", val |-> k]
NullExpr == [expr |-> "null"]
FloatExpr(digits) == [expr |-> "float", digits |-> digits]
StringExpr(type, text) == [expr |-> "string", string_type |-> type, text |-> text]
VariableExpr(x) == [expr |-> "variable", name |-> x]
BinaryExpr(op, l, r) == [expr |-> "binary", op |-> op, left |-> l, right |-> r]
LogicalExpr(op, l, r) == [expr |-> "logical", op |-> op, left |-> l, right |-> r]
UnaryExpr(op, e) == [expr |-> "unary", op |-> op, operand |-> e]
TernaryExpr(c, t, f) == [expr |-> "ternary", cond |-> c, yes |-> t, no |-> f]
TypeTestExpr(e, type) == [expr |-> "is", value |-> e, type_name |-> type]
ClassCastExpr(e, class) == [expr |-> "as", value |-> e, class_name |-> class]

\* An argument is a pair of its name, "" when it has none, and its value.
CallExpr(f, args) == [expr |-> "call", function_name |-> f, arguments |-> args]
MemberExpr(e, name) == [expr |-> "member", object |-> e, member_name |-> name]
MethodCallExpr(e, name, args) ==
    [expr |-> "method", object |-> e, member_name |-> name, arguments |-> args]
IndexExpr(e, index) == [expr |-> "index", object |-> e, index |-> index]
ArrayLiteralExpr(elements) == [expr |-> "array", elements |-> elements]
DictionaryLiteralExpr(pairs) == [expr |-> "dictionary", pairs |-> pairs]

(* Statements. *)

TypedVarStmt(x, hint, e, const) ==
    [stmt |-> "var", name |-> x, type_hint |-> hint, value |-> e, is_const |-> const]
VarDeclStmt(x, e) == TypedVarStmt(x, "", e, FALSE)
AssignStmt(x, e) == [stmt |-> "assign", name |-> x, value |-> e]
AssignToStmt(target, e) == [stmt |-> "assign to", target |-> target, value |-> e]
ExprStmt(e) == [stmt |-> "expr", value |-> e]
ReturnStmt(e) == [stmt |-> "return", value |-> e]
IfStmt(c, then, else) == [stmt |-> "if", cond |-> c, then |-> then, else |-> else]
WhileStmt(c, body) == [stmt |-> "while", cond |-> c, body |-> body]
ForStmt(x, e, body) == [stmt |-> "for", variable |-> x, iterable |-> e, body |-> body]
BreakStmt == [stmt |-> "break"]
ContinueStmt == [stmt |-> "continue"]
PassStmt == [stmt |-> "pass"]
MatchStmt(e, branches, is_switch) ==
    [stmt |-> "match", subject |-> e, branches |-> branches, is_switch |-> is_switch]
Branch(patterns, guard, body) == [patterns |-> patterns, guard |-> guard, body |-> body]

(* Patterns. *)

ValuePattern(e) == [kind |-> "value", value |-> e]
WildcardPattern == [kind |-> "wildcard"]
BindPattern(x) == [kind |-> "bind", name |-> x]
ArrayPattern(elements, open) == [kind |-> "array", elements |-> elements, open |-> open]

\* An entry is a pair of a key and a sequence that holds its pattern, if it has one.
DictionaryPattern(entries, open) == [kind |-> "dictionary", entries |-> entries, open |-> open]

RECURSIVE binds(_)
binds(p) ==
    CASE p.kind = "bind"       -> TRUE
      [] p.kind = "array"      -> \E i \in DOMAIN p.elements : binds(p.elements[i])
      [] p.kind = "dictionary" -> \E i \in DOMAIN p.entries :
                                     p.entries[i][2] # <<>> /\ binds(p.entries[i][2][1])
      [] p.kind \in {"value", "wildcard"} -> FALSE

(* Declarations. *)

Parameter(x, hint, default) == [name |-> x, type_hint |-> hint, default_value |-> default]
FunctionDecl(f, params, type, body) ==
    [name |-> f, parameters |-> params, return_type |-> type, body |-> body]
Field(x, hint, default) == [name |-> x, type_hint |-> hint, default_value |-> default]
StructDecl(x, fields) == [name |-> x, fields |-> fields]
Member(x, k) == [name |-> x, value |-> k]
EnumDecl(x, members) == [name |-> x, members |-> members]
GlobalDecl(x, hint, e, const, property) ==
    [name |-> x, type_hint |-> hint, value |-> e, is_const |-> const, is_property |-> property]

EmptyProgram == [globals |-> <<>>, structs |-> <<>>, enums |-> <<>>, functions |-> <<>>]
===============================================================================
