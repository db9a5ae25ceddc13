---------------------------- MODULE GDScriptCodegen ----------------------------
(***************************************************************************)
(* The code generator of the GDScript compiler (codegen.cpp): a program's  *)
(* functions become instructions over registers that are never reused.     *)
(* The generator is a record that every gen_ operator extends; gen_ of an  *)
(* expression leaves the expression's register in reg.                     *)
(*                                                                         *)
(* Every register has the one type the generator believes it to have, and  *)
(* the instructions carry those types to the backend as hints.  Of the     *)
(* built-in types that are made of components, Vector2 and Vector2i stand  *)
(* for all; objects of the host and the functions of the global scope are  *)
(* left out, except print and typeof.                                      *)
(***************************************************************************)
EXTENDS GDScriptIR, GDScriptAST, TLC

-------------------------------------------------------------------------------
(* Types. *)

TypeNames == [ int |-> "INT", float |-> "FLOAT", bool |-> "BOOL", String |-> "STRING",
               Array |-> "ARRAY", Dictionary |-> "DICTIONARY",
               Vector2 |-> "VECTOR2", Vector2i |-> "VECTOR2I" ]

type_hint_from_string(name) == IF name \in DOMAIN TypeNames THEN TypeNames[name] ELSE "NONE"

\* The types made of components, and what reads their members.
InlineTypes == <<"VECTOR2", "VECTOR2I">>
is_inline_member_access(type, member) == type \in Range(InlineTypes) /\ member \in {"x", "y"}
inline_member_types(member) == SelectSeq(InlineTypes, LAMBDA t : is_inline_member_access(t, member))
ComponentType(type) == IF type = "VECTOR2I" THEN "INT" ELSE "FLOAT"

-------------------------------------------------------------------------------
(* What the generator knows of the program. *)

\* The declaration of a name, the last one when it is declared more than once.
ByName(decls) ==
    [x \in {decls[i].name : i \in DOMAIN decls} |->
        decls[Max({i \in DOMAIN decls : decls[i].name = x})]]

\* globals: for each, its name, whether it is constant, its declared type and
\* struct, what a constant was folded to, what is in the data of the program
\* (sequences of at most one value) and the type reads take it to have; lowered:
\* how many globals have been lowered.
Environment(program) ==
    [ functions |-> ByName(program.functions),
      structs   |-> ByName(program.structs),
      enums     |-> ByName(SelectSeq(program.enums, LAMBDA d : d.name # "")),
      enum_members |-> ByName(FlattenSeq([i \in DOMAIN program.enums |->
                            IF program.enums[i].name = "" THEN program.enums[i].members ELSE <<>>])),
      globals   |-> [i \in DOMAIN program.globals |->
                        LET d == program.globals[i]
                            of_struct == d.type_hint \in {s.name : s \in Range(program.structs)}
                        IN  [ name |-> d.name, is_const |-> d.is_const, is_property |-> d.is_property,
                              struct |-> IF of_struct THEN d.type_hint ELSE "",
                              type |-> IF of_struct THEN "DICTIONARY"
                                       ELSE type_hint_from_string(d.type_hint),
                              folded |-> <<>>, init |-> <<>>, value_type |-> "NONE" ]],
      lowered   |-> 0 ]

-------------------------------------------------------------------------------
\* The generator: the code so far, the next register and label, the variables of
\* every open scope, the labels of the loops around the statement, the type and
\* the struct of every register known to have one, the structs whose defaults are
\* being built, and the first error ("" while there is none).
Generator(env, return_type) ==
    [ env |-> env, code |-> <<>>, next_register |-> 0, next_label |-> 0,
      scopes |-> << <<>> >>, loops |-> <<>>, types |-> <<>>, structs |-> <<>>,
      struct_default_stack |-> <<>>, return_type |-> return_type, reg |-> None, error |-> "" ]

error_at(g, what) == IF g.error = "" THEN [g EXCEPT !.error = what] ELSE g

Emit(g, instr) == [g EXCEPT !.code = Append(@, instr)]

alloc_register(g) == [g EXCEPT !.next_register = @ + 1, !.reg = g.next_register]

make_labels(g, n) == [g EXCEPT !.next_label = @ + n]

get_register_type(g, r) == IF r \in DOMAIN g.types THEN g.types[r] ELSE "NONE"
set_register_type(g, r, type) == [g EXCEPT !.types = (r :> type) @@ @]

get_register_struct(g, r) == IF r \in DOMAIN g.structs THEN g.structs[r] ELSE ""
set_register_struct(g, r, struct) ==
    IF struct = "" THEN [g EXCEPT !.structs = [q \in DOMAIN @ \ {r} |-> @[q]]]
    ELSE set_register_type([g EXCEPT !.structs = (r :> struct) @@ @], r, "DICTIONARY")

find_struct(g, name) == IF name \in DOMAIN g.env.structs THEN {g.env.structs[name]} ELSE {}

\* What a declared type says of a register; a type that is not known says nothing.
apply_declared_type(g, r, hint) ==
    IF find_struct(g, hint) # {} THEN set_register_struct(g, r, hint)
    ELSE IF type_hint_from_string(hint) # "NONE"
    THEN set_register_type(g, r, type_hint_from_string(hint))
    ELSE g

\* A fresh register and the instruction that defines it, whose result has a type
\* and which takes its operands to have another.
EmitHinted(g, op, src, imm, hint, type) ==
    LET fresh == alloc_register(g)
        done  == Emit(fresh, [Instr(op, fresh.reg, src, imm, None) EXCEPT !.hint = hint])
    IN  IF type = "NONE" THEN done ELSE set_register_type(done, fresh.reg, type)

EmitTo(g, op, src, imm, type) == EmitHinted(g, op, src, imm, "NONE", type)

\* An instruction that defines a register of before.
Redefine(g, op, r, src, hint) == Emit(g, [Instr(op, r, src, 0, None) EXCEPT !.hint = hint])

\* The type of the condition travels with the branch.
emit_conditional_branch(g, op, cond_reg, lbl) ==
    Emit(g, [Instr(op, None, <<cond_reg>>, 0, lbl) EXCEPT !.hint = get_register_type(g, cond_reg)])

gen_int_immediate(g, k) == EmitHinted(g, "LOAD_IMM", <<>>, k, "INT", "INT")
gen_float_immediate(g, k) == EmitHinted(g, "LOAD_FLOAT_IMM", <<>>, k, "FLOAT", "FLOAT")
LoadString(g, text) == EmitHinted(g, "LOAD_STRING", <<>>, text, "STRING", "STRING")

-------------------------------------------------------------------------------
(* Scopes. *)

push_scope(g) == [g EXCEPT !.scopes = Append(@, <<>>)]
pop_scope(g) == [g EXCEPT !.scopes = Front(@)]

Declaring(g, x) == {k \in DOMAIN g.scopes : x \in DOMAIN g.scopes[k]}
IsLocal(g, x) == Declaring(g, x) # {}
find_variable(g, x) == g.scopes[Max(Declaring(g, x))][x]

declare_variable(g, x, r, is_const) ==
    IF x \in DOMAIN Last(g.scopes) THEN error_at(g, "already declared in this scope")
    ELSE [g EXCEPT !.scopes[Len(g.scopes)] = (x :> [reg |-> r, is_const |-> is_const]) @@ @]

GlobalIndices(g, x) == {i \in DOMAIN g.env.globals : g.env.globals[i].name = x}
IsGlobal(g, x) == GlobalIndices(g, x) # {}
GlobalIndex(g, x) == Max(GlobalIndices(g, x))
IsGlobalConst(g, x) == \E i \in GlobalIndices(g, x) : g.env.globals[i].is_const

-------------------------------------------------------------------------------
(* Conversions and constants. *)

\* A bug to be caught: a bool is taken for the int it should be converted to.
widens_Mutant(actual, declared) == declared = "FLOAT" /\ actual \in {"INT", "BOOL"}

widens(actual, declared) ==
    (declared = "FLOAT" /\ actual \in {"INT", "BOOL"}) \/ (declared = "INT" /\ actual = "BOOL")

\* A value of a known type is converted or refused; one of no known type is
\* taken to have the type it should have.
coerce_to_declared_type(g, r, declared) ==
    LET actual == get_register_type(g, r)
    IN  IF declared = "NONE" \/ actual \in {"NONE", declared} THEN [g EXCEPT !.reg = r]
        ELSE IF widens(actual, declared)
        THEN EmitHinted(g, "CONVERT", <<r>>, actual, declared, declared)
        ELSE error_at(g, "wrong type")

\* A value known before the program runs: its type and the value itself.
Folded(type, val) == <<[type |-> type, val |-> val]>>

\* What an expression folds to: a sequence of at most one value.
RECURSIVE fold_global_initializer(_, _)
fold_global_initializer(g, e) ==
    CASE e.expr = "literal" -> Folded(e.type, e.val)
      [] e.expr = "float"   -> Folded("FLOAT", e.digits)
      [] e.expr = "string" /\ e.string_type = "STRING" -> Folded("STRING", e.text)
      [] e.expr = "null"    -> Folded("NIL", 0)
      [] e.expr = "unary"   ->
            LET inner == fold_global_initializer(g, e.operand)
            IN  IF inner = <<>> THEN <<>>
                ELSE LET c == inner[1]
                     IN  CASE e.op = "NEG" /\ c.type = "INT" -> Folded("INT", Wrap(-c.val))
                           [] e.op = "NEG" /\ c.type = "FLOAT" -> Folded("FLOAT", -c.val)
                           [] e.op = "BIT_NOT" /\ c.type = "INT" -> Folded("INT", -c.val - 1)
                           [] e.op = "NOT" /\ c.type \in {"BOOL", "INT", "FLOAT", "NIL"} ->
                                 Folded("BOOL", IF c.val = 0 THEN 1 ELSE 0)
                           [] e.op = "NOT" /\ c.type = "STRING" ->
                                 Folded("BOOL", IF c.val = "" THEN 1 ELSE 0)
                           [] OTHER -> <<>>
      [] e.expr = "variable" /\ IsGlobalConst(g, e.name) -> g.env.globals[GlobalIndex(g, e.name)].folded
      [] e.expr = "array" /\ e.elements = <<>>      -> Folded("ARRAY", <<>>)
      [] e.expr = "dictionary" /\ e.pairs = <<>> -> Folded("DICTIONARY", <<>>)
      [] OTHER -> <<>>

\* Constants of these types are loaded as immediates; shared containers are not.
LoadFolded(g, c) ==
    CASE c.type = "INT"    -> gen_int_immediate(g, c.val)
      [] c.type = "FLOAT"  -> gen_float_immediate(g, c.val)
      [] c.type = "BOOL"   -> EmitHinted(g, "LOAD_BOOL", <<>>, c.val, "BOOL", "BOOL")
      [] c.type = "STRING" -> LoadString(g, c.val)

gen_const_global_value(g, x) ==
    IF ~IsGlobalConst(g, x) THEN {}
    ELSE {LoadFolded(g, c) : c \in {d \in Range(g.env.globals[GlobalIndex(g, x)].folded) :
                                        d.type \in {"INT", "FLOAT", "BOOL", "STRING"}}}

-------------------------------------------------------------------------------
(* Expressions. *)

RECURSIVE gen_expr(_, _)

\* Expressions one after the other: the generator after the last of them, and
\* the registers of all.
gen_list(exprs, g) ==
    FoldLeft(LAMBDA acc, e : LET v == gen_expr(e, acc.g) IN [g |-> v, regs |-> Append(acc.regs, v.reg)],
             [g |-> g, regs |-> <<>>], exprs)

gen_literal(e, g) ==
    CASE e.expr = "literal" -> LoadFolded(g, [type |-> e.type, val |-> e.val])
      [] e.expr = "float"   -> gen_float_immediate(g, e.digits)
      [] e.expr = "string"  -> LoadString(g, e.text)
      [] e.expr = "null"    -> EmitHinted(g, "LOAD_NIL", <<>>, 0, "NIL", "NIL")

\* A local variable is copied to a fresh register at every use.  A constant that
\* was folded is loaded as an immediate, and nothing may name a global that is
\* lowered after it.
gen_variable(e, g) ==
    LET x == e.name
    IN  CASE IsLocal(g, x) ->
                LET r == find_variable(g, x).reg
                    copy == EmitTo(g, "MOVE", <<r>>, 0, get_register_type(g, r))
                IN  set_register_struct(copy, copy.reg, get_register_struct(g, r))
          [] ~IsLocal(g, x) /\ x \in DOMAIN g.env.enum_members ->
                gen_int_immediate(g, g.env.enum_members[x].value)
          [] ~IsLocal(g, x) /\ x \notin DOMAIN g.env.enum_members
                /\ gen_const_global_value(g, x) # {} -> CHOOSE v \in gen_const_global_value(g, x) : TRUE
          [] ~IsLocal(g, x) /\ x \notin DOMAIN g.env.enum_members
                /\ gen_const_global_value(g, x) = {} /\ IsGlobal(g, x) ->
                LET i == GlobalIndex(g, x)
                    global == g.env.globals[i]
                    load == EmitTo(g, "LOAD_GLOBAL", <<>>, i, "NONE")
                    known == set_register_struct(load, load.reg, global.struct)
                IN  IF i > g.env.lowered THEN error_at(g, "used in an initializer before it")
                    ELSE IF global.type = "NONE" THEN known
                    ELSE set_register_type(known, load.reg, global.type)
          [] OTHER -> error_at(g, "undefined variable")

\* Operands of one type are operated on natively.
CommonType(g, l, r, types) ==
    IF get_register_type(g, l) = get_register_type(g, r) /\ get_register_type(g, l) \in types
    THEN get_register_type(g, l) ELSE "NONE"

gen_binary(e, g) ==
    LET left  == gen_expr(e.left, g)
        right == gen_expr(e.right, left)
        types == CASE e.op \in {"SHL", "SHR", "BIT_AND", "BIT_OR", "BIT_XOR"} -> {"INT"}
                   [] e.op \in {"POW", "IN"} -> {}
                   [] OTHER -> {"INT", "FLOAT"} \union Range(InlineTypes)
        hint == CommonType(right, left.reg, right.reg, types)
    IN  EmitHinted(right, e.op, <<left.reg, right.reg>>, 0, hint,
                   IF e.op \in Comparisons \union {"IN"} THEN "BOOL" ELSE hint)

gen_unary(e, g) ==
    LET operand == gen_expr(e.operand, g)
        type    == get_register_type(operand, operand.reg)
        native  == CASE e.op = "NEG" -> {"INT", "FLOAT"} [] e.op = "BIT_NOT" -> {"INT"} [] OTHER -> {}
        hint    == IF type \in native THEN type ELSE "NONE"
    IN  EmitHinted(operand, e.op, <<operand.reg>>, 0, hint, IF e.op = "NOT" THEN "BOOL" ELSE hint)

\* The right operand is evaluated only when the left one does not decide.
gen_logical(e, g) ==
    LET end    == g.next_label
        skip   == IF e.op = "and" THEN "BRANCH_ZERO" ELSE "BRANCH_NOT_ZERO"
        decided == IF e.op = "and" THEN 0 ELSE 1
        start  == EmitTo(make_labels(g, 1), "LOAD_BOOL", <<>>, decided, "BOOL")
        left   == gen_expr(e.left, start)
        right  == gen_expr(e.right, emit_conditional_branch(left, skip, left.reg, end))
        both   == emit_conditional_branch(right, skip, right.reg, end)
        set    == Emit(both, LOAD_BOOL(start.reg, 1 - decided))
    IN  [Emit(set, LABEL(end)) EXCEPT !.reg = start.reg]

\* Only the branch taken is evaluated.
gen_ternary(e, g) ==
    LET else   == g.next_label
        end    == g.next_label + 1
        result == alloc_register(make_labels(g, 2))
        cond   == gen_expr(e.cond, result)
        yes    == gen_expr(e.yes, emit_conditional_branch(cond, "BRANCH_ZERO", cond.reg, else))
        moved  == Emit(Emit(Emit(yes, MOVE(result.reg, yes.reg)), JUMP(end)), LABEL(else))
        no     == gen_expr(e.no, moved)
        type   == get_register_type(no, yes.reg)
        joined == [Emit(Emit(no, MOVE(result.reg, no.reg)), LABEL(end)) EXCEPT !.reg = result.reg]
    IN  IF type # "NONE" /\ type = get_register_type(no, no.reg)
        THEN set_register_type(joined, result.reg, type) ELSE joined

\* A known type folds the test.
gen_type_test(e, g) ==
    LET tested == type_hint_from_string(e.type_name)
        value  == gen_expr(e.value, g)
        known  == get_register_type(value, value.reg)
    IN  IF known # "NONE"
        THEN EmitTo(value, "LOAD_BOOL", <<>>, IF known = tested THEN 1 ELSE 0, "BOOL")
        ELSE EmitTo(value, "TYPE_TEST", <<value.reg>>, tested, "BOOL")

-------------------------------------------------------------------------------
(* Containers, their elements and members. *)

gen_array_literal(e, g) ==
    LET elements == gen_list(e.elements, g)
    IN  EmitTo(elements.g, "MAKE_ARRAY", elements.regs, 0, "ARRAY")

\* Every key is evaluated before its value.
gen_dictionary_literal(e, g) ==
    LET pairs == gen_list(FlattenSeq(e.pairs), g)
    IN  EmitTo(pairs.g, "MAKE_DICTIONARY", pairs.regs, 0, "DICTIONARY")

gen_dictionary_op(g, op, dict, keys, type) == EmitTo(g, "CALL_SYSCALL", <<dict>> \o keys, op, type)

gen_array_size(g, array) == EmitTo(g, "CALL_SYSCALL", <<array>>, "ARRAY_SIZE", "INT")
gen_array_element(g, array, i) == EmitTo(g, "CALL_SYSCALL", <<array, i>>, "ARRAY_AT", "NONE")

is_array_element_access(g, obj, idx) ==
    get_register_type(g, obj) = "ARRAY" /\ get_register_type(g, idx) = "INT"

VCall(g, obj, method, args) == EmitTo(g, "VCALL", <<obj>> \o args, method, "NONE")

gen_element_read(g, obj, idx) ==
    CASE get_register_type(g, obj) = "STRING" -> error_at(g, "cannot subscript a String")
      [] is_array_element_access(g, obj, idx) -> EmitTo(g, "ARRAY_GET", <<obj, idx>>, 0, "NONE")
      [] get_register_type(g, obj) = "DICTIONARY" -> gen_dictionary_op(g, "DICT_GET", obj, <<idx>>, "NONE")
      [] OTHER -> VCall(g, obj, "get", <<idx>>)

gen_element_store(g, obj, idx, value) ==
    CASE is_array_element_access(g, obj, idx) -> Emit(g, Instr("ARRAY_SET", None, <<obj, idx, value>>, 0, None))
      [] get_register_type(g, obj) = "DICTIONARY" ->
            Emit(g, Instr("DICT_SET", None, <<obj, idx, value>>, 0, None))
      [] OTHER -> VCall(g, obj, "set", <<idx, value>>)

gen_dict_get(g, obj, key) ==
    LET name == LoadString(g, key) IN gen_dictionary_op(name, "DICT_GET", obj, <<name.reg>>, "NONE")

gen_dict_set(g, obj, key, value) ==
    LET name == LoadString(g, key)
    IN  Emit(name, Instr("DICT_SET", None, <<obj, name.reg, value>>, 0, None))

gen_inline_member_get(g, obj, type, member) ==
    EmitTo(g, "VGET_INLINE", <<obj>>, <<type, member>>, ComponentType(type))

gen_inline_member_set(g, obj, type, member, value) ==
    Emit(g, Instr("VSET_INLINE", None, <<obj, value>>, <<type, member>>, None))

gen_vget(g, obj, member) == EmitTo(g, "VGET", <<obj>>, member, "NONE")
gen_vset(g, obj, member, value) == Emit(g, Instr("VSET", None, <<obj, value>>, member, None))

\* A member of a value of unknown type: one test for every type that has it
\* inline, and what is left is an object.  At(g, type) reads or writes it there.
MemberByType(g, obj, member, At(_, _)) ==
    LET end == g.next_label
        attempt(acc, type) ==
            LET next == acc.next_label
                test == EmitTo(make_labels(acc, 1), "TYPE_TEST", <<obj>>, type, "BOOL")
                done == At(emit_conditional_branch(test, "BRANCH_ZERO", test.reg, next), type)
            IN  Emit(Emit(done, JUMP(end)), LABEL(next))
        tried == FoldLeft(attempt, make_labels(g, 1), inline_member_types(member))
    IN  Emit(At(tried, "OBJECT"), LABEL(end))

gen_dynamic_member_get(g, obj, member) ==
    LET result == alloc_register(g)
        At(acc, type) ==
            LET read == IF type = "OBJECT" THEN gen_vget(acc, obj, member)
                        ELSE gen_inline_member_get(acc, obj, type, member)
            IN  Emit(read, MOVE(result.reg, read.reg))
    IN  [MemberByType(result, obj, member, At) EXCEPT !.reg = result.reg]

gen_dynamic_member_set(g, obj, member, value) ==
    LET At(acc, type) == IF type = "OBJECT" THEN gen_vset(acc, obj, member, value)
                         ELSE gen_inline_member_set(acc, obj, type, member, value)
    IN  MemberByType(g, obj, member, At)

FieldOf(struct, x) == {struct.fields[i] : i \in {j \in DOMAIN struct.fields : struct.fields[j].name = x}}

\* Structs are dictionaries of which the fields are known.
gen_member_read(g, obj, member) ==
    LET type == get_register_type(g, obj)
        structs == find_struct(g, get_register_struct(g, obj))
    IN  CASE is_inline_member_access(type, member) -> gen_inline_member_get(g, obj, type, member)
          [] structs # {} ->
                LET fields == FieldOf(CHOOSE s \in structs : TRUE, member)
                    read   == gen_dict_get(g, obj, member)
                IN  IF fields = {} THEN error_at(g, "no such field")
                    ELSE apply_declared_type(read, read.reg, (CHOOSE f \in fields : TRUE).type_hint)
          [] structs = {} /\ type = "DICTIONARY" -> gen_dict_get(g, obj, member)
          [] type = "NONE" /\ inline_member_types(member) # <<>> -> gen_dynamic_member_get(g, obj, member)
          [] OTHER -> gen_vget(g, obj, member)

\* The generator, and whether it was a copy that was written to.
gen_member_store(g, obj, member, value) ==
    LET type == get_register_type(g, obj)
    IN  CASE type = "DICTIONARY" -> [g |-> gen_dict_set(g, obj, member, value), copy |-> FALSE]
          [] is_inline_member_access(type, member) ->
                [g |-> gen_inline_member_set(g, obj, type, member, value), copy |-> TRUE]
          [] type = "NONE" /\ inline_member_types(member) # <<>> ->
                [g |-> gen_dynamic_member_set(g, obj, member, value), copy |-> TRUE]
          [] OTHER -> [g |-> gen_vset(g, obj, member, value), copy |-> FALSE]

gen_index(e, g) ==
    LET obj == gen_expr(e.object, g)
        idx == gen_expr(e.index, obj)
    IN  gen_element_read(idx, obj.reg, idx.reg)

-------------------------------------------------------------------------------
(* Constructors. *)

\* Containers are made empty; a vector of no arguments is zero.
gen_inline_constructor(name, args, g) ==
    LET type   == TypeNames[name]
        result == alloc_register(g)
        zero(acc, k) ==
            LET z == IF ComponentType(type) = "INT" THEN gen_int_immediate(acc.g, 0)
                     ELSE gen_float_immediate(acc.g, 0)
            IN  [g |-> z, regs |-> Append(acc.regs, z.reg)]
        components == IF args = <<>> /\ type \in Range(InlineTypes)
                      THEN FoldLeft(zero, [g |-> result, regs |-> <<>>], <<"x", "y">>)
                      ELSE [g |-> result, regs |-> args]
        make == [Instr("MAKE_" \o type, result.reg, components.regs, 0, None) EXCEPT !.hint = type]
    IN  IF Len(args) # 0 /\ (type \notin Range(InlineTypes) \/ Len(args) # 2)
        THEN error_at(g, "wrong number of arguments")
        ELSE [set_register_type(Emit(components.g, make), result.reg, type) EXCEPT !.reg = result.reg]

\* What a variable of a type holds before it is given a value; only the types
\* the guest can construct have one.
HasDefault(hint) == type_hint_from_string(hint) # "NONE"

gen_default_value(hint, g) ==
    CASE hint = "int"    -> gen_int_immediate(g, 0)
      [] hint = "float"  -> gen_float_immediate(g, 0)
      [] hint = "bool"   -> LoadFolded(g, [type |-> "BOOL", val |-> 0])
      [] hint = "String" -> LoadString(g, "")
      [] OTHER           -> gen_inline_constructor(hint, <<>>, g)

RECURSIVE gen_struct_construct(_, _, _)

\* Converts a value to the type of a field, and notes that type.
FieldValue(g, field) ==
    LET coerced == coerce_to_declared_type(g, g.reg, type_hint_from_string(field.type_hint))
    IN  apply_declared_type(coerced, coerced.reg, field.type_hint)

\* A field of a struct is a fresh instance of it, unless that would never end; a
\* field of no type the guest can construct is the integer 0.
gen_field_default(field, g) ==
    LET nested == find_struct(g, field.type_hint)
    IN  CASE field.default_value # NoExpr -> FieldValue(gen_expr(field.default_value, g), field)
          [] field.default_value = NoExpr /\ nested # {} ->
                IF field.type_hint \in Range(g.struct_default_stack) THEN error_at(g, "contains itself")
                ELSE [gen_struct_construct(CHOOSE s \in nested : TRUE, <<>>, g)
                        EXCEPT !.struct_default_stack = g.struct_default_stack]
          [] field.default_value = NoExpr /\ nested = {} /\ HasDefault(field.type_hint) ->
                gen_default_value(field.type_hint, g)
          [] OTHER -> EmitTo(g, "LOAD_IMM", <<>>, 0, "NONE")

\* The field an argument gives a value to: the one it names, or the one at its
\* place.  None when there is no such field.
FieldIndex(struct, args, i) ==
    LET named == {k \in DOMAIN struct.fields : struct.fields[k].name = args[i][1]}
    IN  CASE args[i][1] = "" /\ i \in DOMAIN struct.fields -> i
          [] args[i][1] # "" /\ named # {} -> Min(named)
          [] OTHER -> None

\* Arguments are evaluated in the order of the call, then the defaults of the
\* fields without one; the fields go into a dictionary in their own order.
gen_struct_construct(struct, args, g) ==
    LET target == [i \in DOMAIN args |-> FieldIndex(struct, args, i)]
        give(acc, i) ==
            LET v == FieldValue(gen_expr(args[i][2], acc.g), struct.fields[target[i]])
            IN  [g |-> v, regs |-> (target[i] :> v.reg) @@ acc.regs]
        given == FoldLeft(give, [g |-> g, regs |-> <<>>], [i \in DOMAIN args |-> i])
        default(acc, k) ==
            IF k \in DOMAIN given.regs THEN acc
            ELSE LET v == gen_field_default(struct.fields[k], acc.g)
                 IN  [g |-> v, regs |-> (k :> v.reg) @@ acc.regs]
        inside == [given.g EXCEPT !.struct_default_stack = Append(@, struct.name)]
        values == FoldLeft(default, [g |-> inside, regs |-> given.regs], [k \in DOMAIN struct.fields |-> k])
        result == alloc_register([values.g EXCEPT !.struct_default_stack = g.struct_default_stack])
        key(acc, k) ==
            LET name == LoadString(acc.g, struct.fields[k].name)
            IN  [g |-> name, regs |-> acc.regs \o <<name.reg, values.regs[k]>>]
        pairs == FoldLeft(key, [g |-> result, regs |-> <<>>], [k \in DOMAIN struct.fields |-> k])
        make  == [Instr("MAKE_DICTIONARY", result.reg, pairs.regs, 0, None) EXCEPT !.hint = "DICTIONARY"]
        done  == set_register_struct(Emit(pairs.g, make), result.reg, struct.name)
    IN  IF \E i \in DOMAIN args : target[i] = None THEN error_at(g, "no such field")
        ELSE IF \E i, j \in DOMAIN args : i # j /\ target[i] = target[j]
        THEN error_at(g, "given a value twice")
        ELSE IF values.g.error # "" THEN values.g
        ELSE [done EXCEPT !.reg = result.reg]
-------------------------------------------------------------------------------
(* Calls. *)

gen_compare(g, op, l, r) ==
    EmitHinted(g, op, <<l, r>>, 0, CommonType(g, l, r, {"INT", "FLOAT"} \union Range(InlineTypes)), "BOOL")

\* A failed assertion throws; one that holds is a null.
gen_assert(args, g) ==
    LET passed == g.next_label
        cond   == gen_expr(args[1][2], make_labels(g, 1))
        throw  == Emit(emit_conditional_branch(cond, "BRANCH_NOT_ZERO", cond.reg, passed),
                       Instr("THROW", None, <<>>, "assert", None))
        message_known == Len(args) = 2 => args[2][2].expr = "string" /\ args[2][2].string_type = "STRING"
    IN  IF Len(args) \notin 1 .. 2 THEN error_at(g, "wrong number of arguments")
        ELSE IF ~message_known THEN error_at(g, "message must be a literal")
        ELSE EmitTo(Emit(throw, LABEL(passed)), "LOAD_NIL", <<>>, 0, "NIL")

\* The bounds of a range: start, end and step.
RangeBounds(args, g) ==
    LET zero  == gen_int_immediate(g, 0)
        value == [i \in DOMAIN args |-> args[i][2]]
        listed == gen_list(value, IF Len(args) = 1 THEN zero ELSE g)
        one   == gen_int_immediate(listed.g, 1)
    IN  CASE Len(args) = 1 -> [g |-> one, regs |-> <<zero.reg, listed.regs[1], one.reg>>]
          [] Len(args) = 2 -> [g |-> one, regs |-> Append(listed.regs, one.reg)]
          [] Len(args) = 3 -> listed
          [] OTHER -> [g |-> error_at(g, "wrong number of arguments"), regs |-> <<None, None, None>>]

\* The array of a range is built by a loop that tests the sign of the step every
\* time around; a step of zero fails both tests.
gen_range(args, g) ==
    LET bounds == RangeBounds(args, g)
        end    == bounds.regs[2]
        step   == bounds.regs[3]
        result == [EmitHinted(bounds.g, "MAKE_ARRAY", <<>>, 0, "ARRAY", "ARRAY") EXCEPT !.next_label = @ + 4]
        loop   == bounds.g.next_label
        body   == loop + 1
        down   == loop + 2
        done   == loop + 3
        hint   == IF \A k \in 1 .. 3 : get_register_type(result, bounds.regs[k]) = "INT"
                  THEN "INT" ELSE "NONE"
        value  == EmitTo(result, "MOVE", <<bounds.regs[1]>>, 0, hint)
        zero   == gen_int_immediate(value, 0)
        cond   == Emit(set_register_type(alloc_register(zero), zero.next_register, "BOOL"), LABEL(loop))
        test(acc, op, l, r, branch, lbl) ==
            emit_conditional_branch(Redefine(acc, op, cond.reg, <<l, r>>, hint), branch, cond.reg, lbl)
        rising == test(cond, "CMP_GT", step, zero.reg, "BRANCH_ZERO", down)
        up     == Emit(test(rising, "CMP_LT", value.reg, end, "BRANCH_NOT_ZERO", body), JUMP(done))
        falling == test(Emit(up, LABEL(down)), "CMP_LT", step, zero.reg, "BRANCH_ZERO", done)
        inside == Emit(test(falling, "CMP_GT", value.reg, end, "BRANCH_ZERO", done), LABEL(body))
        append == EmitTo(inside, "ARRAY_APPEND", <<result.reg, value.reg>>, 0, "NONE")
        next   == EmitHinted(append, "ADD", <<value.reg, step>>, 0, hint, hint)
        moved  == Redefine(next, "MOVE", value.reg, <<next.reg>>, "NONE")
    IN  IF bounds.g.error # "" THEN bounds.g
        ELSE [Emit(Emit(moved, JUMP(loop)), LABEL(done)) EXCEPT !.reg = result.reg]

\* What a call of a function of the program passes: its arguments, and for every
\* parameter without one the default, evaluated by the caller.
gen_local_call(decl, args, g) ==
    LET missing == SubSeq(decl.parameters, Len(args) + 1, Len(decl.parameters))
        defaults == gen_list([i \in DOMAIN missing |-> missing[i].default_value], g)
        result  == alloc_register(defaults.g)
        typed   == apply_declared_type(result, result.reg, decl.return_type)
    IN  IF Len(args) > Len(decl.parameters) THEN error_at(g, "too many arguments")
        ELSE IF \E i \in DOMAIN missing : missing[i].default_value = NoExpr
        THEN error_at(g, "missing argument")
        ELSE Emit(typed, Instr("CALL", result.reg, args \o defaults.regs, decl.name, None))

IsNamed(args) == \E i \in DOMAIN args : args[i][1] # ""
Values(args) == [i \in DOMAIN args |-> args[i][2]]

gen_call(e, g) ==
    LET f == e.function_name
        IsFunction == f \in DOMAIN g.env.functions
        args == gen_list(Values(e.arguments), g)
    IN  CASE find_struct(g, f) # {} -> gen_struct_construct(g.env.structs[f], e.arguments, g)
          [] f = "assert" /\ ~IsFunction /\ find_struct(g, f) = {} -> gen_assert(e.arguments, g)
          [] f = "range" /\ ~IsFunction /\ find_struct(g, f) = {}  -> gen_range(e.arguments, g)
          [] OTHER ->
                IF IsNamed(e.arguments) THEN error_at(g, "named arguments")
                ELSE IF args.g.error # "" THEN args.g
                ELSE CASE f \in {"Vector2", "Vector2i", "Array", "Dictionary"} ->
                             gen_inline_constructor(f, args.regs, args.g)
                       [] f = "typeof" ->
                             IF Len(args.regs) # 1 THEN error_at(g, "wrong number of arguments")
                             ELSE EmitHinted(args.g, "TYPE_OF", args.regs, 0, "INT", "INT")
                       [] IsFunction -> gen_local_call(g.env.functions[f], args.regs, args.g)
                       [] f = "print" /\ ~IsFunction -> EmitTo(args.g, "PRINT", args.regs, 0, "NIL")
                       [] OTHER -> error_at(g, "not modelled")

\* The name of a struct or of an enum is a type and not an object, unless a
\* local variable hides it.
gen_member(e, g) ==
    LET object == e.object
        of_enum == object.expr = "variable" /\ ~IsLocal(g, object.name) /\ object.name \in DOMAIN g.env.enums
        members == {m \in Range(g.env.enums[object.name].members) : m.name = e.member_name}
        obj     == gen_expr(object, g)
    IN  IF of_enum
        THEN IF members = {} THEN error_at(g, "no such member")
             ELSE gen_int_immediate(g, (CHOOSE m \in members : TRUE).value)
        ELSE IF obj.error # "" THEN obj
        ELSE gen_member_read(obj, obj.reg, e.member_name)

gen_member_call(e, g) ==
    LET of_struct == /\ e.member_name = "new"
                     /\ e.object.expr = "variable"
                     /\ find_struct(g, e.object.name) # {}
        obj  == gen_expr(e.object, g)
        args == gen_list(Values(e.arguments), obj)
    IN  IF of_struct THEN gen_struct_construct(g.env.structs[e.object.name], e.arguments, g)
        ELSE IF IsNamed(e.arguments) THEN error_at(g, "named arguments")
        ELSE IF /\ Len(args.regs) = 1
                /\ e.member_name \in {"append", "push_back"}
                /\ get_register_type(args.g, obj.reg) = "ARRAY"
        THEN EmitTo(args.g, "ARRAY_APPEND", <<obj.reg>> \o args.regs, 0, "NONE")
        ELSE VCall(args.g, obj.reg, e.member_name, args.regs)

\* Nothing is generated after an error.
gen_expr(e, g) ==
    IF g.error # "" THEN g
    ELSE CASE e.expr \in {"literal", "float", "string", "null"} -> gen_literal(e, g)
           [] e.expr = "variable"   -> gen_variable(e, g)
           [] e.expr = "binary"     -> gen_binary(e, g)
           [] e.expr = "logical"    -> gen_logical(e, g)
           [] e.expr = "unary"      -> gen_unary(e, g)
           [] e.expr = "ternary"    -> gen_ternary(e, g)
           [] e.expr = "is"         -> gen_type_test(e, g)
           [] e.expr = "call"       -> gen_call(e, g)
           [] e.expr = "member"     -> gen_member(e, g)
           [] e.expr = "method"     -> gen_member_call(e, g)
           [] e.expr = "index"      -> gen_index(e, g)
           [] e.expr = "array"      -> gen_array_literal(e, g)
           [] e.expr = "dictionary" -> gen_dictionary_literal(e, g)
-------------------------------------------------------------------------------
(* Stores. *)

\* Nothing may be assigned to a constant; a value is converted to the type the
\* variable has.
gen_store_to_variable(x, value, g) ==
    IF IsLocal(g, x)
    THEN LET var     == find_variable(g, x)
             coerced == coerce_to_declared_type(g, value, get_register_type(g, var.reg))
         IN  IF var.is_const THEN error_at(g, "constant")
             ELSE IF coerced.reg = var.reg THEN coerced
             ELSE Emit(coerced, MOVE(var.reg, coerced.reg))
    ELSE IF IsGlobal(g, x) /\ ~IsGlobalConst(g, x)
    THEN LET i == GlobalIndex(g, x)
             coerced == coerce_to_declared_type(g, value, g.env.globals[i].type)
         IN  Emit(coerced, Instr("STORE_GLOBAL", None, <<coerced.reg>>, i, None))
    ELSE error_at(g, "not a variable")

\* Where a container to be written into is kept: the containers from the variable
\* inwards, each evaluated once, so that what was read as a copy can be written
\* back.
LValue(kind, reg, name, index, container) ==
    [kind |-> kind, reg |-> reg, name |-> name, index |-> index, container |-> container]

RECURSIVE resolve_lvalue(_, _)
resolve_lvalue(e, g) ==
    LET value == gen_expr(e, g)
        temporary == [g |-> value, lvalue |-> LValue("VALUE", value.reg, "", None, <<>>)]
        base  == resolve_lvalue(e.object, g)
        index == gen_expr(e.index, base.g)
    IN  IF g.error # "" THEN [g |-> g, lvalue |-> LValue("VALUE", None, "", None, <<>>)]
        ELSE CASE e.expr = "variable" /\ IsLocal(g, e.name) ->
                    LET var == find_variable(g, e.name)
                    IN  [g |-> g, lvalue |-> LValue(IF var.is_const THEN "VALUE" ELSE "LOCAL",
                                                    var.reg, e.name, None, <<>>)]
               [] e.expr = "variable" /\ ~IsLocal(g, e.name) /\ IsGlobal(g, e.name)
                    /\ ~IsGlobalConst(g, e.name) ->
                    [g |-> value, lvalue |-> LValue("GLOBAL", value.reg, e.name, None, <<>>)]
               [] e.expr = "member" ->
                    LET read == gen_member_read(base.g, base.lvalue.reg, e.member_name)
                    IN  [g |-> read,
                         lvalue |-> LValue("MEMBER", read.reg, e.member_name, None, <<base.lvalue>>)]
               [] e.expr = "index" ->
                    LET read == gen_element_read(index, base.lvalue.reg, index.reg)
                    IN  [g |-> read, lvalue |-> LValue("INDEX", read.reg, "", index.reg, <<base.lvalue>>)]
               [] OTHER -> temporary

RECURSIVE store_lvalue(_, _, _)
\* A bug to be caught: the copy that was changed is not written back.
store_lvalue_Mutant(target, value, g) == g

store_lvalue(target, value, g) ==
    CASE target.kind = "LOCAL"  -> IF target.reg = value THEN g ELSE Emit(g, MOVE(target.reg, value))
      [] target.kind = "GLOBAL" ->
            Emit(g, Instr("STORE_GLOBAL", None, <<value>>, GlobalIndex(g, target.name), None))
      [] target.kind = "MEMBER" ->
            LET container == target.container[1]
                stored == gen_member_store(g, container.reg, target.name, value)
            IN  IF stored.copy THEN store_lvalue(container, container.reg, stored.g) ELSE stored.g
      [] target.kind = "INDEX"  -> gen_element_store(g, target.container[1].reg, target.index, value)
      [] target.kind = "VALUE"  -> g

\* The value is there before the container is looked at.
gen_store_to(target, value, g) ==
    LET base  == resolve_lvalue(target.object, g)
        reg   == base.lvalue.reg
        index == gen_expr(target.index, base.g)
        structs == find_struct(base.g, get_register_struct(base.g, reg))
        fields  == UNION {FieldOf(s, target.member_name) : s \in structs}
        coerced == IF structs = {} THEN [base.g EXCEPT !.reg = value]
                   ELSE IF fields = {} THEN error_at(base.g, "no such field")
                   ELSE coerce_to_declared_type(base.g, value,
                            type_hint_from_string((CHOOSE f \in fields : TRUE).type_hint))
        stored  == gen_member_store(coerced, reg, target.member_name, coerced.reg)
    IN  CASE target.expr = "variable" -> gen_store_to_variable(target.name, value, g)
          [] target.expr = "index"    ->
                IF index.error # "" THEN index ELSE gen_element_store(index, reg, index.reg, value)
          [] target.expr = "member"   ->
                IF coerced.error # "" THEN coerced
                ELSE IF stored.copy THEN store_lvalue(base.lvalue, reg, stored.g) ELSE stored.g
          [] OTHER -> error_at(g, "not a target")

-------------------------------------------------------------------------------
(* Statements. *)

\* A variable keeps the register of its initializer, and the type it was declared
\* with or else the type of its value.
gen_var_decl(s, g) ==
    LET structs == find_struct(g, s.type_hint)
        type    == type_hint_from_string(s.type_hint)
        value   == CASE s.value # NoExpr -> gen_expr(s.value, g)
                     [] s.value = NoExpr /\ structs # {} ->
                           gen_struct_construct(CHOOSE t \in structs : TRUE, <<>>, g)
                     [] s.value = NoExpr /\ structs = {} /\ HasDefault(s.type_hint) ->
                           gen_default_value(s.type_hint, g)
                     [] OTHER -> EmitHinted(g, "LOAD_NIL", <<>>, 0, "NIL", "NONE")
        actual  == get_register_struct(value, value.reg)
        known   == get_register_type(value, value.reg)
        instance == IF (actual # "" /\ actual # s.type_hint)
                       \/ (actual = "" /\ known \notin {"NONE", "DICTIONARY"})
                    THEN error_at(value, "wrong type")
                    ELSE set_register_struct(value, value.reg, s.type_hint)
        coerced == coerce_to_declared_type(value, value.reg, type)
    IN  IF value.error # "" THEN value
        ELSE IF structs # {} THEN declare_variable(instance, s.name, value.reg, s.is_const)
        ELSE IF type = "NONE" THEN declare_variable(value, s.name, value.reg, s.is_const)
        ELSE declare_variable(set_register_type(coerced, coerced.reg, type), s.name, coerced.reg, s.is_const)

gen_assign(s, g) ==
    LET value == gen_expr(s.value, g)
    IN  IF value.error # "" THEN value
        ELSE IF s.stmt = "assign to" THEN gen_store_to(s.target, value.reg, value)
        ELSE gen_store_to_variable(s.name, value.reg, value)

\* A RETURN gives back r0, whatever it holds.
gen_return(s, g) ==
    LET value   == gen_expr(s.value, g)
        coerced == coerce_to_declared_type(value, value.reg, type_hint_from_string(g.return_type))
    IN  IF s.value = NoExpr THEN Emit(g, RETURN)
        ELSE Emit(IF coerced.reg = 0 THEN coerced ELSE Emit(coerced, MOVE(0, coerced.reg)), RETURN)

RECURSIVE gen_stmts(_, _)

\* A bug to be caught: what a block declares outlives it.
gen_block_Mutant(body, g) == gen_stmts(body, g)

\* What a block declares is forgotten at its end.
gen_block(body, g) == pop_scope(gen_stmts(body, push_scope(g)))

gen_if(s, g) ==
    LET else == g.next_label
        end  == g.next_label + 1
        cond == gen_expr(s.cond, make_labels(g, 2))
        then == gen_block(s.then, emit_conditional_branch(cond, "BRANCH_ZERO", cond.reg,
                                        IF s.else = <<>> THEN end ELSE else))
    IN  Emit(IF s.else = <<>> THEN then
             ELSE gen_block(s.else, Emit(Emit(then, JUMP(end)), LABEL(else))),
             LABEL(end))

\* Inside a loop, its labels are the ones break and continue jump to.
enter_loop(g, break, continue) ==
    [g EXCEPT !.loops = Append(@, [break_label |-> break, continue_label |-> continue])]
leave_loop(g) == [g EXCEPT !.loops = Front(@)]

gen_while(s, g) ==
    LET loop == g.next_label
        end  == g.next_label + 1
        cond == gen_expr(s.cond, Emit(enter_loop(make_labels(g, 2), end, loop), LABEL(loop)))
        body == gen_block(s.body, emit_conditional_branch(cond, "BRANCH_ZERO", cond.reg, end))
    IN  leave_loop(Emit(Emit(body, JUMP(loop)), LABEL(end)))

gen_break(g) == IF g.loops = <<>> THEN error_at(g, "outside of loop")
                ELSE Emit(g, JUMP(Last(g.loops).break_label))

gen_continue(g) == IF g.loops = <<>> THEN error_at(g, "outside of loop")
                   ELSE Emit(g, JUMP(Last(g.loops).continue_label))
\* The variable of a counted loop is its counter.  A step that is known decides
\* the test; the sign of any other is tested every time around.
gen_numeric_for(s, bounds, g) ==
    LET start == bounds[1]
        end   == bounds[2]
        step  == bounds[3]
        loop     == g.next_label
        continue == loop + 1
        done     == loop + 2
        positive == loop + 3
        check    == loop + 4
        inside == push_scope(enter_loop(make_labels(g, 5), done, continue))
        both_int == get_register_type(g, start) = "INT" /\ get_register_type(g, step) = "INT"
        var    == EmitTo(inside, "MOVE", <<start>>, 0, IF both_int THEN "INT" ELSE "NONE")
        named  == declare_variable(var, s.variable, var.reg, FALSE)
        writes == {i \in DOMAIN g.code : g.code[i].dst = step}
        known  == writes # {} /\ g.code[Max(writes)].op = "LOAD_IMM"
        begin  == alloc_register(Emit(named, LABEL(loop)))
        cond   == begin.reg
        up(acc)   == Redefine(acc, "CMP_LT", cond, <<var.reg, end>>, "INT")
        down(acc) == Redefine(acc, "CMP_GT", cond, <<var.reg, end>>, "INT")
        zero   == EmitTo(begin, "LOAD_IMM", <<>>, 0, "NONE")
        sign   == EmitHinted(zero, "CMP_GTE", <<step, zero.reg>>, 0, "INT", "NONE")
        falling == Emit(down(emit_conditional_branch(sign, "BRANCH_NOT_ZERO", sign.reg, positive)), JUMP(check))
        test   == IF known THEN IF g.code[Max(writes)].imm >= 0 THEN up(begin) ELSE down(begin)
                  ELSE Emit(up(Emit(falling, LABEL(positive))), LABEL(check))
        body   == gen_block(s.body, emit_conditional_branch(test, "BRANCH_ZERO", cond, done))
        next   == EmitHinted(Emit(body, LABEL(continue)), "ADD", <<var.reg, step>>, 0, "INT", "NONE")
        again  == Emit(Emit(next, MOVE(var.reg, next.reg)), JUMP(loop))
    IN  leave_loop(pop_scope(Emit(again, LABEL(done))))

\* A bug to be caught: a dictionary of no known type is walked like an array.
gen_dictionary_keys_for_iteration_Mutant(g, r) == g

\* A dictionary is replaced by the array of its keys, once, before the loop.
gen_dictionary_keys_for_iteration(g, r) ==
    LET type == get_register_type(g, r)
        skip == g.next_label
        replace(acc) ==
            LET keys == gen_dictionary_op(acc, "DICT_KEYS", r, <<>>, "NONE")
            IN  set_register_type(Emit(keys, MOVE(r, keys.reg)), r, "ARRAY")
        is_dict == EmitTo(make_labels(g, 1), "TYPE_TEST", <<r>>, "DICTIONARY", "BOOL")
        tested  == replace(emit_conditional_branch(is_dict, "BRANCH_ZERO", is_dict.reg, skip))
    IN  CASE type = "DICTIONARY" -> replace(g)
          [] type = "NONE" -> set_register_type(Emit(tested, LABEL(skip)), r, "NONE")
          [] OTHER -> g

\* The elements of an array, the size of which is asked for every time around.
gen_array_for(s, array, g) ==
    LET loop     == g.next_label
        continue == loop + 1
        done     == loop + 2
        inside == gen_dictionary_keys_for_iteration(
                        push_scope(enter_loop(make_labels(g, 3), done, continue)), array)
        index  == gen_int_immediate(inside, 0)
        one    == gen_int_immediate(index, 1)
        size   == gen_array_size(Emit(one, LABEL(loop)), array)
        cond   == EmitHinted(size, "CMP_LT", <<index.reg, size.reg>>, 0, "INT", "BOOL")
        elem   == gen_array_element(emit_conditional_branch(cond, "BRANCH_ZERO", cond.reg, done),
                                    array, index.reg)
        body   == gen_block(s.body, declare_variable(elem, s.variable, elem.reg, FALSE))
        next   == EmitHinted(Emit(body, LABEL(continue)), "ADD", <<index.reg, one.reg>>, 0, "INT", "INT")
        again  == Emit(Emit(next, MOVE(index.reg, next.reg)), JUMP(loop))
    IN  leave_loop(pop_scope(Emit(again, LABEL(done))))

gen_for(s, g) ==
    LET e == s.iterable
        range == RangeBounds(e.arguments, g)
        value == gen_expr(e, g)
        zero  == gen_int_immediate(value, 0)
        one   == gen_int_immediate(zero, 1)
        type  == get_register_type(value, value.reg)
    IN  IF e.expr = "call" /\ e.function_name = "range"
        THEN IF range.g.error # "" THEN range.g ELSE gen_numeric_for(s, range.regs, range.g)
        ELSE IF e.expr \in {"float", "null"} \/ (e.expr = "literal" /\ e.type = "BOOL")
        THEN error_at(g, "not iterable")
        ELSE IF value.error # "" THEN value
        ELSE CASE type = "INT" -> gen_numeric_for(s, <<zero.reg, value.reg, one.reg>>, one)
               [] type \in {"FLOAT", "STRING"} -> error_at(value, "not iterable")
               [] OTHER -> gen_array_for(s, value.reg, value)

-------------------------------------------------------------------------------
(* Matches. *)

MIN_SWITCH_CASES == 4
MAX_SWITCH_SPREAD == 3
MAX_SWITCH_ENTRIES == 4096

is_catch_all(branch) ==
    branch.guard = NoExpr /\ Len(branch.patterns) = 1 /\ branch.patterns[1].kind = "wildcard"

\* The branches a jump table would lead to, in order: pairs of a value and the
\* branch.  A branch that cannot be entered by its value alone makes no case.
Folds(g, p) ==
    p.kind = "value" /\ \E c \in Range(fold_global_initializer(g, p.value)) : c.type = "INT"

Cases(g, s) ==
    LET of(i) == IF is_catch_all(s.branches[i]) THEN <<>>
                 ELSE [k \in DOMAIN s.branches[i].patterns |->
                        <<fold_global_initializer(g, s.branches[i].patterns[k].value)[1].val, i>>]
    IN  FlattenSeq([i \in DOMAIN s.branches |-> of(i)])

\* A bug to be caught: a branch with a guard is entered without it.
AllCasesConstant_Mutant(g, s) ==
    \A i \in DOMAIN s.branches : is_catch_all(s.branches[i])
        \/ \A k \in DOMAIN s.branches[i].patterns : Folds(g, s.branches[i].patterns[k])

AllCasesConstant(g, s) ==
    \A i \in DOMAIN s.branches :
        \/ is_catch_all(s.branches[i])
        \/ /\ s.branches[i].guard = NoExpr
           /\ \A k \in DOMAIN s.branches[i].patterns : Folds(g, s.branches[i].patterns[k])

\* Enough cases, close enough to one another; a switch may not repeat one.
TableFits(cases, is_switch) ==
    LET values == {c[1] : c \in Range(cases)}
        span   == Max(values) - Min(values) + 1
    IN  /\ cases # <<>>
        /\ is_switch \/ Len(cases) >= MIN_SWITCH_CASES
        /\ is_switch => Cardinality(values) = Len(cases)
        /\ span <= MAX_SWITCH_ENTRIES /\ span <= Cardinality(values) * MAX_SWITCH_SPREAD

\* The table has an entry for every value between the lowest and the highest, the
\* first branch of the value or the default.
gen_match_jump_table(s, subject, bodies, default, g) ==
    LET cases == Cases(g, s)
        low   == Min({c[1] : c \in Range(cases)})
        high  == Max({c[1] : c \in Range(cases)})
        entry(v) == LET at == {k \in DOMAIN cases : cases[k][1] = v}
                    IN  IF at = {} THEN default ELSE bodies[cases[Min(at)][2]]
        type  == get_register_type(g, subject)
    IN  Emit(g, [Instr("SWITCH", None, <<subject>>, low, [k \in 1 .. high - low + 1 |-> entry(low + k - 1)])
                    EXCEPT !.hint = IF type = "INT" THEN "INT" ELSE "NONE"])

\* Whether the value can be of the type: a test, unless the answer is known, when
\* nothing is generated for a value that cannot.
emit_type_guard(g, value, type, fail) ==
    LET test == EmitTo(g, "TYPE_TEST", <<value>>, type, "BOOL")
    IN  CASE get_register_type(g, value) = type   -> [g |-> g, may |-> TRUE]
          [] get_register_type(g, value) = "NONE" ->
                [g |-> emit_conditional_branch(test, "BRANCH_ZERO", test.reg, fail), may |-> TRUE]
          [] OTHER -> [g |-> Emit(g, JUMP(fail)), may |-> FALSE]

RECURSIVE gen_pattern_test(_, _, _, _)

\* An array has the right size before any element is looked at.
gen_array_pattern_test(p, subject, fail, g) ==
    LET guarded == emit_type_guard(g, subject, "ARRAY", fail)
        size    == gen_array_size(guarded.g, subject)
        wanted  == gen_int_immediate(size, Len(p.elements))
        fits    == gen_compare(wanted, IF p.open THEN "CMP_GTE" ELSE "CMP_EQ", size.reg, wanted.reg)
        test(acc, k) ==
            LET index == gen_int_immediate(acc, k - 1)
                elem  == gen_array_element(index, subject, index.reg)
            IN  gen_pattern_test(p.elements[k], elem.reg, fail, elem)
    IN  IF ~guarded.may THEN guarded.g
        ELSE FoldLeft(test, emit_conditional_branch(fits, "BRANCH_ZERO", fits.reg, fail),
                      [k \in DOMAIN p.elements |-> k])

gen_dictionary_pattern_test(p, subject, fail, g) ==
    LET guarded == emit_type_guard(g, subject, "DICTIONARY", fail)
        size    == gen_dictionary_op(guarded.g, "DICT_SIZE", subject, <<>>, "INT")
        wanted  == gen_int_immediate(size, Len(p.entries))
        fits    == gen_compare(wanted, "CMP_EQ", size.reg, wanted.reg)
        sized   == IF p.open THEN guarded.g ELSE emit_conditional_branch(fits, "BRANCH_ZERO", fits.reg, fail)
        test(acc, entry) ==
            LET key  == gen_expr(entry[1], acc)
                has  == gen_dictionary_op(key, "DICT_HAS", subject, <<key.reg>>, "BOOL")
                held == emit_conditional_branch(has, "BRANCH_ZERO", has.reg, fail)
                value == gen_dictionary_op(held, "DICT_GET", subject, <<key.reg>>, "NONE")
            IN  IF entry[2] = <<>> THEN held ELSE gen_pattern_test(entry[2][1], value.reg, fail, value)
    IN  IF ~guarded.may THEN guarded.g ELSE FoldLeft(test, sized, p.entries)

\* A binding is a copy of the value.
gen_pattern_test(p, subject, fail, g) ==
    CASE p.kind = "wildcard" -> g
      [] p.kind = "bind" ->
            LET copy == EmitTo(g, "MOVE", <<subject>>, 0, get_register_type(g, subject))
            IN  declare_variable(copy, p.name, copy.reg, FALSE)
      [] p.kind = "value" ->
            LET value == gen_expr(p.value, g)
                r     == value.reg
                hint  == CommonType(value, subject, r, {"INT", "FLOAT"} \union Range(InlineTypes))
                equal == set_register_type(Redefine(value, "CMP_EQ", r, <<subject, r>>, hint), r, "BOOL")
            IN  IF value.error # "" THEN value
                ELSE emit_conditional_branch(equal, "BRANCH_ZERO", r, fail)
      [] p.kind = "array"      -> gen_array_pattern_test(p, subject, fail, g)
      [] p.kind = "dictionary" -> gen_dictionary_pattern_test(p, subject, fail, g)

\* Any pattern of the branch, and then its guard.
gen_branch_test(branch, subject, fail, g) ==
    LET matched == g.next_label
        several == Len(branch.patterns) > 1
        attempt(acc, p) ==
            LET next == acc.next_label
            IN  Emit(Emit(gen_pattern_test(p, subject, next, make_labels(acc, 1)), JUMP(matched)), LABEL(next))
        others == FoldLeft(attempt, IF several THEN make_labels(g, 1) ELSE g, Front(branch.patterns))
        last   == gen_pattern_test(Last(branch.patterns), subject, fail, others)
        tested == IF several THEN Emit(last, LABEL(matched)) ELSE last
        guard  == gen_expr(branch.guard, tested)
    IN  IF branch.guard = NoExpr THEN tested
        ELSE emit_conditional_branch(guard, "BRANCH_ZERO", guard.reg, fail)

\* A jump table if the branches allow one, then the tests one after the other,
\* unless the subject is known to be an integer, which the table decides alone.
gen_match(s, g) ==
    LET end     == g.next_label
        n       == Len(s.branches)
        test(i) == end + i
        bodies  == [i \in 1 .. n |-> end + n + i]
        subject == gen_expr(s.subject, make_labels(g, 2 * n + 1))
        is_int  == get_register_type(subject, subject.reg) = "INT"
        catch_alls == {i \in 1 .. n : is_catch_all(s.branches[i])}
        default == IF catch_alls = {} THEN end ELSE bodies[Min(catch_alls)]
        has_table == AllCasesConstant(subject, s) /\ TableFits(Cases(subject, s), s.is_switch)
        table   == IF ~has_table THEN subject
                   ELSE gen_match_jump_table(s, subject.reg, bodies, default, subject)
        complete == has_table /\ is_int
        branch(acc, i) ==
            LET begin  == push_scope(Emit(acc, LABEL(test(i))))
                tested == IF complete THEN begin
                          ELSE gen_branch_test(s.branches[i], subject.reg,
                                               IF i = n THEN end ELSE test(i + 1), begin)
                body   == gen_stmts(s.branches[i].body, Emit(tested, LABEL(bodies[i])))
            IN  Emit(pop_scope(body), JUMP(end))
        tests == FoldLeft(branch, IF complete THEN Emit(table, JUMP(default)) ELSE table,
                          [i \in 1 .. n |-> i])
    IN  IF subject.error # "" THEN subject
        ELSE IF s.is_switch /\ ~(is_int /\ has_table) THEN error_at(subject, "not a table")
        ELSE Emit(tests, LABEL(end))

-------------------------------------------------------------------------------
(* Functions and programs. *)

gen_stmt(s, g) ==
    IF g.error # "" THEN g
    ELSE CASE s.stmt = "var"      -> gen_var_decl(s, g)
           [] s.stmt \in {"assign", "assign to"} -> gen_assign(s, g)
           [] s.stmt = "return"   -> gen_return(s, g)
           [] s.stmt = "if"       -> gen_if(s, g)
           [] s.stmt = "while"    -> gen_while(s, g)
           [] s.stmt = "for"      -> gen_for(s, g)
           [] s.stmt = "match"    -> gen_match(s, g)
           [] s.stmt = "break"    -> gen_break(g)
           [] s.stmt = "continue" -> gen_continue(g)
           [] s.stmt = "pass"     -> g
           [] s.stmt = "expr"     -> gen_expr(s.value, g)

gen_stmts(body, g) == FoldLeft(LAMBDA acc, s : gen_stmt(s, acc), g, body)

\* A function ends with a RETURN, its own or an added one.  More parameters than
\* can be passed are refused.
generate_function(decl, env) ==
    LET parameter(acc, p) ==
            LET r == alloc_register(acc)
            IN  apply_declared_type(declare_variable(r, p.name, r.reg, FALSE), r.reg, p.type_hint)
        start == Generator(env, decl.return_type)
        checked == IF Len(decl.parameters) > MAX_PARAMETERS THEN error_at(start, "too many parameters")
                   ELSE start
        g == gen_stmts(decl.body, FoldLeft(parameter, checked, decl.parameters))
    IN  [ name   |-> decl.name,
          params |-> Len(decl.parameters),
          max_registers |-> g.next_register,
          error  |-> g.error,
          code   |-> IF g.code # <<>> /\ Last(g.code).op = "RETURN" THEN g.code ELSE Append(g.code, RETURN) ]

\* A value of the folded initializer's type, or of the declared one: only an int
\* becomes a float, and null has every type.
coerce_folded_initializer(type, c) ==
    IF type \in {"NONE", c.type} \/ c.type = "NIL" THEN {c}
    ELSE IF type = "FLOAT" /\ c.type = "INT" THEN {[type |-> "FLOAT", val |-> c.val * FLOAT_UNIT]}
    ELSE {}

\* What a global of a type holds before anything is assigned to it.
DefaultOf(type) ==
    CASE type \in {"INT", "FLOAT", "BOOL"} -> [type |-> type, val |-> 0]
      [] type = "STRING" -> [type |-> type, val |-> ""]
      [] type \in {"ARRAY", "DICTIONARY"} -> [type |-> type, val |-> <<>>]
      [] OTHER -> [type |-> "NIL", val |-> 0]

\* A global is a constant in the program's data, or what the function that
\* initializes the globals computes and stores, which is not converted.
lower_global(decl, i, g) ==
    LET env    == g.env
        type   == env.globals[i].type
        struct == find_struct(g, env.globals[i].struct)
        folded == fold_global_initializer(g, decl.value)
        values == coerce_folded_initializer(type, folded[1])
        constant(c) ==
            [g EXCEPT !.env.globals[i] = [@ EXCEPT !.init = <<c>>,
                !.value_type = IF type # "NONE" THEN type ELSE IF c.type = "NIL" THEN "NONE" ELSE c.type]]
        runtime(v) ==
            LET known == get_register_type(v, v.reg)
            IN  [Emit(v, Instr("STORE_GLOBAL", None, <<v.reg>>, i, None)) EXCEPT
                    !.env.globals[i] = [@ EXCEPT !.value_type = IF type # "NONE" THEN type ELSE known,
                        !.struct = IF struct = {} THEN get_register_struct(v, v.reg) ELSE @]]
        lowered ==
            CASE decl.value = NoExpr /\ decl.type_hint = "" -> error_at(g, "neither type nor initializer")
              [] decl.value = NoExpr /\ struct # {} ->
                    runtime(gen_struct_construct(CHOOSE s \in struct : TRUE, <<>>, g))
              [] decl.value = NoExpr /\ decl.type_hint # "" /\ struct = {} -> constant(DefaultOf(type))
              [] decl.value # NoExpr /\ folded # <<>> ->
                    IF values = {} THEN error_at(g, "wrong type")
                    ELSE LET c == CHOOSE v \in values : TRUE
                         IN  IF decl.is_const
                             THEN [constant(c) EXCEPT !.env.globals[i].folded = <<c>>] ELSE constant(c)
              [] OTHER -> LET v == gen_expr(decl.value, g) IN IF v.error # "" THEN v ELSE runtime(v)
    IN  [lowered EXCEPT !.env.lowered = i]

HasDuplicates(decls) == \E i, j \in DOMAIN decls : i # j /\ decls[i].name = decls[j].name

\* Names that may not stand for two things.
NamesClash(program) ==
    LET names(decls) == {d.name : d \in Range(decls)}
        named   == SelectSeq(program.enums, LAMBDA d : d.name # "")
        unnamed == UNION {Range(d.members) : d \in {x \in Range(program.enums) : x.name = ""}}
    IN  \/ HasDuplicates(program.structs) \/ HasDuplicates(named) \/ HasDuplicates(program.globals)
        \/ names(program.structs) \intersect
                (names(program.functions) \union names(named) \union names(program.globals)) # {}
        \/ \E m, n \in unnamed : m.name = n.name /\ m.value # n.value

\* The program: its globals, the function that initializes those that have to be
\* computed, its functions and the first error.
generate(program) ==
    LET start   == Generator(Environment(program), "")
        g       == FoldLeft(LAMBDA acc, i : IF acc.error # "" THEN acc
                                            ELSE lower_global(program.globals[i], i, acc),
                            start, [i \in DOMAIN program.globals |-> i])
        env     == [g.env EXCEPT !.lowered = Len(program.globals)]
        functions == [i \in DOMAIN program.functions |-> generate_function(program.functions[i], env)]
        errors  == {i \in DOMAIN functions : functions[i].error # ""}
    IN  [ globals     |-> g.env.globals,
          global_init |-> IF g.code = <<>> THEN <<>> ELSE Append(g.code, RETURN),
          global_registers |-> g.next_register,
          functions   |-> functions,
          error       |-> CASE NamesClash(program) -> "clash of names"
                            [] ~NamesClash(program) /\ g.error # "" -> g.error
                            [] ~NamesClash(program) /\ g.error = "" /\ errors # {} ->
                                  functions[Min(errors)].error
                            [] OTHER -> "" ]
===============================================================================
