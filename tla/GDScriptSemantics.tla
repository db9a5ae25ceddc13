---------------------------- MODULE GDScriptSemantics ----------------------------
(***************************************************************************)
(* What a program means, said without registers, types known in advance,   *)
(* addresses or instructions: the abstract specification that compiled     *)
(* programs are compared with.  Expressions and statements are run over a  *)
(* store: the scopes of the function, the globals, the heap, what was      *)
(* printed, how control goes on ("next", "break", "continue", "return",    *)
(* "thrown"; "undefined" for what the language gives no meaning to, or     *)
(* when it takes too long) and the last value.                             *)
(***************************************************************************)
EXTENDS GDScriptAST, HostVariants

CONSTANT LOOP_LIMIT   \* how often a loop goes round before a run counts as endless

DeclaredTypes == [ int |-> "INT", float |-> "FLOAT", bool |-> "BOOL", String |-> "STRING", Array |-> "ARRAY",
                   Dictionary |-> "DICTIONARY", Vector2 |-> "VECTOR2", Vector2i |-> "VECTOR2I" ]
VariantTypes == [ NIL |-> 0, BOOL |-> 1, INT |-> 2, FLOAT |-> 3, STRING |-> 4, VECTOR2 |-> 5,
                  VECTOR2I |-> 6, DICTIONARY |-> 27, ARRAY |-> 28 ]
DeclaredType(hint) == IF hint \in DOMAIN DeclaredTypes THEN DeclaredTypes[hint] ELSE "NONE"

\* The value a variable, field or result of a declared type gets.
As(type, v) ==
    CASE type = "FLOAT" /\ TypeOf(v) \in {"INT", "BOOL"} -> <<"FLOAT", v[2] * FLOAT_UNIT>>
      [] type = "INT" /\ TypeOf(v) = "BOOL" -> <<"INT", v[2]>>
      [] OTHER -> v

Goes(s) == s.status = "next"
Val(s, v) == [s EXCEPT !.val = v]
Ends(s, status) == [s EXCEPT !.status = status]

Named(decls, x) == {d \in Range(decls) : d.name = x}
Only(set) == CHOOSE d \in set : TRUE

(* Names. *)

Declaring(s, x) == {k \in DOMAIN s.scopes : x \in DOMAIN s.scopes[k]}
Declare(s, x, type, v) == [s EXCEPT !.scopes[Len(s.scopes)] = (x :> <<type, As(type, v)>>) @@ @]
Assign(s, x, v) ==
    IF Declaring(s, x) # {}
    THEN LET k == CHOOSE j \in Declaring(s, x) : \A i \in Declaring(s, x) : i <= j
         IN  [s EXCEPT !.scopes[k][x] = <<@[1], As(@[1], v)>>]
    ELSE [s EXCEPT !.globals[x] = <<@[1], As(@[1], v)>>]
Read(s, x) ==
    IF Declaring(s, x) # {}
    THEN s.scopes[CHOOSE j \in Declaring(s, x) : \A i \in Declaring(s, x) : i <= j][x][2]
    ELSE s.globals[x][2]

(* Expressions. *)

RECURSIVE Eval(_, _, _)
RECURSIVE Exec(_, _, _)

\* Expressions one after the other: the store and the values.
EvalAll(p, exprs, s) ==
    FoldLeft(LAMBDA acc, e :
                LET t == Eval(p, e, acc.s)
                IN  IF ~Goes(acc.s) THEN acc ELSE [s |-> t, vals |-> Append(acc.vals, t.val)],
             [s |-> s, vals |-> <<>>], exprs)

Operate(s, op, l, r) ==
    LET made == evaluate(op, l, r, s.heap)
    IN  IF made = <<>> THEN Ends(s, "undefined") ELSE Val(s, made[1])

New(s, type, content) ==
    LET made == Allocate(type, content, s.heap) IN [s EXCEPT !.heap = made.heap, !.val = made.val]

Pairs(vals) == FoldLeft(LAMBDA acc, k : WithKey(acc, vals[2 * k - 1], vals[2 * k]), <<>>,
                        [k \in 1 .. Len(vals) \div 2 |-> k])

\* A new value of a type, or of a struct; what has neither is null.
RECURSIVE Construct(_, _, _, _)
Default(p, hint, s) ==
    LET structs == Named(p.structs, hint)
    IN  IF structs # {} THEN Construct(p, Only(structs), <<>>, s)
        ELSE CASE hint = "int"    -> Val(s, <<"INT", 0>>)
               [] hint = "float"  -> Val(s, <<"FLOAT", 0>>)
               [] hint = "bool"   -> Val(s, Bool(FALSE))
               [] hint = "String" -> Val(s, <<"STRING", "">>)
               [] hint \in {"Array", "Dictionary"} -> New(s, DeclaredType(hint), <<>>)
               [] hint \in {"Vector2", "Vector2i"} -> Val(s, <<DeclaredType(hint), <<0, 0>>>>)
               [] OTHER -> Val(s, Nil)

\* A struct is a dictionary of its fields.
Construct(p, struct, args, s) ==
    LET given == EvalAll(p, [i \in DOMAIN args |-> args[i][2]], s)
        for(k) == {i \in DOMAIN args : args[i][1] = struct.fields[k].name \/ (args[i][1] = "" /\ i = k)}
        field(acc, k) ==
            LET f == struct.fields[k]
                t == IF for(k) # {} THEN Val(acc.s, given.vals[Only(for(k))])
                     ELSE IF f.default_value # NoExpr THEN Eval(p, f.default_value, acc.s)
                     ELSE Default(p, f.type_hint, acc.s)
            IN  [s |-> t, vals |-> acc.vals \o << <<"STRING", f.name>>, As(DeclaredType(f.type_hint), t.val) >>]
        fields == FoldLeft(field, [s |-> given.s, vals |-> <<>>], [k \in DOMAIN struct.fields |-> k])
    IN  IF ~Goes(given.s) THEN given.s ELSE New(fields.s, "DICTIONARY", Pairs(fields.vals))

ComponentOf(member) == IF member = "x" THEN 1 ELSE 2

MemberOf(s, v, member) ==
    CASE TypeOf(v) = "VECTOR2"    -> Val(s, <<"FLOAT", v[2][ComponentOf(member)]>>)
      [] TypeOf(v) = "VECTOR2I"   -> Val(s, <<"INT", v[2][ComponentOf(member)]>>)
      [] TypeOf(v) = "DICTIONARY" -> Val(s, ValueOf(<<"STRING", member>>, s.heap[v[2]]))
      [] OTHER -> Ends(s, "thrown")

Element(s, v, i) ==
    CASE TypeOf(v) = "ARRAY" /\ TypeOf(i) = "INT" ->
            LET at == ElementAt(i[2], s.heap[v[2]])
            IN  IF at = {} THEN Ends(s, "thrown") ELSE Val(s, s.heap[v[2]][Only(at)])
      [] TypeOf(v) = "DICTIONARY" -> Val(s, ValueOf(i, s.heap[v[2]]))
      [] OTHER -> Ends(s, "undefined")

\* A vector of two values.
Vector(s, type, vals) ==
    IF \E k \in 1 .. 2 : TypeOf(vals[k]) \notin (IF type = "VECTOR2I" THEN {"INT"} ELSE {"INT", "FLOAT"})
    THEN Ends(s, "undefined")
    ELSE LET component(v) == IF type = "VECTOR2I" THEN WrapHalf(v[2]) ELSE Single(AsFloat(v))
         IN  Val(s, <<type, <<component(vals[1]), component(vals[2])>>>>)

\* A function of the program, in scopes of its own.
CallFunction(p, f, vals, s) ==
    LET missing == SubSeq(f.parameters, Len(vals) + 1, Len(f.parameters))
        others == EvalAll(p, [i \in DOMAIN missing |-> missing[i].default_value], s)
        all == vals \o others.vals
        scope == [x \in {q.name : q \in Range(f.parameters)} |->
                    LET i == CHOOSE j \in DOMAIN f.parameters : f.parameters[j].name = x
                        type == DeclaredType(f.parameters[i].type_hint)
                    IN  <<type, As(type, all[i])>>]
        end == Exec(p, f.body, [others.s EXCEPT !.scopes = <<scope>>, !.val = Nil])
        result == IF end.status = "return" THEN As(DeclaredType(f.return_type), end.val) ELSE Nil
    IN  [end EXCEPT !.scopes = s.scopes, !.val = result,
                    !.status = IF @ \in {"next", "return"} THEN "next" ELSE @]

RangeOf(vals) ==
    LET n(k) == vals[k][2]
    IN  CASE Len(vals) = 1 -> <<0, n(1), 1>> [] Len(vals) = 2 -> <<n(1), n(2), 1>>
          [] Len(vals) = 3 -> <<n(1), n(2), n(3)>>
Elements(r) ==
    LET count == IF r[3] > 0 THEN (r[2] - r[1] + r[3] - 1) \div r[3]
                 ELSE IF r[3] < 0 THEN (r[1] - r[2] - r[3] - 1) \div (-r[3]) ELSE 0
    IN  [k \in 1 .. (IF count < 0 THEN 0 ELSE count) |-> <<"INT", r[1] + (k - 1) * r[3]>>]

Call(p, e, s) ==
    LET f == e.function_name
        args == EvalAll(p, [i \in DOMAIN e.arguments |-> e.arguments[i][2]], s)
        t == args.s
        vals == args.vals
    IN  IF Named(p.structs, f) # {} THEN Construct(p, Only(Named(p.structs, f)), e.arguments, s)
        ELSE IF ~Goes(t) THEN t
        ELSE CASE Named(p.functions, f) # {} -> CallFunction(p, Only(Named(p.functions, f)), vals, t)
               [] f = "print"  -> [t EXCEPT !.printed = Append(@, [k \in DOMAIN vals |-> Contents(vals[k], t.heap)]),
                                            !.val = Nil]
               [] f = "assert" -> IF booleanize(vals[1], t.heap) THEN Val(t, Nil) ELSE Ends(t, "thrown")
               [] f = "range"  -> New(t, "ARRAY", Elements(RangeOf(vals)))
               [] f = "typeof" -> Val(t, <<"INT", VariantTypes[TypeOf(vals[1])]>>)
               [] f \in {"Array", "Dictionary"} -> Default(p, f, t)
               [] f \in {"Vector2", "Vector2i"} ->
                     IF vals = <<>> THEN Default(p, f, t) ELSE Vector(t, DeclaredTypes[f], vals)

Method(p, e, s) ==
    LET object == Eval(p, e.object, s)
        args == EvalAll(p, [i \in DOMAIN e.arguments |-> e.arguments[i][2]], object)
        result == callp(object.val, e.member_name, args.vals, args.s.heap)
    IN  IF ~Goes(args.s) THEN args.s
        ELSE IF TypeOf(object.val) \notin {"ARRAY", "DICTIONARY"} \/ result = <<>> THEN Ends(args.s, "undefined")
        ELSE [args.s EXCEPT !.heap = result[1].heap, !.val = result[1].val]

Eval(p, e, s) ==
    IF ~Goes(s) THEN s
    ELSE CASE e.expr = "literal" -> Val(s, <<e.type, e.val>>)
           [] e.expr = "float"   -> Val(s, <<"FLOAT", e.digits>>)
           [] e.expr = "string"  -> Val(s, <<"STRING", e.text>>)
           [] e.expr = "null"    -> Val(s, Nil)
           [] e.expr = "variable" -> Val(s, Read(s, e.name))
           [] e.expr = "binary"  ->
                LET args == EvalAll(p, <<e.left, e.right>>, s)
                IN  IF ~Goes(args.s) THEN args.s ELSE Operate(args.s, e.op, args.vals[1], args.vals[2])
           [] e.expr = "logical" ->
                LET l == Eval(p, e.left, s)
                    r == Eval(p, e.right, l)
                IN  IF ~Goes(l) THEN l
                    ELSE IF booleanize(l.val, l.heap) = (e.op = "or") THEN Val(l, Bool(e.op = "or"))
                    ELSE IF ~Goes(r) THEN r ELSE Val(r, Bool(booleanize(r.val, r.heap)))
           [] e.expr = "unary"   ->
                LET t == Eval(p, e.operand, s)
                IN  IF ~Goes(t) THEN t
                    ELSE (CASE e.op = "NEG" -> Operate(t, "SUB", <<"INT", 0>>, t.val)
                            [] e.op = "NOT" -> Val(t, Bool(~booleanize(t.val, t.heap)))
                            [] e.op = "BIT_NOT" -> Operate(t, "BIT_XOR", t.val, <<"INT", -1>>))
           [] e.expr = "ternary" ->
                LET c == Eval(p, e.cond, s)
                IN  IF ~Goes(c) THEN c ELSE Eval(p, IF booleanize(c.val, c.heap) THEN e.yes ELSE e.no, c)
           [] e.expr = "is"      ->
                LET t == Eval(p, e.value, s) IN Val(t, Bool(TypeOf(t.val) = DeclaredType(e.type_name)))
           [] e.expr = "array"   ->
                LET all == EvalAll(p, e.elements, s) IN IF Goes(all.s) THEN New(all.s, "ARRAY", all.vals) ELSE all.s
           [] e.expr = "dictionary" ->
                LET all == EvalAll(p, FlattenSeq(e.pairs), s)
                IN  IF Goes(all.s) THEN New(all.s, "DICTIONARY", Pairs(all.vals)) ELSE all.s
           [] e.expr = "index"   ->
                LET args == EvalAll(p, <<e.object, e.index>>, s)
                IN  IF ~Goes(args.s) THEN args.s ELSE Element(args.s, args.vals[1], args.vals[2])
           [] e.expr = "member"  ->
                LET enums == IF e.object.expr = "variable" /\ Declaring(s, e.object.name) = {}
                             THEN Named(p.enums, e.object.name) ELSE {}
                    t == Eval(p, e.object, s)
                IN  IF enums # {} THEN Val(s, <<"INT", Only(Named(Only(enums).members, e.member_name)).value>>)
                    ELSE IF ~Goes(t) THEN t ELSE MemberOf(t, t.val, e.member_name)
           [] e.expr = "call"    -> Call(p, e, s)
           [] e.expr = "method"  ->
                IF e.member_name = "new" /\ e.object.expr = "variable" /\ Named(p.structs, e.object.name) # {}
                THEN Construct(p, Only(Named(p.structs, e.object.name)), e.arguments, s) ELSE Method(p, e, s)

(* Stores: what holds a vector gets another one. *)

RECURSIVE StoreTo(_, _, _, _)
StoreTo(p, target, v, s) ==
    LET object == Eval(p, target.object, s)
        index  == Eval(p, target.index, object)
        at     == ElementAt(index.val[2], object.heap[object.val[2]])
        part   == IF TypeOf(object.val) = "VECTOR2I" THEN <<"INT", v[2]>> ELSE <<"FLOAT", Single(AsFloat(v))>>
    IN  CASE target.expr = "variable" -> Assign(s, target.name, v)
          [] target.expr = "index"    ->
                IF ~Goes(index) THEN index
                ELSE (CASE TypeOf(object.val) = "DICTIONARY" ->
                             [index EXCEPT !.heap[object.val[2]] = WithKey(@, index.val, v)]
                        [] TypeOf(object.val) = "ARRAY" ->
                             IF at = {} THEN Ends(index, "thrown")
                             ELSE [index EXCEPT !.heap[object.val[2]][Only(at)] = v]
                        [] OTHER -> Ends(index, "undefined"))
          [] target.expr = "member"   ->
                IF ~Goes(object) THEN object
                ELSE CASE TypeOf(object.val) = "DICTIONARY" ->
                             [object EXCEPT !.heap[object.val[2]] = WithKey(@, <<"STRING", target.member_name>>, v)]
                       [] TypeOf(object.val) \in {"VECTOR2", "VECTOR2I"} ->
                             StoreTo(p, target.object,
                                     [object.val EXCEPT ![2][ComponentOf(target.member_name)] = part[2]], object)
                       [] OTHER -> Ends(object, "thrown")

(* Statements. *)

\* What a block declares is gone after it.
Block(p, body, s) ==
    LET end == Exec(p, body, [s EXCEPT !.scopes = Append(@, <<>>)]) IN [end EXCEPT !.scopes = Front(@)]

\* After a body of a loop: whether to go on, and with what.
Rounds(s) == [s EXCEPT !.status = IF @ = "continue" THEN "next" ELSE @]
Leaves(s) == [s EXCEPT !.status = IF @ = "break" THEN "next" ELSE @]

RECURSIVE While(_, _, _, _)
While(p, loop, s, n) ==
    LET c == Eval(p, loop.cond, s)
        round == Rounds(Block(p, loop.body, c))
    IN  IF n = 0 THEN Ends(s, "undefined")
        ELSE IF ~Goes(c) \/ ~booleanize(c.val, c.heap) THEN c
        ELSE IF ~Goes(round) THEN Leaves(round) ELSE While(p, loop, round, n - 1)

\* The elements of an array as it is when they are reached.
RECURSIVE Walk(_, _, _, _, _)
Walk(p, loop, array, k, s) ==
    LET inside == [s EXCEPT !.scopes = Append(@, loop.variable :> <<"NONE", s.heap[array[2]][k]>>)]
        body  == Block(p, loop.body, inside)
        round == Rounds([body EXCEPT !.scopes = Front(@)])
    IN  IF k > LOOP_LIMIT THEN Ends(s, "undefined")
        ELSE IF k > Len(s.heap[array[2]]) THEN s
        ELSE IF ~Goes(round) THEN Leaves(round) ELSE Walk(p, loop, array, k + 1, round)

For(p, loop, s) ==
    LET over == Eval(p, loop.iterable, s)
        keys == New(over, "ARRAY", Keys(over.heap[over.val[2]]))
        upto == New(over, "ARRAY", Elements(<<0, over.val[2], 1>>))
    IN  IF ~Goes(over) THEN over
        ELSE CASE TypeOf(over.val) = "ARRAY"      -> Walk(p, loop, over.val, 1, over)
               [] TypeOf(over.val) = "DICTIONARY" -> Walk(p, loop, keys.val, 1, keys)
               [] TypeOf(over.val) = "INT"        -> Walk(p, loop, upto.val, 1, upto)
               [] OTHER -> Ends(over, "undefined")

\* Whether a value matches a pattern, and the store with what it binds.
RECURSIVE Matches(_, _, _, _)
Matches(p, pattern, v, s) ==
    LET value == Eval(p, pattern.value, s)
        same  == evaluate("CMP_EQ", v, value.val, s.heap)
        elements == s.heap[v[2]]
        all(Test(_, _), parts) ==
            FoldLeft(LAMBDA acc, k : IF acc.ok THEN Test(acc.s, k) ELSE acc, [ok |-> TRUE, s |-> s], [k \in DOMAIN parts |-> k])
    IN  CASE pattern.kind = "wildcard" -> [ok |-> TRUE, s |-> s]
          [] pattern.kind = "bind"     -> [ok |-> TRUE, s |-> Declare(s, pattern.name, "NONE", v)]
          [] pattern.kind = "value"    -> [ok |-> same = << Bool(TRUE) >>, s |-> value]
          [] pattern.kind = "array"    ->
                IF TypeOf(v) # "ARRAY" THEN [ok |-> FALSE, s |-> s]
                ELSE IF Len(elements) < Len(pattern.elements)
                        \/ (~pattern.open /\ Len(elements) # Len(pattern.elements)) THEN [ok |-> FALSE, s |-> s]
                ELSE all(LAMBDA t, k : Matches(p, pattern.elements[k], elements[k], t), pattern.elements)
          [] pattern.kind = "dictionary" ->
                IF TypeOf(v) # "DICTIONARY" THEN [ok |-> FALSE, s |-> s]
                ELSE IF ~pattern.open /\ Len(elements) # Len(pattern.entries) THEN [ok |-> FALSE, s |-> s]
                ELSE all(LAMBDA t, k :
                            LET key == Eval(p, pattern.entries[k][1], t)
                            IN  IF KeyAt(key.val, elements) = {} THEN [ok |-> FALSE, s |-> key]
                                ELSE IF pattern.entries[k][2] = <<>> THEN [ok |-> TRUE, s |-> key]
                                ELSE Matches(p, pattern.entries[k][2][1], ValueOf(key.val, elements), key),
                         pattern.entries)

\* The first branch of which a pattern matches and the guard holds.
RECURSIVE FirstBranch(_, _, _, _)
FirstBranch(p, branches, v, s) ==
    LET branch == Head(branches)
        inside == [s EXCEPT !.scopes = Append(@, <<>>)]
        tried  == FoldLeft(LAMBDA acc, pattern : IF acc.ok THEN acc ELSE Matches(p, pattern, v, acc.s),
                           [ok |-> FALSE, s |-> inside], branch.patterns)
        guard  == Eval(p, branch.guard, tried.s)
        taken  == tried.ok /\ (branch.guard = NoExpr \/ booleanize(guard.val, guard.heap))
        begin  == IF tried.ok /\ branch.guard # NoExpr THEN guard ELSE tried.s
        end    == Exec(p, branch.body, begin)
    IN  IF branches = <<>> THEN s
        ELSE IF ~Goes(begin) THEN begin
        ELSE IF taken THEN [end EXCEPT !.scopes = Front(@)]
        ELSE FirstBranch(p, Tail(branches), v, [begin EXCEPT !.scopes = Front(@)])

Statement(p, t, s) ==
    CASE t.stmt = "var" ->
            LET v == IF t.value # NoExpr THEN Eval(p, t.value, s) ELSE Default(p, t.type_hint, s)
            IN  IF Goes(v) THEN Declare(v, t.name, DeclaredType(t.type_hint), v.val) ELSE v
      [] t.stmt = "assign" -> LET v == Eval(p, t.value, s) IN IF Goes(v) THEN Assign(v, t.name, v.val) ELSE v
      [] t.stmt = "assign to" ->
            LET v == Eval(p, t.value, s) IN IF Goes(v) THEN StoreTo(p, t.target, v.val, v) ELSE v
      [] t.stmt = "expr"   -> Eval(p, t.value, s)
      [] t.stmt = "return" ->
            LET v == IF t.value = NoExpr THEN Val(s, Nil) ELSE Eval(p, t.value, s)
            IN  IF Goes(v) THEN Ends(v, "return") ELSE v
      [] t.stmt = "if"     ->
            LET c == Eval(p, t.cond, s)
            IN  IF ~Goes(c) THEN c ELSE Block(p, IF booleanize(c.val, c.heap) THEN t.then ELSE t.else, c)
      [] t.stmt = "while"  -> While(p, t, s, LOOP_LIMIT)
      [] t.stmt = "for"    -> For(p, t, s)
      [] t.stmt = "match"  ->
            LET v == Eval(p, t.subject, s) IN IF Goes(v) THEN FirstBranch(p, t.branches, v.val, v) ELSE v
      [] t.stmt \in {"break", "continue"} -> Ends(s, t.stmt)
      [] t.stmt = "pass"   -> s

Exec(p, body, s) == FoldLeft(LAMBDA acc, t : IF Goes(acc) THEN Statement(p, t, acc) ELSE acc, s, body)

(* Programs. *)

\* The globals have their values, one after the other, and unnamed enumerations theirs.
Started(p) ==
    LET unnamed == FlattenSeq([i \in DOMAIN p.enums |-> IF p.enums[i].name = "" THEN p.enums[i].members ELSE <<>>])
        members == [x \in {m.name : m \in Range(unnamed)} |-> <<"INT", <<"INT", Only(Named(unnamed, x)).value>>>>]
        start == [ scopes |-> <<>>, globals |-> members, heap |-> <<>>, printed |-> <<>>, status |-> "next", val |-> Nil ]
        global(s, d) ==
            LET v == IF d.value # NoExpr THEN Eval(p, d.value, s) ELSE Default(p, d.type_hint, s)
                type == DeclaredType(d.type_hint)
            IN  IF Goes(v) THEN [v EXCEPT !.globals = (d.name :> <<type, As(type, v.val)>>) @@ @] ELSE v
    IN  FoldLeft(global, start, p.globals)

\* A call by the host: the store it leaves, with the result as the last value.
Called(p, f, args, s) == CallFunction(p, Only(Named(p.functions, f)), args, s)
===============================================================================
