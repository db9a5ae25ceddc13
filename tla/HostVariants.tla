------------------------------ MODULE HostVariants ------------------------------
(***************************************************************************)
(* The Variants of the engine, as far as compiled programs use them: a     *)
(* value is a pair of its type and its content.  An Array or a Dictionary  *)
(* is a reference: its content is a position in a heap, where the elements *)
(* or, in the order they came in, the pairs of a key and a value are.      *)
(*                                                                         *)
(* The engine is not part of the repository.  Of its operators and methods *)
(* those are here that programs of the bounds use; of an operator it does  *)
(* not have for the types of the operands it says so, and leaves null.     *)
(***************************************************************************)
EXTENDS GDScriptIR, TLC

Nil == <<"NIL", 0>>
Bool(b) == <<"BOOL", IF b THEN 1 ELSE 0>>
TypeOf(v) == v[1]

HalfWidth == Width \div 2
WrapHalf(i) == ((i + 2 ^ (HalfWidth - 1)) % (2 ^ HalfWidth)) - 2 ^ (HalfWidth - 1)

\* What a component of a vector keeps of a float, which is wider.
Single(q) == 2 * (q \div 2)

-------------------------------------------------------------------------------
(* Operators. *)

\* What a value counts as where a condition is asked for.
booleanize(v, heap) ==
    CASE TypeOf(v) \in {"NIL", "BOOL", "INT", "FLOAT"} -> v[2] # 0
      [] TypeOf(v) = "STRING" -> v[2] # ""
      [] TypeOf(v) \in {"VECTOR2", "VECTOR2I"} -> v[2] # <<0, 0>>
      [] TypeOf(v) \in {"ARRAY", "DICTIONARY"} -> heap[v[2]] # <<>>

\* A word of so many bits has a bit in the result where Bit says so of its own.
BitwiseOp(Bit(_, _), l, r) ==
    LET bit(i, k) == (i \div 2 ^ k) % 2
    IN  Wrap(FoldLeft(LAMBDA sum, k : sum + Bit(bit(l, k), bit(r, k)) * 2 ^ k, 0, [k \in 1 .. Width |-> k - 1]))

RECURSIVE Power(_, _)
Power(b, n) == IF n = 0 THEN 1 ELSE Wrap(b * Power(b, n - 1))

Remainder(l, r) == IF r = 0 THEN l ELSE l - r * Quotient(l, r)

IntOperator(op, l, r) ==
    CASE op = "ADD" -> Wrap(l + r)
      [] op = "SUB" -> Wrap(l - r)
      [] op = "MUL" -> Wrap(l * r)
      [] op = "DIV" -> Quotient(l, r)
      [] op = "MOD" -> Remainder(l, r)
      [] op = "POW" -> Power(l, r)
      [] op = "SHL" -> Wrap(l * 2 ^ r)
      [] op = "SHR" -> l \div 2 ^ r
      [] op = "BIT_AND" -> BitwiseOp(LAMBDA a, b : a * b, l, r)
      [] op = "BIT_OR"  -> BitwiseOp(LAMBDA a, b : IF a + b = 0 THEN 0 ELSE 1, l, r)
      [] op = "BIT_XOR" -> BitwiseOp(LAMBDA a, b : (a + b) % 2, l, r)

FloatOperator(op, l, r) ==
    CASE op = "ADD" -> l + r
      [] op = "SUB" -> l - r
      [] op = "MUL" -> (l * r) \div FLOAT_UNIT
      [] op = "DIV" -> IF r = 0 THEN 0 ELSE (l * FLOAT_UNIT) \div r

VectorOperator(op, type, l, r) ==
    LET component(k) == IF type = "VECTOR2I" THEN WrapHalf(IntOperator(op, l[k], r[k]))
                        ELSE Single(FloatOperator(op, l[k], r[k]))
    IN  <<component(1), component(2)>>

Numeric == {"INT", "FLOAT"}
AsFloat(v) == IF TypeOf(v) = "INT" THEN v[2] * FLOAT_UNIT ELSE v[2]

\* The position of a key.
KeyAt(key, pairs) == {i \in DOMAIN pairs : pairs[i][1] = key}

HasValue(v, container, heap) ==
    IF TypeOf(container) = "ARRAY" THEN \E i \in DOMAIN heap[container[2]] : heap[container[2]][i] = v
    ELSE KeyAt(v, heap[container[2]]) # {}

\* A sequence of at most one value: what an operator makes of two values.
evaluate(op, l, r, heap) ==
    LET same == TypeOf(l) = TypeOf(r)
        both(types) == TypeOf(l) \in types /\ TypeOf(r) \in types
    IN  CASE both({"INT"}) /\ op \in {"DIV", "MOD"} /\ r[2] = 0 -> <<>>
          [] both({"INT"}) /\ op \in {"SHL", "SHR"} /\ (l[2] < 0 \/ r[2] < 0) -> <<>>
          [] both({"INT"}) /\ op \in Comparisons -> << Bool(compares(op, l[2], r[2])) >>
          [] op = "NOT" -> << Bool(~booleanize(l, heap)) >>
          [] op = "IN" /\ TypeOf(r) \in {"ARRAY", "DICTIONARY"} -> << Bool(HasValue(l, r, heap)) >>
          [] both({"INT"}) /\ op \notin Comparisons \union {"NOT", "IN"} -> << <<"INT", IntOperator(op, l[2], r[2])>> >>
          [] both(Numeric) /\ ~both({"INT"}) /\ op \in {"ADD", "SUB", "MUL", "DIV"} ->
                << <<"FLOAT", FloatOperator(op, AsFloat(l), AsFloat(r))>> >>
          [] both(Numeric) /\ ~both({"INT"}) /\ op \in Comparisons ->
                << Bool(compares(op, AsFloat(l), AsFloat(r))) >>
          [] both({"STRING"}) /\ op = "ADD" -> << <<"STRING", l[2] \o r[2]>> >>
          [] same /\ TypeOf(l) \in {"VECTOR2", "VECTOR2I"} /\ op \in {"ADD", "SUB", "MUL", "DIV"} ->
                << <<TypeOf(l), VectorOperator(op, TypeOf(l), l[2], r[2])>> >>
          [] same /\ TypeOf(l) \notin Numeric /\ op \in {"CMP_EQ", "CMP_NEQ"} ->
                << Bool((op = "CMP_EQ") = (IF TypeOf(l) \in {"ARRAY", "DICTIONARY"}
                                           THEN heap[l[2]] = heap[r[2]] ELSE l = r)) >>
          [] "NIL" \in {TypeOf(l), TypeOf(r)} /\ ~same /\ op \in {"CMP_EQ", "CMP_NEQ"} ->
                << Bool(op = "CMP_NEQ") >>
          [] OTHER -> <<>>

-------------------------------------------------------------------------------
(* Containers. *)

\* A sequence written out, element by element.
AsSequence(s) == SubSeq(s, 1, Len(s))

\* A container that is new, and the heap with it.
Allocate(type, content, heap) == [val |-> <<type, Len(heap) + 1>>, heap |-> Append(heap, AsSequence(content))]

\* The element an index stands for, from the end if it is negative: a set of at
\* most one position.
ElementAt(i, elements) ==
    {k \in {IF i < 0 THEN Len(elements) + i + 1 ELSE i + 1} : k \in DOMAIN elements}

ValueOf(key, pairs) == IF KeyAt(key, pairs) = {} THEN Nil ELSE pairs[CHOOSE i \in KeyAt(key, pairs) : TRUE][2]

\* A key keeps its place; a new one comes last.
WithKey(pairs, key, value) ==
    IF KeyAt(key, pairs) = {} THEN Append(pairs, <<key, value>>)
    ELSE AsSequence([i \in DOMAIN pairs |-> IF pairs[i][1] = key THEN <<key, value>> ELSE pairs[i]])

Keys(pairs) == [i \in DOMAIN pairs |-> pairs[i][1]]

\* Methods, of which those that give nothing back give null: what a call gives back
\* and the heap it leaves, or <<>> if there is no such method or element.
callp(object, method, args, heap) ==
    LET content == heap[object[2]]
        gives(v) == << [val |-> v, heap |-> heap] >>
        leaves(c, v) == << [val |-> v, heap |-> [heap EXCEPT ![object[2]] = c]] >>
        at == ElementAt(args[1][2], content)
        here == CHOOSE k \in at : TRUE
    IN  CASE TypeOf(object) = "ARRAY" /\ method \in {"append", "push_back"} -> leaves(Append(content, args[1]), Nil)
          [] TypeOf(object) = "ARRAY" /\ method = "pop_back" /\ content # <<>> -> leaves(Front(content), Last(content))
          [] TypeOf(object) = "ARRAY" /\ method = "get" /\ at # {} -> gives(content[here])
          [] TypeOf(object) = "ARRAY" /\ method = "set" /\ at # {} ->
                leaves([content EXCEPT ![here] = args[2]], Nil)
          [] TypeOf(object) \in {"ARRAY", "DICTIONARY"} /\ method = "size" -> gives(<<"INT", Len(content)>>)
          [] TypeOf(object) \in {"ARRAY", "DICTIONARY"} /\ method = "has" -> gives(Bool(HasValue(args[1], object, heap)))
          [] TypeOf(object) = "DICTIONARY" /\ method = "get" -> gives(ValueOf(args[1], content))
          [] TypeOf(object) = "DICTIONARY" /\ method = "set" ->
                leaves(WithKey(content, args[1], args[2]), Bool(TRUE))
          [] OTHER -> <<>>

\* A value with what its references lead to in place of them.
RECURSIVE Contents(_, _)
Contents(v, heap) ==
    CASE TypeOf(v) = "ARRAY" -> <<"ARRAY", [i \in DOMAIN heap[v[2]] |-> Contents(heap[v[2]][i], heap)]>>
      [] TypeOf(v) = "DICTIONARY" ->
            <<"DICTIONARY", [i \in DOMAIN heap[v[2]] |-> << Contents(heap[v[2]][i][1], heap),
                                                            Contents(heap[v[2]][i][2], heap) >>]>>
      [] OTHER -> v
===============================================================================
