----------------------------- MODULE GDScriptParser -----------------------------
(***************************************************************************)
(* The recursive descent parser of the GDScript compiler (parser.cpp).     *)
(*                                                                         *)
(* A parser is a record: the tokens that are left, what was read last, and *)
(* whether no error was thrown.  After an error nothing is read any more.  *)
(* Every parse_ operator takes a parser and returns one that has read a    *)
(* phrase and holds its tree in "val".  Every list of tokens ends in EOF.  *)
(***************************************************************************)
EXTENDS GDScriptAST, SequencesExt, TLC

ParserOf(tokens) == [in |-> tokens, val |-> "", ok |-> TRUE]

Got(p, v) == [p EXCEPT !.val = v]
fail(p) == [p EXCEPT !.ok = FALSE]

peek_type(p) == Head(p.in).type
is_end(p) == peek_type(p) = "EOF"
check(p, type) == p.ok /\ peek_type(p) = type
check_any(p, types) == p.ok /\ peek_type(p) \in types
check_name(p, x) == check(p, "IDENTIFIER") /\ Head(p.in).val = x
check_ahead(p, type) == Len(p.in) > 1 /\ p.in[2].type = type

advance(p) ==
    IF is_end(p) \/ ~p.ok THEN p ELSE [p EXCEPT !.in = Tail(@), !.val = Head(p.in).val]
consume(p, type) == IF check(p, type) THEN advance(p) ELSE fail(p)

\* match, where only what it passes matters.
skip(p, type) == IF check(p, type) THEN advance(p) ELSE p

RECURSIVE skip_newlines(_)
skip_newlines(p) == IF check_any(p, {"NEWLINE", ";"}) THEN skip_newlines(advance(p)) ELSE p

consume_statement_end(p) == IF check(p, ";") THEN advance(p) ELSE consume(p, "NEWLINE")

\* Past the bracket that closes the one passed last.
RECURSIVE skip_nested(_, _, _, _)
skip_nested(p, open, close, depth) ==
    IF depth = 0 THEN p
    ELSE IF is_end(p) \/ ~p.ok THEN fail(p)
    ELSE skip_nested(advance(p), open, close,
                     depth + (IF check(p, open) THEN 1 ELSE IF check(p, close) THEN -1 ELSE 0))

skip_type_arguments(p) == IF check(p, "[") THEN skip_nested(advance(p), "[", "]", 1) ELSE p
skip_attribute_arguments(p) == IF check(p, "(") THEN skip_nested(advance(p), "(", ")", 1) ELSE p

type_name(p) ==
    LET name == consume(p, "IDENTIFIER") IN Got(skip_type_arguments(name), name.val)

\* A colon that no type follows is passed all the same.
parse_type_hint(p) ==
    LET after == skip(p, ":")
    IN  IF check(p, ":") /\ check(after, "IDENTIFIER") THEN type_name(after) ELSE Got(after, "")

parse_return_type(p) ==
    IF check(p, "-") /\ check_ahead(p, ">")
    THEN LET after == advance(advance(p))
         IN  IF check(after, "IDENTIFIER") THEN type_name(after) ELSE Got(after, "")
    ELSE Got(p, "")

-------------------------------------------------------------------------------
(* Expressions, from the loosest operator to the tightest. *)

RECURSIVE parse_expression(_)
RECURSIVE parse_ternary(_)
RECURSIVE parse_not(_)
RECURSIVE parse_unary(_)
RECURSIVE parse_chain(_, _)
RECURSIVE parse_calls(_)
RECURSIVE parse_list(_, _, _)

operators_of(level) ==
    CASE level = "or"         -> {"or"}
      [] level = "and"        -> {"and"}
      [] level = "equality"   -> {"==", "!="}
      [] level = "comparison" -> {"<", "<=", ">", ">="}
      [] level = "bit or"     -> {"|"}
      [] level = "bit xor"    -> {"^"}
      [] level = "bit and"    -> {"&"}
      [] level = "shift"      -> {"<<", ">>"}
      [] level = "term"       -> {"+", "-"}
      [] level = "factor"     -> {"*", "/", "%"}
      [] level = "power"      -> {"**"}

BinaryOp ==
    ("==" :> "CMP_EQ") @@ ("!=" :> "CMP_NEQ") @@ ("<" :> "CMP_LT") @@ ("<=" :> "CMP_LTE")
    @@ (">" :> "CMP_GT") @@ (">=" :> "CMP_GTE") @@ ("|" :> "BIT_OR") @@ ("^" :> "BIT_XOR")
    @@ ("&" :> "BIT_AND") @@ ("<<" :> "SHL") @@ (">>" :> "SHR") @@ ("+" :> "ADD")
    @@ ("-" :> "SUB") @@ ("*" :> "MUL") @@ ("/" :> "DIV") @@ ("%" :> "MOD") @@ ("**" :> "POW")
    @@ ("in" :> "IN")

make_binary(left, op, right) ==
    IF op \in {"and", "or"} THEN LogicalExpr(op, left, right)
    ELSE BinaryExpr(BinaryOp[op], left, right)

(* What the operand of a level is, is the next level. *)

parse_power(p) == parse_chain("power", parse_unary(p))

\* Type tests, one after the other.
RECURSIVE parse_type_tests(_)
parse_type_tests(p) ==
    IF ~check(p, "is") THEN p
    ELSE LET after == advance(p)
             name == consume(skip(after, "not"), "IDENTIFIER")
             test == TypeTestExpr(p.val, name.val)
         IN  parse_type_tests(Got(name, IF check(after, "not") THEN UnaryExpr("NOT", test) ELSE test))

parse_type_test(p)  == parse_type_tests(parse_power(p))
parse_factor(p)     == parse_chain("factor", parse_type_test(p))
parse_term(p)       == parse_chain("term", parse_factor(p))
parse_shift(p)      == parse_chain("shift", parse_term(p))
parse_bit_and(p)    == parse_chain("bit and", parse_shift(p))
parse_bit_xor(p)    == parse_chain("bit xor", parse_bit_and(p))
parse_bit_or(p)     == parse_chain("bit or", parse_bit_xor(p))
parse_comparison(p) == parse_chain("comparison", parse_bit_or(p))
parse_equality(p)   == parse_chain("equality", parse_comparison(p))

RECURSIVE parse_inclusions(_)
parse_inclusions(p) ==
    LET negated == check(p, "not") /\ check_ahead(p, "in")
        right == parse_equality(IF negated THEN advance(advance(p)) ELSE advance(p))
        test == BinaryExpr("IN", p.val, right.val)
    IN  IF negated \/ check(p, "in")
        THEN parse_inclusions(Got(right, IF negated THEN UnaryExpr("NOT", test) ELSE test))
        ELSE p

parse_inclusion(p) == parse_inclusions(parse_equality(p))

parse_not(p) ==
    IF check(p, "not")
    THEN LET operand == parse_not(advance(p)) IN Got(operand, UnaryExpr("NOT", operand.val))
    ELSE parse_inclusion(p)

parse_and_expression(p) == parse_chain("and", parse_not(p))
parse_or_expression(p)  == parse_chain("or", parse_and_expression(p))

operand_of(level, p) ==
    CASE level = "or"         -> parse_and_expression(p)
      [] level = "and"        -> parse_not(p)
      [] level = "equality"   -> parse_comparison(p)
      [] level = "comparison" -> parse_bit_or(p)
      [] level = "bit or"     -> parse_bit_xor(p)
      [] level = "bit xor"    -> parse_bit_and(p)
      [] level = "bit and"    -> parse_shift(p)
      [] level = "shift"      -> parse_term(p)
      [] level = "term"       -> parse_factor(p)
      [] level = "factor"     -> parse_type_test(p)
      [] level = "power"      -> parse_unary(p)

\* Operators of one level group from the left.
parse_chain(level, left) ==
    IF ~check_any(left, operators_of(level)) THEN left
    ELSE LET right == operand_of(level, advance(left))
         IN  parse_chain(level, Got(right, make_binary(left.val, peek_type(left), right.val)))

parse_unary(p) ==
    IF ~check_any(p, {"-", "~", "+"}) THEN parse_calls(p)
    ELSE LET operand == parse_unary(advance(p))
         IN  Got(operand, CASE peek_type(p) = "-" -> UnaryExpr("NEG", operand.val)
                            [] peek_type(p) = "~" -> UnaryExpr("BIT_NOT", operand.val)
                            [] peek_type(p) = "+" -> operand.val)

parse_ternary(p) ==
    LET yes == parse_or_expression(p)
        cond == parse_or_expression(advance(yes))
        no == parse_ternary(consume(cond, "else"))
    IN  IF check(yes, "if") THEN Got(no, TernaryExpr(cond.val, yes.val, no.val)) ELSE yes

\* A cast to a scalar type is a call of its constructor.
RECURSIVE parse_casts(_)
parse_casts(p) ==
    IF ~check(p, "as") THEN p
    ELSE LET name == consume(advance(p), "IDENTIFIER")
         IN  parse_casts(Got(name, IF name.val \in {"int", "float", "bool", "String"}
                                   THEN CallExpr(name.val, <<<<"", p.val>>>>)
                                   ELSE ClassCastExpr(p.val, name.val)))

parse_expression(p) == parse_casts(parse_ternary(p))

-------------------------------------------------------------------------------
(* Calls, literals and lists. *)

\* The elements of a list up to its closing bracket, a comma after each but
\* perhaps the last: arguments, array elements or dictionary entries.
parse_argument(p) ==
    IF check(p, "IDENTIFIER") /\ check_ahead(p, "=")
    THEN LET e == parse_expression(advance(advance(p))) IN Got(e, <<Head(p.in).val, e.val>>)
    ELSE LET e == parse_expression(p) IN Got(e, <<"", e.val>>)

parse_element(p) == parse_expression(p)

\* An identifier in front of an entry is its key's text.
parse_entry(p) ==
    LET key == IF check(p, "IDENTIFIER")
               THEN Got(advance(p), StringExpr("STRING", <<Head(p.in).val>>)) ELSE parse_expression(p)
        value == parse_expression(IF check(key, "=") THEN advance(key) ELSE consume(key, ":"))
    IN  Got(value, <<key.val, value.val>>)

parse_list(kind, close, p) ==
    LET item == CASE kind = "arguments"  -> parse_argument(p)
                  [] kind = "array"      -> parse_element(p)
                  [] kind = "dictionary" -> parse_entry(p)
        after == skip(item, ",")
        rest == parse_list(kind, close, after)
    IN  IF check(p, close) THEN Got(advance(p), <<>>)
        ELSE IF ~item.ok THEN Got(item, <<>>)
        ELSE IF ~check(item, ",") THEN Got(consume(item, close), <<item.val>>)
        ELSE Got(rest, <<item.val>> \o rest.val)

\* No argument without a name follows one with a name.
parse_argument_list(p) ==
    LET list == parse_list("arguments", ")", p)
    IN  IF list.ok /\ \E i \in DOMAIN list.val : \E j \in 1 .. i - 1 :
                          list.val[j][1] # "" /\ list.val[i][1] = ""
        THEN fail(list) ELSE list

RECURSIVE parse_node_names(_, _)
parse_node_names(p, unique) ==
    LET name == consume(skip(p, "%"), "IDENTIFIER")
        path == (IF check(p, "%") \/ unique THEN <<"%">> ELSE <<>>) \o <<name.val>>
        rest == parse_node_names(advance(name), FALSE)
    IN  IF check(name, "/") THEN Got(rest, path \o <<"/">> \o rest.val) ELSE Got(name, path)

\* $Path/To/Node, $"path" and %Unique are calls of get_node.
parse_node_path(p) ==
    LET after == advance(p)
        unique == check(p, "%")
        path == IF ~unique /\ check_any(after, {"STRING", "NODE_PATH"}) THEN advance(after)
                ELSE parse_node_names(after, unique)
    IN  Got(path, CallExpr("get_node", <<<<"", StringExpr("STRING", path.val)>>>>))

parse_primary(p) ==
    LET after == advance(p)
    IN  CASE check(p, "true")       -> Got(after, BoolExpr(1))
          [] check(p, "false")      -> Got(after, BoolExpr(0))
          [] check(p, "null")       -> Got(after, NullExpr)
          [] check(p, "INTEGER")    -> Got(after, LiteralExpr(after.val))
          [] check(p, "FLOAT")      -> Got(after, FloatExpr(after.val))
          [] check_any(p, {"STRING", "STRING_NAME", "NODE_PATH"}) ->
                Got(after, StringExpr(peek_type(p), after.val))
          [] check_any(p, {"$", "%"}) -> parse_node_path(p)
          [] check(p, "IDENTIFIER") -> Got(after, VariableExpr(after.val))
          [] check(p, "(") ->
                LET e == parse_expression(after) IN Got(consume(e, ")"), e.val)
          [] check(p, "[") ->
                LET list == parse_list("array", "]", after) IN Got(list, ArrayLiteralExpr(list.val))
          [] check(p, "{") ->
                LET list == parse_list("dictionary", "}", after)
                IN  Got(list, DictionaryLiteralExpr(list.val))
          [] OTHER -> fail(p)

RECURSIVE parse_postfix(_)
parse_postfix(p) ==
    LET args == parse_argument_list(advance(p))
        member == consume(advance(p), "IDENTIFIER")
        method_args == parse_argument_list(advance(member))
        index == parse_expression(advance(p))
    IN  CASE check(p, "(") ->
                IF p.val.expr # "variable" THEN fail(args)
                ELSE parse_postfix(Got(args, CallExpr(p.val.name, args.val)))
          [] check(p, ".") ->
                IF check(member, "(")
                THEN parse_postfix(Got(method_args, MethodCallExpr(p.val, member.val, method_args.val)))
                ELSE parse_postfix(Got(member, MemberExpr(p.val, member.val)))
          [] check(p, "[") ->
                parse_postfix(Got(consume(index, "]"), IndexExpr(p.val, index.val)))
          [] OTHER -> p

parse_calls(p) == parse_postfix(parse_primary(p))

-------------------------------------------------------------------------------
(* Statements.  The keyword of a statement has been passed already. *)

RECURSIVE parse_statement(_)
RECURSIVE parse_statements(_)

\* A colon and a line end.
consume_colon(p) == consume(consume(p, ":"), "NEWLINE")

parse_block(p) ==
    LET body == parse_statements(consume(skip_newlines(p), "INDENT"))
    IN  Got(consume(body, "DEDENT"), body.val)

\* The statements up to the end of the block.
parse_statements(p) ==
    LET start == skip_newlines(p)
        first == parse_statement(start)
        rest == parse_statements(first)
    IN  IF ~p.ok \/ check(start, "DEDENT") \/ is_end(start) THEN Got(start, <<>>)
        ELSE IF ~first.ok THEN Got(first, <<>>)
        ELSE Got(rest, <<first.val>> \o rest.val)

parse_var_decl(p, is_const) ==
    LET name == consume(p, "IDENTIFIER")
        hint == parse_type_hint(name)
        init == IF check(hint, "=") THEN parse_expression(advance(hint))
                ELSE IF is_const THEN fail(hint) ELSE Got(hint, NoExpr)
    IN  Got(consume_statement_end(init), TypedVarStmt(name.val, hint.val, init.val, is_const))

\* elif is an if in the else branch.
RECURSIVE parse_if_stmt(_)
parse_if_stmt(p) ==
    LET cond == parse_expression(p)
        then == parse_block(consume_colon(cond))
        after == skip_newlines(then)
        elif == parse_if_stmt(advance(after))
        else == parse_block(consume_colon(advance(after)))
    IN  CASE check(after, "elif") -> Got(elif, IfStmt(cond.val, then.val, <<elif.val>>))
          [] check(after, "else") -> Got(else, IfStmt(cond.val, then.val, else.val))
          [] OTHER -> Got(after, IfStmt(cond.val, then.val, <<>>))

parse_while_stmt(p) ==
    LET cond == parse_expression(p)
        body == parse_block(consume_colon(cond))
    IN  Got(body, WhileStmt(cond.val, body.val))

parse_for_stmt(p) ==
    LET name == consume(p, "IDENTIFIER")
        over == parse_expression(consume(parse_type_hint(name), "in"))
        body == parse_block(consume_colon(over))
    IN  Got(body, ForStmt(name.val, over.val, body.val))

RECURSIVE parse_match_pattern(_)
RECURSIVE parse_array_pattern(_)
RECURSIVE parse_dictionary_pattern(_)

\* ".." is the last entry of a pattern.
parse_pattern_rest(p, close) ==
    LET after == skip(advance(p), ",")
    IN  IF check_any(after, {"]", "}"}) THEN Got(consume(after, close), <<>>) ELSE fail(after)

\* <<the patterns, whether the pattern is open>>
parse_array_pattern(p) ==
    LET first == parse_match_pattern(p)
        rest == parse_array_pattern(skip(first, ","))
    IN  CASE check(p, "]")  -> Got(advance(p), <<<<>>, FALSE>>)
          [] check(p, "..") -> Got(parse_pattern_rest(p, "]"), <<<<>>, TRUE>>)
          [] OTHER -> IF ~first.ok THEN first
                      ELSE IF ~check(first, ",") THEN Got(consume(first, "]"), <<<<first.val>>, FALSE>>)
                      ELSE IF ~rest.ok THEN rest
                      ELSE Got(rest, <<<<first.val>> \o rest.val[1], rest.val[2]>>)

parse_dictionary_pattern(p) ==
    LET key == parse_expression(p)
        value == parse_match_pattern(advance(key))
        entry == IF check(key, ":") THEN Got(value, <<key.val, <<value.val>>>>)
                 ELSE Got(key, <<key.val, <<>>>>)
        rest == parse_dictionary_pattern(skip(entry, ","))
    IN  CASE check(p, "}")  -> Got(advance(p), <<<<>>, FALSE>>)
          [] check(p, "..") -> Got(parse_pattern_rest(p, "}"), <<<<>>, TRUE>>)
          [] OTHER -> IF ~entry.ok THEN entry
                      ELSE IF ~check(entry, ",") THEN Got(consume(entry, "}"), <<<<entry.val>>, FALSE>>)
                      ELSE IF ~rest.ok THEN rest
                      ELSE Got(rest, <<<<entry.val>> \o rest.val[1], rest.val[2]>>)

parse_match_pattern(p) ==
    LET after == advance(p)
        name == consume(after, "IDENTIFIER")
        array == parse_array_pattern(after)
        dictionary == parse_dictionary_pattern(after)
        value == parse_expression(p)
    IN  CASE check_name(p, "_") -> Got(after, WildcardPattern)
          [] check(p, "var")    -> Got(name, BindPattern(name.val))
          [] check(p, "[") ->
                IF array.ok THEN Got(array, ArrayPattern(array.val[1], array.val[2])) ELSE array
          [] check(p, "{") ->
                IF dictionary.ok THEN Got(dictionary, DictionaryPattern(dictionary.val[1], dictionary.val[2]))
                ELSE dictionary
          [] OTHER -> Got(value, ValuePattern(value.val))

RECURSIVE parse_patterns(_)
parse_patterns(p) ==
    LET first == parse_match_pattern(p)
        after == skip(first, ",")
        rest == parse_patterns(after)
    IN  IF check(first, ",") /\ ~check(after, ":") THEN Got(rest, <<first.val>> \o rest.val)
        ELSE Got(after, <<first.val>>)

\* "when" is a keyword only here.
parse_branch(p) ==
    LET patterns == parse_patterns(p)
        guard == IF check_name(patterns, "when") THEN parse_expression(advance(patterns))
                 ELSE Got(patterns, NoExpr)
        body == parse_block(consume_colon(guard))
    IN  IF ~patterns.ok THEN patterns
        ELSE IF Len(patterns.val) > 1 /\ \E i \in DOMAIN patterns.val : binds(patterns.val[i])
             THEN fail(patterns)
        ELSE Got(body, Branch(patterns.val, guard.val, body.val))

RECURSIVE parse_branches(_)
parse_branches(p) ==
    LET start == skip_newlines(p)
        first == parse_branch(start)
        rest == parse_branches(first)
    IN  IF ~p.ok \/ check(start, "DEDENT") \/ is_end(start) THEN Got(start, <<>>)
        ELSE IF ~first.ok THEN Got(first, <<>>)
        ELSE Got(rest, <<first.val>> \o rest.val)

parse_match_stmt(p, is_switch) ==
    LET subject == parse_expression(p)
        branches == parse_branches(consume(skip_newlines(consume_colon(subject)), "INDENT"))
    IN  IF branches.ok /\ branches.val = <<>> THEN fail(branches)
        ELSE Got(consume(skip_newlines(branches), "DEDENT"),
                 MatchStmt(subject.val, branches.val, is_switch))

\* A line end, but no semicolon, may follow the bare keyword.
parse_return_stmt(p) ==
    LET value == IF check(p, "NEWLINE") THEN Got(p, NoExpr) ELSE parse_expression(p)
    IN  Got(consume_statement_end(value), ReturnStmt(value.val))

\* Only what can be read twice without effect is the target of "op=".
RECURSIVE clone_lvalue(_)
clone_lvalue(e) ==
    CASE e.expr \in {"variable", "literal", "float", "string", "null"} -> TRUE
      [] e.expr = "member" -> clone_lvalue(e.object)
      [] e.expr = "index"  -> clone_lvalue(e.object) /\ clone_lvalue(e.index)
      [] OTHER -> FALSE

CompoundOp ==
    ("+=" :> "+") @@ ("-=" :> "-") @@ ("*=" :> "*") @@ ("/=" :> "/") @@ ("%=" :> "%")
    @@ ("**=" :> "**") @@ ("&=" :> "&") @@ ("|=" :> "|") @@ ("^=" :> "^") @@ ("<<=" :> "<<")
    @@ (">>=" :> ">>")

assign_to(target, value) ==
    IF target.expr = "variable" THEN AssignStmt(target.name, value) ELSE AssignToStmt(target, value)

parse_expr_or_assign_stmt(p) ==
    LET target == parse_calls(p)
        value == parse_expression(advance(target))
        end == consume_statement_end(value)
    IN  CASE check(target, "=") ->
                IF target.val.expr \notin {"variable", "index", "member"} THEN fail(end)
                ELSE Got(end, assign_to(target.val, value.val))
          [] check_any(target, DOMAIN CompoundOp) ->
                IF ~clone_lvalue(target.val) THEN fail(target)
                ELSE Got(end, assign_to(target.val, make_binary(target.val,
                                            CompoundOp[peek_type(target)], value.val)))
          [] OTHER -> Got(consume_statement_end(target), ExprStmt(target.val))

parse_statement(p) ==
    LET start == skip_newlines(p)
        after == advance(start)
        Word(stmt) == Got(consume_statement_end(after), stmt)
    IN  CASE check(start, "var")      -> parse_var_decl(after, FALSE)
          [] check(start, "const")    -> parse_var_decl(after, TRUE)
          [] check(start, "if")       -> parse_if_stmt(after)
          [] check(start, "while")    -> parse_while_stmt(after)
          [] check(start, "for")      -> parse_for_stmt(after)
          [] check(start, "match")    -> parse_match_stmt(after, FALSE)
          [] check(start, "switch")   -> parse_match_stmt(after, TRUE)
          [] check(start, "return")   -> parse_return_stmt(after)
          [] check(start, "break")    -> Word(BreakStmt)
          [] check(start, "continue") -> Word(ContinueStmt)
          [] check(start, "pass")     -> Word(PassStmt)
          [] OTHER -> parse_expr_or_assign_stmt(start)

-------------------------------------------------------------------------------
(* Declarations. *)

\* After a parameter with a default value every one has one.
RECURSIVE parse_parameters(_, _)
parse_parameters(p, seen_default) ==
    LET name == consume(p, "IDENTIFIER")
        hint == parse_type_hint(name)
        init == IF check(hint, "=") THEN parse_expression(advance(hint))
                ELSE IF seen_default THEN fail(hint) ELSE Got(hint, NoExpr)
        param == Parameter(name.val, hint.val, init.val)
        rest == parse_parameters(advance(init), init.val # NoExpr)
    IN  CASE check(p, ")")    -> Got(p, <<>>)
          [] check(init, ",") -> Got(rest, <<param>> \o rest.val)
          [] OTHER -> Got(init, <<param>>)

parse_function(p) ==
    LET name == consume(consume(p, "func"), "IDENTIFIER")
        params == parse_parameters(consume(name, "("), FALSE)
        type == parse_return_type(consume(params, ")"))
        body == parse_block(consume_colon(type))
    IN  Got(body, FunctionDecl(name.val, params.val, type.val, body.val))

\* The values of an enum count on from the last one written.
RECURSIVE parse_members(_, _)
parse_members(p, next_value) ==
    LET name == consume(p, "IDENTIFIER")
        sign == advance(name)
        number == consume(IF check_any(sign, {"+", "-"}) THEN advance(sign) ELSE sign, "INTEGER")
        member == IF ~check(name, "=") THEN Got(name, next_value)
                  ELSE IF ~number.ok THEN number
                  ELSE Got(number, IF check(sign, "-") THEN -number.val ELSE number.val)
        rest == parse_members(advance(member), member.val + 1)
    IN  CASE check(p, "}") \/ is_end(p) -> Got(p, <<>>)
          [] ~member.ok                  -> member
          [] check(member, ",")          -> Got(rest, <<Member(name.val, member.val)>> \o rest.val)
          [] OTHER                       -> Got(member, <<Member(name.val, member.val)>>)

twice(decls) == \E i \in DOMAIN decls : \E j \in 1 .. i - 1 : decls[i].name = decls[j].name

parse_enum(p) ==
    LET after == consume(p, "enum")
        name == IF check(after, "IDENTIFIER") THEN advance(after) ELSE Got(after, "")
        members == parse_members(consume(name, "{"), 0)
    IN  IF members.ok /\ twice(members.val) THEN fail(members)
        ELSE Got(consume(members, "}"), EnumDecl(name.val, members.val))

RECURSIVE parse_fields(_)
parse_fields(p) ==
    LET start == skip_newlines(p)
        name == consume(consume(start, "var"), "IDENTIFIER")
        hint == parse_type_hint(name)
        init == IF check(hint, "=") THEN parse_expression(advance(hint)) ELSE Got(hint, NoExpr)
        end == consume(init, "NEWLINE")
        rest == parse_fields(end)
    IN  CASE ~p.ok \/ check(start, "DEDENT") \/ is_end(start) -> Got(start, <<>>)
          [] check(start, "pass") -> parse_fields(consume_statement_end(advance(start)))
          [] ~end.ok -> end
          [] OTHER -> Got(rest, <<Field(name.val, hint.val, init.val)>> \o rest.val)

parse_struct(p) ==
    LET name == consume(consume(p, "struct"), "IDENTIFIER")
        fields == parse_fields(consume(skip_newlines(consume_colon(name)), "INDENT"))
    IN  IF fields.ok /\ twice(fields.val) THEN fail(fields)
        ELSE Got(consume(fields, "DEDENT"), StructDecl(name.val, fields.val))

\* The attributes that are known are exports, or have no effect.
Exports == {"export", "export_range", "export_enum"}
NoEffect == {"tool", "icon", "rpc", "warning_ignore", "warning_ignore_start",
             "warning_ignore_restore", "static_unload", "abstract"}

\* Whether the attribute makes a property; @onready and unknown ones are refused.
parse_attribute(p) ==
    LET name == consume(consume(p, "@"), "IDENTIFIER")
        after == skip_attribute_arguments(name)
    IN  IF after.ok /\ name.val \in Exports \union NoEffect THEN Got(after, name.val \in Exports)
        ELSE fail(after)

RECURSIVE parse_attributes(_, _)
parse_attributes(p, is_export) ==
    LET one == parse_attribute(p)
    IN  IF ~check(p, "@") THEN Got(p, is_export)
        ELSE IF ~one.ok THEN one
        ELSE parse_attributes(skip_newlines(one), is_export \/ one.val)

\* A declaration joins its list of the program.
Declared(p, program, list) == Got(p, [program EXCEPT ![list] = Append(@, p.val)])

parse_global(p, program, is_export) ==
    LET decl == parse_var_decl(advance(p), check(p, "const"))
        v == decl.val
    IN  IF ~decl.ok THEN decl
        ELSE Declared(Got(decl, GlobalDecl(v.name, v.type_hint, v.value, v.is_const, is_export)),
                      program, "globals")

\* What follows attributes: a property, a function that is none, or nothing.
parse_attributed(p, program) ==
    LET attributes == parse_attributes(p, FALSE)
        start == skip(attributes, "static")
    IN  IF ~attributes.ok THEN attributes
        ELSE CASE check_any(start, {"var", "const"}) -> parse_global(start, program, attributes.val)
               [] check(start, "func") /\ ~attributes.val ->
                      Declared(parse_function(start), program, "functions")
               [] OTHER -> IF attributes.val THEN fail(start) ELSE Got(start, program)

\* extends, class_name and signal are passed.
parse_declaration(p, program) ==
    LET name == consume(advance(p), "IDENTIFIER")
    IN  CASE check_any(p, {"extends", "class_name"}) -> Got(skip_newlines(name), program)
          [] check(p, "signal") ->
                Got(consume_statement_end(skip_attribute_arguments(name)), program)
          [] check(p, "@") -> parse_attributed(p, program)
          [] check_any(p, {"var", "const"}) -> parse_global(p, program, FALSE)
          [] check(p, "struct") -> Declared(parse_struct(p), program, "structs")
          [] check(p, "enum")   -> Declared(parse_enum(p), program, "enums")
          [] check(p, "func")   -> Declared(parse_function(p), program, "functions")
          [] OTHER -> fail(p)

RECURSIVE parse_declarations(_, _)
parse_declarations(p, program) ==
    LET start == skip_newlines(p)
        decl == parse_declaration(skip(start, "static"), program)
    IN  IF ~start.ok \/ is_end(start) THEN Got(start, program)
        ELSE IF ~decl.ok THEN decl
        ELSE parse_declarations(decl, decl.val)

\* The program of a list of tokens: a parser that is ok holds it.
parse(tokens) == parse_declarations(ParserOf(tokens), EmptyProgram)
===============================================================================
