------------------------------ MODULE IROptimizer ------------------------------
(***************************************************************************)
(* The GDScript compiler from the source of one function to the code the   *)
(* backend gets: the code generator, then the passes of the optimizer's    *)
(* pipeline (ir_optimizer.cpp) one after the other.                        *)
(***************************************************************************)
EXTENDS GDScriptCodegen, IRVerifier

CONSTANTS
    Sources,     \* the functions to compile, declarations without types
    Globals,     \* the names of the global variables, in order
    Selections,  \* the sets of passes to enable
    Arguments    \* the values a parameter may have

VARIABLES
    source,      \* the function to compile
    enabled,     \* the passes enabled for it (set_enabled_passes)
    compiled     \* whether it has been compiled

vars == <<source, enabled, compiled>>

pipeline == << "constant-folding", "unreachable-code", "copy-propagation",
               "enhanced-copy-propagation", "licm", "peephole", "peephole",
               "redundant-stores", "peephole", "dead-code" >>

\* What the code generator knows: the globals, all lowered.
KnownGlobals ==
    [Environment([EmptyProgram EXCEPT !.globals =
        [i \in DOMAIN Globals |-> GlobalDecl(Globals[i], "", LiteralExpr(0), FALSE, FALSE)]])
        EXCEPT !.lowered = Len(Globals)]

-------------------------------------------------------------------------------
(* Constant folding: what is known of every register at every instruction. *)

\* What is known of a register is a pair <<type, value>>; a register of which
\* nothing is known is outside the map.
invalidate(known, regs) == [r \in DOMAIN known \ regs |-> known[r]]

set_constant(known, r, type, value) == (r :> <<type, value>>) @@ known

\* A bug to be caught: a register that both know is kept although the two differ.
meet_constants_Mutant(into, from) == [r \in DOMAIN into \intersect DOMAIN from |-> into[r]]

meet_constants(into, from) ==
    [r \in {q \in DOMAIN into \intersect DOMAIN from : into[q] = from[q]} |-> into[r]]

\* Division by zero and of the least integer by -1 is left for run time.
try_fold_binary_op(op, l, r) ==
    IF op \in Comparisons THEN {<<"BOOL", compare_op(op, l, r)>>}
    ELSE IF op = "DIV" /\ (r = 0 \/ (r = -1 /\ l = MinInt)) THEN {}
    ELSE {<<"INT", binary_op(op, l, r)>>}

\* The constant an instruction is known to give its register, if there is one.
folds_to(instr, known) ==
    LET IsKnown(r, type) == r \in DOMAIN known /\ known[r][1] = type
        in(k) == known[instr.src[k]][2]
    IN  CASE instr.op = "LOAD_IMM"  -> {<<"INT", instr.imm>>}
          [] instr.op = "LOAD_BOOL" -> {<<"BOOL", instr.imm>>}
          [] instr.op \in BinaryOps \union Comparisons
                /\ \A r \in Range(instr.src) : IsKnown(r, "INT") ->
                    try_fold_binary_op(instr.op, in(1), in(2))
          [] instr.op = "NEG" /\ IsKnown(instr.src[1], "INT") -> {<<"INT", unary_op("NEG", in(1))>>}
          [] instr.op = "NOT" /\ IsKnown(instr.src[1], "BOOL") -> {<<"BOOL", unary_op("NOT", in(1))>>}
          [] OTHER -> {}

\* What is known after an instruction.  Loads and stores of globals forget every
\* register they name, the one stored included.
known_after(instr, known) ==
    IF instr.op = "MOVE" /\ instr.src[1] \in DOMAIN known
    THEN (instr.dst :> known[instr.src[1]]) @@ known
    ELSE IF folds_to(instr, known) # {}
    THEN LET c == CHOOSE c \in folds_to(instr, known) : TRUE
         IN  set_constant(known, instr.dst, c[1], c[2])
    ELSE IF instr.op \in {"LOAD_GLOBAL", "STORE_GLOBAL"}
    THEN invalidate(known, {instr.dst} \union Range(instr.src))
    ELSE invalidate(known, {instr.dst})

\* The instruction that replaces it: a load of its constant, a jump where a
\* branch is known to be taken, nothing where it is known not to be.
fold_instruction(instr, known) ==
    IF instr.op \in {"BRANCH_ZERO", "BRANCH_NOT_ZERO"} /\ instr.src[1] \in DOMAIN known
    THEN IF get_bool(known[instr.src[1]][2]) = (instr.op = "BRANCH_NOT_ZERO")
         THEN <<JUMP(instr.lbl)>> ELSE <<>>
    ELSE IF folds_to(instr, known) # {}
    THEN LET c == CHOOSE c \in folds_to(instr, known) : TRUE
         IN  <<IF c[1] = "INT" THEN LOAD_IMM(instr.dst, c[2]) ELSE LOAD_BOOL(instr.dst, c[2])>>
    ELSE <<instr>>

\* Forward data flow to a fixpoint.  entry[i] is what is known before
\* instruction i, over the positions visited so far.
RECURSIVE constants_at_entry(_, _, _)
constants_at_entry(code, next, entry) ==
    LET visit(e, i) ==
            IF i \notin DOMAIN e THEN e
            ELSE LET out == known_after(code[i], e[i])
                 IN  [j \in next[i] |-> IF j \in DOMAIN e THEN meet_constants(e[j], out) ELSE out] @@ e
        swept == FoldLeft(visit, entry, [i \in DOMAIN code |-> i])
    IN  IF swept = entry THEN entry ELSE constants_at_entry(code, next, swept)

\* Blocks begin at labels and behind branches, jumps and returns.
begins_block(code, i) == i = 1 \/ code[i].op = "LABEL" \/ code[i - 1].op \in IR_BRANCH \union IR_TERMINATOR

\* A block that control does not reach is folded too, from nothing.
constant_folding(code) ==
    LET entry == constants_at_entry(code, successors(code), 1 :> <<>>)
        visit(acc, i) ==
            LET known == IF i \in DOMAIN entry THEN entry[i]
                         ELSE IF begins_block(code, i) THEN <<>> ELSE acc.known
            IN  [ out |-> acc.out \o fold_instruction(code[i], known),
                  known |-> known_after(code[i], known) ]
    IN  FoldLeft(visit, [out |-> <<>>, known |-> <<>>], [i \in DOMAIN code |-> i]).out

-------------------------------------------------------------------------------
(* Unreachable code, copies and dead code. *)

\* The instructions at the given positions, in their order.
At(code, positions) ==
    FlattenSeq([i \in DOMAIN code |-> IF i \in positions THEN <<code[i]>> ELSE <<>>])

eliminate_unreachable_code(code) == At(code, reachable(code))

\* A MOVE from a register that a LOAD_IMM of the same block gave a constant
\* becomes a load of that constant.
copy_propagation(code) ==
    LET visit(acc, instr) ==
            LET kept == IF instr.op = "LABEL" THEN <<>> ELSE invalidate(acc.constants, {instr.dst})
                loads == IF instr.op = "LOAD_IMM" THEN {instr.imm}
                         ELSE IF instr.op = "MOVE" /\ instr.src[1] \in DOMAIN kept
                              THEN {kept[instr.src[1]]} ELSE {}
            IN  [ out |-> Append(acc.out,
                            IF instr.op = "MOVE" /\ loads # {}
                            THEN LOAD_IMM(instr.dst, kept[instr.src[1]]) ELSE instr),
                  constants |-> [r \in {instr.dst : k \in loads} |-> CHOOSE k \in loads : TRUE] @@ kept ]
    IN  FoldLeft(visit, [out |-> <<>>, constants |-> <<>>], code).out

register_unmodified_between(code, r, start, end) ==
    \A i \in start + 1 .. end - 1 : code[i].dst # r /\ code[i].op # "LABEL"

\* A read of a copy becomes a read of what was copied, while neither has been
\* written and control has not branched or joined.
enhanced_copy_propagation(code) ==
    LET visit(acc, i) ==
            LET instr == code[i]
                copied(r) == /\ r \in DOMAIN acc.copies
                             /\ register_unmodified_between(code, acc.copies[r].source,
                                                            acc.copies[r].def, i)
                read == [instr EXCEPT !.src = [k \in DOMAIN @ |->
                            IF copied(@[k]) THEN acc.copies[@[k]].source ELSE @[k]]]
                kept == IF ~ir_instruction_is_pure(instr) THEN <<>>
                        ELSE invalidate(acc.copies,
                                {r \in DOMAIN acc.copies :
                                    instr.dst \in {r, acc.copies[r].source}})
                copies == IF instr.op = "MOVE" /\ read.src[1] # instr.dst
                          THEN (instr.dst :> [source |-> read.src[1], def |-> i]) @@ kept
                          ELSE kept
            IN  [out |-> Append(acc.out, read), copies |-> copies]
    IN  FoldLeft(visit, [out |-> <<>>, copies |-> <<>>], [i \in DOMAIN code |-> i]).out

\* A bug to be caught: the read of a second operand is overlooked.
find_live_registers_Mutant(code) ==
    {0} \union {code[i].src[1] : i \in {j \in DOMAIN code : code[j].src # <<>>}}

find_live_registers(code) == UNION {ir_collect_read_registers(code[i]) : i \in DOMAIN code}

\* What defines a register nobody reads goes away, round after round.  The loop
\* ends when nothing is left to remove or its counter reaches the length of the
\* shrinking code.
RECURSIVE dead_code_rounds(_, _)
dead_code_rounds(code, round) ==
    LET live == find_live_registers(code)
        kept == SelectSeq(code, LAMBDA instr :
                    instr.dst = None \/ instr.dst \in live \/ ~ir_instruction_is_pure(instr))
    IN  IF round > Len(code) \/ kept = code THEN code ELSE dead_code_rounds(kept, round + 1)

eliminate_dead_code(code) == dead_code_rounds(code, 0)

-------------------------------------------------------------------------------
(* Loop-invariant code motion. *)

\* A loop is found by the first jump back to its label.  Its range is taken to
\* end at the label that the first branch after the header names.
identify_loops(code) ==
    LET labels == label_positions(code)
        BackEdges == {i \in Positions(code, {"JUMP"}) : labels[code[i].lbl] <= i}
        FirstBackEdges == {i \in BackEdges :
                            \A j \in BackEdges : code[j].lbl = code[i].lbl => i <= j}
        loop(i) ==
            LET header == labels[code[i].lbl]
                branches == Positions(code, IR_BRANCH) \intersect header .. i - 1
            IN  [ header_idx |-> header,
                  end_idx |-> IF branches = {} THEN i + 1 ELSE labels[code[Min(branches)].lbl],
                  back_edge |-> i ]
    IN  {loop(i) : i \in FirstBackEdges}

LoopRange(loop) == loop.header_idx .. loop.end_idx - 1

\* Every run of the range passes the instruction: before it there is no label,
\* no jump and no branch that stays inside.
is_unconditional_in_loop(code, i, loop) ==
    \A j \in loop.header_idx + 1 .. i - 1 :
        /\ code[j].op \notin {"LABEL"} \union IR_TERMINATOR
        /\ code[j].op \in IR_BRANCH => label_positions(code)[code[j].lbl] \notin LoopRange(loop)

\* A bug to be caught: a second definition of the register is overlooked.
can_safely_hoist_Mutant(code, i, loop) ==
    /\ \A j \in LoopRange(loop) \ {i} :
          /\ code[j].dst = None \/ code[j].dst \notin Range(code[i].src)
          /\ j < i => code[i].dst \notin ir_collect_read_registers(code[j])
    /\ is_unconditional_in_loop(code, i, loop)

\* Its inputs are not written in the range, nothing else there writes its
\* register, and nothing there reads it before.
can_safely_hoist(code, i, loop) ==
    /\ \A j \in LoopRange(loop) \ {i} :
          /\ code[j].dst = None \/ code[j].dst \notin Range(code[i].src) \union {code[i].dst}
          /\ j < i => code[i].dst \notin ir_collect_read_registers(code[j])
    /\ is_unconditional_in_loop(code, i, loop)

\* Loads of constants, and copies of a register that something before the loop
\* names first.  (A hoisted register makes no further copy invariant: it is
\* written in the range.)
invariant_instrs(code, loop) ==
    LET invariant_regs == UNION {first_operand(code[i]) : i \in 1 .. loop.header_idx - 1}
    IN  {i \in LoopRange(loop) :
            /\ code[i].op \in IR_SIMPLE_LOAD
            /\ Range(code[i].src) \subseteq invariant_regs
            /\ can_safely_hoist(code, i, loop)}

Nested(loops) ==
    \E inner, outer \in loops : inner.header_idx \in outer.header_idx + 1 .. outer.end_idx - 1

hoist(code, loop) ==
    LET moved == invariant_instrs(code, loop)
        before == 1 .. loop.header_idx - 1
    IN  At(code, before) \o At(code, moved) \o At(code, DOMAIN code \ (before \union moved))

loop_invariant_code_motion(code) ==
    LET loops == identify_loops(code)
    IN  IF Nested(loops) THEN code
        ELSE FoldLeft(hoist, code,
                      SetToSortSeq(loops, LAMBDA a, b : a.back_edge < b.back_edge))

-------------------------------------------------------------------------------
(* The peephole patterns.  Each answers {} where it does not match, else what *)
(* it puts in place of how many instructions.                                 *)

Rewrite(code, width) == {[code |-> code, width |-> width]}

is_reg_read_outside(code, r, first, last) ==
    \E i \in DOMAIN code \ first .. last : r \in ir_collect_read_registers(code[i])

\* The opcodes from position i on.
Window(code, i, n) == [k \in 1 .. IF i + n - 1 <= Len(code) THEN n ELSE 0 |-> code[i + k - 1].op]

\* An operation of two operands.
IsBinary(instr) == instr.op \in IR_ARITHMETIC /\ Len(instr.src) = 2

BranchIf == [ CMP_EQ |-> "BRANCH_EQ",   CMP_NEQ |-> "BRANCH_NEQ", CMP_LT |-> "BRANCH_LT",
              CMP_LTE |-> "BRANCH_LTE", CMP_GT |-> "BRANCH_GT",   CMP_GTE |-> "BRANCH_GTE" ]
BranchUnless == [ CMP_EQ |-> "BRANCH_NEQ", CMP_NEQ |-> "BRANCH_EQ", CMP_LT |-> "BRANCH_GTE",
                  CMP_LTE |-> "BRANCH_GT", CMP_GT |-> "BRANCH_LTE", CMP_GTE |-> "BRANCH_LT" ]

\* A bug to be caught: the fused branch still defines the comparison's register.

\* A comparison and the branch on it become one branch.
try_fuse_compare_and_branch(code, i) ==
    LET cmp == code[i]
        branch == code[i + 1]
        fused == (IF branch.op = "BRANCH_ZERO" THEN BranchUnless ELSE BranchIf)[cmp.op]
    IN  IF /\ i + 1 <= Len(code) /\ cmp.op \in Comparisons
           /\ branch.op \in {"BRANCH_ZERO", "BRANCH_NOT_ZERO"} /\ branch.src[1] = cmp.dst
           /\ ~is_reg_read_outside(code, cmp.dst, i, i + 1)
        THEN Rewrite(<<[cmp EXCEPT !.op = fused, !.dst = None, !.lbl = branch.lbl]>>, 2) ELSE {}

\* MOVE; MOVE; OP; MOVE becomes OP.
try_pattern_a(code, i) ==
    LET m1 == code[i]  m2 == code[i + 1]  op == code[i + 2]  m3 == code[i + 3]
        dead(r) == ~is_reg_read_outside(code, r, i, i + 3)
    IN  IF /\ i + 3 <= Len(code) /\ m2.op = "MOVE" /\ IsBinary(op) /\ m3.op = "MOVE"
           /\ op.src = <<m1.dst, m2.dst>> /\ m3.src[1] = op.dst
           /\ dead(m1.dst) /\ dead(m2.dst) /\ dead(op.dst)
           /\ m1.src[1] \notin {m2.dst, op.dst} /\ m2.src[1] # op.dst
        THEN Rewrite(<<[op EXCEPT !.dst = m3.dst, !.src = <<m1.src[1], m2.src[1]>>]>>, 4) ELSE {}

\* MOVE; OP; MOVE becomes OP; the copy is operand k.
try_pattern_b(code, i, k) ==
    LET m1 == code[i]  op == code[i + 1]  m2 == code[i + 2]
        dead(r) == ~is_reg_read_outside(code, r, i, i + 2)
    IN  IF /\ i + 2 <= Len(code) /\ IsBinary(op) /\ m2.op = "MOVE"
           /\ op.src[k] = m1.dst /\ m2.src[1] = op.dst
           /\ dead(m1.dst) /\ dead(op.dst) /\ op.dst # m1.src[1]
        THEN Rewrite(<<[op EXCEPT !.dst = m2.dst, !.src[k] = m1.src[1]]>>, 3) ELSE {}

\* MOVE t,v; LOAD k; OP d,t,k; MOVE v,d becomes LOAD k; OP v,v,k.
try_pattern_e(code, i) ==
    LET m1 == code[i]  load == code[i + 1]  op == code[i + 2]  m2 == code[i + 3]
        dead(r) == ~is_reg_read_outside(code, r, i, i + 3)
    IN  IF /\ i + 3 <= Len(code) /\ load.op = "LOAD_IMM" /\ IsBinary(op) /\ m2.op = "MOVE"
           /\ op.src = <<m1.dst, load.dst>> /\ m1.src[1] = m2.dst /\ m2.src[1] = op.dst
           /\ dead(m1.dst) /\ dead(op.dst)
        THEN Rewrite(<<load, [op EXCEPT !.dst = m2.dst, !.src[1] = m1.src[1]]>>, 4) ELSE {}

\* MOVE a,b; MOVE b,a goes away.
try_eliminate_move_pair(code, i) ==
    LET m1 == code[i]  m2 == code[i + 1]
    IN  IF /\ i + 1 <= Len(code) /\ m1.op = "MOVE" /\ m2.op = "MOVE"
           /\ m2.src[1] = m1.dst /\ m1.src[1] = m2.dst /\ m1.dst # m1.src[1]
           /\ ~is_reg_read_outside(code, m1.dst, i, i + 1)
        THEN Rewrite(<<>>, 2) ELSE {}

\* OP t; MOVE r,t becomes OP r.
try_fold_move_after_op(code, i) ==
    LET op == code[i]  move == code[i + 1]
    IN  IF /\ i + 1 <= Len(code) /\ op.op \in IR_ARITHMETIC /\ move.op = "MOVE"
           /\ move.src[1] = op.dst /\ ~is_reg_read_outside(code, op.dst, i, i + 1)
        THEN Rewrite(<<[op EXCEPT !.dst = move.dst]>>, 2) ELSE {}

\* A jump or branch to one of the labels right after it goes away.
try_remove_branch_to_next(code, i) ==
    IF /\ code[i].op \in IR_BRANCH \union {"JUMP"}
       /\ \E j \in i + 1 .. Len(code) : /\ code[j].lbl = code[i].lbl
                                        /\ \A k \in i + 1 .. j : code[k].op = "LABEL"
    THEN Rewrite(<<>>, 1) ELSE {}

\* The patterns at a position, in the order they are tried.
try_patterns(code, i) ==
    IF try_fuse_compare_and_branch(code, i) # {} THEN try_fuse_compare_and_branch(code, i)
    ELSE IF code[i].op = "MOVE" /\ code[i].dst = code[i].src[1] THEN Rewrite(<<>>, 1)
    ELSE LET tried == IF code[i].op = "MOVE"
                      THEN << try_pattern_a(code, i), try_pattern_b(code, i, 1),
                              try_pattern_b(code, i, 2), try_pattern_e(code, i),
                              try_eliminate_move_pair(code, i) >>
                      ELSE << try_fold_move_after_op(code, i), try_remove_branch_to_next(code, i) >>
             matched == {k \in DOMAIN tried : tried[k] # {}}
         IN  IF matched = {} THEN Rewrite(<<code[i]>>, 1) ELSE tried[Min(matched)]

RECURSIVE peephole_from(_, _)
peephole_from(code, i) ==
    IF i > Len(code) THEN <<>>
    ELSE LET r == CHOOSE r \in try_patterns(code, i) : TRUE
         IN  r.code \o peephole_from(code, i + r.width)

peephole_optimization(code) == peephole_from(code, 1)

-------------------------------------------------------------------------------
(* Redundant stores: loads and copies are held back until something reads    *)
(* them, and the ones overwritten before that are dropped.                   *)

\* pending[r] is the position of the load or copy of r that is held back.
flush_pending(code, acc) ==
    [out |-> acc.out \o At(code, Range(acc.pending)), pending |-> <<>>]

reads_pending_store(instr, pending) ==
    ir_collect_read_registers(instr) \intersect DOMAIN pending # {}

\* A bug to be caught: what an operation overwrites is held back all the same.
without_overwritten_Mutant(pending, instr) == pending

without_overwritten(pending, instr) == invalidate(pending, {instr.dst})

eliminate_redundant_stores(code) ==
    LET visit(acc, i) ==
            LET instr == code[i]
                held == IF reads_pending_store(instr, acc.pending) THEN flush_pending(code, acc) ELSE acc
            IN  IF ~ir_instruction_is_pure(instr)
                THEN [flush_pending(code, acc) EXCEPT !.out = Append(@, instr)]
                ELSE IF instr.op \in IR_SIMPLE_LOAD
                THEN IF instr.dst \in DOMAIN held.pending /\ code[held.pending[instr.dst]] = instr
                     THEN held
                     ELSE [held EXCEPT !.pending = (instr.dst :> i) @@ @]
                ELSE [ out |-> Append(held.out, instr),
                       pending |-> without_overwritten(held.pending, instr) ]
    IN  flush_pending(code, FoldLeft(visit, [out |-> <<>>, pending |-> <<>>],
                                     [i \in DOMAIN code |-> i])).out

-------------------------------------------------------------------------------
(* The compiler. *)

\* One pass of the pipeline.
run_pass(name, code) ==
    CASE name = "constant-folding"          -> constant_folding(code)
      [] name = "unreachable-code"          -> eliminate_unreachable_code(code)
      [] name = "copy-propagation"          -> copy_propagation(code)
      [] name = "enhanced-copy-propagation" -> enhanced_copy_propagation(code)
      [] name = "licm"                      -> loop_invariant_code_motion(code)
      [] name = "peephole"                  -> peephole_optimization(code)
      [] name = "redundant-stores"          -> eliminate_redundant_stores(code)
      [] name = "dead-code"                 -> eliminate_dead_code(code)

\* A function over 1 .. n, as the sequence of instructions it is.
Instructions(code) == SubSeq(code, 1, Len(code))

\* The code as the generator leaves it, and as it is after every pass; a pass that
\* is not enabled is skipped.
optimize_function(decl, selection) ==
    FoldLeft(LAMBDA codes, name :
                 Append(codes, IF name \in selection THEN Instructions(run_pass(name, Last(codes)))
                               ELSE Last(codes)),
             <<generate_function(decl, KnownGlobals).code>>, pipeline)

Init == source \in Sources /\ enabled \in Selections /\ compiled = FALSE

\* What it makes of the source, the properties say.
compile ==
    /\ ~compiled
    /\ compiled' = TRUE
    /\ UNCHANGED <<source, enabled>>

Next == compile

Spec == Init /\ [][Next]_vars

-------------------------------------------------------------------------------
(* What the source means, told from its statements alone. *)

\* A run of the statements: the variables of every block that is open, the
\* globals, and how the statements run so far ended ("run": they did not).
LookUp(m, x) ==
    LET open == {k \in DOMAIN m.blocks : x \in DOMAIN m.blocks[k]}
    IN  IF open = {} THEN m.globals[x] ELSE m.blocks[Max(open)][x]

Store(m, x, v) ==
    LET open == {k \in DOMAIN m.blocks : x \in DOMAIN m.blocks[k]}
    IN  IF open = {} THEN [m EXCEPT !.globals[x] = v] ELSE [m EXCEPT !.blocks[Max(open)][x] = v]

RECURSIVE Eval(_, _)
Eval(e, m) ==
    CASE e.expr = "literal"  -> e.val
      [] e.expr = "variable" -> LookUp(m, e.name)
      [] e.expr = "unary"    -> unary_op(e.op, Eval(e.operand, m))
      [] e.expr = "binary"   ->
            IF e.op \in Comparisons THEN compare_op(e.op, Eval(e.left, m), Eval(e.right, m))
            ELSE binary_op(e.op, Eval(e.left, m), Eval(e.right, m))
      [] e.expr = "logical"  ->
            IF get_bool(Eval(e.left, m)) = (e.op = "or") THEN (IF e.op = "or" THEN 1 ELSE 0)
            ELSE IF get_bool(Eval(e.right, m)) THEN 1 ELSE 0
      [] e.expr = "ternary"  ->
            IF get_bool(Eval(e.cond, m)) THEN Eval(e.yes, m) ELSE Eval(e.no, m)

RECURSIVE ExecBlock(_, _)

\* 2^k rounds of a loop, or fewer where it ends.
RECURSIVE ExecRounds(_, _, _)
ExecRounds(s, m, k) ==
    IF m.ended # "run" THEN m
    ELSE IF k > 0 THEN ExecRounds(s, ExecRounds(s, m, k - 1), k - 1)
    ELSE IF ~get_bool(Eval(s.cond, m)) THEN [m EXCEPT !.ended = "break"]
    ELSE LET after == ExecBlock(s.body, m)
         IN  IF after.ended = "continue" THEN [after EXCEPT !.ended = "run"] ELSE after

\* A loop that has not ended after so many rounds never does.
ExecLoop(s, m) ==
    LET last == ExecRounds(s, m, MAX_STEPS)
    IN  CASE last.ended = "break" -> [last EXCEPT !.ended = "run"]
          [] last.ended = "run"   -> [last EXCEPT !.ended = "never"]
          [] last.ended \in {"return", "never"} -> last

Exec(s, m) ==
    IF m.ended # "run" THEN m
    ELSE CASE s.stmt = "var" ->
                [m EXCEPT !.blocks[Len(m.blocks)] = (s.name :> Eval(s.value, m)) @@ @]
           [] s.stmt = "assign" -> Store(m, s.name, Eval(s.value, m))
           [] s.stmt = "return" -> [m EXCEPT !.ended = "return", !.value = Eval(s.value, m)]
           [] s.stmt = "if" -> ExecBlock(IF get_bool(Eval(s.cond, m)) THEN s.then ELSE s.else, m)
           [] s.stmt = "while" -> ExecLoop(s, m)
           [] s.stmt \in {"break", "continue"} -> [m EXCEPT !.ended = s.stmt]

ExecBlock(body, m) ==
    [FoldLeft(LAMBDA n, s : Exec(s, n), [m EXCEPT !.blocks = Append(@, <<>>)], body)
        EXCEPT !.blocks = Front(@)]

SourceMeaning(decl) ==
    [args \in [DOMAIN decl.parameters -> Arguments] |->
        LET params == [i \in DOMAIN decl.parameters |-> decl.parameters[i].name]
            start == [ blocks |-> << [x \in Range(params) |->
                                        args[CHOOSE i \in DOMAIN params : params[i] = x]] >>,
                       globals |-> [x \in Range(Globals) |-> 0], ended |-> "run", value |-> 0 ]
            end == ExecBlock(decl.body, start)
        IN  IF end.ended = "never" THEN [finished |-> FALSE, value |-> 0, globals |-> <<>>]
            ELSE [finished |-> TRUE, value |-> end.value,
                  globals |-> [i \in DOMAIN Globals |-> end.globals[Globals[i]]]]]

-------------------------------------------------------------------------------
(* Properties.  Each is about a step that compiles, and the codes it makes.  *)

\* What a function computes: the outcome of a call, for every argument.
Meaning(decl, code) ==
    [args \in [DOMAIN decl.parameters -> Arguments] |->
        call(code, args, [i \in DOMAIN Globals |-> 0])]

\* The code generator translates the source: called with any argument, the code
\* returns what the statements return and leaves the globals they leave, with
\* scopes, short circuits, early returns, breaks and continues as written.
CodeMeansTheSource ==
    [][Meaning(source, generate_function(source, KnownGlobals).code) = SourceMeaning(source)]_vars

\* Whatever a pass makes of the code, the verifier accepts it: every branch has
\* its label, once, and no register is read where some path has not defined it.
VerifierAccepts ==
    [][LET codes == optimize_function(source, enabled)
           count == generate_function(source, KnownGlobals).max_registers
       IN  \A k \in DOMAIN codes : ir_verify(codes[k], Len(source.parameters), count)]_vars

\* A load or copy may leave its loop when the range of the loop holds every jump
\* back, and no way from the header reads its register without passing it.
HoistsSafely(code) ==
    \A loop \in identify_loops(code) :
        invariant_instrs(code, loop) = {}
        \/ /\ \A i \in Positions(code, {"JUMP"}) :
                 code[i].lbl = code[loop.header_idx].lbl => i < loop.end_idx
           /\ \A i \in invariant_instrs(code, loop) :
                 ~\E j \in reach(code, successors(code), {loop.header_idx}, {loop.header_idx},
                                 code[i].dst) :
                      code[i].dst \in ir_collect_read_registers(code[j])

\* No operation writes the source of a copy before something reads or replaces
\* the copy or ends the straight line it is in.
CopiesAreReadInTime(code) ==
    \A i \in Positions(code, {"MOVE"}) : \A j \in i + 1 .. Len(code) :
        code[j].dst = code[i].src[1] /\ code[j].op \notin IR_SIMPLE_LOAD =>
            \E k \in i + 1 .. j :
                \/ ~ir_instruction_is_pure(code[k])
                \/ code[i].dst \in ir_collect_read_registers(code[k]) \union {code[k].dst}

\* What the code computes for arguments that are numbers.
OnNumbers(c) == [args \in {a \in DOMAIN c : NaN \notin Range(a)} |-> c[args]]

\* No pass changes what a run can be told by: the value returned, the globals
\* left, whether it ends.  Of the peephole pass, which turns a branch around a
\* comparison into the opposite comparison, this is said only for arguments that
\* are numbers; of hoisting for code whose loops allow it -- so the conditions the
\* pass does check, one definition, no read before it, no way around it inside the
\* range, inputs unwritten, are enough for the rest --; and of dropping stores
\* for code whose copies are read in time.
PassesKeepMeaning ==
    [][LET codes == optimize_function(source, enabled)
           means == [k \in DOMAIN codes |-> Meaning(source, codes[k])]
       IN  \A k \in DOMAIN pipeline : codes[k + 1] # codes[k] =>
               CASE pipeline[k] = "peephole" -> OnNumbers(means[k + 1]) = OnNumbers(means[k])
                 [] pipeline[k] = "licm" -> HoistsSafely(codes[k]) => means[k + 1] = means[k]
                 [] pipeline[k] = "redundant-stores" ->
                        CopiesAreReadInTime(codes[k]) => means[k + 1] = means[k]
                 [] OTHER -> means[k + 1] = means[k]]_vars

\* What the tests of the optimizer say of every pass, for the one that moves loads
\* and copies out of loops: the code computes what it computed before.
HoistingInvariance ==
    [][LET codes == optimize_function(source, enabled)
       IN  \A k \in DOMAIN pipeline : pipeline[k] = "licm" =>
               Meaning(source, codes[k + 1]) = Meaning(source, codes[k])]_vars
===============================================================================
