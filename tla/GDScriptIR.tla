------------------------------ MODULE GDScriptIR ------------------------------
(***************************************************************************)
(* The intermediate representation of the GDScript compiler                *)
(* (src/gdscript/compiler): the instructions of a function, what the       *)
(* opcode table says of each of them, the interpreter the tests compare    *)
(* code with (ir_interpreter.cpp), and the ways through the code.          *)
(*                                                                         *)
(* A function is a sequence of instructions over numbered registers.       *)
(* Values are the integers of a machine word of Width bits and one float   *)
(* that is not a number.  A boolean is the integer 0 or 1: the            *)
(* interpreter converts between the two at every use, only the constant    *)
(* folder tells them apart.  Strings, containers, calls and the host's     *)
(* Variant operations are left out, and so are the type hints the backend  *)
(* reads.                                                                  *)
(***************************************************************************)
EXTENDS Integers, Sequences, FiniteSets, Functions, SequencesExt

CONSTANTS
    Width,      \* bits of an integer; the program has 64
    NaN,        \* a float that is not a number
    MAX_STEPS   \* the interpreter gives a function 2^MAX_STEPS steps; the program 20 million

ASSUME IRAssumption == Width \in Nat \ {0} /\ MAX_STEPS \in Nat /\ NaN \notin Int

None == -1

MAX_PARAMETERS == 7   \* of a function: registers for the addresses of arguments

FLOAT_UNIT == 4    \* where floats have values, a float is a number of quarters

MinInt == -(2 ^ (Width - 1))
MaxInt == 2 ^ (Width - 1) - 1
Ints == MinInt .. MaxInt

\* Two's complement arithmetic wraps around.
Wrap(i) == ((i - MinInt) % (2 ^ Width)) + MinInt

-------------------------------------------------------------------------------
(* Instructions and what the opcode table says of them. *)

\* dst: the register the instruction defines; src: those it reads, in the order
\* of its operands; imm: its constant, the index of a global or a name; lbl: its
\* label, for a SWITCH its labels; hint: the type it takes its operands to have.
Instr(op, dst, src, imm, lbl) ==
    [op |-> op, dst |-> dst, src |-> src, imm |-> imm, lbl |-> lbl, hint |-> "NONE"]

LOAD_IMM(dst, k) == Instr("LOAD_IMM", dst, <<>>, k, None)
LOAD_BOOL(dst, k) == Instr("LOAD_BOOL", dst, <<>>, k, None)
MOVE(dst, src) == Instr("MOVE", dst, <<src>>, 0, None)
LABEL(lbl) == Instr("LABEL", None, <<>>, 0, lbl)
JUMP(lbl) == Instr("JUMP", None, <<>>, 0, lbl)
RETURN == Instr("RETURN", None, <<>>, 0, None)

Comparisons == {"CMP_EQ", "CMP_NEQ", "CMP_LT", "CMP_LTE", "CMP_GT", "CMP_GTE"}
BinaryOps == {"ADD", "SUB", "DIV"}
FusedBranches == {"BRANCH_EQ", "BRANCH_NEQ", "BRANCH_LT", "BRANCH_LTE", "BRANCH_GT", "BRANCH_GTE"}

IR_BRANCH == {"BRANCH_ZERO", "BRANCH_NOT_ZERO"} \union FusedBranches
IR_TERMINATOR == {"JUMP", "RETURN"}
IR_ARITHMETIC == BinaryOps \union Comparisons \union {"NEG"}
IR_SIMPLE_LOAD == {"LOAD_IMM", "LOAD_BOOL", "MOVE"}
ControlFlow == {"LABEL"} \union IR_BRANCH \union IR_TERMINATOR
IR_SIDE_EFFECTS == ControlFlow \union {"STORE_GLOBAL"}
Opcodes == IR_SIMPLE_LOAD \union IR_ARITHMETIC \union IR_SIDE_EFFECTS \union {"NOT", "LOAD_GLOBAL"}

ir_instruction_is_pure(instr) == instr.op \notin IR_SIDE_EFFECTS

\* A RETURN names no operand and reads the return register r0.
ir_collect_read_registers(instr) == IF instr.op = "RETURN" THEN {0} ELSE Range(instr.src)

\* The register that is an instruction's first operand: what it defines, or
\* what a branch tests.
first_operand(instr) ==
    IF instr.dst # None THEN {instr.dst}
    ELSE IF instr.op \in IR_BRANCH THEN {instr.src[1]} ELSE {}

Positions(code, Ops) == {i \in DOMAIN code : code[i].op \in Ops}

\* Where each label is.
label_positions(code) ==
    LET at == {<<code[i].lbl, i>> : i \in Positions(code, {"LABEL"})}
    IN  [l \in {p[1] : p \in at} |-> (CHOOSE p \in at : p[1] = l)[2]]

\* The labels an instruction may go to.
target_labels(instr) ==
    CASE instr.op = "SWITCH" -> Range(instr.lbl)
      [] instr.op \in IR_BRANCH \union {"JUMP"} -> {instr.lbl}
      [] OTHER -> {}

\* Where control may go from each instruction: to the labels it names and,
\* unless it is a terminator, to the next instruction.
successors(code) ==
    LET labels == label_positions(code)
    IN  [i \in DOMAIN code |->
            {labels[l] : l \in target_labels(code[i]) \intersect DOMAIN labels}
            \union (IF code[i].op \in IR_TERMINATOR THEN {} ELSE {i + 1} \intersect DOMAIN code)]

-------------------------------------------------------------------------------
(* The interpreter. *)

get_bool(v) == v # 0      \* a NaN is true

\* Division truncates towards zero and answers 0 for a zero divisor.
Quotient(l, r) ==
    IF r = 0 THEN 0
    ELSE LET abs(i) == IF i < 0 THEN -i ELSE i
             q == abs(l) \div abs(r)
         IN  Wrap(IF (l < 0) = (r < 0) THEN q ELSE -q)

binary_op(op, l, r) ==
    IF NaN \in {l, r} THEN NaN
    ELSE CASE op = "ADD" -> Wrap(l + r)
           [] op = "SUB" -> Wrap(l - r)
           [] op = "DIV" -> Quotient(l, r)

\* Every ordered comparison with a NaN is false, and so is equality.
compares(op, l, r) ==
    IF NaN \in {l, r} THEN op = "CMP_NEQ"
    ELSE CASE op = "CMP_EQ"  -> l = r
           [] op = "CMP_NEQ" -> l # r
           [] op = "CMP_LT"  -> l < r
           [] op = "CMP_LTE" -> l <= r
           [] op = "CMP_GT"  -> l > r
           [] op = "CMP_GTE" -> l >= r

compare_op(op, l, r) == IF compares(op, l, r) THEN 1 ELSE 0

CompareOf == [ BRANCH_EQ |-> "CMP_EQ",   BRANCH_NEQ |-> "CMP_NEQ", BRANCH_LT |-> "CMP_LT",
               BRANCH_LTE |-> "CMP_LTE", BRANCH_GT |-> "CMP_GT",   BRANCH_GTE |-> "CMP_GTE" ]

unary_op(op, v) ==
    CASE op = "NEG" -> IF v = NaN THEN NaN ELSE Wrap(-v)
      [] op = "NOT" -> IF get_bool(v) THEN 0 ELSE 1

\* The value an instruction gives the register it defines.
defined_value(instr, run) ==
    LET in(k) == run.registers[instr.src[k]]
    IN  CASE instr.op \in {"LOAD_IMM", "LOAD_BOOL"} -> instr.imm
          [] instr.op = "MOVE"           -> in(1)
          [] instr.op \in BinaryOps      -> binary_op(instr.op, in(1), in(2))
          [] instr.op \in Comparisons    -> compare_op(instr.op, in(1), in(2))
          [] instr.op \in {"NEG", "NOT"} -> unary_op(instr.op, in(1))
          [] instr.op = "LOAD_GLOBAL"    -> run.globals[instr.imm]

branch_taken(instr, registers) ==
    CASE instr.op = "JUMP"            -> TRUE
      [] instr.op = "BRANCH_ZERO"     -> ~get_bool(registers[instr.src[1]])
      [] instr.op = "BRANCH_NOT_ZERO" -> get_bool(registers[instr.src[1]])
      [] instr.op \in FusedBranches   ->
            compares(CompareOf[instr.op], registers[instr.src[1]], registers[instr.src[2]])

\* One step of a run: [pc, registers, globals, returned, return_value].
execute_instruction(code, labels, run) ==
    LET instr == code[run.pc]
    IN  CASE instr.op = "RETURN" -> [run EXCEPT !.returned = TRUE, !.return_value = run.registers[0]]
          [] instr.op = "LABEL"  -> [run EXCEPT !.pc = @ + 1]
          [] instr.op \in IR_BRANCH \union {"JUMP"} ->
                [run EXCEPT !.pc = IF branch_taken(instr, run.registers)
                                   THEN labels[instr.lbl] ELSE @ + 1]
          [] instr.op = "STORE_GLOBAL" ->
                [run EXCEPT !.pc = @ + 1, !.globals[instr.imm] = run.registers[instr.src[1]]]
          [] OTHER ->
                [run EXCEPT !.pc = @ + 1, !.registers[instr.dst] = defined_value(instr, run)]

ended(code, run) == run.returned \/ run.pc > Len(code)

\* 2^k steps, or fewer where the function returns or falls off its end.
RECURSIVE execute_function(_, _, _, _)
execute_function(code, labels, run, k) ==
    IF ended(code, run) THEN run
    ELSE IF k = 0 THEN execute_instruction(code, labels, run)
    ELSE LET half == execute_function(code, labels, run, k - 1)
         IN  IF ended(code, half) THEN half ELSE execute_function(code, labels, half, k - 1)

Registers(code) == UNION {Range(code[i].src) \union {code[i].dst} : i \in DOMAIN code}

\* A call: the parameters are in the first registers, every other one reads 0.
\* What it returns and the globals it leaves are all that two runs can be told
\* apart by.
call(code, args, globals) ==
    LET start == [ pc |-> 1, globals |-> globals, returned |-> FALSE, return_value |-> 0,
                   registers |-> [r \in {0} \union Registers(code) |->
                                    IF r + 1 \in DOMAIN args THEN args[r + 1] ELSE 0] ]
        run == execute_function(code, label_positions(code), start, MAX_STEPS)
    IN  IF ended(code, run)
        THEN [finished |-> TRUE, value |-> run.return_value, globals |-> run.globals]
        ELSE [finished |-> FALSE, value |-> 0, globals |-> <<>>]   \* step limit exceeded

-------------------------------------------------------------------------------
(* Ways through the code. *)

\* The positions control reaches without passing a definition of the register.
RECURSIVE reach(_, _, _, _, _)
reach(code, next, front, seen, r) ==
    IF front = {} THEN seen
    ELSE LET past == {i \in front : r = None \/ code[i].dst # r}
             new == UNION {next[i] : i \in past} \ seen
         IN  reach(code, next, new, seen \union new, r)

reachable(code) == reach(code, successors(code), {1}, {1}, None)
===============================================================================
