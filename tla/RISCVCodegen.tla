----------------------------- MODULE RISCVCodegen -----------------------------
(***************************************************************************)
(* The back end of the GDScript compiler (riscv_codegen.cpp): instructions *)
(* over registers become a program for the RISC-V machine of the sandbox.  *)
(*                                                                         *)
(* Every register of a function is a Variant of 24 bytes in the frame of   *)
(* the function: a tag of four bytes, and at 8 the value itself or, of     *)
(* what only the host can hold, a number the host knows it by.  A function *)
(* is called with the address of its result in a0 and the addresses of its *)
(* arguments in a1 to a7.                                                  *)
(*                                                                         *)
(* The encoding of instructions is left out: an immediate has any size, an *)
(* address is a number of bytes, and a place in the program is a number of *)
(* instructions.  The characters of names are not copied to the stack, the *)
(* space for them is.  Labels are kept apart by the function they are in,  *)
(* where the code has one map from names: it takes a function named like a *)
(* label that the compiler makes (else_0) for that label, and no function  *)
(* has such a name here.  Of the functions that print there is only the    *)
(* one without a channel, print.                                           *)
(***************************************************************************)
EXTENDS GDScriptCodegen

CONSTANTS BRANCH_REACH   \* how many instructions a branch may go; the program has 1024

ASSUME BackEndAssumption == BRANCH_REACH \in Nat /\ BRANCH_REACH > 2

Tags == [ NIL |-> 0, BOOL |-> 1, INT |-> 2, FLOAT |-> 3, STRING |-> 4, VECTOR2 |-> 5,
          VECTOR2I |-> 6, OBJECT |-> 24, DICTIONARY |-> 27, ARRAY |-> 28 ]

variant_size == 24
VARIANT_DATA_OFFSET == 8
COMPONENT_SIZE == 4        \* of an int32_t and of a real_t
component_offset(k) == VARIANT_DATA_OFFSET + (k - 1) * COMPONENT_SIZE

SAVED_RA_OFFSET == 0
SAVED_A0_OFFSET == 8
SAVED_REG_SPACE == 16
SCRATCH_VARIANT_SLOTS == 2

ArgumentRegisters == <<"a1", "a2", "a3", "a4", "a5", "a6", "a7">>

AlignTo16(n) == ((n + 15) \div 16) * 16

-------------------------------------------------------------------------------
(* Instructions of the machine: what they define, read, their immediate and   *)
(* the place they go to.                                                      *)

NoLabel == <<>>

Asm(op, rd, rs1, rs2, imm, lbl) ==
    [op |-> op, rd |-> rd, rs1 |-> rs1, rs2 |-> rs2, imm |-> imm, lbl |-> lbl]

emit_li(rd, k) == <<Asm("li", rd, "zero", "zero", k, NoLabel)>>
emit_li_double(rd, f) == <<Asm("li.d", rd, "zero", "zero", f, NoLabel)>>
emit_add_offset(rd, base, k) == <<Asm("addi", rd, base, "zero", k, NoLabel)>>
emit_mv(rd, rs) == emit_add_offset(rd, rs, 0)
emit_xori(rd, rs, k) == <<Asm("xori", rd, rs, "zero", k, NoLabel)>>
emit_unary(op, rd, rs) == <<Asm(op, rd, rs, "zero", 0, NoLabel)>>
emit_alu(op, rd, rs1, rs2) == <<Asm(op, rd, rs1, rs2, 0, NoLabel)>>
emit_load(op, rd, base, offset) == <<Asm(op, rd, base, "zero", offset, NoLabel)>>
emit_store(op, rs, base, offset) == <<Asm(op, "zero", base, rs, offset, NoLabel)>>
emit_branch(op, rs1, rs2, lbl) == <<Asm(op, "zero", rs1, rs2, 0, lbl)>>
emit_jal(rd, lbl) == <<Asm("jal", rd, "zero", "zero", 0, lbl)>>
emit_jalr(rd, rs, k) == <<Asm("jalr", rd, rs, "zero", k, NoLabel)>>
emit_la(rd, k) == <<Asm("la", rd, "zero", "zero", k, NoLabel)>>
\* What stands for a pointer to characters, or for a number the host gives a name.
emit_text(rd, s) == <<Asm("li.text", rd, "zero", "zero", s, NoLabel)>>
emit_ecall(name) == emit_text("a7", name) \o <<Asm("ecall", "zero", "zero", "zero", 0, NoLabel)>>
define_label(lbl) == <<Asm("label", "zero", "zero", "zero", 0, lbl)>>
emit_ret == emit_jalr("zero", "ra", 0)
STOP == <<Asm("stop", "zero", "zero", "zero", 0, NoLabel)>>

\* Slots of the data segment, counted from 1.
emit_address_of_global(rd, i) == emit_la(rd, (i - 1) * variant_size)

emit_load_variant_type(rd, base, offset) == emit_load("lw", rd, base, offset)
emit_store_variant_type(rs, base, offset) == emit_store("sw", rs, base, offset)
emit_load_variant_int(rd, base, offset) == emit_load("ld", rd, base, offset + VARIANT_DATA_OFFSET)
emit_store_variant_int(rs, base, offset) == emit_store("sd", rs, base, offset + VARIANT_DATA_OFFSET)
\* A bool is one byte: the rest of its payload is what was there.
emit_load_variant_bool(rd, base, offset) == emit_load("lbu", rd, base, offset + VARIANT_DATA_OFFSET)
emit_store_variant_bool(rs, base, offset) == emit_store("sb", rs, base, offset + VARIANT_DATA_OFFSET)

Tagged(type, rd, base, offset) == emit_li(rd, Tags[type]) \o emit_store_variant_type(rd, base, offset)

emit_variant_create_int(offset, k, base) ==
    Tagged("INT", "t0", base, offset) \o emit_li("t0", k) \o emit_store_variant_int("t0", base, offset)
emit_variant_create_float(offset, f, base) ==
    Tagged("FLOAT", "t0", base, offset) \o emit_li_double("t0", f)
        \o emit_store("sd", "t0", base, offset + VARIANT_DATA_OFFSET)
emit_variant_create_bool(offset, k, base) ==
    Tagged("BOOL", "t0", base, offset) \o emit_li("t0", k) \o emit_store_variant_bool("t0", base, offset)

emit_variant_move(dst, dst_offset, src, src_offset, tmp) ==
    FlattenSeq([k \in 1 .. variant_size \div 8 |->
        emit_load("ld", tmp, src, src_offset + (k - 1) * 8) \o emit_store("sd", tmp, dst, dst_offset + (k - 1) * 8)])

-------------------------------------------------------------------------------
(* Frames. *)

\* Instructions that neither call anything nor ask the host: a0 stays what it is.
FrameLocal == { "LOAD_IMM", "LOAD_FLOAT_IMM", "LOAD_BOOL", "LOAD_NIL", "LOAD_GLOBAL", "MOVE",
                "TYPE_TEST", "TYPE_OF", "LABEL", "SWITCH", "JUMP", "RETURN" }
opcode_clobbers_abi_registers(op) == op \notin FrameLocal

\* Parameters some path reads before it writes them; a RETURN reads r0.
find_live_parameters(code, params) ==
    LET next == successors(code)
    IN  {p \in 0 .. params - 1 :
            \E i \in reach(code, next, {1}, {1}, p) : p \in ir_collect_read_registers(code[i])}

\* The instructions that give r0 the value the next one returns, which nothing
\* after them in the code reads: they write to the result of the call instead.
\* Every later RETURN reads r0, so only the last instruction but one can be.
find_return_forwarding(code) ==
    {i \in 1 .. Len(code) - 1 :
        /\ code[i + 1].op = "RETURN"
        /\ code[i].op \in {"LOAD_IMM", "LOAD_FLOAT_IMM", "LOAD_BOOL", "LOAD_NIL", "LOAD_GLOBAL", "MOVE"}
        /\ code[i].dst = 0 /\ 0 \notin ir_collect_read_registers(code[i])
        /\ \A j \in i + 2 .. Len(code) : 0 \notin ir_collect_read_registers(code[j])}

\* A function that saves nothing, copies no parameter and writes only its result
\* has no frame.
OmitsFrame(code, max_registers, forward) ==
    \A i \in DOMAIN code :
        \/ code[i].op \in {"LABEL", "JUMP"}
        \/ code[i].op = "RETURN" /\ (max_registers = 0 \/ i - 1 \in forward)
        \/ code[i].op \in {"LOAD_IMM", "LOAD_FLOAT_IMM", "LOAD_BOOL", "LOAD_NIL", "LOAD_GLOBAL"} /\ i \in forward

\* A bug to be caught: there is no room for the scratch Variants.
frame_size_Mutant(max_registers) == AlignTo16(SAVED_REG_SPACE + max_registers * variant_size)

frame_size(max_registers) ==
    AlignTo16(SAVED_REG_SPACE + (max_registers + SCRATCH_VARIANT_SLOTS) * variant_size)

\* What the frame of a function is made from: its code alone.
plan_frame(f, types) ==
    LET code == f.code
        max_registers == Max({-1, f.params - 1} \union Registers(code)) + 1
        spills  == \E i \in DOMAIN code : opcode_clobbers_abi_registers(code[i].op)
        calls   == Positions(code, {"CALL"}) # {}
        forward == find_return_forwarding(code)
        live    == find_live_parameters(code, f.params)
        omits   == ~calls /\ ~spills /\ live = {} /\ OmitsFrame(code, max_registers, forward)
    IN  [ name |-> f.name, code |-> code, params |-> f.params, global_types |-> types,
          max_registers |-> max_registers, spills_return_pointer |-> spills,
          saves_return_address |-> calls, forward_to_return |-> forward, live_params |-> live,
          omits_frame |-> omits,
          stack_frame_size |-> IF omits THEN 0 ELSE frame_size(max_registers) ]

get_variant_stack_offset(r) == SAVED_REG_SPACE + r * variant_size
get_scratch_variant_offset(fn, k) == SAVED_REG_SPACE + (fn.max_registers + k) * variant_size

emit_prologue(fn) ==
    (IF fn.stack_frame_size = 0 THEN <<>> ELSE emit_add_offset("sp", "sp", -fn.stack_frame_size))
    \o (IF fn.saves_return_address THEN emit_store("sd", "ra", "sp", SAVED_RA_OFFSET) ELSE <<>>)
    \o (IF fn.spills_return_pointer THEN emit_store("sd", "a0", "sp", SAVED_A0_OFFSET) ELSE <<>>)
    \o FlattenSeq([k \in 1 .. fn.params |->
            IF k - 1 \notin fn.live_params THEN <<>>
            ELSE emit_variant_move("sp", get_variant_stack_offset(k - 1), ArgumentRegisters[k], 0, "t0")])

\* A bug to be caught: a0 is taken to be what it was at the call.
emit_load_return_pointer_Mutant(fn) == <<>>

emit_load_return_pointer(fn) ==
    IF fn.spills_return_pointer THEN emit_load("ld", "a0", "sp", SAVED_A0_OFFSET) ELSE <<>>

\* Where the i-th instruction of a function leaves its result, and the code that
\* has to run before.
value_destination(fn, i) ==
    IF i \in fn.forward_to_return
    THEN [base |-> "a0", offset |-> 0, before |-> emit_load_return_pointer(fn)]
    ELSE [base |-> "sp", offset |-> get_variant_stack_offset(fn.code[i].dst), before |-> <<>>]

\* Labels: of a function, of an instruction in it, and of what that is made of.
Function(name) == <<name>>
Local(fn, i, name) == <<fn.name, i, name>>
Place(fn, lbl) == <<fn.name, lbl>>

-------------------------------------------------------------------------------
(* Values. *)

emit_variant_eval(dst, lhs, rhs, op) ==
    emit_text("a0", op) \o emit_add_offset("a1", "sp", lhs) \o emit_add_offset("a2", "sp", rhs)
        \o emit_add_offset("a3", "sp", dst) \o emit_ecall("VEVAL")

\* The host has operators of one operand only for a second one that is null.
emit_variant_eval_unary(fn, dst, operand, op) ==
    LET nil == get_scratch_variant_offset(fn, 1)
    IN  Tagged("NIL", "t0", "sp", nil) \o emit_variant_eval(dst, operand, nil, op)

\* Whether a value is true, into rd.  Of a type that is not known, or that keeps
\* its value with the host, the host decides.
emit_variant_truthy(fn, rd, offset, hint) ==
    LET scratch == get_scratch_variant_offset(fn, 0)
    IN  CASE hint = "NIL"  -> emit_li(rd, 0)
          [] hint = "BOOL" -> emit_load_variant_bool(rd, "sp", offset)
          [] hint = "INT"  -> emit_load_variant_int(rd, "sp", offset) \o emit_unary("snez", rd, rd)
          [] hint = "FLOAT" -> \* shifted by one, a negative zero is zero
                emit_load_variant_int(rd, "sp", offset) \o emit_unary("slli1", rd, rd)
                    \o emit_unary("snez", rd, rd)
          [] OTHER -> emit_variant_eval_unary(fn, scratch, offset, "NOT")
                    \o emit_load_variant_bool(rd, "sp", scratch) \o emit_unary("seqz", rd, rd)

emit_branch_unless_both_int(lhs, rhs, slow, require_non_negative) ==
    emit_load("lwu", "t0", "sp", lhs) \o emit_load("lwu", "t1", "sp", rhs)
    \o emit_xori("t0", "t0", Tags["INT"]) \o emit_xori("t1", "t1", Tags["INT"])
    \o emit_alu("or", "t0", "t0", "t1") \o emit_branch("bne", "t0", "zero", slow)
    \o (IF ~require_non_negative THEN <<>>
        ELSE emit_load_variant_int("t0", "sp", lhs) \o emit_load_variant_int("t1", "sp", rhs)
             \o emit_alu("or", "t0", "t0", "t1") \o emit_branch("blt", "t0", "zero", slow))

IntInstruction == [ ADD |-> "add", SUB |-> "sub", MUL |-> "mul", DIV |-> "div", MOD |-> "rem",
                    BIT_AND |-> "and", BIT_OR |-> "or", BIT_XOR |-> "xor", SHL |-> "sll", SHR |-> "sra" ]
FloatInstruction == [ADD |-> "fadd", SUB |-> "fsub", MUL |-> "fmul", DIV |-> "fdiv"]

emit_typed_int_binary_op(dst, lhs, rhs, op) ==
    emit_load_variant_int("t0", "sp", lhs) \o emit_load_variant_int("t1", "sp", rhs)
    \o emit_alu(IntInstruction[op], "t2", "t0", "t1")
    \o Tagged("INT", "t0", "sp", dst) \o emit_store_variant_int("t2", "sp", dst)

emit_typed_float_binary_op(dst, lhs, rhs, op) ==
    emit_load("fld", "fa0", "sp", lhs + VARIANT_DATA_OFFSET)
    \o emit_load("fld", "fa1", "sp", rhs + VARIANT_DATA_OFFSET)
    \o emit_alu(FloatInstruction[op] \o ".d", "fa2", "fa0", "fa1")
    \o Tagged("FLOAT", "t0", "sp", dst) \o emit_store("fsd", "fa2", "sp", dst + VARIANT_DATA_OFFSET)

\* One component after the other; the tag last.
emit_typed_vector_binary_op(dst, lhs, rhs, op, type) ==
    LET of_int(o) == emit_load("lw", "t0", "sp", lhs + o) \o emit_load("lw", "t1", "sp", rhs + o)
                     \o emit_alu(IntInstruction[op], "t2", "t0", "t1") \o emit_store("sw", "t2", "sp", dst + o)
        of_real(o) == emit_load("flw", "fa0", "sp", lhs + o) \o emit_load("flw", "fa1", "sp", rhs + o)
                      \o emit_alu(FloatInstruction[op] \o ".s", "fa2", "fa0", "fa1")
                      \o emit_store("fsw", "fa2", "sp", dst + o)
        at(k) == IF ComponentType(type) = "INT" THEN of_int(component_offset(k)) ELSE of_real(component_offset(k))
    IN  at(1) \o at(2) \o Tagged(type, "t0", "sp", dst)

\* Operations for which unknown operands are tried as integers first.
has_int_fast_path(op) == op \in {"ADD", "SUB", "MUL", "BIT_AND", "BIT_OR", "BIT_XOR", "SHL", "SHR"}

gen_binary_op(fn, i) ==
    LET instr == fn.code[i]
        dst == get_variant_stack_offset(instr.dst)
        lhs == get_variant_stack_offset(instr.src[1])
        rhs == get_variant_stack_offset(instr.src[2])
        native == instr.op \notin {"POW", "IN"}
        host == Local(fn, i, "veval")
        done == Local(fn, i, "veval_done")
        eval == emit_variant_eval(dst, lhs, rhs, instr.op)
    IN  CASE native /\ instr.hint = "INT"   -> emit_typed_int_binary_op(dst, lhs, rhs, instr.op)
          [] native /\ instr.hint = "FLOAT" -> emit_typed_float_binary_op(dst, lhs, rhs, instr.op)
          [] native /\ instr.hint \in Range(InlineTypes) ->
                emit_typed_vector_binary_op(dst, lhs, rhs, instr.op, instr.hint)
          [] native /\ instr.hint = "NONE" /\ has_int_fast_path(instr.op) ->
                emit_branch_unless_both_int(lhs, rhs, host, instr.op \in {"SHL", "SHR"})
                \o emit_typed_int_binary_op(dst, lhs, rhs, instr.op) \o emit_jal("zero", done)
                \o define_label(host) \o eval \o define_label(done)
          [] OTHER -> eval

\* 0 or 1 in t2 for t0 and t1.
IntComparison ==
    [ CMP_EQ  |-> emit_alu("xor", "t2", "t0", "t1") \o emit_unary("seqz", "t2", "t2"),
      CMP_NEQ |-> emit_alu("xor", "t2", "t0", "t1") \o emit_unary("snez", "t2", "t2"),
      CMP_LT  |-> emit_alu("slt", "t2", "t0", "t1"),
      CMP_LTE |-> emit_alu("slt", "t2", "t1", "t0") \o emit_xori("t2", "t2", 1),
      CMP_GT  |-> emit_alu("slt", "t2", "t1", "t0"),
      CMP_GTE |-> emit_alu("slt", "t2", "t0", "t1") \o emit_xori("t2", "t2", 1) ]

emit_typed_int_comparison(dst, lhs, rhs, op) ==
    emit_load_variant_int("t0", "sp", lhs) \o emit_load_variant_int("t1", "sp", rhs)
    \o IntComparison[op] \o Tagged("BOOL", "t0", "sp", dst) \o emit_store_variant_bool("t2", "sp", dst)

gen_comparison(fn, i) ==
    LET instr == fn.code[i]
        dst == get_variant_stack_offset(instr.dst)
        lhs == get_variant_stack_offset(instr.src[1])
        rhs == get_variant_stack_offset(instr.src[2])
    IN  IF instr.hint = "INT" THEN emit_typed_int_comparison(dst, lhs, rhs, instr.op)
        ELSE emit_variant_eval(dst, lhs, rhs, instr.op)

emit_int_fused_branch(op, lhs, rhs, lbl) ==
    emit_load_variant_int("t0", "sp", lhs) \o emit_load_variant_int("t1", "sp", rhs)
    \o CASE op = "BRANCH_EQ"  -> emit_branch("beq", "t0", "t1", lbl)
         [] op = "BRANCH_NEQ" -> emit_branch("bne", "t0", "t1", lbl)
         [] op = "BRANCH_LT"  -> emit_branch("blt", "t0", "t1", lbl)
         [] op = "BRANCH_LTE" -> emit_branch("bge", "t1", "t0", lbl)
         [] op = "BRANCH_GT"  -> emit_branch("blt", "t1", "t0", lbl)
         [] op = "BRANCH_GTE" -> emit_branch("bge", "t0", "t1", lbl)

\* A comparison and a branch in one: no Variant holds what it finds.
gen_fused_branch(fn, i) ==
    LET instr == fn.code[i]
        lhs == get_variant_stack_offset(instr.src[1])
        rhs == get_variant_stack_offset(instr.src[2])
        tmp == get_scratch_variant_offset(fn, 0)
        host == Local(fn, i, "vcmp")
        done == Local(fn, i, "vcmp_done")
        fused == emit_int_fused_branch(instr.op, lhs, rhs, Place(fn, instr.lbl))
    IN  IF instr.hint = "INT" THEN fused
        ELSE emit_branch_unless_both_int(lhs, rhs, host, FALSE) \o fused \o emit_jal("zero", done)
             \o define_label(host) \o emit_variant_eval(tmp, lhs, rhs, CompareOf[instr.op])
             \o emit_load_variant_bool("t0", "sp", tmp)
             \o emit_branch("bne", "t0", "zero", Place(fn, instr.lbl)) \o define_label(done)

\* Negation and inversion are operations with a constant, except for the integer.
gen_unary_op(fn, i) ==
    LET instr == fn.code[i]
        dst == get_variant_stack_offset(instr.dst)
        src == get_variant_stack_offset(instr.src[1])
        scratch == get_scratch_variant_offset(fn, 0)
    IN  CASE instr.op = "BIT_NOT" /\ instr.hint = "INT" ->
                emit_load_variant_int("t0", "sp", src) \o emit_xori("t1", "t0", -1)
                \o Tagged("INT", "t0", "sp", dst) \o emit_store_variant_int("t1", "sp", dst)
          [] instr.op = "BIT_NOT" /\ instr.hint # "INT" ->
                emit_variant_create_int(scratch, -1, "sp") \o emit_variant_eval(dst, src, scratch, "BIT_XOR")
          [] instr.op = "NEG" ->
                emit_variant_create_int(scratch, 0, "sp") \o emit_variant_eval(dst, scratch, src, "SUB")
          [] instr.op = "NOT" -> emit_variant_eval_unary(fn, dst, src, "NOT")

\* A bool is read as one byte.
gen_convert(fn, i) ==
    LET instr == fn.code[i]
        dst == get_variant_stack_offset(instr.dst)
        src == get_variant_stack_offset(instr.src[1])
    IN  (IF instr.imm = "BOOL" THEN emit_load_variant_bool("t0", "sp", src)
         ELSE emit_load_variant_int("t0", "sp", src))
        \o IF instr.hint = "FLOAT"
           THEN emit_unary("fcvt.d.l", "fa0", "t0") \o Tagged("FLOAT", "t1", "sp", dst)
                \o emit_store("fsd", "fa0", "sp", dst + VARIANT_DATA_OFFSET)
           ELSE Tagged("INT", "t1", "sp", dst) \o emit_store_variant_int("t0", "sp", dst)

-------------------------------------------------------------------------------
(* Components. *)

\* The component of a float vector a value becomes: what is no integer is taken
\* for a float.
emit_variant_component_to_real(fn, i, k, value, at) ==
    LET float == <<fn.name, i, "float", k>>
        cont  == <<fn.name, i, "cont", k>>
    IN  emit_load("lwu", "t0", "sp", value) \o emit_add_offset("t1", "t0", -Tags["INT"])
        \o emit_branch("bne", "t1", "zero", float)
        \o emit_load_variant_int("t0", "sp", value) \o emit_unary("fcvt.d.l", "fa0", "t0")
        \o emit_unary("fcvt.s.d", "fa0", "fa0") \o emit_jal("zero", cont)
        \o define_label(float) \o emit_load("fld", "fa0", "sp", value + VARIANT_DATA_OFFSET)
        \o emit_unary("fcvt.s.d", "fa0", "fa0")
        \o define_label(cont) \o emit_store("fsw", "fa0", "sp", at)

emit_variant_component_to_int(fn, i, value, at) ==
    LET cont == Local(fn, i, "icont")
    IN  emit_load("lwu", "t0", "sp", value) \o emit_load_variant_int("t1", "sp", value)
        \o emit_add_offset("t0", "t0", -Tags["INT"]) \o emit_branch("beq", "t0", "zero", cont)
        \o emit_load("fld", "fa0", "sp", value + VARIANT_DATA_OFFSET) \o emit_unary("fcvt.l.d", "t1", "fa0")
        \o define_label(cont) \o emit_store("sw", "t1", "sp", at)

Component(member) == IF member = "x" THEN 1 ELSE 2

\* The components of an integer vector are the low halves of whatever the values
\* hold.
gen_make_vector(fn, i) ==
    LET instr == fn.code[i]
        dst   == get_variant_stack_offset(instr.dst)
        value(k) == get_variant_stack_offset(instr.src[k])
    IN  Tagged(instr.hint, "t0", "sp", dst)
        \o FlattenSeq([k \in DOMAIN instr.src |->
                IF instr.hint = "VECTOR2I"
                THEN emit_load("lw", "t0", "sp", value(k) + VARIANT_DATA_OFFSET)
                     \o emit_store("sw", "t0", "sp", dst + component_offset(k))
                ELSE emit_variant_component_to_real(fn, i, k, value(k), dst + component_offset(k))])

gen_vget_inline(fn, i) ==
    LET instr == fn.code[i]
        dst == get_variant_stack_offset(instr.dst)
        at  == get_variant_stack_offset(instr.src[1]) + component_offset(Component(instr.imm[2]))
    IN  IF ComponentType(instr.imm[1]) = "INT"
        THEN emit_load("lw", "t0", "sp", at) \o Tagged("INT", "t1", "sp", dst)
             \o emit_store_variant_int("t0", "sp", dst)
        ELSE emit_load("flw", "fa0", "sp", at) \o emit_unary("fcvt.d.s", "fa0", "fa0")
             \o Tagged("FLOAT", "t0", "sp", dst) \o emit_store("fsd", "fa0", "sp", dst + VARIANT_DATA_OFFSET)

gen_vset_inline(fn, i) ==
    LET instr == fn.code[i]
        obj   == get_variant_stack_offset(instr.src[1])
        value == get_variant_stack_offset(instr.src[2])
        at    == obj + component_offset(Component(instr.imm[2]))
    IN  Tagged(instr.imm[1], "t0", "sp", obj)
        \o IF ComponentType(instr.imm[1]) = "INT" THEN emit_variant_component_to_int(fn, i, value, at)
           ELSE emit_variant_component_to_real(fn, i, 1, value, at)

-------------------------------------------------------------------------------
(* Strings, containers, calls and globals. *)

NameSpace == 16      \* on the stack, for the characters of a name
StringSpace == 32    \* and for those of a string and the record that describes it

\* The address of the Variant to be made is taken past what is on the stack.
emit_variant_create_string(offset, text) ==
    emit_add_offset("sp", "sp", -StringSpace)
    \o emit_text("t0", text) \o emit_store("sd", "t0", "sp", NameSpace)
    \o emit_add_offset("a0", "sp", offset + StringSpace) \o emit_li("a1", Tags["STRING"])
    \o emit_li("a2", 1) \o emit_add_offset("a3", "sp", NameSpace) \o emit_ecall("VCREATE")
    \o emit_add_offset("sp", "sp", StringSpace)

ArgumentSpace(regs) == AlignTo16(Len(regs) * variant_size)

\* Variants in a row below the frame, which has moved away by their size.
CopyArguments(regs) ==
    emit_add_offset("sp", "sp", -ArgumentSpace(regs))
    \o FlattenSeq([k \in DOMAIN regs |->
            emit_variant_move("sp", (k - 1) * variant_size,
                              "sp", get_variant_stack_offset(regs[k]) + ArgumentSpace(regs), "t0")])

emit_vcreate_syscall(type, method, result) ==
    emit_add_offset("a0", "sp", result) \o emit_li("a1", Tags[type]) \o emit_li("a2", method)
    \o emit_ecall("VCREATE")

\* An empty container, or one made from the Variants of its elements, in a row.
gen_make_container(fn, i, type) ==
    LET instr == fn.code[i]
        dst   == get_variant_stack_offset(instr.dst)
        space == ArgumentSpace(instr.src)
    IN  IF instr.src = <<>>
        THEN emit_mv("a3", "zero") \o emit_vcreate_syscall(type, 0, dst)
        ELSE CopyArguments(instr.src) \o emit_mv("a3", "sp")
             \o emit_vcreate_syscall(type, Len(instr.src), dst + space)
             \o emit_add_offset("sp", "sp", space)

gen_vcall(fn, i) ==
    LET instr == fn.code[i]
        args  == Tail(instr.src)
        space == ArgumentSpace(args)
    IN  (IF args = <<>> THEN emit_mv("a3", "zero") ELSE CopyArguments(args) \o emit_mv("a3", "sp"))
        \o emit_add_offset("a0", "sp", get_variant_stack_offset(instr.src[1]) + space)
        \o emit_add_offset("sp", "sp", -NameSpace)
        \o emit_text("a1", instr.imm) \o emit_li("a4", Len(args))
        \o emit_add_offset("a5", "sp", get_variant_stack_offset(instr.dst) + space + NameSpace)
        \o emit_ecall("VCALL") \o emit_add_offset("sp", "sp", NameSpace + space)

gen_print(fn, i) ==
    LET instr == fn.code[i]
        space == ArgumentSpace(instr.src)
    IN  (IF instr.src = <<>>
         THEN emit_mv("a0", "zero") \o emit_li("a1", 0) \o emit_ecall("PRINT")
         ELSE CopyArguments(instr.src) \o emit_mv("a0", "sp") \o emit_li("a1", Len(instr.src))
              \o emit_ecall("PRINT") \o emit_add_offset("sp", "sp", space))
        \o Tagged("NIL", "t0", "sp", get_variant_stack_offset(instr.dst))

gen_throw == emit_add_offset("sp", "sp", -StringSpace) \o emit_ecall("THROW")
             \o emit_add_offset("sp", "sp", StringSpace)

\* Members of objects, by name: a call of the host that puts the member into, or
\* takes it from, a Variant of the frame.
MemberCall(fn, i, value, syscall) ==
    LET instr == fn.code[i]
    IN  emit_load_variant_int("a0", "sp", get_variant_stack_offset(instr.src[1]))
        \o emit_add_offset("sp", "sp", -NameSpace) \o emit_text("a1", instr.imm)
        \o emit_add_offset("a3", "sp", get_variant_stack_offset(value) + NameSpace)
        \o emit_ecall(syscall) \o emit_add_offset("sp", "sp", NameSpace)

gen_property_get(fn, i) == MemberCall(fn, i, fn.code[i].dst, "OBJ_PROP_GET")
gen_property_set(fn, i) == MemberCall(fn, i, fn.code[i].src[2], "OBJ_PROP_SET")

\* The number the host knows the container by, and not all of the payload.
ContainerIndex(rd, r) == emit_load("lw", rd, "sp", get_variant_stack_offset(r) + VARIANT_DATA_OFFSET)
AddressOf(rd, r) == emit_add_offset(rd, "sp", get_variant_stack_offset(r))

emit_syscall_result(type, offset) ==
    Tagged(type, "t0", "sp", offset) \o emit_store_variant_int("a0", "sp", offset)

\* What is passed by address: the key, if there is one, and the result or value.
DictionaryOp(op, dict, passed) ==
    emit_text("a0", op) \o ContainerIndex("a1", dict)
    \o FlattenSeq([k \in DOMAIN passed |-> AddressOf(<<"a2", "a3">>[k], passed[k])])
    \o emit_ecall("DICTIONARY_OPS")

\* An operation with a key leaves its result where a3 says, one without where a2
\* does, except those that answer in a0.
gen_call_syscall(fn, i) ==
    LET instr == fn.code[i]
        dst   == get_variant_stack_offset(instr.dst)
    IN  CASE instr.imm = "ARRAY_SIZE" ->
                ContainerIndex("a0", instr.src[1]) \o emit_ecall("ARRAY_SIZE") \o emit_syscall_result("INT", dst)
          [] instr.imm = "ARRAY_AT" ->
                ContainerIndex("a0", instr.src[1])
                \o emit_load_variant_int("a1", "sp", get_variant_stack_offset(instr.src[2]))
                \o AddressOf("a2", instr.dst) \o emit_ecall("ARRAY_AT")
          [] instr.imm = "DICT_GET" -> DictionaryOp("GET", instr.src[1], <<instr.src[2], instr.dst>>)
          [] instr.imm = "DICT_HAS" -> DictionaryOp("HAS", instr.src[1], <<instr.src[2], instr.dst>>)
                                       \o emit_syscall_result("BOOL", dst)
          [] instr.imm = "DICT_SIZE" ->
                DictionaryOp("GET_SIZE", instr.src[1], <<instr.dst>>) \o emit_syscall_result("INT", dst)
          [] instr.imm = "DICT_KEYS" -> DictionaryOp("GET_KEYS", instr.src[1], <<instr.dst>>)

OUT_OF_RANGE == 2 ^ (Width \div 2 - 1) - 1   \* the largest int32_t

\* A negative index counts from the end.  The host takes a negative number for a
\* store, so what is still negative becomes an index no array has.
emit_array_element_access(fn, i, array, index, value, is_set) ==
    LET in_range == Local(fn, i, "array_index")
    IN  ContainerIndex("a0", array) \o emit_load_variant_int("a1", "sp", get_variant_stack_offset(index))
        \o emit_branch("bge", "a1", "zero", in_range)
        \o emit_ecall("ARRAY_SIZE") \o emit_alu("add", "a1", "a1", "a0") \o ContainerIndex("a0", array)
        \o emit_branch("bge", "a1", "zero", in_range) \o emit_li("a1", OUT_OF_RANGE)
        \o define_label(in_range)
        \o (IF is_set THEN emit_xori("a1", "a1", -1) ELSE <<>>)
        \o AddressOf("a2", value) \o emit_ecall("ARRAY_AT")

gen_array_append(fn, i) ==
    LET instr == fn.code[i]
    IN  emit_text("a0", "PUSH_BACK") \o ContainerIndex("a1", instr.src[1]) \o emit_li("a2", 0)
        \o AddressOf("a3", instr.src[2]) \o emit_ecall("ARRAY_OPS")
        \o Tagged("NIL", "t0", "sp", get_variant_stack_offset(instr.dst))

gen_array_access(fn, i) ==
    LET src == fn.code[i].src
    IN  IF fn.code[i].op = "ARRAY_SET"
        THEN emit_array_element_access(fn, i, src[1], src[2], src[3], TRUE)
        ELSE emit_array_element_access(fn, i, src[1], src[2], fn.code[i].dst, FALSE)

gen_key_set(fn, i) == LET src == fn.code[i].src IN DictionaryOp("SET", src[1], <<src[2], src[3]>>)

\* Types the host keeps the values of.
is_complex_variant_type(type) == type \in {"STRING", "ARRAY", "DICTIONARY", "OBJECT"}

\* A bug to be caught: a global takes over the number of whatever is stored.
gen_store_global_Mutant(fn, i) ==
    emit_address_of_global("t0", fn.code[i].imm) \o AddressOf("t1", fn.code[i].src[1])
        \o emit_variant_move("t0", 0, "t1", 0, "t2")

\* A global of a type the host keeps the values of, or of no known type, is
\* assigned through the host: the numbers of both values go there, and the number
\* that comes back is kept beside the tag of the new value.
gen_store_global(fn, i) ==
    LET instr == fn.code[i]
        type  == fn.global_types[instr.imm]
        start == emit_address_of_global("t0", instr.imm) \o AddressOf("t1", instr.src[1])
    IN  start \o
        IF type # "NONE" /\ ~is_complex_variant_type(type) THEN emit_variant_move("t0", 0, "t1", 0, "t2")
        ELSE emit_load("lw", "a0", "t0", VARIANT_DATA_OFFSET) \o emit_load("lw", "a1", "t1", VARIANT_DATA_OFFSET)
             \o emit_load("lw", "t2", "t1", 0) \o emit_store("sw", "t2", "t0", 0)
             \o emit_ecall("VASSIGN") \o emit_store_variant_int("a0", "t0", 0)

gen_function_call(fn, i) ==
    LET instr == fn.code[i]
    IN  FlattenSeq([k \in DOMAIN instr.src |-> AddressOf(ArgumentRegisters[k], instr.src[k])])
        \o AddressOf("a0", instr.dst) \o emit_jal("ra", Function(instr.imm))

-------------------------------------------------------------------------------
(* Control. *)

\* A table of jumps the subject is an index of.  A comparison without signs finds
\* what is below the first as well as what is past the last.
gen_switch(fn, i) ==
    LET instr == fn.code[i]
        past_table == Local(fn, i, "out")
        subject == get_variant_stack_offset(instr.src[1])
    IN  (IF instr.hint = "INT" THEN <<>>
         ELSE emit_load_variant_type("t0", "sp", subject) \o emit_li("t1", Tags["INT"])
              \o emit_branch("bne", "t0", "t1", past_table))
        \o emit_load_variant_int("t0", "sp", subject)
        \o (IF instr.imm = 0 THEN <<>> ELSE emit_add_offset("t0", "t0", -instr.imm))
        \o emit_li("t1", Len(instr.lbl)) \o emit_branch("bgeu", "t0", "t1", past_table)
        \o emit_unary("auipc", "t1", "zero") \o emit_alu("sh2add", "t0", "t0", "t1") \o emit_jalr("zero", "t0", 3)
        \o FlattenSeq([k \in DOMAIN instr.lbl |-> emit_jal("zero", Place(fn, instr.lbl[k]))])
        \o define_label(past_table)

gen_function_return(fn, i) ==
    LET copy == emit_load_return_pointer(fn)
                \o emit_variant_move("a0", 0, "sp", get_variant_stack_offset(0), "t0")
    IN  (IF i - 1 \in fn.forward_to_return \/ fn.max_registers = 0 THEN <<>> ELSE copy)
        \o (IF fn.saves_return_address THEN emit_load("ld", "ra", "sp", SAVED_RA_OFFSET) ELSE <<>>)
        \o (IF fn.stack_frame_size = 0 THEN <<>> ELSE emit_add_offset("sp", "sp", fn.stack_frame_size))
        \o emit_ret

gen_branch(fn, i) ==
    LET instr == fn.code[i]
    IN  emit_variant_truthy(fn, "t2", get_variant_stack_offset(instr.src[1]), instr.hint)
        \o emit_branch(IF instr.op = "BRANCH_ZERO" THEN "beq" ELSE "bne", "t2", "zero", Place(fn, instr.lbl))

gen_load_global(fn, i) ==
    LET to == value_destination(fn, i)
    IN  emit_address_of_global("t0", fn.code[i].imm) \o to.before
        \o emit_variant_move(to.base, to.offset, "t0", 0, "t1")

\* Loads, copies and tests, of which the result may be the result of the call.
gen_load(fn, i) ==
    LET instr == fn.code[i]
        to    == value_destination(fn, i)
        src   == get_variant_stack_offset(instr.src[1])
    IN  CASE instr.op = "LOAD_IMM"   -> to.before \o emit_variant_create_int(to.offset, instr.imm, to.base)
          [] instr.op = "LOAD_FLOAT_IMM" -> to.before \o emit_variant_create_float(to.offset, instr.imm, to.base)
          [] instr.op = "LOAD_BOOL"  -> to.before \o emit_variant_create_bool(to.offset, instr.imm, to.base)
          [] instr.op = "LOAD_NIL"   -> to.before \o Tagged("NIL", "t0", to.base, to.offset)
          [] instr.op = "LOAD_GLOBAL" -> gen_load_global(fn, i)
          [] instr.op = "MOVE" /\ instr.dst = instr.src[1] -> <<>>
          [] instr.op = "MOVE" /\ instr.dst # instr.src[1] ->
                to.before \o emit_variant_move(to.base, to.offset, "sp", src, "t0")
          [] instr.op = "TYPE_TEST" ->
                emit_load_variant_type("t0", "sp", src) \o emit_xori("t0", "t0", Tags[instr.imm])
                \o emit_unary("seqz", "t0", "t0") \o to.before
                \o emit_store_variant_bool("t0", to.base, to.offset) \o Tagged("BOOL", "t1", to.base, to.offset)
          [] instr.op = "TYPE_OF" ->
                emit_load_variant_type("t0", "sp", src) \o to.before
                \o emit_store_variant_int("t0", to.base, to.offset) \o Tagged("INT", "t1", to.base, to.offset)

gen_instruction(fn, i) ==
    LET instr == fn.code[i]
    IN  CASE instr.op = "LABEL"  -> define_label(Place(fn, instr.lbl))
          [] instr.op = "JUMP"   -> emit_jal("zero", Place(fn, instr.lbl))
          [] instr.op = "RETURN" -> gen_function_return(fn, i)
          [] instr.op = "SWITCH" -> gen_switch(fn, i)
          [] instr.op \in {"BRANCH_ZERO", "BRANCH_NOT_ZERO"} -> gen_branch(fn, i)
          [] instr.op \in FusedBranches -> gen_fused_branch(fn, i)
          [] instr.op \in FrameLocal \ (ControlFlow \union {"SWITCH"}) -> gen_load(fn, i)
          [] instr.op \in DOMAIN IntInstruction \union {"POW", "IN"} -> gen_binary_op(fn, i)
          [] instr.op \in Comparisons -> gen_comparison(fn, i)
          [] instr.op \in {"NEG", "NOT", "BIT_NOT"} -> gen_unary_op(fn, i)
          [] instr.op = "CONVERT"      -> gen_convert(fn, i)
          [] instr.op = "LOAD_STRING"  ->
                emit_variant_create_string(get_variant_stack_offset(instr.dst), instr.imm)
          [] instr.op = "STORE_GLOBAL" -> gen_store_global(fn, i)
          [] instr.op = "ARRAY_APPEND" -> gen_array_append(fn, i)
          [] instr.op \in {"ARRAY_GET", "ARRAY_SET"} -> gen_array_access(fn, i)
          [] instr.op = "DICT_SET"     -> gen_key_set(fn, i)
          [] instr.op = "CALL_SYSCALL" -> gen_call_syscall(fn, i)
          [] instr.op = "VCALL"        -> gen_vcall(fn, i)
          [] instr.op = "CALL"         -> gen_function_call(fn, i)
          [] instr.op = "PRINT"        -> gen_print(fn, i)
          [] instr.op = "THROW"        -> gen_throw
          [] instr.op = "VGET"         -> gen_property_get(fn, i)
          [] instr.op = "VSET"         -> gen_property_set(fn, i)
          [] instr.op = "VGET_INLINE"  -> gen_vget_inline(fn, i)
          [] instr.op = "VSET_INLINE"  -> gen_vset_inline(fn, i)
          [] instr.op \in {"MAKE_VECTOR2", "MAKE_VECTOR2I"} -> gen_make_vector(fn, i)
          [] instr.op = "MAKE_ARRAY"      -> gen_make_container(fn, i, "ARRAY")
          [] instr.op = "MAKE_DICTIONARY" -> gen_make_container(fn, i, "DICTIONARY")

gen_function(f, types) ==
    LET fn == plan_frame(f, types)
    IN  define_label(Function(f.name)) \o emit_prologue(fn)
        \o FlattenSeq([i \in DOMAIN f.code |-> gen_instruction(fn, i)])

-------------------------------------------------------------------------------
(* Programs. *)

\* What the data of a global is made of before anything else runs; a global that
\* is computed keeps an empty slot.
gen_global(global, i) ==
    LET slot == emit_address_of_global("t0", i)
        create(method, pointer) == emit_mv("a0", "t0") \o emit_li("a1", Tags[global.init[1].type])
                                   \o emit_li("a2", method) \o pointer \o emit_ecall("VCREATE")
        c == global.init[1]
    IN  IF global.init = <<>> THEN <<>>
        ELSE slot \o
             CASE c.type \in {"INT", "BOOL"} ->
                    Tagged(c.type, "t1", "t0", 0) \o emit_li("t1", c.val) \o emit_store_variant_int("t1", "t0", 0)
               [] c.type = "FLOAT" ->
                    Tagged("FLOAT", "t1", "t0", 0) \o emit_li_double("t1", c.val)
                    \o emit_store_variant_int("t1", "t0", 0)
               [] c.type = "STRING" ->
                    emit_add_offset("sp", "sp", -StringSpace) \o emit_text("t2", c.val)
                    \o emit_store("sd", "t2", "sp", NameSpace)
                    \o create(1, emit_add_offset("a3", "sp", NameSpace))
                    \o emit_add_offset("sp", "sp", StringSpace)
               [] c.type \in {"ARRAY", "DICTIONARY"} -> create(0, emit_li("a3", 0))
               [] c.type = "NIL" -> Tagged("NIL", "t1", "t0", 0)

\* A property is told to the host with the type of its global.
gen_property(global, i) ==
    IF ~global.is_property THEN <<>>
    ELSE emit_text("a1", global.name)
         \o emit_li("a3", IF global.value_type = "NONE" THEN Tags["NIL"] ELSE Tags[global.value_type])
         \o emit_address_of_global("a6", i) \o emit_ecall("SANDBOX_ADD")

GLOBAL_INIT_LABEL == ".global_init"
HasGlobalInit(ir) == ir.global_init # <<>>

\* Globals that are computed are computed before the properties are told, by a
\* function of which the result goes to a slot past the globals.
gen_program(ir) ==
    LET types == [i \in DOMAIN ir.globals |-> ir.globals[i].value_type]
        init  == [name |-> GLOBAL_INIT_LABEL, params |-> 0, code |-> ir.global_init]
    IN  FlattenSeq([i \in DOMAIN ir.globals |-> gen_global(ir.globals[i], i)])
        \o (IF HasGlobalInit(ir)
            THEN emit_address_of_global("a0", Len(ir.globals) + 1) \o emit_jal("ra", Function(GLOBAL_INIT_LABEL)) ELSE <<>>)
        \o FlattenSeq([i \in DOMAIN ir.globals |-> gen_property(ir.globals[i], i)]) \o STOP
        \o (IF HasGlobalInit(ir) THEN gen_function(init, types) ELSE <<>>)
        \o FlattenSeq([i \in DOMAIN ir.functions |-> gen_function(ir.functions[i], types)])

\* The slots of the data: one for every global, and one for the result of the
\* function that computes them.
GlobalSlots(ir) == Len(ir.globals) + (IF HasGlobalInit(ir) THEN 1 ELSE 0)

-------------------------------------------------------------------------------
(* Places in the program. *)

\* Instructions without the labels, and the place of every label.
Layout(items) ==
    LET marks == {k \in DOMAIN items : items[k].op = "label"}
        place(k) == k - Cardinality({j \in marks : j < k})
    IN  [ code   |-> SelectSeq(items, LAMBDA item : item.op # "label"),
          labels |-> [l \in {items[k].lbl : k \in marks} |-> place(CHOOSE k \in marks : items[k].lbl = l)] ]

Inverse_condition == [ beq |-> "bne", bne |-> "beq", blt |-> "bge", bge |-> "blt", bgeu |-> "bltu" ]
Branches == DOMAIN Inverse_condition

Reaches(image, i) ==
    image.code[i].lbl = NoLabel \/ image.labels[image.code[i].lbl] - i \in -BRANCH_REACH .. BRANCH_REACH - 1

TooFar(image) == {i \in DOMAIN image.code : image.code[i].op \in Branches /\ ~Reaches(image, i)}

\* The opposite branch around a jump to the label; everything behind moves.
insert_jump(image, i) ==
    LET branch == image.code[i]
        inverted == [branch EXCEPT !.op = Inverse_condition[@], !.lbl = NoLabel, !.imm = 2]
    IN  [ code   |-> SubSeq(image.code, 1, i - 1) \o <<inverted>> \o emit_jal("zero", branch.lbl)
                     \o SubSeq(image.code, i + 1, Len(image.code)),
          labels |-> [l \in DOMAIN image.labels |->
                        IF image.labels[l] > i THEN image.labels[l] + 1 ELSE image.labels[l]] ]

\* One branch at a time, until every branch reaches its label.
RECURSIVE relax_branches(_)
relax_branches(image) ==
    IF TooFar(image) = {} THEN image ELSE relax_branches(insert_jump(image, Min(TooFar(image))))

\* The machine code of a program: instructions, where the labels are, and how many
\* slots its data has.
generate_code(ir) ==
    LET image == relax_branches(Layout(gen_program(ir)))
    IN  [code |-> image.code, labels |-> image.labels, slots |-> GlobalSlots(ir)]
===============================================================================
