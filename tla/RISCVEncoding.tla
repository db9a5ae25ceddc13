------------------------------ MODULE RISCVEncoding ------------------------------
(***************************************************************************)
(* The words of the machine code that the back end of the GDScript         *)
(* compiler writes (riscv_codegen.cpp, from emit_word to emit_li and from  *)
(* emit_load_with_offset to emit_sext_w): one instruction of the back end  *)
(* at a time, and the displacement it is given once labels have addresses. *)
(*                                                                         *)
(* A word, an immediate and what a register holds are the sets of the bits *)
(* that are 1, so that all have their true widths.  RISCVCodegen has the   *)
(* same instructions by their names; here a machine that knows only the    *)
(* encodings of the RISC-V manuals is asked what the words do.             *)
(***************************************************************************)
EXTENDS Integers, Sequences, FiniteSets, SequencesExt, TLC

CONSTANTS
    Requests,          \* what the code generator asks for, see Request
    Displacements      \* from the use of a label to the label, as bits

VARIABLE double_precision   \* of the layout: real_t is a double

XLEN == 64
Wide == 0 .. XLEN - 1

(* A request names its instruction, its registers and its immediate.       *)
Request(op, rd, rs1, rs2, imm) == [op |-> op, rd |-> rd, rs1 |-> rs1, rs2 |-> rs2, imm |-> imm]

REG_ZERO == 0
REG_WIDE_SCRATCH == 31    \* t6

\* The register for wide offsets is nobody else's.
ASSUME EncodingAssumption ==
    /\ \A d \in Displacements : d \subseteq Wide
    /\ \A q \in Requests : /\ {q.rd, q.rs1, q.rs2} \subseteq 0 .. REG_WIDE_SCRATCH - 1
                          /\ q.imm \subseteq Wide

-------------------------------------------------------------------------------
(* Bits. *)

\* A number in two's complement.
Bits(n) == {k \in Wide : IF k > 30 THEN n < 0 ELSE (n \div 2 ^ k) % 2 = 1}

Low(b, count) == b \cap (0 .. count - 1)
Left(b, places) == {k + places : k \in b}
\* So many bits from one on, and the same with the sign in front of them.
Slice(b, from, count) == {k - from : k \in b \cap (from .. from + count - 1)}
Signed(b, count) == Low(b, count) \cup (IF count - 1 \in b THEN count .. XLEN - 1 ELSE {})

\* A carry reaches a place from the last one below where both bits are the same.
Carry(a, b, k) == \E i \in a \cap b : /\ i < k
                                      /\ \A j \in i + 1 .. k - 1 : (j \in a) # (j \in b)
Plus(a, b) == {k \in Wide : (k \in a) # ((k \in b) # Carry(a, b, k))}

-------------------------------------------------------------------------------
(* The formats.  An encoder gives the words it writes, and no word at all    *)
(* when it throws.                                                         *)

Refused == << {-1} >>
Value(n, at) == Left(Bits(n), at)

emit_r_type(opcode, rd, funct3, rs1, rs2, funct7) ==
    << UNION {Value(opcode, 0), Value(rd, 7), Value(funct3, 12), Value(rs1, 15), Value(rs2, 20), Value(funct7, 25)} >>

emit_r4_type(opcode, rd, funct3, rs1, rs2, rs3, funct2) ==
    << UNION {Value(opcode, 0), Value(rd, 7), Value(funct3, 12), Value(rs1, 15), Value(rs2, 20), Value(funct2, 25),
              Value(rs3, 27)} >>

\* All bits from the sign on are the sign.
fits_in_signed(value, bits) ==
    LET rest == (bits - 1) .. (XLEN - 1) IN rest \subseteq value \/ rest \cap value = {}

I_TYPE_IMM_BITS == 12
S_TYPE_IMM_BITS == 12
B_TYPE_IMM_BITS == 13
J_TYPE_IMM_BITS == 21

check_displacement(offset, bits) == 0 \notin offset /\ fits_in_signed(offset, bits)

emit_i_type(opcode, rd, funct3, rs1, imm) ==
    IF ~fits_in_signed(imm, I_TYPE_IMM_BITS) THEN Refused
    ELSE << UNION {Value(opcode, 0), Value(rd, 7), Value(funct3, 12), Value(rs1, 15), Left(Low(imm, 12), 20)} >>

emit_s_type(opcode, funct3, rs1, rs2, imm) ==
    IF ~fits_in_signed(imm, S_TYPE_IMM_BITS) THEN Refused
    ELSE << UNION {Value(opcode, 0), Left(Slice(imm, 0, 5), 7), Value(funct3, 12), Value(rs1, 15), Value(rs2, 20),
                   Left(Slice(imm, 5, 7), 25)} >>

emit_b_type(opcode, funct3, rs1, rs2, imm) ==
    IF ~check_displacement(imm, B_TYPE_IMM_BITS) THEN Refused
    ELSE << UNION {Value(opcode, 0), Left(Slice(imm, 11, 1), 7), Left(Slice(imm, 1, 4), 8), Value(funct3, 12),
                   Value(rs1, 15), Value(rs2, 20), Left(Slice(imm, 5, 6), 25), Left(Slice(imm, 12, 1), 31)} >>

emit_u_type(opcode, rd, imm) ==
    IF Low(imm, 12) # {} THEN Refused
    ELSE << UNION {Value(opcode, 0), Value(rd, 7), imm \cap (12 .. 31)} >>

emit_j_type(opcode, rd, imm) ==
    IF ~check_displacement(imm, J_TYPE_IMM_BITS) THEN Refused
    ELSE << UNION {Value(opcode, 0), Value(rd, 7), Left(Slice(imm, 12, 8), 12), Left(Slice(imm, 11, 1), 20),
                   Left(Slice(imm, 1, 10), 21), Left(Slice(imm, 20, 1), 31)} >>

-------------------------------------------------------------------------------
(* The instructions. *)

\* Without regard to the sign of the low 12 bits.
Upper_Mutant(imm) == Slice(Signed(imm, 32), 12, XLEN - 12)

\* What is above the low 12 bits, of which the instruction after takes the signed
\* value: an int of 32 bits, which wraps.
Upper(imm) == Slice(Signed(Plus(imm, Bits(\h800)), 32), 12, XLEN - 12)

LOCAL emit_li(rd, imm) ==
    LET lower == Signed(imm, 12)
        lui   == emit_u_type(\h37, rd, Left(Low(Upper(imm), 20), 12))
    IN  IF fits_in_signed(imm, I_TYPE_IMM_BITS) THEN emit_i_type(\h13, rd, 0, REG_ZERO, imm)
        ELSE IF fits_in_signed(imm, 32)
        THEN lui \o (IF lower # {} \/ Upper(imm) = {} THEN emit_i_type(\h13, rd, 0, rd, lower) ELSE <<>>)
        ELSE emit_u_type(\h17, rd, {}) \o emit_i_type(\h03, rd, 3, rd, {})   \* .LC, among the constants

emit_add(rd, rs1, rs2) == emit_r_type(\h33, rd, 0, rs1, rs2, 0)
emit_addi(rd, rs1, imm) == emit_i_type(\h13, rd, 0, rs1, imm)

\* The base must be there when it is added.
LOCAL emit_add_offset(rd, base, offset) ==
    LET temp == IF rd = base THEN REG_WIDE_SCRATCH ELSE rd
    IN  IF fits_in_signed(offset, I_TYPE_IMM_BITS) THEN emit_addi(rd, base, offset)
        ELSE emit_li(temp, offset) \o emit_add(rd, base, temp)

emit_load_with_offset(opcode, funct3, rd, rs1, offset) ==
    IF fits_in_signed(offset, I_TYPE_IMM_BITS) THEN emit_i_type(opcode, rd, funct3, rs1, offset)
    ELSE emit_add_offset(REG_WIDE_SCRATCH, rs1, offset) \o emit_i_type(opcode, rd, funct3, REG_WIDE_SCRATCH, {})

emit_store_with_offset(opcode, funct3, rs2, rs1, offset) ==
    IF fits_in_signed(offset, S_TYPE_IMM_BITS) THEN emit_s_type(opcode, funct3, rs1, rs2, offset)
    ELSE emit_add_offset(REG_WIDE_SCRATCH, rs1, offset) \o emit_s_type(opcode, funct3, REG_WIDE_SCRATCH, rs2, {})

Loads  == [ ld  |-> <<\h03, 3>>, lw |-> <<\h03, 2>>, lwu |-> <<\h03, 6>>, lh |-> <<\h03, 1>>, lb |-> <<\h03, 0>>,
            lbu |-> <<\h03, 4>>, fld |-> <<\h07, 3>>, flw |-> <<\h07, 2>> ]
Stores == [ sd |-> <<\h23, 3>>, sw |-> <<\h23, 2>>, sh |-> <<\h23, 1>>, sb |-> <<\h23, 0>>,
            fsd |-> <<\h27, 3>>, fsw |-> <<\h27, 2>> ]

\* funct3 and funct7 of the integer instructions on two registers.
ALU == [ add |-> <<0, 0>>, sub |-> <<0, \h20>>, mul |-> <<0, 1>>, div |-> <<4, 1>>, rem |-> <<6, 1>>,
         and |-> <<7, 0>>, or |-> <<6, 0>>, xor |-> <<4, 0>>, sll |-> <<1, 0>>, srl |-> <<5, 0>>, sra |-> <<5, \h20>>,
         slt |-> <<2, 0>>, sh2add |-> <<4, \b0010000>> ]

\* Of the floating point instructions on two registers, and of those on one
\* also what is in the place of the second.
FPU == [ op \in {"fadd.d", "fsub.d", "fmul.d", "fdiv.d", "flt.d", "feq.d", "fadd.s", "fsub.s", "fmul.s", "fdiv.s"} |->
            CASE op = "fadd.d" -> <<0, \h01>> [] op = "fsub.d" -> <<0, \h05>> [] op = "fmul.d" -> <<0, \h09>>
              [] op = "fdiv.d" -> <<0, \h0D>> [] op = "fadd.s" -> <<0, \h00>> [] op = "fsub.s" -> <<0, \h04>>
              [] op = "fmul.s" -> <<0, \h08>> [] op = "fdiv.s" -> <<0, \h0C>>
              [] op = "flt.d" -> <<\b001, \b1010001>> [] op = "feq.d" -> <<\b010, \b1010001>> ]
emit_fcvt_d_s(rd, rs1) == emit_r4_type(\b1010011, rd, 0, rs1, 0, \b01000, 1)
emit_fcvt_s_d(rd, rs1) == emit_r4_type(\b1010011, rd, 0, rs1, 1, \b01000, 0)
emit_fcvt_d_l(rd, rs1) == emit_r4_type(\b1010011, rd, 0, rs1, 2, \b11010, 1)
emit_fcvt_l_d(rd, rs1) == emit_r_type(\h53, rd, \b001, rs1, \b00010, \b1100001)
emit_fmv_d(rd, rs) == emit_r4_type(\h53, rd, 0, rs, rs, \b00100, 1)
emit_fmv_s(rd, rs) == emit_r4_type(\h53, rd, 0, rs, rs, \b00100, 0)
emit_fsqrt_d(rd, rs1) == emit_r_type(\h53, rd, 0, rs1, 0, \b0101101)
emit_fabs_d(rd, rs1) == emit_r_type(\h53, rd, \b010, rs1, rs1, \b0010001)

\* At the width of real_t.
Real(op) == op \o (IF double_precision THEN ".d" ELSE ".s")
emit_move_unless_same(rd, rs1) == IF rd # rs1 THEN emit_fmv_d(rd, rs1) ELSE <<>>
emit_fcvt_d_r(rd, rs1) == IF double_precision THEN emit_move_unless_same(rd, rs1) ELSE emit_fcvt_d_s(rd, rs1)
emit_fcvt_r_d(rd, rs1) == IF double_precision THEN emit_move_unless_same(rd, rs1) ELSE emit_fcvt_s_d(rd, rs1)

emit_srai(rd, rs, shamt) == emit_i_type(\h13, rd, 5, rs, Bits(\b010000 * 2 ^ 6) \cup Low(shamt, 6))
emit_slli(rd, rs, shamt) == emit_i_type(\h13, rd, 1, rs, Low(shamt, 8))

BranchCodes == [beq |-> 0, bne |-> 1, blt |-> 4, bge |-> 5, bltu |-> 6, bgeu |-> 7]
\* Everything the code generator asks for, by the name of its function; what
\* names a label is written with no displacement.
emit(q) ==
    LET load(op)  == emit_load_with_offset(Loads[op][1], Loads[op][2], q.rd, q.rs1, q.imm)
        store(op) == emit_store_with_offset(Stores[op][1], Stores[op][2], q.rs2, q.rs1, q.imm)
        fpu(op)   == emit_r_type(\h53, q.rd, FPU[op][1], q.rs1, q.rs2, FPU[op][2])
    IN  CASE q.op \in DOMAIN ALU -> emit_r_type(\h33, q.rd, ALU[q.op][1], q.rs1, q.rs2, ALU[q.op][2])
          [] q.op \in DOMAIN FPU -> fpu(q.op)
          [] q.op \in {"fadd", "fsub", "fmul", "fdiv"} -> fpu(Real(q.op))
          [] q.op \in DOMAIN Loads  -> load(q.op)
          [] q.op \in DOMAIN Stores -> store(q.op)
          [] q.op = "flr" -> load(IF double_precision THEN "fld" ELSE "flw")
          [] q.op = "fsr" -> store(IF double_precision THEN "fsd" ELSE "fsw")
          [] q.op \in DOMAIN BranchCodes -> emit_b_type(\h63, BranchCodes[q.op], q.rs1, q.rs2, {})
          [] q.op = "jal"     -> emit_j_type(\h6F, q.rd, {})
          [] q.op = "la"      -> emit_u_type(\h17, q.rd, {}) \o emit_i_type(\h13, q.rd, 0, q.rd, {})
          [] q.op = "jalr"    -> emit_i_type(\h67, q.rd, 0, q.rs1, q.imm)
          [] q.op = "li"      -> emit_li(q.rd, q.imm)
          [] q.op = "mv"      -> emit_i_type(\h13, q.rd, 0, q.rs1, {})
          [] q.op = "addi"    -> emit_addi(q.rd, q.rs1, q.imm)
          [] q.op = "add_offset" -> emit_add_offset(q.rd, q.rs1, q.imm)
          [] q.op = "xori"    -> emit_i_type(\h13, q.rd, 4, q.rs1, q.imm)
          [] q.op = "seqz"    -> emit_i_type(\h13, q.rd, 3, q.rs1, Bits(1))
          [] q.op = "snez"    -> emit_r_type(\h33, q.rd, 3, REG_ZERO, q.rs1, 0)
          [] q.op = "srai"    -> emit_srai(q.rd, q.rs1, q.imm)
          [] q.op = "slli"    -> emit_slli(q.rd, q.rs1, q.imm)
          [] q.op = "sext.w"  -> emit_i_type(\h1b, q.rd, 0, q.rs1, {})
          [] q.op = "fcvt.d.s" -> emit_fcvt_d_s(q.rd, q.rs1)
          [] q.op = "fcvt.s.d" -> emit_fcvt_s_d(q.rd, q.rs1)
          [] q.op = "fcvt.d.l" -> emit_fcvt_d_l(q.rd, q.rs1)
          [] q.op = "fcvt.l.d" -> emit_fcvt_l_d(q.rd, q.rs1)
          [] q.op = "fcvt.d.r" -> emit_fcvt_d_r(q.rd, q.rs1)
          [] q.op = "fcvt.r.d" -> emit_fcvt_r_d(q.rd, q.rs1)
          [] q.op = "fmv.d"   -> emit_fmv_d(q.rd, q.rs1)
          [] q.op = "fmv.s"   -> emit_fmv_s(q.rd, q.rs1)
          [] q.op = "fsqrt.d" -> emit_fsqrt_d(q.rd, q.rs1)
          [] q.op = "fabs.d"  -> emit_fabs_d(q.rd, q.rs1)

-------------------------------------------------------------------------------
(* Labels.  A use of one is its instruction, and the displacement is from it. *)

UnsignedOf(bits) == FoldSet(LAMBDA k, n : n + 2 ^ k, 0, bits)
Bitfield(word, from, count) == UnsignedOf(Slice(word, from, count))
Opcode(word) == Bitfield(word, 0, 7)
Rd(word)     == Bitfield(word, 7, 5)
Funct3(word) == Bitfield(word, 12, 3)
Rs1(word)    == Bitfield(word, 15, 5)
Rs2(word)    == Bitfield(word, 20, 5)

\* A branch that does not reach becomes one on the opposite over a jump, which
\* is the use of the label from then on.
Inverted(word) == emit_b_type(\h63, IF Funct3(word) % 2 = 0 THEN Funct3(word) + 1 ELSE Funct3(word) - 1,
                              Rs1(word), Rs2(word), Bits(8))
IsFar(code, offset) == Opcode(code[1]) = \h63 /\ ~fits_in_signed(offset, B_TYPE_IMM_BITS)
LOCAL relax_branches(code, offset) == IF IsFar(code, offset) THEN Inverted(code[1]) \o <<Bits(\h6F)>> ELSE code

\* A label after the jump has moved by as much as the use has.
Ahead(offset) == XLEN - 1 \notin offset
Moved(code, offset) == IF IsFar(code, offset) /\ ~Ahead(offset) THEN Plus(offset, Bits(-4)) ELSE offset

\* The word at a use, and the one after an auipc.
patch(use, offset) ==
    LET word  == use[1]
        pair  == emit_u_type(\h17, Rd(word), Left(Low(Upper(offset), 20), 12))
                 \o << Low(use[2], 20) \cup Left(Low(offset, 12), 20) >>
    IN  CASE Opcode(word) = \h63 -> emit_b_type(\h63, Funct3(word), Rs1(word), Rs2(word), offset)
          [] Opcode(word) = \h6F -> emit_j_type(\h6F, Rd(word), offset)
          [] Opcode(word) = \h17 -> IF \/ Opcode(use[2]) = \h03
                                       \/ Opcode(use[2]) = \h13 /\ Rs1(use[2]) = Rd(word) /\ Funct3(use[2]) = 0
                                    THEN pair ELSE use
          [] OTHER -> use

resolve_labels(code, offset) ==
    IF Len(code) = 2 /\ Opcode(code[1]) = \h63 THEN <<code[1]>> \o patch(<<code[2]>>, offset)
    ELSE patch(code, offset)

-------------------------------------------------------------------------------
(* The code of one request, until its label has an address. *)

VARIABLES
    asked,          \* what it was asked for
    m_code,         \* the words written for it
    displacement,   \* of its label
    resolved        \* nothing is left to write

encoding_vars == <<asked, m_code, displacement, resolved, double_precision>>

NotAsked == Request("nothing", 0, 0, 0, {})

\* A label is named by branches, jumps and addresses, and by what is too wide for
\* an instruction and lies among the constants.
Labelled(q) == \/ q.op \in DOMAIN BranchCodes \cup {"jal", "la"}
               \/ q.op = "li" /\ ~fits_in_signed(q.imm, 32)

Throws == {-1} \in Range(m_code)

EncodingInit ==
    /\ asked = NotAsked
    /\ m_code = <<>>
    /\ displacement = {}
    /\ resolved = TRUE
    /\ double_precision \in BOOLEAN

Ask(q) ==
    /\ asked = NotAsked
    /\ asked' = q
    /\ m_code' = emit(q)
    /\ resolved' = ~Labelled(q)
    /\ UNCHANGED <<displacement, double_precision>>

Resolve(d) ==
    /\ ~resolved
    /\ m_code' = resolve_labels(relax_branches(m_code, d), Moved(m_code, d))
    /\ displacement' = d
    /\ resolved' = TRUE
    /\ UNCHANGED <<asked, double_precision>>

EncodingNext ==
    \/ \E q \in Requests : Ask(q)
    \/ \E d \in Displacements : Resolve(d)

EncodingSpec == EncodingInit /\ [][EncodingNext]_encoding_vars

-------------------------------------------------------------------------------
(* What the words do, by the manuals of the RISC-V instruction set.  What a  *)
(* register holds is a term and a number added to it; nothing is known of    *)
(* the terms but how they were made.                                         *)

Over(term, bits) == [of |-> term, plus |-> bits]
Constant(bits)   == Over(<<"zero">>, bits)
Term(term)       == Over(term, {})
Here(bits)       == Over(<<"pc">>, bits)

Sum(a, b) == IF a.of = <<"zero">> THEN Over(b.of, Plus(a.plus, b.plus))
             ELSE IF b.of = <<"zero">> THEN Over(a.of, Plus(a.plus, b.plus))
             ELSE Term(<<"add", a, b>>)
Binary(op, a, b) == IF op = "add" THEN Sum(a, b) ELSE Term(<<op, a, b>>)

\* How the registers with the lower and with the higher number compare.
Orders == {o \in [signed : -1 .. 1, unsigned : -1 .. 1] : o.signed = 0 <=> o.unsigned = 0}
Compared(order, r1, r2) == IF r1 = r2 THEN 0 ELSE IF r1 < r2 THEN order ELSE -order
Holds(branch, order, r1, r2) ==
    CASE branch = "beq"  -> Compared(order.signed, r1, r2) = 0
      [] branch = "bne"  -> Compared(order.signed, r1, r2) # 0
      [] branch = "blt"  -> Compared(order.signed, r1, r2) < 0
      [] branch = "bge"  -> Compared(order.signed, r1, r2) >= 0
      [] branch = "bltu" -> Compared(order.unsigned, r1, r2) < 0
      [] branch = "bgeu" -> Compared(order.unsigned, r1, r2) >= 0

IntegerCodes == ( <<0, 0>> :> "add" @@ <<32, 0>> :> "sub" @@ <<0, 1>> :> "sll" @@ <<0, 2>> :> "slt" @@ <<0, 3>> :> "sltu"
             @@ <<0, 4>> :> "xor" @@ <<0, 5>> :> "srl" @@ <<32, 5>> :> "sra" @@ <<0, 6>> :> "or" @@ <<0, 7>> :> "and"
             @@ <<1, 0>> :> "mul" @@ <<1, 4>> :> "div" @@ <<1, 5>> :> "divu" @@ <<1, 6>> :> "rem" @@ <<1, 7>> :> "remu"
             @@ <<16, 2>> :> "sh1add" @@ <<16, 4>> :> "sh2add" @@ <<16, 6>> :> "sh3add" )
LoadCodes  == <<"lb", "lh", "lw", "ld", "lbu", "lhu", "lwu">>
StoreCodes == <<"sb", "sh", "sw", "sd">>
BranchOps == (0 :> "beq" @@ 1 :> "bne" @@ 4 :> "blt" @@ 5 :> "bge" @@ 6 :> "bltu" @@ 7 :> "bgeu")

\* Of the floating point instructions by funct7: those on two registers, then
\* those that funct3 tells apart, then those that the second register tells apart.
FloatCodes  == (0 :> "fadd.s" @@ 1 :> "fadd.d" @@ 4 :> "fsub.s" @@ 5 :> "fsub.d" @@ 8 :> "fmul.s" @@ 9 :> "fmul.d"
              @@ 12 :> "fdiv.s" @@ 13 :> "fdiv.d")
FloatTests == ( <<80, 0>> :> "fle.s" @@ <<80, 1>> :> "flt.s" @@ <<80, 2>> :> "feq.s"
             @@ <<81, 0>> :> "fle.d" @@ <<81, 1>> :> "flt.d" @@ <<81, 2>> :> "feq.d" )
FloatSigns == ( <<16, 0>> :> "fsgnj.s" @@ <<16, 1>> :> "fsgnjn.s" @@ <<16, 2>> :> "fsgnjx.s"
             @@ <<17, 0>> :> "fsgnj.d" @@ <<17, 1>> :> "fsgnjn.d" @@ <<17, 2>> :> "fsgnjx.d" )
FloatOfOne == ( <<44, 0>> :> "fsqrt.s" @@ <<45, 0>> :> "fsqrt.d" @@ <<32, 1>> :> "fcvt.s.d" @@ <<33, 0>> :> "fcvt.d.s" )
FloatToInteger == (<<96, 0>> :> "fcvt.w.s" @@ <<96, 2>> :> "fcvt.l.s" @@ <<97, 0>> :> "fcvt.w.d" @@ <<97, 2>> :> "fcvt.l.d")
IntegerToFloat == (<<104, 0>> :> "fcvt.s.w" @@ <<104, 2>> :> "fcvt.s.l" @@ <<105, 0>> :> "fcvt.d.w" @@ <<105, 2>> :> "fcvt.d.l")
TowardZero == 1

\* The sign of a number put before itself, or multiplied with itself.
SignPut(op, a, b) == IF a = b /\ op \in {"fsgnj.s", "fsgnj.d"} THEN a
                     ELSE IF a = b /\ op = "fsgnjx.d" THEN Term(<<"abs", a>>)
                     ELSE Term(<<op, a, b>>)

\* The machine after one word, which is not where it is when it has gone elsewhere.
Past(m) == [m EXCEPT !.pc = Sum(@, Constant(Bits(4)))]
SetX(m, r, v) == [m EXCEPT !.x[r] = IF r = REG_ZERO THEN Constant({}) ELSE v]
SetF(m, r, v) == [m EXCEPT !.f[r] = v]

Execute(m, word, order) ==
    LET rd == Rd(word)   rs1 == Rs1(word)   rs2 == Rs2(word)
        funct3 == Funct3(word)   funct7 == Bitfield(word, 25, 7)
        a == m.x[rs1]   b == m.x[rs2]   fa == m.f[rs1]   fb == m.f[rs2]
        imm_i == Constant(Signed(Slice(word, 20, 12), 12))
        imm_s == Constant(Signed(Slice(word, 7, 5) \cup Left(Slice(word, 25, 7), 5), 12))
        imm_b == Signed(Left(Slice(word, 8, 4), 1) \cup Left(Slice(word, 25, 6), 5) \cup Left(Slice(word, 7, 1), 11)
                        \cup Left(Slice(word, 31, 1), 12), 13)
        imm_u == Signed(Left(Slice(word, 12, 20), 12), 32)
        imm_j == Signed(Left(Slice(word, 21, 10), 1) \cup Left(Slice(word, 20, 1), 11) \cup Left(Slice(word, 12, 8), 12)
                        \cup Left(Slice(word, 31, 1), 20), 21)
        next  == Sum(m.pc, Constant(Bits(4)))
    IN  CASE Opcode(word) = 51  -> Past(SetX(m, rd, Binary(IntegerCodes[<<funct7, funct3>>], a, b)))
          [] Opcode(word) = 19  -> Past(SetX(m, rd,
                CASE funct3 = 0 -> Sum(a, imm_i)
                  [] funct3 = 3 -> Binary("sltu", a, imm_i)
                  [] funct3 = 4 -> Binary("xor", a, imm_i)
                  [] funct3 = 1 /\ Bitfield(word, 26, 6) = 0  -> Binary("sll", a, Constant(Slice(word, 20, 6)))
                  [] funct3 = 5 /\ Bitfield(word, 26, 6) = 16 -> Binary("sra", a, Constant(Slice(word, 20, 6)))))
          [] Opcode(word) = 27 /\ funct3 = 0 -> Past(SetX(m, rd, Term(<<"addw", a, imm_i>>)))
          [] Opcode(word) = 55  -> Past(SetX(m, rd, Constant(imm_u)))
          [] Opcode(word) = 23  -> Past(SetX(m, rd, Sum(m.pc, Constant(imm_u))))
          [] Opcode(word) = 3   -> Past(SetX(m, rd, Term(<<LoadCodes[funct3 + 1], Sum(a, imm_i)>>)))
          [] Opcode(word) = 7 /\ funct3 \in {2, 3} ->
                Past(SetF(m, rd, Term(<<IF funct3 = 2 THEN "flw" ELSE "fld", Sum(a, imm_i)>>)))
          [] Opcode(word) = 35  -> Past([m EXCEPT !.stored = <<StoreCodes[funct3 + 1], Sum(a, imm_s), b>>])
          [] Opcode(word) = 39 /\ funct3 \in {2, 3} ->
                Past([m EXCEPT !.stored = <<IF funct3 = 2 THEN "fsw" ELSE "fsd", Sum(a, imm_s), fb>>])
          [] Opcode(word) = 99  -> IF Holds(BranchOps[funct3], order, rs1, rs2)
                                   THEN [m EXCEPT !.pc = Sum(@, Constant(imm_b))] ELSE Past(m)
          [] Opcode(word) = 111 -> [SetX(m, rd, next) EXCEPT !.pc = Sum(@, Constant(imm_j))]
          [] Opcode(word) = 103 -> [SetX(m, rd, next) EXCEPT !.pc = Sum(a, imm_i)]
          [] Opcode(word) = 83  ->
                CASE funct7 \in DOMAIN FloatCodes -> Past(SetF(m, rd, Term(<<FloatCodes[funct7], fa, fb>>)))
                  [] <<funct7, funct3>> \in DOMAIN FloatTests ->
                        Past(SetX(m, rd, Term(<<FloatTests[<<funct7, funct3>>], fa, fb>>)))
                  [] <<funct7, funct3>> \in DOMAIN FloatSigns ->
                        Past(SetF(m, rd, SignPut(FloatSigns[<<funct7, funct3>>], fa, fb)))
                  [] <<funct7, rs2>> \in DOMAIN FloatOfOne ->
                        Past(SetF(m, rd, Term(<<FloatOfOne[<<funct7, rs2>>], fa>>)))
                  [] <<funct7, rs2>> \in DOMAIN FloatToInteger ->
                        Past(SetX(m, rd, Term(<<FloatToInteger[<<funct7, rs2>>], fa, funct3>>)))
                  [] <<funct7, rs2>> \in DOMAIN IntegerToFloat ->
                        Past(SetF(m, rd, Term(<<IntegerToFloat[<<funct7, rs2>>], a>>)))

Machine == [ x |-> [r \in 0 .. 31 |-> IF r = REG_ZERO THEN Constant({}) ELSE Term(<<"x", r>>)],
             f |-> [r \in 0 .. 31 |-> Term(<<"f", r>>)],
             stored |-> <<>>, pc |-> Here({}) ]

\* Some words from the first one on.
After(words, order) ==
    FoldLeft(LAMBDA m, i : IF m.pc = Here(Bits(4 * (i - 1))) THEN Execute(m, words[i], order) ELSE m,
             Machine, [i \in DOMAIN words |-> i])

-------------------------------------------------------------------------------
(* What was asked for. *)

\* The immediates that an instruction has itself, and the displacements that it
\* or the jump behind a far branch has.
Narrow == {"addi", "xori", "jalr"}
Encodable(q, d) ==
    /\ q.op \in Narrow => q.imm = Signed(q.imm, 12)
    /\ q.op = "jal" => 0 \notin d /\ d = Signed(d, 21)
    /\ q.op \in DOMAIN BranchCodes => /\ 0 \notin d
                                   /\ \/ d = Signed(d, 13)
                                      \/ d = Signed(d, 21) /\ (Ahead(d) \/ Plus(d, Bits(-4)) = Signed(Plus(d, Bits(-4)), 21))

\* The label has moved with what came before it.
LabelAt == IF Len(m_code) = 2 /\ asked.op \in DOMAIN BranchCodes /\ Ahead(displacement)
           THEN Plus(displacement, Bits(4)) ELSE displacement

Promised(order) ==
    LET q   == asked
        a   == Machine.x[q.rs1]   b == Machine.x[q.rs2]   fa == Machine.f[q.rs1]   fb == Machine.f[q.rs2]
        end == Here(Bits(4 * Len(m_code)))
        at  == Sum(a, Constant(q.imm))
        m   == [Machine EXCEPT !.pc = end]
        real == IF double_precision THEN "d" ELSE "s"
    IN  CASE q.op \in DOMAIN ALU -> SetX(m, q.rd, Binary(q.op, a, b))
          [] q.op \in {"flt.d", "feq.d"} -> SetX(m, q.rd, Term(<<q.op, fa, fb>>))
          [] q.op \in DOMAIN FPU \ {"flt.d", "feq.d"} -> SetF(m, q.rd, Term(<<q.op, fa, fb>>))
          [] q.op \in {"fadd", "fsub", "fmul", "fdiv"} -> SetF(m, q.rd, Term(<<q.op \o "." \o real, fa, fb>>))
          [] q.op \in {"fld", "flw"} -> SetF(m, q.rd, Term(<<q.op, at>>))
          [] q.op = "flr" -> SetF(m, q.rd, Term(<<IF double_precision THEN "fld" ELSE "flw", at>>))
          [] q.op \in DOMAIN Loads \ {"fld", "flw"} -> SetX(m, q.rd, Term(<<q.op, at>>))
          [] q.op \in {"fsd", "fsw"} -> [m EXCEPT !.stored = <<q.op, at, fb>>]
          [] q.op = "fsr" -> [m EXCEPT !.stored = <<IF double_precision THEN "fsd" ELSE "fsw", at, fb>>]
          [] q.op \in DOMAIN Stores \ {"fsd", "fsw"} -> [m EXCEPT !.stored = <<q.op, at, b>>]
          [] q.op \in DOMAIN BranchCodes -> IF Holds(q.op, order, q.rs1, q.rs2) THEN [m EXCEPT !.pc = Here(LabelAt)] ELSE m
          [] q.op = "jal"  -> [SetX(m, q.rd, end) EXCEPT !.pc = Here(LabelAt)]
          [] q.op = "jalr" -> [SetX(m, q.rd, end) EXCEPT !.pc = at]
          [] q.op = "la"   -> SetX(m, q.rd, Here(LabelAt))
          [] q.op = "li"   -> SetX(m, q.rd, IF Labelled(q) THEN Term(<<"ld", Here(LabelAt)>>) ELSE Constant(q.imm))
          [] q.op = "mv"   -> SetX(m, q.rd, a)
          [] q.op \in {"addi", "add_offset"} -> SetX(m, q.rd, at)
          [] q.op = "xori" -> SetX(m, q.rd, Binary("xor", a, Constant(q.imm)))
          [] q.op = "seqz" -> SetX(m, q.rd, Binary("sltu", a, Constant({0})))
          [] q.op = "snez" -> SetX(m, q.rd, Binary("sltu", Constant({}), a))
          [] q.op = "srai" -> SetX(m, q.rd, Binary("sra", a, Constant(q.imm)))
          [] q.op = "slli" -> SetX(m, q.rd, Binary("sll", a, Constant(q.imm)))
          [] q.op = "sext.w" -> SetX(m, q.rd, Term(<<"addw", a, Constant({})>>))
          [] q.op \in {"fcvt.d.s", "fcvt.s.d", "fsqrt.d"} -> SetF(m, q.rd, Term(<<q.op, fa>>))
          [] q.op = "fcvt.d.l" -> SetF(m, q.rd, Term(<<q.op, a>>))
          [] q.op = "fcvt.l.d" -> SetX(m, q.rd, Term(<<q.op, fa, TowardZero>>))
          [] q.op = "fcvt.d.r" -> SetF(m, q.rd, IF double_precision THEN fa ELSE Term(<<"fcvt.d.s", fa>>))
          [] q.op = "fcvt.r.d" -> SetF(m, q.rd, IF double_precision THEN fa ELSE Term(<<"fcvt.s.d", fa>>))
          [] q.op \in {"fmv.d", "fmv.s"} -> SetF(m, q.rd, fa)
          [] q.op = "fabs.d" -> SetF(m, q.rd, Term(<<"abs", fa>>))

\* But for the register that wide offsets are added up in.
Apart(m) == [m EXCEPT !.x[REG_WIDE_SCRATCH] = Constant({})]

\* The words written for a request do what was asked for, as the manuals read
\* them and however the compared registers compare: immediates and offsets have
\* the value that was asked for, narrow or wide, labels are reached from near and
\* from far, and no register changes but the one named (and t6 in a wide offset).
\* An immediate or displacement that its instruction has no room for is refused,
\* never cut to another one (riscv_codegen.h:30), and all others are taken.
WordsDoWhatIsAsked ==
    resolved /\ asked # NotAsked =>
        /\ Throws <=> ~Encodable(asked, displacement)
        /\ ~Throws =>
              \A order \in IF asked.op \in DOMAIN BranchCodes THEN Orders ELSE {CHOOSE o \in Orders : TRUE} :
                  Apart(After(m_code, order)) = Apart(Promised(order))
===============================================================================
