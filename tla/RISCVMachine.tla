------------------------------ MODULE RISCVMachine ------------------------------
(***************************************************************************)
(* A sandbox that runs compiled programs: the machine, the host calls of   *)
(* sandbox_syscalls.cpp that programs make, and the calls the host makes   *)
(* (Sandbox::vmcall_internal).                                             *)
(*                                                                         *)
(* A register holds the number <<"i", n>>, a float <<"f", q>>, or the two  *)
(* halves <<"p", low, high>> of what is no number.  Memory is a sequence   *)
(* of words of half the width: the number <<"w", n>>, a half of a float    *)
(* <<"lo", q>> or <<"hi", q>>, a float of half the width <<"s", q>>, part  *)
(* of a text <<"text", s>>, a byte <<"b", n>> among what was there before, *)
(* and what earlier calls left, <<"?", 0>>.  Limits of the sandbox --      *)
(* scoped Variants, instructions, memory -- are not reached.  Of each host *)
(* call there is what it does with the operations and forms of arguments   *)
(* that the code generator emits, and with the types of values below.      *)
(***************************************************************************)
EXTENDS RISCVCodegen, HostVariants

CONSTANTS STACK_TOP    \* addresses end here, and the stack of a program begins

ASSUME MachineAssumption == STACK_TOP \in Nat /\ STACK_TOP % 16 = 0

EXIT_ADDRESS == 0      \* where a function called by the host returns to

-------------------------------------------------------------------------------
(* Words and numbers. *)

Int64(n) == <<"i", n>>
Word(n) == <<"w", n>>
Unwritten == <<"?", 0>>
IsWord(c) == c[1] = "w"
Unsigned(n, bits) == n % (2 ^ bits)
ByteSize == 2 ^ (HalfWidth \div 4)

\* The halves of a number and of a float, of which 0.0 is the number 0.
Halves(n) == << Word(WrapHalf(n)), Word(n \div 2 ^ HalfWidth) >>
FloatHalves(q) == IF q = 0 THEN <<Word(0), Word(0)>> ELSE << <<"lo", q>>, <<"hi", q>> >>

\* What a register holds after it was loaded from two words; the bits of a float
\* make a huge number.
Joined(low, high) ==
    IF IsWord(low) /\ IsWord(high)
    THEN Int64(Unsigned(low[2], HalfWidth) + high[2] * 2 ^ HalfWidth) ELSE <<"p", low, high>>
IntOf(x) == CASE x[1] = "i" -> x[2] [] x[1] = "p" -> MaxInt [] x[1] = "f" -> MaxInt

\* The float in two words; the bits of a number make one next to zero.
FloatOf(low, high) == IF low[1] = "lo" /\ high[1] = "hi" THEN low[2] ELSE 0
SingleOf(c) == IF c[1] = "s" THEN c[2] ELSE 0
WordOf(c) == IF IsWord(c) THEN c[2] ELSE MaxInt % (2 ^ (HalfWidth - 1))
ByteOf(c) == IF c[1] \in {"w", "b"} THEN c[2] % ByteSize ELSE 1
WithByte(c, n) == IF IsWord(c) THEN Word(c[2] - (c[2] % ByteSize) + n) ELSE <<"b", n>>
TextOf(x) == x[2][2]

At(address) == address \div 4 + 1

-------------------------------------------------------------------------------
(* Instructions. *)

Number(m, r) == IntOf(m.regs[r])
Next(m) == [m EXCEPT !.pc = @ + 1]
Set(m, rd, x) == IF rd = "zero" THEN Next(m) ELSE [m EXCEPT !.pc = @ + 1, !.regs[rd] = x]
Jump(m, place) == [m EXCEPT !.pc = place]

\* Memory with words written to it from an address on.
Put(m, address, words) ==
    [m EXCEPT !.memory = FoldLeft(LAMBDA mem, k : [mem EXCEPT ![At(address) + k - 1] = words[k]], @,
                                  [k \in DOMAIN words |-> k])]
WordAt(m, address) == m.memory[At(address)]
NumberAt(m, address) == Joined(WordAt(m, address), WordAt(m, address + 4))

LoadOps == {"lw", "lwu", "ld", "lbu", "fld", "flw"}
StoreOps == {"sw", "sd", "sb", "fsd", "fsw"}

Loaded(m, op, address) ==
    CASE op = "ld"  -> NumberAt(m, address)
      [] op = "lw"  -> Int64(WordOf(WordAt(m, address)))
      [] op = "lwu" -> Int64(Unsigned(WordOf(WordAt(m, address)), HalfWidth))
      [] op = "lbu" -> Int64(ByteOf(WordAt(m, address)))
      [] op = "fld" -> <<"f", FloatOf(WordAt(m, address), WordAt(m, address + 4))>>
      [] op = "flw" -> <<"f", SingleOf(WordAt(m, address))>>

\* The words a store leaves, of a register and of what was there.
Stored(op, x, there) ==
    CASE op = "sd"  -> IF x[1] = "p" THEN <<x[2], x[3]>> ELSE Halves(IntOf(x))
      [] op = "sw"  -> << IF x[1] = "p" THEN x[2] ELSE Word(WrapHalf(IntOf(x))) >>
      [] op = "sb"  -> << WithByte(there, IntOf(x) % ByteSize) >>
      [] op = "fsd" -> FloatHalves(x[2])
      [] op = "fsw" -> << IF x[2] = 0 THEN Word(0) ELSE <<"s", x[2]>> >>

IntegerOps == [ add |-> "ADD", sub |-> "SUB", mul |-> "MUL", div |-> "DIV", rem |-> "MOD",
                and |-> "BIT_AND", or |-> "BIT_OR", xor |-> "BIT_XOR", sll |-> "SHL", sra |-> "SHR" ]

\* A division by zero does not trap; a shift takes as many bits as it can tell.
Computed(op, l, r) ==
    CASE op = "div" /\ r = 0 -> -1
      [] op \in {"sll", "sra"} -> IntOperator(IntegerOps[op], l, r % Width)
      [] op = "slt" -> IF l < r THEN 1 ELSE 0
      [] op = "or" /\ 0 \in {l, r} -> l + r
      [] OTHER -> IntOperator(IntegerOps[op], l, r)

FloatOps ==
    [ op \in {o \o w : o \in {"fadd", "fsub", "fmul", "fdiv"}, w \in {".d", ".s"}} |->
        CASE op \in {"fadd.d", "fadd.s"} -> "ADD" [] op \in {"fsub.d", "fsub.s"} -> "SUB"
          [] op \in {"fmul.d", "fmul.s"} -> "MUL" [] op \in {"fdiv.d", "fdiv.s"} -> "DIV" ]
SingleOps == {"fadd.s", "fsub.s", "fmul.s", "fdiv.s"}

Converted(op, x) ==
    CASE op = "fcvt.d.l" -> <<"f", IntOf(x) * FLOAT_UNIT>>
      [] op = "fcvt.l.d" -> Int64(Quotient(x[2], FLOAT_UNIT))
      [] op = "fcvt.s.d" -> <<"f", Single(x[2])>>
      [] op = "fcvt.d.s" -> x
      [] op = "snez"     -> Int64(IF x[1] = "i" /\ x[2] = 0 THEN 0 ELSE 1)
      [] op = "seqz"     -> Int64(IF x[1] = "i" /\ x[2] = 0 THEN 1 ELSE 0)
      [] op = "slli1"    -> IF x[1] = "i" THEN Int64(Wrap(2 * x[2])) ELSE x

Taken(op, l, r) ==
    CASE op = "beq"  -> l = r
      [] op = "bne"  -> l # r
      [] op = "blt"  -> l < r
      [] op = "bge"  -> l >= r
      [] op = "bltu" -> Unsigned(l, Width) < Unsigned(r, Width)
      [] op = "bgeu" -> Unsigned(l, Width) >= Unsigned(r, Width)

\* Everything but host calls.
execute(m, labels, instr) ==
    LET op   == instr.op
        x    == m.regs[instr.rs1]
        y    == m.regs[instr.rs2]
        address == IntOf(x) + instr.imm
    IN  CASE op = "li"      -> Set(m, instr.rd, Int64(instr.imm))
          [] op = "li.d"    -> Set(m, instr.rd, IF instr.imm = 0 THEN Int64(0)
                                                ELSE <<"p", <<"lo", instr.imm>>, <<"hi", instr.imm>>>>)
          [] op = "li.text" -> Set(m, instr.rd, <<"p", <<"text", instr.imm>>, <<"text", instr.imm>>>>)
          [] op = "la"      -> Set(m, instr.rd, Int64(instr.imm))
          [] op = "auipc"   -> Set(m, instr.rd, Int64(m.pc))
          [] op = "addi"    -> Set(m, instr.rd, IF instr.imm = 0 THEN x ELSE Int64(Wrap(address)))
          [] op = "xori"    -> Set(m, instr.rd, Int64(IF instr.imm = -1 THEN -IntOf(x) - 1
                                                      ELSE Computed("xor", IntOf(x), instr.imm)))
          [] op = "sh2add"  -> Set(m, instr.rd, Int64(IntOf(x) + IntOf(y)))
          [] op \in DOMAIN IntegerOps \union {"slt"} -> Set(m, instr.rd, Int64(Computed(op, IntOf(x), IntOf(y))))
          [] op \in SingleOps -> Set(m, instr.rd, <<"f", Single(FloatOperator(FloatOps[op], x[2], y[2]))>>)
          [] op \in DOMAIN FloatOps \ SingleOps -> Set(m, instr.rd, <<"f", FloatOperator(FloatOps[op], x[2], y[2])>>)
          [] op \in {"fcvt.d.l", "fcvt.l.d", "fcvt.s.d", "fcvt.d.s", "snez", "seqz", "slli1"} ->
                Set(m, instr.rd, Converted(op, x))
          [] op \in LoadOps  -> Set(m, instr.rd, Loaded(m, op, address))
          [] op \in StoreOps -> Next(Put(m, address, Stored(op, y, WordAt(m, address))))
          [] op \in Branches \union {"bltu"} ->
                IF ~Taken(op, IntOf(x), IntOf(y)) THEN Next(m)
                ELSE Jump(m, IF instr.lbl = NoLabel THEN m.pc + instr.imm ELSE labels[instr.lbl])
          [] op = "jal"     -> Jump(Set(m, instr.rd, Int64(m.pc + 1)), labels[instr.lbl])
          [] op = "jalr"    ->
                IF address = EXIT_ADDRESS THEN [m EXCEPT !.status = "returned"]
                ELSE Jump(Set(m, instr.rd, Int64(m.pc + 1)), address)
          [] op = "stop"    -> [m EXCEPT !.status = "stopped"]

-------------------------------------------------------------------------------
(* Variants of the guest (guest_variant.cpp). *)

VariantType == [n \in Range(Tags) |-> CHOOSE t \in DOMAIN Tags : Tags[t] = n]

\* A value the host keeps, by its number: those that are permanent count down
\* from -1.  A sequence of at most one value.
get_scoped_variant(m, index) ==
    IF index >= 0 /\ index < Len(m.scoped) THEN <<m.scoped[index + 1]>>
    ELSE IF index < 0 /\ -index \in DOMAIN m.permanent THEN <<m.permanent[-index]>>
    ELSE <<>>

TagAt(m, address) == WordOf(WordAt(m, address))
IndexAt(m, address) == WordOf(WordAt(m, address + VARIANT_DATA_OFFSET))

\* The value at an address, if there is one: of what the host keeps the number
\* alone counts, and not the tag.
toVariant(m, address) ==
    LET low  == WordAt(m, address + VARIANT_DATA_OFFSET)
        high == WordAt(m, address + VARIANT_DATA_OFFSET + COMPONENT_SIZE)
        tag  == TagAt(m, address)
    IN  CASE tag = Tags["NIL"]      -> << Nil >>
          [] tag = Tags["BOOL"]     -> << Bool(ByteOf(low) # 0) >>
          [] tag = Tags["INT"]      -> << <<"INT", IntOf(Joined(low, high))>> >>
          [] tag = Tags["FLOAT"]    -> << <<"FLOAT", FloatOf(low, high)>> >>
          [] tag = Tags["VECTOR2"]  -> << <<"VECTOR2", <<SingleOf(low), SingleOf(high)>>>> >>
          [] tag = Tags["VECTOR2I"] -> << <<"VECTOR2I", <<WordOf(low), WordOf(high)>>>> >>
          [] tag = Tags["OBJECT"]   -> <<>>
          [] OTHER -> get_scoped_variant(m, IndexAt(m, address))

\* A value the host is to keep, from then on for good while the program is loaded.
create_scoped_variant(m, v) ==
    IF m.initializing THEN [m EXCEPT !.permanent = Append(@, v)] ELSE [m EXCEPT !.scoped = Append(@, v)]
LastIndex(m) == IF m.initializing THEN -Len(m.permanent) ELSE Len(m.scoped) - 1

\* The number of a value the host keeps is one without a sign, in a register and
\* in memory.
IndexNumber(i) == Unsigned(i, HalfWidth)
PutTagged(m, address, type, halves) == Put(Put(m, address, <<Word(Tags[type])>>), address + VARIANT_DATA_OFFSET, halves)
PutIndex(m, address, type) == PutTagged(m, address, type, Halves(IndexNumber(LastIndex(m))))

\* Values that fit beside their type: all of the payload is written, and of a
\* null nothing.
HeldInline == {"NIL", "BOOL", "INT", "FLOAT", "VECTOR2", "VECTOR2I"}

Payload(v) ==
    CASE TypeOf(v) \in {"BOOL", "INT"} -> Halves(v[2])
      [] TypeOf(v) = "FLOAT"    -> FloatHalves(v[2])
      [] TypeOf(v) = "VECTOR2"  -> [k \in 1 .. 2 |-> IF v[2][k] = 0 THEN Word(0) ELSE <<"s", v[2][k]>>]
      [] TypeOf(v) = "VECTOR2I" -> [k \in 1 .. 2 |-> Word(v[2][k])]

set_inlined(m, address, v) ==
    IF TypeOf(v) = "NIL" THEN Put(m, address, <<Word(Tags["NIL"])>>)
    ELSE PutTagged(m, address, TypeOf(v), Payload(v) \o <<Word(0), Word(0)>>)

create(m, address, v) ==
    IF TypeOf(v) \in HeldInline THEN set_inlined(m, address, v)
    ELSE PutIndex(create_scoped_variant(m, v), address, TypeOf(v))

\* An argument of the host's: the guest only has it on loan.
add_scoped_variant(m, v) == [create_scoped_variant(m, v) EXCEPT !.loaned = @ + 1]
set_variant(m, address, v) ==
    IF TypeOf(v) \in HeldInline THEN set_inlined(m, address, v)
    ELSE PutIndex(add_scoped_variant(m, v), address, TypeOf(v))

-------------------------------------------------------------------------------
(* Host calls: a0 to a6 are read, and a0 holds the answer of those that have one. *)

Arg(m, r) == IntOf(m.regs[r])
Index(m, r) == WrapHalf(Arg(m, r))    \* an int or an unsigned of half the width
Name(m, r) == TextOf(m.regs[r])
set_result(m, n) == Set(m, "a0", Int64(n))
Throw(m) == [m EXCEPT !.status = "thrown"]

\* The values of Variants in a row; <<>> for one that is none.
ValuesAt(m, address, n) == [k \in 1 .. n |-> toVariant(m, address + (k - 1) * variant_size)]
AllThere(values) == \A k \in DOMAIN values : values[k] # <<>>
Those(values) == [k \in DOMAIN values |-> values[k][1]]

api_veval(m) ==
    LET l == toVariant(m, Arg(m, "a1"))
        r == toVariant(m, Arg(m, "a2"))
        made == evaluate(Name(m, "a0"), l[1], r[1], m.heap)
    IN  IF l = <<>> \/ r = <<>> THEN Throw(m)
        ELSE set_result(create(m, Arg(m, "a3"), IF made = <<>> THEN Nil ELSE made[1]), Len(made))

\* The object is read before anything is written; what a method that does not exist
\* gives is not modelled.
api_vcall(m) ==
    LET object == toVariant(m, Arg(m, "a0"))
        args   == ValuesAt(m, Arg(m, "a3"), Arg(m, "a4"))
        result == callp(object[1], Name(m, "a1"), Those(args), m.heap)
    IN  IF Len(args) > 8 \/ object = <<>> \/ ~AllThere(args) THEN Throw(m)
        ELSE IF TypeOf(object[1]) \notin {"ARRAY", "DICTIONARY"} \/ result = <<>> THEN Throw(m)
        ELSE Next(create([m EXCEPT !.heap = result[1].heap], Arg(m, "a5"), result[1].val))

\* A text, or a container with elements, or keys and values, that lie in a row.
api_vcreate(m) ==
    LET type   == VariantType[Arg(m, "a1")]
        values == ValuesAt(m, Arg(m, "a3"), Arg(m, "a2"))
        them   == Those(values)
        pairs  == FoldLeft(LAMBDA acc, k : WithKey(acc, them[2 * k - 1], them[2 * k]), <<>>,
                           [k \in 1 .. Len(values) \div 2 |-> k])
        made   == IF type = "STRING"
                  THEN [val |-> <<"STRING", TextOf(NumberAt(m, Arg(m, "a3")))>>, heap |-> m.heap]
                  ELSE Allocate(type, IF type = "ARRAY" THEN them ELSE pairs, m.heap)
    IN  IF type = "DICTIONARY" /\ (Len(values) > 1024 \/ Len(values) % 2 # 0) THEN Throw(m)
        ELSE IF type # "STRING" /\ ~AllThere(values) THEN Throw(m)
        ELSE Next(PutIndex(create_scoped_variant([m EXCEPT !.heap = made.heap], made.val), Arg(m, "a0"), type))

\* One line for every call, of what the values are at that time.
api_print(m) ==
    LET values == ValuesAt(m, Arg(m, "a0"), Arg(m, "a1"))
    IN  IF Len(values) >= 64 \/ ~AllThere(values) THEN Throw(m)
        ELSE Next([m EXCEPT !.printed = Append(@, [k \in DOMAIN values |-> Contents(values[k][1], m.heap)])])

\* The container a number stands for: a set of at most one.
Container(m, index, type) == {v \in Range(get_scoped_variant(m, index)) : TypeOf(v) = type}
TheOne(set) == CHOOSE v \in set : TRUE

api_array_size(m) ==
    LET arrays == Container(m, Index(m, "a0"), "ARRAY")
    IN  IF arrays = {} THEN Throw(m) ELSE set_result(m, Len(m.heap[TheOne(arrays)[2]]))

\* A negative index means a store to the one it is the complement of.
api_array_at(m) ==
    LET arrays == Container(m, Index(m, "a0"), "ARRAY")
        at     == TheOne(arrays)[2]
        idx    == Index(m, "a1")
        set_mode == idx < 0
        index  == IF set_mode THEN -idx - 1 ELSE idx
        value  == toVariant(m, Arg(m, "a2"))
    IN  IF arrays = {} \/ (set_mode /\ value = <<>>) THEN Throw(m)
        ELSE IF index + 1 \notin DOMAIN m.heap[at] THEN Throw(m)
        ELSE IF set_mode THEN Next([m EXCEPT !.heap[at][index + 1] = value[1]])
        ELSE Next(create(m, Arg(m, "a2"), m.heap[at][index + 1]))

api_array_ops(m) ==
    LET arrays == Container(m, Index(m, "a1"), "ARRAY")
        value  == toVariant(m, Arg(m, "a3"))
    IN  IF arrays = {} \/ value = <<>> THEN Throw(m)
        ELSE Next([m EXCEPT !.heap[TheOne(arrays)[2]] = Append(@, value[1])])   \* PUSH_BACK

api_dict_ops(m) ==
    LET dicts == Container(m, Index(m, "a1"), "DICTIONARY")
        at    == TheOne(dicts)[2]
        pairs == m.heap[at]
        key   == toVariant(m, Arg(m, "a2"))
        value == toVariant(m, Arg(m, "a3"))
        keys  == Allocate("ARRAY", Keys(pairs), m.heap)
        op    == Name(m, "a0")
    IN  IF dicts = {} \/ (op \in {"GET", "SET", "HAS"} /\ key = <<>>) \/ (op = "SET" /\ value = <<>>)
        THEN Throw(m)
        ELSE CASE op = "GET" -> Next(create(m, Arg(m, "a3"), ValueOf(key[1], pairs)))
               [] op = "SET" -> Next([m EXCEPT !.heap[at] = WithKey(@, key[1], value[1])])
               [] op = "HAS" -> set_result(m, IF KeyAt(key[1], pairs) # {} THEN 1 ELSE 0)
               [] op = "GET_SIZE" -> set_result(m, Len(pairs))
               [] op = "GET_KEYS" -> Next(create([m EXCEPT !.heap = keys.heap], Arg(m, "a2"), keys.val))

\* An empty destination takes the number of the source.  A permanent value is
\* replaced and keeps its number, and so is one the call made; in place of an
\* argument, which belongs to the host, there is a new one.
api_vassign(m) ==
    LET a_idx == Index(m, "a0")
        b_idx == Index(m, "a1")
        va    == get_scoped_variant(m, a_idx)
        vb    == get_scoped_variant(m, b_idx)
        empty == -(2 ^ (HalfWidth - 1))
    IN  IF a_idx = empty THEN set_result(m, IndexNumber(b_idx))
        ELSE IF va = <<>> \/ vb = <<>> THEN Throw(m)
        ELSE IF TypeOf(va[1]) \notin {"NIL", TypeOf(vb[1])} THEN Throw(m)
        ELSE IF a_idx < 0 THEN set_result([m EXCEPT !.permanent[-a_idx] = vb[1]], IndexNumber(a_idx))
        ELSE IF a_idx >= m.loaned THEN set_result([m EXCEPT !.scoped[a_idx + 1] = vb[1]], IndexNumber(a_idx))
        ELSE LET made == create_scoped_variant(m, vb[1]) IN set_result(made, IndexNumber(LastIndex(made)))

\* A property has a type, and is told of while the program is loaded.
api_sandbox_add(m) ==
    IF ~m.initializing \/ Arg(m, "a3") <= 0 THEN Throw(m)
    ELSE Next([m EXCEPT !.properties = Append(@, [name |-> Name(m, "a1"), address |-> Arg(m, "a6")])])

\* Of an object that is none the host reads and writes nothing.
host_call(m) ==
    LET number == Name(m, "a7")
    IN  CASE number = "VEVAL"       -> api_veval(m)
          [] number = "VCALL"       -> api_vcall(m)
          [] number = "VCREATE"     -> api_vcreate(m)
          [] number = "VASSIGN"     -> api_vassign(m)
          [] number = "PRINT"       -> api_print(m)
          [] number = "ARRAY_SIZE"  -> api_array_size(m)
          [] number = "ARRAY_AT"    -> api_array_at(m)
          [] number = "ARRAY_OPS"   -> api_array_ops(m)
          [] number = "DICTIONARY_OPS" -> api_dict_ops(m)
          [] number = "SANDBOX_ADD" -> api_sandbox_add(m)
          [] number \in {"THROW", "OBJ_PROP_GET", "OBJ_PROP_SET"} -> Throw(m)

-------------------------------------------------------------------------------
(* Runs. *)

\* Outside of the program or of memory the machine faults.
Faults(m, instr) ==
    instr.op \in LoadOps \union StoreOps
    /\ LET at == At(IntOf(m.regs[instr.rs1]) + instr.imm) IN at < 1 \/ at >= Len(m.memory)

step(m, image) ==
    LET instr == image.code[m.pc]
    IN  CASE m.pc \notin DOMAIN image.code -> Throw(m)
          [] m.pc \in DOMAIN image.code /\ instr.op = "ecall" -> host_call(m)
          [] m.pc \in DOMAIN image.code /\ instr.op # "ecall" ->
                IF Faults(m, instr) THEN Throw(m) ELSE execute(m, image.labels, instr)

\* 2^k steps, or fewer where the machine stops.
RECURSIVE run(_, _, _)
run(m, image, k) ==
    IF m.status # "running" THEN m
    ELSE IF k = 0 THEN step(m, image)
    ELSE run(run(m, image, k - 1), image, k - 1)

Registers0 == [zero |-> Int64(0), ra |-> Int64(0), sp |-> Int64(STACK_TOP),
               a0 |-> Int64(0), a1 |-> Int64(0), a2 |-> Int64(0), a3 |-> Int64(0), a4 |-> Int64(0),
               a5 |-> Int64(0), a6 |-> Int64(0), a7 |-> Int64(0),
               t0 |-> Int64(0), t1 |-> Int64(0), t2 |-> Int64(0),
               fa0 |-> <<"f", 0>>, fa1 |-> <<"f", 0>>, fa2 |-> <<"f", 0>>]

\* Of the data, every slot holds null and the number that means an empty
\* destination; the rest of memory is what nobody may rely on.
InitialMemory(slots) ==
    LET word(k) == CASE (k - 1) * 4 >= slots * variant_size -> Unwritten
                     [] ((k - 1) * 4) % variant_size = VARIANT_DATA_OFFSET -> Word(-(2 ^ (HalfWidth - 1)))
                     [] ((k - 1) * 4) % variant_size = VARIANT_DATA_OFFSET + COMPONENT_SIZE -> Word(-1)
                     [] OTHER -> Word(0)
    IN  SubSeq([k \in 1 .. STACK_TOP \div 4 |-> word(k)], 1, STACK_TOP \div 4)

\* A program is loaded by running it to its stop.
load(image) ==
    run([ pc |-> 1, regs |-> Registers0, memory |-> InitialMemory(image.slots), status |-> "running",
          initializing |-> TRUE, permanent |-> <<>>, scoped |-> <<>>, loaned |-> 0, heap |-> <<>>, printed |-> <<>>,
          properties |-> <<>> ], image, MAX_STEPS)

\* The host puts the arguments on the stack, above them the Variant of the result.
ResultAddress(n) == ((STACK_TOP - variant_size * (n + 1)) \div 16) * 16

\* Of simple types only as much is written as the value has bytes.
put_argument(m, address, v) ==
    CASE TypeOf(v) \in {"INT", "FLOAT"} -> PutTagged(m, address, TypeOf(v), Payload(v))
      [] TypeOf(v) = "BOOL" ->
            PutTagged(m, address, "BOOL", <<WithByte(WordAt(m, address + VARIANT_DATA_OFFSET), v[2])>>)
      [] OTHER -> set_variant(m, address, v)

setup_arguments(m, args) ==
    LET sp == ResultAddress(Len(args))
        address(k) == sp + k * variant_size
        start == [m EXCEPT !.regs = [@ EXCEPT !["sp"] = Int64(sp), !["a0"] = Int64(sp), !["ra"] = Int64(EXIT_ADDRESS)],
                           !.scoped = <<>>, !.loaned = 0, !.initializing = FALSE, !.status = "running"]
    IN  FoldLeft(LAMBDA acc, k : put_argument([acc EXCEPT !.regs[ArgumentRegisters[k]] = Int64(address(k))],
                                      address(k), args[k]),
                 start, [k \in DOMAIN args |-> k])

\* A call of a function by the host: the machine it leaves and, if nothing was
\* thrown, the result.
vmcall(m, image, f, args) ==
    LET begin  == [setup_arguments(m, args) EXCEPT !.pc = image.labels[Function(f)]]
        end    == run(begin, image, MAX_STEPS)
        result == IF end.status = "returned" THEN toVariant(end, ResultAddress(Len(args))) ELSE <<>>
    IN  [begin |-> begin, end |-> end, result |-> result]
===============================================================================
