------------------------------ MODULE IRVerifier ------------------------------
(***************************************************************************)
(* The checks ir_verifier.cpp makes of a function before the first pass of *)
(* the optimizer and after every pass, from what the opcode table          *)
(* (ir_opcodes.def) says of operands and effects.                          *)
(*                                                                         *)
(* An instruction has its operands by their roles: dst, src, imm and lbl.  *)
(* The lengths of lists are those of src and lbl and never disagree with a *)
(* count.                                                                  *)
(***************************************************************************)
EXTENDS GDScriptIR

TYPE_UNKNOWN == "UNKNOWN"

-------------------------------------------------------------------------------
(* The opcode table. *)

Bitwise == {"BIT_AND", "BIT_OR", "BIT_XOR", "SHL", "SHR"}
Arithmetic == IR_ARITHMETIC \union Bitwise \union {"MUL", "MOD", "POW", "AND", "OR", "IN", "BIT_NOT"}
IR_CALL == {"CALL", "CALL_SYSCALL", "VCALL", "PRINT", "THROW", "GET_NODE"}

\* What the code generator makes vectors with, and of how many components.
VectorSize == [ MAKE_VECTOR2 |-> 2, MAKE_VECTOR2I |-> 2, MAKE_VECTOR3 |-> 3, MAKE_VECTOR3I |-> 3,
             MAKE_VECTOR4 |-> 4, MAKE_VECTOR4I |-> 4, MAKE_COLOR |-> 4 ]
VectorType == [ MAKE_VECTOR2 |-> "VECTOR2", MAKE_VECTOR2I |-> "VECTOR2I", MAKE_VECTOR3 |-> "VECTOR3",
                MAKE_VECTOR3I |-> "VECTOR3I", MAKE_VECTOR4 |-> "VECTOR4", MAKE_VECTOR4I |-> "VECTOR4I",
                MAKE_COLOR |-> "COLOR" ]

\* Opcodes without a destination, and those that end in a list of registers.
NoDestination == ControlFlow \union {"SWITCH", "STORE_GLOBAL", "THROW", "VSET", "ARRAY_SET", "DICT_SET"}
Variadic == {"CALL", "CALL_SYSCALL", "VCALL", "PRINT", "MAKE_ARRAY", "MAKE_DICTIONARY"}

\* The registers that are read, without those of the list.
fixed_sources(op) ==
    CASE op \in DOMAIN VectorSize -> VectorSize[op]
      [] op \in {"ARRAY_SET", "DICT_SET"} -> 3
      [] op \in {"VSET", "VSET_INLINE", "ARRAY_GET", "ARRAY_APPEND"} \union FusedBranches
                \union (Arithmetic \ {"NEG", "BIT_NOT"}) -> 2
      [] op \in {"MOVE", "CONVERT", "TYPE_TEST", "TYPE_OF", "NEG", "BIT_NOT", "NOT", "STORE_GLOBAL", "VCALL", "VGET",
                 "VGET_INLINE", "SWITCH", "BRANCH_ZERO", "BRANCH_NOT_ZERO"} -> 1
      [] OTHER -> 0

\* An instruction that changes a part of what a register holds defines it, too.
ir_destination_register(instr) == IF instr.op = "VSET_INLINE" THEN instr.src[1] ELSE instr.dst

-------------------------------------------------------------------------------
(* The checks. *)

\* max_registers covers the parameters and every register that is named.
check_register_range(code, params, max_registers) ==
    /\ max_registers >= params
    /\ Registers(code) \subseteq None .. max_registers - 1

check_operands(code) ==
    \A i \in DOMAIN code :
        LET op == code[i].op
        IN  /\ Len(code[i].src) >= fixed_sources(op)
            /\ op \notin Variadic => Len(code[i].src) = fixed_sources(op)
            /\ code[i].dst = None <=> op \in NoDestination \union {"VSET_INLINE"}
            /\ target_labels(code[i]) # {} => None \notin target_labels(code[i])

\* A dictionary is made of pairs.
check_argument_count(code) ==
    \A i \in Positions(code, {"MAKE_DICTIONARY"}) : Len(code[i].src) % 2 = 0

\* The back end writes to the destination of a call before it has read all arguments.
check_call_destination(code) ==
    \A i \in Positions(code, IR_CALL) : code[i].dst \notin Range(code[i].src)

check_labels(code) ==
    /\ \A i, j \in Positions(code, {"LABEL"}) : code[i].lbl = code[j].lbl => i = j
    /\ \A i \in DOMAIN code : target_labels(code[i]) \subseteq DOMAIN label_positions(code)

\* No register is read where it is not defined on every path.  The implicit
\* read of a RETURN is not checked.
check_definedness(code, params) ==
    LET next == successors(code)
        Readers(r) == {i \in DOMAIN code : r \in Range(code[i].src)}
    IN  \A r \in Registers(code) \ (0 .. params - 1) :
            Readers(r) \intersect reach(code, next, {1}, {1}, r) = {}

\* The type of what an instruction defines, with the types known before it.
result_type(instr, known) ==
    CASE instr.op = "LOAD_IMM"       -> "INT"
      [] instr.op = "LOAD_FLOAT_IMM" -> "FLOAT"
      [] instr.op = "LOAD_STRING"    -> "STRING"
      [] instr.op \in Comparisons \union {"LOAD_BOOL"} -> "BOOL"
      [] instr.op = "CONVERT"        -> instr.hint
      [] instr.op = "MOVE"           -> known[instr.src[1]]
      [] instr.op \in DOMAIN VectorSize -> VectorType[instr.op]
      [] instr.op = "MAKE_ARRAY"     -> "ARRAY"
      [] instr.op = "MAKE_DICTIONARY" -> "DICTIONARY"
      [] instr.op \in Arithmetic \ Comparisons /\ instr.hint # "NONE" -> instr.hint
      [] OTHER -> TYPE_UNKNOWN

transfer(instr, known) ==
    LET dst == ir_destination_register(instr)
    IN  IF dst = None THEN known ELSE [known EXCEPT ![dst] = result_type(instr, known)]

\* What two paths agree on.
merge_from(known, other) ==
    [r \in DOMAIN known |-> IF known[r] = other[r] THEN known[r] ELSE TYPE_UNKNOWN]

\* The types known before each instruction that control reaches, as they settle.
RECURSIVE settle(_, _, _, _)
settle(code, next, known, work) ==
    IF work = {} THEN known
    ELSE LET i       == CHOOSE j \in work : TRUE
             out     == transfer(code[i], known[i])
             After(j) == IF j \in DOMAIN known THEN merge_from(known[j], out) ELSE out
             changed == {j \in next[i] : j \notin DOMAIN known \/ After(j) # known[j]}
         IN  settle(code, next, [j \in changed |-> After(j)] @@ known, (work \ {i}) \union changed)

known_types(code) ==
    LET entry == [r \in Registers(code) \ {None} |-> TYPE_UNKNOWN]
    IN  settle(code, successors(code), [i \in {1} |-> entry], {1})

\* The hint of arithmetic, where there is one, is the type of all its operands as
\* far as it is known, and a conversion says what to.
check_type_hint(instr, known) ==
    IF instr.op = "CONVERT" THEN instr.hint # "NONE"
    ELSE \A r \in Range(instr.src) : known[r] \in {TYPE_UNKNOWN, instr.hint}

check_types(code) ==
    LET known  == known_types(code)
        Hinted == {i \in Positions(code, Arithmetic) : code[i].hint # "NONE"}
    IN  \A i \in Positions(code, {"CONVERT"}) \union Hinted :
            i \in DOMAIN known => check_type_hint(code[i], known[i])

ir_verify(code, params, max_registers) ==
    /\ check_register_range(code, params, max_registers)
    /\ check_operands(code)
    /\ check_argument_count(code)
    /\ check_call_destination(code)
    /\ check_labels(code)
    /\ check_definedness(code, params)
    /\ check_types(code)
===============================================================================
