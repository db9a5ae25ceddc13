--------------------------- MODULE RegisterAllocator ---------------------------
(***************************************************************************)
(* The register allocator of the back end (register_allocator.cpp): which  *)
(* machine register holds which register of the intermediate code, and     *)
(* the pool of those that are free.                                        *)
(*                                                                         *)
(* Beside the allocator stands what the registers hold when its caller     *)
(* does what the answers ask for: a value is loaded to the register it was *)
(* given, and the moves around a host call are made in their order.        *)
(***************************************************************************)
EXTENDS Integers, SequencesExt, FiniteSetsExt, Functions

CONSTANTS VRegs,         \* registers of the intermediate code
          Pool,          \* the machine registers that may be given away, in order
          Forceable,     \* machine registers a caller may bind a value to by itself
          ClobberedLists,\* the registers host calls change, in the order they are given
          Code           \* the registers that each instruction names

PRegs == Range(Pool) \union Forceable \union UNION {Range(l) : l \in ClobberedLists}
NoValue == "no value"

ASSUME AllocatorAssumption ==
    /\ Code \in Seq(SUBSET VRegs) /\ Code # <<>>
    /\ NoValue \notin VRegs
    /\ Pool \in Seq(Range(Pool)) /\ IsInjective(Pool)
    /\ \A l \in ClobberedLists : l \in Seq(Range(l)) /\ Range(l) \intersect Range(Pool) = {}

VARIABLES allocator,         \* its maps and its list of free registers
          current_instr_idx,
          holds              \* whose value a machine register holds

allocator_vars == <<allocator, current_instr_idx, holds>>

AllocatorInit ==
    /\ allocator = [m_vreg_to_preg |-> <<>>, m_preg_to_vreg |-> <<>>, m_free_registers |-> Pool]
    /\ current_instr_idx = 1
    /\ holds = [p \in PRegs |-> NoValue]

Mapped(f, x, y) == [z \in DOMAIN f \cup {x} |-> IF z = x THEN y ELSE f[z]]
Without(f, x) == Restrict(f, DOMAIN f \ {x})

-------------------------------------------------------------------------------
(* What the operations make of an allocator. *)

compute_next_use == [vreg \in VRegs |-> {i \in DOMAIN Code : vreg \in Code[i]}]

get_next_use(vreg, idx) ==
    LET later == {i \in compute_next_use[vreg] : i > idx}
    IN  IF later = {} THEN -1 ELSE Min(later)

\* One that is not named again, or else one of those named last; which of them is
\* up to the order in the hash map.
find_spill_candidate(b, idx) ==
    LET mapped == DOMAIN b.m_vreg_to_preg
        dead   == {v \in mapped : get_next_use(v, idx) = -1}
    IN  IF dead # {} THEN dead
        ELSE {v \in mapped : \A w \in mapped : get_next_use(w, idx) <= get_next_use(v, idx)}

spill_register(b, vreg) ==
    IF vreg \notin DOMAIN b.m_vreg_to_preg THEN b
    ELSE [ m_vreg_to_preg   |-> Without(b.m_vreg_to_preg, vreg),
           m_preg_to_vreg   |-> Without(b.m_preg_to_vreg, b.m_vreg_to_preg[vreg]),
           m_free_registers |-> Append(b.m_free_registers, b.m_vreg_to_preg[vreg]) ]

\* The last of the free registers goes to vreg.
Given(b, vreg) ==
    LET preg == Last(b.m_free_registers)
    IN  [ m_vreg_to_preg   |-> Mapped(b.m_vreg_to_preg, vreg, preg),
          m_preg_to_vreg   |-> Mapped(b.m_preg_to_vreg, preg, vreg),
          m_free_registers |-> Front(b.m_free_registers) ]

\* The allocators that may come of it.
Allocated(b, vreg, idx) ==
    LET room == IF b.m_free_registers # <<>> THEN {b}
                ELSE {spill_register(b, v) : v \in find_spill_candidate(b, idx)}
    IN  IF vreg \in DOMAIN b.m_vreg_to_preg THEN {b} ELSE {Given(c, vreg) : c \in room}

\* A bug to be caught: the move is made only for values that are named again.
Vacated_Mutant(b, moves, preg) ==
    IF preg \notin DOMAIN b.m_preg_to_vreg THEN <<b, moves>>
    ELSE LET vreg == b.m_preg_to_vreg[preg]
             c    == [b EXCEPT !.m_preg_to_vreg = Without(@, preg)]
         IN  IF b.m_free_registers = <<>> THEN <<spill_register(b, vreg), moves>>
             ELSE <<Given(c, vreg), IF get_next_use(vreg, current_instr_idx) = -1 THEN moves
                                    ELSE Append(moves, <<preg, Last(b.m_free_registers)>>)>>

\* A value in a clobbered register is moved to a free one, or given up.
Vacated(b, moves, preg) ==
    IF preg \notin DOMAIN b.m_preg_to_vreg THEN <<b, moves>>
    ELSE LET vreg == b.m_preg_to_vreg[preg]
             c    == [b EXCEPT !.m_preg_to_vreg = Without(@, preg)]
         IN  IF b.m_free_registers = <<>> THEN <<spill_register(b, vreg), moves>>
             ELSE <<Given(c, vreg), Append(moves, <<preg, Last(b.m_free_registers)>>)>>

\* The allocator after all of them, and the moves the caller has to make.
handle_syscall_clobbering(b, clobbered) ==
    LET after[i \in 0..Len(clobbered)] ==
          IF i = 0 THEN <<b, <<>>>> ELSE Vacated(after[i - 1][1], after[i - 1][2], clobbered[i])
    IN  after[Len(clobbered)]

\* What the registers hold when the caller has made the moves in their order.
AfterMoves(h, moves) ==
    LET after[i \in 0..Len(moves)] ==
          IF i = 0 THEN h ELSE [after[i - 1] EXCEPT ![moves[i][2]] = after[i - 1][moves[i][1]]]
    IN  after[Len(moves)]

\* find and erase: the first entry for preg goes.
Erased(free, preg) ==
    IF preg \notin Range(free) THEN free
    ELSE RemoveAt(free, CHOOSE i \in DOMAIN free : free[i] = preg /\ \A j \in 1..i - 1 : free[j] # preg)

\* Bound without regard to what is free: who was there is evicted, and the
\* register vreg had is free.
Forced(b, vreg, preg) ==
    LET evicted == IF preg \in DOMAIN b.m_preg_to_vreg /\ b.m_preg_to_vreg[preg] # vreg
                   THEN Without(b.m_vreg_to_preg, b.m_preg_to_vreg[preg]) ELSE b.m_vreg_to_preg
        moves   == vreg \in DOMAIN evicted /\ evicted[vreg] # preg
        released == IF moves THEN Without(b.m_preg_to_vreg, evicted[vreg]) ELSE b.m_preg_to_vreg
        free    == IF moves THEN Append(b.m_free_registers, evicted[vreg]) ELSE b.m_free_registers
    IN  [ m_vreg_to_preg   |-> Mapped(evicted, vreg, preg),
          m_preg_to_vreg   |-> Mapped(released, preg, vreg),
          m_free_registers |-> Erased(free, preg) ]

-------------------------------------------------------------------------------
(* The operations. *)

\* The code is walked from its start to its end.
next_instruction ==
    /\ current_instr_idx < Len(Code)
    /\ current_instr_idx' = current_instr_idx + 1
    /\ UNCHANGED <<allocator, holds>>

\* The caller loads the value unless it is there.
allocate_register(vreg) ==
    /\ \E b \in Allocated(allocator, vreg, current_instr_idx) :
         /\ allocator' = b
         /\ holds' = IF vreg \in DOMAIN allocator.m_vreg_to_preg THEN holds
                     ELSE [holds EXCEPT ![b.m_vreg_to_preg[vreg]] = vreg]
    /\ UNCHANGED current_instr_idx

free_register(vreg) ==
    /\ vreg \in DOMAIN allocator.m_vreg_to_preg
    /\ allocator' = spill_register(allocator, vreg)
    /\ UNCHANGED <<current_instr_idx, holds>>

\* The Variant on the stack was changed, and not the register.
invalidate_register(vreg) ==
    /\ vreg \in DOMAIN allocator.m_vreg_to_preg
    /\ allocator' = spill_register(allocator, vreg)
    /\ holds' = [holds EXCEPT ![allocator.m_vreg_to_preg[vreg]] = NoValue]
    /\ UNCHANGED current_instr_idx

force_register_mapping(vreg, preg) ==
    /\ allocator' = Forced(allocator, vreg, preg)
    /\ holds' = [holds EXCEPT ![preg] = vreg]
    /\ UNCHANGED current_instr_idx

\* The caller makes the moves, and the host call changes the registers.
spill_around_syscall(clobbered) ==
    LET after == handle_syscall_clobbering(allocator, clobbered)
    IN  /\ allocator' = after[1]
        /\ holds' = [p \in PRegs |-> IF p \in Range(clobbered) THEN NoValue
                                    ELSE AfterMoves(holds, after[2])[p]]
        /\ UNCHANGED current_instr_idx

\* The allocator is made anew for every function.
init ==
    /\ current_instr_idx = Len(Code)
    /\ allocator' = [m_vreg_to_preg |-> <<>>, m_preg_to_vreg |-> <<>>, m_free_registers |-> Pool]
    /\ current_instr_idx' = 1
    /\ UNCHANGED holds

AllocatorNext ==
    \/ next_instruction
    \/ init
    \/ \E vreg \in VRegs : allocate_register(vreg)
    \/ \E vreg \in VRegs : free_register(vreg)
    \/ \E vreg \in VRegs : invalidate_register(vreg)
    \/ \E vreg \in VRegs, preg \in Forceable : force_register_mapping(vreg, preg)
    \/ \E clobbered \in ClobberedLists : spill_around_syscall(clobbered)

AllocatorSpec == AllocatorInit /\ [][AllocatorNext]_allocator_vars

-------------------------------------------------------------------------------
(* Properties. *)

\* No two values share a register, the map from registers to values is the map
\* from values to registers, read backwards, no register is free twice or free
\* while it is taken, and none of the pool is lost, whatever is bound by force,
\* evicted or moved around host calls: there is always one to allocate.
RegistersAreAccounted ==
    LET taken == Range(allocator.m_vreg_to_preg)
        free  == Range(allocator.m_free_registers)
    IN  /\ DOMAIN allocator.m_preg_to_vreg = taken
        /\ \A v \in DOMAIN allocator.m_vreg_to_preg : allocator.m_preg_to_vreg[allocator.m_vreg_to_preg[v]] = v
        /\ Len(allocator.m_free_registers) = Cardinality(free)
        /\ taken \intersect free = {}
        /\ Range(Pool) \subseteq taken \union free

\* A register that is said to hold a value does, also after the host calls
\* between loading and use, and the maps and the pool account for all registers.
RegistersHoldTheirValues ==
    /\ RegistersAreAccounted
    /\ \A v \in DOMAIN allocator.m_vreg_to_preg : holds[allocator.m_vreg_to_preg[v]] = v
===============================================================================
