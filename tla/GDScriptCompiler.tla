--------------------------- MODULE GDScriptCompiler ---------------------------
(***************************************************************************)
(* From a program to what it does: the code generator, the back end and    *)
(* the sandbox that runs the machine code, compared with what the program  *)
(* means (GDScriptSemantics).                                              *)
(*                                                                         *)
(* A source is a program and the calls a host makes of its functions, one  *)
(* after the other: pairs of a name and the arguments.  The optimizer,     *)
(* which stands between the two, is left out here: IROptimizer is about it.*)
(*                                                                         *)
(* The front end, the register allocator and the encoder of instructions   *)
(* move by themselves: each is compared with what it promises to the part  *)
(* behind it, for more inputs than the programs here would give it.        *)
(***************************************************************************)
EXTENDS RISCVMachine, IRVerifier, GDScriptFrontEnd, RegisterAllocator, RISCVEncoding

CONSTANTS Sources,      \* what there is to compile and to call
          LOOP_LIMIT    \* rounds after which a loop counts as endless

S == INSTANCE GDScriptSemantics

VARIABLES source,    \* what is compiled
          compiled,  \* whether it has been
          moving     \* the part that moves

compiler_vars == <<source, compiled>>
vars == <<compiler_vars, front_end_vars, allocator_vars, encoding_vars, moving>>

NoSource == [program |-> EmptyProgram, calls |-> <<>>]

Init ==
    /\ compiled = FALSE
    /\ moving \in {"compiler", "front end", "allocator", "encoder"}
    /\ \/ moving = "compiler" /\ source \in Sources
       \/ moving # "compiler" /\ source = NoSource
    /\ \/ moving = "front end" /\ FrontEndInit
       \/ moving # "front end" /\ LexerInit({<<>>}) /\ written = <<>> /\ parsed = FALSE
    /\ AllocatorInit
    /\ EncodingInit
    /\ moving # "encoder" => ~double_precision

compile == ~compiled /\ compiled' = TRUE /\ UNCHANGED source

CompilerNext ==
    /\ UNCHANGED moving
    /\ \/ /\ moving = "compiler" /\ compile
          /\ UNCHANGED <<front_end_vars, allocator_vars, encoding_vars>>
       \/ /\ moving = "front end" /\ FrontEndNext
          /\ UNCHANGED <<compiler_vars, allocator_vars, encoding_vars>>
       \/ /\ moving = "allocator" /\ AllocatorNext
          /\ UNCHANGED <<compiler_vars, front_end_vars, encoding_vars>>
       \/ /\ moving = "encoder" /\ EncodingNext
          /\ UNCHANGED <<compiler_vars, front_end_vars, allocator_vars>>

Spec == Init /\ [][CompilerNext]_vars

-------------------------------------------------------------------------------
(* The machine and the store of the meaning, call by call. *)

\* A call of each: its beginning and end on the machine, its result there, and the
\* store it leaves.
Call(image, program, c, m, store) ==
    LET there == vmcall(m, image, c[1], c[2])
    IN  [ begin |-> there.begin, m |-> there.end, result |-> there.result,
          store |-> S!Called(program, c[1], c[2], [store EXCEPT !.status = "next"]) ]

\* The program is loaded, and then every call is made; those that come after one
\* the language gives no meaning to are not.
History(program, image, calls) ==
    LET first == [begin |-> load(image), m |-> load(image), result |-> <<>>, store |-> S!Started(program)]
    IN  FoldLeft(LAMBDA made, c :
                    IF Last(made).store.status = "undefined" THEN made
                    ELSE Append(made, Call(image, program, c, Last(made).m, Last(made).store)),
                 <<first>>, calls)

\* What has a meaning of a history.
Meant(made) == {k \in DOMAIN made : made[k].store.status # "undefined"}

Slot(i) == (i - 1) * variant_size

SameGlobals(ir, m, store) ==
    \A i \in DOMAIN ir.globals :
        LET here == toVariant(m, Slot(i))
        IN  /\ here # <<>>
            /\ Contents(here[1], m.heap) = Contents(store.globals[ir.globals[i].name][2], store.heap)

\* What the host can tell of a call: how it ended, what came back, what was printed
\* and what the globals hold.
Agrees(ir, made) ==
    LET m == made.m
        store == made.store
    IN  /\ (m.status = "thrown") = (store.status = "thrown")
        /\ m.status \in {"thrown", "returned", "stopped"}
        /\ m.status = "returned" =>
              made.result # <<>> /\ Contents(made.result[1], m.heap) = Contents(store.val, store.heap)
        /\ m.printed = store.printed
        /\ SameGlobals(ir, m, store)

-------------------------------------------------------------------------------
(* Properties. *)

\* Every source of a family is one the compiler takes, and every call of it does
\* what the program means, with whatever the loading and the calls before it left
\* in the stack, in the globals and with the host.  The code generator chooses
\* between native and host operations by the types it knows, and the back end
\* between registers, frames and the result of the caller
\* (riscv_codegen.cpp:314-416, 1213-1306, 1583-2118): a slot that is read with the
\* wrong type, an address taken before the stack moves or an a0 that a host call
\* has overwritten gives another result.  The verifier takes what the code
\* generator leaves (ir_optimizer.cpp:105-108): registers are defined on all ways
\* to where they are read, and no way to an operation on values of one type brings
\* a value of another.
MachineMeansTheSource ==
    [][ compiled' =>
        LET ir    == generate(source.program)
            image == generate_code(ir)
            made  == History(source.program, image, source.calls)
        IN  /\ ir.error = ""
            /\ \A f \in Range(ir.functions) : ir_verify(f.code, f.params, f.max_registers)
            /\ ir_verify(ir.global_init, 0, ir.global_registers)
            /\ \A k \in Meant(made) : Agrees(ir, made[k]) ]_compiler_vars

\* What is above the frame of a function the host calls -- the arguments, and the
\* stack of whoever called before -- stays what it is, except for the Variant the
\* result goes to, and the stack pointer comes back to where it was, however the
\* function made room for names, arguments and frames on its way
\* (riscv_codegen.cpp:381-416, 658-875, 1880-1905).
OnlyTheResultIsWritten ==
    [][ compiled' =>
        LET image == generate_code(generate(source.program))
            made  == History(source.program, image, source.calls)
        IN  \A k \in Meant(made) : made[k].m.status = "returned" =>
                LET sp == IntOf(made[k].begin.regs["sp"])
                IN  /\ made[k].m.regs["sp"] = Int64(sp)
                    /\ \A at \in At(sp) .. Len(made[k].m.memory) :
                          \/ at \in At(sp) .. At(sp) + variant_size \div 4 - 1
                          \/ made[k].m.memory[at] = made[k].begin.memory[at] ]_compiler_vars

\* A global of a type the host keeps the values of names a value that is there for
\* as long as the program is loaded, and never one of the call that stored to it:
\* those are gone when the next call begins (sandbox.cpp:1272-1297, 1389-1414,
\* riscv_codegen.cpp:877-943).
GlobalsOutliveCalls ==
    [][ compiled' =>
        LET ir   == generate(source.program)
            made == History(source.program, generate_code(ir), source.calls)
        IN  \A k \in Meant(made) : \A i \in DOMAIN ir.globals :
                is_complex_variant_type(ir.globals[i].value_type) =>
                    /\ -IndexAt(made[k].m, Slot(i)) \in DOMAIN made[k].m.permanent
                    /\ TagAt(made[k].m, Slot(i)) = Tags[ir.globals[i].value_type] ]_compiler_vars
===============================================================================
