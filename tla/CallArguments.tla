--------------------------- MODULE CallArguments ---------------------------
(***************************************************************************)
(* How the arguments of a call reach the guest and its result comes back   *)
(* (sandbox.cpp, setup_arguments; vmcallable.h).  Boxed arguments are      *)
(* GuestVariants on the guest's stack, seven pointers to them in a1 to a7  *)
(* and the others on the stack; unboxed ones are in integer and floating   *)
(* point registers as their types have it.  A callable puts the arguments  *)
(* bound to it before the given ones, in an array all of its calls share.  *)
(*                                                                         *)
(* The stack grows down from address 0 in words of eight bytes, of which a *)
(* GuestVariant takes three.  A call that is refused while another runs    *)
(* spoils the registers of that one: SandboxCalls describes it, and here   *)
(* only calls from outside are refused.                                    *)
(***************************************************************************)
EXTENDS Integers, Sequences, SequencesExt, Functions

CONSTANTS
  Arguments,         \* lists of arguments, each with kind and value
  NestedArguments,   \* those a call from within a call, or a callable, has
  Callables, BoundArguments,
  FrameWords,        \* what a guest function takes of it
  MaxNesting,        \* bound on calls in progress
  MaxEarly           \* guest functions of up to so many arguments write the
                     \* result before they have read them all

Kinds == {"integer", "float", "vector2", "two_integers", "other"}

ASSUME ArgumentsAssumption ==
  /\ FrameWords \in Nat /\ FrameWords % 2 = 0
  /\ MaxNesting \in Nat /\ MaxEarly \in Nat
  /\ \A list \in Arguments \cup NestedArguments \cup BoundArguments :
       /\ list \in Seq(Range(list))
       /\ \A i \in DOMAIN list : list[i].kind \in Kinds

VARIABLES
  unboxed,           \* m_use_unboxed_arguments
  stack,             \* the words of it that were written
  running,           \* the calls in progress, the innermost last: what was
                     \* given, the mode, the registers (x, f and sp on entry),
                     \* the stack pointer now and the slot of the result
  callables,         \* bound arguments and m_varargs_ptrs
  answer             \* what the last call to return wrote, and what came back

argument_vars == <<unboxed, stack, running, callables, answer>>

(* What a word of memory or a register holds: a part of something.         *)
Word(is, part) == [is |-> is, part |-> part]
Unknown == Word(<<"unknown", 0>>, 0)
Pointer(a) == Word(<<"pointer", a>>, 0)
NoAnswer == [written |-> Unknown.is, came |-> Unknown.is]
Untouched == [w \in {} |-> Unknown]
NotMade == [bound |-> <<>>, m_varargs_ptrs |-> <<>>]

ArgumentsInit ==
  /\ unboxed \in BOOLEAN /\ stack = Untouched /\ running = <<>>
  /\ callables = [c \in Callables |-> NotMade]
  /\ answer = NoAnswer

VariantWords == 3
Over(words, mem) ==
  [a \in DOMAIN words \cup DOMAIN mem |-> IF a \in DOMAIN words THEN words[a] ELSE mem[a]]
At(mem, a) == IF a \in DOMAIN mem THEN mem[a] ELSE Unknown
VariantAt(mem, a) ==
  LET is == At(mem, a).is
  IN  IF \A part \in 0..2 : At(mem, a + part) = Word(is, part) THEN is ELSE Unknown.is

-----------------------------------------------------------------------------
(* The host: placing the arguments. *)

Aligned(sp) == sp - (sp % 2)
\* As if the result's register were one of the arguments'.
Overflowing_Mutant(list) == IF Len(list) > 8 THEN Len(list) - 8 ELSE 0
Overflowing(list) == IF Len(list) > 7 THEN Len(list) - 7 ELSE 0

(* The words of the variants from address data on, the first being that of *)
(* the result; those of the kinds asked for are written.                   *)
Variants(data, list, kinds) ==
  [w \in {data + VariantWords * i + part :
             i \in {i \in DOMAIN list : list[i].kind \in kinds}, part \in 0..2} |->
     Word(list[(w - data) \div VariantWords].value, (w - data) % VariantWords)]

(* setup_arguments, boxed. *)
setup_boxed(sp, list) ==
  LET overflow_args == Overflowing(list)
      bottom == Aligned(sp - VariantWords * (Len(list) + 1) - overflow_args)
      data == bottom + overflow_args
      result == data + VariantWords * overflow_args
  IN  [sp |-> bottom, result |-> result,
       words |-> Over(Variants(data, list, Kinds),
                      [w \in bottom..data - 1 |-> Pointer(data + VariantWords * (w - bottom + 8))]),
       x |-> [r \in 10..17 |-> IF r = 10 THEN Pointer(result)
                               ELSE IF r - 10 \in DOMAIN list
                               THEN Pointer(data + VariantWords * (r - 10))
                               ELSE Unknown],
       f |-> [r \in 10..17 |-> Unknown]]

(* What an argument whose Variant would be at address a takes.             *)
Registers(arg, a) ==
  LET one == <<Word(arg.value, 0)>>
      two == <<Word(arg.value, 0), Word(arg.value, 1)>>
  IN  [x |-> CASE arg.kind = "integer"      -> one
               [] arg.kind = "two_integers" -> two
               [] arg.kind = "other"        -> <<Pointer(a)>>
               [] OTHER                     -> <<>>,
       f |-> CASE arg.kind = "float"   -> one
               [] arg.kind = "vector2" -> two
               [] OTHER                -> <<>>]

(* setup_arguments_native: the registers one after another. *)
setup_arguments_native(data, list) ==
  LET taken == [i \in DOMAIN list |-> Registers(list[i], data + VariantWords * i)]
  IN  [x |-> FlattenSeq([i \in DOMAIN list |-> taken[i].x]),
       f |-> FlattenSeq([i \in DOMAIN list |-> taken[i].f])]

setup_unboxed(sp, list) ==
  LET data == Aligned(sp - VariantWords * (Len(list) + 1))
      placed == setup_arguments_native(data, list)
  IN  [sp |-> data, result |-> data,
       words |-> Variants(data, list, {"other"}),
       x |-> [r \in 10..17 |-> IF r = 10 THEN Pointer(data)
                               ELSE IF r - 10 \in DOMAIN placed.x THEN placed.x[r - 10]
                               ELSE Unknown],
       f |-> [r \in 10..17 |-> IF r - 9 \in DOMAIN placed.f THEN placed.f[r - 9]
                               ELSE Unknown]]

setup_arguments(sp, list) == IF unboxed THEN setup_unboxed(sp, list) ELSE setup_boxed(sp, list)

(* Too many arguments, or registers: a1 to a7 and fa0 to fa7. *)
Refused(list) ==
  IF unboxed
  THEN LET placed == setup_arguments_native(0, list)
       IN  Len(list) > 11 \/ Len(placed.x) > 7 \/ Len(placed.f) > 8
  ELSE Len(list) > 16

-----------------------------------------------------------------------------
(* The guest: the calling convention, as its compilers have it. *)

Integers == [kind \in Kinds |-> CASE kind = "two_integers" -> 2
                                  [] kind \in {"integer", "other"} -> 1
                                  [] OTHER -> 0]
Floats == [kind \in Kinds |-> CASE kind = "vector2" -> 2 [] kind = "float" -> 1 [] OTHER -> 0]
(* The registers of a kind that the arguments before one of them take.     *)
Before(given, i, size) ==
  LET taken[j \in 0..Len(given)] == IF j = 0 THEN 0 ELSE taken[j - 1] + size[given[j].kind]
  IN  taken[i - 1]

Both(first, second) == IF second = Word(first.is, 1) THEN first.is ELSE Unknown.is
AtPointer(mem, word) == IF word.is[1] = "pointer" THEN VariantAt(mem, word.is[2])
                        ELSE Unknown.is

(* What a function finds as its parameter i, declared as it was given.     *)
Parameter(call, mem, i) ==
  LET kind == call.given[i].kind
      x == 11 + Before(call.given, i, Integers)
      f == 10 + Before(call.given, i, Floats)
  IN  CASE call.boxed -> AtPointer(mem, IF i <= 7 THEN call.x[10 + i]
                                        ELSE At(mem, call.sp + i - 8))
        [] ~call.boxed /\ kind = "integer" -> call.x[x].is
        [] ~call.boxed /\ kind = "float"   -> call.f[f].is
        [] ~call.boxed /\ kind = "vector2" -> Both(call.f[f], call.f[f + 1])
        [] ~call.boxed /\ kind = "two_integers" -> Both(call.x[x], call.x[x + 1])
        [] OTHER -> AtPointer(mem, call.x[x])

Local(depth) == Word(<<"local", depth>>, 0)
ResultOf(depth) == <<"result", depth>>
WithResult(mem, call, depth) ==
  LET a == call.x[10].is[2]
  IN  Over([w \in a..a + 2 |-> Word(ResultOf(depth), w - a)], mem)

-----------------------------------------------------------------------------
(* Calls. *)

PointerBelow(calls_running) == IF calls_running = <<>> THEN 0 ELSE Last(calls_running).low

(* From outside the stack pointer is set to the top, from within a call it *)
(* goes down by two words; the function takes its frame of the stack.      *)
vmcall_internal(list, given) ==
  LET depth == Len(running) + 1
      begin == setup_arguments(PointerBelow(running) - (IF running = <<>> THEN 0 ELSE 2), list)
      low == begin.sp - FrameWords
  IN  /\ depth <= MaxNesting /\ ~Refused(list)
      /\ stack' = Over([w \in low..begin.sp - 1 |-> Local(depth)], Over(begin.words, stack))
      /\ running' = Append(running, [given |-> given, boxed |-> ~unboxed,
                                     x |-> begin.x, f |-> begin.f, sp |-> begin.sp,
                                     low |-> low, result |-> begin.result,
                                     wrote |-> FALSE])
      /\ answer' = NoAnswer

(* Many arguments are given from outside while no callable is there.       *)
ListsNow == IF running = <<>> /\ \A c \in Callables : callables[c] = NotMade
            THEN Arguments ELSE NestedArguments

vmcall(list) == vmcall_internal(list, list) /\ UNCHANGED <<unboxed, callables>>

(* Nothing of the call is left but its result, which is Variant(). *)
vmcall_refused(list) ==
  /\ running = <<>> /\ Refused(list)
  /\ answer' = NoAnswer
  /\ UNCHANGED <<unboxed, stack, running, callables>>

write_result ==
  /\ running # <<>> /\ ~Last(running).wrote
  /\ Len(Last(running).given) <= MaxEarly
  /\ stack' = WithResult(stack, Last(running), Len(running))
  /\ running' = [running EXCEPT ![Len(running)].wrote = TRUE]
  /\ UNCHANGED <<unboxed, callables, answer>>

(* The host reads the result where it expects it.  What a call leaves      *)
(* below the stack pointer of its caller nobody relies on.                 *)
returns ==
  /\ running # <<>>
  /\ LET call == Last(running)
         mem == IF call.wrote THEN stack ELSE WithResult(stack, call, Len(running))
     IN  /\ answer' = [written |-> ResultOf(Len(running)), came |-> VariantAt(mem, call.result)]
         /\ stack' = Restrict(mem, {w \in DOMAIN mem : w >= PointerBelow(Front(running))})
  /\ running' = Front(running)
  /\ UNCHANGED <<unboxed, callables>>

set_unboxed_arguments ==
  /\ unboxed' = ~unboxed /\ answer' = NoAnswer
  /\ UNCHANGED <<stack, running, callables>>

-----------------------------------------------------------------------------
(* Callables. *)

NoArgument == [kind |-> "none", value |-> Unknown.is]
Slots8 == 1..8

vmcallable(c, bound) ==
  /\ callables[c] = NotMade
  /\ callables' = [callables EXCEPT ![c] =
                     [bound |-> bound,
                      m_varargs_ptrs |-> [i \in Slots8 |-> IF i \in DOMAIN bound THEN bound[i]
                                                           ELSE NoArgument]]]
  /\ UNCHANGED <<unboxed, stack, running, answer>>

(* The guest's system call binds one argument, or none if it is nil.       *)
api_callable_create(c, bound) ==
  /\ running # <<>> /\ Len(bound) <= 1
  /\ vmcallable(c, bound)

(* RiscvCallable::call, which refuses more than eight arguments. *)
call_callable(c, list) ==
  LET callable == callables[c]
      total == Len(callable.bound) + Len(list)
      pointers == [i \in Slots8 |->
                     IF i - Len(callable.bound) \in DOMAIN list
                     THEN list[i - Len(callable.bound)] ELSE callable.m_varargs_ptrs[i]]
  IN  /\ callable # NotMade
      /\ \/ /\ Len(callable.bound) > 0 /\ total <= 8
            /\ callables' = [callables EXCEPT ![c].m_varargs_ptrs = pointers]
            /\ vmcall_internal(SubSeq(pointers, 1, total), callable.bound \o list)
         \/ /\ Len(callable.bound) = 0
            /\ vmcall_internal(list, list)
            /\ UNCHANGED callables
      /\ UNCHANGED unboxed

ArgumentsNext ==
  \/ \E list \in ListsNow : vmcall(list) \/ vmcall_refused(list)
  \/ write_result \/ returns \/ set_unboxed_arguments
  \/ \E c \in Callables :
       \/ \E bound \in BoundArguments : \/ running = <<>> /\ vmcallable(c, bound)
                                       \/ api_callable_create(c, bound)
       \/ \E list \in NestedArguments : call_callable(c, list)

ArgumentsSpec == ArgumentsInit /\ [][ArgumentsNext]_argument_vars

-----------------------------------------------------------------------------
(* Every call in progress finds the arguments it was given, the bound ones *)
(* first, and the frame it had, whatever calls were made from within it,   *)
(* and what a function wrote as its result is what comes back.             *)
ArgumentsArrive ==
  /\ \A depth \in DOMAIN running :
       LET call == running[depth]
       IN  /\ \A i \in DOMAIN call.given : Parameter(call, stack, i) = call.given[i].value
           /\ \A w \in call.low..call.sp - 1 : At(stack, w) = Local(depth)
  /\ answer.came = answer.written
=============================================================================
