---------------------------- MODULE SandboxCalls ----------------------------
(***************************************************************************)
(* Calls into the guest of one Sandbox (sandbox.cpp): loading a program    *)
(* runs its main(), the host calls guest functions, guest code calls back  *)
(* into the host through system calls, and from there the host may call    *)
(* again, reload, or change settings.                                      *)
(*                                                                         *)
(* m_states is an array of MaxLevel call states.  Level 0 is the permanent *)
(* state and belongs to main(); every call takes the next level.  A call   *)
(* at level 1 takes the machine as it finds it, a call at a higher level   *)
(* ("reentrant") saves the registers first and gives them back afterwards. *)
(*                                                                         *)
(* Statistics (m_exceptions, m_timeouts, m_calls_made), printing and the   *)
(* backtraces of handle_exception are left out.  What the host passes and  *)
(* gets back is in ScopedVariants and ScopedObjects.                       *)
(***************************************************************************)
EXTENDS Naturals, Sequences, SequencesExt

CONSTANTS
  MaxLevel,          \* MAX_LEVEL, the length of m_states
  Machines,          \* the machines that can be allocated
  NoMachine,         \* dummy_machine
  Settings,          \* execution modes the host selects between
  RefusedLevels,     \* levels at which setup_arguments refuses some arguments
  MainMayCallHost,   \* does a system call of main() reach code of the host
  ReconfiguresInCalls, \* does the host change unboxed_arguments during a call
  IsEditor,          \* Engine::is_editor_hint()
  EditorThrottle,    \* EDITOR_THROTTLE
  Fuel               \* system calls a function makes before its time is up

ExecutionSettings == [limited : BOOLEAN, precise : BOOLEAN, profiled : BOOLEAN]

ASSUME CallsAssumption ==
  /\ MaxLevel \in Nat /\ MaxLevel >= 2
  /\ NoMachine \notin Machines
  /\ Settings \subseteq ExecutionSettings /\ Settings # {}
  /\ RefusedLevels \subseteq 1..(MaxLevel - 1)
  /\ MainMayCallHost \in BOOLEAN
  /\ ReconfiguresInCalls \in BOOLEAN
  /\ IsEditor \in BOOLEAN
  /\ EditorThrottle \in Nat
  /\ Fuel \in Nat

VARIABLES
  frames,      \* activations of guest code, the innermost one last
  control,     \* "guest" while the machine simulates, else "host"
  level,       \* m_current_state - &m_states[0]
  machine,     \* m_machine
  cpu,         \* the activation whose registers are in the machine, 0 for none
  unboxed,     \* m_use_unboxed_arguments
  throttled,   \* m_throttled, a uint8_t
  settings,    \* m_insn_max > 0, m_precise_simulation, profiling
  chosen       \* history: the unboxed_arguments the host last asked for

vars == <<frames, control, level, machine, cpu, unboxed, throttled, settings,
          chosen>>

ThrottleValues == 0..(2^8 - 1)

Frame == [entry    : {"main", "plain", "boxed"},
          level    : 0..(MaxLevel - 1),
          machine  : Machines,
          caller   : Nat,             \* owner of the registers saved on entry
          previous : BOOLEAN,         \* the setting a "boxed" entry restores
          bounded  : BOOLEAN,         \* is the instruction limit enforced
          fuel     : 0..Fuel]

(* Types only; what relates the variables is in the invariants below. *)
TypeOK == /\ frames \in Seq(Frame)
          /\ control \in {"host", "guest"}
          /\ level \in 0..(MaxLevel - 1)
          /\ machine \in Machines \cup {NoMachine}
          /\ cpu \in Nat
          /\ unboxed \in BOOLEAN
          /\ throttled \in ThrottleValues
          /\ settings \in Settings
          /\ chosen \in BOOLEAN

Depth == Len(frames)
Top == Last(frames)

(* Definitions named ..._Mutant are the next definition with a plausible   *)
(* mistake in it; no other definition uses them.                           *)
is_in_vmcall_Mutant == level > 1

is_in_vmcall == level # 0

Init == /\ frames = <<>> /\ control = "host" /\ level = 0
        /\ machine = NoMachine /\ cpu = 0
        /\ unboxed \in BOOLEAN /\ chosen = unboxed
        /\ throttled = 0
        /\ settings \in Settings

-----------------------------------------------------------------------------
(* Loading a program: set_program, load_buffer and reset share full_reset  *)
(* and load.  The machine is deleted, the call states are reinitialized,   *)
(* and main() of the new program runs at level 0.                          *)

LiveMachines == {frames[i].machine : i \in 1..Depth} \cup {machine}

Enter(frame) == /\ frames' = Append(frames, frame)
                /\ control' = "guest"
                /\ cpu' = Depth + 1

load == /\ control = "host" /\ ~is_in_vmcall
        /\ \E m \in Machines \ LiveMachines :
             /\ machine' = m
             /\ Enter([entry |-> "main", level |-> 0, machine |-> m,
                       caller |-> 0, previous |-> unboxed,
                       bounded |-> settings.limited, fuel |-> Fuel])
        /\ level' = 0
        /\ UNCHANGED <<unboxed, throttled, settings, chosen>>

(* The binary was refused by the machine's constructor, or it was empty,   *)
(* or reset(true) unloaded it: the Sandbox is left with the dummy machine. *)
unload == /\ control = "host" /\ ~is_in_vmcall
          /\ machine' = NoMachine
          /\ level' = 0
          /\ cpu' = 0
          /\ UNCHANGED <<frames, control, unboxed, throttled, settings, chosen>>

-----------------------------------------------------------------------------
(* vmcall_internal and its callers.  "boxed" is vmcallv() and the setter   *)
(* of a property, which switch m_use_unboxed_arguments off for the call;   *)
(* "named" is vmcall_fn(), which the editor throttles; "plain" is every    *)
(* other caller.                                                           *)

Entries == {"plain", "named", "boxed"}

MayEnter(entry) == /\ control = "host" /\ machine # NoMachine
                   /\ entry = "named" => throttled = 0

reentrant_Mutant(at) == at > 2

reentrant(at) == at > 1

enforces_limit_Mutant(at) == settings.limited /\ ~reentrant(at)

(* Precise simulation and the sampling profiler exist only at level 1; the *)
(* profiler's loop goes on whenever the limit is reached.                  *)
enforces_limit(at) ==
  settings.limited /\ (reentrant(at) \/ settings.precise \/ ~settings.profiled)

vmcall_internal(entry) ==
  /\ MayEnter(entry)
  /\ level + 1 < MaxLevel
  /\ level' = level + 1
  /\ unboxed' = IF entry = "boxed" THEN FALSE ELSE unboxed
  /\ Enter([entry    |-> IF entry = "boxed" THEN "boxed" ELSE "plain",
            level    |-> level + 1,
            machine  |-> machine,
            caller   |-> IF reentrant(level + 1) THEN cpu ELSE 0,
            previous |-> unboxed,
            bounded  |-> enforces_limit(level + 1),
            fuel     |-> Fuel])
  /\ UNCHANGED <<machine, throttled, settings, chosen>>

refuse_too_deep_Mutant(entry) ==
  /\ MayEnter(entry)
  /\ level + 1 >= MaxLevel
  /\ level' = level + 1
  /\ UNCHANGED <<frames, control, machine, cpu, unboxed, throttled, settings,
                 chosen>>

(* All call states are in use: the level goes up, is found to be past the  *)
(* end, and goes down again.                                               *)
refuse_too_deep(entry) ==
  /\ MayEnter(entry)
  /\ level + 1 >= MaxLevel
  /\ level' = level
  /\ UNCHANGED <<frames, control, machine, cpu, unboxed, throttled, settings,
                 chosen>>

throttle == throttled' = IF IsEditor THEN (throttled + EditorThrottle) % 2^8
                                     ELSE throttled

refuse_arguments_Mutant(entry) ==
  /\ MayEnter(entry)
  /\ level + 1 \in RefusedLevels
  /\ level' = level + 1
  /\ cpu' = 0
  /\ throttle
  /\ UNCHANGED <<frames, control, machine, unboxed, settings, chosen>>

(* setup_arguments throws: too many arguments, too many registers, no room *)
(* for another scoped Variant or object.  RA, SP and some argument         *)
(* registers have been written by then.                                    *)
refuse_arguments(entry) ==
  /\ MayEnter(entry)
  /\ level + 1 \in RefusedLevels
  /\ level' = level
  /\ cpu' = 0
  /\ throttle
  /\ UNCHANGED <<frames, control, machine, unboxed, settings, chosen>>

(* vmcall_fn() while the throttle is on. *)
skip_throttled ==
  /\ control = "host" /\ throttled > 0
  /\ throttled' = throttled - 1
  /\ UNCHANGED <<frames, control, level, machine, cpu, unboxed, settings,
                 chosen>>

-----------------------------------------------------------------------------
(* Guest code runs. *)

syscall ==
  /\ control = "guest"
  /\ Top.entry = "main" => MainMayCallHost
  /\ Top.bounded => Top.fuel > 0
  /\ control' = "host"
  /\ frames' = IF Top.bounded THEN [frames EXCEPT ![Depth].fuel = @ - 1]
                              ELSE frames
  /\ UNCHANGED <<level, machine, cpu, unboxed, throttled, settings, chosen>>

syscall_returns ==
  /\ control = "host" /\ Depth > 0
  /\ control' = "guest"
  /\ UNCHANGED <<frames, level, machine, cpu, unboxed, throttled, settings,
                 chosen>>

(* main() returns, faults or runs into the limit; load() goes on. *)
main_ends ==
  /\ control = "guest" /\ Top.entry = "main"
  /\ frames' = Front(frames) /\ control' = "host"
  /\ cpu' = 0
  /\ UNCHANGED <<level, machine, unboxed, throttled, settings, chosen>>

Leave_KeepsRegisters_Mutant ==
  /\ frames' = Front(frames) /\ control' = "host"
  /\ cpu' = cpu
  /\ level' = level - 1
  /\ unboxed' = IF Top.entry = "boxed" THEN Top.previous ELSE unboxed
  /\ UNCHANGED <<machine, settings, chosen>>

Leave_KeepsSetting_Mutant ==
  /\ frames' = Front(frames) /\ control' = "host"
  /\ cpu' = IF reentrant(level) THEN Top.caller ELSE 0
  /\ level' = level - 1
  /\ unboxed' = unboxed
  /\ UNCHANGED <<machine, settings, chosen>>

(* The end of vmcall_internal: preempt_internal has put the saved          *)
(* registers back in any case, the level goes down, and the caller's       *)
(* setting is restored.                                                    *)
Leave == /\ frames' = Front(frames) /\ control' = "host"
         /\ cpu' = IF reentrant(level) THEN Top.caller ELSE 0
         /\ level' = level - 1
         /\ unboxed' = IF Top.entry = "boxed" THEN Top.previous ELSE unboxed
         /\ UNCHANGED <<machine, settings, chosen>>

vmcall_returns == /\ control = "guest" /\ Top.entry # "main"
                  /\ Leave /\ UNCHANGED throttled

(* The function faults, or the conversion of what it returned does. *)
vmcall_fails == /\ control = "guest" /\ Top.entry # "main"
                /\ Leave /\ throttle

(* MachineTimeoutException: the limit ends main() and calls alike. *)
time_out == /\ control = "guest" /\ Top.bounded
            /\ main_ends \/ vmcall_fails

-----------------------------------------------------------------------------
(* The setters of the execution settings.  They do not look at the calls   *)
(* in progress, but that enable_profiling() refuses to turn profiling off. *)
set_unboxed_arguments ==
  /\ control = "host"
  /\ Depth = 0 \/ ReconfiguresInCalls
  /\ unboxed' \in BOOLEAN /\ chosen' = unboxed'
  /\ UNCHANGED <<frames, control, level, machine, cpu, throttled, settings>>

set_execution_settings ==
  /\ control = "host"
  /\ settings' \in Settings
  /\ is_in_vmcall /\ settings.profiled => settings'.profiled
  /\ UNCHANGED <<frames, control, level, machine, cpu, unboxed, throttled,
                 chosen>>

Next ==
  \/ load
  \/ unload
  \/ \E entry \in Entries : \/ vmcall_internal(entry)
                            \/ refuse_too_deep(entry)
                            \/ refuse_arguments(entry)
  \/ skip_throttled
  \/ syscall
  \/ syscall_returns
  \/ main_ends
  \/ vmcall_returns
  \/ vmcall_fails
  \/ time_out
  \/ set_unboxed_arguments
  \/ set_execution_settings

Spec == Init /\ [][Next]_vars

(* The interpreter counts instructions for as long as it runs, so a limit  *)
(* that is enforced is reached; and the host code behind a system call     *)
(* returns.  Both hold of every activation, whatever the others do.  There *)
(* is a main() for every machine at most, and a call for every level.      *)
MostFrames == Cardinality(Machines) + MaxLevel - 1

Fairness == \A d \in 1..MostFrames :
               /\ WF_vars(time_out /\ Depth = d)
               /\ SF_vars(syscall_returns /\ Depth = d)

FairSpec == Spec /\ Fairness

-----------------------------------------------------------------------------
(* The level names the call state of the innermost activation: it goes up  *)
(* by one for every call, main() runs at level 0 and below every call, and *)
(* the level never leaves the array.  vmcall_internal moves                *)
(* m_current_state on each of its paths, load() on none.                   *)
LevelDiscipline ==
  /\ level < MaxLevel
  /\ level = IF Depth = 0 THEN 0 ELSE Top.level
  /\ \A i \in 1..Depth :
       frames[i].level = IF frames[i].entry = "main" THEN 0
                         ELSE IF i = 1 THEN 1 ELSE frames[i-1].level + 1
  /\ \A i, j \in 1..Depth :
       i < j /\ frames[j].entry = "main" => frames[i].entry = "main"

(* No program is loaded and no machine deleted under a guest call: the     *)
(* guards of set_program, load_buffer and reset look at the level only.    *)
CallsRunOnTheirMachine ==
  \A i \in 1..Depth : frames[i].entry # "main" => frames[i].machine = machine

(* The same for all guest code, main() included.                           *)
CodeRunsOnItsMachine == \A i \in 1..Depth : frames[i].machine = machine

(* Guest code that runs, runs on the registers it had when it was last     *)
(* interrupted: what nested calls did to the register file is undone,      *)
(* whether they returned, failed or were refused.                          *)
GuestRunsOnItsRegisters == control = "guest" => cpu = Depth

(* unboxed_arguments is what the host chose, except while a call that      *)
(* needs Variant arguments is in progress.                                 *)
SettingIsTheHosts ==
  (\A i \in 1..Depth : frames[i].entry # "boxed") => unboxed = chosen

(* Every activation of guest code ends (under FairSpec).                   *)
ActivationsEnd == \A d \in 1..MostFrames : Depth >= d ~> Depth < d

(* SandboxCalls implements NestedCalls.                                    *)
Promise == INSTANCE NestedCalls WITH
             MaxDepth <- MaxLevel - 1, depth <- Depth, registers <- cpu

Refinement == Promise!Spec
=============================================================================
