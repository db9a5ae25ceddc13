--------------------------- MODULE SafeGDScripts ---------------------------
(***************************************************************************)
(* SafeGDScript scripts (safegdscript/script_safegdscript.cpp and          *)
(* script_instance_safegdscript.cpp) and their profiler                    *)
(* (profiling_safegdscript.cpp).  A script compiles its source, in a       *)
(* Sandbox of the compiler's, to a program and a table of the signatures   *)
(* of its functions; the Sandbox its instances share is given the program. *)
(* A call is completed by the table before it goes into the program, and   *)
(* the profiler names the counters of an instrumented program by it.       *)
(***************************************************************************)
EXTENDS Integers, Sequences, SequencesExt, FiniteSets

CONSTANTS
  Safe,               \* the SafeGDScript objects, by their addresses
  Sources,            \* what may be written in a script
  Signatures,         \* for each source its functions, in their order, each
                      \* with name, required and expected; none if it is wrong
  Nothing,            \* no source, no program, no snapshot
  MaxInstances, MaxDepth, MaxCount,   \* bounds
  CompilesInCalls     \* is a script compiled while one of its calls runs

ASSUME SafeAssumption ==
  /\ Nothing \notin Sources /\ Nothing \notin [source : Sources, profiled : BOOLEAN]
  /\ DOMAIN Signatures = Sources
  /\ {MaxInstances, MaxDepth, MaxCount} \subseteq Nat
  /\ CompilesInCalls \in BOOLEAN

(* A source lists each of its functions once.                              *)
ASSUME SignaturesAssumption ==
  \A source \in Sources :
    LET listed == Signatures[source]
    IN  /\ Len(listed) \in Nat /\ DOMAIN listed = 1..Len(listed)
        /\ \A i \in DOMAIN listed : listed[i].expected \in Nat
        /\ \A i, j \in DOMAIN listed : listed[i].name = listed[j].name => i = j

VARIABLES
  sgd,                \* source_code, elf_data, profiled_build, and the source
                      \* the signatures and methods_info are of
  users,              \* the number of instances of each script
  box_of,             \* the Sandbox they share: its program, its counters,
                      \* m_profiling_enabled
  calls,              \* the calls in progress, the innermost last
  collecting,         \* g_collecting
  previous, baseline  \* g_previous, g_baseline

safe_vars == <<sgd, users, box_of, calls, collecting, previous, baseline>>

NoScript == [source_code |-> Nothing, elf_data |-> Nothing, profiled_build |-> FALSE,
             signatures |-> Nothing]
NoMachine == [program |-> Nothing, records |-> <<>>, m_profiling_enabled |-> FALSE]

SafeInit ==
  /\ sgd = [s \in Safe |-> NoScript]
  /\ users = [s \in Safe |-> 0]
  /\ box_of = [s \in Safe |-> NoMachine]
  /\ calls = <<>> /\ collecting = FALSE
  /\ previous = [s \in Safe |-> <<>>] /\ baseline = [s \in Safe |-> <<>>]

-----------------------------------------------------------------------------
Functions(source) == IF source = Nothing THEN <<>> ELSE Signatures[source]

(* The signature of a function in a table, none if it is not listed.       *)
FindIn(table, f) == {table[i] : i \in {j \in DOMAIN table : table[j].name = f}}

Busy(s) == \E i \in DOMAIN calls : calls[i].script = s

(* Definitions named ..._Mutant are the next definition with a plausible   *)
(* mistake in it; no other definition uses them.                           *)

(* Sandbox::load_buffer: refused during a call; the counters are in the    *)
(* memory of the program.                                                  *)
Loaded(box, s, program) ==
  IF Busy(s) THEN box
  ELSE [box EXCEPT !.program = program,
                   !.records = IF program = Nothing \/ ~program.profiled THEN <<>>
                               ELSE [i \in DOMAIN Functions(program.source) |-> 0]]

(* compile_source_to_elf.  A source that is wrong leaves an empty program  *)
(* and the old tables; a compiler that fails leaves everything.            *)
Compiled_Mutant(script, profiling) ==
  LET program == [source |-> script.source_code, profiled |-> profiling]
  IN  IF script.source_code = Nothing THEN script
      ELSE IF Signatures[script.source_code] = <<>>
      THEN [script EXCEPT !.signatures = script.source_code]
      ELSE [script EXCEPT !.elf_data = program, !.profiled_build = profiling,
                          !.signatures = script.source_code]

Compiled(script, profiling) ==
  LET program == [source |-> script.source_code, profiled |-> profiling]
  IN  IF script.source_code = Nothing THEN script
      ELSE IF Signatures[script.source_code] = <<>>
      THEN [script EXCEPT !.elf_data = Nothing, !.profiled_build = profiling]
      ELSE [script EXCEPT !.elf_data = program, !.profiled_build = profiling,
                          !.signatures = script.source_code]

(* The Sandbox of a script that was compiled, if it has instances.         *)
ResetTo_Mutant(s, script) ==
  IF \/ users[s] = 0 \/ script.elf_data = Nothing \/ script.source_code = Nothing
     \/ box_of[s].records # <<>>
  THEN box_of[s]
  ELSE Loaded(box_of[s], s, script.elf_data)

ResetTo(s, script) ==
  IF users[s] = 0 \/ script.elf_data = Nothing \/ script.source_code = Nothing
  THEN box_of[s]
  ELSE Loaded(box_of[s], s, script.elf_data)

(* read_records: nothing unless the build is instrumented, the program has *)
(* the area, and the count is that of the table.                           *)
read_records(script, box) ==
  IF script.profiled_build /\ Len(box.records) = Len(Functions(script.signatures))
  THEN box.records ELSE <<>>

-----------------------------------------------------------------------------
(* set_path, _set_source_code, _reload and the STORAGE property: a source  *)
(* is written and compiled without instrumentation.                        *)
edit(s, source) ==
  /\ CompilesInCalls \/ ~Busy(s)
  /\ LET script == Compiled([sgd[s] EXCEPT !.source_code = source], FALSE)
     IN  /\ sgd' = [sgd EXCEPT ![s] = script]
         /\ box_of' = [box_of EXCEPT ![s] = ResetTo(s, script)]
  /\ UNCHANGED <<users, calls, collecting, previous, baseline>>

(* The compiler is missing, or fails.                                      *)
edit_fails(s, source) ==
  /\ sgd' = [sgd EXCEPT ![s].source_code = source]
  /\ UNCHANGED <<users, box_of, calls, collecting, previous, baseline>>

(* The last reference goes away; another script may be made at its place.  *)
drop_script(s) ==
  /\ users[s] = 0 /\ sgd[s] # NoScript
  /\ sgd' = [sgd EXCEPT ![s] = NoScript]
  /\ UNCHANGED <<users, box_of, calls, collecting, previous, baseline>>

(* The first instance makes the Sandbox, the last gives it up.             *)
create_instance(s) ==
  /\ users[s] < MaxInstances
  /\ users' = [users EXCEPT ![s] = @ + 1]
  /\ box_of' = IF users[s] > 0 THEN box_of
               ELSE [box_of EXCEPT ![s] = Loaded(NoMachine, s, sgd[s].elf_data)]
  /\ UNCHANGED <<sgd, calls, collecting, previous, baseline>>

free_instance(s) ==
  /\ users[s] > 0 /\ ~Busy(s)
  /\ users' = [users EXCEPT ![s] = @ - 1]
  /\ box_of' = IF users[s] > 1 THEN box_of ELSE [box_of EXCEPT ![s] = NoMachine]
  /\ UNCHANGED <<sgd, calls, collecting, previous, baseline>>

(* callp.  The function is looked up in the program; the table says how    *)
(* many arguments it takes, refuses too few and too many, and completes    *)
(* the rest.                                                               *)
Completed(listed, given) == listed.expected

Accepts(listed, given) == given \in listed.required..listed.expected

callp_safe(s, f, given) ==
  /\ users[s] > 0 /\ Len(calls) < MaxDepth /\ box_of[s].program # Nothing
  /\ \E running \in FindIn(Functions(box_of[s].program.source), f) :
       LET listed == FindIn(Functions(sgd[s].signatures), f)
       IN  /\ \A l \in listed : Accepts(l, given)
           /\ calls' = Append(calls,
                [script |-> s, takes |-> running.expected,
                 given |-> IF listed = {} THEN given
                           ELSE Completed(CHOOSE l \in listed : TRUE, given)])
  /\ LET functions == Functions(box_of[s].program.source)
     IN  \A i \in DOMAIN box_of[s].records : box_of[s].records[i] < MaxCount
  /\ box_of' = [box_of EXCEPT ![s].records =
       [i \in DOMAIN @ |-> IF Functions(box_of[s].program.source)[i].name = f
                           THEN @[i] + 1 ELSE @[i]]]
  /\ UNCHANGED <<sgd, users, collecting, previous, baseline>>

call_ends_safe ==
  /\ calls # <<>> /\ calls' = Front(calls)
  /\ UNCHANGED <<sgd, users, box_of, collecting, previous, baseline>>

-----------------------------------------------------------------------------
(* Sandbox::enable_profiling and the callback it makes: the script is      *)
(* compiled again, unless it is such a build, and counted from here on.    *)
toggle_profiling(s, enable) ==
  /\ users[s] > 0 /\ ~Busy(s) /\ box_of[s].m_profiling_enabled # enable
  /\ LET script == IF sgd[s].profiled_build = enable THEN sgd[s]
                   ELSE Compiled(sgd[s], enable)
         box == IF script = sgd[s] THEN box_of[s] ELSE ResetTo(s, script)
         started == IF enable THEN read_records(script, box) ELSE <<>>
     IN  /\ sgd' = [sgd EXCEPT ![s] = script]
         /\ box_of' = [box_of EXCEPT ![s] = [box EXCEPT !.m_profiling_enabled = enable]]
         /\ IF sgd[s].profiled_build = enable THEN UNCHANGED <<previous, baseline>>
            ELSE /\ previous' = [previous EXCEPT ![s] = started]
                 /\ baseline' = [baseline EXCEPT ![s] = started]
  /\ UNCHANGED <<users, calls, collecting>>

(* The compiler is missing, or fails: the old build is counted from here.  *)
toggle_profiling_fails(s, enable) ==
  /\ users[s] > 0 /\ ~Busy(s) /\ box_of[s].m_profiling_enabled # enable
  /\ sgd[s].profiled_build # enable
  /\ box_of' = [box_of EXCEPT ![s].m_profiling_enabled = enable]
  /\ previous' = [previous EXCEPT ![s] = <<>>]
  /\ baseline' = [baseline EXCEPT ![s] = <<>>]
  /\ UNCHANGED <<sgd, users, calls, collecting>>

(* The editor's profiler starts and stops.                                 *)
_profiling_start ==
  /\ collecting' = TRUE
  /\ previous' = [s \in Safe |-> IF users[s] = 0 THEN previous[s]
                                 ELSE read_records(sgd[s], box_of[s])]
  /\ baseline' = [s \in Safe |-> IF users[s] = 0 THEN baseline[s]
                                 ELSE read_records(sgd[s], box_of[s])]
  /\ UNCHANGED <<sgd, users, box_of, calls>>

_profiling_stop ==
  /\ collecting' = FALSE
  /\ previous' = [s \in Safe |-> <<>>] /\ baseline' = [s \in Safe |-> <<>>]
  /\ UNCHANGED <<sgd, users, box_of, calls>>

(* collect: what is shown is the difference to a snapshot, which is        *)
(* resized to the records; the data of a frame becomes the next snapshot.  *)
Resized(snapshot, records) ==
  [i \in DOMAIN records |-> IF i \in DOMAIN snapshot THEN snapshot[i] ELSE 0]

Collects(s) == collecting /\ users[s] > 0 /\ read_records(sgd[s], box_of[s]) # <<>>

_profiling_get_frame_data ==
  /\ \E s \in Safe : Collects(s)
  /\ previous' = [s \in Safe |-> IF Collects(s) THEN read_records(sgd[s], box_of[s])
                                 ELSE previous[s]]
  /\ baseline' = [s \in Safe |-> IF Collects(s)
                                 THEN Resized(baseline[s], read_records(sgd[s], box_of[s]))
                                 ELSE baseline[s]]
  /\ UNCHANGED <<sgd, users, box_of, calls, collecting>>

SafeNext ==
  \/ \E s \in Safe, source \in Sources : edit(s, source) \/ edit_fails(s, source)
  \/ \E s \in Safe : drop_script(s) \/ create_instance(s) \/ free_instance(s)
  \/ \E s \in Safe, source \in Sources :
       \E i \in DOMAIN Signatures[source] :
         \E given \in 0..Signatures[source][i].expected :
           callp_safe(s, Signatures[source][i].name, given)
  \/ \E s \in Safe, enable \in BOOLEAN :
       toggle_profiling(s, enable) \/ toggle_profiling_fails(s, enable)
  \/ call_ends_safe
  \/ _profiling_start \/ _profiling_stop \/ _profiling_get_frame_data

SafeSpec == SafeInit /\ [][SafeNext]_safe_vars

-----------------------------------------------------------------------------
(* Every call brings as many arguments as the function it runs takes: one  *)
(* that a caller left out would be a null pointer for the guest.  It is    *)
(* completed by the table of the script, and runs in the program of the    *)
(* Sandbox, which failed compiles and new instances leave behind or ahead. *)
CallsAreComplete ==
  \A i \in DOMAIN calls : calls[i].given = calls[i].takes

(* The counters the profiler shows under the names of a table are those of *)
(* the program the table is of.                                            *)
CountsAreOfTheirFunctions ==
  \A s \in Safe : users[s] > 0 /\ read_records(sgd[s], box_of[s]) # <<>>
                    => box_of[s].program.source = sgd[s].signatures

(* What the profiler shows is a difference, and never below zero: the      *)
(* counters have grown since the snapshot was taken.                       *)
RecordsGrowMonotonically ==
  \A s \in Safe : Collects(s) =>
    LET now == read_records(sgd[s], box_of[s])
    IN  \A i \in DOMAIN now : /\ now[i] >= Resized(previous[s], now)[i]
                              /\ now[i] >= Resized(baseline[s], now)[i]
=============================================================================
