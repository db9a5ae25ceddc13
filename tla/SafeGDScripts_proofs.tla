------------------------ MODULE SafeGDScripts_proofs ------------------------
(* Theorems about SafeGDScripts, for any scripts and sources.               *)
EXTENDS SafeGDScripts, SequenceTheorems, TLAPS

Builds == [source : Sources, profiled : BOOLEAN]

ScriptStates ==
  [source_code : Sources \cup {Nothing}, elf_data : Builds \cup {Nothing},
   profiled_build : BOOLEAN, signatures : Sources \cup {Nothing}]
Machines ==
  [program : Builds \cup {Nothing}, records : Seq(Nat), m_profiling_enabled : BOOLEAN]
SafeCalls == [script : Safe, takes : Nat, given : Nat]

SafeTypeOK ==
  /\ sgd \in [Safe -> ScriptStates] /\ users \in [Safe -> Nat]
  /\ box_of \in [Safe -> Machines] /\ calls \in Seq(SafeCalls)

(* A program is only ever kept beside the table of its own source, at the   *)
(* script and in the Sandbox.                                               *)
TablesMatch ==
  \A s \in Safe :
    /\ sgd[s].elf_data # Nothing => sgd[s].elf_data.source = sgd[s].signatures
    /\ box_of[s].program # Nothing => box_of[s].program.source = sgd[s].signatures
    /\ box_of[s].program = Nothing => box_of[s].records = <<>>
    /\ users[s] = 0 => box_of[s] = NoMachine

SafeInv == SafeTypeOK /\ TablesMatch /\ CallsAreComplete

-----------------------------------------------------------------------------
(* A script beside its table, a Sandbox beside the same one.                *)
Tabled(script) ==
  /\ script \in ScriptStates
  /\ script.elf_data # Nothing => script.elf_data.source = script.signatures

Running(script, box) ==
  /\ box \in Machines
  /\ box.program # Nothing => box.program.source = script.signatures
  /\ box.program = Nothing => box.records = <<>>

Matching(script, box, count) ==
  Tabled(script) /\ Running(script, box) /\ (count = 0 => box = NoMachine)

LEMMA MatchingStates ==
  ASSUME SafeTypeOK
  PROVE  TablesMatch <=> \A s \in Safe : Matching(sgd[s], box_of[s], users[s])
BY DEF SafeTypeOK, TablesMatch, Matching, Tabled, Running

(* A table has the positions 1 to some number; the counters of a fresh      *)
(* program start at zero.                                                   *)
LEMMA TableShape ==
  ASSUME NEW source \in Sources \cup {Nothing}
  PROVE  \E n \in Nat : DOMAIN Functions(source) = 1..n
<1>1. CASE source = Nothing
  <2>1. DOMAIN Functions(source) = 1..0
    BY <1>1 DEF Functions
  <2> QED BY <2>1
<1>2. CASE source # Nothing
  BY <1>2, SignaturesAssumption DEF Functions
<1> QED BY <1>1, <1>2

LEMMA ZeroCounters ==
  ASSUME NEW source \in Sources \cup {Nothing}
  PROVE  [i \in DOMAIN Functions(source) |-> 0] \in Seq(Nat)
<1>1. PICK n \in Nat : DOMAIN Functions(source) = 1..n
  BY TableShape
<1>2. [i \in 1..n |-> 0] \in [1..n -> Nat]
  OBVIOUS
<1> QED BY <1>1, <1>2

(* A Sandbox that takes the program of a script matches its table.          *)
LEMMA LoadedMatches ==
  ASSUME NEW script, NEW box \in Machines, NEW s \in Safe, Tabled(script),
         ~Busy(s) \/ Running(script, box)
  PROVE  Running(script, Loaded(box, s, script.elf_data))
<1> DEFINE program == script.elf_data
           records == IF program = Nothing \/ ~program.profiled THEN <<>>
                      ELSE [i \in DOMAIN Functions(program.source) |-> 0]
<1>1. CASE Busy(s)
  BY <1>1 DEF Loaded
<1>2. CASE ~Busy(s)
  <2>1. program \in Builds \cup {Nothing}
    BY DEF Tabled, ScriptStates
  <2>2. records \in Seq(Nat)
    <3>1. CASE program = Nothing \/ ~program.profiled
      BY <3>1
    <3>2. CASE ~(program = Nothing \/ ~program.profiled)
      <4>1. program.source \in Sources
        BY <2>1, <3>2 DEF Builds
      <4> QED BY <3>2, <4>1, ZeroCounters
    <3> QED BY <3>1, <3>2
  <2>3. program = Nothing => records = <<>>
    OBVIOUS
  <2> HIDE DEF records
  <2>4. Loaded(box, s, program) = [box EXCEPT !.program = program, !.records = records]
    BY <1>2 DEF Loaded, records
  <2>5. Loaded(box, s, program) =
          [program |-> program, records |-> records,
           m_profiling_enabled |-> box.m_profiling_enabled]
    BY <2>4 DEF Machines
  <2> QED BY <2>1, <2>2, <2>3, <2>5 DEF Tabled, Running, Machines
<1> QED BY <1>1, <1>2

(* compile_source_to_elf leaves a script beside its table; one that did not *)
(* get a program keeps the table it had.                                    *)
LEMMA CompiledTabled ==
  ASSUME NEW script, NEW profiling \in BOOLEAN, Tabled(script)
  PROVE  /\ Tabled(Compiled(script, profiling))
         /\ \/ Compiled(script, profiling).signatures = script.signatures
            \/ /\ Compiled(script, profiling).elf_data # Nothing
               /\ Compiled(script, profiling).source_code # Nothing
<1> DEFINE program == [source |-> script.source_code, profiled |-> profiling]
<1>0. script \in ScriptStates
  BY DEF Tabled
<1>1. CASE script.source_code = Nothing
  BY <1>1 DEF Compiled
<1>2. CASE script.source_code # Nothing /\ Signatures[script.source_code] = <<>>
  <2>1. Compiled(script, profiling) =
          [source_code |-> script.source_code, elf_data |-> Nothing,
           profiled_build |-> profiling, signatures |-> script.signatures]
    BY <1>0, <1>2 DEF Compiled, ScriptStates
  <2> QED BY <1>0, <2>1 DEF Tabled, ScriptStates
<1>3. CASE script.source_code # Nothing /\ Signatures[script.source_code] # <<>>
  <2>1. Compiled(script, profiling) =
          [source_code |-> script.source_code, elf_data |-> program,
           profiled_build |-> profiling, signatures |-> script.source_code]
    BY <1>0, <1>3 DEF Compiled, ScriptStates
  <2>2. program \in Builds /\ program.source = script.source_code
    BY <1>0, <1>3 DEF ScriptStates, Builds
  <2>3. Tabled(Compiled(script, profiling))
    BY <1>0, <2>1, <2>2 DEF Tabled, ScriptStates
  <2>4. program # Nothing
    BY <2>2, SafeAssumption DEF Builds
  <2> QED BY <1>3, <2>1, <2>3, <2>4
<1> QED BY <1>1, <1>2, <1>3

-----------------------------------------------------------------------------
(* One step changes one script and the Sandbox its instances share.         *)
LEMMA OneChanges ==
  ASSUME SafeTypeOK, NEW s \in Safe, NEW script, NEW box, NEW count \in Nat,
         Matching(script, box, count),
         \A r \in Safe : Matching(sgd[r], box_of[r], users[r]),
         sgd' = [sgd EXCEPT ![s] = script], box_of' = [box_of EXCEPT ![s] = box],
         users' = [users EXCEPT ![s] = count]
  PROVE  /\ sgd' \in [Safe -> ScriptStates] /\ users' \in [Safe -> Nat]
         /\ box_of' \in [Safe -> Machines]
         /\ \A r \in Safe : Matching(sgd'[r], box_of'[r], users'[r])
<1>1. script \in ScriptStates /\ box \in Machines
  BY DEF Matching, Tabled, Running
<1>2. /\ sgd' \in [Safe -> ScriptStates] /\ users' \in [Safe -> Nat]
      /\ box_of' \in [Safe -> Machines]
  BY <1>1 DEF SafeTypeOK
<1>3. ASSUME NEW r \in Safe
      PROVE  Matching(sgd'[r], box_of'[r], users'[r])
  <2>1. CASE r = s
    BY <2>1 DEF SafeTypeOK
  <2>2. CASE r # s
    BY <2>2 DEF SafeTypeOK
  <2> QED BY <2>1, <2>2
<1> QED BY <1>2, <1>3

(* The Sandbox of a script that was compiled.                               *)
LEMMA ResetMatches ==
  ASSUME SafeTypeOK, NEW s \in Safe, NEW script, NEW profiling \in BOOLEAN,
         Tabled(script), script.signatures = sgd[s].signatures, ~Busy(s),
         Matching(sgd[s], box_of[s], users[s])
  PROVE  Matching(Compiled(script, profiling), ResetTo(s, Compiled(script, profiling)),
                  users[s])
<1> DEFINE after == Compiled(script, profiling)
<1>1. /\ Tabled(after)
      /\ \/ after.signatures = script.signatures
         \/ after.elf_data # Nothing /\ after.source_code # Nothing
  BY CompiledTabled
<1> HIDE DEF after
<1>2. CASE users[s] = 0 \/ after.elf_data = Nothing \/ after.source_code = Nothing
  <2>1. ResetTo(s, after) = box_of[s]
    BY <1>2 DEF ResetTo
  <2>2. Running(after, box_of[s])
    <3>1. CASE users[s] = 0
      <4>1. box_of[s].program = Nothing
        BY <3>1 DEF Matching, NoMachine
      <4> QED BY <4>1 DEF Matching, Running
    <3>2. CASE after.signatures = script.signatures
      BY <3>2 DEF Matching, Running
    <3> QED BY <1>1, <1>2, <3>1, <3>2
  <2> QED BY <1>1, <2>1, <2>2 DEF Matching, after
<1>3. CASE ~(users[s] = 0 \/ after.elf_data = Nothing \/ after.source_code = Nothing)
  <2>1. ResetTo(s, after) = Loaded(box_of[s], s, after.elf_data)
    BY <1>3 DEF ResetTo
  <2>2. Running(after, Loaded(box_of[s], s, after.elf_data))
    BY <1>1, LoadedMatches DEF SafeTypeOK
  <2> QED BY <1>1, <1>3, <2>1, <2>2 DEF Matching, after
<1> QED BY <1>2, <1>3

-----------------------------------------------------------------------------
(* Lemmas for the actions: what is kept of the scripts, the Sandboxes and   *)
(* the calls.                                                               *)
Kept ==
  /\ sgd' \in [Safe -> ScriptStates] /\ users' \in [Safe -> Nat]
  /\ box_of' \in [Safe -> Machines]
  /\ \A r \in Safe : Matching(sgd'[r], box_of'[r], users'[r])

LEMMA EditKeeps ==
  ASSUME SafeInv, ~CompilesInCalls, NEW s \in Safe, NEW source \in Sources,
         edit(s, source)
  PROVE  Kept
<1> DEFINE written == [sgd[s] EXCEPT !.source_code = source]
           script == Compiled(written, FALSE)
<1>1. SafeTypeOK /\ \A r \in Safe : Matching(sgd[r], box_of[r], users[r])
  BY MatchingStates DEF SafeInv
<1>2. sgd[s] \in ScriptStates /\ users[s] \in Nat
  BY <1>1 DEF SafeTypeOK
<1>3. /\ written \in ScriptStates /\ written.elf_data = sgd[s].elf_data
      /\ written.signatures = sgd[s].signatures
  BY <1>2 DEF ScriptStates
<1>4. Tabled(written)
  BY <1>1, <1>3 DEF Matching, Tabled
<1>5. /\ ~Busy(s) /\ sgd' = [sgd EXCEPT ![s] = script]
      /\ box_of' = [box_of EXCEPT ![s] = ResetTo(s, script)] /\ users' = users
  BY DEF edit
<1> HIDE DEF written
<1>6. Matching(script, ResetTo(s, script), users[s])
  BY <1>1, <1>3, <1>4, <1>5, ResetMatches
<1>7. users' = [users EXCEPT ![s] = users[s]]
  BY <1>1, <1>5 DEF SafeTypeOK
<1> HIDE DEF script
<1> QED BY <1>1, <1>2, <1>5, <1>6, <1>7, OneChanges DEF Kept

LEMMA EditFailsKeeps ==
  ASSUME SafeInv, NEW s \in Safe, NEW source \in Sources, edit_fails(s, source)
  PROVE  Kept
<1> DEFINE written == [sgd[s] EXCEPT !.source_code = source]
<1>1. SafeTypeOK /\ \A r \in Safe : Matching(sgd[r], box_of[r], users[r])
  BY MatchingStates DEF SafeInv
<1>2. sgd[s] \in ScriptStates /\ users[s] \in Nat
  BY <1>1 DEF SafeTypeOK
<1>3. /\ written \in ScriptStates /\ written.elf_data = sgd[s].elf_data
      /\ written.signatures = sgd[s].signatures
  BY <1>2 DEF ScriptStates
<1>4. Matching(written, box_of[s], users[s])
  BY <1>1, <1>3 DEF Matching, Tabled, Running
<1>5. /\ sgd' = [sgd EXCEPT ![s] = written] /\ box_of' = box_of /\ users' = users
  BY DEF edit_fails
<1>6. /\ box_of' = [box_of EXCEPT ![s] = box_of[s]]
      /\ users' = [users EXCEPT ![s] = users[s]]
  BY <1>1, <1>5 DEF SafeTypeOK
<1> HIDE DEF written
<1> QED BY <1>1, <1>2, <1>4, <1>5, <1>6, OneChanges, ZenonT(40) DEF Kept

LEMMA NothingRuns == NoMachine \in Machines /\ NoScript \in ScriptStates
<1>1. <<>> \in Seq(Nat)
  OBVIOUS
<1> QED BY <1>1 DEF NoMachine, Machines, NoScript, ScriptStates

LEMMA DropKeeps ==
  ASSUME SafeInv, NEW s \in Safe, drop_script(s)
  PROVE  Kept
<1>1. SafeTypeOK /\ \A r \in Safe : Matching(sgd[r], box_of[r], users[r])
  BY MatchingStates DEF SafeInv
<1>2. users[s] \in Nat /\ users[s] = 0 /\ box_of[s] = NoMachine
  BY <1>1 DEF SafeTypeOK, drop_script, Matching
<1>3. Matching(NoScript, NoMachine, 0)
  BY NothingRuns DEF Matching, Tabled, Running, NoMachine, NoScript
<1>4. /\ sgd' = [sgd EXCEPT ![s] = NoScript] /\ box_of' = box_of /\ users' = users
  BY DEF drop_script
<1>5. /\ box_of' = [box_of EXCEPT ![s] = NoMachine]
      /\ users' = [users EXCEPT ![s] = 0]
  BY <1>1, <1>2, <1>4 DEF SafeTypeOK
<1> QED BY <1>1, <1>3, <1>4, <1>5, OneChanges DEF Kept

LEMMA CreateKeeps ==
  ASSUME SafeInv, NEW s \in Safe, create_instance(s)
  PROVE  Kept
<1> DEFINE box == IF users[s] > 0 THEN box_of[s]
                  ELSE Loaded(NoMachine, s, sgd[s].elf_data)
<1>1. SafeTypeOK /\ \A r \in Safe : Matching(sgd[r], box_of[r], users[r])
  BY MatchingStates DEF SafeInv
<1>2. users[s] \in Nat /\ box_of \in [Safe -> Machines] /\ sgd \in [Safe -> ScriptStates]
  BY <1>1 DEF SafeTypeOK
<1>3. /\ sgd' = sgd /\ users' = [users EXCEPT ![s] = users[s] + 1]
      /\ box_of' = IF users[s] > 0 THEN box_of
                   ELSE [box_of EXCEPT ![s] = Loaded(NoMachine, s, sgd[s].elf_data)]
  BY DEF create_instance
<1>4. sgd' = [sgd EXCEPT ![s] = sgd[s]] /\ box_of' = [box_of EXCEPT ![s] = box]
  BY <1>2, <1>3
<1>5. Running(sgd[s], NoMachine)
  BY NothingRuns DEF Running, NoMachine
<1>6. Running(sgd[s], box)
  <2>1. CASE users[s] > 0
    BY <1>1, <2>1 DEF Matching
  <2>2. CASE ~(users[s] > 0)
    <3>1. Running(sgd[s], Loaded(NoMachine, s, sgd[s].elf_data))
      BY <1>1, <1>5, LoadedMatches, NothingRuns DEF Matching
    <3> QED BY <2>2, <3>1
  <2> QED BY <2>1, <2>2
<1> HIDE DEF box
<1>7. Matching(sgd[s], box, users[s] + 1)
  BY <1>1, <1>2, <1>6 DEF Matching
<1>8. users[s] + 1 \in Nat
  BY <1>2
<1> QED BY <1>1, <1>3, <1>4, <1>7, <1>8, OneChanges DEF Kept

LEMMA FreeKeeps ==
  ASSUME SafeInv, NEW s \in Safe, free_instance(s)
  PROVE  Kept
<1> DEFINE box == IF users[s] > 1 THEN box_of[s] ELSE NoMachine
<1>1. SafeTypeOK /\ \A r \in Safe : Matching(sgd[r], box_of[r], users[r])
  BY MatchingStates DEF SafeInv
<1>2. users[s] \in Nat /\ box_of \in [Safe -> Machines] /\ sgd \in [Safe -> ScriptStates]
  BY <1>1 DEF SafeTypeOK
<1>3. /\ sgd' = sgd /\ users' = [users EXCEPT ![s] = users[s] - 1] /\ users[s] > 0
      /\ box_of' = IF users[s] > 1 THEN box_of ELSE [box_of EXCEPT ![s] = NoMachine]
  BY DEF free_instance
<1>4. sgd' = [sgd EXCEPT ![s] = sgd[s]] /\ box_of' = [box_of EXCEPT ![s] = box]
  BY <1>2, <1>3
<1>5. Running(sgd[s], NoMachine)
  BY NothingRuns DEF Running, NoMachine
<1>6. Running(sgd[s], box) /\ Tabled(sgd[s])
  BY <1>1, <1>5 DEF Matching
<1>7. users[s] - 1 \in Nat /\ (users[s] - 1 = 0 => box = NoMachine)
  BY <1>2, <1>3
<1> HIDE DEF box
<1>8. Matching(sgd[s], box, users[s] - 1)
  BY <1>6, <1>7 DEF Matching
<1> QED BY <1>1, <1>3, <1>4, <1>7, <1>8, OneChanges DEF Kept

(* A Sandbox keeps matching when only its mode changes.                     *)
LEMMA ModeMatches ==
  ASSUME NEW script, NEW box, NEW count \in Nat \ {0}, NEW enable \in BOOLEAN,
         Matching(script, box, count)
  PROVE  Matching(script, [box EXCEPT !.m_profiling_enabled = enable], count)
<1>1. box \in Machines
  BY DEF Matching, Running
<1>2. [box EXCEPT !.m_profiling_enabled = enable] \in Machines
  BY <1>1 DEF Machines
<1>3. /\ [box EXCEPT !.m_profiling_enabled = enable].program = box.program
      /\ [box EXCEPT !.m_profiling_enabled = enable].records = box.records
  BY <1>1 DEF Machines
<1> QED BY <1>2, <1>3 DEF Matching, Running

LEMMA ToggleKeeps ==
  ASSUME SafeInv, NEW s \in Safe, NEW enable \in BOOLEAN, toggle_profiling(s, enable)
  PROVE  Kept
<1> DEFINE script == IF sgd[s].profiled_build = enable THEN sgd[s]
                     ELSE Compiled(sgd[s], enable)
           box == IF script = sgd[s] THEN box_of[s] ELSE ResetTo(s, script)
<1>1. SafeTypeOK /\ \A r \in Safe : Matching(sgd[r], box_of[r], users[r])
  BY MatchingStates DEF SafeInv
<1>2. users[s] \in Nat /\ users \in [Safe -> Nat]
  BY <1>1 DEF SafeTypeOK
<1>3. users[s] > 0 /\ ~Busy(s)
  BY DEF toggle_profiling
<1>4. /\ sgd' = [sgd EXCEPT ![s] = script]
      /\ box_of' = [box_of EXCEPT ![s] = [box EXCEPT !.m_profiling_enabled = enable]]
      /\ users' = [users EXCEPT ![s] = users[s]]
  BY <1>2 DEF toggle_profiling
<1>5. Matching(script, box, users[s])
  <2>1. CASE script = sgd[s]
    BY <1>1, <2>1
  <2>2. CASE script # sgd[s]
    <3>1. script = Compiled(sgd[s], enable) /\ box = ResetTo(s, script)
      BY <2>2
    <3>2. Tabled(sgd[s])
      BY <1>1 DEF Matching
    <3>3. Matching(Compiled(sgd[s], enable), ResetTo(s, Compiled(sgd[s], enable)),
                   users[s])
      BY <1>1, <1>3, <3>2, ResetMatches
    <3> QED BY <3>1, <3>3
  <2> QED BY <2>1, <2>2
<1> HIDE DEF script, box
<1>6. Matching(script, [box EXCEPT !.m_profiling_enabled = enable], users[s])
  BY <1>2, <1>3, <1>5, ModeMatches
<1> QED BY <1>1, <1>2, <1>4, <1>6, OneChanges DEF Kept

LEMMA ToggleFailsKeeps ==
  ASSUME SafeInv, NEW s \in Safe, NEW enable \in BOOLEAN,
         toggle_profiling_fails(s, enable)
  PROVE  Kept
<1>1. SafeTypeOK /\ \A r \in Safe : Matching(sgd[r], box_of[r], users[r])
  BY MatchingStates DEF SafeInv
<1>2. users[s] \in Nat /\ users \in [Safe -> Nat] /\ users[s] > 0
      /\ sgd \in [Safe -> ScriptStates] /\ box_of \in [Safe -> Machines]
  BY <1>1 DEF SafeTypeOK, toggle_profiling_fails
<1>3. /\ sgd' = [sgd EXCEPT ![s] = sgd[s]]
      /\ box_of' = [box_of EXCEPT ![s] = [box_of[s] EXCEPT !.m_profiling_enabled = enable]]
      /\ users' = [users EXCEPT ![s] = users[s]]
  BY <1>2 DEF toggle_profiling_fails
<1>4. Matching(sgd[s], [box_of[s] EXCEPT !.m_profiling_enabled = enable], users[s])
  BY <1>1, <1>2, ModeMatches
<1> QED BY <1>1, <1>2, <1>3, <1>4, OneChanges DEF Kept

(* A call counts in the program it runs, which stays.                       *)
LEMMA CallKeeps ==
  ASSUME SafeInv, NEW s \in Safe, NEW f, NEW given, callp_safe(s, f, given)
  PROVE  Kept
<1> DEFINE functions == Functions(box_of[s].program.source)
           counted == [i \in DOMAIN box_of[s].records |->
                         IF functions[i].name = f THEN box_of[s].records[i] + 1
                         ELSE box_of[s].records[i]]
           box == [box_of[s] EXCEPT !.records = counted]
<1>1. SafeTypeOK /\ \A r \in Safe : Matching(sgd[r], box_of[r], users[r])
  BY MatchingStates DEF SafeInv
<1>2. /\ users[s] \in Nat /\ users \in [Safe -> Nat] /\ sgd \in [Safe -> ScriptStates]
      /\ box_of \in [Safe -> Machines]
  BY <1>1 DEF SafeTypeOK
<1>3. /\ sgd' = sgd /\ users' = users
      /\ users[s] > 0 /\ box_of[s].program # Nothing
  BY DEF callp_safe
<1>4. box_of' = [box_of EXCEPT ![s] = box]
  BY <1>2 DEF callp_safe
<1>5. box_of[s].records \in Seq(Nat)
  BY <1>2 DEF Machines
<1> HIDE DEF functions
<1>6. counted \in Seq(Nat)
  <2>1. counted \in [1..Len(box_of[s].records) -> Nat]
    BY <1>5
  <2> QED BY <2>1
<1> HIDE DEF counted
<1>7. box \in Machines /\ box.program = box_of[s].program
  BY <1>2, <1>6 DEF Machines
<1> HIDE DEF box
<1>8. Matching(sgd[s], box, users[s])
  BY <1>1, <1>2, <1>3, <1>7 DEF Matching, Running
<1>9. sgd' = [sgd EXCEPT ![s] = sgd[s]] /\ users' = [users EXCEPT ![s] = users[s]]
  BY <1>2, <1>3
<1> QED BY <1>1, <1>2, <1>4, <1>8, <1>9, OneChanges DEF Kept

(* The call brings what the function it runs takes, since the table it is   *)
(* completed by is that of the program.                                     *)
LEMMA CallIsComplete ==
  ASSUME SafeInv, NEW s \in Safe, NEW f, NEW given \in Nat, callp_safe(s, f, given)
  PROVE  \E expected \in Nat :
           calls' = Append(calls, [script |-> s, takes |-> expected, given |-> expected])
<1> DEFINE table == Functions(sgd[s].signatures)
<1>1. SafeTypeOK /\ TablesMatch
  BY DEF SafeInv
<1>2. /\ box_of[s] \in Machines /\ box_of[s].program # Nothing
      /\ box_of[s].program.source = sgd[s].signatures
  BY <1>1 DEF SafeTypeOK, TablesMatch, callp_safe
<1>3. sgd[s].signatures \in Sources
  BY <1>2 DEF Machines, Builds
<1>4. table = Signatures[sgd[s].signatures]
  BY <1>3, SafeAssumption DEF Functions
<1>5. /\ \A i \in DOMAIN table : table[i].expected \in Nat
      /\ \A i, j \in DOMAIN table : table[i].name = table[j].name => i = j
  BY <1>3, <1>4, SignaturesAssumption
<1> HIDE DEF table
<1>6. PICK running \in FindIn(table, f) :
        calls' = Append(calls,
                   [script |-> s, takes |-> running.expected,
                    given |-> IF FindIn(table, f) = {} THEN given
                              ELSE Completed(CHOOSE l \in FindIn(table, f) : TRUE, given)])
  BY <1>2 DEF callp_safe, table
<1>7. \A l \in FindIn(table, f) : l = running /\ l.expected \in Nat
  BY <1>5 DEF FindIn
<1>8. (CHOOSE l \in FindIn(table, f) : TRUE) = running /\ FindIn(table, f) # {}
  BY <1>7
<1> QED BY <1>6, <1>7, <1>8 DEF Completed

-----------------------------------------------------------------------------
(* The calls in progress when the innermost returns.                        *)
LEMMA InnermostReturns ==
  ASSUME SafeInv, call_ends_safe
  PROVE  calls' \in Seq(SafeCalls) /\ CallsAreComplete'
<1>1. calls \in Seq(SafeCalls) /\ calls # <<>> /\ calls' = Front(calls)
  BY DEF SafeInv, SafeTypeOK, call_ends_safe
<1>2. Len(calls) \in Nat /\ Len(calls) > 0 /\ DOMAIN calls = 1..Len(calls)
  BY <1>1
<1>3. \A i \in 1..Len(calls) - 1 : calls[i] \in SafeCalls
  BY <1>1, <1>2
<1>4. /\ calls' \in Seq(SafeCalls)
      /\ \A i \in DOMAIN calls' : i \in DOMAIN calls /\ calls'[i] = calls[i]
  <2>1. /\ SubSeq(calls, 1, Len(calls) - 1) \in Seq(SafeCalls)
        /\ Len(SubSeq(calls, 1, Len(calls) - 1)) =
             IF 1 <= Len(calls) - 1 THEN Len(calls) - 1 - 1 + 1 ELSE 0
        /\ \A i \in 1..(Len(calls) - 1 - 1 + 1) :
             SubSeq(calls, 1, Len(calls) - 1)[i] = calls[1 + i - 1]
    BY <1>1, <1>2, <1>3, SubSeqProperties
  <2>2. calls' = SubSeq(calls, 1, Len(calls) - 1)
    BY <1>1 DEF Front
  <2> HIDE <1>1
  <2>3. calls' \in Seq(SafeCalls) /\ Len(calls') = Len(calls) - 1
    BY <1>2, <2>1, <2>2
  <2>4. DOMAIN calls' = 1..Len(calls) - 1
    BY <2>3
  <2>5. \A i \in 1..Len(calls) - 1 : i \in 1..Len(calls) /\ calls'[i] = calls[i]
    <3>1. Len(calls) - 1 - 1 + 1 = Len(calls) - 1 /\ \A i \in Int : 1 + i - 1 = i
      BY <1>2
    <3>2. \A i \in 1..Len(calls) - 1 : i \in 1..Len(calls) /\ i \in Int
      BY <1>2
    <3> QED BY <2>1, <2>2, <3>1, <3>2
  <2> QED BY <1>2, <2>3, <2>4, <2>5
<1> QED BY <1>4 DEF SafeInv, CallsAreComplete

(* A call with all its arguments joins them.                                *)
LEMMA CompleteCallJoins ==
  ASSUME SafeInv, NEW s \in Safe, NEW expected \in Nat,
         calls' = Append(calls, [script |-> s, takes |-> expected, given |-> expected])
  PROVE  calls' \in Seq(SafeCalls) /\ CallsAreComplete'
<1> DEFINE call == [script |-> s, takes |-> expected, given |-> expected]
<1>1. calls \in Seq(SafeCalls) /\ call \in SafeCalls /\ call.given = call.takes
  BY DEF SafeInv, SafeTypeOK, SafeCalls
<1> HIDE DEF call
<1>2. calls' = Append(calls, call)
  BY DEF call
<1>3. calls' \in Seq(SafeCalls)
  BY <1>1, <1>2
<1>4. \A i \in DOMAIN calls' : calls'[i] = call \/ (i \in DOMAIN calls /\ calls'[i] = calls[i])
  BY <1>1, <1>2
<1> QED BY <1>1, <1>3, <1>4 DEF SafeInv, CallsAreComplete

LEMMA SafeInvNext ==
  ASSUME Kept, calls' \in Seq(SafeCalls), CallsAreComplete'
  PROVE  SafeInv'
<1>1. \A s \in Safe : Matching(sgd'[s], box_of'[s], users'[s])
  BY DEF Kept
<1>2. TablesMatch'
  BY <1>1 DEF TablesMatch, Matching, Tabled, Running
<1> QED BY <1>2 DEF Kept, SafeInv, SafeTypeOK

LEMMA SafeInitial ==
  ASSUME SafeInit
  PROVE  SafeInv
<1>1. SafeTypeOK
  BY NothingRuns DEF SafeInit, SafeTypeOK
<1>2. TablesMatch /\ CallsAreComplete
  BY DEF SafeInit, TablesMatch, CallsAreComplete, NoScript, NoMachine
<1> QED BY <1>1, <1>2 DEF SafeInv

LEMMA SafeStep ==
  ASSUME ~CompilesInCalls, SafeInv, [SafeNext]_safe_vars
  PROVE  SafeInv'
<1>0. \A r \in Safe : Matching(sgd[r], box_of[r], users[r])
  BY MatchingStates DEF SafeInv
<1>1. ASSUME UNCHANGED calls, Kept
      PROVE  SafeInv'
  <2>1. calls' \in Seq(SafeCalls) /\ CallsAreComplete'
    BY <1>1 DEF SafeInv, SafeTypeOK, CallsAreComplete
  <2> QED BY <1>1, <2>1, SafeInvNext
<1>2. ASSUME UNCHANGED <<sgd, users, box_of>>
      PROVE  Kept
  BY <1>0, <1>2 DEF SafeInv, SafeTypeOK, Kept
<1>3. ASSUME NEW s \in Safe, NEW source \in Sources, edit(s, source)
      PROVE  SafeInv'
  BY <1>1, <1>3, EditKeeps DEF edit
<1>4. ASSUME NEW s \in Safe, NEW source \in Sources, edit_fails(s, source)
      PROVE  SafeInv'
  BY <1>1, <1>4, EditFailsKeeps DEF edit_fails
<1>5. ASSUME NEW s \in Safe, drop_script(s)
      PROVE  SafeInv'
  BY <1>1, <1>5, DropKeeps DEF drop_script
<1>6. ASSUME NEW s \in Safe, create_instance(s)
      PROVE  SafeInv'
  BY <1>1, <1>6, CreateKeeps DEF create_instance
<1>7. ASSUME NEW s \in Safe, free_instance(s)
      PROVE  SafeInv'
  BY <1>1, <1>7, FreeKeeps DEF free_instance
<1>8. ASSUME NEW s \in Safe, NEW enable \in BOOLEAN, toggle_profiling(s, enable)
      PROVE  SafeInv'
  BY <1>1, <1>8, ToggleKeeps DEF toggle_profiling
<1>9. ASSUME NEW s \in Safe, NEW enable \in BOOLEAN, toggle_profiling_fails(s, enable)
      PROVE  SafeInv'
  BY <1>1, <1>9, ToggleFailsKeeps DEF toggle_profiling_fails
<1>10. ASSUME NEW s \in Safe, NEW source \in Sources, NEW i \in DOMAIN Signatures[source],
              NEW given \in 0..Signatures[source][i].expected,
              callp_safe(s, Signatures[source][i].name, given)
       PROVE  SafeInv'
  <2>1. given \in Nat
    BY SignaturesAssumption
  <2>2. Kept
    BY <1>10, CallKeeps
  <2>3. calls' \in Seq(SafeCalls) /\ CallsAreComplete'
    BY <1>10, <2>1, CallIsComplete, CompleteCallJoins
  <2> QED BY <2>2, <2>3, SafeInvNext
<1>11. CASE call_ends_safe
  BY <1>2, <1>11, InnermostReturns, SafeInvNext DEF call_ends_safe
<1>12. CASE _profiling_start
  BY <1>1, <1>2, <1>12 DEF _profiling_start
<1>13. CASE _profiling_stop
  BY <1>1, <1>2, <1>13 DEF _profiling_stop
<1>14. CASE _profiling_get_frame_data
  BY <1>1, <1>2, <1>14 DEF _profiling_get_frame_data
<1>15. CASE UNCHANGED safe_vars
  BY <1>1, <1>2, <1>15 DEF safe_vars
<1> QED
  BY <1>3, <1>4, <1>5, <1>6, <1>7, <1>8, <1>9, <1>10, <1>11, <1>12, <1>13, <1>14, <1>15
     DEF SafeNext

LEMMA SafeInvHolds ==
  ASSUME ~CompilesInCalls
  PROVE  SafeSpec => []SafeInv
<1>1. SafeInit => SafeInv
  BY SafeInitial
<1>2. SafeInv /\ [SafeNext]_safe_vars => SafeInv'
  BY SafeStep
<1> QED BY <1>1, <1>2, PTL DEF SafeSpec

(* Every call brings as many arguments as the function it runs takes, as    *)
(* long as no script is compiled while one of its calls runs: through       *)
(* sources that are wrong, compilers that fail, builds that change for the  *)
(* profiler, and the last instance that goes with the Sandbox.              *)
THEOREM CallsBringAllArguments ==
  ASSUME ~CompilesInCalls
  PROVE  SafeSpec => []CallsAreComplete
<1>1. SafeInv => CallsAreComplete
  BY DEF SafeInv
<1> QED BY <1>1, SafeInvHolds, PTL

(* The counters the profiler reads are those of the program whose table it  *)
(* names them by.                                                           *)
THEOREM CountersAreNamedRight ==
  ASSUME ~CompilesInCalls
  PROVE  SafeSpec => []CountsAreOfTheirFunctions
<1>1. SafeInv => CountsAreOfTheirFunctions
  BY DEF SafeInv, TablesMatch, CountsAreOfTheirFunctions, read_records
<1> QED BY <1>1, SafeInvHolds, PTL
=============================================================================
