------------------------- MODULE SandboxCalls_proofs -------------------------
(* Theorems about SandboxCalls, for every number of levels, every set of    *)
(* machines and settings, and every amount of fuel.                         *)
EXTENDS SandboxCalls, SequenceTheorems, TLAPS

(* What is left of a sequence without its last element. *)
LEMMA FrontProperties ==
  ASSUME NEW S, NEW s \in Seq(S), Len(s) > 0
  PROVE  /\ Front(s) \in Seq(S)
         /\ Len(Front(s)) = Len(s) - 1
         /\ \A i \in 1..(Len(s) - 1) : Front(s)[i] = s[i]
<1>1. Len(s) \in Nat /\ \A i \in 1..Len(s) : s[i] \in S
  BY LenProperties, ElementOfSeq
<1>2. \A i \in 1..(Len(s) - 1) : s[i] \in S
  BY <1>1
<1>3. /\ SubSeq(s, 1, Len(s) - 1) \in Seq(S)
      /\ Len(SubSeq(s, 1, Len(s) - 1)) =
           IF 1 <= Len(s) - 1 THEN Len(s) - 1 - 1 + 1 ELSE 0
      /\ \A i \in 1..(Len(s) - 1 - 1 + 1) :
           SubSeq(s, 1, Len(s) - 1)[i] = s[1 + i - 1]
  BY <1>1, <1>2, SubSeqProperties
<1>4. Len(s) - 1 - 1 + 1 = Len(s) - 1 /\ \A i \in Int : 1 + i - 1 = i
  BY <1>1
<1>5. /\ Len(SubSeq(s, 1, Len(s) - 1)) = Len(s) - 1
      /\ \A i \in 1..(Len(s) - 1) : SubSeq(s, 1, Len(s) - 1)[i] = s[i]
  BY <1>1, <1>3, <1>4
<1> QED BY <1>3, <1>5 DEF Front

-----------------------------------------------------------------------------
(* The inductive invariant behind the first two theorems: the level is what *)
(* the stack of activations says it is, so that taking one off it cannot    *)
(* leave the range of call states.                                          *)
Typed == /\ TypeOK
         /\ LevelDiscipline
         /\ control = "guest" => Depth > 0

LEMMA TypedInit == Init => Typed
<1> SUFFICES ASSUME Init PROVE Typed
  OBVIOUS
<1>1. TypeOK
  BY CallsAssumption DEF Init, TypeOK, ThrottleValues
<1>2. LevelDiscipline
  BY CallsAssumption DEF Init, LevelDiscipline, Depth
<1> QED BY <1>1, <1>2 DEF Init, Typed

(* An activation is pushed: it is main() if none but main() is below it,    *)
(* and one level above the innermost one otherwise.                         *)
LEMMA EnterTyped ==
  ASSUME Typed, NEW f \in Frame, Enter(f), level' = f.level,
         f.level < MaxLevel,
         f.level = IF f.entry = "main" THEN 0 ELSE level + 1,
         f.entry = "main" => level = 0
  PROVE  LevelDiscipline' /\ frames' \in Seq(Frame) /\ cpu' \in Nat
<1>1. /\ Depth \in Nat /\ frames \in Seq(Frame)
      /\ \A i \in 1..Depth : frames[i] \in Frame
  BY ElementOfSeq, LenProperties DEF Typed, TypeOK, Depth
<1>2. /\ frames' \in Seq(Frame) /\ Depth' = Depth + 1
      /\ \A i \in 1..Depth : frames'[i] = frames[i]
      /\ frames'[Depth + 1] = f
  BY <1>1, AppendProperties DEF Enter, Depth
<1>3. Top' = f
  BY <1>1, <1>2 DEF Top, Last, Depth
<1>4. level' < MaxLevel /\ level' = IF Depth' = 0 THEN 0 ELSE Top'.level
  BY <1>1, <1>2, <1>3
<1>5. ASSUME NEW i \in 1..Depth'
      PROVE  frames'[i].level = IF frames'[i].entry = "main" THEN 0
                     ELSE IF i = 1 THEN 1 ELSE frames'[i-1].level + 1
  <2>1. CASE i = Depth + 1
    <3>1. CASE i = 1
      BY <1>1, <1>2, <2>1, <3>1 DEF Typed, LevelDiscipline
    <3>2. CASE i # 1
      <4>1. level = frames[Depth].level /\ Depth \in 1..Depth /\ i - 1 = Depth
        BY <1>1, <2>1, <3>2 DEF Typed, LevelDiscipline, Top, Last, Depth
      <4> QED BY <1>1, <1>2, <2>1, <3>2, <4>1
    <3> QED BY <3>1, <3>2
  <2>2. CASE i \in 1..Depth
    <3>1. i # 1 => i - 1 \in 1..Depth
      BY <1>1, <2>2
    <3> QED BY <1>1, <1>2, <2>2, <3>1 DEF Typed, LevelDiscipline
  <2> QED BY <1>1, <1>2, <2>1, <2>2
<1>6. ASSUME NEW i \in 1..Depth', NEW j \in 1..Depth',
             i < j, frames'[j].entry = "main"
      PROVE  frames'[i].entry = "main"
  <2>1. i \in 1..Depth
    BY <1>1, <1>2, <1>6
  <2>2. CASE j = Depth + 1
    <3>1. level = 0 /\ Depth \in 1..Depth /\ level = frames[Depth].level
      BY <1>1, <1>2, <1>6, <2>1, <2>2 DEF Typed, LevelDiscipline, Top, Last, Depth
    <3>2. frames[Depth].entry = "main"
      <4>1. CASE Depth = 1
        BY <1>1, <3>1, <4>1 DEF Typed, LevelDiscipline
      <4>2. CASE Depth > 1
        <5>1. Depth - 1 \in 1..Depth /\ frames[Depth - 1].level \in Nat
          BY <1>1, <4>2 DEF Frame
        <5> QED BY <1>1, <3>1, <4>2, <5>1 DEF Typed, LevelDiscipline
      <4> QED BY <1>1, <3>1, <4>1, <4>2
    <3>3. frames[i].entry = "main"
      BY <1>1, <2>1, <3>1, <3>2 DEF Typed, LevelDiscipline
    <3> QED BY <1>2, <2>1, <3>3
  <2>3. CASE j \in 1..Depth
    BY <1>2, <1>6, <2>1, <2>3 DEF Typed, LevelDiscipline
  <2> QED BY <1>1, <1>2, <2>2, <2>3
<1>7. cpu' \in Nat
  BY <1>1 DEF Enter
<1> QED BY <1>2, <1>4, <1>5, <1>6, <1>7 DEF LevelDiscipline

(* The innermost activation is taken off. *)
LEMMA LeaveTyped ==
  ASSUME Typed, Depth > 0, frames' = Front(frames),
         level' = IF Top.entry = "main" THEN level ELSE level - 1
  PROVE  LevelDiscipline' /\ frames' \in Seq(Frame)
                          /\ level' \in 0..(MaxLevel - 1)
<1>1. /\ Depth \in Nat /\ frames \in Seq(Frame)
      /\ \A i \in 1..Depth : frames[i] \in Frame
  BY ElementOfSeq, LenProperties DEF Typed, TypeOK, Depth
<1>2. /\ frames' \in Seq(Frame) /\ Depth' = Depth - 1
      /\ \A i \in 1..(Depth - 1) : frames'[i] = frames[i]
  BY <1>1, FrontProperties DEF Depth
<1>3. /\ \A i \in 1..Depth :
            frames[i].level = IF frames[i].entry = "main" THEN 0
                              ELSE IF i = 1 THEN 1 ELSE frames[i-1].level + 1
      /\ \A i, j \in 1..Depth :
            i < j /\ frames[j].entry = "main" => frames[i].entry = "main"
      /\ level = Top.level /\ Top = frames[Depth] /\ level < MaxLevel
      /\ Depth \in 1..Depth
  BY <1>1 DEF Typed, LevelDiscipline, Top, Last, Depth
<1>4. CASE Depth = 1
  <2>1. level' = 0
    BY <1>3, <1>4
  <2>2. Depth' = 0 /\ 1..Depth' = {}
    BY <1>2, <1>4
  <2>3. level' < MaxLevel /\ level' \in 0..(MaxLevel - 1)
    BY <2>1, CallsAssumption
  <2> QED BY <1>2, <2>1, <2>2, <2>3 DEF LevelDiscipline
<1>5. CASE Depth > 1
  <2>1. /\ Depth - 1 \in 1..Depth /\ Depth - 1 \in 1..(Depth - 1)
        /\ Depth' # 0
    BY <1>1, <1>2, <1>5
  <2>2. Top' = frames[Depth - 1]
    BY <1>2, <2>1 DEF Top, Last, Depth
  <2>3. level' = frames[Depth - 1].level
    <3>1. CASE Top.entry = "main"
      <4>1. frames[Depth - 1].entry = "main"
        BY <1>1, <1>3, <1>5, <2>1, <3>1
      <4> QED BY <1>1, <1>3, <2>1, <3>1, <4>1
    <3>2. CASE Top.entry # "main"
      <4>1. frames[Depth - 1].level \in Nat
        BY <1>1, <2>1 DEF Frame
      <4> QED BY <1>1, <1>3, <1>5, <2>1, <3>2, <4>1, SMTT(40)
    <3> QED BY <3>1, <3>2
  <2>4. level' \in 0..(MaxLevel - 1)
    BY <1>1, <2>1, <2>3 DEF Frame
  <2>5. ASSUME NEW i \in 1..Depth'
        PROVE  frames'[i].level = IF frames'[i].entry = "main" THEN 0
                       ELSE IF i = 1 THEN 1 ELSE frames'[i-1].level + 1
    <3>1. i \in 1..Depth /\ i \in 1..(Depth - 1)
          /\ (i # 1 => i - 1 \in 1..(Depth - 1))
      BY <1>1, <1>2
    <3> QED BY <1>2, <1>3, <3>1
  <2>6. ASSUME NEW i \in 1..Depth', NEW j \in 1..Depth',
               i < j, frames'[j].entry = "main"
        PROVE  frames'[i].entry = "main"
    <3>1. /\ i \in 1..Depth /\ i \in 1..(Depth - 1)
          /\ j \in 1..Depth /\ j \in 1..(Depth - 1)
      BY <1>1, <1>2
    <3> QED BY <1>2, <1>3, <2>6, <3>1
  <2>7. level' < MaxLevel /\ level' = IF Depth' = 0 THEN 0 ELSE Top'.level
    BY <2>1, <2>2, <2>3, <2>4, CallsAssumption
  <2> QED BY <1>2, <2>4, <2>5, <2>6, <2>7 DEF LevelDiscipline
<1> QED BY <1>1, <1>4, <1>5

(* A system call uses up fuel of the innermost activation and leaves        *)
(* everything else about it alone.                                          *)

(* A system call uses up fuel of the innermost activation and leaves        *)
(* everything else about it alone.                                          *)
LEMMA SyscallTyped ==
  ASSUME Typed, syscall
  PROVE  /\ frames' \in Seq(Frame) /\ Depth' = Depth /\ Depth > 0
         /\ \A i \in 1..Depth :
              /\ frames'[i].level = frames[i].level
              /\ frames'[i].entry = frames[i].entry
              /\ frames'[i].machine = frames[i].machine
              /\ frames'[i].caller = frames[i].caller
              /\ frames'[i].previous = frames[i].previous
<1>1. /\ Depth \in Nat /\ frames \in Seq(Frame) /\ Depth > 0
      /\ \A i \in 1..Depth : frames[i] \in Frame
      /\ Depth \in 1..Depth /\ Top = frames[Depth]
  BY ElementOfSeq, LenProperties DEF Typed, TypeOK, Depth, syscall, Top, Last
<1>2. CASE Top.bounded
  <2> DEFINE used == [frames[Depth] EXCEPT !.fuel = @ - 1]
  <2>1. frames[Depth].fuel \in 1..Fuel
    BY <1>1, <1>2, CallsAssumption DEF syscall, Frame
  <2>2. used \in Frame
    <3>1. frames[Depth].fuel - 1 \in 0..Fuel
      BY <2>1, CallsAssumption
    <3> HIDE DEF used
    <3>2. \A f \in Frame, n \in 0..Fuel : [f EXCEPT !.fuel = n] \in Frame
      BY DEF Frame
    <3> QED BY <1>1, <3>1, <3>2 DEF used
  <2>3. frames' = [frames EXCEPT ![Depth] = used]
    BY <1>2 DEF syscall
  <2>4. frames' \in Seq(Frame) /\ Len(frames') = Len(frames)
    BY <1>1, <2>2, <2>3, ExceptSeq DEF Depth
  <2>5. \A i \in 1..Depth : frames'[i] = IF i = Depth THEN used ELSE frames[i]
    BY <1>1, <2>3, LenProperties DEF Depth
  <2>6. /\ used.level = frames[Depth].level /\ used.entry = frames[Depth].entry
        /\ used.machine = frames[Depth].machine
        /\ used.caller = frames[Depth].caller
        /\ used.previous = frames[Depth].previous
    BY <1>1 DEF Frame
  <2> QED BY <1>1, <2>4, <2>5, <2>6 DEF Depth
<1>3. CASE ~Top.bounded
  BY <1>1, <1>3 DEF syscall, Depth
<1> QED BY <1>2, <1>3

(* The levels depend on nothing but the levels and entries of the frames.   *)
LEMMA SameLevels ==
  ASSUME Typed, level' = level, Depth' = Depth,
         \A i \in 1..Depth : /\ frames'[i].level = frames[i].level
                             /\ frames'[i].entry = frames[i].entry
  PROVE  LevelDiscipline'
<1>1. Depth \in Nat
  BY LenProperties DEF Typed, TypeOK, Depth
<1>2. \A i \in 1..Depth : i # 1 => i - 1 \in 1..Depth
  BY <1>1
<1>3. Depth # 0 => Depth \in 1..Depth /\ Top'.level = Top.level
  BY <1>1 DEF Top, Last, Depth
<1>4. level' < MaxLevel /\ level' = IF Depth' = 0 THEN 0 ELSE Top'.level
  BY <1>3 DEF Typed, LevelDiscipline
<1>5. \A i \in 1..Depth' :
        frames'[i].level = IF frames'[i].entry = "main" THEN 0
                           ELSE IF i = 1 THEN 1 ELSE frames'[i-1].level + 1
  BY <1>2 DEF Typed, LevelDiscipline
<1>6. \A i, j \in 1..Depth' :
        i < j /\ frames'[j].entry = "main" => frames'[i].entry = "main"
  BY DEF Typed, LevelDiscipline
<1> QED BY <1>4, <1>5, <1>6 DEF LevelDiscipline

-----------------------------------------------------------------------------
(* Every action keeps Typed. *)
LEMMA TypedStep == Typed /\ [Next]_vars => Typed'
<1> SUFFICES ASSUME Typed, [Next]_vars PROVE Typed'
  OBVIOUS
<1> USE DEF vars
<1>0. /\ Depth \in Nat /\ frames \in Seq(Frame)
      /\ \A i \in 1..Depth : frames[i] \in Frame
      /\ Depth > 0 => Depth \in 1..Depth /\ Top = frames[Depth] /\ Top \in Frame
  BY ElementOfSeq, LenProperties DEF Typed, TypeOK, Depth, Top, Last
<1>1. CASE load
  <2>1. PICK m \in Machines :
          /\ machine' = m
          /\ Enter([entry |-> "main", level |-> 0, machine |-> m,
                    caller |-> 0, previous |-> unboxed,
                    bounded |-> settings.limited, fuel |-> Fuel])
    BY <1>1 DEF load
  <2> DEFINE f == [entry |-> "main", level |-> 0, machine |-> m,
                   caller |-> 0, previous |-> unboxed,
                   bounded |-> settings.limited, fuel |-> Fuel]
  <2>2. f \in Frame
    BY CallsAssumption DEF Frame, Typed, TypeOK, ExecutionSettings
  <2>3. LevelDiscipline' /\ frames' \in Seq(Frame) /\ cpu' \in Nat
    <3>1. /\ level' = f.level /\ f.level < MaxLevel /\ level = 0
          /\ f.entry = "main" /\ f.level = 0
      BY <1>1, CallsAssumption DEF load, is_in_vmcall
    <3> HIDE DEF f
    <3> QED BY <2>1, <2>2, <3>1, EnterTyped DEF f
  <2>4. TypeOK'
    BY <1>1, <2>1, <2>3, CallsAssumption DEF load, Enter, Typed, TypeOK
  <2> QED BY <1>0, <2>1, <2>3, <2>4, AppendProperties, <2>2 DEF Typed, Enter, Depth
<1>2. CASE unload
  <2>1. LevelDiscipline'
    BY <1>2, SameLevels DEF unload, is_in_vmcall, Depth
  <2>2. TypeOK'
    BY <1>2, CallsAssumption DEF unload, Typed, TypeOK
  <2> QED BY <1>2, <2>1, <2>2 DEF Typed, unload, Depth
<1>3. ASSUME NEW entry \in Entries, vmcall_internal(entry)
      PROVE  Typed'
  <2> DEFINE f == [entry    |-> IF entry = "boxed" THEN "boxed" ELSE "plain",
                   level    |-> level + 1,
                   machine  |-> machine,
                   caller   |-> IF reentrant(level + 1) THEN cpu ELSE 0,
                   previous |-> unboxed,
                   bounded  |-> enforces_limit(level + 1),
                   fuel     |-> Fuel]
  <2>1. /\ Enter(f) /\ level' = level + 1 /\ machine' = machine
        /\ level + 1 < MaxLevel /\ machine # NoMachine
        /\ unboxed' \in BOOLEAN
    BY <1>3 DEF vmcall_internal, MayEnter, Typed, TypeOK
  <2>2. f \in Frame
    <3>1. enforces_limit(level + 1) \in BOOLEAN
      BY DEF enforces_limit
    <3>2. level + 1 \in 0..(MaxLevel - 1)
      BY <2>1, CallsAssumption DEF Typed, TypeOK
    <3>3. (IF reentrant(level + 1) THEN cpu ELSE 0) \in Nat
      BY DEF Typed, TypeOK
    <3> QED BY <2>1, <3>1, <3>2, <3>3, CallsAssumption DEF Frame, Typed, TypeOK
  <2>3. LevelDiscipline' /\ frames' \in Seq(Frame) /\ cpu' \in Nat
    <3>1. /\ level' = f.level /\ f.level < MaxLevel /\ f.level = level + 1
          /\ f.entry # "main"
      BY <2>1
    <3> HIDE DEF f
    <3> QED BY <2>1, <2>2, <3>1, EnterTyped
  <2>4. level' \in 0..(MaxLevel - 1)
    BY <2>1, CallsAssumption DEF Typed, TypeOK
  <2>5. TypeOK'
    BY <1>3, <2>1, <2>3, <2>4, CallsAssumption
       DEF vmcall_internal, Enter, Typed, TypeOK
  <2>6. Depth' > 0
    <3> HIDE DEF f
    <3> QED BY <1>0, <2>1, <2>2, AppendProperties DEF Enter, Depth
  <2> QED BY <2>3, <2>5, <2>6 DEF Typed
<1>4. ASSUME NEW entry \in Entries,
             refuse_too_deep(entry) \/ refuse_arguments(entry)
      PROVE  Typed'
  <2>1. LevelDiscipline'
    BY <1>4, SameLevels DEF refuse_too_deep, refuse_arguments, Depth
  <2>2. throttled' \in ThrottleValues
    BY <1>4, CallsAssumption
       DEF refuse_too_deep, refuse_arguments, throttle, ThrottleValues, Typed, TypeOK
  <2>3. TypeOK'
    BY <1>4, <2>2 DEF refuse_too_deep, refuse_arguments, Typed, TypeOK
  <2> QED BY <1>4, <2>1, <2>3
          DEF Typed, refuse_too_deep, refuse_arguments, Depth
<1>5. CASE skip_throttled
  <2>1. LevelDiscipline'
    BY <1>5, SameLevels DEF skip_throttled, Depth
  <2>2. throttled' \in ThrottleValues
    BY <1>5 DEF skip_throttled, ThrottleValues, Typed, TypeOK
  <2>3. TypeOK'
    BY <1>5, <2>2 DEF skip_throttled, Typed, TypeOK
  <2> QED BY <1>5, <2>1, <2>3 DEF Typed, skip_throttled, Depth
<1>6. CASE syscall
  <2>1. LevelDiscipline'
    BY <1>6, SyscallTyped, SameLevels DEF syscall
  <2>2. TypeOK'
    BY <1>6, SyscallTyped DEF syscall, Typed, TypeOK
  <2> QED BY <1>6, <2>1, <2>2 DEF Typed, syscall
<1>7. CASE syscall_returns
  <2>1. LevelDiscipline'
    BY <1>7, SameLevels DEF syscall_returns, Depth
  <2>2. TypeOK'
    BY <1>7 DEF syscall_returns, Typed, TypeOK
  <2> QED BY <1>7, <2>1, <2>2 DEF Typed, syscall_returns, Depth
<1>8. CASE main_ends
  <2>1. Depth > 0
    BY <1>8 DEF main_ends, Typed
  <2>2. LevelDiscipline' /\ frames' \in Seq(Frame)
    BY <1>8, <2>1, LeaveTyped DEF main_ends
  <2>3. TypeOK'
    BY <1>8, <2>2 DEF main_ends, Typed, TypeOK
  <2> QED BY <1>8, <2>2, <2>3 DEF Typed, main_ends
<1>9. CASE vmcall_returns \/ vmcall_fails
  <2>1. Depth > 0 /\ Top.entry # "main" /\ Leave
    BY <1>9 DEF vmcall_returns, vmcall_fails, Typed
  <2>2. LevelDiscipline' /\ frames' \in Seq(Frame) /\ level' \in 0..(MaxLevel - 1)
    BY <2>1, LeaveTyped DEF Leave
  <2>3. cpu' \in Nat /\ unboxed' \in BOOLEAN
    BY <1>0, <2>1 DEF Leave, Frame, Typed, TypeOK
  <2>4. throttled' \in ThrottleValues
    BY <1>9, CallsAssumption
       DEF vmcall_returns, vmcall_fails, throttle, ThrottleValues, Typed, TypeOK
  <2>5. TypeOK'
    BY <2>1, <2>2, <2>3, <2>4 DEF Leave, Typed, TypeOK
  <2> QED BY <2>1, <2>2, <2>5 DEF Typed, Leave
<1>10. CASE time_out
  BY <1>8, <1>9, <1>10 DEF time_out
<1>11. CASE set_unboxed_arguments \/ set_execution_settings
  <2>1. LevelDiscipline'
    BY <1>11, SameLevels DEF set_unboxed_arguments, set_execution_settings, Depth
  <2>2. TypeOK'
    BY <1>11 DEF set_unboxed_arguments, set_execution_settings, Typed, TypeOK
  <2> QED BY <1>11, <2>1, <2>2
          DEF Typed, set_unboxed_arguments, set_execution_settings, Depth
<1>12. CASE UNCHANGED vars
  <2>1. LevelDiscipline'
    BY <1>12, SameLevels DEF Depth
  <2> QED BY <1>12, <2>1 DEF Typed, TypeOK, Depth
<1> QED BY <1>1, <1>2, <1>3, <1>4, <1>5, <1>6, <1>7, <1>8, <1>9, <1>10, <1>11,
           <1>12 DEF Next

(* Type correctness: the level stays inside m_states on every path.         *)
THEOREM TypeCorrect == Spec => []TypeOK
<1>1. Spec => []Typed
  BY TypedInit, TypedStep, PTL DEF Spec
<1>2. Typed => TypeOK
  BY DEF Typed
<1> QED BY <1>1, <1>2, PTL

(* The level is what the calls in progress say it is, whatever fails.       *)
THEOREM LevelsAreDisciplined == Spec => []LevelDiscipline
<1>1. Spec => []Typed
  BY TypedInit, TypedStep, PTL DEF Spec
<1>2. Typed => LevelDiscipline
  BY DEF Typed
<1> QED BY <1>1, <1>2, PTL

-----------------------------------------------------------------------------
(* The lowest call that switched unboxed_arguments off remembers what the   *)
(* host chose; those above it remember what calls had switched it to.       *)
LowestBoxed(i) ==
  frames[i].entry = "boxed" /\ \A k \in 1..(i - 1) : frames[k].entry # "boxed"

Remembered == \A i \in 1..Depth : LowestBoxed(i) => frames[i].previous = chosen

LEMMA RememberedStep ==
  ASSUME ~ReconfiguresInCalls, Typed, Remembered, SettingIsTheHosts, [Next]_vars
  PROVE  Remembered' /\ SettingIsTheHosts'
<1>0. /\ Depth \in Nat /\ frames \in Seq(Frame)
      /\ \A i \in 1..Depth : \A k \in 1..(i - 1) : k \in 1..Depth
  BY LenProperties DEF Typed, TypeOK, Depth
<1>1. ASSUME Depth' = Depth, chosen' = chosen, unboxed' = unboxed,
             \A i \in 1..Depth : /\ frames'[i].entry = frames[i].entry
                                 /\ frames'[i].previous = frames[i].previous
      PROVE  Remembered' /\ SettingIsTheHosts'
  BY <1>0, <1>1 DEF Remembered, LowestBoxed, SettingIsTheHosts
<1>2. ASSUME NEW f, Enter(f), chosen' = chosen,
             f.entry = "boxed" => f.previous = unboxed,
             f.entry # "boxed" => unboxed' = unboxed
      PROVE  Remembered' /\ SettingIsTheHosts'
  <2>1. frames \in Seq(Frame \cup {f}) /\ f \in Frame \cup {f}
    BY <1>0, SeqMonotonic
  <2>2. /\ Depth' = Depth + 1 /\ frames'[Depth + 1] = f
        /\ \A i \in 1..Depth : frames'[i] = frames[i]
    BY <1>2, <2>1, AppendProperties DEF Enter, Depth
  <2>3. ASSUME NEW i \in 1..Depth', LowestBoxed(i)' PROVE frames'[i].previous = chosen'
    <3>1. CASE i \in 1..Depth
      BY <1>0, <1>2, <2>2, <2>3, <3>1 DEF Remembered, LowestBoxed
    <3>2. CASE i \notin 1..Depth
      <4>1. i = Depth + 1 /\ \A k \in 1..Depth : k \in 1..(i - 1)
        BY <1>0, <2>2, <3>2
      <4>2. f.entry = "boxed" /\ \A k \in 1..Depth : frames[k].entry # "boxed"
        BY <2>2, <2>3, <4>1 DEF LowestBoxed
      <4> QED BY <1>2, <2>2, <4>1, <4>2 DEF SettingIsTheHosts
    <3> QED BY <3>1, <3>2
  <2>4. ASSUME \A i \in 1..Depth' : frames'[i].entry # "boxed" PROVE unboxed' = chosen'
    <3>1. Depth + 1 \in 1..Depth' /\ \A i \in 1..Depth : i \in 1..Depth'
      BY <1>0, <2>2
    <3>2. f.entry # "boxed" /\ \A i \in 1..Depth : frames[i].entry # "boxed"
      BY <2>2, <2>4, <3>1
    <3> QED BY <1>2, <3>2 DEF SettingIsTheHosts
  <2> QED BY <2>3, <2>4 DEF Remembered, SettingIsTheHosts
<1>3. ASSUME Depth > 0, frames' = Front(frames), chosen' = chosen,
             unboxed' = IF Top.entry = "boxed" THEN Top.previous ELSE unboxed
      PROVE  Remembered' /\ SettingIsTheHosts'
  <2>1. /\ Depth' = Depth - 1 /\ Depth \in 1..Depth /\ Top = frames[Depth]
        /\ \A i \in 1..(Depth - 1) : frames'[i] = frames[i] /\ i \in 1..Depth
    BY <1>0, <1>3, FrontProperties DEF Depth, Top, Last
  <2>2. Remembered'
    <3>1. ASSUME NEW i \in 1..(Depth - 1), LowestBoxed(i)' PROVE LowestBoxed(i)
      <4>1. \A k \in 1..(i - 1) : k \in 1..(Depth - 1)
        BY <1>0
      <4> QED BY <2>1, <3>1, <4>1 DEF LowestBoxed
    <3> QED BY <1>3, <2>1, <3>1 DEF Remembered
  <2>3. ASSUME \A i \in 1..Depth' : frames'[i].entry # "boxed" PROVE unboxed' = chosen'
    <3>1. \A i \in 1..(Depth - 1) : frames[i].entry # "boxed"
      BY <2>1, <2>3
    <3>2. CASE Top.entry = "boxed"
      <4>1. LowestBoxed(Depth)
        BY <2>1, <3>1, <3>2 DEF LowestBoxed
      <4> QED BY <1>3, <2>1, <3>2, <4>1 DEF Remembered
    <3>3. CASE Top.entry # "boxed"
      <4>1. \A i \in 1..Depth : i \in 1..(Depth - 1) \/ i = Depth
        BY <1>0
      <4>2. \A i \in 1..Depth : frames[i].entry # "boxed"
        BY <2>1, <3>1, <3>3, <4>1
      <4> QED BY <1>3, <3>3, <4>2 DEF SettingIsTheHosts
    <3> QED BY <3>2, <3>3
  <2> QED BY <2>2, <2>3 DEF SettingIsTheHosts
<1>4. CASE load
  BY <1>2, <1>4 DEF load
<1>5. ASSUME NEW entry \in Entries, vmcall_internal(entry)
      PROVE  Remembered' /\ SettingIsTheHosts'
  <2>1. PICK f : /\ Enter(f) /\ f.previous = unboxed
                 /\ f.entry = IF entry = "boxed" THEN "boxed" ELSE "plain"
    BY <1>5 DEF vmcall_internal
  <2>2. chosen' = chosen /\ unboxed' = IF entry = "boxed" THEN FALSE ELSE unboxed
    BY <1>5 DEF vmcall_internal
  <2> QED BY <1>2, <2>1, <2>2
<1>6. CASE syscall
  BY <1>1, <1>6, SyscallTyped DEF syscall
<1>7. CASE main_ends
  <2>1. /\ Depth > 0 /\ Top.entry = "main" /\ frames' = Front(frames)
        /\ UNCHANGED <<unboxed, chosen>>
    BY <1>7 DEF main_ends, Typed
  <2> QED BY <1>3, <2>1
<1>8. CASE vmcall_returns \/ vmcall_fails
  <2>1. Depth > 0 /\ Leave
    BY <1>8 DEF vmcall_returns, vmcall_fails, Typed
  <2> QED BY <1>3, <2>1 DEF Leave
<1>9. CASE set_unboxed_arguments
  <2>1. Depth = 0 /\ frames' = frames /\ chosen' = unboxed'
    BY <1>9 DEF set_unboxed_arguments
  <2> QED BY <2>1 DEF Remembered, SettingIsTheHosts, Depth
<1>10. CASE UNCHANGED <<frames, unboxed, chosen>>
  BY <1>1, <1>10 DEF Depth
<1> QED BY <1>4, <1>5, <1>6, <1>7, <1>8, <1>9, <1>10
        DEF Next, vars, unload, refuse_too_deep, refuse_arguments, time_out,
            skip_throttled, syscall_returns, set_execution_settings

(* unboxed_arguments is back to what the host chose when the last call that *)
(* switched it off has ended, however calls nest, return, fail or are       *)
(* refused; for hosts that do not set it while a call is in progress.       *)
THEOREM SettingIsRestored ==
  ASSUME ~ReconfiguresInCalls PROVE Spec => []SettingIsTheHosts
<1>1. Init => Typed /\ Remembered /\ SettingIsTheHosts
  BY TypedInit, LenProperties DEF Init, Remembered, SettingIsTheHosts, Depth
<1>2. Typed /\ Remembered /\ SettingIsTheHosts /\ [Next]_vars
        => (Typed /\ Remembered /\ SettingIsTheHosts)'
  BY TypedStep, RememberedStep
<1> QED BY <1>1, <1>2, PTL DEF Spec

-----------------------------------------------------------------------------
(* is_in_vmcall() says whether a call is in progress: at level 0 there is   *)
(* nothing but main(), above it the innermost activation is a call.         *)
LEMMA LevelZero ==
  ASSUME Typed
  PROVE  /\ level = 0 => \A i \in 1..Depth : frames[i].entry = "main"
         /\ level # 0 => Depth > 0 /\ Top.entry # "main"
<1>1. /\ Depth \in Nat /\ \A i \in 1..Depth : frames[i] \in Frame
      /\ Depth > 0 => Depth \in 1..Depth /\ Top = frames[Depth]
  BY ElementOfSeq, LenProperties DEF Typed, TypeOK, Depth, Top, Last
<1>2. ASSUME level # 0 PROVE Depth > 0 /\ Top.entry # "main"
  BY <1>1, <1>2 DEF Typed, LevelDiscipline
<1>3. ASSUME level = 0, NEW i \in 1..Depth PROVE frames[i].entry = "main"
  <2>1. Depth \in 1..Depth /\ level = frames[Depth].level
    BY <1>1, <1>3 DEF Typed, LevelDiscipline
  <2>2. frames[Depth].entry = "main"
    <3>1. CASE Depth = 1
      BY <1>1, <1>3, <2>1, <3>1 DEF Typed, LevelDiscipline
    <3>2. CASE Depth # 1
      <4>1. Depth - 1 \in 1..Depth /\ frames[Depth - 1].level \in Nat
        BY <1>1, <2>1, <3>2 DEF Frame
      <4> QED BY <1>1, <1>3, <2>1, <3>2, <4>1 DEF Typed, LevelDiscipline
    <3> QED BY <3>1, <3>2
  <2> QED BY <1>1, <2>1, <2>2 DEF Typed, LevelDiscipline
<1> QED BY <1>2, <1>3

(* What the stack of activations loses or gains in a step.                  *)
LEMMA StackChange ==
  ASSUME Typed, [Next]_vars
  PROVE  \/ /\ Depth' = Depth
            /\ \A i \in 1..Depth : /\ frames'[i].entry = frames[i].entry
                                   /\ frames'[i].level = frames[i].level
                                   /\ frames'[i].machine = frames[i].machine
                                   /\ frames'[i].caller = frames[i].caller
         \/ /\ Depth' = Depth + 1
            /\ \A i \in 1..Depth : frames'[i] = frames[i]
         \/ /\ Depth > 0 /\ Depth' = Depth - 1
            /\ \A i \in 1..(Depth - 1) : frames'[i] = frames[i]
<1>1. Depth \in Nat /\ frames \in Seq(Frame)
  BY LenProperties DEF Typed, TypeOK, Depth
<1>2. ASSUME NEW f, Enter(f)
      PROVE  Depth' = Depth + 1 /\ \A i \in 1..Depth : frames'[i] = frames[i]
  <2>1. frames \in Seq(Frame \cup {f}) /\ f \in Frame \cup {f}
    BY <1>1, SeqMonotonic
  <2> QED BY <1>2, <2>1, AppendProperties DEF Enter, Depth
<1>3. CASE load
  BY <1>2, <1>3 DEF load
<1>4. ASSUME NEW entry \in Entries, vmcall_internal(entry)
      PROVE  Depth' = Depth + 1 /\ \A i \in 1..Depth : frames'[i] = frames[i]
  BY <1>2, <1>4 DEF vmcall_internal
<1>5. CASE syscall
  BY <1>5, SyscallTyped
<1>6. CASE main_ends \/ vmcall_returns \/ vmcall_fails \/ time_out
  <2>1. Depth > 0 /\ frames' = Front(frames)
    BY <1>6 DEF main_ends, vmcall_returns, vmcall_fails, time_out, Leave, Typed
  <2> QED BY <1>1, <2>1, FrontProperties DEF Depth
<1>7. CASE UNCHANGED frames
  BY <1>7 DEF Depth
<1> QED BY <1>3, <1>4, <1>5, <1>6, <1>7
        DEF Next, vars, unload, refuse_too_deep, refuse_arguments,
            skip_throttled, syscall_returns, set_unboxed_arguments,
            set_execution_settings

(* No program is loaded, and no machine deleted, under a guest call: the    *)
(* frames of calls exist above level 0 only, and that is what the guards    *)
(* of set_program, load_buffer and reset look at.                           *)
THEOREM CallsKeepTheirMachine == Spec => []CallsRunOnTheirMachine
<1> DEFINE IInv == Typed /\ CallsRunOnTheirMachine
<1>1. Init => IInv
  BY TypedInit, LenProperties DEF Init, CallsRunOnTheirMachine, Depth
<1>2. IInv /\ [Next]_vars => IInv'
  <2> SUFFICES ASSUME IInv, [Next]_vars PROVE CallsRunOnTheirMachine'
    BY TypedStep
  <2>0. Depth \in Nat /\ frames \in Seq(Frame)
    BY LenProperties DEF Typed, TypeOK, Depth
  <2>1. CASE load \/ unload
    <3>1. \A i \in 1..Depth : frames[i].entry = "main"
      BY <2>1, LevelZero DEF load, unload, is_in_vmcall
    <3>2. CASE unload
      BY <3>1, <3>2 DEF unload, CallsRunOnTheirMachine, Depth
    <3>3. CASE load
      <4>1. PICK f : f.entry = "main" /\ Enter(f)
        BY <3>3 DEF load
      <4>2. frames \in Seq(Frame \cup {f}) /\ f \in Frame \cup {f}
        BY <2>0, SeqMonotonic
      <4>3. /\ Depth' = Depth + 1 /\ frames'[Depth + 1] = f
            /\ \A i \in 1..Depth : frames'[i] = frames[i]
        BY <4>1, <4>2, AppendProperties DEF Enter, Depth
      <4>4. \A i \in 1..Depth' : frames'[i].entry = "main"
        BY <2>0, <3>1, <4>1, <4>3
      <4> QED BY <4>4 DEF CallsRunOnTheirMachine
    <3> QED BY <2>1, <3>2, <3>3
  <2>2. ASSUME NEW entry \in Entries, vmcall_internal(entry)
        PROVE  CallsRunOnTheirMachine'
    <3> DEFINE f == [entry    |-> IF entry = "boxed" THEN "boxed" ELSE "plain",
                     level    |-> level + 1,
                     machine  |-> machine,
                     caller   |-> IF reentrant(level + 1) THEN cpu ELSE 0,
                     previous |-> unboxed,
                     bounded  |-> enforces_limit(level + 1),
                     fuel     |-> Fuel]
    <3>1. Enter(f) /\ machine' = machine /\ f.machine = machine
      BY <2>2 DEF vmcall_internal
    <3> HIDE DEF f
    <3>2. frames \in Seq(Frame \cup {f}) /\ f \in Frame \cup {f}
      BY <2>0, SeqMonotonic
    <3>3. /\ Depth' = Depth + 1 /\ frames'[Depth + 1] = f
          /\ \A i \in 1..Depth : frames'[i] = frames[i]
      BY <3>1, <3>2, AppendProperties DEF Enter, Depth
    <3> QED BY <2>0, <3>1, <3>3 DEF CallsRunOnTheirMachine
  <2>3. CASE machine' = machine /\ (Depth' = Depth \/ Depth' = Depth - 1)
    BY <2>0, <2>3, StackChange DEF CallsRunOnTheirMachine
  <2>4. CASE syscall
    BY <2>3, <2>4, SyscallTyped DEF syscall
  <2>5. CASE main_ends \/ vmcall_returns \/ vmcall_fails \/ time_out
    <3>1. Depth > 0 /\ frames' = Front(frames) /\ machine' = machine
      BY <2>5 DEF main_ends, vmcall_returns, vmcall_fails, time_out, Leave, Typed
    <3> QED BY <2>0, <2>3, <3>1, FrontProperties DEF Depth
  <2>6. CASE UNCHANGED <<frames, machine>>
    BY <2>3, <2>6 DEF Depth
  <2> QED BY <2>1, <2>2, <2>4, <2>5, <2>6
          DEF Next, vars, refuse_too_deep, refuse_arguments, skip_throttled,
              syscall_returns, set_unboxed_arguments, set_execution_settings
<1> QED BY <1>1, <1>2, PTL DEF Spec

-----------------------------------------------------------------------------
(* The rest is about a Sandbox whose main() reaches no code of the host and *)
(* where setup_arguments refuses arguments at level 1 only; without either  *)
(* condition the runs show counterexamples.                                 *)
Embedded == ~MainMayCallHost /\ RefusedLevels \subseteq {1}

(* Then main() runs alone, the i-th activation is the call at level i, it   *)
(* saved the registers of the one before it, and the registers in the       *)
(* machine are the innermost one's also while it waits for the host.        *)
Stacked ==
  /\ cpu = Depth
  /\ \A i \in 1..Depth :
       /\ frames[i].machine = machine
       /\ frames[i].entry = "main" => Depth = 1 /\ control = "guest"
       /\ frames[i].entry # "main" => /\ frames[i].level = i
                                      /\ i > 1 => frames[i].caller = i - 1

LEMMA LevelIsDepth ==
  ASSUME Typed, Stacked,
         control = "host" \/ (Depth > 0 /\ Top.entry # "main")
  PROVE  /\ level = Depth
         /\ \A i \in 1..Depth : frames[i].entry # "main"
<1>1. /\ Depth \in Nat
      /\ Depth > 0 => Depth \in 1..Depth /\ Top = frames[Depth]
  BY LenProperties DEF Typed, TypeOK, Depth, Top, Last
<1>2. level = IF Depth = 0 THEN 0 ELSE Top.level
  BY DEF Typed, LevelDiscipline
<1>3. ASSUME NEW i \in 1..Depth, frames[i].entry = "main" PROVE FALSE
  <2>1. Depth = 1 /\ i = 1 /\ control = "guest"
    BY <1>1, <1>3 DEF Stacked
  <2> QED BY <1>1, <1>3, <2>1
<1>4. ASSUME Depth > 0 PROVE Top.level = Depth
  <2>1. Depth \in 1..Depth /\ frames[Depth].entry # "main"
    BY <1>1, <1>3, <1>4
  <2>2. frames[Depth].level = Depth
    BY <2>1 DEF Stacked
  <2> QED BY <1>1, <1>4, <2>2
<1> QED BY <1>1, <1>2, <1>3, <1>4

LEMMA StackedStep ==
  ASSUME Embedded, Typed, Stacked, [Next]_vars
  PROVE  Stacked'
<1>0. /\ Depth \in Nat /\ frames \in Seq(Frame)
      /\ \A i \in 1..Depth : frames[i] \in Frame
      /\ Depth > 0 => Depth \in 1..Depth /\ Top = frames[Depth]
      /\ level = IF Depth = 0 THEN 0 ELSE Top.level
  BY ElementOfSeq, LenProperties
     DEF Typed, TypeOK, LevelDiscipline, Depth, Top, Last
<1>1. control = "host" => level = Depth
  BY LevelIsDepth
<1>2. ASSUME NEW f, Enter(f)
      PROVE  /\ Depth' = Depth + 1 /\ frames'[Depth + 1] = f
             /\ cpu' = Depth + 1 /\ control' = "guest"
             /\ \A i \in 1..Depth : frames'[i] = frames[i]
  <2>1. frames \in Seq(Frame \cup {f}) /\ f \in Frame \cup {f}
    BY <1>0, SeqMonotonic
  <2> QED BY <1>2, <2>1, AppendProperties DEF Enter, Depth
<1>3. CASE load
  <2>1. Depth = 0
    BY <1>1, <1>3 DEF load, is_in_vmcall
  <2>2. PICK f : f.entry = "main" /\ f.machine = machine' /\ Enter(f)
    BY <1>3 DEF load
  <2> QED BY <1>2, <2>1, <2>2 DEF Stacked
<1>4. CASE unload
  <2>1. Depth = 0
    BY <1>1, <1>4 DEF unload, is_in_vmcall
  <2> QED BY <1>4, <2>1 DEF Stacked, unload, Depth
<1>5. ASSUME NEW entry \in Entries, vmcall_internal(entry)
      PROVE  Stacked'
  <2> DEFINE f == [entry    |-> IF entry = "boxed" THEN "boxed" ELSE "plain",
                   level    |-> level + 1,
                   machine  |-> machine,
                   caller   |-> IF reentrant(level + 1) THEN cpu ELSE 0,
                   previous |-> unboxed,
                   bounded  |-> enforces_limit(level + 1),
                   fuel     |-> Fuel]
  <2>1. level = Depth /\ control = "host" /\ machine' = machine /\ Enter(f)
    BY <1>1, <1>5 DEF vmcall_internal, MayEnter
  <2>2. /\ f.machine = machine /\ f.entry # "main" /\ f.level = Depth + 1
        /\ Depth + 1 > 1 => f.caller = Depth
    BY <2>1 DEF Stacked, reentrant
  <2> HIDE DEF f
  <2>3. \A i \in 1..Depth : frames[i].entry # "main"
    BY <2>1 DEF Stacked
  <2>4. ASSUME NEW i \in 1..Depth'
        PROVE  /\ frames'[i].machine = machine' /\ frames'[i].entry # "main"
               /\ frames'[i].level = i
               /\ i > 1 => frames'[i].caller = i - 1
    <3>1. CASE i \in 1..Depth
      BY <1>2, <2>1, <2>3, <3>1 DEF Stacked
    <3>2. CASE i = Depth + 1
      BY <1>0, <1>2, <2>1, <2>2, <3>2
    <3> QED BY <1>0, <1>2, <2>1, <3>1, <3>2
  <2>5. cpu' = Depth'
    BY <1>2, <2>1
  <2> QED BY <2>4, <2>5 DEF Stacked
<1>6. ASSUME NEW entry \in Entries, refuse_arguments(entry)
      PROVE  Stacked'
  <2>1. Depth = 0
    BY <1>0, <1>1, <1>6 DEF refuse_arguments, MayEnter, Embedded
  <2> QED BY <1>6, <2>1 DEF refuse_arguments, Stacked, Depth
<1>7. CASE syscall
  <2>1. Depth \in 1..Depth /\ Top.entry # "main"
    BY <1>0, <1>7, SyscallTyped DEF syscall, Embedded
  <2>2. \A i \in 1..Depth : frames[i].entry # "main"
    BY <1>0, <2>1 DEF Stacked
  <2> QED BY <1>7, <2>2, SyscallTyped DEF syscall, Stacked
<1>8. CASE syscall_returns
  BY <1>8 DEF syscall_returns, Stacked, Depth
<1>9. CASE main_ends
  <2>1. Depth = 1 /\ cpu' = 0
    BY <1>0, <1>9 DEF main_ends, Stacked, Typed
  <2>2. Depth' = 0
    BY <1>0, <1>9, <2>1, FrontProperties DEF main_ends, Depth
  <2> QED BY <2>1, <2>2 DEF Stacked
<1>10. CASE vmcall_returns \/ vmcall_fails
  <2>1. Depth \in 1..Depth /\ Top.entry # "main" /\ Leave
    BY <1>0, <1>10 DEF vmcall_returns, vmcall_fails, Typed
  <2>2. /\ level = Depth /\ \A i \in 1..Depth : frames[i].entry # "main"
        /\ Depth > 1 => Top.caller = Depth - 1
    BY <1>0, <2>1, LevelIsDepth DEF Stacked
  <2>3. Depth' = Depth - 1 /\ \A i \in 1..(Depth - 1) : frames'[i] = frames[i]
    BY <1>0, <2>1, FrontProperties DEF Leave, Depth
  <2>4. cpu' = Depth' /\ machine' = machine
    BY <1>0, <2>1, <2>2, <2>3 DEF Leave, reentrant
  <2>5. ASSUME NEW i \in 1..Depth'
        PROVE  /\ frames'[i].machine = machine' /\ frames'[i].entry # "main"
               /\ frames'[i].level = i
               /\ i > 1 => frames'[i].caller = i - 1
    <3>1. i \in 1..Depth /\ i \in 1..(Depth - 1)
      BY <1>0, <2>3
    <3> QED BY <2>2, <2>3, <2>4, <3>1 DEF Stacked
  <2> QED BY <2>4, <2>5 DEF Stacked
<1>11. CASE time_out
  BY <1>9, <1>10, <1>11 DEF time_out
<1>12. CASE UNCHANGED <<frames, control, machine, cpu>>
  BY <1>12 DEF Stacked, Depth
<1> QED BY <1>3, <1>4, <1>5, <1>6, <1>7, <1>8, <1>9, <1>10, <1>11, <1>12
        DEF Next, vars, refuse_too_deep, skip_throttled,
            set_unboxed_arguments, set_execution_settings

LEMMA StackedAlways == ASSUME Embedded PROVE Spec => [](Typed /\ Stacked)
<1>1. Init => Typed /\ Stacked
  BY TypedInit DEF Init, Stacked, Depth
<1>2. Typed /\ Stacked /\ [Next]_vars => (Typed /\ Stacked)'
  BY TypedStep, StackedStep
<1> QED BY <1>1, <1>2, PTL DEF Spec

(* Guest code always runs on its own registers, whatever nested calls did.  *)
THEOREM RegistersAreRestored ==
  ASSUME Embedded PROVE Spec => []GuestRunsOnItsRegisters
<1>1. Stacked => GuestRunsOnItsRegisters
  BY DEF Stacked, GuestRunsOnItsRegisters
<1> QED BY <1>1, StackedAlways, PTL

(* No guest code, main() included, outlives the machine it runs on.         *)
THEOREM CodeKeepsItsMachine ==
  ASSUME Embedded PROVE Spec => []CodeRunsOnItsMachine
<1>1. Stacked => CodeRunsOnItsMachine
  BY DEF Stacked, CodeRunsOnItsMachine
<1> QED BY <1>1, StackedAlways, PTL

(* SandboxCalls implements NestedCalls: a refused call is a stutter, and a  *)
(* call that ends, ends in the state its caller was interrupted in.         *)
THEOREM ImplementsNestedCalls == ASSUME Embedded PROVE Spec => Refinement
<1>1. Init => Promise!Init
  BY DEF Init, Promise!Init, Depth
<1>2. Typed /\ Stacked /\ [Next]_vars => [Promise!Next]_(Promise!vars)
  <2> SUFFICES ASSUME Typed, Stacked, [Next]_vars
               PROVE  [Promise!Next]_(Promise!vars)
    OBVIOUS
  <2> USE DEF Promise!vars
  <2>0. /\ Depth \in Nat /\ frames \in Seq(Frame)
        /\ Depth > 0 => Depth \in 1..Depth /\ Top = frames[Depth]
        /\ level = IF Depth = 0 THEN 0 ELSE Top.level
        /\ cpu = Depth
    BY LenProperties
       DEF Typed, TypeOK, LevelDiscipline, Stacked, Depth, Top, Last
  <2>1. control = "host" => level = Depth
    BY LevelIsDepth
  <2>2. Stacked'
    BY StackedStep
  <2>3. cpu' = Depth'
    BY <2>2 DEF Stacked
  <2>4. ASSUME NEW f, Enter(f), control = "host", Depth < MaxLevel - 1
        PROVE  Promise!Begin
    <3>1. frames \in Seq(Frame \cup {f}) /\ f \in Frame \cup {f}
      BY <2>0, SeqMonotonic
    <3> QED BY <2>4, <3>1, AppendProperties DEF Enter, Depth, Promise!Begin
  <2>5. CASE load
    <3>1. Depth = 0 /\ control = "host"
      BY <2>1, <2>5 DEF load, is_in_vmcall
    <3>2. Depth < MaxLevel - 1
      BY <3>1, CallsAssumption
    <3>3. PICK f : Enter(f)
      BY <2>5 DEF load
    <3> QED BY <2>4, <3>1, <3>2, <3>3 DEF Promise!Next
  <2>6. ASSUME NEW entry \in Entries, vmcall_internal(entry)
        PROVE  Promise!Next
    <3>1. control = "host" /\ level + 1 < MaxLevel /\ \E f : Enter(f)
      BY <2>6 DEF vmcall_internal, MayEnter
    <3>2. Depth < MaxLevel - 1
      BY <2>0, <2>1, <3>1, CallsAssumption
    <3> QED BY <2>4, <3>1, <3>2 DEF Promise!Next
  <2>7. CASE syscall
    BY <2>0, <2>3, <2>7, SyscallTyped DEF syscall, Promise!Next, Promise!Suspend
  <2>8. CASE syscall_returns
    BY <2>8 DEF syscall_returns, Depth, Promise!Next, Promise!Resume
  <2>9. CASE main_ends \/ vmcall_returns \/ vmcall_fails \/ time_out
    <3>1. /\ control = "guest" /\ control' = "host"
          /\ Depth > 0 /\ frames' = Front(frames)
      BY <2>9 DEF main_ends, vmcall_returns, vmcall_fails, time_out, Leave, Typed
    <3>2. Depth' = Depth - 1
      BY <2>0, <3>1, FrontProperties DEF Depth
    <3> QED BY <2>3, <3>1, <3>2 DEF Promise!Next, Promise!End
  <2>10. CASE UNCHANGED <<frames, control>>
    BY <2>0, <2>3, <2>10 DEF Depth
  <2> QED BY <2>5, <2>6, <2>7, <2>8, <2>9, <2>10
          DEF Next, vars, unload, refuse_too_deep, refuse_arguments,
              skip_throttled, set_unboxed_arguments, set_execution_settings
<1> QED BY <1>1, <1>2, StackedAlways, PTL DEF Spec, Refinement, Promise!Spec
=============================================================================
