------------------------ MODULE ScriptInstances_proofs ------------------------
(* Theorems about ScriptInstances, for any numbers of nodes, scripts and    *)
(* Sandboxes.                                                               *)
EXTENDS ScriptInstances, FiniteSetTheorems, SequenceTheorems,
        WellFoundedInduction, TLAPS

Calls == [node : Owners, sandbox : Boxes, scoped : BOOLEAN, moved : BOOLEAN,
          old_tree_base : Owners \cup {Nobody}]

SandboxStates == [life : {"none", "alive", "queued"}, program : Attached \cup {Nobody},
                  m_tree_base : Owners \cup {Nobody}]
USE DEF SandboxStates

Typed ==
  /\ instance \in [Owners -> Instances \cup {Nobody}]
  /\ sandbox_instances \in [Attached -> SharedEntries \cup {Nobody}]
  /\ sandboxes \in [Boxes -> SandboxStates]
  /\ activations \in Seq(Calls)
  /\ elf_script \in [CPPScripts -> ELFs \cup {Nobody}]

(* An instance runs on the Sandbox of its script, or on its own node.       *)
Placed ==
  \A n \in Owners : instance[n] # Nobody =>
    \/ instance[n].script \in ELFs /\ instance[n].current_sandbox \in SandboxOwners
    \/ /\ sandbox_instances[instance[n].script] # Nobody
       /\ instance[n].current_sandbox = sandbox_instances[instance[n].script].sandbox

(* A node that is a Sandbox lives, and so do the Sandboxes of the scripts,  *)
(* which are different ones.                                                *)
Living ==
  /\ \A b \in SandboxOwners : sandboxes[b].life = "alive"
  /\ \A s \in Attached : sandbox_instances[s] # Nobody =>
       sandboxes[sandbox_instances[s].sandbox].life = "alive"
  /\ \A s, t \in Attached :
       sandbox_instances[s] # Nobody /\ sandbox_instances[t] # Nobody =>
         (sandbox_instances[s].sandbox = sandbox_instances[t].sandbox => s = t)
  /\ \A i \in 1..Len(activations) : sandboxes[activations[i].sandbox].life # "none"

Counts ==
  \A s \in Counted :
    IF InstancesOf(s) = {} THEN sandbox_instances[s] = Nobody
    ELSE /\ sandbox_instances[s] # Nobody
         /\ sandbox_instances[s].count = Cardinality(InstancesOf(s))

InstancesInv == Typed /\ Placed /\ Living /\ Counts

LEMMA KindsOfScripts ==
  /\ Counted \subseteq Attached /\ ELFs \subseteq Attached
  /\ \A s \in Attached : s \in ELFs <=> s \notin Counted
  /\ SandboxOwners \cap SharedBoxes = {} /\ SandboxOwners \subseteq Boxes
  /\ SharedBoxes \subseteq Boxes
BY InstancesAssumption DEF Counted, Attached, Boxes

LEMMA SomeInstances ==
  ASSUME NEW s
  PROVE  /\ InstancesOf(s) \subseteq Owners /\ IsFiniteSet(InstancesOf(s))
         /\ Cardinality(InstancesOf(s)) \in Nat
<1>1. InstancesOf(s) \subseteq Owners /\ IsFiniteSet(Owners)
  BY InstancesAssumption DEF InstancesOf
<1> QED BY <1>1, FS_Subset, FS_CardinalityType

LEMMA InitInstances == InstancesInit => InstancesInv
<1> SUFFICES ASSUME InstancesInit PROVE InstancesInv
  OBVIOUS
<1>1. activations = <<>> /\ activations \in Seq(Calls) /\ Len(activations) = 0
  BY EmptySeq DEF InstancesInit
<1>2. \A b \in Boxes : b \in SandboxOwners => b \in Owners
  BY InstancesAssumption
<1>3. Typed
  BY <1>1, <1>2 DEF InstancesInit, Typed, OwnBox, NoBox
<1>4. Placed
  BY DEF InstancesInit, Placed
<1>5. Living
  <2>1. \A b \in SandboxOwners : sandboxes[b].life = "alive"
    BY KindsOfScripts DEF InstancesInit, OwnBox
  <2>2. \A s \in Attached : sandbox_instances[s] = Nobody
    BY DEF InstancesInit
  <2>3. 1..Len(activations) = {}
    BY <1>1
  <2>4. \A i \in 1..Len(activations) : sandboxes[activations[i].sandbox].life # "none"
    BY <2>3
  <2>5. \A s, t \in Attached :
          sandbox_instances[s] # Nobody /\ sandbox_instances[t] # Nobody =>
            (sandbox_instances[s].sandbox = sandbox_instances[t].sandbox => s = t)
    BY <2>2
  <2>6. \A s \in Attached : sandbox_instances[s] # Nobody =>
          sandboxes[sandbox_instances[s].sandbox].life = "alive"
    BY <2>2
  <2> QED BY <2>1, <2>4, <2>5, <2>6 DEF Living
<1>6. \A s \in Counted : InstancesOf(s) = {}
  BY DEF InstancesInit, InstancesOf
<1>7. Counts
  BY <1>6, KindsOfScripts DEF InstancesInit, Counts
<1> QED BY <1>3, <1>4, <1>5, <1>7 DEF InstancesInv

(* There is an innermost call, since the stack is finite.                   *)
LEMMA InnermostIsScoped ==
  ASSUME activations \in Seq(Calls), NEW b \in Boxes, Scoped(b) # {}
  PROVE  /\ InnermostOn(b) \in Scoped(b) /\ InnermostOn(b) \in 1..Len(activations)
         /\ \A i \in Scoped(b) : i <= InnermostOn(b)
<1> DEFINE n == Len(activations)
           Before == OpToRel(<, Nat)
           FromTop == {n - i : i \in Scoped(b)}
<1>1. n \in Nat /\ Scoped(b) \subseteq 1..n /\ DOMAIN activations = 1..n
  BY LenProperties DEF Scoped
<1>2. \A i \in Scoped(b) : i \in Int /\ n - i \in Nat
  BY <1>1
<1>3. FromTop \subseteq Nat /\ FromTop # {}
  BY <1>2
<1>4. IsWellFoundedOn(Before, Nat)
  BY NatLessThanWellFounded
<1>5. PICK x \in FromTop : \A y \in FromTop : ~(<<y, x>> \in Before)
  <2> HIDE DEF Before, FromTop
  <2> QED BY <1>3, <1>4, WFMin
<1>6. \A x1, y1 \in Nat : <<y1, x1>> \in Before <=> y1 < x1
  BY DEF OpToRel
<1>7. PICK top \in Scoped(b) : x = n - top
  BY <1>5
<1>8. \A y \in FromTop : ~(y < x)
  BY <1>3, <1>5, <1>6
<1>9. ASSUME NEW i \in Scoped(b) PROVE top >= i
  <2>1. ~(n - i < n - top)
    BY <1>7, <1>8
  <2> QED BY <1>2, <2>1
<1>10. InnermostOn(b) \in Scoped(b) /\ \A i \in Scoped(b) : InnermostOn(b) >= i
  BY <1>9 DEF InnermostOn, Max
<1>11. \A i \in Scoped(b) : i <= InnermostOn(b)
  <2>1. \A i \in Scoped(b) : i \in Int
    BY <1>2
  <2> QED BY <1>10, <2>1
<1> QED BY <1>1, <1>10, <1>11

(* Moving a tree base changes neither who lives nor which calls run.        *)
SameCall(i, moved) ==
  /\ activations'[i].node = activations[i].node
  /\ activations'[i].sandbox = activations[i].sandbox
  /\ activations'[i].scoped = activations[i].scoped
  /\ activations'[i].old_tree_base = activations[i].old_tree_base
  /\ activations'[i].moved <=> activations[i].moved \/ moved

LEMMA MovesTreeBaseOnly ==
  ASSUME activations \in Seq(Calls), NEW b \in Boxes, NEW n \in Owners,
         NEW boxes \in [Boxes -> SandboxStates],
         MovesTreeBase(b, n, boxes)
  PROVE  /\ sandboxes' \in [Boxes -> SandboxStates]
         /\ \A c \in Boxes : sandboxes'[c].life = boxes[c].life
         /\ \A c \in Boxes : c # b => sandboxes'[c].m_tree_base = boxes[c].m_tree_base
         /\ activations' \in Seq(Calls) /\ Len(activations') = Len(activations)
         /\ \A i \in 1..Len(activations) :
              SameCall(i, Scoped(b) # {} /\ i = InnermostOn(b))
<1>1. /\ sandboxes' = [boxes EXCEPT ![b].m_tree_base = n]
      /\ activations' = IF Scoped(b) # {}
                        THEN [activations EXCEPT ![InnermostOn(b)].moved = TRUE]
                        ELSE activations
  BY DEF MovesTreeBase
<1>2. /\ sandboxes' \in [Boxes -> SandboxStates]
      /\ \A c \in Boxes : sandboxes'[c].life = boxes[c].life
      /\ \A c \in Boxes : c # b => sandboxes'[c].m_tree_base = boxes[c].m_tree_base
  BY <1>1
<1>3. Len(activations) \in Nat /\ \A i \in 1..Len(activations) : activations[i] \in Calls
  BY LenProperties, ElementOfSeq
<1>4. CASE Scoped(b) = {}
  BY <1>1, <1>2, <1>4 DEF SameCall
<1>5. CASE Scoped(b) # {}
  <2> DEFINE top == InnermostOn(b)
             marked == [activations[top] EXCEPT !.moved = TRUE]
  <2>1. top \in 1..Len(activations)
    BY <1>5, InnermostIsScoped
  <2>2. /\ marked \in Calls /\ marked.moved = TRUE
        /\ marked.node = activations[top].node
        /\ marked.sandbox = activations[top].sandbox
        /\ marked.scoped = activations[top].scoped
        /\ marked.old_tree_base = activations[top].old_tree_base
    <3>1. activations[top] \in Calls
      BY <1>3, <2>1
    <3> QED BY <3>1 DEF Calls
  <2>3. activations' = [activations EXCEPT ![top] = marked]
    BY <1>1, <1>5
  <2> HIDE DEF top, marked
  <2>4. /\ activations' \in Seq(Calls) /\ Len(activations') = Len(activations)
        /\ \A i \in 1..Len(activations) :
             activations'[i] = IF i = top THEN marked ELSE activations[i]
    BY <2>1, <2>2, <2>3, ExceptSeq
  <2>5. ASSUME NEW i \in 1..Len(activations)
        PROVE  SameCall(i, Scoped(b) # {} /\ i = InnermostOn(b))
    <3>1. CASE i = top
      <4>1. activations'[i] = marked
        BY <2>4, <3>1
      <4> QED BY <1>5, <2>2, <3>1, <4>1 DEF SameCall, top
    <3>2. CASE i # top
      <4>1. activations'[i] = activations[i]
        BY <2>4, <3>2
      <4> QED BY <3>2, <4>1 DEF SameCall, top
    <3> QED BY <3>1, <3>2
  <2> QED BY <1>2, <2>4, <2>5
<1> QED BY <1>4, <1>5

(* Steps that change only programs, tree bases and calls.                   *)
LEMMA SameInstances ==
  ASSUME InstancesInv, Typed', UNCHANGED <<instance, sandbox_instances>>,
         \A b \in Boxes : sandboxes'[b].life = sandboxes[b].life,
         \A i \in 1..Len(activations') :
           sandboxes[activations'[i].sandbox].life # "none"
  PROVE  InstancesInv'
<1>1. \A s : InstancesOf(s)' = InstancesOf(s)
  BY DEF InstancesOf
<1>2. Counts'
  BY <1>1 DEF InstancesInv, Counts
<1>3. Placed'
  BY DEF InstancesInv, Placed
<1>4. Living'
  <2>1. \A b \in SandboxOwners : sandboxes'[b].life = "alive"
    BY KindsOfScripts DEF InstancesInv, Living
  <2>2. \A s \in Attached : sandbox_instances[s] # Nobody =>
          sandbox_instances[s].sandbox \in Boxes
    BY KindsOfScripts DEF InstancesInv, Typed, SharedEntries
  <2>3. Len(activations') \in Nat
        /\ \A i \in 1..Len(activations') : activations'[i] \in Calls
    BY LenProperties, ElementOfSeq DEF Typed
  <2>4. \A i \in 1..Len(activations') : sandboxes'[activations'[i].sandbox].life # "none"
    BY <2>3 DEF Calls
  <2> QED BY <2>1, <2>2, <2>4 DEF InstancesInv, Living
<1> QED BY <1>2, <1>3, <1>4 DEF InstancesInv

(* A Sandbox is made for a script that has none, with its first program.    *)
MadeFor(s, b) ==
  IF sandbox_instances[s] # Nobody THEN sandboxes
  ELSE [sandboxes EXCEPT ![b] =
          [life |-> "alive", program |-> FirstProgram(s), m_tree_base |-> @.m_tree_base]]

LEMMA SandboxMade ==
  ASSUME Typed, NEW s \in Attached, NEW b \in Boxes
  PROVE  /\ MadeFor(s, b) \in [Boxes -> SandboxStates]
         /\ \A c \in Boxes : MadeFor(s, b)[c].m_tree_base = sandboxes[c].m_tree_base
         /\ \A c \in Boxes : MadeFor(s, b)[c].life =
              IF sandbox_instances[s] = Nobody /\ c = b THEN "alive" ELSE sandboxes[c].life
         /\ \A c \in Boxes : MadeFor(s, b)[c].program =
              IF sandbox_instances[s] = Nobody /\ c = b THEN FirstProgram(s)
              ELSE sandboxes[c].program
<1>1. \A c \in CPPScripts : elf_script[c] \in ELFs \cup {Nobody} /\ ELFOf[c] \in ELFs
  BY InstancesAssumption DEF Typed
<1>2. FirstProgram(s) \in Attached \cup {Nobody}
  BY <1>1, KindsOfScripts DEF FirstProgram, detect_script_instance
<1>3. PICK p \in Attached \cup {Nobody} : p = FirstProgram(s)
  BY <1>2
<1>4. sandboxes \in [Boxes -> SandboxStates]
  BY DEF Typed
<1>5. CASE sandbox_instances[s] # Nobody
  BY <1>4, <1>5 DEF MadeFor
<1>6. CASE sandbox_instances[s] = Nobody
  <2>1. PICK rec \in SandboxStates :
          rec = [life |-> "alive", program |-> p, m_tree_base |-> sandboxes[b].m_tree_base]
    BY <1>4
  <2>2. MadeFor(s, b) = [sandboxes EXCEPT ![b] = rec]
    BY <1>3, <1>4, <1>6, <2>1 DEF MadeFor
  <2>4. /\ MadeFor(s, b) \in [Boxes -> SandboxStates]
        /\ \A c \in Boxes : MadeFor(s, b)[c] = IF c = b THEN rec ELSE sandboxes[c]
    <3> HIDE DEF SandboxStates, MadeFor
    <3> QED BY <1>4, <2>2
  <2>5. rec.life = "alive" /\ rec.program = p /\ rec.m_tree_base = sandboxes[b].m_tree_base
    BY <2>1
  <2> HIDE DEF SandboxStates, MadeFor
  <2> QED BY <1>3, <1>6, <2>4, <2>5
<1> QED BY <1>5, <1>6

(* The last instance gives up the Sandbox of its script and no other.       *)
LEMMA GivesUpOne ==
  ASSUME InstancesInv, NEW n \in Owners, instance[n] # Nobody
  PROVE  /\ instance[n] \in Instances
         /\ instance[n].script \in Attached /\ instance[n].current_sandbox \in Boxes
         /\ instance[n].script \in Counted =>
              /\ sandbox_instances[instance[n].script] \in SharedEntries
              /\ instance[n].current_sandbox = sandbox_instances[instance[n].script].sandbox
              /\ instance[n].current_sandbox \in SharedBoxes
              /\ sandbox_instances[instance[n].script].count
                   = Cardinality(InstancesOf(instance[n].script))
         /\ GivesUpSandbox(n) \in [Boxes -> SandboxStates]
         /\ \A b \in Boxes :
              /\ GivesUpSandbox(n)[b].life =
                   IF LastOne(n) /\ b = instance[n].current_sandbox THEN "queued"
                   ELSE sandboxes[b].life
              /\ GivesUpSandbox(n)[b].m_tree_base = sandboxes[b].m_tree_base
<1>0. Typed /\ Placed /\ Counts
  BY DEF InstancesInv
<1> DEFINE s == instance[n].script
           own == instance[n].current_sandbox
<1>1. instance[n] \in Instances /\ s \in Attached /\ own \in Boxes
  BY <1>0 DEF Typed, Instances
<1>2. ASSUME s \in Counted
      PROVE  /\ sandbox_instances[s] \in SharedEntries /\ own = sandbox_instances[s].sandbox
             /\ own \in SharedBoxes
             /\ sandbox_instances[s].count = Cardinality(InstancesOf(s))
  <2>1. s \notin ELFs
    BY <1>1, <1>2, KindsOfScripts
  <2>2. sandbox_instances[s] # Nobody /\ own = sandbox_instances[s].sandbox
    BY <1>0, <2>1 DEF Placed
  <2>3. sandbox_instances[s] \in SharedEntries
    BY <1>0, <1>1, <2>2 DEF Typed
  <2>4. own \in SharedBoxes
    BY <2>2, <2>3 DEF SharedEntries
  <2>5. sandbox_instances[s].count = Cardinality(InstancesOf(s))
    BY <1>0, <1>2, <2>2 DEF Counts
  <2> QED BY <2>2, <2>3, <2>4, <2>5
<1>3. CASE LastOne(n)
  <2>1. GivesUpSandbox(n) = [sandboxes EXCEPT ![own].life = "queued"]
    BY <1>3 DEF GivesUpSandbox
  <2> QED BY <1>0, <1>1, <1>2, <1>3, <2>1 DEF Typed
<1>4. CASE ~LastOne(n)
  <2>1. GivesUpSandbox(n) = sandboxes
    BY <1>4 DEF GivesUpSandbox
  <2> QED BY <1>0, <1>1, <1>2, <1>4, <2>1 DEF Typed
<1> QED BY <1>3, <1>4

(* An instance that goes takes itself off the count, and the Sandbox with   *)
(* it if it is the last.                                                    *)
LEMMA Freed ==
  ASSUME InstancesInv, NEW n \in Owners, instance[n] # Nobody, instance_free(n),
         sandboxes' \in [Boxes -> SandboxStates],
         \A b \in Boxes : sandboxes'[b].life = GivesUpSandbox(n)[b].life,
         activations' = activations
  PROVE  InstancesInv'
<1>0. Typed /\ Placed /\ Living /\ Counts
  BY DEF InstancesInv
<1>1. PICK s \in Attached : s = instance[n].script
  BY GivesUpOne
<1>2. PICK own \in Boxes : own = instance[n].current_sandbox
  BY GivesUpOne
<1>3. /\ instance' = [instance EXCEPT ![n] = Nobody]
      /\ sandbox_instances' =
           IF s \notin Counted THEN sandbox_instances
           ELSE IF LastOne(n) THEN [sandbox_instances EXCEPT ![s] = Nobody]
           ELSE [sandbox_instances EXCEPT ![s].count = @ - 1]
      /\ elf_script' = IF s \in CPPScripts /\ InstancesOf(s) = {n}
                       THEN [elf_script EXCEPT ![s] = Nobody] ELSE elf_script
  BY <1>1 DEF instance_free
<1>4. /\ instance' \in [Owners -> Instances \cup {Nobody}] /\ instance'[n] = Nobody
      /\ \A m \in Owners : m # n => instance'[m] = instance[m]
  BY <1>0, <1>3 DEF Typed
<1>5. s \in Counted => /\ sandbox_instances[s] \in SharedEntries
                       /\ own = sandbox_instances[s].sandbox /\ own \in SharedBoxes
                       /\ sandbox_instances[s].count = Cardinality(InstancesOf(s))
  BY <1>1, <1>2, GivesUpOne
<1>6. LastOne(n) <=> s \in Counted /\ sandbox_instances[s].count = 1
  BY <1>1 DEF LastOne
<1>7. InstancesOf(s)' = InstancesOf(s) \ {n} /\ n \in InstancesOf(s)
  BY <1>1, <1>4 DEF InstancesOf
<1>8. \A t \in Attached : t # s => InstancesOf(t)' = InstancesOf(t)
  BY <1>1, <1>4 DEF InstancesOf
<1>9. /\ Cardinality(InstancesOf(s)') = Cardinality(InstancesOf(s)) - 1
      /\ Cardinality(InstancesOf(s)') \in Nat /\ Cardinality(InstancesOf(s)) \in Nat
      /\ InstancesOf(s)' = {} <=> Cardinality(InstancesOf(s)') = 0
  <2>1. IsFiniteSet(InstancesOf(s)) /\ Cardinality(InstancesOf(s)) \in Nat
    BY SomeInstances
  <2>2. IsFiniteSet(InstancesOf(s) \ {n})
        /\ Cardinality(InstancesOf(s) \ {n}) = Cardinality(InstancesOf(s)) - 1
    BY <1>7, <2>1, FS_RemoveElement
  <2>3. Cardinality(InstancesOf(s) \ {n}) \in Nat
        /\ (Cardinality(InstancesOf(s) \ {n}) = 0 <=> InstancesOf(s) \ {n} = {})
    BY <2>2, FS_CardinalityType, FS_EmptySet
  <2> QED BY <1>7, <2>1, <2>2, <2>3
<1>10. s \in Counted => (LastOne(n) <=> InstancesOf(s)' = {})
  BY <1>5, <1>6, <1>9
<1>11. \A t \in Attached : t # s => sandbox_instances'[t] = sandbox_instances[t]
  BY <1>0, <1>3 DEF Typed
<1>12. s \in Counted /\ LastOne(n) => sandbox_instances'[s] = Nobody
  BY <1>0, <1>3 DEF Typed
<1>13. s \in Counted /\ ~LastOne(n) =>
         /\ sandbox_instances'[s] = [sandbox_instances[s] EXCEPT !.count = @ - 1]
         /\ sandbox_instances'[s] \in SharedEntries
         /\ sandbox_instances'[s].sandbox = own
         /\ sandbox_instances'[s].count = Cardinality(InstancesOf(s)')
  <2> SUFFICES ASSUME s \in Counted, ~LastOne(n)
               PROVE  /\ sandbox_instances'[s] = [sandbox_instances[s] EXCEPT !.count = @ - 1]
                      /\ sandbox_instances'[s] \in SharedEntries
                      /\ sandbox_instances'[s].sandbox = own
                      /\ sandbox_instances'[s].count = Cardinality(InstancesOf(s)')
    OBVIOUS
  <2>1. sandbox_instances'[s] = [sandbox_instances[s] EXCEPT !.count = @ - 1]
    BY <1>0, <1>3 DEF Typed
  <2>2. sandbox_instances[s].count - 1 \in Nat
        /\ sandbox_instances[s].count - 1 = Cardinality(InstancesOf(s)')
    BY <1>5, <1>9
  <2> QED BY <1>5, <2>1, <2>2 DEF SharedEntries
<1>14. s \notin Counted => sandbox_instances' = sandbox_instances
  BY <1>3
<1>15. sandbox_instances' \in [Attached -> SharedEntries \cup {Nobody}]
  <2>1. /\ sandbox_instances' = [t \in Attached |-> sandbox_instances'[t]]
        /\ \A t \in Attached : sandbox_instances[t] \in SharedEntries \cup {Nobody}
    BY <1>0, <1>3 DEF Typed
  <2>2. \A t \in Attached : sandbox_instances'[t] \in SharedEntries \cup {Nobody}
    BY <1>11, <1>12, <1>13, <1>14, <2>1
  <2> QED BY <2>1, <2>2
<1>16. Typed'
  BY <1>0, <1>3, <1>4, <1>15 DEF Typed
<1>17. \A b \in Boxes : sandboxes'[b].life = IF LastOne(n) /\ b = own THEN "queued"
                                             ELSE sandboxes[b].life
  BY <1>2, GivesUpOne
<1>18. LastOne(n) => own \in SharedBoxes /\ s \in Counted
  BY <1>5, <1>6
<1>19. Placed'
  <2> SUFFICES ASSUME NEW m \in Owners, instance'[m] # Nobody
               PROVE  \/ /\ instance'[m].script \in ELFs
                         /\ instance'[m].current_sandbox \in SandboxOwners
                      \/ /\ sandbox_instances'[instance'[m].script] # Nobody
                         /\ instance'[m].current_sandbox =
                              sandbox_instances'[instance'[m].script].sandbox
    BY DEF Placed
  <2>1. m # n /\ instance'[m] = instance[m]
    BY <1>4
  <2>2. instance[m].script \in Attached
    BY <2>1, GivesUpOne
  <2>3. CASE instance[m].script # s
    BY <1>0, <1>11, <2>1, <2>2, <2>3 DEF Placed
  <2>4. CASE instance[m].script = s
    <3>1. InstancesOf(s)' # {}
      BY <2>1, <2>4 DEF InstancesOf
    <3>2. CASE s \notin Counted
      BY <1>0, <1>14, <2>1, <3>2 DEF Placed
    <3>3. CASE s \in Counted
      <4>1. sandbox_instances'[s] \in SharedEntries /\ sandbox_instances'[s].sandbox = own
        BY <1>10, <1>13, <3>1, <3>3
      <4>2. instance[m].current_sandbox = own
        BY <1>5, <2>1, <2>4, <3>3, GivesUpOne
      <4> QED BY <2>1, <2>4, <4>1, <4>2, InstancesAssumption
    <3> QED BY <3>2, <3>3
  <2> QED BY <2>3, <2>4
<1>20. Counts'
  <2> SUFFICES ASSUME NEW t \in Counted
               PROVE  IF InstancesOf(t)' = {} THEN sandbox_instances'[t] = Nobody
                      ELSE /\ sandbox_instances'[t] # Nobody
                           /\ sandbox_instances'[t].count = Cardinality(InstancesOf(t)')
    BY DEF Counts
  <2>1. t \in Attached
    BY KindsOfScripts
  <2>2. CASE t # s
    BY <1>0, <1>8, <1>11, <2>1, <2>2 DEF Counts
  <2>3. CASE t = s
    BY <1>10, <1>12, <1>13, <2>3, InstancesAssumption
  <2> QED BY <2>2, <2>3
<1>21. \A t \in Attached : sandbox_instances'[t] # Nobody =>
         /\ sandbox_instances[t] # Nobody
         /\ sandbox_instances'[t].sandbox = sandbox_instances[t].sandbox
         /\ sandbox_instances[t].sandbox \in Boxes
         /\ LastOne(n) => t # s
  <2> SUFFICES ASSUME NEW t \in Attached, sandbox_instances'[t] # Nobody
               PROVE  /\ sandbox_instances[t] # Nobody
                      /\ sandbox_instances'[t].sandbox = sandbox_instances[t].sandbox
                      /\ sandbox_instances[t].sandbox \in Boxes
                      /\ LastOne(n) => t # s
    OBVIOUS
  <2>1. /\ sandbox_instances[t] # Nobody
        /\ sandbox_instances'[t].sandbox = sandbox_instances[t].sandbox
        /\ LastOne(n) => t # s
    BY <1>5, <1>11, <1>12, <1>13, <1>14, <1>18, InstancesAssumption
  <2>2. sandbox_instances[t] \in SharedEntries
    BY <1>0, <2>1 DEF Typed
  <2> QED BY <2>1, <2>2, KindsOfScripts DEF SharedEntries
<1>22. Living'
  <2>1. \A b \in SandboxOwners : sandboxes'[b].life = "alive"
    BY <1>0, <1>17, <1>18, KindsOfScripts DEF Living
  <2>2. ASSUME NEW t \in Attached, sandbox_instances'[t] # Nobody
        PROVE  sandboxes'[sandbox_instances'[t].sandbox].life = "alive"
    <3>1. LastOne(n) => sandbox_instances[t].sandbox # own
      BY <1>0, <1>5, <1>18, <1>21, <2>2, InstancesAssumption DEF Living
    <3> QED BY <1>0, <1>17, <1>21, <2>2, <3>1 DEF Living
  <2>3. \A t, u \in Attached :
          sandbox_instances'[t] # Nobody /\ sandbox_instances'[u] # Nobody =>
            (sandbox_instances'[t].sandbox = sandbox_instances'[u].sandbox => t = u)
    BY <1>0, <1>21 DEF Living
  <2>4. \A i \in 1..Len(activations) : sandboxes'[activations[i].sandbox].life # "none"
    <3>1. \A i \in 1..Len(activations) : activations[i] \in Calls
      BY <1>0, ElementOfSeq DEF Typed
    <3> QED BY <1>0, <1>17, <3>1 DEF Living, Calls
  <2> QED BY <2>1, <2>2, <2>3, <2>4 DEF Living
<1> QED BY <1>16, <1>19, <1>20, <1>22 DEF InstancesInv

(* An instance on a node that is a Sandbox counts for no script.            *)
LEMMA CreatedOnSandbox ==
  ASSUME InstancesInv, NEW n \in Owners, NEW s \in Attached,
         instance_create_on_sandbox(n, s)
  PROVE  InstancesInv'
<1>0. Typed /\ Placed /\ Living /\ Counts
  BY DEF InstancesInv
<1>1. /\ n \in SandboxOwners /\ s \in ELFs /\ instance[n] = Nobody
      /\ instance' = [instance EXCEPT ![n] = [script |-> s, current_sandbox |-> n]]
      /\ MovesTreeBase(n, n, sandboxes)
      /\ UNCHANGED <<sandbox_instances, elf_script, built>>
  BY DEF instance_create_on_sandbox
<1>2. n \in Boxes /\ s \notin Counted
  BY <1>1, KindsOfScripts
<1>3. /\ instance' \in [Owners -> Instances \cup {Nobody}]
      /\ instance'[n].script = s /\ instance'[n].current_sandbox = n
      /\ \A m \in Owners : m # n => instance'[m] = instance[m]
  BY <1>0, <1>1, <1>2 DEF Typed, Instances
<1>4. /\ activations \in Seq(Calls)
      /\ sandboxes \in [Boxes -> SandboxStates]
  BY <1>0 DEF Typed
<1>5. /\ sandboxes' \in [Boxes -> SandboxStates]
      /\ \A c \in Boxes : sandboxes'[c].life = sandboxes[c].life
      /\ activations' \in Seq(Calls) /\ Len(activations') = Len(activations)
      /\ \A i \in 1..Len(activations) : activations'[i].sandbox = activations[i].sandbox
  BY <1>1, <1>2, <1>4, MovesTreeBaseOnly DEF SameCall
<1>6. Typed'
  BY <1>0, <1>1, <1>3, <1>5 DEF Typed
<1>7. \A t \in Counted : InstancesOf(t)' = InstancesOf(t)
  <2>1. ASSUME NEW t \in Counted, NEW m \in Owners
        PROVE  instance'[m] # Nobody /\ instance'[m].script = t
                 <=> instance[m] # Nobody /\ instance[m].script = t
    BY <1>1, <1>2, <1>3
  <2> QED BY <2>1 DEF InstancesOf
<1>8. Counts'
  BY <1>0, <1>1, <1>7 DEF Counts
<1>9. Placed'
  <2> SUFFICES ASSUME NEW m \in Owners, instance'[m] # Nobody
               PROVE  \/ /\ instance'[m].script \in ELFs
                         /\ instance'[m].current_sandbox \in SandboxOwners
                      \/ /\ sandbox_instances'[instance'[m].script] # Nobody
                         /\ instance'[m].current_sandbox =
                              sandbox_instances'[instance'[m].script].sandbox
    BY DEF Placed
  <2>1. CASE m = n
    BY <1>1, <1>3, <2>1
  <2>2. CASE m # n
    BY <1>0, <1>1, <1>3, <2>2 DEF Placed
  <2> QED BY <2>1, <2>2
<1>10. Living'
  <2>1. \A b \in SandboxOwners : sandboxes'[b].life = "alive"
    BY <1>0, <1>5, KindsOfScripts DEF Living
  <2>2. \A t \in Attached : sandbox_instances[t] # Nobody =>
          sandbox_instances[t].sandbox \in Boxes
    BY <1>0, KindsOfScripts DEF Typed, SharedEntries
  <2>3. \A i \in 1..Len(activations) : activations[i] \in Calls
    BY <1>0, ElementOfSeq DEF Typed
  <2>4. \A i \in 1..Len(activations) : sandboxes'[activations'[i].sandbox].life # "none"
    BY <1>0, <1>5, <2>3 DEF Living, Calls
  <2> QED BY <1>0, <1>1, <1>5, <2>1, <2>2, <2>4 DEF Living
<1> QED BY <1>6, <1>8, <1>9, <1>10 DEF InstancesInv

(* An instance on a shared Sandbox: the one of the script, counted once     *)
(* more, or a new one.                                                      *)
LEMMA CreatedShared ==
  ASSUME InstancesInv, NEW n \in Owners, NEW s \in Attached, NEW b \in SharedBoxes,
         instance_create(n, s, b)
  PROVE  InstancesInv'
<1>0. Typed /\ Placed /\ Living /\ Counts
  BY DEF InstancesInv
<1> DEFINE created == create_sandbox(s, b)
           made == IF sandbox_instances[s] # Nobody THEN sandboxes
                   ELSE [sandboxes EXCEPT ![b] =
                           [life |-> "alive", program |-> FirstProgram(s), m_tree_base |-> @.m_tree_base]]
<1>1. /\ instance[n] = Nobody /\ sandboxes[b].life = "none"
      /\ sandbox_instances' = [sandbox_instances EXCEPT ![s] = created]
      /\ instance' = [instance EXCEPT ![n] =
                        [script |-> s, current_sandbox |-> created.sandbox]]
      /\ MovesTreeBase(created.sandbox, n, made)
      /\ elf_script' = IF s \in CPPScripts
                       THEN [elf_script EXCEPT ![s] = detect_script_instance(s)]
                       ELSE elf_script
  BY DEF instance_create
<1>2. b \in Boxes /\ b \notin SandboxOwners
  BY KindsOfScripts
<1>3. /\ created \in SharedEntries
      /\ sandbox_instances[s] # Nobody =>
           /\ created.sandbox = sandbox_instances[s].sandbox
           /\ s \in Counted => created.count = sandbox_instances[s].count + 1
      /\ sandbox_instances[s] = Nobody =>
           created.sandbox = b /\ (s \in Counted => created.count = 1)
  <2>1. CASE sandbox_instances[s] # Nobody
    <3>1. sandbox_instances[s] \in SharedEntries
      BY <1>0, <2>1 DEF Typed
    <3> QED BY <2>1, <3>1 DEF create_sandbox, SharedEntries
  <2>2. CASE sandbox_instances[s] = Nobody
    BY <2>2 DEF create_sandbox, SharedEntries
  <2> QED BY <2>1, <2>2
<1>4. PICK own \in SharedBoxes : own = created.sandbox
  BY <1>3 DEF SharedEntries
<1>5. PICK entry \in SharedEntries : entry = created
  BY <1>3
<1>6. \A c \in CPPScripts : detect_script_instance(c) \in ELFs \cup {Nobody}
  BY <1>0, InstancesAssumption DEF Typed, detect_script_instance
<1>7. made = MadeFor(s, b)
  BY DEF MadeFor
<1>8. /\ made \in [Boxes -> SandboxStates]
      /\ \A c \in Boxes : made[c].life = IF sandbox_instances[s] = Nobody /\ c = b THEN "alive"
                                         ELSE sandboxes[c].life
  <2> HIDE DEF made, SandboxStates
  <2> QED BY <1>0, <1>2, <1>7, SandboxMade
<1> HIDE DEF created, made
<1>9. /\ sandboxes' \in [Boxes -> SandboxStates]
      /\ \A c \in Boxes : sandboxes'[c].life = made[c].life
      /\ activations' \in Seq(Calls) /\ Len(activations') = Len(activations)
      /\ \A i \in 1..Len(activations) : activations'[i].sandbox = activations[i].sandbox
  <2>1. activations \in Seq(Calls) /\ own \in Boxes
    BY <1>0, KindsOfScripts DEF Typed
  <2> QED BY <1>1, <1>4, <1>8, <2>1, MovesTreeBaseOnly DEF SameCall
<1>10. /\ instance' \in [Owners -> Instances \cup {Nobody}]
       /\ instance'[n] # Nobody
       /\ instance'[n].script = s /\ instance'[n].current_sandbox = own
       /\ \A m \in Owners : m # n => instance'[m] = instance[m]
  <2>1. own \in Boxes /\ [script |-> s, current_sandbox |-> own] \in Instances
    BY KindsOfScripts DEF Instances
  <2> QED BY <1>0, <1>1, <1>4, <2>1, InstancesAssumption DEF Typed
<1>11. /\ sandbox_instances' \in [Attached -> SharedEntries \cup {Nobody}]
       /\ sandbox_instances'[s] = entry /\ entry # Nobody /\ entry.sandbox = own
       /\ \A t \in Attached : t # s => sandbox_instances'[t] = sandbox_instances[t]
  BY <1>0, <1>1, <1>4, <1>5, InstancesAssumption DEF Typed
<1>12. elf_script' \in [CPPScripts -> ELFs \cup {Nobody}]
  BY <1>0, <1>1, <1>6 DEF Typed
<1>13. Typed'
  BY <1>9, <1>10, <1>11, <1>12 DEF Typed
<1>14. InstancesOf(s)' = InstancesOf(s) \cup {n} /\ n \notin InstancesOf(s)
  <2>1. ASSUME NEW m \in Owners
        PROVE  instance'[m] # Nobody /\ instance'[m].script = s
                 <=> m = n \/ (instance[m] # Nobody /\ instance[m].script = s)
    BY <1>1, <1>10
  <2> QED BY <1>1, <2>1 DEF InstancesOf
<1>15. \A t \in Attached : t # s => InstancesOf(t)' = InstancesOf(t)
  <2>1. ASSUME NEW t \in Attached, t # s, NEW m \in Owners
        PROVE  instance'[m] # Nobody /\ instance'[m].script = t
                 <=> instance[m] # Nobody /\ instance[m].script = t
    BY <1>1, <1>10, <2>1
  <2> QED BY <2>1 DEF InstancesOf
<1>16. s \in Counted => entry.count = Cardinality(InstancesOf(s)')
  <2> SUFFICES ASSUME s \in Counted PROVE entry.count = Cardinality(InstancesOf(s)')
    OBVIOUS
  <2>1. IsFiniteSet(InstancesOf(s)) /\ Cardinality(InstancesOf(s)) \in Nat
    BY SomeInstances
  <2>2. Cardinality(InstancesOf(s)') = Cardinality(InstancesOf(s)) + 1
    BY <1>14, <2>1, FS_AddElement
  <2>3. CASE sandbox_instances[s] = Nobody
    <3>1. Cardinality(InstancesOf(s)) = 0
      BY <1>0, <2>3, FS_EmptySet DEF Counts
    <3> QED BY <1>3, <1>5, <2>2, <2>3, <3>1
  <2>4. CASE sandbox_instances[s] # Nobody
    <3>1. sandbox_instances[s].count = Cardinality(InstancesOf(s))
      BY <1>0, <2>4 DEF Counts
    <3> QED BY <1>3, <1>5, <2>2, <2>4, <3>1
  <2> QED BY <2>3, <2>4
<1>17. Counts'
  <2> SUFFICES ASSUME NEW t \in Counted
               PROVE  IF InstancesOf(t)' = {} THEN sandbox_instances'[t] = Nobody
                      ELSE /\ sandbox_instances'[t] # Nobody
                           /\ sandbox_instances'[t].count = Cardinality(InstancesOf(t)')
    BY DEF Counts
  <2>1. CASE t # s
    <3>1. t \in Attached
      BY KindsOfScripts
    <3> QED BY <1>0, <1>11, <1>15, <2>1, <3>1 DEF Counts
  <2>2. CASE t = s
    BY <1>11, <1>14, <1>16, <2>2
  <2> QED BY <2>1, <2>2
<1>18. \A t \in Attached : sandbox_instances[t] # Nobody =>
         /\ sandbox_instances'[t] # Nobody
         /\ sandbox_instances'[t].sandbox = sandbox_instances[t].sandbox
         /\ sandbox_instances[t].sandbox \in Boxes
         /\ sandbox_instances[t].sandbox # b
  <2> SUFFICES ASSUME NEW t \in Attached, sandbox_instances[t] # Nobody
               PROVE  /\ sandbox_instances'[t] # Nobody
                      /\ sandbox_instances'[t].sandbox = sandbox_instances[t].sandbox
                      /\ sandbox_instances[t].sandbox \in Boxes
                      /\ sandbox_instances[t].sandbox # b
    OBVIOUS
  <2>1. sandbox_instances[t] \in SharedEntries
    BY <1>0 DEF Typed
  <2>2. sandbox_instances[t].sandbox \in Boxes
    BY <2>1, KindsOfScripts DEF SharedEntries
  <2>3. sandbox_instances[t].sandbox # b
    BY <1>0, <1>1 DEF Living
  <2>4. /\ sandbox_instances'[t] # Nobody
        /\ sandbox_instances'[t].sandbox = sandbox_instances[t].sandbox
    BY <1>3, <1>4, <1>11
  <2> QED BY <2>2, <2>3, <2>4
<1>19. Placed'
  <2> SUFFICES ASSUME NEW m \in Owners, instance'[m] # Nobody
               PROVE  \/ /\ instance'[m].script \in ELFs
                         /\ instance'[m].current_sandbox \in SandboxOwners
                      \/ /\ sandbox_instances'[instance'[m].script] # Nobody
                         /\ instance'[m].current_sandbox =
                              sandbox_instances'[instance'[m].script].sandbox
    BY DEF Placed
  <2>1. CASE m = n
    BY <1>10, <1>11, <2>1
  <2>2. CASE m # n
    <3>1. instance'[m] = instance[m] /\ instance[m].script \in Attached
      BY <1>10, <2>2, GivesUpOne
    <3> QED BY <1>0, <1>18, <3>1 DEF Placed
  <2> QED BY <2>1, <2>2
<1>20. Living'
  <2>1. \A c \in Boxes : sandboxes'[c].life = IF sandbox_instances[s] = Nobody /\ c = b
                                              THEN "alive" ELSE sandboxes[c].life
    BY <1>8, <1>9
  <2>2. \A c \in SandboxOwners : sandboxes'[c].life = "alive"
    BY <1>0, <1>2, <2>1, KindsOfScripts DEF Living
  <2>3. ASSUME NEW t \in Attached, sandbox_instances'[t] # Nobody
        PROVE  sandboxes'[sandbox_instances'[t].sandbox].life = "alive"
    <3>1. CASE sandbox_instances[t] # Nobody
      BY <1>0, <1>18, <2>1, <3>1 DEF Living
    <3>2. CASE sandbox_instances[t] = Nobody
      <4>1. t = s
        BY <1>11, <2>3, <3>2
      <4>2. own = b
        BY <1>3, <1>4, <3>2, <4>1
      <4> QED BY <1>2, <1>11, <2>1, <3>2, <4>1, <4>2
    <3> QED BY <3>1, <3>2
  <2>4. ASSUME NEW t \in Attached, NEW u \in Attached,
               sandbox_instances'[t] # Nobody, sandbox_instances'[u] # Nobody,
               sandbox_instances'[t].sandbox = sandbox_instances'[u].sandbox
        PROVE  t = u
    <3>1. ASSUME NEW v \in Attached, sandbox_instances'[v] # Nobody,
                 sandbox_instances[v] = Nobody
          PROVE  v = s /\ sandbox_instances'[v].sandbox = b
      BY <1>3, <1>4, <1>11, <3>1
    <3> QED BY <1>0, <1>18, <2>4, <3>1 DEF Living
  <2>5. \A i \in 1..Len(activations) : activations[i] \in Calls
    BY <1>0, ElementOfSeq DEF Typed
  <2>6. \A i \in 1..Len(activations') : sandboxes'[activations'[i].sandbox].life # "none"
    BY <1>0, <1>9, <2>1, <2>5 DEF Living, Calls
  <2> QED BY <2>2, <2>3, <2>4, <2>6 DEF Living
<1> QED BY <1>13, <1>17, <1>19, <1>20 DEF InstancesInv

LEMMA Taken ==
  ASSUME InstancesInv, NEW n \in Owners, detach_script(n) \/ replace_node(n)
  PROVE  InstancesInv'
<1>0. Typed /\ Living
  BY DEF InstancesInv
<1>1. CASE detach_script(n)
  <2>1. /\ instance[n] # Nobody /\ instance_free(n) /\ activations' = activations
        /\ sandboxes' = GivesUpSandbox(n)
    BY <1>1 DEF detach_script
  <2> QED BY <2>1, GivesUpOne, Freed
<1>2. CASE replace_node(n)
  <2>1. n \in SandboxOwners /\ activations' = activations /\ n \in Boxes
    BY <1>2, KindsOfScripts DEF replace_node
  <2>2. sandboxes[n].life = "alive" /\ OwnBox(n).life = "alive"
    BY <1>0, <2>1 DEF Living, OwnBox
  <2>3. OwnBox(n) \in SandboxStates
    BY DEF OwnBox
  <2>4. CASE instance[n] = Nobody
    <3>1. /\ UNCHANGED <<instance, sandbox_instances, elf_script>>
          /\ sandboxes' = [sandboxes EXCEPT ![n] = OwnBox(n)]
      BY <1>2, <2>4 DEF replace_node
    <3>2. \A b \in Boxes : sandboxes'[b].life = sandboxes[b].life
      BY <1>0, <2>1, <2>2, <3>1 DEF Typed
    <3>3. Typed'
      BY <1>0, <2>1, <2>3, <3>1 DEF Typed
    <3> QED BY <1>0, <2>1, <3>1, <3>2, <3>3, SameInstances DEF Living
  <2>5. CASE instance[n] # Nobody
    <3>1. instance_free(n) /\ sandboxes' = [GivesUpSandbox(n) EXCEPT ![n] = OwnBox(n)]
      BY <1>2, <2>5 DEF replace_node
    <3>2. /\ GivesUpSandbox(n) \in [Boxes -> SandboxStates]
          /\ GivesUpSandbox(n)[n].life = "alive"
      <4>1. LastOne(n) => instance[n].current_sandbox \in SharedBoxes
        BY <2>5, GivesUpOne DEF LastOne
      <4>2. LastOne(n) => instance[n].current_sandbox # n
        BY <2>1, <4>1, KindsOfScripts
      <4> QED BY <2>1, <2>2, <2>5, <4>2, GivesUpOne
    <3>3. /\ sandboxes' \in [Boxes -> SandboxStates]
          /\ \A b \in Boxes : sandboxes'[b].life = GivesUpSandbox(n)[b].life
      BY <2>1, <2>2, <2>3, <3>1, <3>2
    <3> QED BY <2>1, <2>5, <3>1, <3>3, Freed
  <2> QED BY <2>4, <2>5
<1> QED BY <1>1, <1>2

LEMMA FrameEnds ==
  ASSUME InstancesInv, end_of_frame
  PROVE  InstancesInv'
<1>0. Typed /\ Placed /\ Living /\ Counts
  BY DEF InstancesInv
<1>1. /\ activations = <<>> /\ activations' = activations
      /\ sandboxes' = [b \in Boxes |-> IF sandboxes[b].life = "queued" THEN NoBox
                                       ELSE sandboxes[b]]
      /\ UNCHANGED <<instance, sandbox_instances, elf_script>>
  BY DEF end_of_frame
<1>2. Typed'
  BY <1>0, <1>1 DEF Typed, NoBox
<1>3. \A b \in Boxes : sandboxes[b].life = "alive" => sandboxes'[b].life = "alive"
  BY <1>1
<1>4. Placed'
  BY <1>0, <1>1 DEF Placed
<1>5. \A s : InstancesOf(s)' = InstancesOf(s)
  BY <1>1 DEF InstancesOf
<1>6. Counts'
  BY <1>0, <1>1, <1>5 DEF Counts
<1>7. Living'
  <2>1. \A b \in SandboxOwners : sandboxes'[b].life = "alive"
    BY <1>0, <1>3, KindsOfScripts DEF Living
  <2>2. \A t \in Attached : sandbox_instances[t] # Nobody =>
          sandbox_instances[t].sandbox \in Boxes
    BY <1>0, KindsOfScripts DEF Typed, SharedEntries
  <2>3. Len(activations') = 0
    BY <1>1
  <2> QED BY <1>0, <1>1, <1>3, <2>1, <2>2, <2>3 DEF Living
<1> QED BY <1>2, <1>4, <1>6, <1>7 DEF InstancesInv

LEMMA BuildsOnly ==
  ASSUME NEW c, build(c)
  PROVE  UNCHANGED <<instance, sandbox_instances, sandboxes, activations, elf_script>>
BY DEF build

(* Programs change where Sandboxes live on.                                 *)
LEMMA ProgramsChange ==
  ASSUME InstancesInv,
         \/ \E c \in CPPScripts : build(c)
         \/ \E n \in Owners, e \in ELFs \cup {Nobody} : set_elf_script(n, e)
         \/ \E n \in Owners : enter_tree(n)
  PROVE  /\ InstancesInv' /\ activations' = activations
         /\ \A b \in Boxes : sandboxes'[b].m_tree_base = sandboxes[b].m_tree_base
<1>0. Typed /\ Living
  BY DEF InstancesInv
<1>1. ASSUME NEW b, NEW p \in Attached \cup {Nobody},
             \/ sandboxes' = sandboxes
             \/ sandboxes' = [sandboxes EXCEPT ![b].program = p]
      PROVE  /\ sandboxes' \in [Boxes -> SandboxStates]
             /\ \A c \in Boxes : /\ sandboxes'[c].life = sandboxes[c].life
                                 /\ sandboxes'[c].m_tree_base = sandboxes[c].m_tree_base
  <2>1. CASE sandboxes' = sandboxes
    BY <1>0, <2>1 DEF Typed
  <2>2. CASE sandboxes' = [sandboxes EXCEPT ![b].program = p]
    <3>1. sandboxes \in [Boxes -> SandboxStates]
      BY <1>0 DEF Typed
    <3> QED BY <2>2, <3>1, ZenonT(40)
  <2> QED BY <1>1, <2>1, <2>2
<1>2. ASSUME NEW b, NEW p \in Attached \cup {Nobody},
             \/ sandboxes' = sandboxes
             \/ sandboxes' = [sandboxes EXCEPT ![b].program = p],
             UNCHANGED <<instance, sandbox_instances, activations>>,
             elf_script' \in [CPPScripts -> ELFs \cup {Nobody}]
      PROVE  /\ InstancesInv' /\ activations' = activations
             /\ \A c \in Boxes : sandboxes'[c].m_tree_base = sandboxes[c].m_tree_base
  <2>1. /\ sandboxes' \in [Boxes -> SandboxStates]
        /\ \A c \in Boxes : /\ sandboxes'[c].life = sandboxes[c].life
                            /\ sandboxes'[c].m_tree_base = sandboxes[c].m_tree_base
    BY <1>1, <1>2
  <2>2. Typed'
    BY <1>0, <1>2, <2>1 DEF Typed
  <2>3. \A i \in 1..Len(activations') : sandboxes[activations'[i].sandbox].life # "none"
    BY <1>0, <1>2 DEF Living
  <2>4. /\ UNCHANGED <<instance, sandbox_instances, activations>>
        /\ \A c \in Boxes : sandboxes'[c].life = sandboxes[c].life
    BY <1>2, <2>1
  <2>5. InstancesInv'
    BY <2>2, <2>3, <2>4, SameInstances
  <2> QED BY <2>1, <2>4, <2>5
<1>4. ASSUME NEW n \in Owners, NEW e \in ELFs \cup {Nobody}, set_elf_script(n, e)
      PROVE  /\ UNCHANGED <<instance, sandbox_instances, activations>>
             /\ elf_script' \in [CPPScripts -> ELFs \cup {Nobody}]
             /\ \E b : \/ sandboxes' = sandboxes
                       \/ sandboxes' = [sandboxes EXCEPT ![b].program = e]
  BY <1>0, <1>4, ZenonT(40) DEF set_elf_script, reset_to, Typed
<1>5. ASSUME NEW n \in Owners, enter_tree(n)
      PROVE  /\ UNCHANGED <<instance, sandbox_instances, activations, elf_script>>
             /\ instance[n].script \in Attached
             /\ sandboxes' = [sandboxes EXCEPT ![n].program = instance[n].script]
  BY <1>5, GivesUpOne DEF enter_tree
<1>6. ELFs \cup {Nobody} \subseteq Attached \cup {Nobody}
  BY KindsOfScripts
<1>7. elf_script \in [CPPScripts -> ELFs \cup {Nobody}]
  BY <1>0 DEF Typed
<1>8. CASE \E c \in CPPScripts : build(c)
  <2>1. UNCHANGED <<instance, sandbox_instances, sandboxes, activations, elf_script>>
    BY <1>8, BuildsOnly
  <2> QED BY <1>2, <1>7, <2>1
<1>9. CASE \E n \in Owners, e \in ELFs \cup {Nobody} : set_elf_script(n, e)
  <2>1. PICK n \in Owners, e \in ELFs \cup {Nobody} : set_elf_script(n, e)
    BY <1>9
  <2>2. e \in Attached \cup {Nobody}
    BY <1>6
  <2> QED BY <1>2, <1>4, <2>1, <2>2
<1>10. CASE \E n \in Owners : enter_tree(n)
  <2>1. PICK n \in Owners : enter_tree(n)
    BY <1>10
  <2>2. instance[n].script \in Attached \cup {Nobody}
    BY <1>5, <2>1
  <2> QED BY <1>2, <1>5, <1>7, <2>1, <2>2, ZenonT(40)
<1> QED BY <1>8, <1>9, <1>10

(* A call starts on a Sandbox that lives.                                   *)
LEMMA Starts ==
  ASSUME InstancesInv, NEW n \in Owners, callp(n) \/ set_property(n) \/ callv(n)
  PROVE  \E b \in Boxes, scoped \in BOOLEAN :
           starts(n, b, scoped) /\ sandboxes[b].life = "alive"
<1>0. Typed /\ Placed /\ Living
  BY DEF InstancesInv
<1>1. instance[n] # Nobody
  BY DEF callp, set_property, callv
<1>2. /\ instance[n].script \in Attached /\ instance[n].current_sandbox \in Boxes
      /\ sandboxes[instance[n].current_sandbox].life = "alive"
  BY <1>0, <1>1, GivesUpOne DEF Placed, Living
<1>3. ASSUME sandbox_instances[instance[n].script] # Nobody
      PROVE  /\ sandbox_instances[instance[n].script].sandbox \in Boxes
             /\ sandboxes[sandbox_instances[instance[n].script].sandbox].life = "alive"
  BY <1>0, <1>2, <1>3, KindsOfScripts DEF Typed, Living, SharedEntries
<1>4. get_sandbox(n) \in Boxes /\ sandboxes[get_sandbox(n)].life = "alive"
  BY <1>2, <1>3 DEF get_sandbox
<1> QED BY <1>2, <1>4 DEF callp, set_property, callv

LEMMA Started ==
  ASSUME activations \in Seq(Calls), NEW n \in Owners, NEW b \in Boxes,
         NEW scoped \in BOOLEAN, starts(n, b, scoped), Typed
  PROVE  \E call \in Calls :
           /\ call = [node |-> n, sandbox |-> b, scoped |-> scoped, moved |-> FALSE,
                      old_tree_base |-> sandboxes[b].m_tree_base]
           /\ activations' \in Seq(Calls) /\ Len(activations') = Len(activations) + 1
           /\ \A i \in 1..Len(activations) : activations'[i] = activations[i]
           /\ activations'[Len(activations) + 1] = call
<1> DEFINE call == [node |-> n, sandbox |-> b, scoped |-> scoped, moved |-> FALSE,
                    old_tree_base |-> sandboxes[b].m_tree_base]
<1>1. call \in Calls
  BY DEF Calls, Typed
<1>2. activations' = Append(activations, call)
  BY DEF starts
<1> HIDE DEF call
<1>3. /\ activations' \in Seq(Calls) /\ Len(activations') = Len(activations) + 1
      /\ \A i \in 1..Len(activations) : activations'[i] = activations[i]
      /\ activations'[Len(activations) + 1] = call
  BY <1>1, <1>2, AppendProperties
<1> QED BY <1>1, <1>3 DEF call

LEMMA StartsKeep ==
  ASSUME InstancesInv, NEW n \in Owners, NEW b \in Boxes, NEW scoped \in BOOLEAN,
         starts(n, b, scoped), sandboxes[b].life = "alive"
  PROVE  InstancesInv'
<1>0. Typed /\ Living
  BY DEF InstancesInv
<1>1. /\ UNCHANGED <<instance, sandbox_instances, elf_script>>
      /\ sandboxes' = IF scoped THEN [sandboxes EXCEPT ![b].m_tree_base = n] ELSE sandboxes
  BY DEF starts
<1>2. PICK call \in Calls :
        /\ call = [node |-> n, sandbox |-> b, scoped |-> scoped, moved |-> FALSE,
                   old_tree_base |-> sandboxes[b].m_tree_base]
        /\ activations' \in Seq(Calls) /\ Len(activations') = Len(activations) + 1
        /\ \A i \in 1..Len(activations) : activations'[i] = activations[i]
        /\ activations'[Len(activations) + 1] = call
  BY <1>0, Started DEF Typed
<1>3. /\ sandboxes' \in [Boxes -> SandboxStates]
      /\ \A c \in Boxes : sandboxes'[c].life = sandboxes[c].life
  BY <1>0, <1>1 DEF Typed
<1>4. Typed'
  BY <1>0, <1>1, <1>2, <1>3 DEF Typed
<1>5. \A i \in 1..Len(activations') : sandboxes[activations'[i].sandbox].life # "none"
  <2>1. Len(activations) \in Nat
    BY <1>0, LenProperties DEF Typed
  <2>2. \A i \in 1..Len(activations') : i \in 1..Len(activations) \/ i = Len(activations) + 1
    BY <1>2, <2>1
  <2>3. call.sandbox = b
    BY <1>2
  <2> QED BY <1>0, <1>2, <2>2, <2>3 DEF Living
<1> QED BY <1>1, <1>3, <1>4, <1>5, SameInstances

LEMMA OneLess ==
  ASSUME NEW k \in Nat, k >= 1
  PROVE  k \in 1..k /\ (1 <= k - 1 \/ k - 1 = 0) /\ (k - 1) - 1 + 1 = k - 1
OBVIOUS

(* A call that returns leaves the calls under it.                           *)
LEMMA Returned ==
  ASSUME activations \in Seq(Calls), call_returns
  PROVE  /\ Len(activations) \in Nat /\ Len(activations) >= 1
         /\ activations' \in Seq(Calls) /\ Len(activations') = Len(activations) - 1
         /\ \A i \in 1..Len(activations) - 1 : activations'[i] = activations[i]
         /\ activations[Len(activations)] \in Calls
         /\ sandboxes' = IF activations[Len(activations)].scoped
                         THEN [sandboxes EXCEPT ![activations[Len(activations)].sandbox].m_tree_base =
                                 activations[Len(activations)].old_tree_base]
                         ELSE sandboxes
<1> DEFINE n == Len(activations)
<1>1. n \in Nat /\ n >= 1 /\ \A i \in 1..n : activations[i] \in Calls
  <2>1. activations # <<>>
    BY DEF call_returns
  <2>2. n \in Nat \ {0}
    BY <2>1, EmptySeq
  <2> QED BY <2>2, ElementOfSeq
<1>2. activations' = SubSeq(activations, 1, n - 1)
  BY DEF call_returns, Front
<1>3. 1 \in Int /\ n - 1 \in Int /\ \A i \in 1..n - 1 : activations[i] \in Calls
  BY <1>1
<1>4. /\ activations' \in Seq(Calls)
      /\ Len(activations') = IF 1 <= n - 1 THEN (n - 1) - 1 + 1 ELSE 0
      /\ \A i \in 1..(n - 1) - 1 + 1 : activations'[i] = activations[1 + i - 1]
  BY <1>2, <1>3, SubSeqProperties
<1>5. sandboxes' = IF activations[n].scoped
                   THEN [sandboxes EXCEPT ![activations[n].sandbox].m_tree_base =
                           activations[n].old_tree_base]
                   ELSE sandboxes
  BY DEF call_returns, Last
<1>6. Len(activations') = n - 1 /\ activations[n] \in Calls
  <2>1. n \in 1..n /\ (1 <= n - 1 \/ n - 1 = 0) /\ (n - 1) - 1 + 1 = n - 1
    <3>1. n \in Nat /\ n >= 1
      BY <1>1
    <3> HIDE DEF n
    <3> QED BY <3>1, OneLess
  <2>2. Len(activations') = n - 1
    BY <1>4, <2>1
  <2>3. activations[n] \in Calls
    BY <1>1, <2>1
  <2> QED BY <2>2, <2>3
<1>7. ASSUME NEW i \in 1..n - 1 PROVE activations'[i] = activations[i]
  <2>1. i \in 1..(n - 1) - 1 + 1 /\ 1 + i - 1 = i
    BY <1>1
  <2> QED BY <1>4, <2>1
<1> QED BY <1>1, <1>4, <1>5, <1>6, <1>7

LEMMA ReturnKeeps ==
  ASSUME InstancesInv, call_returns
  PROVE  InstancesInv'
<1>0. Typed /\ Living
  BY DEF InstancesInv
<1> DEFINE last == activations[Len(activations)]
<1>1. /\ Len(activations) \in Nat /\ Len(activations) >= 1
      /\ activations' \in Seq(Calls) /\ Len(activations') = Len(activations) - 1
      /\ \A i \in 1..Len(activations) - 1 : activations'[i] = activations[i]
      /\ last \in Calls
      /\ sandboxes' = IF last.scoped
                      THEN [sandboxes EXCEPT ![last.sandbox].m_tree_base = last.old_tree_base]
                      ELSE sandboxes
  BY <1>0, Returned DEF Typed
<1>2. UNCHANGED <<instance, sandbox_instances, elf_script>>
  BY DEF call_returns
<1>3. last.old_tree_base \in Owners \cup {Nobody} /\ sandboxes \in [Boxes -> SandboxStates]
  BY <1>0, <1>1 DEF Calls, Typed
<1> HIDE DEF last
<1>4. /\ sandboxes' \in [Boxes -> SandboxStates]
      /\ \A c \in Boxes : sandboxes'[c].life = sandboxes[c].life
  <2>1. CASE last.scoped
    <3>1. sandboxes' = [sandboxes EXCEPT ![last.sandbox].m_tree_base = last.old_tree_base]
      BY <1>1, <2>1
    <3> QED BY <1>3, <3>1, ZenonT(40)
  <2>2. CASE ~last.scoped
    <3> HIDE DEF SandboxStates
    <3> QED BY <1>1, <1>3, <2>2
  <2> QED BY <2>1, <2>2
<1>5. Typed'
  BY <1>0, <1>1, <1>2, <1>4 DEF Typed
<1>6. \A i \in 1..Len(activations') : sandboxes[activations'[i].sandbox].life # "none"
  BY <1>0, <1>1 DEF Living
<1> QED BY <1>2, <1>4, <1>5, <1>6, SameInstances

LEMMA InstancesStep == InstancesInv /\ [InstancesNext]_instance_vars => InstancesInv'
<1> SUFFICES ASSUME InstancesInv, [InstancesNext]_instance_vars PROVE InstancesInv'
  OBVIOUS
<1>0. Typed /\ Living
  BY DEF InstancesInv
<1>1. ASSUME NEW n \in Owners, replace_node(n) \/ detach_script(n) PROVE InstancesInv'
  BY <1>1, Taken
<1>2. ASSUME NEW n \in Owners, callp(n) \/ set_property(n) \/ callv(n) PROVE InstancesInv'
  BY <1>2, Starts, StartsKeep
<1>3. ASSUME NEW n \in Owners, NEW s \in Attached, instance_create_on_sandbox(n, s)
      PROVE  InstancesInv'
  BY <1>3, CreatedOnSandbox
<1>4. ASSUME NEW n \in Owners, NEW s \in Attached, NEW b \in SharedBoxes,
             instance_create(n, s, b)
      PROVE  InstancesInv'
  BY <1>4, CreatedShared
<1>5. ASSUME \/ \E c \in CPPScripts : build(c)
             \/ \E n \in Owners, e \in ELFs \cup {Nobody} : set_elf_script(n, e)
             \/ \E n \in Owners : enter_tree(n)
      PROVE  InstancesInv'
  BY <1>5, ProgramsChange
<1>6. ASSUME UNCHANGED instance_vars PROVE InstancesInv'
  <2>1. UNCHANGED <<instance, sandbox_instances, sandboxes, activations, elf_script>>
    BY <1>6 DEF instance_vars
  <2>2. Typed'
    BY <1>0, <2>1 DEF Typed
  <2>3. \A i \in 1..Len(activations') : sandboxes[activations'[i].sandbox].life # "none"
    BY <1>0, <2>1 DEF Living
  <2> QED BY <2>1, <2>2, <2>3, SameInstances
<1>7. ASSUME end_of_frame \/ call_returns PROVE InstancesInv'
  BY <1>7, FrameEnds, ReturnKeeps
<1> QED BY <1>1, <1>2, <1>3, <1>4, <1>5, <1>6, <1>7 DEF InstancesNext

(* The count of a script is that of its instances, which all have its one   *)
(* Sandbox, and no call runs on a Sandbox that was freed, through any order *)
(* of instances made, scripts detached and nodes replaced, calls in         *)
(* progress included.                                                       *)
THEOREM SandboxesAreCounted == InstancesSpec => []SharedSandboxesAreCounted
<1>1. InstancesInv => SharedSandboxesAreCounted
  <2> SUFFICES ASSUME InstancesInv PROVE SharedSandboxesAreCounted
    OBVIOUS
  <2>0. Typed /\ Placed /\ Living /\ Counts
    BY DEF InstancesInv
  <2>1. ASSUME NEW s \in Counted, NEW n \in InstancesOf(s)
        PROVE  instance[n].current_sandbox = sandbox_instances[s].sandbox
    <3>1. n \in Owners /\ instance[n] # Nobody /\ instance[n].script = s
      BY DEF InstancesOf
    <3> QED BY <3>1, GivesUpOne
  <2>2. ASSUME NEW n \in Owners, instance[n] # Nobody
        PROVE  sandboxes[instance[n].current_sandbox].life = "alive"
    BY <2>0, <2>2, GivesUpOne DEF Placed, Living
  <2>3. DOMAIN activations = 1..Len(activations)
    BY <2>0, LenProperties DEF Typed
  <2> QED BY <2>0, <2>1, <2>2, <2>3 DEF SharedSandboxesAreCounted, Counts, Living
<1> QED BY <1>1, InitInstances, InstancesStep, PTL DEF InstancesSpec

-----------------------------------------------------------------------------
(* The calls on a Sandbox are a stack of their own: the top one is in the   *)
(* tree it is for, and each remembers the tree of the one under it.         *)
IsTop(b, i) == i \in Scoped(b) /\ \A k \in Scoped(b) : k <= i

IsNext(b, i, j) ==
  i \in Scoped(b) /\ j \in Scoped(b) /\ i < j /\ \A k \in Scoped(b) : k <= i \/ k >= j

InTree(b) ==
  /\ \A i \in Nat : IsTop(b, i) /\ ~activations[i].moved =>
       sandboxes[b].m_tree_base = activations[i].node
  /\ \A i, j \in Nat : IsNext(b, i, j) /\ ~activations[i].moved =>
       activations[j].old_tree_base = activations[i].node

Trees == \A b \in Boxes : InTree(b)

LEMMA ScopedCalls ==
  ASSUME activations \in Seq(Calls), NEW b
  PROVE  /\ \A i : i \in Scoped(b) <=> /\ i \in 1..Len(activations)
                                       /\ activations[i].sandbox = b /\ activations[i].scoped
         /\ Len(activations) \in Nat
         /\ \A i \in 1..Len(activations) : activations[i] \in Calls
<1>1. Len(activations) \in Nat /\ DOMAIN activations = 1..Len(activations)
  BY LenProperties
<1> QED BY <1>1, ElementOfSeq DEF Scoped

LEMMA SameTrees ==
  ASSUME Trees, activations' = activations,
         \A b \in Boxes : Scoped(b) # {} =>
           sandboxes'[b].m_tree_base = sandboxes[b].m_tree_base
  PROVE  Trees'
<1> SUFFICES ASSUME NEW b \in Boxes PROVE InTree(b)'
  BY DEF Trees
<1>1. Scoped(b)' = Scoped(b)
  BY DEF Scoped
<1>2. \A i, j \in Nat : (IsTop(b, i)' <=> IsTop(b, i)) /\ (IsNext(b, i, j)' <=> IsNext(b, i, j))
  BY <1>1 DEF IsTop, IsNext
<1>3. \A i \in Nat : IsTop(b, i) => sandboxes'[b].m_tree_base = sandboxes[b].m_tree_base
  BY DEF IsTop
<1> QED BY <1>2, <1>3 DEF Trees, InTree

(* Whose tree base is moved is marked, whatever is called next.             *)
LEMMA MovedTrees ==
  ASSUME Trees, activations \in Seq(Calls), NEW b \in Boxes, NEW n \in Owners,
         NEW boxes \in [Boxes -> SandboxStates],
         \A c \in Boxes : boxes[c].m_tree_base = sandboxes[c].m_tree_base,
         MovesTreeBase(b, n, boxes)
  PROVE  Trees'
<1>1. /\ \A c \in Boxes : c # b => sandboxes'[c].m_tree_base = sandboxes[c].m_tree_base
      /\ activations' \in Seq(Calls) /\ Len(activations') = Len(activations)
      /\ \A i \in 1..Len(activations) : SameCall(i, Scoped(b) # {} /\ i = InnermostOn(b))
  BY MovesTreeBaseOnly
<1>2. \A c, i : i \in Scoped(c) => i \in 1..Len(activations)
  BY ScopedCalls
<1>3. ASSUME NEW c PROVE Scoped(c)' = Scoped(c)
  <2>1. ASSUME NEW i PROVE i \in Scoped(c)' <=> i \in Scoped(c)
    <3>1. i \in Scoped(c) <=> /\ i \in 1..Len(activations)
                              /\ activations[i].sandbox = c /\ activations[i].scoped
      BY ScopedCalls
    <3>2. DOMAIN activations' = 1..Len(activations)
      BY <1>1, LenProperties
    <3>3. i \in Scoped(c)' <=> /\ i \in 1..Len(activations)
                               /\ activations'[i].sandbox = c /\ activations'[i].scoped
      BY <3>2 DEF Scoped
    <3> QED BY <1>1, <3>1, <3>3 DEF SameCall
  <2> HIDE DEF Scoped
  <2> QED BY <2>1
<1> SUFFICES ASSUME NEW c \in Boxes PROVE InTree(c)'
  BY DEF Trees
<1>4. \A i, j \in Nat : (IsTop(c, i)' <=> IsTop(c, i)) /\ (IsNext(c, i, j)' <=> IsNext(c, i, j))
  BY <1>3 DEF IsTop, IsNext
<1>5. ASSUME NEW i \in Nat, IsTop(c, i), ~activations'[i].moved
      PROVE  sandboxes'[c].m_tree_base = activations'[i].node
  <2>1. i \in Scoped(c) /\ i \in 1..Len(activations) /\ SameCall(i, Scoped(b) # {} /\ i = InnermostOn(b))
    BY <1>1, <1>2, <1>5 DEF IsTop
  <2>2. c # b
    <3> SUFFICES ASSUME c = b PROVE FALSE
      OBVIOUS
    <3>1. Scoped(b) # {}
      BY <2>1
    <3>2. InnermostOn(b) \in Scoped(b) /\ InnermostOn(b) \in 1..Len(activations)
          /\ i <= InnermostOn(b)
      BY <2>1, <3>1, InnermostIsScoped
    <3>3. InnermostOn(b) <= i
      BY <1>5, <3>2 DEF IsTop
    <3>4. i = InnermostOn(b)
      BY <3>2, <3>3
    <3> QED BY <1>5, <2>1, <3>1, <3>4 DEF SameCall
  <2>3. ~activations[i].moved /\ activations'[i].node = activations[i].node
    BY <1>5, <2>1 DEF SameCall
  <2> QED BY <1>1, <1>5, <2>2, <2>3 DEF Trees, InTree
<1>6. ASSUME NEW i \in Nat, NEW j \in Nat, IsNext(c, i, j), ~activations'[i].moved
      PROVE  activations'[j].old_tree_base = activations'[i].node
  <2>1. /\ SameCall(i, Scoped(b) # {} /\ i = InnermostOn(b))
        /\ SameCall(j, Scoped(b) # {} /\ j = InnermostOn(b))
    BY <1>1, <1>2, <1>6 DEF IsNext
  <2>2. /\ ~activations[i].moved /\ activations'[i].node = activations[i].node
        /\ activations'[j].old_tree_base = activations[j].old_tree_base
    BY <1>6, <2>1 DEF SameCall
  <2> QED BY <1>6, <2>2 DEF Trees, InTree
<1> QED BY <1>4, <1>5, <1>6 DEF InTree

(* A new call remembers the tree base it finds.                             *)
LEMMA StartedTrees ==
  ASSUME Typed, Trees, NEW n \in Owners, NEW b \in Boxes, NEW scoped \in BOOLEAN,
         starts(n, b, scoped)
  PROVE  Trees'
<1> DEFINE top == Len(activations) + 1
<1>1. PICK call \in Calls :
        /\ call = [node |-> n, sandbox |-> b, scoped |-> scoped, moved |-> FALSE,
                   old_tree_base |-> sandboxes[b].m_tree_base]
        /\ activations' \in Seq(Calls) /\ Len(activations') = Len(activations) + 1
        /\ \A i \in 1..Len(activations) : activations'[i] = activations[i]
        /\ activations'[Len(activations) + 1] = call
  BY Started DEF Typed
<1>2. /\ call.node = n /\ call.sandbox = b /\ call.scoped = scoped /\ call.moved = FALSE
      /\ call.old_tree_base = sandboxes[b].m_tree_base
  BY <1>1
<1>3. sandboxes' = IF scoped THEN [sandboxes EXCEPT ![b].m_tree_base = n] ELSE sandboxes
  BY DEF starts
<1>4. /\ scoped => sandboxes'[b].m_tree_base = n
      /\ \A c \in Boxes : c # b \/ ~scoped =>
           sandboxes'[c].m_tree_base = sandboxes[c].m_tree_base
  BY <1>3 DEF Typed
<1>5. activations \in Seq(Calls)
  BY DEF Typed
<1>6. ASSUME NEW c, NEW i
      PROVE  i \in Scoped(c) <=> /\ i \in 1..Len(activations)
                                 /\ activations[i].sandbox = c /\ activations[i].scoped
  BY <1>5, ScopedCalls
<1>7. ASSUME NEW c, NEW i
      PROVE  i \in Scoped(c)' <=> /\ i \in 1..top
                                  /\ activations'[i].sandbox = c /\ activations'[i].scoped
  <2>1. DOMAIN activations' = 1..top
    BY <1>1, LenProperties
  <2> QED BY <2>1 DEF Scoped
<1>8. Len(activations) \in Nat /\ \A i : i \in 1..top <=> i \in 1..Len(activations) \/ i = top
  <2>1. Len(activations) \in Nat
    BY <1>5, LenProperties
  <2> QED BY <2>1
<1>9. top \in Nat /\ \A i \in 1..Len(activations) : i # top /\ i < top /\ ~(top <= i)
  BY <1>8
<1> HIDE DEF top
<1>10. ASSUME NEW c, NEW i
       PROVE  i \in Scoped(c)' <=> i \in Scoped(c) \/ (i = top /\ c = b /\ scoped)
  <2>1. CASE i \in 1..Len(activations)
    BY <1>1, <1>6, <1>7, <1>8, <1>9, <2>1
  <2>2. CASE i \notin 1..Len(activations)
    BY <1>1, <1>2, <1>6, <1>7, <1>8, <2>2 DEF top
  <2> QED BY <2>1, <2>2
<1>11. activations'[top] = call
  BY <1>1 DEF top
<1>12. \A c, i : i \in Scoped(c) => /\ i \in 1..Len(activations) /\ activations'[i] = activations[i]
                                    /\ i # top /\ i < top /\ ~(top <= i)
  BY <1>1, <1>6, <1>9
<1> SUFFICES ASSUME NEW c \in Boxes PROVE InTree(c)'
  BY DEF Trees
<1>13. CASE c = b /\ scoped
  <2>1. top \in Scoped(c)' /\ \A i \in Scoped(c)' : i = top \/ i \in Scoped(c)
    BY <1>10, <1>13
  <2>2. ASSUME NEW i \in Nat, IsTop(c, i)', ~activations'[i].moved
        PROVE  sandboxes'[c].m_tree_base = activations'[i].node
    <3>1. i \in Scoped(c)' /\ top <= i
      BY <2>1, <2>2 DEF IsTop
    <3>2. i = top
      BY <1>12, <2>1, <3>1
    <3> QED BY <1>2, <1>4, <1>11, <1>13, <3>2
  <2>3. ASSUME NEW i \in Nat, NEW j \in Nat, IsNext(c, i, j)', ~activations'[i].moved
        PROVE  activations'[j].old_tree_base = activations'[i].node
    <3>1. i \in Scoped(c)' /\ j \in Scoped(c)' /\ i < j
          /\ \A k \in Scoped(c)' : k <= i \/ k >= j
      BY <2>3 DEF IsNext
    <3>2. i # top
      <4>1. CASE j = top
        BY <1>9, <3>1, <4>1
      <4>2. CASE j # top
        BY <1>9, <1>12, <2>1, <3>1, <4>2
      <4> QED BY <4>1, <4>2
    <3>3. i \in Scoped(c) /\ activations'[i] = activations[i]
      BY <1>12, <2>1, <3>1, <3>2
    <3>4. CASE j = top
      <4>1. ASSUME NEW k \in Scoped(c) PROVE k <= i
        <5>1. k \in Scoped(c)' /\ k \in Nat /\ k < top
          BY <1>10, <1>12
        <5>2. k <= i \/ k >= top
          BY <3>1, <3>4, <5>1
        <5> QED BY <1>9, <5>1, <5>2
      <4>2. IsTop(c, i)
        BY <3>3, <4>1 DEF IsTop
      <4>3. sandboxes[c].m_tree_base = activations[i].node
        BY <2>3, <3>3, <4>2 DEF Trees, InTree
      <4> QED BY <1>2, <1>11, <1>13, <3>3, <3>4, <4>3
    <3>5. CASE j # top
      <4>1. j \in Scoped(c) /\ activations'[j] = activations[j]
        BY <1>12, <2>1, <3>1, <3>5
      <4>2. \A k \in Scoped(c) : k \in Scoped(c)'
        BY <1>10
      <4>3. IsNext(c, i, j)
        BY <3>1, <3>3, <4>1, <4>2 DEF IsNext
      <4> QED BY <2>3, <3>3, <4>1, <4>3 DEF Trees, InTree
    <3> QED BY <3>4, <3>5
  <2> QED BY <2>2, <2>3 DEF InTree
<1>14. CASE ~(c = b /\ scoped)
  <2>1. \A i : i \in Scoped(c)' <=> i \in Scoped(c)
    BY <1>10, <1>14
  <2>2. \A i, j \in Nat : (IsTop(c, i)' <=> IsTop(c, i)) /\ (IsNext(c, i, j)' <=> IsNext(c, i, j))
    BY <2>1 DEF IsTop, IsNext
  <2>3. sandboxes'[c].m_tree_base = sandboxes[c].m_tree_base
    BY <1>4, <1>14
  <2>4. ASSUME NEW i \in Nat, IsTop(c, i), ~activations'[i].moved
        PROVE  sandboxes'[c].m_tree_base = activations'[i].node
    BY <1>12, <2>3, <2>4 DEF Trees, InTree, IsTop
  <2>5. ASSUME NEW i \in Nat, NEW j \in Nat, IsNext(c, i, j), ~activations'[i].moved
        PROVE  activations'[j].old_tree_base = activations'[i].node
    BY <1>12, <2>5 DEF Trees, InTree, IsNext
  <2> QED BY <2>2, <2>4, <2>5 DEF InTree
<1> QED BY <1>13, <1>14

(* A call that returns puts back the tree base of the call under it.        *)
LEMMA ReturnedTrees ==
  ASSUME Typed, Trees, call_returns
  PROVE  Trees'
<1> DEFINE top == Len(activations)
           last == activations[top]
<1>1. /\ top \in Nat /\ top >= 1
      /\ activations' \in Seq(Calls) /\ Len(activations') = top - 1
      /\ \A i \in 1..top - 1 : activations'[i] = activations[i]
      /\ last \in Calls
      /\ sandboxes' = IF last.scoped
                      THEN [sandboxes EXCEPT ![last.sandbox].m_tree_base = last.old_tree_base]
                      ELSE sandboxes
  BY Returned DEF Typed
<1>2. last.sandbox \in Boxes /\ last.scoped \in BOOLEAN
  BY <1>1 DEF Calls
<1> HIDE DEF last
<1>3. /\ last.scoped => sandboxes'[last.sandbox].m_tree_base = last.old_tree_base
      /\ \A c \in Boxes : c # last.sandbox \/ ~last.scoped =>
           sandboxes'[c].m_tree_base = sandboxes[c].m_tree_base
  BY <1>1, <1>2 DEF Typed
<1>4. activations \in Seq(Calls)
  BY DEF Typed
<1>5. ASSUME NEW c, NEW i
      PROVE  i \in Scoped(c) <=> /\ i \in 1..top
                                 /\ activations[i].sandbox = c /\ activations[i].scoped
  BY <1>4, ScopedCalls
<1>6. ASSUME NEW c, NEW i
      PROVE  i \in Scoped(c)' <=> /\ i \in 1..top - 1
                                  /\ activations'[i].sandbox = c /\ activations'[i].scoped
  <2>1. DOMAIN activations' = 1..top - 1
    BY <1>1, LenProperties
  <2> QED BY <2>1 DEF Scoped
<1> HIDE DEF top
<1>7. \A i : i \in 1..top <=> i \in 1..top - 1 \/ i = top
  BY <1>1
<1>8. \A i \in 1..top - 1 : i \in Nat /\ i # top /\ i < top
  BY <1>1
<1>9. ASSUME NEW c, NEW i
      PROVE  i \in Scoped(c) <=> i \in Scoped(c)' \/ (i = top /\ c = last.sandbox /\ last.scoped)
  <2>1. CASE i \in 1..top - 1
    BY <1>1, <1>5, <1>6, <1>7, <1>8, <2>1
  <2>2. CASE i \notin 1..top - 1
    BY <1>5, <1>6, <1>7, <2>2 DEF last
  <2> QED BY <2>1, <2>2
<1>10. \A c, i : i \in Scoped(c)' => /\ i \in Nat /\ activations'[i] = activations[i]
                                     /\ i # top /\ i < top
  BY <1>1, <1>6, <1>8
<1> SUFFICES ASSUME NEW c \in Boxes PROVE InTree(c)'
  BY DEF Trees
<1>11. CASE c = last.sandbox /\ last.scoped
  <2>1. top \in Scoped(c) /\ \A k \in Scoped(c) : k \in Scoped(c)' \/ k = top
    BY <1>9, <1>11
  <2>2. \A k \in Scoped(c)' : k \in Scoped(c)
    BY <1>9
  <2>3. ASSUME NEW i \in Nat, IsTop(c, i)', ~activations'[i].moved
        PROVE  sandboxes'[c].m_tree_base = activations'[i].node
    <3>1. i \in Scoped(c)' /\ \A k \in Scoped(c)' : k <= i
      BY <2>3 DEF IsTop
    <3>2. activations'[i] = activations[i] /\ i < top /\ i \in Scoped(c)
      BY <1>10, <2>2, <3>1
    <3>3. \A k \in Scoped(c) : k <= i \/ k >= top
      BY <1>1, <2>1, <3>1
    <3>4. IsNext(c, i, top)
      BY <2>1, <3>2, <3>3 DEF IsNext
    <3>5. activations[top].old_tree_base = activations[i].node
      BY <1>1, <2>3, <3>2, <3>4 DEF Trees, InTree
    <3> QED BY <1>3, <1>11, <3>2, <3>5 DEF last
  <2>4. ASSUME NEW i \in Nat, NEW j \in Nat, IsNext(c, i, j)', ~activations'[i].moved
        PROVE  activations'[j].old_tree_base = activations'[i].node
    <3>1. i \in Scoped(c)' /\ j \in Scoped(c)' /\ i < j
          /\ \A k \in Scoped(c)' : k <= i \/ k >= j
      BY <2>4 DEF IsNext
    <3>2. /\ activations'[i] = activations[i] /\ activations'[j] = activations[j]
          /\ i \in Scoped(c) /\ j \in Scoped(c) /\ j < top
      BY <1>10, <2>2, <3>1
    <3>3. \A k \in Scoped(c) : k <= i \/ k >= j
      BY <1>1, <2>1, <3>1, <3>2
    <3>4. IsNext(c, i, j)
      BY <3>1, <3>2, <3>3 DEF IsNext
    <3> QED BY <2>4, <3>2, <3>4 DEF Trees, InTree
  <2> QED BY <2>3, <2>4 DEF InTree
<1>12. CASE ~(c = last.sandbox /\ last.scoped)
  <2>1. \A i : i \in Scoped(c)' <=> i \in Scoped(c)
    BY <1>9, <1>12
  <2>2. \A i, j \in Nat : (IsTop(c, i)' <=> IsTop(c, i)) /\ (IsNext(c, i, j)' <=> IsNext(c, i, j))
    BY <2>1 DEF IsTop, IsNext
  <2>3. sandboxes'[c].m_tree_base = sandboxes[c].m_tree_base
    BY <1>3, <1>12
  <2>4. ASSUME NEW i \in Nat, IsTop(c, i), ~activations'[i].moved
        PROVE  sandboxes'[c].m_tree_base = activations'[i].node
    BY <1>10, <2>1, <2>3, <2>4 DEF Trees, InTree, IsTop
  <2>5. ASSUME NEW i \in Nat, NEW j \in Nat, IsNext(c, i, j), ~activations'[i].moved
        PROVE  activations'[j].old_tree_base = activations'[i].node
    BY <1>10, <2>1, <2>5 DEF Trees, InTree, IsNext
  <2> QED BY <2>2, <2>4, <2>5 DEF InTree
<1> QED BY <1>11, <1>12

LEMMA TreesStep ==
  InstancesInv /\ Trees /\ [InstancesNext]_instance_vars => Trees'
<1> SUFFICES ASSUME InstancesInv, Trees, [InstancesNext]_instance_vars PROVE Trees'
  OBVIOUS
<1>0. Typed /\ activations \in Seq(Calls)
  BY DEF InstancesInv, Typed
<1>1. ASSUME NEW n \in Owners, detach_script(n) PROVE Trees'
  <2>1. instance[n] # Nobody /\ activations' = activations /\ sandboxes' = GivesUpSandbox(n)
    BY <1>1 DEF detach_script
  <2>2. \A b \in Boxes : sandboxes'[b].m_tree_base = sandboxes[b].m_tree_base
    BY <2>1, GivesUpOne
  <2> QED BY <2>1, <2>2, SameTrees
<1>2. ASSUME NEW n \in Owners, replace_node(n) PROVE Trees'
  <2>1. Scoped(n) = {} /\ activations' = activations
    BY <1>2 DEF replace_node, Scoped
  <2>2. \A b \in Boxes : b # n => sandboxes'[b].m_tree_base = sandboxes[b].m_tree_base
    <3>1. CASE instance[n] = Nobody
      <4>1. sandboxes' = [sandboxes EXCEPT ![n] = OwnBox(n)]
        BY <1>2, <3>1 DEF replace_node
      <4> QED BY <1>0, <4>1 DEF Typed
    <3>2. CASE instance[n] # Nobody
      <4>1. sandboxes' = [GivesUpSandbox(n) EXCEPT ![n] = OwnBox(n)]
        BY <1>2, <3>2 DEF replace_node
      <4>2. /\ GivesUpSandbox(n) \in [Boxes -> SandboxStates]
            /\ \A b \in Boxes :
                 GivesUpSandbox(n)[b].m_tree_base = sandboxes[b].m_tree_base
        BY <3>2, GivesUpOne
      <4> QED BY <4>1, <4>2
    <3> QED BY <3>1, <3>2
  <2> QED BY <2>1, <2>2, SameTrees
<1>3. ASSUME NEW n \in Owners, callp(n) \/ set_property(n) \/ callv(n) PROVE Trees'
  <2>1. PICK b \in Boxes, scoped \in BOOLEAN : starts(n, b, scoped)
    BY <1>3, Starts
  <2> QED BY <1>0, <2>1, StartedTrees
<1>4. ASSUME NEW n \in Owners, NEW s \in Attached, instance_create_on_sandbox(n, s)
      PROVE  Trees'
  <2>1. n \in Boxes /\ MovesTreeBase(n, n, sandboxes)
    BY <1>4, KindsOfScripts DEF instance_create_on_sandbox
  <2> QED BY <1>0, <2>1, MovedTrees DEF Typed
<1>5. ASSUME NEW n \in Owners, NEW s \in Attached, NEW b \in SharedBoxes,
             instance_create(n, s, b)
      PROVE  Trees'
  <2> DEFINE created == create_sandbox(s, b)
             made == IF sandbox_instances[s] # Nobody THEN sandboxes
                     ELSE [sandboxes EXCEPT ![b] =
                             [life |-> "alive", program |-> FirstProgram(s), m_tree_base |-> @.m_tree_base]]
  <2>1. MovesTreeBase(created.sandbox, n, made)
    BY <1>5 DEF instance_create
  <2>2. created.sandbox \in Boxes
    <3>1. CASE sandbox_instances[s] # Nobody
      <4>1. sandbox_instances[s] \in SharedEntries
        BY <1>0, <3>1 DEF Typed
      <4> QED BY <3>1, <4>1, KindsOfScripts DEF create_sandbox, SharedEntries
    <3>2. CASE sandbox_instances[s] = Nobody
      BY <3>2, KindsOfScripts DEF create_sandbox
    <3> QED BY <3>1, <3>2
  <2>3. made = MadeFor(s, b) /\ b \in Boxes
    BY KindsOfScripts DEF MadeFor
  <2>4. /\ made \in [Boxes -> SandboxStates]
        /\ \A c \in Boxes : made[c].m_tree_base = sandboxes[c].m_tree_base
    <3> HIDE DEF made, SandboxStates
    <3> QED BY <1>0, <2>3, SandboxMade
  <2> HIDE DEF created, made
  <2> QED BY <1>0, <2>1, <2>2, <2>4, MovedTrees
<1>6. ASSUME \/ \E c \in CPPScripts : build(c)
             \/ \E n \in Owners, e \in ELFs \cup {Nobody} : set_elf_script(n, e)
             \/ \E n \in Owners : enter_tree(n)
      PROVE  Trees'
  BY <1>6, ProgramsChange, SameTrees
<1>7. ASSUME end_of_frame PROVE Trees'
  <2>1. activations = <<>> /\ activations' = activations
    BY <1>7 DEF end_of_frame
  <2>2. \A b \in Boxes : Scoped(b) = {}
    BY <2>1 DEF Scoped
  <2> QED BY <2>1, <2>2, SameTrees
<1>8. ASSUME call_returns PROVE Trees'
  BY <1>0, <1>8, ReturnedTrees
<1>9. ASSUME UNCHANGED instance_vars PROVE Trees'
  <2>1. activations' = activations /\ sandboxes' = sandboxes
    BY <1>9 DEF instance_vars
  <2> QED BY <2>1, SameTrees
<1> QED BY <1>1, <1>2, <1>3, <1>4, <1>5, <1>6, <1>7, <1>8, <1>9 DEF InstancesNext

(* However deep calls of many nodes nest on one Sandbox, and whoever is     *)
(* detached or replaced meanwhile, each finds nodes relative to its own     *)
(* node when it is the one that runs, unless an instance was made during it.*)
THEOREM CallsAlwaysRunInTheirTree == InstancesSpec => []CallsRunInTheirTree
<1>1. InstancesInit => Trees
  <2> SUFFICES ASSUME InstancesInit PROVE Trees
    OBVIOUS
  <2>1. \A b : Scoped(b) = {}
    BY DEF InstancesInit, Scoped
  <2> QED BY <2>1 DEF Trees, InTree, IsTop, IsNext
<1>2. InstancesInv /\ Trees => CallsRunInTheirTree
  <2> SUFFICES ASSUME InstancesInv, Trees, NEW b \in Boxes, Scoped(b) # {},
                      ~activations[InnermostOn(b)].moved
               PROVE  sandboxes[b].m_tree_base = activations[InnermostOn(b)].node
    BY DEF CallsRunInTheirTree
  <2>1. activations \in Seq(Calls) /\ Len(activations) \in Nat
    BY LenProperties DEF InstancesInv, Typed
  <2>2. /\ InnermostOn(b) \in Scoped(b) /\ InnermostOn(b) \in 1..Len(activations)
        /\ \A i \in Scoped(b) : i <= InnermostOn(b)
    BY <2>1, InnermostIsScoped
  <2>3. InnermostOn(b) \in Nat /\ IsTop(b, InnermostOn(b))
    BY <2>1, <2>2 DEF IsTop
  <2> HIDE DEF InnermostOn
  <2> QED BY <2>3 DEF Trees, InTree
<1> QED BY <1>1, <1>2, InitInstances, InstancesStep, TreesStep, PTL DEF InstancesSpec

-----------------------------------------------------------------------------
(* Steps that change neither the Sandboxes of C++ scripts nor programs.     *)
LEMMA SamePrograms ==
  ASSUME InstancesInv, NoForeignProgram,
         \A c \in CPPScripts : sandbox_instances'[c] # Nobody =>
           /\ sandbox_instances[c] # Nobody
           /\ sandbox_instances'[c].sandbox = sandbox_instances[c].sandbox
           /\ elf_script'[c] = elf_script[c]
           /\ sandboxes'[sandbox_instances[c].sandbox].program
                = sandboxes[sandbox_instances[c].sandbox].program
  PROVE  NoForeignProgram'
BY DEF NoForeignProgram

LEMMA SharedSandbox ==
  ASSUME InstancesInv, NEW c \in CPPScripts, sandbox_instances[c] # Nobody
  PROVE  /\ c \in Counted /\ c \in Attached
         /\ sandbox_instances[c] \in SharedEntries
         /\ sandbox_instances[c].sandbox \in SharedBoxes
         /\ sandbox_instances[c].sandbox \in Boxes
         /\ sandboxes[sandbox_instances[c].sandbox].life = "alive"
         /\ InstancesOf(c) # {}
<1>1. c \in Counted /\ c \in Attached
  BY DEF Counted, Attached
<1>2. sandbox_instances[c] \in SharedEntries
  BY <1>1 DEF InstancesInv, Typed
<1>3. sandbox_instances[c].sandbox \in SharedBoxes
  BY <1>2 DEF SharedEntries
<1>4. sandboxes[sandbox_instances[c].sandbox].life = "alive"
  BY <1>1 DEF InstancesInv, Living
<1>5. InstancesOf(c) # {}
  BY <1>1 DEF InstancesInv, Counts
<1> QED BY <1>1, <1>2, <1>3, <1>4, <1>5, KindsOfScripts

(* An instance that goes takes a program along only with the Sandbox.       *)
LEMMA FreedProgram ==
  ASSUME InstancesInv, NEW n \in Owners, instance[n] # Nobody, instance_free(n),
         NEW c \in CPPScripts, sandbox_instances'[c] # Nobody
  PROVE  /\ sandbox_instances[c] # Nobody
         /\ sandbox_instances'[c].sandbox = sandbox_instances[c].sandbox
         /\ elf_script'[c] = elf_script[c]
<1>0. Typed
  BY DEF InstancesInv
<1>1. PICK s \in Attached : s = instance[n].script
  BY GivesUpOne
<1>2. /\ sandbox_instances' =
           IF s \notin Counted THEN sandbox_instances
           ELSE IF LastOne(n) THEN [sandbox_instances EXCEPT ![s] = Nobody]
           ELSE [sandbox_instances EXCEPT ![s].count = @ - 1]
      /\ elf_script' = IF s \in CPPScripts /\ InstancesOf(s) = {n}
                       THEN [elf_script EXCEPT ![s] = Nobody] ELSE elf_script
  BY <1>1 DEF instance_free
<1>3. c \in Attached /\ c \in Counted
  BY DEF Counted, Attached
<1>4. CASE c # s
  BY <1>0, <1>2, <1>3, <1>4 DEF Typed
<1>5. CASE c = s
  <2>1. s \in Counted /\ sandbox_instances[s] \in SharedEntries
        /\ sandbox_instances[s].count = Cardinality(InstancesOf(s))
    BY <1>1, <1>3, <1>5, GivesUpOne
  <2>2. ~LastOne(n) /\ sandbox_instances' = [sandbox_instances EXCEPT ![s].count = @ - 1]
    <3>1. LastOne(n) => sandbox_instances' = [sandbox_instances EXCEPT ![s] = Nobody]
      BY <1>2, <2>1
    <3>2. ~LastOne(n)
      BY <1>0, <1>5, <3>1 DEF Typed
    <3> QED BY <1>2, <2>1, <3>2
  <2>3. sandbox_instances[s].count # 1
    BY <1>1, <2>1, <2>2 DEF LastOne
  <2>4. InstancesOf(s) # {n}
    <3>1. Cardinality({n}) = 1
      BY FS_Singleton
    <3> QED BY <2>1, <2>3, <3>1
  <2>5. elf_script' = elf_script
    BY <1>2, <2>4
  <2>6. sandbox_instances'[s].sandbox = sandbox_instances[s].sandbox
    BY <1>0, <2>1, <2>2 DEF Typed, SharedEntries
  <2> QED BY <1>5, <2>1, <2>5, <2>6, InstancesAssumption
<1> QED BY <1>4, <1>5

LEMMA ProgramsStep ==
  ASSUME ~AssociatesInCalls, InstancesInv, NoForeignProgram, [InstancesNext]_instance_vars
  PROVE  NoForeignProgram'
<1>0. Typed /\ Living
  BY DEF InstancesInv
<1>1. ASSUME UNCHANGED <<sandbox_instances, elf_script>>,
             \A b \in SharedBoxes : sandboxes[b].life = "alive" =>
               sandboxes'[b].program = sandboxes[b].program
      PROVE  NoForeignProgram'
  BY <1>1, SharedSandbox, SamePrograms
<1>2. ASSUME NEW n \in Owners, detach_script(n) \/ replace_node(n) PROVE NoForeignProgram'
  <2>1. CASE instance[n] = Nobody
    <3>1. /\ UNCHANGED <<sandbox_instances, elf_script>> /\ n \in SandboxOwners
          /\ sandboxes' = [sandboxes EXCEPT ![n] = OwnBox(n)]
      BY <1>2, <2>1 DEF detach_script, replace_node
    <3>2. \A b \in SharedBoxes : b \in Boxes /\ b # n
      BY <3>1, KindsOfScripts
    <3>3. \A b \in SharedBoxes : sandboxes'[b] = sandboxes[b]
      BY <1>0, <3>1, <3>2 DEF Typed
    <3> QED BY <1>1, <3>1, <3>3
  <2>2. CASE instance[n] # Nobody
    <3>1. /\ instance_free(n)
          /\ \/ sandboxes' = GivesUpSandbox(n)
             \/ n \in SandboxOwners /\ sandboxes' = [GivesUpSandbox(n) EXCEPT ![n] = OwnBox(n)]
      BY <1>2, <2>2 DEF detach_script, replace_node
    <3>2. GivesUpSandbox(n) \in [Boxes -> SandboxStates]
      BY <2>2, GivesUpOne
    <3>3. \A b \in Boxes : GivesUpSandbox(n)[b].program = sandboxes[b].program
      <4>1. CASE LastOne(n)
        <5>1. GivesUpSandbox(n) =
                [sandboxes EXCEPT ![instance[n].current_sandbox].life = "queued"]
          BY <4>1 DEF GivesUpSandbox
        <5> QED BY <1>0, <5>1 DEF Typed
      <4>2. CASE ~LastOne(n)
        BY <4>2 DEF GivesUpSandbox
      <4> QED BY <4>1, <4>2
    <3>4. \A b \in SharedBoxes : b \in Boxes /\ (n \in SandboxOwners => b # n)
      BY KindsOfScripts
    <3>5. \A b \in SharedBoxes : sandboxes'[b].program = sandboxes[b].program
      BY <3>1, <3>2, <3>3, <3>4
    <3>6. ASSUME NEW c \in CPPScripts, sandbox_instances'[c] # Nobody
          PROVE  /\ sandbox_instances[c] # Nobody
                 /\ sandbox_instances'[c].sandbox = sandbox_instances[c].sandbox
                 /\ elf_script'[c] = elf_script[c]
                 /\ sandbox_instances[c].sandbox \in SharedBoxes
      BY <2>2, <3>1, <3>6, FreedProgram, SharedSandbox
    <3> QED BY <3>5, <3>6, SamePrograms
  <2> QED BY <2>1, <2>2
<1>3. ASSUME NEW n \in Owners, callp(n) \/ set_property(n) \/ callv(n)
      PROVE  NoForeignProgram'
  <2>1. PICK b \in Boxes, scoped \in BOOLEAN : starts(n, b, scoped)
    BY <1>3, Starts
  <2>2. /\ UNCHANGED <<sandbox_instances, elf_script>>
        /\ sandboxes' = IF scoped THEN [sandboxes EXCEPT ![b].m_tree_base = n] ELSE sandboxes
    BY <2>1 DEF starts
  <2>3. \A c \in Boxes : sandboxes'[c].program = sandboxes[c].program
    BY <1>0, <2>2 DEF Typed
  <2> QED BY <1>1, <2>2, <2>3, KindsOfScripts
<1>4. ASSUME NEW b, NEW boxes \in [Boxes -> SandboxStates],
             NEW n, MovesTreeBase(b, n, boxes)
      PROVE  \A c \in Boxes : sandboxes'[c].program = boxes[c].program
  BY <1>4 DEF MovesTreeBase
<1>5. ASSUME NEW n \in Owners, NEW s \in Attached, instance_create_on_sandbox(n, s)
      PROVE  NoForeignProgram'
  <2>1. /\ UNCHANGED <<sandbox_instances, elf_script>>
        /\ MovesTreeBase(n, n, sandboxes)
    BY <1>5 DEF instance_create_on_sandbox
  <2>2. \A c \in Boxes : sandboxes'[c].program = sandboxes[c].program
    BY <1>0, <1>4, <2>1 DEF Typed
  <2> QED BY <1>1, <2>1, <2>2, KindsOfScripts
<1>6. ASSUME NEW n \in Owners, NEW s \in Attached, NEW b \in SharedBoxes,
             instance_create(n, s, b)
      PROVE  NoForeignProgram'
  <2> DEFINE created == create_sandbox(s, b)
             made == IF sandbox_instances[s] # Nobody THEN sandboxes
                     ELSE [sandboxes EXCEPT ![b] =
                             [life |-> "alive", program |-> FirstProgram(s), m_tree_base |-> @.m_tree_base]]
  <2>1. /\ MovesTreeBase(created.sandbox, n, made) /\ sandboxes[b].life = "none"
        /\ sandbox_instances' = [sandbox_instances EXCEPT ![s] = created]
        /\ elf_script' = IF s \in CPPScripts
                         THEN [elf_script EXCEPT ![s] = detect_script_instance(s)]
                         ELSE elf_script
    BY <1>6 DEF instance_create
  <2>2. b \in Boxes
    BY KindsOfScripts
  <2>3. made = MadeFor(s, b)
    BY DEF MadeFor
  <2>4. /\ made \in [Boxes -> SandboxStates]
        /\ \A c \in Boxes : made[c].program = IF sandbox_instances[s] = Nobody /\ c = b
                                              THEN FirstProgram(s) ELSE sandboxes[c].program
    <3> HIDE DEF made, SandboxStates
    <3> QED BY <1>0, <2>2, <2>3, SandboxMade
  <2>5. \A c \in Boxes : sandboxes'[c].program = made[c].program
    <3> HIDE DEF created, made
    <3> QED BY <1>4, <2>1, <2>4
  <2>6. ASSUME NEW c \in CPPScripts, c # s, sandbox_instances'[c] # Nobody
        PROVE  sandboxes'[sandbox_instances'[c].sandbox].program \in {Nobody, elf_script'[c]}
    <3>1. c \in Attached
      BY DEF Attached
    <3>2. sandbox_instances'[c] = sandbox_instances[c] /\ elf_script'[c] = elf_script[c]
      <4> HIDE DEF created
      <4> QED BY <1>0, <2>1, <2>6, <3>1 DEF Typed
    <3>3. /\ sandbox_instances[c].sandbox \in Boxes
          /\ sandboxes[sandbox_instances[c].sandbox].life = "alive"
      BY <2>6, <3>2, SharedSandbox
    <3>4. sandbox_instances[c].sandbox # b
      BY <2>1, <3>3
    <3>5. sandboxes'[sandbox_instances[c].sandbox].program
            = sandboxes[sandbox_instances[c].sandbox].program
      <4> HIDE DEF made
      <4> QED BY <2>4, <2>5, <3>3, <3>4
    <3> QED BY <2>6, <3>2, <3>5 DEF NoForeignProgram
  <2>7. ASSUME s \in CPPScripts
        PROVE  sandboxes'[sandbox_instances'[s].sandbox].program \in {Nobody, elf_script'[s]}
    <3>1. sandbox_instances'[s] = created /\ elf_script'[s] = detect_script_instance(s)
      <4> HIDE DEF created
      <4> QED BY <1>0, <2>1, <2>7 DEF Typed
    <3>2. CASE sandbox_instances[s] = Nobody
      <4>1. created.sandbox = b
        BY <3>2 DEF create_sandbox
      <4>2. made[b].program = detect_script_instance(s)
        <5>1. made[b].program = FirstProgram(s)
          <6> HIDE DEF made
          <6> QED BY <2>2, <2>4, <3>2
        <5> QED BY <2>7, <5>1 DEF FirstProgram
      <4> HIDE DEF created, made
      <4> QED BY <2>2, <2>5, <3>1, <4>1, <4>2
    <3>3. CASE sandbox_instances[s] # Nobody
      <4>1. /\ sandbox_instances[s] \in SharedEntries
            /\ sandbox_instances[s].sandbox \in Boxes
        BY <2>7, <3>3, SharedSandbox
      <4>2. created.sandbox = sandbox_instances[s].sandbox
        BY <3>3, <4>1 DEF create_sandbox, SharedEntries
      <4>3. sandboxes[sandbox_instances[s].sandbox].program \in {Nobody, elf_script[s]}
        BY <2>7, <3>3 DEF NoForeignProgram
      <4>4. detect_script_instance(s) = elf_script[s] \/ elf_script[s] = Nobody
        BY DEF detect_script_instance
      <4>5. sandboxes'[created.sandbox].program
              = sandboxes[sandbox_instances[s].sandbox].program
        <5> HIDE DEF created, made
        <5> QED BY <2>4, <2>5, <3>3, <4>1, <4>2
      <4> HIDE DEF created, made
      <4> QED BY <3>1, <4>3, <4>4, <4>5
    <3> QED BY <3>2, <3>3
  <2> QED BY <2>6, <2>7 DEF NoForeignProgram
<1>7. ASSUME NEW c \in CPPScripts, build(c) PROVE NoForeignProgram'
  BY <1>1, <1>7 DEF build
<1>8. ASSUME NEW n \in Owners, NEW e \in ELFs \cup {Nobody}, set_elf_script(n, e)
      PROVE  NoForeignProgram'
  <2>1. PICK s \in CPPScripts : s = instance[n].script
    BY <1>8 DEF set_elf_script
  <2>2. instance[n] # Nobody /\ s \in Counted
    BY <1>8 DEF set_elf_script, Counted
  <2>3. /\ sandbox_instances[s] \in SharedEntries /\ sandbox_instances[s].sandbox \in SharedBoxes
        /\ instance[n].current_sandbox = sandbox_instances[s].sandbox
    BY <2>1, <2>2, GivesUpOne
  <2>4. PICK own \in SharedBoxes : own = sandbox_instances[s].sandbox
    BY <2>3
  <2>5. /\ elf_script' = [elf_script EXCEPT ![s] = e]
        /\ sandboxes' = [sandboxes EXCEPT ![own].program = e]
        /\ sandbox_instances' = sandbox_instances
    BY <1>8, <2>1, <2>3, <2>4 DEF set_elf_script, reset_to
  <2>6. own \in Boxes
    BY KindsOfScripts
  <2>7. ASSUME NEW c \in CPPScripts, sandbox_instances'[c] # Nobody
        PROVE  sandboxes'[sandbox_instances'[c].sandbox].program \in {Nobody, elf_script'[c]}
    <3>1. CASE c = s
      BY <1>0, <2>4, <2>5, <2>6, <3>1 DEF Typed
    <3>2. CASE c # s
      <4>1. /\ sandbox_instances[c].sandbox \in Boxes /\ c \in Attached /\ s \in Attached
            /\ sandbox_instances[s] # Nobody
        BY <2>3, <2>5, <2>7, SharedSandbox, InstancesAssumption DEF Attached
      <4>2. sandbox_instances[c].sandbox # own
        BY <1>0, <2>4, <2>5, <2>7, <3>2, <4>1 DEF Living
      <4>3. /\ elf_script'[c] = elf_script[c]
            /\ sandboxes'[sandbox_instances[c].sandbox] = sandboxes[sandbox_instances[c].sandbox]
        BY <1>0, <2>5, <3>2, <4>1, <4>2 DEF Typed
      <4> QED BY <2>5, <2>7, <4>3 DEF NoForeignProgram
    <3> QED BY <3>1, <3>2
  <2> QED BY <2>7 DEF NoForeignProgram
<1>9. ASSUME NEW n \in Owners, enter_tree(n) PROVE NoForeignProgram'
  <2>1. /\ UNCHANGED <<sandbox_instances, elf_script>>
        /\ sandboxes' = [sandboxes EXCEPT ![n].program = instance[n].script]
    BY <1>9 DEF enter_tree
  <2>2. \A b \in SharedBoxes : b \in Boxes /\ b # n
    BY InstancesAssumption, KindsOfScripts
  <2>3. \A b \in SharedBoxes : sandboxes'[b] = sandboxes[b]
    BY <1>0, <2>1, <2>2 DEF Typed
  <2> QED BY <1>1, <2>1, <2>3
<1>10. ASSUME end_of_frame PROVE NoForeignProgram'
  <2>1. /\ UNCHANGED <<sandbox_instances, elf_script>>
        /\ sandboxes' = [b \in Boxes |-> IF sandboxes[b].life = "queued" THEN NoBox
                                         ELSE sandboxes[b]]
    BY <1>10 DEF end_of_frame
  <2>2. \A b \in Boxes : sandboxes[b].life = "alive" => sandboxes'[b] = sandboxes[b]
    BY <2>1
  <2> QED BY <1>1, <2>1, <2>2, KindsOfScripts
<1>11. ASSUME call_returns PROVE NoForeignProgram'
  <2> DEFINE last == activations[Len(activations)]
  <2>1. /\ UNCHANGED <<sandbox_instances, elf_script>>
        /\ sandboxes' = IF last.scoped
                        THEN [sandboxes EXCEPT ![last.sandbox].m_tree_base = last.old_tree_base]
                        ELSE sandboxes
    BY <1>11 DEF call_returns, Last
  <2> HIDE DEF last
  <2>2. \A b \in Boxes : sandboxes'[b].program = sandboxes[b].program
    BY <1>0, <2>1 DEF Typed
  <2> QED BY <1>1, <2>1, <2>2, KindsOfScripts
<1>12. ASSUME UNCHANGED instance_vars PROVE NoForeignProgram'
  BY <1>1, <1>12 DEF instance_vars
<1> QED BY <1>2, <1>3, <1>5, <1>6, <1>7, <1>8, <1>9, <1>10, <1>11, <1>12 DEF InstancesNext

(* If programs are associated between calls only, the Sandbox of a C++      *)
(* script never runs a program the script gave up: not when the script is   *)
(* taken off all nodes and put back, nor when builds come and go.           *)
THEOREM ProgramsAreAlwaysOwn ==
  ASSUME ~AssociatesInCalls PROVE InstancesSpec => []NoForeignProgram
<1>1. InstancesInit => NoForeignProgram
  BY DEF InstancesInit, NoForeignProgram, Attached
<1>2. InstancesInv /\ NoForeignProgram /\ [InstancesNext]_instance_vars => NoForeignProgram'
  BY ProgramsStep
<1> QED BY <1>1, <1>2, InitInstances, InstancesStep, PTL DEF InstancesSpec
==============================================================================
