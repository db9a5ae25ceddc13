-------------------------- MODULE ScriptInstances --------------------------
(***************************************************************************)
(* Script instances and the Sandboxes they share (elf/script_instance.cpp, *)
(* cpp/script_cpp_instance.cpp, cpp/script_cpp.cpp and the life of the     *)
(* instances in safegdscript/script_instance_safegdscript.cpp).            *)
(*                                                                         *)
(* A node with a script has an instance, and the instances of one script   *)
(* share one Sandbox.  ELF scripts keep theirs for ever, and use a node    *)
(* that is a Sandbox itself; C++ and SafeGDScript scripts count their      *)
(* instances and give the Sandbox up with the last one.  A Sandbox finds   *)
(* other nodes relative to its tree base, which each call of an instance   *)
(* sets to its own node and puts back when it ends.                        *)
(***************************************************************************)
EXTENDS Integers, Sequences, SequencesExt, FiniteSets, FiniteSetsExt

CONSTANTS
  Owners,             \* the nodes that may have a script
  SandboxOwners,      \* those that are Sandboxes themselves
  SharedBoxes,        \* the Sandboxes the extension makes
  ELFs,               \* the ELF scripts
  CPPScripts,         \* the C++ scripts
  SafeGDScripts,      \* the SafeGDScript scripts
  ELFOf,              \* for each C++ script the ELF script beside it
  Nobody,             \* no instance, no Sandbox, no program
  MaxCalls,           \* bound on nested calls
  AssociatesInCalls   \* is a program associated while a call runs

Boxes == SandboxOwners \cup SharedBoxes
Attached == ELFs \cup CPPScripts \cup SafeGDScripts
Counted == CPPScripts \cup SafeGDScripts
Instances == [script : Attached, current_sandbox : Boxes]
SharedEntries == [sandbox : SharedBoxes, count : Nat]

ASSUME InstancesAssumption ==
  /\ SandboxOwners \subseteq Owners /\ SharedBoxes \cap Owners = {} /\ IsFiniteSet(Owners)
  /\ ELFs \cap (CPPScripts \cup SafeGDScripts) = {}
  /\ ELFOf \in [CPPScripts -> ELFs] /\ MaxCalls \in Nat
  /\ Nobody \notin Owners \cup SharedBoxes \cup Attached \cup Instances \cup SharedEntries
  /\ AssociatesInCalls \in BOOLEAN

VARIABLES
  instance,           \* for each node its script and current_sandbox
  sandbox_instances,  \* for each script its Sandbox and the count
  sandboxes,          \* life, program and m_tree_base of each
  activations,        \* the calls in progress, the innermost last
  elf_script,         \* for each C++ script its elf_script
  built               \* the C++ scripts with a program beside them

instance_vars == <<instance, sandbox_instances, sandboxes, activations,
                   elf_script, built>>

NoBox == [life |-> "none", program |-> Nobody, m_tree_base |-> Nobody]
OwnBox(n) == [life |-> "alive", program |-> Nobody, m_tree_base |-> n]

InstancesInit ==
  /\ built = {} /\ activations = <<>>
  /\ instance = [n \in Owners |-> Nobody]
  /\ sandbox_instances = [s \in Attached |-> Nobody]
  /\ sandboxes = [b \in Boxes |-> IF b \in SandboxOwners THEN OwnBox(b) ELSE NoBox]
  /\ elf_script = [c \in CPPScripts |-> Nobody]

-----------------------------------------------------------------------------
InstancesOf(s) == {n \in Owners : instance[n] # Nobody /\ instance[n].script = s}

is_in_vmcall(b) == \E i \in DOMAIN activations : activations[i].sandbox = b

(* The innermost of the calls on a Sandbox that set its tree base.         *)
Scoped(b) == {i \in DOMAIN activations : activations[i].sandbox = b /\ activations[i].scoped}

InnermostOn(b) == Max(Scoped(b))

(* The program a C++ script has when its next instance is made.            *)
detect_script_instance(c) ==
  IF elf_script[c] = Nobody /\ c \in built THEN ELFOf[c] ELSE elf_script[c]

(* What the Sandbox that is made for a script is given.                    *)
FirstProgram(s) == IF s \in CPPScripts THEN detect_script_instance(s) ELSE s

(* Definitions named ..._Mutant are the next definition with a plausible   *)
(* mistake in it; no other definition uses them.                           *)
create_sandbox_Mutant(s, b) ==
  IF sandbox_instances[s] # Nobody THEN sandbox_instances[s]
  ELSE [sandbox |-> b, count |-> IF s \in Counted THEN 1 ELSE 0]

create_sandbox(s, b) ==
  IF sandbox_instances[s] # Nobody
  THEN [sandbox_instances[s] EXCEPT !.count = IF s \in Counted THEN @ + 1 ELSE @]
  ELSE [sandbox |-> b, count |-> IF s \in Counted THEN 1 ELSE 0]

(* An instance that is made moves the tree base of its Sandbox, whatever   *)
(* call is running on it.                                                  *)
MovesTreeBase(b, n, boxes) ==
  /\ sandboxes' = [boxes EXCEPT ![b].m_tree_base = n]
  /\ activations' = IF Scoped(b) # {}
                    THEN [activations EXCEPT ![InnermostOn(b)].moved = TRUE]
                    ELSE activations

-----------------------------------------------------------------------------
(* ELFScript::_instance_create on a node that is a Sandbox.                *)
instance_create_on_sandbox(n, s) ==
  /\ n \in SandboxOwners /\ instance[n] = Nobody /\ s \in ELFs
  /\ instance' = [instance EXCEPT ![n] = [script |-> s, current_sandbox |-> n]]
  /\ MovesTreeBase(n, n, sandboxes)
  /\ UNCHANGED <<sandbox_instances, elf_script, built>>

(* _instance_create with a shared Sandbox, b if there is none yet.         *)
instance_create(n, s, b) ==
  /\ instance[n] = Nobody
  /\ s \in ELFs => n \notin SandboxOwners
  /\ sandboxes[b].life = "none"
  /\ LET entry == create_sandbox(s, b)
         made == IF sandbox_instances[s] # Nobody THEN sandboxes
                 ELSE [sandboxes EXCEPT ![b] =
                         [life |-> "alive", program |-> FirstProgram(s), m_tree_base |-> @.m_tree_base]]
     IN  /\ sandbox_instances' = [sandbox_instances EXCEPT ![s] = entry]
         /\ instance' = [instance EXCEPT ![n] =
                           [script |-> s, current_sandbox |-> entry.sandbox]]
         /\ MovesTreeBase(entry.sandbox, n, made)
  /\ elf_script' = IF s \in CPPScripts
                   THEN [elf_script EXCEPT ![s] = detect_script_instance(s)] ELSE elf_script
  /\ UNCHANGED <<built>>

(* The destructors of the instances; the Sandbox of the last one is freed  *)
(* at the end of the frame, and a C++ script forgets its program.          *)
LastOne(n) == LET s == instance[n].script
              IN  s \in Counted /\ sandbox_instances[s].count = 1

GivesUpSandbox(n) ==
  IF LastOne(n) THEN [sandboxes EXCEPT ![instance[n].current_sandbox].life = "queued"]
  ELSE sandboxes

instance_free(n) ==
  LET s == instance[n].script
  IN  /\ instance' = [instance EXCEPT ![n] = Nobody]
      /\ sandbox_instances' =
           IF s \notin Counted THEN sandbox_instances
           ELSE IF LastOne(n) THEN [sandbox_instances EXCEPT ![s] = Nobody]
           ELSE [sandbox_instances EXCEPT ![s].count = @ - 1]
      /\ elf_script' = IF s \in CPPScripts /\ InstancesOf(s) = {n}
                       THEN [elf_script EXCEPT ![s] = Nobody] ELSE elf_script

(* Node::set_script(null), also from host code a call of the node reached. *)
detach_script(n) ==
  /\ instance[n] # Nobody
  /\ instance_free(n)
  /\ sandboxes' = GivesUpSandbox(n)
  /\ UNCHANGED <<activations, built>>

(* A node is freed, and another one made in its place.  The engine does    *)
(* not free a node that runs a method, and a Sandbox's own calls are calls *)
(* of its node.                                                            *)
replace_node(n) ==
  /\ n \in SandboxOwners
  /\ \A i \in DOMAIN activations : activations[i].node # n /\ activations[i].sandbox # n
  /\ IF instance[n] = Nobody THEN UNCHANGED <<instance, sandbox_instances, elf_script>>
     ELSE instance_free(n)
  /\ LET boxes == IF instance[n] = Nobody THEN sandboxes ELSE GivesUpSandbox(n)
     IN  sandboxes' = [boxes EXCEPT ![n] = OwnBox(n)]
  /\ UNCHANGED <<activations, built>>

(* Node::queue_free() takes effect between two frames.                     *)
end_of_frame ==
  /\ activations = <<>>
  /\ \E b \in Boxes : sandboxes[b].life = "queued"
  /\ sandboxes' = [b \in Boxes |-> IF sandboxes[b].life = "queued" THEN NoBox
                                   ELSE sandboxes[b]]
  /\ UNCHANGED <<instance, sandbox_instances, activations, elf_script, built>>

-----------------------------------------------------------------------------
(* A build puts a program beside a C++ script, or a clean removes it.      *)
build(c) ==
  /\ built' = IF c \in built THEN built \ {c} ELSE built \cup {c}
  /\ UNCHANGED <<instance, sandbox_instances, sandboxes, activations, elf_script>>

(* set_associated_script: every instance is reset to the program, which a  *)
(* Sandbox refuses while it runs a call.                                   *)
reset_to_Mutant(c, e) ==
  LET b == sandbox_instances[c].sandbox
  IN  IF is_in_vmcall(b) \/ e = Nobody THEN sandboxes
      ELSE [sandboxes EXCEPT ![b].program = e]

reset_to(c, e) ==
  LET b == sandbox_instances[c].sandbox
  IN  IF is_in_vmcall(b) THEN sandboxes ELSE [sandboxes EXCEPT ![b].program = e]

set_elf_script(n, e) ==
  /\ instance[n] # Nobody /\ instance[n].script \in CPPScripts
  /\ AssociatesInCalls \/ ~is_in_vmcall(instance[n].current_sandbox)
  /\ elf_script' = [elf_script EXCEPT ![instance[n].script] = e]
  /\ sandboxes' = reset_to(instance[n].script, e)
  /\ UNCHANGED <<instance, sandbox_instances, activations, built>>

(* _enter_tree gives a node that is a Sandbox the program of its script.   *)
enter_tree(n) ==
  /\ instance[n] # Nobody /\ instance[n].current_sandbox = n
  /\ ~is_in_vmcall(n)
  /\ sandboxes' = [sandboxes EXCEPT ![n].program = instance[n].script]
  /\ UNCHANGED <<instance, sandbox_instances, activations, elf_script, built>>

(* The Sandbox the properties of an instance are set in: for ELF scripts   *)
(* the shared one, if there is one, even if the node is a Sandbox itself.  *)
get_sandbox(n) ==
  LET s == instance[n].script
  IN  IF s \in ELFs /\ sandbox_instances[s] # Nobody THEN sandbox_instances[s].sandbox
      ELSE instance[n].current_sandbox

(* A call into the program on Sandbox b for node n: a method, an accessor  *)
(* of a property, or vmcall() itself, which leaves the tree base alone.    *)
starts(n, b, scoped) ==
  /\ Len(activations) < MaxCalls /\ sandboxes[b].program # Nobody
  /\ activations' = Append(activations,
                      [node |-> n, sandbox |-> b, scoped |-> scoped, moved |-> FALSE,
                       old_tree_base |-> sandboxes[b].m_tree_base])
  /\ sandboxes' = IF scoped THEN [sandboxes EXCEPT ![b].m_tree_base = n] ELSE sandboxes
  /\ UNCHANGED <<instance, sandbox_instances, elf_script, built>>

callp(n) == instance[n] # Nobody /\ starts(n, instance[n].current_sandbox, TRUE)

set_property(n) == instance[n] # Nobody /\ starts(n, get_sandbox(n), TRUE)

callv(n) == instance[n] # Nobody /\ starts(n, instance[n].current_sandbox, FALSE)

(* ~ScopedTreeBase.                                                        *)
call_returns_Mutant ==
  /\ activations # <<>>
  /\ activations' = Front(activations)
  /\ UNCHANGED <<instance, sandbox_instances, sandboxes, elf_script, built>>

call_returns ==
  /\ activations # <<>>
  /\ activations' = Front(activations)
  /\ LET last == Last(activations)
     IN  sandboxes' = IF last.scoped
                      THEN [sandboxes EXCEPT ![last.sandbox].m_tree_base = last.old_tree_base]
                      ELSE sandboxes
  /\ UNCHANGED <<instance, sandbox_instances, elf_script, built>>

InstancesNext ==
  \/ \E n \in Owners : \/ replace_node(n) \/ detach_script(n)
                       \/ enter_tree(n) \/ callp(n) \/ set_property(n) \/ callv(n)
  \/ \E n \in Owners, s \in Attached : instance_create_on_sandbox(n, s)
  \/ \E n \in Owners, s \in Attached, b \in SharedBoxes : instance_create(n, s, b)
  \/ \E c \in CPPScripts : build(c)
  \/ \E n \in Owners, e \in ELFs \cup {Nobody} : set_elf_script(n, e)
  \/ end_of_frame \/ call_returns

InstancesSpec == InstancesInit /\ [][InstancesNext]_instance_vars

-----------------------------------------------------------------------------
(* The Sandbox of a counted script is there as long as the script has      *)
(* instances, is the one of all of them, and is given up with the last:    *)
(* the count is neither lost nor kept when scripts are taken off nodes,    *)
(* nodes are freed, and instances come and go during calls.  No call runs  *)
(* on a Sandbox that was freed.                                            *)
SharedSandboxesAreCounted ==
  /\ \A s \in Counted :
       LET entry == sandbox_instances[s]
       IN  IF InstancesOf(s) = {} THEN entry = Nobody
           ELSE /\ entry # Nobody /\ entry.count = Cardinality(InstancesOf(s))
                /\ \A n \in InstancesOf(s) : instance[n].current_sandbox = entry.sandbox
  /\ \A n \in Owners : instance[n] # Nobody =>
                         sandboxes[instance[n].current_sandbox].life = "alive"
  /\ \A i \in DOMAIN activations : sandboxes[activations[i].sandbox].life # "none"

(* The call that runs on a Sandbox finds nodes relative to the node it is  *)
(* for, however calls of other nodes on the same Sandbox nest around it,   *)
(* unless an instance of the script was made during it.                    *)
CallsRunInTheirTree ==
  \A b \in Boxes : Scoped(b) # {} =>
    LET call == activations[InnermostOn(b)]
    IN  ~call.moved => sandboxes[b].m_tree_base = call.node

(* The Sandbox of a C++ script runs no program but the associated one.     *)
NoForeignProgram ==
  \A c \in CPPScripts : sandbox_instances[c] # Nobody =>
    sandboxes[sandbox_instances[c].sandbox].program \in {Nobody, elf_script[c]}
=============================================================================
