---------------------------- MODULE ScopedObjects ----------------------------
(***************************************************************************)
(* The engine objects a guest refers to (sandbox.cpp, the scoped objects,  *)
(* and sandbox_restrictions.cpp).  The guest's handle of an object is the  *)
(* address the engine keeps it at.  Every call state has a table of the    *)
(* addresses its call may use, each with the binding (the godot-cpp        *)
(* wrapper of the object) once one is known, and references to RefCounted  *)
(* objects, which die with their last reference.  Other objects (nodes)    *)
(* die when the host frees them, and addresses of dead objects are reused. *)
(*                                                                         *)
(* The allow list names objects by their id, which is never reused; a      *)
(* handle that is not scoped in the call is looked up there.  Handles that *)
(* main() is given, at level 0, are of no use to later calls and left out. *)
(***************************************************************************)
EXTENDS Naturals, FiniteSets

CONSTANTS
  MaxLevel,          \* MAX_LEVEL
  Addresses,         \* where the engine can put an object
  Nodes,             \* the ids of objects the host frees
  RefCounteds,       \* the ids of reference counted objects
  None,
  Approved,          \* the objects the host's callback allows
  MaxRefs,           \* references_max
  FreesInCalls,      \* are nodes freed while a call is in progress
  RemovesInCalls     \* does the host shorten the allow list during a call

Objects == Nodes \cup RefCounteds
Levels == 0..(MaxLevel - 1)

ASSUME ObjectsAssumption ==
  /\ MaxLevel \in Nat /\ MaxLevel >= 2
  /\ Nodes \cap RefCounteds = {} /\ None \notin Objects
  /\ Approved \subseteq Objects
  /\ MaxRefs \in Nat /\ IsFiniteSet(Addresses)
  /\ FreesInCalls \in BOOLEAN /\ RemovesInCalls \in BOOLEAN

VARIABLES
  memory,          \* the engine: the object at each address
  created,         \* the engine: the ids given out
  host_refs,       \* the RefCounted objects the host refers to
  level,           \* the current call state
  scoped_objects,  \* m_states[l].scoped_objects: address to binding
  scoped_refs,     \* m_states[l].scoped_refs
  arguments,       \* the RefCounted arguments of the call at each level
  allowed_objects, \* m_allowed_objects: id to address
  allowed_refs,    \* m_allowed_object_refs
  callback,        \* m_just_in_time_allowed_objects
  given            \* history: the object last handed out under a handle

engine == <<memory, created, host_refs>>
restrictions == <<allowed_objects, allowed_refs, callback>>
vars == <<engine, level, scoped_objects, scoped_refs, arguments, restrictions,
          given>>

Callbacks == {"none", "refuses", "asks"}

Nothing == [x \in {} |-> None]
With(f, x, v) == [y \in DOMAIN f \cup {x} |-> IF y = x THEN v ELSE f[y]]
Without(f, x) == [y \in DOMAIN f \ {x} |-> f[y]]

(* The types, and the limit of a call's table of objects.                  *)
TypeOK ==
  /\ memory \in [Addresses -> Objects \cup {None}]
  /\ created \subseteq Objects /\ host_refs \subseteq RefCounteds
  /\ level \in Levels
  /\ DOMAIN scoped_objects = Levels /\ DOMAIN given = Levels
  /\ \A l \in Levels : /\ DOMAIN scoped_objects[l] \subseteq Addresses
                       /\ Cardinality(DOMAIN scoped_objects[l]) <= MaxRefs
                       /\ DOMAIN given[l] \subseteq Addresses
  /\ scoped_refs \in [Levels -> SUBSET RefCounteds]
  /\ arguments \in [Levels -> SUBSET RefCounteds]
  /\ DOMAIN allowed_objects \subseteq Objects
  /\ allowed_refs \subseteq RefCounteds
  /\ callback \in Callbacks

Init == /\ memory = [a \in Addresses |-> None]
        /\ created = {} /\ host_refs = {}
        /\ level = 0
        /\ scoped_objects = [l \in Levels |-> Nothing]
        /\ scoped_refs = [l \in Levels |-> {}]
        /\ arguments = [l \in Levels |-> {}]
        /\ allowed_objects = Nothing /\ allowed_refs = {}
        /\ callback = "none"
        /\ given = [l \in Levels |-> Nothing]

-----------------------------------------------------------------------------
(* The engine and the host. *)

Alive == {memory[a] : a \in Addresses} \ {None}
AddressOf(o) == CHOOSE a \in Addresses : memory[a] = o

Referenced == host_refs \cup allowed_refs
                \cup UNION {scoped_refs[l] \cup arguments[l] : l \in Levels}

(* RefCounted objects without a reference are freed, at once. *)
Release == memory' = [a \in Addresses |->
                        IF memory[a] \in RefCounteds \ Referenced' THEN None
                        ELSE memory[a]]

new_object(o, a) ==
  /\ o \notin created /\ memory[a] = None
  /\ memory' = [memory EXCEPT ![a] = o]
  /\ created' = created \cup {o}
  /\ host_refs' = host_refs \cup ({o} \cap RefCounteds)
  /\ UNCHANGED <<level, scoped_objects, scoped_refs, arguments, restrictions,
                 given>>

drop_reference(o) ==
  /\ host_refs' = host_refs \ {o}
  /\ UNCHANGED <<created, level, scoped_objects, scoped_refs, arguments,
                 restrictions, given>>
  /\ Release

free_node(o) ==
  /\ o \in Alive
  /\ level = 0 \/ FreesInCalls
  /\ memory' = [memory EXCEPT ![AddressOf(o)] = None]
  /\ UNCHANGED <<created, host_refs, level, scoped_objects, scoped_refs,
                 arguments, restrictions, given>>

-----------------------------------------------------------------------------
(* What a handle denotes. *)

get_explicitly_allowed_object_Mutant(a) ==
  IF \E o \in DOMAIN allowed_objects : allowed_objects[o] = a
  THEN memory[a] ELSE None

(* The address is looked for among all entries, and the engine is asked    *)
(* whether the object of the entry still lives, and lives there.           *)
get_explicitly_allowed_object(a) ==
  IF \E o \in DOMAIN allowed_objects : allowed_objects[o] = a /\ memory[a] = o
  THEN memory[a] ELSE None

(* The object that the guest's handle a reaches from the call at level l;  *)
(* an entry without a binding gets the one of whatever is at the address.  *)
get_object_from_address(l, a) ==
  IF a \in DOMAIN scoped_objects[l]
  THEN IF scoped_objects[l][a] = None THEN memory[a] ELSE scoped_objects[l][a]
  ELSE get_explicitly_allowed_object(a)

unrestricted == DOMAIN allowed_objects = {} /\ callback = "none"

is_allowed_object(o) ==
  \/ unrestricted
  \/ o \in DOMAIN allowed_objects
  \/ callback = "asks" /\ o \in Approved

-----------------------------------------------------------------------------
(* Calls. *)

begin_call_Mutant(S) ==
  LET l == level + 1
  IN  /\ l < MaxLevel
      /\ S \subseteq Alive /\ Cardinality(S) <= MaxRefs
      /\ level' = l
      /\ scoped_objects' = [scoped_objects EXCEPT ![l] =
                              [a \in DOMAIN @ \cup {AddressOf(o) : o \in S} |->
                                 IF a \in DOMAIN @ THEN @[a] ELSE None]]
      /\ scoped_refs' = [scoped_refs EXCEPT ![l] = {}]
      /\ arguments' = [arguments EXCEPT ![l] = S \cap RefCounteds]
      /\ given' = [given EXCEPT ![l] =
                     [a \in {AddressOf(o) : o \in S} |-> memory[a]]]
      /\ UNCHANGED <<created, host_refs, restrictions>>
      /\ Release

(* The state of the new level is reset, and the arguments are scoped there *)
(* by their addresses only: the host's Variants keep the objects alive.    *)
begin_call(S) ==
  LET l == level + 1
  IN  /\ l < MaxLevel
      /\ S \subseteq Alive /\ Cardinality(S) <= MaxRefs
      /\ level' = l
      /\ scoped_objects' = [scoped_objects EXCEPT ![l] =
                              [a \in {AddressOf(o) : o \in S} |-> None]]
      /\ scoped_refs' = [scoped_refs EXCEPT ![l] = {}]
      /\ arguments' = [arguments EXCEPT ![l] = S \cap RefCounteds]
      /\ given' = [given EXCEPT ![l] =
                     [a \in {AddressOf(o) : o \in S} |-> memory[a]]]
      /\ UNCHANGED <<created, host_refs, restrictions>>
      /\ Release

(* The call returns or throws.  Its state is reset by the next call.       *)
end_call == /\ level > 0
            /\ level' = level - 1
            /\ arguments' = [arguments EXCEPT ![level] = {}]
            /\ given' = [given EXCEPT ![level] = Nothing]
            /\ UNCHANGED <<created, host_refs, scoped_objects, scoped_refs,
                           restrictions>>
            /\ Release

(* A program is loaded or reset; the allow list survives that.             *)
full_reset == /\ level = 0
              /\ scoped_objects' = [l \in Levels |-> Nothing]
              /\ scoped_refs' = [l \in Levels |-> {}]
              /\ UNCHANGED <<created, host_refs, level, arguments, restrictions,
                             given>>
              /\ Release

add_scoped_entry_Mutant(l, a, binding) ==
  scoped_objects' =
    [scoped_objects EXCEPT ![l] =
       IF a \in DOMAIN @ /\ @[a] # None THEN @ ELSE With(@, a, binding)]

add_scoped_entry(l, a, binding) ==
  /\ \/ a \in DOMAIN scoped_objects[l]
     \/ Cardinality(DOMAIN scoped_objects[l]) < MaxRefs
  /\ scoped_objects' =
       [scoped_objects EXCEPT ![l] =
          IF a \in DOMAIN @ /\ @[a] # None THEN @ ELSE With(@, a, binding)]

add_scoped_object_Mutant(o) ==
  /\ add_scoped_entry(level, AddressOf(o), o)
  /\ scoped_refs' = scoped_refs

(* A reference is taken with the entry, so not when there was one.         *)
add_scoped_object(o) ==
  /\ add_scoped_entry(level, AddressOf(o), o)
  /\ scoped_refs' = [scoped_refs EXCEPT ![level] =
                       IF AddressOf(o) \in DOMAIN scoped_objects[level] THEN @
                       ELSE @ \cup ({o} \cap RefCounteds)]

(* A system call gives the guest an object: in a Variant, or as a handle;  *)
(* nodes that it looks up by path or makes are not asked about.            *)
create(o) ==
  /\ level > 0
  /\ o \in Alive /\ (is_allowed_object(o) \/ o \in Nodes)
  /\ add_scoped_object(o)
  /\ given' = [given EXCEPT ![level] = With(@, AddressOf(o), o)]
  /\ UNCHANGED <<engine, level, arguments, restrictions>>

(* The guest uses a handle for the first time.                             *)
resolve_scoped_object(a) ==
  /\ level > 0 /\ a \in DOMAIN scoped_objects[level]
  /\ scoped_objects[level][a] = None
  /\ scoped_objects' = [scoped_objects EXCEPT ![level][a] = memory[a]]
  /\ UNCHANGED <<engine, level, scoped_refs, arguments, restrictions, given>>

-----------------------------------------------------------------------------
(* The host changes the restrictions.  A change that is not allowed during *)
(* a call prints an error and returns.                                     *)

is_in_vmcall == level # 0

Unaltered == UNCHANGED <<created, host_refs, level, scoped_objects, scoped_refs,
                         arguments, given>>

add_allowed_object(o) ==
  /\ ~is_in_vmcall /\ o \in Alive
  /\ allowed_objects' = With(allowed_objects, o, AddressOf(o))
  /\ allowed_refs' = allowed_refs \cup ({o} \cap RefCounteds)
  /\ UNCHANGED <<callback, memory>> /\ Unaltered

remove_allowed_object(o) ==
  /\ o \in Alive
  /\ ~is_in_vmcall \/ RemovesInCalls
  /\ allowed_objects' = Without(allowed_objects, o)
  /\ allowed_refs' = allowed_refs \ {o}
  /\ UNCHANGED callback /\ Unaltered /\ Release

clear_allowed_objects_Mutant ==
  /\ allowed_objects' = Nothing
  /\ allowed_refs' = {}
  /\ UNCHANGED callback /\ Unaltered /\ Release

clear_allowed_objects ==
  /\ ~is_in_vmcall
  /\ allowed_objects' = Nothing
  /\ allowed_refs' = {}
  /\ UNCHANGED callback /\ Unaltered /\ Release

set_object_allowed_callback(c) ==
  /\ ~is_in_vmcall
  /\ callback' = c
  /\ UNCHANGED <<allowed_objects, allowed_refs, memory>> /\ Unaltered

set_restrictions(enable) ==
  /\ enable \/ ~is_in_vmcall
  /\ callback' = IF ~enable THEN "none"
                 ELSE IF callback = "none" THEN "refuses" ELSE callback
  /\ UNCHANGED <<allowed_objects, allowed_refs, memory>> /\ Unaltered

HostStep ==
  \/ \E o \in Objects : \/ \E a \in Addresses : new_object(o, a)
                        \/ add_allowed_object(o)
                        \/ remove_allowed_object(o)
  \/ \E o \in host_refs : drop_reference(o)
  \/ \E o \in Nodes : free_node(o)
  \/ clear_allowed_objects
  \/ \E c \in {"none", "asks"} : set_object_allowed_callback(c)
  \/ \E enable \in BOOLEAN : set_restrictions(enable)

Next == \/ HostStep
        \/ \E S \in SUBSET Objects : begin_call(S)
        \/ end_call
        \/ full_reset
        \/ \E o \in Objects : create(o)
        \/ \E a \in Addresses : resolve_scoped_object(a)

Spec == Init /\ [][Next]_vars

-----------------------------------------------------------------------------
(* A handle reaches the object it was given for, for as long as that lives *)
(* and the call lasts; not one that was at the same address in an earlier  *)
(* call of the level.  Where nodes are freed during calls that is not so:  *)
(* no call of rem_scoped_object drops the entry of a node that is gone.    *)
HandlesDenoteTheirObjects ==
  \A l \in 1..level : \A a \in DOMAIN given[l] :
     memory[a] = given[l][a] => get_object_from_address(l, a) = given[l][a]

(* Every RefCounted object handed to a call lives until the call is over,  *)
(* whatever becomes of the references of the host and of nested calls; not *)
(* so at the address of a node that was freed during the call.             *)
CountedHandlesStayAlive ==
  \A l \in 1..level : \A a \in DOMAIN given[l] :
     given[l][a] \in RefCounteds => memory[a] = given[l][a]

(* A RefCounted object does not die while it is on the allow list.         *)
AllowedObjectsStayAlive == DOMAIN allowed_objects \cap RefCounteds \subseteq Alive

(* The allow list opens an address exactly while an allowed object lives   *)
(* there, also when its address was that of another allowed object, and a  *)
(* RefCounted object that is allowed lives.                                *)
AllowListIsExact ==
  /\ \A a \in Addresses :
       get_explicitly_allowed_object(a) =
         IF memory[a] \in DOMAIN allowed_objects THEN memory[a] ELSE None
  /\ AllowedObjectsStayAlive

(* A Sandbox that is restricted when a call is in progress stays so.       *)
RestrictionsAreNotLifted ==
  [][ level > 0 /\ ~unrestricted => ~unrestricted' ]_vars
=============================================================================
