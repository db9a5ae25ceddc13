------------------------- MODULE SandboxProperties -------------------------
(***************************************************************************)
(* The sandboxed properties of a program (sandbox.cpp, vmproperty.h): how  *)
(* main() and the properties array add them, how they are read and         *)
(* written, and how set_program() carries their values over to another     *)
(* program.  A property has a getter and a setter in the guest, calls that *)
(* may fail on their own account, or it is a Variant in guest memory.      *)
(*                                                                         *)
(* A variable of the guest holds a value; Held values (strings, arrays)    *)
(* lie in slots of the host, and a Variant in guest memory whose slot went *)
(* with its call is Gone.                                                  *)
(***************************************************************************)
EXTENDS Naturals, Sequences, SequencesExt

CONSTANTS
  Releases,          \* what may be loaded: accepted, by_main and by_table,
                     \* the properties added by main() and those of the array
  NotLoaded,         \* no program
  PropertyNames,
  Clashing,          \* the names that begin with one of a Sandbox's own
  BuiltIn,           \* the Sandbox's own properties that may be set
  Inline, Held,      \* values in guest memory, values in slots
  Null, Gone,        \* Variant(), and what a stale index leads to
  MaxProperties,     \* MAX_PROPERTIES
  MaxSlots,          \* m_max_refs
  AccessorsSetProperties   \* do getters and setters reach code of the host
                     \* that sets properties of the program

NamesOf(props) == {props[i].name : i \in DOMAIN props}
PropertyOf(props, n) == props[CHOOSE i \in DOMAIN props : props[i].name = n]

ASSUME PropertiesAssumption ==
  /\ MaxProperties \in Nat /\ MaxSlots \in Nat
  /\ AccessorsSetProperties \in BOOLEAN
  /\ BuiltIn \subseteq Clashing     \* a name begins with itself
  /\ \A b \in Releases : \A list \in {b.by_main, b.by_table} :
       list \in Seq(ToSet(list)) /\ NamesOf(list) \subseteq PropertyNames

Given == Inline \cup Held

VARIABLES
  release,           \* m_program_data or m_program_bytes
  m_properties,
  memory_of,         \* the guest: what each property's variable holds
  permanent_slots,   \* permanent slots in use
  own,               \* the Sandbox's own properties
  carrying,          \* the set_program() in progress: its stage, program,
                     \* properties and property_values
  before,            \* history: the properties and variables there were
  disturbed          \* history: the properties an accessor failed for, or
                     \* that the host set after loading

guest_side == <<memory_of, permanent_slots>>
property_vars == <<release, m_properties, guest_side, own, carrying, before, disturbed>>

AtRest == [stage |-> "none", to |-> NotLoaded, old |-> <<>>, property_values |-> <<>>]
NoVariables == [n \in PropertyNames |-> Null]
NothingBefore == [properties |-> <<>>, memory |-> NoVariables]

PropertiesInit ==
  /\ release = NotLoaded /\ m_properties = <<>>
  /\ memory_of = NoVariables /\ permanent_slots = 0
  /\ own \in [BuiltIn -> {CHOOSE v \in Inline : TRUE}]
  /\ carrying = AtRest /\ disturbed = {}
  /\ before = NothingBefore

-----------------------------------------------------------------------------
(* Loading. *)

(* The names that are taken, and the limit; access is how it is reached.   *)
Added(props, p, access) ==
  IF \/ Len(props) >= MaxProperties
     \/ p.name \in Clashing
     \/ p.name \in NamesOf(props)
  THEN props
  ELSE Append(props, [name |-> p.name, type |-> p.type, access |-> access])

(* The two overloads: a property without a setter is refused like one      *)
(* without a getter.                                                       *)
add_property(props, p) ==
  IF {"setter", "getter"} \subseteq p.has THEN Added(props, p, "functions") ELSE props
add_variable(props, p) ==
  IF "address" \in p.has THEN Added(props, p, "variable") ELSE props

(* A system call of main().                                                *)
api_sandbox_add(props, p) ==
  IF p.has \cap {"setter", "getter"} = {} THEN add_variable(props, p)
  ELSE add_property(props, p)

(* What the system calls of main() add, the first k of them. *)
added_by_main(list, k) ==
  LET added[i \in 0..Len(list)] ==
        IF i = 0 THEN <<>> ELSE api_sandbox_add(added[i - 1], list[i])
  IN  added[k]

read_program_properties(props, table) ==
  LET added[i \in 0..Len(table)] ==
        IF i = 0 THEN props ELSE add_property(added[i - 1], table[i])
  IN  added[Len(table)]

(* main() may fail after any of them; the array is read either way.         *)
loaded_properties(b, k) == read_program_properties(added_by_main(b.by_main, k), b.by_table)

Defaults(b) ==
  LET all == b.by_main \o b.by_table
  IN  [n \in PropertyNames |-> IF n \in NamesOf(all) THEN PropertyOf(all, n).default
                               ELSE Null]

(* full_reset() and load(); a file that is refused leaves no program.       *)
load_release(b) ==
  /\ release' = b /\ permanent_slots' = 0
  /\ IF b # NotLoaded /\ b.accepted
     THEN /\ \E k \in 0..Len(b.by_main) : m_properties' = loaded_properties(b, k)
          /\ memory_of' = Defaults(b)
     ELSE m_properties' = <<>> /\ memory_of' = NoVariables

-----------------------------------------------------------------------------
(* Reading and writing. *)

(* A getter that fails gives Variant(); it has changed nothing.            *)
Reads(p) == IF p.access = "functions" THEN {memory_of[p.name], Null}
            ELSE {memory_of[p.name]}

(* A setter that fails may have stored the value already.  A Variant of    *)
(* the guest takes a permanent slot for a held value, and with no slot     *)
(* left nothing catches what is thrown.                                    *)
SandboxProperty_set(p, v, in_call) ==
  \/ /\ p.access = "functions"
     /\ memory_of' = [memory_of EXCEPT ![p.name] = v] /\ UNCHANGED permanent_slots
  \/ /\ p.access = "functions" /\ UNCHANGED guest_side
  \/ /\ p.access = "variable" /\ v \notin Held
     /\ memory_of' = [memory_of EXCEPT ![p.name] = v] /\ UNCHANGED permanent_slots
  \/ /\ p.access = "variable" /\ v \in Held /\ ~in_call /\ permanent_slots < MaxSlots
     /\ memory_of' = [memory_of EXCEPT ![p.name] = v] /\ permanent_slots' = permanent_slots + 1
  \/ /\ p.access = "variable" /\ v \in Held /\ in_call
     /\ memory_of' = [memory_of EXCEPT ![p.name] = Gone] /\ UNCHANGED permanent_slots

(* A property of the program comes before one of the Sandbox. *)
set_sandbox_property(n, v, in_call) ==
  IF n \in NamesOf(m_properties)
  THEN /\ SandboxProperty_set(PropertyOf(m_properties, n), v, in_call)
       /\ UNCHANGED own
  ELSE /\ n \in BuiltIn /\ v \in Inline
       /\ own' = [own EXCEPT ![n] = v]
       /\ UNCHANGED guest_side

(* What get_property() may answer, if it knows the name. *)
get_sandbox_property(n) ==
  IF n \in NamesOf(m_properties) THEN Reads(PropertyOf(m_properties, n))
  ELSE IF n \in BuiltIn THEN {own[n]} ELSE {}

-----------------------------------------------------------------------------
(* The host. *)

set_by_host(n, v) ==
  /\ carrying = AtRest
  /\ set_sandbox_property(n, v, FALSE)
  /\ UNCHANGED <<release, m_properties, carrying, before, disturbed>>

(* From a call of the guest that reaches the host, which ends after it. *)
set_in_call(n, v) ==
  /\ carrying = AtRest
  /\ set_sandbox_property(n, v, TRUE)
  /\ UNCHANGED <<release, m_properties, carrying, before, disturbed>>

(* From an accessor set_program() is calling.  What the host sets before    *)
(* the other program is loaded is the newest value there is.               *)
set_in_accessor(n, v) ==
  /\ carrying.stage \in {"reading", "writing"}
  /\ n \in BuiltIn \/ AccessorsSetProperties
  /\ set_sandbox_property(n, v, TRUE)
  /\ before' = IF carrying.stage = "reading" /\ n \in PropertyNames
               THEN [before EXCEPT !.memory[n] = memory_of'[n]] ELSE before
  /\ disturbed' = IF carrying.stage = "writing" THEN disturbed \cup {n} ELSE disturbed
  /\ UNCHANGED <<release, m_properties, carrying>>

load_bytes(b) ==
  /\ carrying = AtRest
  /\ load_release(b)
  /\ UNCHANGED <<own, carrying, before, disturbed>>

unload == load_bytes(NotLoaded)

-----------------------------------------------------------------------------
(* set_program(): another program, a new version, or the same again by     *)
(* reset().                                                                *)

begin_set_program(b) ==
  /\ carrying = AtRest
  /\ carrying' = [AtRest EXCEPT !.stage = "reading", !.to = b, !.old = m_properties]
  /\ before' = [properties |-> m_properties, memory |-> memory_of]
  /\ disturbed' = {}
  /\ UNCHANGED <<release, m_properties, guest_side, own>>

Reading == Len(carrying.property_values) + 1

read_property ==
  /\ carrying.stage = "reading" /\ Reading <= Len(carrying.old)
  /\ LET n == carrying.old[Reading].name
     IN  \E v \in get_sandbox_property(n) :
           /\ v # Gone
           /\ carrying' = [carrying EXCEPT !.property_values = Append(@, v)]
           /\ disturbed' = disturbed \cup (IF v = before.memory[n] THEN {} ELSE {n})
  /\ UNCHANGED <<release, m_properties, guest_side, own, before>>

load_carrying ==
  /\ carrying.stage = "reading" /\ Reading > Len(carrying.old)
  /\ load_release(carrying.to)
  /\ carrying' = [carrying EXCEPT !.stage = "writing",
                                  !.old = IF carrying.to = NotLoaded THEN <<>> ELSE @]
  /\ UNCHANGED <<own, before, disturbed>>

Matches_Mutant(props, p) == p.name \in NamesOf(props)

Matches(props, p) == \E i \in DOMAIN props : props[i].name = p.name /\ props[i].type = p.type

(* The first of the old properties that is left; a property the program    *)
(* has no longer, or has with another type, is dropped.                    *)
write_property ==
  /\ carrying.stage = "writing" /\ carrying.old # <<>>
  /\ LET p == Head(carrying.old)  v == Head(carrying.property_values)
     IN  IF Matches(m_properties, p)
         THEN /\ set_sandbox_property(p.name, v, FALSE)
              /\ disturbed' = disturbed \cup (IF memory_of'[p.name] = v THEN {} ELSE {p.name})
         ELSE UNCHANGED <<guest_side, own, disturbed>>
  /\ carrying' = [carrying EXCEPT !.old = Tail(@), !.property_values = Tail(@)]
  /\ UNCHANGED <<release, m_properties, before>>

end_set_program ==
  /\ carrying.stage = "writing" /\ carrying.old = <<>>
  /\ carrying' = AtRest /\ before' = NothingBefore /\ disturbed' = {}
  /\ UNCHANGED <<release, m_properties, guest_side, own>>

PropertiesNext ==
  \/ \E n \in PropertyNames \cup BuiltIn, v \in Given :
       set_by_host(n, v) \/ set_in_call(n, v) \/ set_in_accessor(n, v)
  \/ \E b \in Releases : load_bytes(b) \/ begin_set_program(b)
  \/ unload \/ begin_set_program(NotLoaded)
  \/ read_property \/ load_carrying \/ write_property \/ end_set_program

PropertiesSpec == PropertiesInit /\ [][PropertiesNext]_property_vars

-----------------------------------------------------------------------------
(* After set_program() a property that both programs have with one type    *)
(* has the value it had before, and the others start as their program      *)
(* says, save those that an accessor failed for:                           *)
(* "Restore Sandboxed properties by comparing the new program's properties *)
(* with the old ones, then comparing the type" (sandbox.cpp:473).          *)
PropertiesAreKept ==
  (carrying.stage = "writing" /\ carrying.old = <<>>) =>
    \A i \in DOMAIN m_properties :
      LET p == m_properties[i]
      IN  \/ p.name \in disturbed
          \/ memory_of[p.name] = IF \E q \in ToSet(before.properties) :
                                        q.name = p.name /\ q.type = p.type
                                 THEN before.memory[p.name]
                                 ELSE Defaults(release)[p.name]
=============================================================================
