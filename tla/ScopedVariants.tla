--------------------------- MODULE ScopedVariants ---------------------------
(***************************************************************************)
(* The Variants a guest refers to by index (sandbox.cpp, the scoped        *)
(* Variants).  Every call state has `owned`, a vector of Variants it owns, *)
(* and `slots`, a vector of pointers: to an argument of the host, or into  *)
(* its own `owned`.  An index the guest holds is a position in slots: from *)
(* 0 in the state of the call, from -1 downwards in the permanent state at *)
(* level 0, whose Variants outlive the call.  The pointers are only good   *)
(* while the vector is not reallocated.                                    *)
(*                                                                         *)
(* The guest is modelled by what it remembers: the value it was given or   *)
(* stored under each index it holds, in this call (held) or in its globals *)
(* (kept).  It makes system calls with those indices only.  Values stand   *)
(* for Variants that need an index (strings, arrays, ...).                 *)
(***************************************************************************)
EXTENDS Integers, Sequences

CONSTANTS
  MaxStates,         \* MAX_LEVEL: the call states, by their levels
  Values,            \* the contents of Variants
  Nil,               \* what a Variant holds after it was moved from
  Junk,              \* what freed memory holds
  HostArguments,     \* argument lists the host passes
  ReferencesMax,     \* values references_max is given
  DefaultMaxRefs,    \* MAX_REFS
  KeepsOverflow      \* does the guest keep what it gets when no room is left

CallStates == 0..(MaxStates - 1)

ASSUME VariantsAssumption ==
  /\ MaxStates \in Nat /\ MaxStates >= 2
  /\ HostArguments \subseteq Seq(Values)
  /\ DefaultMaxRefs \in ReferencesMax /\ ReferencesMax \subseteq Nat
  /\ Nil \notin Values /\ Junk \notin Values
  /\ KeepsOverflow \in BOOLEAN

VARIABLES
  current,    \* m_current_state, as a level
  main_runs,    \* is main() of the program in progress
  owned,      \* m_states[l].variants
  capacity,   \* m_states[l].variants.capacity(): only grows, and tells the
              \* storage of a vector from its earlier one
  slots,      \* m_states[l].scoped_variants
  max_refs,   \* m_max_refs
  args,       \* the host's arguments of the call at each level
  held,       \* history: what the call at each level knows by an index
  kept        \* history: what the program keeps in its globals

variants_vars == <<current, main_runs, owned, capacity, slots, max_refs, args, held, kept>>

NoIndices == [i \in {} |-> Nil]
WithIndex(f, i, v) == [j \in DOMAIN f \cup {i} |-> IF j = i THEN v ELSE f[j]]
WithoutIndex(f, i) == [j \in DOMAIN f \ {i} |-> f[j]]

VariantsInit ==
  /\ current = 0 /\ main_runs = FALSE
  /\ owned = [l \in CallStates |-> <<>>]
  /\ capacity = [l \in CallStates |-> DefaultMaxRefs]
  /\ slots = [l \in CallStates |-> <<>>]
  /\ max_refs = DefaultMaxRefs
  /\ args = [l \in CallStates |-> <<>>]
  /\ held = [l \in CallStates |-> NoIndices] /\ kept = NoIndices

-----------------------------------------------------------------------------
(* Looking an index up. *)

is_permanent_variant(i) == i < 0

(* Definitions named ..._Mutant are the next definition with a plausible   *)
(* mistake in it; no other definition uses them.                           *)
StateOf_Mutant(l, i) == l

StateOf(l, i) == IF is_permanent_variant(i) THEN 0 ELSE l
PositionOf(i) == IF is_permanent_variant(i) THEN -i ELSE i + 1
IsScoped(l, i) == PositionOf(i) <= Len(slots[StateOf(l, i)])

get_scoped_variant(l, i) ==
  LET s == StateOf(l, i)
      p == slots[s][PositionOf(i)]
  IN  IF ~IsScoped(l, i) THEN Junk
      ELSE IF ~p.owned THEN args[s][p.pos]
      ELSE IF p.storage = capacity[s] THEN owned[s][p.pos] ELSE Junk

is_mutable_variant_Mutant(s, p) == TRUE

(* The address is inside the vector of the state. *)
is_mutable_variant(s, p) == p.owned /\ p.storage = capacity[s]

(* The index of the slot pushed last. *)
IndexOf(l, n) == IF l = 0 THEN -n ELSE n - 1

Owning(l, n) == [owned |-> TRUE, storage |-> capacity[l], pos |-> n]

(* append() points a new slot at the Variant it appends to owned. *)
PushSlot(l) ==
  slots' = [slots EXCEPT ![l] = Append(@, Owning(l, Len(owned[l]) + 1))]

(* Write through a pointer of state s. *)
Write(s, p, v) == IF p.owned
                  THEN owned' = [owned EXCEPT ![s][p.pos] = v] /\ args' = args
                  ELSE args' = [args EXCEPT ![s][p.pos] = v] /\ owned' = owned

Remember(i, v) ==
  IF is_permanent_variant(i)
  THEN kept' = WithIndex(kept, i, v) /\ held' = held
  ELSE held' = [held EXCEPT ![current] = WithIndex(@, i, v)] /\ kept' = kept

-----------------------------------------------------------------------------
(* Programs and calls. *)

(* full_reset and load: every state is emptied, main() runs at level 0.    *)
(* A load during main() is in SandboxCalls.                                *)
load_main ==
  /\ current = 0 /\ ~main_runs
  /\ main_runs' = TRUE
  /\ owned' = [l \in CallStates |-> <<>>]
  /\ slots' = [l \in CallStates |-> <<>>]
  /\ capacity' = [l \in CallStates |->
                    IF max_refs > capacity[l] THEN max_refs ELSE capacity[l]]
  /\ held' = [l \in CallStates |-> NoIndices] /\ kept' = NoIndices
  /\ UNCHANGED <<current, max_refs, args>>

main_returns ==
  /\ current = 0 /\ main_runs
  /\ main_runs' = FALSE
  /\ UNCHANGED <<current, owned, capacity, slots, max_refs, args, held, kept>>

(* vmcall_internal resets the state of the new level, and setup_arguments  *)
(* scopes the arguments there (add_scoped_variant), which throws when      *)
(* there are more than fit.                                                *)
vmcall_begins(a) ==
  LET l == current + 1
  IN  /\ l < MaxStates
      /\ Len(a) <= capacity[l]
      /\ current' = l
      /\ owned' = [owned EXCEPT ![l] = <<>>]
      /\ slots' = [slots EXCEPT ![l] = [n \in 1..Len(a) |->
                     [owned |-> FALSE, storage |-> 0, pos |-> n]]]
      /\ args' = [args EXCEPT ![l] = a]
      /\ held' = [held EXCEPT ![l] = [i \in 0..(Len(a) - 1) |-> a[i + 1]]]
      /\ UNCHANGED <<main_runs, capacity, max_refs, kept>>

(* The call returns or throws; its caller goes on.                         *)
vmcall_ends == /\ current > 0
            /\ current' = current - 1
            /\ args' = [args EXCEPT ![current] = <<>>]
            /\ held' = [held EXCEPT ![current] = NoIndices]
            /\ UNCHANGED <<main_runs, owned, capacity, slots, max_refs, kept>>

(* Outside a call the vectors reserve room for n, which moves them if they *)
(* grow; in a call there is only an error message.                         *)
set_max_refs(n) ==
  /\ max_refs' = n
  /\ capacity' = IF current = 0
                 THEN [l \in CallStates |-> IF n > capacity[l] THEN n ELSE capacity[l]]
                 ELSE capacity
  /\ UNCHANGED <<current, main_runs, owned, slots, args, held, kept>>

-----------------------------------------------------------------------------
(* System calls of guest code.  One that throws ends the call.             *)

create_scoped_variant_Mutant(v) ==
  /\ owned' = [owned EXCEPT ![current] = Append(@, v)]
  /\ PushSlot(current)
  /\ Remember(IndexOf(current, Len(slots[current]) + 1), v)
  /\ UNCHANGED <<current, main_runs, capacity, max_refs, args>>

create_scoped_variant(v) ==
  /\ Len(slots[current]) < capacity[current]
  /\ owned' = [owned EXCEPT ![current] = Append(@, v)]
  /\ PushSlot(current)
  /\ Remember(IndexOf(current, Len(slots[current]) + 1), v)
  /\ UNCHANGED <<current, main_runs, capacity, max_refs, args>>

(* vclone into a new Variant. *)
clone(i) == create_scoped_variant(get_scoped_variant(current, i))

(* vstore, vassign and the arithmetic system calls: write to the Variant   *)
(* under the index if the guest owns it, otherwise make a new one.         *)
try_reuse_assign_variant(i, v) ==
  LET s == StateOf(current, i)
      p == slots[s][PositionOf(i)]
  IN  \/ /\ is_permanent_variant(i)                \* assign_permanent_variant
         /\ PositionOf(i) <= Len(owned[0])
         /\ owned' = [owned EXCEPT ![0][PositionOf(i)] = v]
         /\ Remember(i, v)
         /\ UNCHANGED <<current, main_runs, capacity, slots, max_refs, args>>
      \/ /\ ~is_permanent_variant(i)
         /\ IsScoped(current, i) /\ is_mutable_variant(s, p)
         /\ Write(s, p, v)
         /\ Remember(i, v)
         /\ UNCHANGED <<current, main_runs, capacity, slots, max_refs>>
      \/ /\ ~is_permanent_variant(i)
         /\ ~(IsScoped(current, i) /\ is_mutable_variant(s, p))
         /\ create_scoped_variant(v)

(* String append and the like: change the Variant in place, after copying  *)
(* it into the state if it is the host's.                                  *)
get_mutable_scoped_variant(i, v) ==
  LET s == StateOf(current, i)
      p == slots[s][PositionOf(i)]
      n == Len(owned[s]) + 1
  IN  /\ IsScoped(current, i)
      /\ \/ /\ is_mutable_variant(s, p)
            /\ Write(s, p, v)
            /\ UNCHANGED slots
         \/ /\ ~is_mutable_variant(s, p)
            /\ Len(owned[s]) < capacity[s]
            /\ owned' = [owned EXCEPT ![s] = Append(@, v)]
            /\ slots' = [slots EXCEPT ![s][PositionOf(i)] = Owning(s, n)]
            /\ UNCHANGED args
      /\ Remember(i, v)
      /\ UNCHANGED <<current, main_runs, capacity, max_refs>>

(* vclone into permanent storage: move the Variant there, or duplicate it  *)
(* if it is the host's.  With no room left the guest gets its old index.   *)
create_permanent_variant(i) ==
  LET p == slots[current][PositionOf(i)]
      n == Len(owned[0]) + 1
      v == get_scoped_variant(current, i)
      moves == is_mutable_variant(current, p)
  IN  /\ ~is_permanent_variant(i) /\ IsScoped(current, i)
      /\ \/ /\ Len(owned[0]) < capacity[0]
            /\ owned' = [owned EXCEPT ![current] =
                                        IF moves /\ p.owned
                                        THEN [@ EXCEPT ![p.pos] = Nil] ELSE @,
                                      ![0] = Append(@, v)]
            /\ args' = [args EXCEPT ![current] =
                                      IF moves /\ ~p.owned
                                      THEN [@ EXCEPT ![p.pos] = Nil] ELSE @]
            /\ PushSlot(0)
            /\ kept' = WithIndex(kept, -n, v)
            /\ held' = IF moves THEN [held EXCEPT ![current] = WithoutIndex(@, i)] ELSE held
         \/ /\ Len(owned[0]) >= capacity[0]
            /\ kept' = IF KeepsOverflow THEN WithIndex(kept, i, v) ELSE kept
            /\ UNCHANGED <<owned, slots, args, held>>
      /\ UNCHANGED <<current, main_runs, capacity, max_refs>>

guest_runs == main_runs \/ current > 0

GuestStep ==
  /\ guest_runs
  /\ \/ \E v \in Values : create_scoped_variant(v)
     \/ \E i \in DOMAIN held[current] \cup DOMAIN kept :
          \/ clone(i)
          \/ create_permanent_variant(i)
          \/ \E v \in Values : \/ try_reuse_assign_variant(i, v)
                               \/ get_mutable_scoped_variant(i, v)

VariantsNext == \/ load_main
        \/ main_returns
        \/ \E a \in HostArguments : vmcall_begins(a)
        \/ vmcall_ends
        \/ \E n \in ReferencesMax : set_max_refs(n)
        \/ GuestStep

VariantsSpec == VariantsInit /\ [][VariantsNext]_variants_vars

-----------------------------------------------------------------------------
(* Every index a call holds denotes what the guest last stored under it,   *)
(* also while nested calls run, copies are made of what is the host's, and *)
(* what the program keeps in its globals it finds in every later call.     *)
IndicesMeanWhatWasStored ==
  /\ \A l \in 1..current : \A i \in DOMAIN held[l] :
       get_scoped_variant(l, i) = held[l][i]
  /\ guest_runs => \A i \in DOMAIN kept : get_scoped_variant(current, i) = kept[i]

(* No system call of the guest changes a Variant of the host.              *)
HostArgumentsAreReadOnly ==
  [][ \A l \in 1..MaxStates : l <= current /\ l <= current' => args'[l] = args[l] ]_variants_vars

(* A vector never outgrows the storage it reserved, so that no pointer     *)
(* into it moves; and permanent indices are positions in both vectors of   *)
(* the permanent state, which assign_permanent_variant and                 *)
(* create_permanent_variant rely on.                                       *)
StorageFits ==
  /\ \A l \in CallStates : Len(owned[l]) <= Len(slots[l]) /\ Len(slots[l]) <= capacity[l]
  /\ Len(slots[0]) = Len(owned[0])
  /\ \A n \in 1..Len(slots[0]) : slots[0][n].owned /\ slots[0][n].pos = n
=============================================================================
