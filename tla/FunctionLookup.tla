--------------------------- MODULE FunctionLookup ---------------------------
(***************************************************************************)
(* How the host finds a guest function by name (sandbox.cpp, the cached    *)
(* addresses).  A name means what the program last published under it, or  *)
(* else what the symbol table says.  The answer, a miss included, is kept  *)
(* in three places: m_lookup under the hash of the name, m_sname_lookup    *)
(* under the StringName, and m_name_addresses, a small direct-mapped table *)
(* under the address of the String's buffer.                               *)
(*                                                                         *)
(* A String is a counted reference to a buffer of the engine, which is     *)
(* copied when it is changed while someone else refers to it, and freed    *)
(* and used again after its last reference.  A StringName is interned, its *)
(* map keeps it so, and it is modelled by the name.                        *)
(***************************************************************************)
EXTENDS Naturals, FiniteSets

CONSTANTS
  Names,            \* names of functions
  Addresses,        \* addresses of guest functions
  NoFunction,       \* address 0, and no entry
  Hashes, Hash,     \* String.hash()
  Buffers,          \* buffers of the engine's Strings
  Slots, SlotOf,    \* the slots of m_name_addresses, and which a buffer has
  MaxFunctions,     \* MAX_PUBLIC_FUNCTIONS
  LooksUpInMain     \* does a system call of main() reach code of the host

ASSUME LookupAssumption ==
  /\ NoFunction \notin Addresses \cup Names \cup Buffers
  /\ IsFiniteSet(Names)
  /\ Hash \in [Names -> Hashes] /\ SlotOf \in [Buffers -> Slots]
  /\ MaxFunctions \in Nat
  /\ LooksUpInMain \in BOOLEAN

VARIABLES
  has_program,      \* is the machine another than dummy_machine
  in_main,          \* is main() of the program in progress
  symbols,          \* the symbol table of the program
  published,        \* history: what the program has published under a name
  m_public_api_functions,   \* the names of the public functions
  m_lookup, m_sname_lookup, m_name_addresses,
  content,          \* the engine: the name each buffer spells
  strings           \* the buffers the host refers to

caches == <<m_lookup, m_sname_lookup, m_name_addresses>>
program == <<has_program, in_main, symbols, published, m_public_api_functions>>
lookup_vars == <<program, caches, content, strings>>

Tables == [Names -> Addresses \cup {NoFunction}]
Empty == [n \in {} |-> NoFunction]
With(f, x, v) == [y \in DOMAIN f \cup {x} |-> IF y = x THEN v ELSE f[y]]
(* The functions that know some of the names. *)
Partial == UNION {[S -> Addresses] : S \in SUBSET Names}
NoEntry == [buffer |-> NoFunction, address |-> NoFunction]
NoSymbols == [n \in Names |-> NoFunction]

LookupInit == /\ has_program = FALSE /\ in_main = FALSE
        /\ symbols = NoSymbols /\ published = Empty
        /\ m_public_api_functions = {}
        /\ m_lookup = Empty /\ m_sname_lookup = Empty
        /\ m_name_addresses = [s \in Slots |-> NoEntry]
        /\ content = [b \in Buffers |-> NoFunction]
        /\ strings = {}

-----------------------------------------------------------------------------
(* Strings of the host. *)

CachedBuffers(entries) == {entries[s].buffer : s \in Slots} \ {NoFunction}

(* Buffers that neither the host nor the given entries refer to are freed. *)
FreeUnused(refs, entries) ==
  content' = [b \in Buffers |->
                IF b \in refs \cup CachedBuffers(entries) THEN content[b]
                ELSE NoFunction]

new_string(b, n) ==
  /\ content[b] = NoFunction
  /\ content' = [content EXCEPT ![b] = n]
  /\ strings' = strings \cup {b}
  /\ UNCHANGED <<program, caches>>

drop_string(b) ==
  /\ strings' = strings \ {b}
  /\ FreeUnused(strings', m_name_addresses)
  /\ UNCHANGED <<program, caches>>

(* A String is changed in place only when nobody else refers to its buffer.*)
change_string(b, n) ==
  /\ b \notin CachedBuffers(m_name_addresses)
  /\ content' = [content EXCEPT ![b] = n]
  /\ UNCHANGED <<program, caches, strings>>

-----------------------------------------------------------------------------
(* Looking up.  Each lookup gives an address and leaves it in its caches.  *)

by_hash(n) == IF Hash[n] \in DOMAIN m_lookup THEN m_lookup[Hash[n]].address
              ELSE symbols[n]

KeepHash(n) == m_lookup' = IF Hash[n] \in DOMAIN m_lookup \/ ~has_program THEN m_lookup
                           ELSE With(m_lookup, Hash[n], [name |-> n,
                                                         address |-> symbols[n]])

by_name(n) == IF n \in DOMAIN m_sname_lookup THEN m_sname_lookup[n] ELSE by_hash(n)

Hit(b) == m_name_addresses[SlotOf[b]].buffer = b
by_string(b) == IF Hit(b) THEN m_name_addresses[SlotOf[b]].address
                ELSE by_hash(content[b])

CanLookUp == ~in_main \/ LooksUpInMain

(* vmcallable(), address_of(): a String that is not kept. *)
cached_address_of(n) ==
  /\ CanLookUp
  /\ KeepHash(n)
  /\ UNCHANGED <<program, m_sname_lookup, m_name_addresses, content, strings>>

(* vmcall_fn(), has_function(), and vmcall() with a StringName. *)
cached_address_of_name(n) ==
  /\ CanLookUp
  /\ n \notin DOMAIN m_sname_lookup
  /\ KeepHash(n)
  /\ m_sname_lookup' = With(m_sname_lookup, n, by_hash(n))
  /\ UNCHANGED <<program, m_name_addresses, content, strings>>

(* vmcall() with a String.  What the slot referred to is released. *)
cached_address_of_variant(b) ==
  /\ CanLookUp
  /\ b \in strings /\ ~Hit(b)
  /\ KeepHash(content[b])
  /\ m_name_addresses' = [m_name_addresses EXCEPT ![SlotOf[b]] =
                            [buffer |-> b, address |-> by_hash(content[b])]]
  /\ FreeUnused(strings, m_name_addresses')
  /\ UNCHANGED <<program, m_sname_lookup, strings>>

-----------------------------------------------------------------------------
(* Programs. *)

(* Definitions named ..._Mutant are the next definition with a plausible   *)
(* mistake in it; no other definition uses them.                           *)
full_reset_Mutant ==
  /\ m_lookup' = Empty /\ m_sname_lookup' = Empty
  /\ m_name_addresses' = [s \in Slots |-> NoEntry]
  /\ m_public_api_functions' = m_public_api_functions /\ published' = Empty
  /\ FreeUnused(strings, m_name_addresses')
  /\ UNCHANGED strings

full_reset == /\ m_lookup' = Empty /\ m_sname_lookup' = Empty
              /\ m_name_addresses' = [s \in Slots |-> NoEntry]
              /\ m_public_api_functions' = {} /\ published' = Empty
              /\ FreeUnused(strings, m_name_addresses')
              /\ UNCHANGED strings

load_program(table) ==
  /\ ~in_main
  /\ full_reset
  /\ has_program' = TRUE /\ in_main' = TRUE /\ symbols' = table

(* Unloaded, or the new program was refused. *)
unload_program ==
  /\ ~in_main
  /\ full_reset
  /\ has_program' = FALSE /\ in_main' = FALSE /\ symbols' = NoSymbols

(* Somebody may have looked for the name and kept the miss, so everything  *)
(* that could hold one is dropped.                                         *)
add_cached_address_Mutant(n, a) ==
  /\ m_lookup' = With(m_lookup, Hash[n], [name |-> n, address |-> a])
  /\ m_sname_lookup' = With(m_sname_lookup, n, a)
  /\ published' = With(published, n, a)
  /\ UNCHANGED <<m_name_addresses, content>>

add_cached_address(n, a) ==
  /\ m_lookup' = With(m_lookup, Hash[n], [name |-> n, address |-> a])
  /\ m_sname_lookup' = Empty
  /\ m_name_addresses' = [s \in Slots |-> NoEntry]
  /\ published' = With(published, n, a)
  /\ FreeUnused(strings, m_name_addresses')

(* A public function; one of the same name is replaced.  With no room for  *)
(* another the system call throws, and main() is over.                     *)
add_public_api_function(n, a) ==
  /\ in_main
  /\ Cardinality(m_public_api_functions \ {n}) < MaxFunctions
  /\ m_public_api_functions' = m_public_api_functions \cup {n}
  /\ add_cached_address(n, a)
  /\ UNCHANGED <<has_program, in_main, symbols, strings>>

(* The accessors of a property, or a function whose signature cannot be    *)
(* read.                                                                   *)
add_unlisted(n, a) ==
  /\ in_main
  /\ add_cached_address(n, a)
  /\ UNCHANGED <<has_program, in_main, symbols, m_public_api_functions, strings>>

(* main() is over.  A program that published no function is given those    *)
(* the script resource has (of another Sandbox that ran the program).      *)
main_ends(functions) ==
  /\ in_main /\ in_main' = FALSE
  /\ \/ /\ m_public_api_functions = {}
        /\ m_public_api_functions' = DOMAIN functions
        /\ published' = [n \in DOMAIN published \cup DOMAIN functions |->
             IF n \in DOMAIN functions THEN functions[n] ELSE published[n]]
        /\ m_lookup' =
             [h \in DOMAIN m_lookup \cup {Hash[n] : n \in DOMAIN functions} |->
                IF \E n \in DOMAIN functions : Hash[n] = h
                THEN LET n == CHOOSE n \in DOMAIN functions : Hash[n] = h
                     IN  [name |-> n, address |-> functions[n]]
                ELSE m_lookup[h]]
     \/ /\ m_public_api_functions # {}
        /\ UNCHANGED <<m_public_api_functions, published, m_lookup>>
  /\ UNCHANGED <<has_program, symbols, m_sname_lookup, m_name_addresses, content, strings>>

Adoptable == {f \in Partial : Cardinality(DOMAIN f) <= MaxFunctions}

LookupNext ==
  \/ \E table \in Tables : load_program(table)
  \/ unload_program
  \/ \E n \in Names, a \in Addresses : \/ add_public_api_function(n, a)
                                       \/ add_unlisted(n, a)
  \/ \E f \in Adoptable : main_ends(f)
  \/ \E n \in Names : cached_address_of(n) \/ cached_address_of_name(n)
  \/ \E b \in Buffers : cached_address_of_variant(b)
  \/ \E b \in Buffers, n \in Names : new_string(b, n)
  \/ \E b \in strings : \/ drop_string(b)
                        \/ \E n \in Names : change_string(b, n)

LookupSpec == LookupInit /\ [][LookupNext]_lookup_vars

-----------------------------------------------------------------------------
(* What a name means now. *)
Meaning(n) == IF n \in DOMAIN published THEN published[n] ELSE symbols[n]

(* Whatever was looked up before, under whichever kind of name, whatever   *)
(* was loaded and published since, and whichever Strings came to lie where *)
(* others had been: a lookup finds the function the name means now.        *)
NamesResolve ==
  /\ \A n \in Names : by_hash(n) = Meaning(n) /\ by_name(n) = Meaning(n)
  /\ \A b \in strings : by_string(b) = Meaning(content[b])

(* A public function can be found by its name, and there are no more than  *)
(* there is room for; an unloaded Sandbox has none, and finds none.        *)
PublicFunctionsAreFound ==
  /\ Cardinality(m_public_api_functions) <= MaxFunctions
  /\ \A n \in m_public_api_functions : by_name(n) # NoFunction
  /\ ~has_program => \A n \in Names : by_name(n) = NoFunction
=============================================================================
