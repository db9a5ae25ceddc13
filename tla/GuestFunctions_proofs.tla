------------------------- MODULE GuestFunctions_proofs -------------------------
(* Theorems about FunctionLookup, for every set of names, addresses, slots  *)
(* and Strings, if no two names have the same hash and main() reaches no    *)
(* code of the host; and about CallArguments, for all lists of arguments,   *)
(* if no function of more than seven arguments writes its result early.     *)
EXTENDS FunctionLookup, CallArguments, FiniteSetTheorems, SequenceTheorems,
        WellFoundedInduction, TLAPS

-----------------------------------------------------------------------------
(* Looking functions up.                                                    *)

HashesDiffer == \A m, n \in Names : Hash[m] = Hash[n] => m = n

Entries == [buffer : Buffers \cup {NoFunction}, address : Addresses \cup {NoFunction}]

Typed ==
  /\ symbols \in Tables /\ strings \subseteq Buffers
  /\ content \in [Buffers -> Names \cup {NoFunction}]
  /\ m_name_addresses \in [Slots -> Entries]
  /\ DOMAIN published \subseteq Names
  /\ \A n \in DOMAIN published : published[n] \in Addresses

(* Who refers to a buffer keeps it: it is not freed and used again.         *)
Spelled == \A b \in strings \cup CachedBuffers(m_name_addresses) : content[b] \in Names

(* What each cache keeps is what the name means, and a published name is    *)
(* always in the first of them, so that no symbol is taken for it.          *)
KeptByHash ==
  /\ \A n \in Names : Hash[n] \in DOMAIN m_lookup => m_lookup[Hash[n]].address = Meaning(n)
  /\ \A n \in DOMAIN published : Hash[n] \in DOMAIN m_lookup

KeptByName ==
  \A n \in Names : n \in DOMAIN m_sname_lookup => m_sname_lookup[n] = Meaning(n)

KeptByString ==
  \A s \in Slots : LET entry == m_name_addresses[s]
                   IN  entry.buffer # NoFunction => entry.address = Meaning(content[entry.buffer])

(* While main() runs nothing is looked up, so that the functions adopted at *)
(* its end, which are written to the first cache only, are in no other.     *)
NothingLookedUp ==
  in_main => m_sname_lookup = Empty /\ m_name_addresses = [s \in Slots |-> NoEntry]

Exact == KeptByHash /\ KeptByName /\ KeptByString /\ NothingLookedUp

Emptied == ~has_program => ~in_main /\ published = Empty /\ symbols = NoSymbols

Listed ==
  /\ m_public_api_functions \subseteq DOMAIN published
  /\ Cardinality(m_public_api_functions) <= MaxFunctions

LookupInv == Typed /\ Spelled /\ Exact /\ Emptied /\ Listed

LEMMA FoundByHash ==
  ASSUME Typed, KeptByHash, NEW n \in Names
  PROVE  by_hash(n) = Meaning(n)
BY DEF KeptByHash, by_hash, Meaning

LEMMA MeaningTyped ==
  ASSUME Typed, NEW n \in Names
  PROVE  Meaning(n) \in Addresses \cup {NoFunction}
BY DEF Typed, Meaning, Tables

LEMMA InitExact == LookupInit => LookupInv
<1> SUFFICES ASSUME LookupInit PROVE LookupInv
  OBVIOUS
<1>1. Typed
  BY DEF LookupInit, Typed, NoSymbols, Tables, Empty, Entries, NoEntry
<1>2. Spelled
  BY DEF LookupInit, Spelled, CachedBuffers, NoEntry
<1>3. Exact
  BY DEF LookupInit, Exact, KeptByHash, KeptByName, KeptByString, NothingLookedUp, Empty, NoEntry
<1>4. Emptied
  BY DEF LookupInit, Emptied
<1>5. Listed
  BY FS_EmptySet, LookupAssumption DEF LookupInit, Listed
<1> QED BY <1>1, <1>2, <1>3, <1>4, <1>5 DEF LookupInv

(* Freeing the unused buffers leaves those in use alone.                    *)
LEMMA FreeUnusedKeeps ==
  ASSUME Typed, NEW refs \in SUBSET Buffers, NEW entries, FreeUnused(refs, entries)
  PROVE  /\ content' \in [Buffers -> Names \cup {NoFunction}]
         /\ \A b \in Buffers : b \in refs \cup CachedBuffers(entries) => content'[b] = content[b]
BY DEF Typed, FreeUnused

LEMMA CachedAreBuffers ==
  ASSUME NEW entries \in [Slots -> Entries]
  PROVE  CachedBuffers(entries) \subseteq Buffers
BY DEF CachedBuffers, Entries

(* A reset empties everything at once.                                      *)
LEMMA ResetExact ==
  ASSUME LookupInv, full_reset, symbols' \in Tables,
         ~has_program' => ~in_main' /\ symbols' = NoSymbols
  PROVE  LookupInv'
<1>1. /\ m_lookup' = Empty /\ m_sname_lookup' = Empty /\ published' = Empty
      /\ m_name_addresses' = [s \in Slots |-> NoEntry]
      /\ m_public_api_functions' = {} /\ strings' = strings
      /\ FreeUnused(strings, m_name_addresses')
  BY DEF full_reset
<1>2. CachedBuffers(m_name_addresses') = {}
  BY <1>1 DEF CachedBuffers, NoEntry
<1>3. strings \in SUBSET Buffers /\ Typed
  BY DEF LookupInv, Typed
<1>4. /\ content' \in [Buffers -> Names \cup {NoFunction}]
      /\ \A b \in strings : content'[b] = content[b]
  BY <1>1, <1>3, FreeUnusedKeeps
<1>5. Typed'
  BY <1>1, <1>3, <1>4 DEF Typed, Empty, Entries, NoEntry
<1>6. Spelled'
  BY <1>1, <1>2, <1>4 DEF LookupInv, Spelled
<1>7. Exact'
  BY <1>1 DEF Exact, KeptByHash, KeptByName, KeptByString, NothingLookedUp, Empty, NoEntry
<1>8. Emptied'
  BY <1>1 DEF Emptied
<1>9. Listed'
  BY <1>1, FS_EmptySet, LookupAssumption DEF Listed
<1> QED BY <1>5, <1>6, <1>7, <1>8, <1>9 DEF LookupInv

(* Publishing a name reaches every cache that could hold its old meaning.   *)
LEMMA PublishExact ==
  ASSUME HashesDiffer, LookupInv, NEW n \in Names, NEW a \in Addresses,
         in_main, add_cached_address(n, a), UNCHANGED <<has_program, in_main, symbols, strings>>
  PROVE  /\ Typed' /\ Spelled' /\ Exact' /\ Emptied'
         /\ DOMAIN published' = DOMAIN published \cup {n}
<1>1. /\ m_lookup' = With(m_lookup, Hash[n], [name |-> n, address |-> a])
      /\ m_sname_lookup' = Empty
      /\ m_name_addresses' = [s \in Slots |-> NoEntry]
      /\ published' = With(published, n, a)
      /\ FreeUnused(strings, m_name_addresses')
      /\ symbols' = symbols /\ strings' = strings
  BY DEF add_cached_address
<1>2. CachedBuffers(m_name_addresses') = {}
  BY <1>1 DEF CachedBuffers, NoEntry
<1>3. strings \in SUBSET Buffers /\ Typed
  BY DEF LookupInv, Typed
<1>4. /\ content' \in [Buffers -> Names \cup {NoFunction}]
      /\ \A b \in strings : content'[b] = content[b]
  BY <1>1, <1>3, FreeUnusedKeeps
<1>5. /\ DOMAIN published' = DOMAIN published \cup {n}
      /\ published'[n] = a
      /\ \A m \in DOMAIN published : m # n => published'[m] = published[m]
  BY <1>1 DEF With
<1>6. Typed'
  BY <1>1, <1>3, <1>4, <1>5 DEF Typed, Entries, NoEntry
<1>7. Spelled'
  BY <1>1, <1>2, <1>4 DEF LookupInv, Spelled
<1>8. /\ Meaning(n)' = a
      /\ \A m \in Names : m # n => Meaning(m)' = Meaning(m)
  BY <1>1, <1>5 DEF Meaning
<1>9. /\ DOMAIN m_lookup' = DOMAIN m_lookup \cup {Hash[n]}
      /\ m_lookup'[Hash[n]].address = a
      /\ \A h \in DOMAIN m_lookup : h # Hash[n] => m_lookup'[h] = m_lookup[h]
  BY <1>1 DEF With
<1>10. KeptByHash'
  <2>1. ASSUME NEW m \in Names, Hash[m] \in DOMAIN m_lookup'
        PROVE  m_lookup'[Hash[m]].address = Meaning(m)'
    <3>1. CASE m = n
      BY <1>8, <1>9, <3>1
    <3>2. CASE m # n
      BY <1>8, <1>9, <2>1, <3>2 DEF HashesDiffer, LookupInv, Exact, KeptByHash
    <3> QED BY <3>1, <3>2
  <2>2. \A m \in DOMAIN published' : Hash[m] \in DOMAIN m_lookup'
    BY <1>5, <1>9 DEF LookupInv, Exact, KeptByHash
  <2> QED BY <2>1, <2>2 DEF KeptByHash
<1>11. KeptByName' /\ KeptByString' /\ NothingLookedUp'
  BY <1>1 DEF KeptByName, KeptByString, NothingLookedUp, Empty, NoEntry
<1>12. Emptied'
  BY DEF LookupInv, Emptied
<1> QED BY <1>5, <1>6, <1>7, <1>10, <1>11, <1>12 DEF Exact

(* A lookup that finds no entry keeps what the symbol table says, which is  *)
(* what the name means, as a published name has an entry.                   *)
LEMMA KeepHashExact ==
  ASSUME HashesDiffer, Typed, KeptByHash, NEW n \in Names, KeepHash(n),
         symbols' = symbols, published' = published
  PROVE  KeptByHash' /\ \A m \in Names : Meaning(m)' = Meaning(m)
<1>1. \A m \in Names : Meaning(m)' = Meaning(m)
  BY DEF Meaning
<1>2. CASE m_lookup' = m_lookup
  BY <1>1, <1>2 DEF KeptByHash
<1>3. CASE /\ Hash[n] \notin DOMAIN m_lookup
           /\ m_lookup' = With(m_lookup, Hash[n], [name |-> n, address |-> symbols[n]])
  <2>1. /\ DOMAIN m_lookup' = DOMAIN m_lookup \cup {Hash[n]}
        /\ m_lookup'[Hash[n]].address = symbols[n]
        /\ \A h \in DOMAIN m_lookup : m_lookup'[h] = m_lookup[h]
    BY <1>3 DEF With
  <2>2. Meaning(n) = symbols[n]
    BY <1>3 DEF KeptByHash, Meaning
  <2>3. ASSUME NEW m \in Names, Hash[m] \in DOMAIN m_lookup'
        PROVE  m_lookup'[Hash[m]].address = Meaning(m)'
    <3>1. CASE Hash[m] = Hash[n]
      BY <1>1, <2>1, <2>2, <3>1 DEF HashesDiffer
    <3>2. CASE Hash[m] # Hash[n]
      BY <1>1, <2>1, <2>3, <3>2 DEF KeptByHash
    <3> QED BY <3>1, <3>2
  <2>4. \A m \in DOMAIN published' : Hash[m] \in DOMAIN m_lookup'
    BY <2>1 DEF KeptByHash
  <2> QED BY <1>1, <2>3, <2>4 DEF KeptByHash
<1> QED BY <1>1, <1>2, <1>3 DEF KeepHash

LEMMA LookupsExact ==
  ASSUME HashesDiffer, ~LooksUpInMain, LookupInv,
         \/ \E n \in Names : cached_address_of(n) \/ cached_address_of_name(n)
         \/ \E b \in Buffers : cached_address_of_variant(b)
  PROVE  LookupInv'
<1>0. Typed /\ Spelled /\ Exact /\ Emptied /\ Listed
  BY DEF LookupInv
<1>1. /\ ~in_main /\ in_main' = in_main /\ has_program' = has_program
      /\ symbols' = symbols /\ published' = published
      /\ m_public_api_functions' = m_public_api_functions /\ strings' = strings
  BY DEF CanLookUp, cached_address_of, cached_address_of_name, cached_address_of_variant, program
<1>2. Emptied' /\ Listed' /\ NothingLookedUp'
  BY <1>0, <1>1 DEF Emptied, Listed, NothingLookedUp
<1>3. ASSUME NEW n \in Names, KeepHash(n)
      PROVE  KeptByHash' /\ \A m \in Names : Meaning(m)' = Meaning(m)
  BY <1>0, <1>1, <1>3, KeepHashExact DEF Exact
<1>4. ASSUME NEW n \in Names, cached_address_of(n) PROVE LookupInv'
  <2>1. /\ KeepHash(n) /\ m_sname_lookup' = m_sname_lookup
        /\ m_name_addresses' = m_name_addresses /\ content' = content
    BY <1>4 DEF cached_address_of
  <2>2. Typed' /\ Spelled'
    BY <1>0, <1>1, <2>1 DEF Typed, Spelled, CachedBuffers
  <2>3. KeptByName'
    BY <1>0, <1>3, <2>1 DEF Exact, KeptByName
  <2>4. KeptByString'
    <3> SUFFICES ASSUME NEW s \in Slots, m_name_addresses[s].buffer # NoFunction
                 PROVE  m_name_addresses[s].address = Meaning(content[m_name_addresses[s].buffer])'
      BY <2>1 DEF KeptByString
    <3>1. content[m_name_addresses[s].buffer] \in Names
      BY <1>0 DEF Spelled, CachedBuffers
    <3> QED BY <1>0, <1>3, <2>1, <3>1 DEF Exact, KeptByString
  <2> QED BY <1>2, <1>3, <2>1, <2>2, <2>3, <2>4 DEF LookupInv, Exact
<1>5. ASSUME NEW n \in Names, cached_address_of_name(n) PROVE LookupInv'
  <2>1. /\ KeepHash(n) /\ m_sname_lookup' = With(m_sname_lookup, n, by_hash(n))
        /\ m_name_addresses' = m_name_addresses /\ content' = content
    BY <1>5 DEF cached_address_of_name
  <2>2. Typed' /\ Spelled'
    BY <1>0, <1>1, <2>1 DEF Typed, Spelled, CachedBuffers
  <2>3. KeptByName'
    BY <1>0, <1>3, <2>1, FoundByHash DEF Exact, KeptByName, With
  <2>4. KeptByString'
    <3> SUFFICES ASSUME NEW s \in Slots, m_name_addresses[s].buffer # NoFunction
                 PROVE  m_name_addresses[s].address = Meaning(content[m_name_addresses[s].buffer])'
      BY <2>1 DEF KeptByString
    <3>1. content[m_name_addresses[s].buffer] \in Names
      BY <1>0 DEF Spelled, CachedBuffers
    <3> QED BY <1>0, <1>3, <2>1, <3>1 DEF Exact, KeptByString
  <2> QED BY <1>2, <1>3, <2>1, <2>2, <2>3, <2>4 DEF LookupInv, Exact
<1>6. ASSUME NEW b \in Buffers, cached_address_of_variant(b) PROVE LookupInv'
  <2> DEFINE n == content[b]
             entry == [buffer |-> b, address |-> by_hash(n)]
  <2>1. /\ b \in strings /\ KeepHash(n) /\ m_sname_lookup' = m_sname_lookup
        /\ m_name_addresses' = [m_name_addresses EXCEPT ![SlotOf[b]] = entry]
        /\ FreeUnused(strings, m_name_addresses')
    BY <1>6 DEF cached_address_of_variant
  <2>2. n \in Names
    BY <1>0, <2>1 DEF Spelled
  <2>3. by_hash(n) = Meaning(n) /\ entry \in Entries
    BY <1>0, <2>2, FoundByHash, MeaningTyped DEF Exact, Entries
  <2>4. /\ m_name_addresses' \in [Slots -> Entries]
        /\ \A s \in Slots : m_name_addresses'[s] \in {m_name_addresses[s], entry}
    BY <1>0, <2>1, <2>3, LookupAssumption DEF Typed
  <2>5. /\ content' \in [Buffers -> Names \cup {NoFunction}]
        /\ \A c \in Buffers : c \in strings \cup CachedBuffers(m_name_addresses') =>
             content'[c] = content[c]
    <3>1. strings \in SUBSET Buffers
      BY <1>0 DEF Typed
    <3> QED BY <1>0, <2>1, <3>1, FreeUnusedKeeps
  <2>6. \A c \in strings \cup CachedBuffers(m_name_addresses') :
          c \in Buffers /\ content'[c] = content[c] /\ content[c] \in Names
    <3>1. CachedBuffers(m_name_addresses') \subseteq CachedBuffers(m_name_addresses) \cup {b}
      BY <2>4 DEF CachedBuffers
    <3>2. CachedBuffers(m_name_addresses') \subseteq Buffers
      BY <2>4, CachedAreBuffers
    <3> QED BY <1>0, <2>2, <2>5, <3>1, <3>2 DEF Spelled, Typed
  <2>7. Typed' /\ Spelled'
    BY <1>0, <1>1, <2>4, <2>5, <2>6 DEF Typed, Spelled
  <2>8. KeptByName'
    BY <1>0, <1>3, <2>1, <2>2 DEF Exact, KeptByName
  <2>9. KeptByString'
    <3> SUFFICES ASSUME NEW s \in Slots, m_name_addresses'[s].buffer # NoFunction
                 PROVE  m_name_addresses'[s].address = Meaning(content[m_name_addresses[s].buffer])'
      BY DEF KeptByString
    <3>1. m_name_addresses'[s].buffer \in CachedBuffers(m_name_addresses')
      BY DEF CachedBuffers
    <3>2. /\ content'[m_name_addresses'[s].buffer] = content[m_name_addresses'[s].buffer]
          /\ content[m_name_addresses'[s].buffer] \in Names
      BY <2>6, <3>1
    <3>3. m_name_addresses'[s].address = Meaning(content[m_name_addresses'[s].buffer])
      BY <1>0, <2>3, <2>4 DEF Exact, KeptByString
    <3> QED BY <1>3, <2>1, <2>2, <3>2, <3>3
  <2> QED BY <1>2, <1>3, <2>1, <2>2, <2>7, <2>8, <2>9 DEF LookupInv, Exact
<1> QED BY <1>4, <1>5, <1>6

(* Strings come, go and change, but the buffers the caches know are theirs. *)
LEMMA StringsExact ==
  ASSUME LookupInv,
         \/ \E b \in Buffers, n \in Names : new_string(b, n)
         \/ \E b \in strings : drop_string(b) \/ \E n \in Names : change_string(b, n)
  PROVE  LookupInv'
<1>0. Typed /\ Spelled /\ Exact /\ Emptied /\ Listed
  BY DEF LookupInv
<1>1. UNCHANGED <<program, caches>>
  BY DEF new_string, drop_string, change_string
<1> DEFINE Undisturbed ==
             /\ content' \in [Buffers -> Names \cup {NoFunction}] /\ strings' \subseteq Buffers
             /\ \A b \in strings' : content'[b] \in Names
             /\ \A b \in CachedBuffers(m_name_addresses) : content'[b] = content[b]
<1>2. Undisturbed
  <2>0. CachedBuffers(m_name_addresses) \subseteq Buffers /\ strings \subseteq Buffers
    BY <1>0, CachedAreBuffers DEF Typed
  <2>1. ASSUME NEW b \in Buffers, NEW n \in Names, new_string(b, n)
        PROVE  Undisturbed
    <3>1. b \notin CachedBuffers(m_name_addresses)
      BY <1>0, <2>1, LookupAssumption DEF new_string, Spelled
    <3> QED BY <1>0, <2>0, <2>1, <3>1 DEF new_string, Typed, Spelled
  <2>2. ASSUME NEW b \in strings, drop_string(b) PROVE Undisturbed
    <3>1. strings' \in SUBSET Buffers /\ strings' \subseteq strings
      BY <2>0, <2>2 DEF drop_string
    <3>2. FreeUnused(strings', m_name_addresses)
      BY <2>2 DEF drop_string
    <3>3. /\ content' \in [Buffers -> Names \cup {NoFunction}]
          /\ \A c \in Buffers : c \in strings' \cup CachedBuffers(m_name_addresses) =>
               content'[c] = content[c]
      BY <1>0, <3>1, <3>2, FreeUnusedKeeps
    <3> QED BY <1>0, <2>0, <3>1, <3>3 DEF Spelled
  <2>3. ASSUME NEW b \in strings, NEW n \in Names, change_string(b, n) PROVE Undisturbed
    BY <1>0, <2>0, <2>3 DEF change_string, Typed, Spelled
  <2> QED BY <2>1, <2>2, <2>3
<1>3. /\ symbols' = symbols /\ published' = published /\ in_main' = in_main
      /\ has_program' = has_program /\ m_public_api_functions' = m_public_api_functions
      /\ m_lookup' = m_lookup /\ m_sname_lookup' = m_sname_lookup
      /\ m_name_addresses' = m_name_addresses
  BY <1>1 DEF program, caches
<1>4. Typed' /\ Spelled'
  BY <1>0, <1>2, <1>3 DEF Typed, Spelled, CachedBuffers
<1>5. \A n \in Names : Meaning(n)' = Meaning(n)
  BY <1>3 DEF Meaning
<1>6. KeptByHash' /\ KeptByName' /\ NothingLookedUp' /\ Emptied' /\ Listed'
  BY <1>0, <1>3, <1>5 DEF Exact, KeptByHash, KeptByName, NothingLookedUp, Emptied, Listed
<1>7. KeptByString'
  <2> SUFFICES ASSUME NEW s \in Slots, m_name_addresses[s].buffer # NoFunction
               PROVE  m_name_addresses[s].address = Meaning(content[m_name_addresses[s].buffer])'
    BY <1>3 DEF KeptByString
  <2>1. m_name_addresses[s].buffer \in CachedBuffers(m_name_addresses)
    BY DEF CachedBuffers
  <2>2. /\ content'[m_name_addresses[s].buffer] = content[m_name_addresses[s].buffer]
        /\ content[m_name_addresses[s].buffer] \in Names
    BY <1>0, <1>2, <2>1 DEF Spelled
  <2>3. m_name_addresses[s].address = Meaning(content[m_name_addresses[s].buffer])
    BY <1>0 DEF Exact, KeptByString
  <2> QED BY <1>3, <1>5, <2>2, <2>3
<1> QED BY <1>4, <1>6, <1>7 DEF LookupInv, Exact

(* The functions adopted at the end of main().                              *)
LEMMA MainEndsExact ==
  ASSUME HashesDiffer, LookupInv, NEW functions \in Adoptable, main_ends(functions)
  PROVE  LookupInv'
<1>0. Typed /\ Spelled /\ Exact /\ Emptied /\ Listed
  BY DEF LookupInv
<1>1. /\ in_main /\ ~in_main' /\ has_program' = has_program /\ symbols' = symbols
      /\ m_sname_lookup' = Empty /\ m_sname_lookup = Empty
      /\ m_name_addresses' = [s \in Slots |-> NoEntry] /\ m_name_addresses' = m_name_addresses
      /\ content' = content /\ strings' = strings
  BY <1>0 DEF main_ends, Exact, NothingLookedUp
<1>2. Spelled' /\ KeptByName' /\ KeptByString' /\ NothingLookedUp' /\ Emptied'
  BY <1>0, <1>1 DEF Spelled, CachedBuffers, KeptByName, KeptByString, NothingLookedUp, Emptied,
     Empty, NoEntry
<1>3. CASE UNCHANGED <<m_public_api_functions, published, m_lookup>>
  <2>1. \A n \in Names : Meaning(n)' = Meaning(n)
    BY <1>1, <1>3 DEF Meaning
  <2> QED BY <1>0, <1>1, <1>2, <1>3, <2>1 DEF LookupInv, Typed, Exact, KeptByHash, Listed
<1>4. CASE m_public_api_functions = {}
           /\ ~UNCHANGED <<m_public_api_functions, published, m_lookup>>
  <2> DEFINE added == DOMAIN functions
  <2>1. /\ added \subseteq Names /\ Cardinality(added) <= MaxFunctions
        /\ \A n \in added : functions[n] \in Addresses
    BY DEF Adoptable, Partial
  <2>2. /\ m_public_api_functions' = added
        /\ published' = [n \in DOMAIN published \cup added |->
             IF n \in added THEN functions[n] ELSE published[n]]
        /\ m_lookup' =
             [h \in DOMAIN m_lookup \cup {Hash[n] : n \in added} |->
                IF \E n \in added : Hash[n] = h
                THEN LET n == CHOOSE n \in added : Hash[n] = h
                     IN  [name |-> n, address |-> functions[n]]
                ELSE m_lookup[h]]
    BY <1>4 DEF main_ends
  <2>3. /\ DOMAIN published' = DOMAIN published \cup added
        /\ \A n \in Names : Meaning(n)' = IF n \in added THEN functions[n] ELSE Meaning(n)
    BY <1>1, <2>2 DEF Meaning
  <2>4. Typed'
    BY <1>0, <1>1, <2>1, <2>2, <2>3 DEF Typed
  <2>5. ASSUME NEW n \in Names, Hash[n] \in DOMAIN m_lookup'
        PROVE  m_lookup'[Hash[n]].address = Meaning(n)'
    <3>1. CASE n \in added
      <4>1. (CHOOSE m \in added : Hash[m] = Hash[n]) = n
        BY <2>1, <3>1 DEF HashesDiffer
      <4>2. m_lookup'[Hash[n]] = [name |-> n, address |-> functions[n]]
        BY <2>2, <3>1, <4>1
      <4> QED BY <2>3, <3>1, <4>2
    <3>2. CASE n \notin added
      <4>1. ~\E m \in added : Hash[m] = Hash[n]
        BY <2>1, <3>2 DEF HashesDiffer
      <4>2. Hash[n] \in DOMAIN m_lookup /\ m_lookup'[Hash[n]] = m_lookup[Hash[n]]
        BY <2>2, <2>5, <4>1
      <4> QED BY <1>0, <2>3, <3>2, <4>2 DEF Exact, KeptByHash
    <3> QED BY <3>1, <3>2
  <2>6. \A n \in DOMAIN published' : Hash[n] \in DOMAIN m_lookup'
    BY <1>0, <2>2, <2>3 DEF Exact, KeptByHash
  <2>7. KeptByHash'
    BY <2>5, <2>6 DEF KeptByHash
  <2>8. Listed'
    BY <2>1, <2>2, <2>3 DEF Listed
  <2> QED BY <1>2, <2>4, <2>7, <2>8 DEF LookupInv, Exact
<1> QED BY <1>3, <1>4 DEF main_ends

LEMMA ListedGrows ==
  ASSUME LookupInv, NEW n \in Names, NEW a \in Addresses,
         add_public_api_function(n, a), DOMAIN published' = DOMAIN published \cup {n}
  PROVE  Listed'
<1> DEFINE others == m_public_api_functions \ {n}
<1>1. /\ m_public_api_functions' = others \cup {n} /\ Cardinality(others) < MaxFunctions
  BY DEF add_public_api_function
<1>2. IsFiniteSet(others)
  <2>1. others \subseteq Names
    BY DEF LookupInv, Listed, Typed
  <2> QED BY <2>1, FS_Subset, LookupAssumption
<1>3. Cardinality(others) \in Nat /\ Cardinality(others \cup {n}) = Cardinality(others) + 1
  BY <1>2, FS_AddElement, FS_CardinalityType
<1>4. m_public_api_functions' \subseteq DOMAIN published'
  BY <1>1 DEF LookupInv, Listed
<1> QED BY <1>1, <1>3, <1>4, LookupAssumption DEF Listed

LEMMA LookupInvStep ==
  ASSUME HashesDiffer, ~LooksUpInMain, LookupInv, [LookupNext]_lookup_vars
  PROVE  LookupInv'
<1>1. ASSUME NEW table \in Tables, load_program(table) PROVE LookupInv'
  BY <1>1, ResetExact DEF load_program
<1>2. ASSUME unload_program PROVE LookupInv'
  <2>1. NoSymbols \in Tables
    BY DEF NoSymbols, Tables
  <2> QED BY <1>2, <2>1, ResetExact DEF unload_program
<1>3. ASSUME NEW n \in Names, NEW a \in Addresses, add_public_api_function(n, a)
      PROVE  LookupInv'
  <2>1. /\ in_main /\ add_cached_address(n, a)
        /\ UNCHANGED <<has_program, in_main, symbols, strings>>
    BY <1>3 DEF add_public_api_function
  <2>2. /\ Typed' /\ Spelled' /\ Exact' /\ Emptied'
        /\ DOMAIN published' = DOMAIN published \cup {n}
    BY <2>1, PublishExact
  <2> QED BY <1>3, <2>2, ListedGrows DEF LookupInv
<1>4. ASSUME NEW n \in Names, NEW a \in Addresses, add_unlisted(n, a) PROVE LookupInv'
  <2>1. /\ in_main /\ add_cached_address(n, a)
        /\ UNCHANGED <<has_program, in_main, symbols, strings>>
        /\ m_public_api_functions' = m_public_api_functions
    BY <1>4 DEF add_unlisted
  <2>2. /\ Typed' /\ Spelled' /\ Exact' /\ Emptied'
        /\ DOMAIN published' = DOMAIN published \cup {n}
    BY <2>1, PublishExact
  <2> QED BY <2>1, <2>2 DEF LookupInv, Listed
<1>5. ASSUME NEW f \in Adoptable, main_ends(f) PROVE LookupInv'
  BY <1>5, MainEndsExact
<1>6. CASE \/ \E n \in Names : cached_address_of(n) \/ cached_address_of_name(n)
           \/ \E b \in Buffers : cached_address_of_variant(b)
  BY <1>6, LookupsExact
<1>7. CASE \/ \E b \in Buffers, n \in Names : new_string(b, n)
           \/ \E b \in strings : drop_string(b) \/ \E n \in Names : change_string(b, n)
  BY <1>7, StringsExact
<1>8. CASE UNCHANGED lookup_vars
  BY <1>8 DEF lookup_vars, program, caches, LookupInv, Typed, Spelled, CachedBuffers, Exact,
     KeptByHash, KeptByName, KeptByString, NothingLookedUp, Emptied, Listed, Meaning
<1> QED BY <1>1, <1>2, <1>3, <1>4, <1>5, <1>6, <1>7, <1>8 DEF LookupNext

LEMMA LookupInvAlways ==
  ASSUME HashesDiffer, ~LooksUpInMain PROVE LookupSpec => []LookupInv
<1>1. LookupInv /\ [LookupNext]_lookup_vars => LookupInv'
  BY LookupInvStep
<1> QED BY <1>1, InitExact, PTL DEF LookupSpec

(* A lookup finds what the name means now, whichever of the three caches    *)
(* answers it: a publication or a reset reaches every entry that could be   *)
(* out of date, and a buffer an entry is found by is not used again.        *)
THEOREM NamesAlwaysResolve ==
  ASSUME HashesDiffer, ~LooksUpInMain PROVE LookupSpec => []NamesResolve
<1>1. LookupInv => NamesResolve
  <2> SUFFICES ASSUME LookupInv PROVE NamesResolve
    OBVIOUS
  <2>0. Typed /\ Spelled /\ Exact
    BY DEF LookupInv
  <2>1. ASSUME NEW n \in Names PROVE by_hash(n) = Meaning(n) /\ by_name(n) = Meaning(n)
    BY <2>0, FoundByHash DEF Exact, KeptByName, by_name
  <2>2. ASSUME NEW b \in strings PROVE by_string(b) = Meaning(content[b])
    <3>1. b \in Buffers /\ content[b] \in Names /\ b # NoFunction /\ SlotOf[b] \in Slots
      BY <2>0, LookupAssumption DEF Typed, Spelled
    <3> QED BY <2>0, <2>1, <3>1 DEF Exact, KeptByString, by_string, Hit
  <2> QED BY <2>1, <2>2 DEF NamesResolve
<1> QED BY <1>1, LookupInvAlways, PTL

(* A public function is found, there are no more than there is room for,    *)
(* and an unloaded Sandbox finds nothing.                                   *)
THEOREM PublicFunctionsAreAlwaysFound ==
  ASSUME HashesDiffer, ~LooksUpInMain PROVE LookupSpec => []PublicFunctionsAreFound
<1>1. LookupInv => PublicFunctionsAreFound
  <2> SUFFICES ASSUME LookupInv PROVE PublicFunctionsAreFound
    OBVIOUS
  <2>0. Typed /\ Exact /\ Emptied /\ Listed
    BY DEF LookupInv
  <2>1. ASSUME NEW n \in Names PROVE by_name(n) = Meaning(n)
    BY <2>0, FoundByHash DEF Exact, KeptByName, by_name
  <2>2. ASSUME NEW n \in m_public_api_functions PROVE by_name(n) # NoFunction
    <3>1. n \in DOMAIN published /\ n \in Names /\ published[n] \in Addresses
      BY <2>0 DEF Listed, Typed
    <3> QED BY <2>1, <3>1, LookupAssumption DEF Meaning
  <2>3. ASSUME ~has_program, NEW n \in Names PROVE by_name(n) = NoFunction
    BY <2>0, <2>1, <2>3 DEF Emptied, Meaning, Empty, NoSymbols
  <2> QED BY <2>0, <2>2, <2>3 DEF PublicFunctionsAreFound, Listed
<1> QED BY <1>1, LookupInvAlways, PTL

-----------------------------------------------------------------------------
(* Counting and recursion.                                                  *)

LEMMA CountedUp ==
  ASSUME NEW N \in Nat, NEW S, 0 \in S, \A i \in 0..N - 1 : i \in S => i + 1 \in S
  PROVE  \A i \in 0..N : i \in S
<1> DEFINE missing == {i \in 0..N : i \notin S}
<1>1. SUFFICES ASSUME missing # {} PROVE FALSE
  OBVIOUS
<1>2. missing \subseteq Nat
  OBVIOUS
<1> HIDE DEF missing
<1>3. PICK first \in missing : \A i \in missing : <<i, first>> \notin OpToRel(<, Nat)
  BY <1>1, <1>2, NatLessThanWellFounded, WFMin
<1>4. \A i \in missing : ~(i < first)
  BY <1>2, <1>3 DEF OpToRel
<1>5. first \in 0..N /\ first \notin S /\ first # 0
  BY <1>3 DEF missing
<1>6. first - 1 \in 0..N - 1 /\ (first - 1) + 1 = first /\ first - 1 \in 0..N
  BY <1>5
<1>7. first - 1 \in S
  <2>1. first - 1 \notin missing
    BY <1>4, <1>5, <1>6
  <2> QED BY <1>6, <2>1 DEF missing
<1> QED BY <1>5, <1>6, <1>7

(* A loop of N rounds, each of which makes of a value in V another one.     *)
StaysIn(V, N, g) == \A v \in V : \A i \in 1..N : g[<<v, i>>] \in V
Loop(f, V, N, a, g) ==
  /\ f \in [0..N -> V] /\ f[0] = a
  /\ \A i \in 1..N : f[i] = g[<<f[i - 1], i>>]

LEMMA LoopRuns ==
  ASSUME NEW N \in Nat, NEW V, NEW a \in V, NEW g, StaysIn(V, N, g)
  PROVE  \E f : Loop(f, V, N, a, g)
<1> DEFINE Upto(f, n) == f[0] = a /\ \A i \in 1..n : f[i] = g[<<f[i - 1], i>>]
           S == {n \in 0..N : \E f \in [0..n -> V] : Upto(f, n)}
<1>1. 0 \in S
  <2> DEFINE f == [i \in 0..0 |-> a]
  <2>1. f \in [0..0 -> V] /\ Upto(f, 0)
    OBVIOUS
  <2>2. 0 \in 0..N
    OBVIOUS
  <2> HIDE DEF Upto, f
  <2>3. \E h \in [0..0 -> V] : Upto(h, 0)
    BY <2>1, Zenon
  <2> QED BY <2>2, <2>3
<1>2. ASSUME NEW n \in 0..N - 1, n \in S PROVE n + 1 \in S
  <2>1. PICK f \in [0..n -> V] : Upto(f, n)
    BY <1>2
  <2> DEFINE h == [i \in 0..n + 1 |-> IF i = n + 1 THEN g[<<f[n], n + 1>>] ELSE f[i]]
  <2>2. /\ n \in Nat /\ n + 1 \in 0..N /\ n + 1 \in 1..N /\ n \in 0..n
        /\ 0 \in 0..n + 1 /\ 0 # n + 1 /\ (n + 1) - 1 = n
        /\ \A i \in 0..n + 1 : i = n + 1 \/ i \in 0..n
        /\ \A i \in 1..n + 1 : /\ i = n + 1 \/ (i \in 1..n /\ i # n + 1)
                              /\ i \in 0..n + 1 /\ i - 1 \in 0..n + 1 /\ i - 1 # n + 1
    OBVIOUS
  <2>3. g[<<f[n], n + 1>>] \in V
    BY <2>2 DEF StaysIn
  <2>4. h \in [0..n + 1 -> V]
    BY <2>2, <2>3
  <2>5. \A i \in 0..n + 1 : h[i] = IF i = n + 1 THEN g[<<f[n], n + 1>>] ELSE f[i]
    OBVIOUS
  <2> HIDE DEF h
  <2>6. h[0] = a
    BY <2>1, <2>2, <2>5
  <2>7. ASSUME NEW i \in 1..n + 1 PROVE h[i] = g[<<h[i - 1], i>>]
    <3>1. CASE i = n + 1
      BY <2>2, <2>5, <3>1
    <3>2. CASE i \in 1..n /\ i # n + 1
      BY <2>1, <2>2, <2>5, <3>2
    <3> QED BY <2>2, <3>1, <3>2
  <2>8. Upto(h, n + 1)
    BY <2>6, <2>7
  <2> HIDE DEF Upto
  <2> QED BY <2>2, <2>4, <2>8
<1> HIDE DEF S
<1>3. N \in S
  <2>1. \A i \in 0..N - 1 : i \in S => i + 1 \in S
    BY <1>2
  <2>2. \A i \in 0..N : i \in S
    BY <1>1, <2>1, CountedUp, ZenonT(40)
  <2> QED BY <2>2
<1> QED BY <1>3 DEF S, Loop

-----------------------------------------------------------------------------
(* Lists.                                                                   *)

IsList(s) == s \in Seq(Range(s))
WellKept(list) == IsList(list) /\ \A i \in DOMAIN list : list[i].kind \in Kinds

LEMMA ListOfMembers ==
  ASSUME NEW S, NEW s \in Seq(S) PROVE IsList(s) /\ Range(s) \subseteq S
<1>1. Len(s) \in Nat /\ DOMAIN s = 1..Len(s) /\ \A i \in 1..Len(s) : s[i] \in S
  OBVIOUS
<1>2. \A i \in 1..Len(s) : s[i] \in Range(s)
  BY <1>1 DEF Range
<1>3. s \in Seq(Range(s))
  BY <1>1, <1>2, IsASeq
<1> QED BY <1>1, <1>3 DEF IsList, Range

(* Registers the arguments before one of them take.                         *)
LEMMA Sums ==
  ASSUME NEW given, WellKept(given), NEW size \in [Kinds -> Nat]
  PROVE  \E t \in [0..Len(given) -> Nat] :
           /\ t[0] = 0
           /\ \A j \in 1..Len(given) : t[j] = t[j - 1] + size[given[j].kind]
           /\ \A j \in 1..Len(given) + 1 : Before(given, j, size) = t[j - 1]
<1> DEFINE N == Len(given)
           Step(n, j) == n + size[given[j].kind]
           Taken(h) == [j \in 0..N |-> IF j = 0 THEN 0 ELSE Step(h[j - 1], j)]
           g == [p \in Nat \X (1..N) |-> Step(p[1], p[2])]
           t == CHOOSE h : h = Taken(h)
<1>1. N \in Nat /\ \A j \in 1..N : size[given[j].kind] \in Nat
  <2>1. N \in Nat /\ DOMAIN given = 1..N
    BY DEF WellKept, IsList
  <2> QED BY <2>1 DEF WellKept
<1>2. \A j \in 1..N + 1 : Before(given, j, size) = t[j - 1]
  BY DEF Before
<1>3. \A n \in Nat, j \in 1..N : Step(n, j) \in Nat
  BY <1>1
<1>4. g \in [Nat \X (1..N) -> Nat] /\ \A n \in Nat, j \in 1..N : g[<<n, j>>] = Step(n, j)
  BY <1>3
<1>5. N \in Nat
  BY <1>1
<1> HIDE DEF N, Step, g
<1>6. PICK f \in [0..N -> Nat] : f[0] = 0 /\ \A j \in 1..N : f[j] = g[<<f[j - 1], j>>]
  <2>1. 0 \in Nat
    OBVIOUS
  <2>2. StaysIn(Nat, N, g)
    BY <1>3, <1>4 DEF StaysIn
  <2>3. \E f : Loop(f, Nat, N, 0, g)
    BY <1>5, <2>1, <2>2, LoopRuns, ZenonT(40)
  <2> QED BY <2>3 DEF Loop
<1>7. \A j \in 1..N : j # 0 /\ j \in 0..N /\ j - 1 \in 0..N
  BY <1>5
<1>8. \A j \in 0..N : j = 0 \/ j \in 1..N
  BY <1>5
<1>9. f = Taken(f)
  <2>1. \A j \in 0..N : f[j] = IF j = 0 THEN 0 ELSE Step(f[j - 1], j)
    BY <1>4, <1>6, <1>7, <1>8
  <2> QED BY <2>1
<1>10. t = Taken(t)
  BY <1>9
<1> HIDE DEF t
<1>11. t[0] = 0 /\ \A j \in 1..N : t[j] = Step(t[j - 1], j)
  <2>1. \A j \in 0..N : t[j] = IF j = 0 THEN 0 ELSE Step(t[j - 1], j)
    BY <1>10
  <2>2. 0 \in 0..N
    BY <1>5
  <2> QED BY <1>7, <2>1, <2>2
<1>12. \A j \in 0..N : t[j] \in Nat
  <2> DEFINE S == {j \in 0..N : t[j] \in Nat}
  <2>1. 0 \in S
    BY <1>5, <1>11
  <2>2. ASSUME NEW j \in 0..N - 1, j \in S PROVE j + 1 \in S
    <3>1. j + 1 \in 1..N /\ j + 1 \in 0..N /\ (j + 1) - 1 = j
      BY <1>5
    <3>2. t[j + 1] = Step(t[j], j + 1)
      BY <1>11, <3>1
    <3> QED BY <1>3, <2>2, <3>1, <3>2
  <2> HIDE DEF S
  <2>3. \A j \in 0..N - 1 : j \in S => j + 1 \in S
    BY <2>2
  <2>4. \A j \in 0..N : j \in S
    BY <1>5, <2>1, <2>3, CountedUp, ZenonT(40)
  <2> QED BY <2>4 DEF S
<1>13. t \in [0..N -> Nat]
  <2>1. t = [j \in 0..N |-> IF j = 0 THEN 0 ELSE Step(t[j - 1], j)]
    BY <1>10
  <2> HIDE DEF Taken
  <2> QED BY <1>12, <2>1
<1> HIDE DEF Taken
<1> QED BY <1>2, <1>11, <1>13 DEF N, Step

(* Lists put one after another.                                             *)
Lengths(t, parts) ==
  /\ t \in [0..Len(parts) -> Nat] /\ t[0] = 0
  /\ \A j \in 1..Len(parts) : t[j] = t[j - 1] + Len(parts[j])
OneAfterAnother(all, t, parts) ==
  /\ Len(all) = t[Len(parts)]
  /\ \A j \in 1..Len(parts) : \A k \in 1..Len(parts[j]) :
       /\ t[j - 1] + k \in 1..t[Len(parts)]
       /\ all[t[j - 1] + k] = parts[j][k]

LEMMA Flattened ==
  ASSUME NEW S, NEW parts \in Seq(Seq(S)), NEW t, Lengths(t, parts)
  PROVE  FlattenSeq(parts) \in Seq(S) /\ OneAfterAnother(FlattenSeq(parts), t, parts)
<1> DEFINE N == Len(parts)
           all == FlattenSeq(parts)
           Joined(h) == [i \in 1..N |-> IF i = 1 THEN parts[i] ELSE h[i - 1] \o parts[i]]
           f == CHOOSE h : h = Joined(h)
           g == [p \in Seq(S) \X (1..N) |-> p[1] \o parts[p[2]]]
<1>1. N \in Nat /\ \A i \in 1..N : parts[i] \in Seq(S)
  OBVIOUS
<1>0. t \in [0..N -> Nat] /\ t[0] = 0 /\ \A j \in 1..N : t[j] = t[j - 1] + Len(parts[j])
  BY DEF Lengths
<1>2. CASE N = 0
  <2>1. all = parts /\ parts = <<>>
    BY <1>2 DEF FlattenSeq
  <2> QED BY <1>0, <1>2, <2>1 DEF OneAfterAnother
<1>3. CASE N # 0
  <2>1. all = f[N]
    BY <1>3 DEF FlattenSeq
  <2>2. g \in [Seq(S) \X (1..N) -> Seq(S)]
    <3>1. \A s \in Seq(S), i \in 1..N : s \o parts[i] \in Seq(S)
      BY <1>1, ConcatProperties
    <3> QED BY <3>1
  <2>3. \A s \in Seq(S), i \in 1..N : g[<<s, i>>] = s \o parts[i]
    OBVIOUS
  <2>4. <<>> \in Seq(S)
    OBVIOUS
  <2>0. N \in Nat /\ N > 0 /\ t \in [0..N -> Nat] /\ \A j \in 1..N : t[j] = t[j - 1] + Len(parts[j])
    BY <1>0, <1>1, <1>3
  <2> HIDE DEF N, g
  <2>5. PICK h \in [0..N -> Seq(S)] : h[0] = <<>> /\ \A i \in 1..N : h[i] = g[<<h[i - 1], i>>]
    <3>1. StaysIn(Seq(S), N, g)
      BY <2>2 DEF StaysIn
    <3>2. \E h : Loop(h, Seq(S), N, <<>>, g)
      BY <2>0, <2>4, <3>1, LoopRuns, ZenonT(40)
    <3> QED BY <3>2 DEF Loop
  <2>6. \A i \in 1..N : i \in 0..N /\ i - 1 \in 0..N /\ (i = 1 \/ i - 1 \in 1..N)
    BY <2>0
  <2>7. \A i \in 1..N : h[i] = h[i - 1] \o parts[i] /\ h[i - 1] \in Seq(S) /\ h[i] \in Seq(S)
    BY <2>3, <2>5, <2>6
  <2> DEFINE e == [i \in 1..N |-> h[i]]
  <2>8. e = Joined(e)
    <3>1. 1 \in 1..N /\ h[1] = parts[1]
      <4>1. 1 \in 1..N /\ 1 - 1 = 0
        BY <2>0
      <4>2. h[1] = <<>> \o parts[1]
        BY <2>5, <2>7, <4>1
      <4>3. parts[1] \in Seq(S)
        BY <1>1, <4>1
      <4> QED BY <4>1, <4>2, <4>3, ConcatEmptySeq
    <3>2. \A i \in 1..N : e[i] = h[i]
      OBVIOUS
    <3> HIDE DEF e
    <3>3. ASSUME NEW i \in 1..N PROVE h[i] = IF i = 1 THEN parts[i] ELSE e[i - 1] \o parts[i]
      <4>1. CASE i = 1
        BY <3>1, <4>1
      <4>2. CASE i # 1 /\ i - 1 \in 1..N
        <5>1. e[i - 1] = h[i - 1]
          BY <3>2, <4>2
        <5>2. h[i] = h[i - 1] \o parts[i]
          BY <2>7
        <5> QED BY <4>2, <5>1, <5>2, Zenon
      <4> QED BY <2>6, <4>1, <4>2
    <3>4. Joined(e) = [i \in 1..N |-> h[i]]
      BY <3>3
    <3> QED BY <3>4 DEF e
  <2>9. f = Joined(f)
    BY <2>8, ZenonT(40)
  <2> HIDE DEF f, e
  <2>10. 1 \in 1..N /\ f[1] = parts[1] /\ \A i \in 2..N : f[i] = f[i - 1] \o parts[i]
    <3>1. \A i \in 1..N : f[i] = IF i = 1 THEN parts[i] ELSE f[i - 1] \o parts[i]
      BY <2>9
    <3>2. 1 \in 1..N /\ \A i \in 2..N : i \in 1..N /\ i # 1
      BY <2>0
    <3> QED BY <3>1, <3>2
  <2> HIDE DEF Joined
  <2> DEFINE Whole(n, s) == /\ s \in Seq(S) /\ Len(s) = t[n]
                            /\ \A j \in 1..n : \A k \in 1..Len(parts[j]) :
                                 t[j - 1] + k \in 1..t[n] /\ s[t[j - 1] + k] = parts[j][k]
             good == {n \in 0..N : n = 0 \/ Whole(n, f[n])}
  <2>11. 0 \in good /\ t[0] = 0
    BY <1>0, <2>0
  <2>12. ASSUME NEW n \in 0..N - 1, n \in good PROVE n + 1 \in good
    <3>1. /\ n + 1 \in 1..N /\ n + 1 \in 0..N /\ (n + 1) - 1 = n /\ n \in 0..N
          /\ n = 0 \/ (n # 0 /\ n + 1 \in 2..N /\ n \in 1..N)
      BY <2>0
    <3> DEFINE p == parts[n + 1]
    <3>2. p \in Seq(S) /\ Len(p) \in Nat /\ t[n] \in Nat /\ t[n + 1] = t[n] + Len(p)
      <4>1. p \in Seq(S)
        BY <1>1, <3>1 DEF N
      <4>2. Len(p) \in Nat
        BY <4>1
      <4>3. t[n + 1] = t[(n + 1) - 1] + Len(p) /\ t[n] \in Nat
        BY <2>0, <3>1
      <4> HIDE DEF p
      <4> QED BY <3>1, <4>1, <4>2, <4>3
    <3>3. CASE n = 0
      <4>1. f[n + 1] = p /\ t[0] = 0
        BY <2>10, <2>11, <3>3
      <4>2. \A j \in 1..n + 1 : j = n + 1 /\ j - 1 = 0
        BY <3>3
      <4>3. \A k \in 1..Len(p) : t[0] + k = k /\ k \in 1..t[n + 1]
        BY <3>2, <3>3, <4>1
      <4> HIDE DEF p
      <4>4. Whole(n + 1, p)
        BY <3>2, <3>3, <4>1, <4>2, <4>3 DEF p
      <4> QED BY <3>1, <4>1, <4>4
    <3>4. CASE n # 0
      <4>1. Whole(n, f[n]) /\ f[n + 1] = f[n] \o p
        BY <2>10, <2>12, <3>1, <3>4
      <4> DEFINE s == f[n]
                 u == s \o p
      <4>2. /\ u \in Seq(S) /\ Len(u) = t[n + 1]
            /\ \A k \in 1..t[n] : u[k] = s[k]
            /\ \A k \in 1..Len(p) : u[t[n] + k] = p[k]
        <5>1. s \in Seq(S) /\ Len(s) = t[n]
          BY <4>1
        <5> HIDE DEF s, p
        <5>2. /\ u \in Seq(S) /\ Len(u) = Len(s) + Len(p)
              /\ \A k \in 1..Len(s) : u[k] = s[k]
              /\ \A k \in 1..Len(p) : u[Len(s) + k] = p[k]
          <6>1. Len(s) \in Nat /\ Len(p) \in Nat
            BY <3>2, <5>1
          <6>2. /\ \A k \in 1..Len(s) : k \in 1..Len(s) + Len(p) /\ k <= Len(s)
                /\ \A k \in 1..Len(p) : /\ Len(s) + k \in 1..Len(s) + Len(p)
                                        /\ ~(Len(s) + k <= Len(s)) /\ (Len(s) + k) - Len(s) = k
            BY <6>1
          <6>3. /\ u \in Seq(S) /\ Len(u) = Len(s) + Len(p)
                /\ \A i \in 1..Len(s) + Len(p) : u[i] = IF i <= Len(s) THEN s[i] ELSE p[i - Len(s)]
            BY <3>2, <5>1, ConcatProperties
          <6> HIDE DEF u
          <6> QED BY <6>2, <6>3
        <5> QED BY <3>2, <5>1, <5>2
      <4>3. \A j \in 1..n + 1 : j = n + 1 \/ j \in 1..n
        BY <3>1
      <4> HIDE DEF u
      <4>4. ASSUME NEW j \in 1..n, NEW k \in 1..Len(parts[j])
            PROVE  t[j - 1] + k \in 1..t[n + 1] /\ u[t[j - 1] + k] = parts[j][k]
        <5>1. t[j - 1] + k \in 1..t[n] /\ s[t[j - 1] + k] = parts[j][k]
          BY <4>1, <4>4
        <5>2. 1..t[n] \subseteq 1..t[n + 1]
          BY <3>2
        <5> QED BY <4>2, <5>1, <5>2
      <4>5. ASSUME NEW k \in 1..Len(p)
            PROVE  t[n] + k \in 1..t[n + 1] /\ u[t[n] + k] = p[k]
        <5>1. t[n] + k \in 1..t[n + 1]
          BY <3>2, <4>5
        <5> QED BY <4>2, <5>1
      <4>6. Whole(n + 1, u)
        BY <3>1, <4>2, <4>3, <4>4, <4>5
      <4>7. f[n + 1] = u
        BY <4>1 DEF u
      <4> QED BY <3>1, <4>6, <4>7
    <3> QED BY <3>3, <3>4
  <2> HIDE DEF good, Whole
  <2>13. N \in good
    <3>1. \A n \in 0..N - 1 : n \in good => n + 1 \in good
      BY <2>12
    <3>2. \A n \in 0..N : n \in good
      BY <2>0, <2>11, <3>1, CountedUp, ZenonT(40)
    <3> QED BY <2>0, <3>2
  <2>14. Whole(N, f[N])
    BY <2>0, <2>13 DEF good
  <2> HIDE DEF all
  <2> QED BY <2>1, <2>14 DEF Whole, N, all, OneAfterAnother
<1> QED BY <1>2, <1>3


(* Registers taken in turn by the arguments of a list.                      *)
InTurn(all, parts, list, size) ==
  /\ Len(all) = Before(list, Len(list) + 1, size)
  /\ \A j \in DOMAIN list : \A k \in 1..size[list[j].kind] :
       /\ Before(list, j, size) + k \in 1..Len(all)
       /\ all[Before(list, j, size) + k] = parts[j][k]

LEMMA TakenInTurn ==
  ASSUME NEW S, NEW list, WellKept(list), NEW size \in [Kinds -> Nat],
         NEW parts \in Seq(Seq(S)), Len(parts) = Len(list),
         \A j \in 1..Len(list) : Len(parts[j]) = size[list[j].kind]
  PROVE  FlattenSeq(parts) \in Seq(S) /\ InTurn(FlattenSeq(parts), parts, list, size)
<1> DEFINE N == Len(list)
           all == FlattenSeq(parts)
<1>1. N \in Nat /\ DOMAIN list = 1..N
  BY DEF WellKept, IsList
<1>2. PICK t \in [0..N -> Nat] :
        /\ t[0] = 0
        /\ \A j \in 1..N : t[j] = t[j - 1] + size[list[j].kind]
        /\ \A j \in 1..N + 1 : Before(list, j, size) = t[j - 1]
  BY Sums
<1>3. Lengths(t, parts)
  BY <1>2 DEF Lengths
<1>4. all \in Seq(S) /\ OneAfterAnother(all, t, parts)
  BY <1>3, Flattened
<1> HIDE DEF all, N
<1>5. N + 1 \in 1..N + 1 /\ (N + 1) - 1 = N /\ \A j \in 1..N : j \in 1..N + 1
  BY <1>1
<1>6. Len(all) = Before(list, N + 1, size)
  BY <1>2, <1>4, <1>5 DEF N, OneAfterAnother
<1>7. ASSUME NEW j \in 1..N, NEW k \in 1..size[list[j].kind]
      PROVE  /\ Before(list, j, size) + k \in 1..Len(all)
             /\ all[Before(list, j, size) + k] = parts[j][k]
  <2>1. Before(list, j, size) = t[j - 1]
    BY <1>2, <1>5
  <2>2. j \in 1..Len(parts) /\ k \in 1..Len(parts[j])
    BY <1>7 DEF N
  <2> QED BY <1>4, <2>1, <2>2 DEF OneAfterAnother
<1> QED BY <1>1, <1>4, <1>6, <1>7 DEF all, N, InTurn

LEMMA BeforeIsNatural ==
  ASSUME NEW list, WellKept(list), NEW size \in [Kinds -> Nat], NEW j \in 1..Len(list)
  PROVE  Before(list, j, size) \in Nat
<1>1. PICK t \in [0..Len(list) -> Nat] :
        \A i \in 1..Len(list) + 1 : Before(list, i, size) = t[i - 1]
  BY Sums
<1>2. Len(list) \in Nat
  BY DEF WellKept, IsList
<1>3. j \in 1..Len(list) + 1 /\ j - 1 \in 0..Len(list)
  BY <1>2
<1> QED BY <1>1, <1>3

(* Where the Variant of an argument of a call is, or would be.              *)
Address(call, i) ==
  call.sp + VariantWords * i + (IF call.boxed THEN Overflowing(call.given) ELSE 0)

Written(mem, a, is) == \A part \in 0..2 : At(mem, a + part) = Word(is, part)

(* Pointers to boxed arguments in a1 to a7, and the others from sp on.      *)
PlacedBoxed(call, mem) ==
  \A i \in DOMAIN call.given :
    /\ Written(mem, Address(call, i), call.given[i].value)
    /\ i <= 7 => call.x[10 + i] = Pointer(Address(call, i))
    /\ i > 7 => At(mem, call.sp + i - 8) = Pointer(Address(call, i))

(* Unboxed arguments in the registers that those before them leave.         *)
InItsRegisters(list, i, a, xs, fs, mem) ==
  LET kind == list[i].kind
      is == list[i].value
      x == 11 + Before(list, i, Integers)
      f == 10 + Before(list, i, Floats)
  IN  /\ kind = "integer" => xs[x] = Word(is, 0)
      /\ kind = "float" => fs[f] = Word(is, 0)
      /\ kind = "vector2" => fs[f] = Word(is, 0) /\ fs[f + 1] = Word(is, 1)
      /\ kind = "two_integers" => xs[x] = Word(is, 0) /\ xs[x + 1] = Word(is, 1)
      /\ kind = "other" => xs[x] = Pointer(a) /\ Written(mem, a, is)
PlacedUnboxed(call, mem) ==
  \A i \in DOMAIN call.given :
    InItsRegisters(call.given, i, Address(call, i), call.x, call.f, mem)

Placed(call, mem) == IF call.boxed THEN PlacedBoxed(call, mem) ELSE PlacedUnboxed(call, mem)

(* A call, the result of which is no argument's place unless there are many. *)
Shaped(call) ==
  /\ DOMAIN call = {"given", "boxed", "x", "f", "sp", "low", "result", "wrote"}
  /\ WellKept(call.given) /\ call.boxed \in BOOLEAN
  /\ call.low \in Int /\ call.sp \in Int /\ call.result \in Int
  /\ call.low <= call.sp /\ call.sp <= call.result
  /\ Len(call.given) <= 7 => call.result = Address(call, 0)
  /\ call.x[10] = Pointer(call.result)

(* What it has on the stack, and that all of it is below an address.        *)
Kept(call, depth, mem) ==
  /\ \A w \in call.low..call.sp - 1 : At(mem, w) = Local(depth)
  /\ Placed(call, mem)
  /\ call.wrote => Written(mem, call.result, ResultOf(depth))
EndsBelow(call, top) ==
  Address(call, Len(call.given)) + 2 < top /\ call.result + 2 < top

(* A callable's array begins with what was bound to it.                     *)
Bound(callable) ==
  /\ DOMAIN callable = {"bound", "m_varargs_ptrs"}
  /\ WellKept(callable.bound)
  /\ DOMAIN callable.m_varargs_ptrs = Slots8
  /\ \A i \in Slots8 \cap DOMAIN callable.bound : callable.m_varargs_ptrs[i] = callable.bound[i]


-----------------------------------------------------------------------------
(* Memory.                                                                  *)

LEMMA WhatAWordIs ==
  ASSUME NEW is, NEW part
  PROVE  Word(is, part).is = is /\ \A js, k : Word(js, k) = Word(is, part) <=> js = is /\ k = part
BY DEF Word

LEMMA PointersLead == ASSUME NEW a PROVE Pointer(a).is[1] = "pointer" /\ Pointer(a).is[2] = a
BY DEF Pointer, Word

LEMMA WrittenOver ==
  ASSUME NEW words, NEW mem, NEW a
  PROVE  At(Over(words, mem), a) = IF a \in DOMAIN words THEN words[a] ELSE At(mem, a)
BY DEF At, Over

LEMMA VariantIsRead == ASSUME NEW mem, NEW a \in Int, NEW is, Written(mem, a, is)
                       PROVE  VariantAt(mem, a) = is
<1>1. At(mem, a) = Word(is, 0)
  <2>1. 0 \in 0..2 /\ a + 0 = a
    OBVIOUS
  <2> QED BY <2>1 DEF Written
<1>2. At(mem, a).is = is
  BY <1>1, WhatAWordIs
<1> QED BY <1>2 DEF VariantAt, Written

(* The words of Variants that stand one after another.                      *)
Stand(v, data, list, kinds) ==
  /\ \A w \in DOMAIN v : w \in Int /\ data + 3 <= w /\ w <= data + 3 * Len(list) + 2
  /\ \A i \in DOMAIN list : list[i].kind \in kinds =>
       \A part \in 0..2 : /\ data + 3 * i + part \in DOMAIN v
                          /\ v[data + 3 * i + part] = Word(list[i].value, part)

LEMMA VariantsStand ==
  ASSUME NEW data \in Int, NEW list, IsList(list), NEW kinds
  PROVE  Stand(Variants(data, list, kinds), data, list, kinds)
<1> DEFINE N == Len(list)
           shown == {i \in DOMAIN list : list[i].kind \in kinds}
           places == {data + 3 * i + part : i \in shown, part \in 0..2}
           v == Variants(data, list, kinds)
<1>1. N \in Nat /\ DOMAIN list = 1..N /\ shown \subseteq 1..N
  BY DEF IsList
<1>2. v = [w \in places |-> Word(list[(w - data) \div 3].value, (w - data) % 3)]
  BY DEF Variants, VariantWords
<1> HIDE DEF N, v, shown
<1>3. \A i \in 1..N, part \in 0..2 :
        /\ data + 3 * i + part \in Int /\ data + 3 <= data + 3 * i + part
        /\ data + 3 * i + part <= data + 3 * N + 2
        /\ (data + 3 * i + part) - data = 3 * i + part
  BY <1>1
<1>4. \A i \in 1..N, part \in 0..2 : (3 * i + part) \div 3 = i /\ (3 * i + part) % 3 = part
  BY <1>1
<1>5. \A w \in places : \E i \in 1..N, part \in 0..2 : w = data + 3 * i + part
  BY <1>1
<1>6. ASSUME NEW i \in DOMAIN list, list[i].kind \in kinds, NEW part \in 0..2
      PROVE  data + 3 * i + part \in places
  BY <1>6 DEF shown
<1> HIDE DEF places
<1>7. DOMAIN v = places
  BY <1>2
<1>8. ASSUME NEW i \in DOMAIN list, list[i].kind \in kinds, NEW part \in 0..2
      PROVE  v[data + 3 * i + part] = Word(list[i].value, part)
  <2> DEFINE w == data + 3 * i + part
  <2>1. i \in 1..N /\ w \in places
    BY <1>1, <1>6, <1>8
  <2>2. (w - data) \div 3 = i /\ (w - data) % 3 = part
    BY <1>3, <1>4, <2>1
  <2> HIDE DEF w
  <2>3. v[w] = Word(list[i].value, part)
    BY <1>2, <2>1, <2>2
  <2> QED BY <2>3 DEF w
<1>9. \A w \in DOMAIN v : w \in Int /\ data + 3 <= w /\ w <= data + 3 * N + 2
  BY <1>3, <1>5, <1>7
<1> HIDE DEF v
<1>10. \A i \in DOMAIN list : list[i].kind \in kinds =>
         \A part \in 0..2 : /\ data + 3 * i + part \in DOMAIN v
                            /\ v[data + 3 * i + part] = Word(list[i].value, part)
  BY <1>6, <1>7, <1>8
<1> QED BY <1>9, <1>10 DEF v, N, Stand

LEMMA AlignedDown == ASSUME NEW sp \in Int PROVE Aligned(sp) \in Int /\ Aligned(sp) <= sp
BY DEF Aligned

(* A call entered with what setup_arguments made, and what it finds in a     *)
(* memory that has the words written.                                       *)
Entered(call, b, list) ==
  call.given = list /\ call.x = b.x /\ call.f = b.f /\ call.sp = b.sp
Has(mem, words) == \A w \in DOMAIN words : At(mem, w) = words[w]
Found(b, call, mem, sp) ==
  /\ b.sp \in Int /\ b.sp <= sp /\ b.result \in Int /\ b.sp <= b.result
  /\ Address(call, Len(call.given)) + 2 < sp /\ b.result + 2 < sp
  /\ Len(call.given) <= 7 => b.result = Address(call, 0)
  /\ b.x[10] = Pointer(b.result)
  /\ Placed(call, mem)
  /\ \A w \in DOMAIN b.words : w \in Int /\ b.sp <= w /\ w < sp

(* setup_arguments, boxed: the arguments stand below sp, the pointers lead  *)
(* to them.                                                                 *)
LEMMA BoxedArePlaced ==
  ASSUME NEW sp \in Int, NEW list, WellKept(list), NEW b, b = setup_boxed(sp, list),
         NEW call, Entered(call, b, list), call.boxed = TRUE, NEW mem, Has(mem, b.words)
  PROVE  Found(b, call, mem, sp)
<1> DEFINE N == Len(list)
           over == Overflowing(list)
           bottom == Aligned(sp - 3 * (N + 1) - over)
           data == bottom + over
           result == data + 3 * over
           v == Variants(data, list, Kinds)
           p == [w \in bottom..data - 1 |-> Pointer(data + 3 * (w - bottom + 8))]
<1>0. /\ call.given = list /\ call.x = b.x /\ call.f = b.f /\ call.sp = b.sp
      /\ \A w \in DOMAIN b.words : At(mem, w) = b.words[w]
  BY DEF Entered, Has
<1>1. /\ b.sp = bottom /\ b.result = result /\ b.words = Over(v, p)
      /\ b.x = [r \in 10..17 |-> IF r = 10 THEN Pointer(result)
                                 ELSE IF r - 10 \in DOMAIN list THEN Pointer(data + 3 * (r - 10))
                                 ELSE Unknown]
  BY DEF setup_boxed, VariantWords
<1>2. /\ N \in Nat /\ DOMAIN list = 1..N /\ IsList(list)
      /\ \A i \in 1..N : list[i].kind \in Kinds
  BY DEF WellKept, IsList
<1>3. over \in Nat /\ over = (IF N > 7 THEN N - 7 ELSE 0)
  BY <1>2 DEF Overflowing
<1>4. \A i : Address(call, i) = bottom + 3 * i + over
  BY <1>0, <1>1 DEF Address, VariantWords
<1> HIDE DEF N, over
<1>5. bottom \in Int /\ bottom <= sp - 3 * (N + 1) - over
  BY <1>2, <1>3, AlignedDown
<1>6. /\ \A w \in DOMAIN v : w \in Int /\ data + 3 <= w /\ w <= data + 3 * N + 2
      /\ \A i \in 1..N : \A part \in 0..2 : /\ data + 3 * i + part \in DOMAIN v
                                            /\ v[data + 3 * i + part] = Word(list[i].value, part)
  <2>1. data \in Int
    BY <1>3, <1>5
  <2> HIDE DEF data
  <2>2. Stand(v, data, list, Kinds)
    BY <1>2, <2>1, VariantsStand
  <2> HIDE DEF v
  <2> QED BY <1>2, <2>2 DEF N, Stand
<1> HIDE DEF bottom
<1>7. \A i \in 1..N : bottom + 3 * i + over = data + 3 * i
  BY <1>3, <1>5
<1>8. DOMAIN p = bottom..data - 1 /\ DOMAIN b.words = DOMAIN v \cup DOMAIN p
  BY <1>1 DEF Over
<1> HIDE DEF v
<1>9. /\ \A w \in DOMAIN v : At(mem, w) = v[w]
      /\ \A w \in DOMAIN p : At(mem, w) = p[w]
  <2>1. \A w \in DOMAIN p : w \notin DOMAIN v
    <3>1. data \in Int
      BY <1>3, <1>5
    <3>2. \A w \in DOMAIN v : data + 3 <= w
      BY <1>6
    <3>3. DOMAIN p = bottom..data - 1
      BY <1>8
    <3> HIDE DEF p, data
    <3>4. \A w \in bottom..data - 1 : w \in Int /\ ~(data + 3 <= w)
      BY <1>5, <3>1
    <3> QED BY <3>2, <3>3, <3>4
  <2> HIDE DEF p
  <2>2. \A w \in DOMAIN v \cup DOMAIN p : b.words[w] = IF w \in DOMAIN v THEN v[w] ELSE p[w]
    BY <1>1 DEF Over
  <2>3. \A w \in DOMAIN v \cup DOMAIN p : At(mem, w) = b.words[w]
    BY <1>0, <1>8
  <2>4. \A w \in DOMAIN v : At(mem, w) = v[w]
    BY <2>2, <2>3, Zenon
  <2> QED BY <2>1, <2>2, <2>3, <2>4, Zenon
<1>10. ASSUME NEW i \in 1..N PROVE Written(mem, Address(call, i), list[i].value)
  <2>1. \A part \in 0..2 : At(mem, data + 3 * i + part) = Word(list[i].value, part)
    <3> HIDE DEF p, data
    <3> QED BY <1>6, <1>9
  <2>2. Address(call, i) = data + 3 * i
    BY <1>4, <1>7
  <2> QED BY <2>1, <2>2 DEF Written
<1>11. ASSUME NEW i \in 1..N, i <= 7 PROVE call.x[10 + i] = Pointer(Address(call, i))
  <2>1. 10 + i \in 10..17 /\ 10 + i # 10 /\ (10 + i) - 10 = i /\ i \in DOMAIN list
    BY <1>2, <1>11
  <2>2. call.x[10 + i] = Pointer(data + 3 * i)
    BY <1>0, <1>1, <2>1
  <2>3. Address(call, i) = data + 3 * i
    BY <1>4, <1>7
  <2> QED BY <2>2, <2>3
<1>12. ASSUME NEW i \in 1..N, i > 7
       PROVE  At(mem, call.sp + i - 8) = Pointer(Address(call, i))
  <2> DEFINE w == bottom + i - 8
  <2>1. w \in bottom..data - 1 /\ w - bottom + 8 = i
    BY <1>2, <1>3, <1>5, <1>12
  <2>2. p[w] = Pointer(data + 3 * (w - bottom + 8))
    BY <2>1
  <2> HIDE DEF p, w, data
  <2>3. At(mem, w) = Pointer(data + 3 * i)
    BY <1>8, <1>9, <2>1, <2>2
  <2>4. Address(call, i) = data + 3 * i
    BY <1>4, <1>7
  <2> QED BY <1>0, <1>1, <2>3, <2>4 DEF w
<1>13. PlacedBoxed(call, mem)
  BY <1>0, <1>2, <1>10, <1>11, <1>12 DEF PlacedBoxed
<1>14. b.x[10] = Pointer(b.result)
  <2>1. 10 \in 10..17
    OBVIOUS
  <2> HIDE DEF result, data
  <2> QED BY <1>1, <2>1
<1>15. /\ b.sp \in Int /\ b.sp <= sp /\ b.result \in Int /\ b.sp <= b.result
       /\ N <= 7 => b.result = Address(call, 0)
  BY <1>1, <1>2, <1>3, <1>4, <1>5
<1>16. Address(call, N) + 2 < sp /\ b.result + 2 < sp
  <2>1. Address(call, N) = bottom + 3 * N + over /\ b.result = bottom + over + 3 * over
    BY <1>1, <1>4
  <2>2. over <= N
    BY <1>2, <1>3
  <2> HIDE DEF result, data
  <2>3. bottom + 3 * N + over + 2 < sp /\ bottom + over + 3 * over + 2 < sp
    BY <1>2, <1>3, <1>5, <2>2
  <2> QED BY <2>1, <2>3
<1>17. \A w \in DOMAIN b.words : w \in Int /\ b.sp <= w /\ w < sp
  <2>1. ASSUME NEW w \in DOMAIN v PROVE w \in Int /\ bottom <= w /\ w < sp
    <3>1. w \in Int /\ bottom + over + 3 <= w /\ w <= bottom + over + 3 * N + 2
      BY <1>6
    <3> QED BY <1>2, <1>3, <1>5, <3>1
  <2>2. ASSUME NEW w \in bottom..data - 1 PROVE w \in Int /\ bottom <= w /\ w < sp
    BY <1>2, <1>3, <1>5
  <2> HIDE DEF p, data
  <2> QED BY <1>1, <1>8, <2>1, <2>2
<1> QED BY <1>0, <1>13, <1>14, <1>15, <1>16, <1>17 DEF N, Found, Placed

LEMMA RegistersCounted ==
  ASSUME NEW arg, arg.kind \in Kinds, NEW a
  PROVE  LET taken == Registers(arg, a)
             words == {Word(arg.value, 0), Word(arg.value, 1), Pointer(a)}
         IN  /\ taken.x \in Seq(words) /\ Len(taken.x) = Integers[arg.kind]
             /\ taken.f \in Seq(words) /\ Len(taken.f) = Floats[arg.kind]
<1>1. CASE arg.kind = "integer"
  BY <1>1 DEF Registers, Integers, Floats, Kinds
<1>2. CASE arg.kind = "float"
  BY <1>2 DEF Registers, Integers, Floats, Kinds
<1>3. CASE arg.kind = "vector2"
  BY <1>3 DEF Registers, Integers, Floats, Kinds
<1>4. CASE arg.kind = "two_integers"
  BY <1>4 DEF Registers, Integers, Floats, Kinds
<1>5. CASE arg.kind = "other"
  BY <1>5 DEF Registers, Integers, Floats, Kinds
<1> QED BY <1>1, <1>2, <1>3, <1>4, <1>5 DEF Kinds

LEMMA SizesAreNatural == Integers \in [Kinds -> Nat] /\ Floats \in [Kinds -> Nat]
BY DEF Integers, Floats

(* setup_arguments_native: the arguments take registers in turn.            *)
IntegersTaken(list, data) ==
  [i \in DOMAIN list |-> Registers(list[i], data + VariantWords * i).x]
FloatsTaken(list, data) ==
  [i \in DOMAIN list |-> Registers(list[i], data + VariantWords * i).f]
NativelyPlaced(placed, list, data) ==
  /\ IsList(placed.x) /\ InTurn(placed.x, IntegersTaken(list, data), list, Integers)
  /\ IsList(placed.f) /\ InTurn(placed.f, FloatsTaken(list, data), list, Floats)

LEMMA NativeInTurn ==
  ASSUME NEW data, NEW list, WellKept(list)
  PROVE  NativelyPlaced(setup_arguments_native(data, list), list, data)
<1> DEFINE N == Len(list)
           place(i) == data + VariantWords * i
           xs == IntegersTaken(list, data)
           fs == FloatsTaken(list, data)
           words(i) == {Word(list[i].value, 0), Word(list[i].value, 1), Pointer(place(i))}
           S == UNION {words(i) : i \in DOMAIN list}
<1>1. /\ setup_arguments_native(data, list).x = FlattenSeq(xs)
      /\ setup_arguments_native(data, list).f = FlattenSeq(fs)
  <2> DEFINE taken == [i \in DOMAIN list |-> Registers(list[i], place(i))]
  <2>1. /\ xs = [i \in DOMAIN list |-> taken[i].x]
        /\ fs = [i \in DOMAIN list |-> taken[i].f]
    BY DEF IntegersTaken, FloatsTaken
  <2> QED BY <2>1 DEF setup_arguments_native
<1>2. N \in Nat /\ DOMAIN list = 1..N /\ \A i \in 1..N : list[i].kind \in Kinds
  BY DEF WellKept, IsList
<1>3. ASSUME NEW i \in 1..N
      PROVE  /\ xs[i] \in Seq(S) /\ Len(xs[i]) = Integers[list[i].kind]
             /\ fs[i] \in Seq(S) /\ Len(fs[i]) = Floats[list[i].kind]
  <2> DEFINE a == place(i)
  <2>1. words(i) \subseteq S
    BY <1>2
  <2>2. xs[i] = Registers(list[i], a).x /\ fs[i] = Registers(list[i], a).f
    BY <1>2 DEF IntegersTaken, FloatsTaken
  <2>3. list[i].kind \in Kinds
    BY <1>2
  <2> HIDE DEF S, a, xs, fs
  <2>4. /\ xs[i] \in Seq({Word(list[i].value, 0), Word(list[i].value, 1), Pointer(a)})
        /\ Len(xs[i]) = Integers[list[i].kind]
        /\ fs[i] \in Seq({Word(list[i].value, 0), Word(list[i].value, 1), Pointer(a)})
        /\ Len(fs[i]) = Floats[list[i].kind]
    BY <2>2, <2>3, RegistersCounted
  <2> USE DEF a
  <2>5. Seq(words(i)) \subseteq Seq(S)
    BY <2>1, SeqMonotonic
  <2> QED BY <2>4, <2>5
<1>4. /\ DOMAIN xs = 1..N /\ DOMAIN fs = 1..N
      /\ xs = [i \in 1..N |-> xs[i]] /\ fs = [i \in 1..N |-> fs[i]]
  BY <1>2 DEF IntegersTaken, FloatsTaken
<1> HIDE DEF S, xs, fs
<1>5. /\ xs \in Seq(Seq(S)) /\ Len(xs) = N
      /\ fs \in Seq(Seq(S)) /\ Len(fs) = N
  <2>1. xs \in Seq(Seq(S)) /\ fs \in Seq(Seq(S))
    BY <1>2, <1>3, <1>4, IsASeq
  <2> QED BY <1>2, <1>4, <2>1
<1>6. FlattenSeq(xs) \in Seq(S) /\ InTurn(FlattenSeq(xs), xs, list, Integers)
  BY <1>3, <1>5, SizesAreNatural, TakenInTurn
<1>7. FlattenSeq(fs) \in Seq(S) /\ InTurn(FlattenSeq(fs), fs, list, Floats)
  BY <1>3, <1>5, SizesAreNatural, TakenInTurn
<1>8. IsList(FlattenSeq(xs)) /\ IsList(FlattenSeq(fs))
  BY <1>6, <1>7, ListOfMembers
<1> QED BY <1>1, <1>6, <1>7, <1>8 DEF xs, fs, NativelyPlaced

(* setup_arguments, unboxed.                                                *)
LEMMA UnboxedArePlaced ==
  ASSUME NEW sp \in Int, NEW list, WellKept(list),
         Len(setup_arguments_native(0, list).x) <= 7, Len(setup_arguments_native(0, list).f) <= 8,
         NEW b, b = setup_unboxed(sp, list),
         NEW call, Entered(call, b, list), call.boxed = FALSE, NEW mem, Has(mem, b.words)
  PROVE  Found(b, call, mem, sp)
<1> DEFINE N == Len(list)
           data == Aligned(sp - 3 * (N + 1))
           placed == setup_arguments_native(data, list)
           v == Variants(data, list, {"other"})
           taken(i) == Registers(list[i], data + 3 * i)
<1>0. /\ call.given = list /\ call.x = b.x /\ call.f = b.f /\ call.sp = b.sp
      /\ \A w \in DOMAIN b.words : At(mem, w) = b.words[w]
  BY DEF Entered, Has
<1>1. /\ b.sp = data /\ b.result = data /\ b.words = v
      /\ b.x = [r \in 10..17 |-> IF r = 10 THEN Pointer(data)
                                 ELSE IF r - 10 \in DOMAIN placed.x THEN placed.x[r - 10]
                                 ELSE Unknown]
      /\ b.f = [r \in 10..17 |-> IF r - 9 \in DOMAIN placed.f THEN placed.f[r - 9] ELSE Unknown]
  BY DEF setup_unboxed, VariantWords
<1>2. N \in Nat /\ DOMAIN list = 1..N /\ IsList(list) /\ \A i \in 1..N : list[i].kind \in Kinds
  BY DEF WellKept, IsList
<1>3. \A i : Address(call, i) = data + 3 * i + 0
  BY <1>0, <1>1 DEF Address, VariantWords
<1> HIDE DEF N
<1>4. data \in Int /\ data <= sp - 3 * (N + 1)
  <2> DEFINE top == sp - 3 * (N + 1)
  <2>1. top \in Int
    BY <1>2
  <2> HIDE DEF top
  <2>2. Aligned(top) \in Int /\ Aligned(top) <= top
    BY <2>1, AlignedDown
  <2> QED BY <2>2 DEF top
<1>5. \A i \in 0..N : Address(call, i) = data + 3 * i
  BY <1>2, <1>3, <1>4
<1> HIDE DEF data
<1>6. Stand(v, data, list, {"other"})
  BY <1>2, <1>4, VariantsStand
<1> HIDE DEF v
<1>7. /\ \A i \in 1..N : \A k \in 1..Integers[list[i].kind] :
           /\ Before(list, i, Integers) + k \in 1..Len(placed.x)
           /\ placed.x[Before(list, i, Integers) + k] = taken(i).x[k]
      /\ \A i \in 1..N : \A k \in 1..Floats[list[i].kind] :
           /\ Before(list, i, Floats) + k \in 1..Len(placed.f)
           /\ placed.f[Before(list, i, Floats) + k] = taken(i).f[k]
      /\ DOMAIN placed.x = 1..Len(placed.x) /\ Len(placed.x) \in 0..7
      /\ DOMAIN placed.f = 1..Len(placed.f) /\ Len(placed.f) \in 0..8
  <2> DEFINE first == setup_arguments_native(0, list)
             xs == IntegersTaken(list, data)
             fs == FloatsTaken(list, data)
  <2>1. NativelyPlaced(placed, list, data) /\ NativelyPlaced(first, list, 0)
    BY NativeInTurn
  <2>3. \A i \in 1..N : xs[i] = taken(i).x /\ fs[i] = taken(i).f
    BY <1>2 DEF VariantWords, IntegersTaken, FloatsTaken
  <2> HIDE DEF xs, fs, taken, placed, first
  <2>4. Len(placed.x) = Len(first.x) /\ Len(placed.f) = Len(first.f)
    BY <2>1 DEF InTurn, NativelyPlaced
  <2>5. /\ DOMAIN placed.x = 1..Len(placed.x) /\ Len(placed.x) \in Nat
        /\ DOMAIN placed.f = 1..Len(placed.f) /\ Len(placed.f) \in Nat
    BY <2>1 DEF NativelyPlaced, IsList
  <2> DEFINE xn == Len(placed.x)
             fn == Len(placed.f)
  <2>6. xn \in 0..7 /\ fn \in 0..8
    <3>1. xn <= 7 /\ fn <= 8
      BY <2>4 DEF first
    <3>2. xn \in Nat /\ fn \in Nat
      BY <2>5
    <3> HIDE DEF xn, fn
    <3> QED BY <3>1, <3>2
  <2>7. InTurn(placed.x, xs, list, Integers) /\ InTurn(placed.f, fs, list, Floats)
    BY <2>1 DEF NativelyPlaced, xs, fs
  <2>8. ASSUME NEW i \in 1..N, NEW k \in 1..Integers[list[i].kind]
        PROVE  /\ Before(list, i, Integers) + k \in 1..Len(placed.x)
               /\ placed.x[Before(list, i, Integers) + k] = taken(i).x[k]
    <3> DEFINE n == Before(list, i, Integers)
    <3>1. \A j \in DOMAIN list : \A m \in 1..Integers[list[j].kind] :
            /\ Before(list, j, Integers) + m \in 1..Len(placed.x)
            /\ placed.x[Before(list, j, Integers) + m] = xs[j][m]
      BY <2>7 DEF InTurn
    <3>2. i \in DOMAIN list /\ xs[i] = taken(i).x
      BY <1>2, <2>3
    <3>3. n + k \in 1..Len(placed.x) /\ placed.x[n + k] = xs[i][k]
      BY <2>8, <3>1, <3>2, Zenon
    <3> QED BY <3>2, <3>3, Zenon
  <2>9. ASSUME NEW i \in 1..N, NEW k \in 1..Floats[list[i].kind]
        PROVE  /\ Before(list, i, Floats) + k \in 1..Len(placed.f)
               /\ placed.f[Before(list, i, Floats) + k] = taken(i).f[k]
    <3> DEFINE n == Before(list, i, Floats)
    <3>1. \A j \in DOMAIN list : \A m \in 1..Floats[list[j].kind] :
            /\ Before(list, j, Floats) + m \in 1..Len(placed.f)
            /\ placed.f[Before(list, j, Floats) + m] = fs[j][m]
      BY <2>7 DEF InTurn
    <3>2. i \in DOMAIN list /\ fs[i] = taken(i).f
      BY <1>2, <2>3
    <3>3. n + k \in 1..Len(placed.f) /\ placed.f[n + k] = fs[i][k]
      BY <2>9, <3>1, <3>2, Zenon
    <3> QED BY <3>2, <3>3, Zenon
  <2> QED BY <2>5, <2>6, <2>8, <2>9
<1> HIDE DEF placed
<1>8. ASSUME NEW m \in 1..Len(placed.x) PROVE call.x[10 + m] = placed.x[m]
  <2> DEFINE n == Len(placed.x)
  <2>0. n \in 0..7 /\ DOMAIN placed.x = 1..n /\ m \in 1..n
    BY <1>7, <1>8
  <2> HIDE DEF n
  <2>1. m \in 1..7 /\ m \in DOMAIN placed.x
    BY <2>0
  <2>2. 10 + m \in 10..17 /\ 10 + m # 10 /\ (10 + m) - 10 = m
    BY <2>1
  <2> QED BY <1>0, <1>1, <2>1, <2>2
<1>9. ASSUME NEW m \in 1..Len(placed.f) PROVE call.f[9 + m] = placed.f[m]
  <2> DEFINE n == Len(placed.f)
  <2>0. n \in 0..8 /\ DOMAIN placed.f = 1..n /\ m \in 1..n
    BY <1>7, <1>9
  <2> HIDE DEF n
  <2>1. m \in DOMAIN placed.f
    BY <2>0
  <2>2. m \in 1..8
    BY <2>0
  <2>3. 9 + m \in 10..17 /\ (9 + m) - 9 = m
    BY <2>2
  <2> QED BY <1>0, <1>1, <2>1, <2>3
<1>10. ASSUME NEW i \in 1..N, NEW k \in 1..Integers[list[i].kind]
       PROVE  call.x[(11 + Before(list, i, Integers)) + (k - 1)] = taken(i).x[k]
  <2> DEFINE n == Before(list, i, Integers)
  <2>1. n \in Nat
    BY SizesAreNatural, BeforeIsNatural DEF N
  <2>2. k \in Int
    BY <1>2, SizesAreNatural
  <2>3. n + k \in 1..Len(placed.x) /\ placed.x[n + k] = taken(i).x[k]
    BY <1>7
  <2> HIDE DEF n
  <2>4. (11 + n) + (k - 1) = 10 + (n + k)
    BY <2>1, <2>2
  <2>5. call.x[10 + (n + k)] = placed.x[n + k]
    BY <1>8, <2>3
  <2>6. call.x[(11 + n) + (k - 1)] = taken(i).x[k]
    BY <2>3, <2>4, <2>5
  <2> QED BY <2>6 DEF n
<1>11. ASSUME NEW i \in 1..N, NEW k \in 1..Floats[list[i].kind]
       PROVE  call.f[(10 + Before(list, i, Floats)) + (k - 1)] = taken(i).f[k]
  <2> DEFINE n == Before(list, i, Floats)
  <2>1. n \in Nat
    BY SizesAreNatural, BeforeIsNatural DEF N
  <2>2. k \in Int
    BY <1>2, SizesAreNatural
  <2>3. n + k \in 1..Len(placed.f) /\ placed.f[n + k] = taken(i).f[k]
    BY <1>7
  <2> HIDE DEF n
  <2>4. (10 + n) + (k - 1) = 9 + (n + k)
    BY <2>1, <2>2
  <2>5. call.f[9 + (n + k)] = placed.f[n + k]
    BY <1>9, <2>3
  <2>6. call.f[(10 + n) + (k - 1)] = taken(i).f[k]
    BY <2>3, <2>4, <2>5
  <2> QED BY <2>6 DEF n
<1>12. PlacedUnboxed(call, mem)
  <2> SUFFICES ASSUME NEW i \in DOMAIN list
               PROVE  InItsRegisters(list, i, Address(call, i), call.x, call.f, mem)
    BY <1>0 DEF PlacedUnboxed
  <2> DEFINE x == 11 + Before(list, i, Integers)
             f == 10 + Before(list, i, Floats)
  <2>1. i \in 1..N
    BY <1>2
  <2>2. x \in Int /\ f \in Int
    <3> DEFINE xn == Before(list, i, Integers)
               fn == Before(list, i, Floats)
    <3>1. xn \in Nat /\ fn \in Nat
      BY <2>1, SizesAreNatural, BeforeIsNatural DEF N
    <3> HIDE DEF xn, fn
    <3>2. 11 + xn \in Int /\ 10 + fn \in Int
      BY <3>1
    <3> QED BY <3>2 DEF xn, fn
  <2>3. /\ \A k \in 1..Integers[list[i].kind] : call.x[x + (k - 1)] = taken(i).x[k]
        /\ \A k \in 1..Floats[list[i].kind] : call.f[f + (k - 1)] = taken(i).f[k]
    BY <1>10, <1>11, <2>1
  <2> HIDE DEF x, f
  <2>4. x + (1 - 1) = x /\ x + (2 - 1) = x + 1 /\ f + (1 - 1) = f /\ f + (2 - 1) = f + 1
    BY <2>2
  <2>5. 1 \in 1..1 /\ 1 \in 1..2 /\ 2 \in 1..2
    OBVIOUS
  <2>6. ASSUME list[i].kind = "integer" PROVE call.x[x] = Word(list[i].value, 0)
    <3>1. Integers[list[i].kind] = 1 /\ taken(i).x = <<Word(list[i].value, 0)>>
      BY <2>6 DEF Integers, Registers, Kinds
    <3> QED BY <2>3, <2>4, <2>5, <3>1
  <2>7. ASSUME list[i].kind = "float" PROVE call.f[f] = Word(list[i].value, 0)
    <3>1. Floats[list[i].kind] = 1 /\ taken(i).f = <<Word(list[i].value, 0)>>
      BY <2>7 DEF Floats, Registers, Kinds
    <3> QED BY <2>3, <2>4, <2>5, <3>1
  <2>8. ASSUME list[i].kind = "vector2"
        PROVE  call.f[f] = Word(list[i].value, 0) /\ call.f[f + 1] = Word(list[i].value, 1)
    <3>1. Floats[list[i].kind] = 2 /\ taken(i).f = <<Word(list[i].value, 0), Word(list[i].value, 1)>>
      BY <2>8 DEF Floats, Registers, Kinds
    <3> QED BY <2>3, <2>4, <2>5, <3>1
  <2>9. ASSUME list[i].kind = "two_integers"
        PROVE  call.x[x] = Word(list[i].value, 0) /\ call.x[x + 1] = Word(list[i].value, 1)
    <3>1. Integers[list[i].kind] = 2 /\ taken(i).x = <<Word(list[i].value, 0), Word(list[i].value, 1)>>
      BY <2>9 DEF Integers, Registers, Kinds
    <3> QED BY <2>3, <2>4, <2>5, <3>1
  <2>10. ASSUME list[i].kind = "other"
         PROVE  call.x[x] = Pointer(Address(call, i)) /\ Written(mem, Address(call, i), list[i].value)
    <3>1. Integers[list[i].kind] = 1 /\ taken(i).x = <<Pointer(data + 3 * i)>>
      BY <2>10 DEF Integers, Registers, Kinds
    <3>2. Address(call, i) = data + 3 * i
      <4>1. i \in 0..N
        BY <1>2
      <4> QED BY <1>5, <4>1
    <3>3. \A part \in 0..2 : At(mem, data + 3 * i + part) = Word(list[i].value, part)
      BY <1>0, <1>1, <1>6, <2>10 DEF Stand
    <3>4. call.x[x] = Pointer(data + 3 * i)
      BY <2>3, <2>4, <2>5, <3>1
    <3> HIDE DEF taken
    <3> QED BY <3>2, <3>3, <3>4 DEF Written
  <2> QED BY <2>6, <2>7, <2>8, <2>9, <2>10 DEF x, f, InItsRegisters
<1>13. b.x[10] = Pointer(b.result)
  <2>1. 10 \in 10..17
    OBVIOUS
  <2> QED BY <1>1, <2>1
<1>14. /\ b.sp \in Int /\ b.sp <= sp /\ b.result \in Int /\ b.sp <= b.result
       /\ N <= 7 => b.result = Address(call, 0)
       /\ Address(call, N) + 2 < sp /\ b.result + 2 < sp
  <2>1. Address(call, 0) = data + 3 * 0 /\ Address(call, N) = data + 3 * N
    <3>1. 0 \in 0..N /\ N \in 0..N
      BY <1>2
    <3> QED BY <1>5, <3>1
  <2> QED BY <1>1, <1>2, <1>4, <2>1
<1>15. ASSUME NEW w \in DOMAIN b.words PROVE w \in Int /\ b.sp <= w /\ w < sp
  <2>1. w \in Int /\ data + 3 <= w /\ w <= data + 3 * N + 2
    <3>1. w \in DOMAIN v
      BY <1>1, <1>15, Zenon
    <3>2. \A u \in DOMAIN v : u \in Int /\ data + 3 <= u /\ u <= data + 3 * N + 2
      BY <1>6 DEF Stand, N
    <3> QED BY <3>1, <3>2
  <2>2. data <= w /\ w < sp
    <3>1. data \in Int /\ data + 3 <= w /\ w <= data + 3 * N + 2 /\ data <= sp - 3 * (N + 1)
      BY <1>4, <2>1
    <3> HIDE DEF v, taken
    <3> QED BY <1>2, <2>1, <3>1
  <2>3. b.sp = data
    BY <1>1
  <2> QED BY <2>1, <2>2, <2>3
<1> QED BY <1>0, <1>12, <1>13, <1>14, <1>15 DEF N, Found, Placed

-----------------------------------------------------------------------------
(* What a function finds.                                                   *)

LEMMA ParameterIsFound ==
  ASSUME NEW call, Shaped(call), NEW mem, Placed(call, mem), NEW i \in DOMAIN call.given
  PROVE  Parameter(call, mem, i) = call.given[i].value
<1> DEFINE kind == call.given[i].kind
           is == call.given[i].value
           a == Address(call, i)
           x == 11 + Before(call.given, i, Integers)
           f == 10 + Before(call.given, i, Floats)
<1>1. /\ Len(call.given) \in Nat /\ i \in 1..Len(call.given) /\ kind \in Kinds
      /\ call.sp \in Int /\ call.boxed \in BOOLEAN
  BY DEF Shaped, WellKept, IsList
<1>2. a \in Int
  <2>1. 3 * i \in Int /\ (IF call.boxed THEN Overflowing(call.given) ELSE 0) \in Int
    BY <1>1 DEF Overflowing
  <2> QED BY <1>1, <2>1 DEF Address, VariantWords
<1>3. ASSUME Written(mem, a, is) PROVE AtPointer(mem, Pointer(a)) = is
  <2>1. VariantAt(mem, a) = is
    BY <1>2, <1>3, VariantIsRead
  <2> QED BY <2>1, PointersLead DEF AtPointer
<1>4. Both(Word(is, 0), Word(is, 1)) = is /\ Word(is, 0).is = is
  BY DEF Both, Word
<1> HIDE DEF a
<1>5. CASE call.boxed
  <2> DEFINE word == IF i <= 7 THEN call.x[10 + i] ELSE At(mem, call.sp + i - 8)
  <2>1. /\ Written(mem, a, is)
        /\ i <= 7 => call.x[10 + i] = Pointer(a)
        /\ i > 7 => At(mem, call.sp + i - 8) = Pointer(a)
    BY <1>5 DEF Placed, PlacedBoxed, a
  <2>2. word = Pointer(a)
    <3>1. i <= 7 \/ i > 7
      BY <1>1
    <3> QED BY <1>1, <2>1, <3>1
  <2>3. Parameter(call, mem, i) = AtPointer(mem, word)
    BY <1>5 DEF Parameter
  <2> HIDE DEF word
  <2> QED BY <1>3, <2>1, <2>2, <2>3
<1>6. CASE ~call.boxed
  <2>1. /\ kind = "integer" => call.x[x] = Word(is, 0)
        /\ kind = "float" => call.f[f] = Word(is, 0)
        /\ kind = "vector2" => call.f[f] = Word(is, 0) /\ call.f[f + 1] = Word(is, 1)
        /\ kind = "two_integers" => call.x[x] = Word(is, 0) /\ call.x[x + 1] = Word(is, 1)
        /\ kind = "other" => call.x[x] = Pointer(a) /\ Written(mem, a, is)
    BY <1>6 DEF Placed, PlacedUnboxed, InItsRegisters, a
  <2>2. Parameter(call, mem, i) =
          CASE kind = "integer" -> call.x[x].is
            [] kind = "float" -> call.f[f].is
            [] kind = "vector2" -> Both(call.f[f], call.f[f + 1])
            [] kind = "two_integers" -> Both(call.x[x], call.x[x + 1])
            [] OTHER -> AtPointer(mem, call.x[x])
    <3> HIDE DEF x, f
    <3>1. CASE kind = "integer"
      BY <1>6, <3>1 DEF Parameter, x
    <3>2. CASE kind = "float"
      BY <1>6, <3>2 DEF Parameter, f
    <3>3. CASE kind = "vector2"
      BY <1>6, <3>3 DEF Parameter, f
    <3>4. CASE kind = "two_integers"
      BY <1>6, <3>4 DEF Parameter, x
    <3>5. CASE kind = "other"
      BY <1>6, <3>5 DEF Parameter, x
    <3> QED BY <1>1, <3>1, <3>2, <3>3, <3>4, <3>5 DEF Kinds
  <2> HIDE DEF x, f
  <2>3. CASE kind = "integer"
    BY <1>4, <2>1, <2>2, <2>3
  <2>4. CASE kind = "float"
    BY <1>4, <2>1, <2>2, <2>4
  <2>5. CASE kind = "vector2"
    BY <1>4, <2>1, <2>2, <2>5
  <2>6. CASE kind = "two_integers"
    BY <1>4, <2>1, <2>2, <2>6
  <2>7. CASE kind = "other"
    BY <1>3, <2>1, <2>2, <2>7
  <2> QED BY <1>1, <2>3, <2>4, <2>5, <2>6, <2>7 DEF Kinds
<1> QED BY <1>1, <1>5, <1>6

-----------------------------------------------------------------------------
(* What memory a call depends on.                                           *)

ArgumentWords(call) ==
  {Address(call, i) + part : i \in DOMAIN call.given, part \in 0..2} \cup
  {call.sp + i - 8 : i \in {i \in DOMAIN call.given : i > 7}}

LEMMA PlacedIsKept ==
  ASSUME NEW call, NEW mem, NEW new, Placed(call, mem),
         \A w \in ArgumentWords(call) : At(new, w) = At(mem, w)
  PROVE  Placed(call, new)
<1>1. ASSUME NEW i \in DOMAIN call.given, NEW is, Written(mem, Address(call, i), is)
      PROVE  Written(new, Address(call, i), is)
  BY <1>1 DEF ArgumentWords, Written
<1>2. ASSUME NEW i \in DOMAIN call.given, i > 7
      PROVE  At(new, call.sp + i - 8) = At(mem, call.sp + i - 8)
  <2>1. call.sp + i - 8 \in ArgumentWords(call)
    BY <1>2 DEF ArgumentWords
  <2> QED BY <2>1
<1>3. CASE call.boxed
  BY <1>1, <1>2, <1>3 DEF Placed, PlacedBoxed
<1>4. CASE ~call.boxed
  BY <1>1, <1>4 DEF Placed, PlacedUnboxed, InItsRegisters
<1> QED BY <1>3, <1>4

LEMMA ArgumentsStandAbove ==
  ASSUME NEW call, Shaped(call), NEW w \in ArgumentWords(call)
  PROVE  /\ w \in Int /\ call.sp <= w
         /\ Len(call.given) <= 7 => call.result + 2 < w
<1> DEFINE N == Len(call.given)
           over == IF call.boxed THEN Overflowing(call.given) ELSE 0
           sp == call.sp
<1>1. N \in Nat /\ DOMAIN call.given = 1..N /\ sp \in Int
  BY DEF Shaped, WellKept, IsList
<1>2. over \in Nat
  BY <1>1 DEF Overflowing
<1>3. \A i : Address(call, i) = sp + 3 * i + over
  BY DEF Address, VariantWords
<1>4. N <= 7 => call.result = sp + 3 * 0 + over
  BY <1>3 DEF Shaped
<1>5. \/ \E i \in 1..N, part \in 0..2 : w = sp + 3 * i + over + part
      \/ \E i \in 1..N : i > 7 /\ w = sp + i - 8
  BY <1>1, <1>3 DEF ArgumentWords
<1> HIDE DEF N, over, sp
<1>6. ASSUME NEW i \in 1..N, NEW part \in 0..2, w = sp + 3 * i + over + part
      PROVE  w \in Int /\ sp <= w /\ sp + 3 * 0 + over + 2 < w
  BY <1>1, <1>2, <1>6
<1>7. ASSUME NEW i \in 1..N, i > 7, w = sp + i - 8
      PROVE  w \in Int /\ sp <= w /\ ~(N <= 7)
  BY <1>1, <1>7
<1>8. w \in Int /\ sp <= w /\ (N <= 7 => call.result + 2 < w)
  BY <1>4, <1>5, <1>6, <1>7
<1> QED BY <1>8 DEF N, sp

(* Nothing at or above its frame is changed.                                *)
LEMMA CallIsKept ==
  ASSUME NEW call, Shaped(call), NEW depth, NEW mem, Kept(call, depth, mem),
         NEW new, \A w \in Int : call.low <= w => At(new, w) = At(mem, w)
  PROVE  Kept(call, depth, new)
<1>1. call.low \in Int /\ call.sp \in Int /\ call.result \in Int
      /\ call.low <= call.sp /\ call.sp <= call.result
  BY DEF Shaped
<1>2. \A w \in call.low..call.sp - 1 : At(new, w) = Local(depth)
  <2>1. \A w \in call.low..call.sp - 1 : w \in Int /\ call.low <= w
    BY <1>1
  <2> QED BY <2>1 DEF Kept
<1>3. Placed(call, new)
  <2>1. \A w \in ArgumentWords(call) : w \in Int /\ call.sp <= w
    BY ArgumentsStandAbove
  <2>2. \A w \in ArgumentWords(call) : call.low <= w
    BY <1>1, <2>1
  <2>3. Placed(call, mem)
    BY DEF Kept
  <2> QED BY <2>1, <2>2, <2>3, PlacedIsKept
<1>4. ASSUME call.wrote PROVE Written(new, call.result, ResultOf(depth))
  <2>1. \A part \in 0..2 : call.result + part \in Int /\ call.low <= call.result + part
    BY <1>1
  <2>2. Written(mem, call.result, ResultOf(depth))
    BY <1>4 DEF Kept
  <2> QED BY <2>1, <2>2 DEF Written
<1> QED BY <1>2, <1>3, <1>4 DEF Kept

(* A guest function writes its result.                                      *)
LEMMA ResultIsWritten ==
  ASSUME NEW call, Shaped(call), NEW mem, NEW depth
  PROVE  /\ Written(WithResult(mem, call, depth), call.result, ResultOf(depth))
         /\ \A w \in Int : w < call.result \/ call.result + 2 < w =>
              At(WithResult(mem, call, depth), w) = At(mem, w)
<1> DEFINE a == call.result
           words == [w \in a..a + 2 |-> Word(ResultOf(depth), w - a)]
           new == WithResult(mem, call, depth)
<1>1. a \in Int /\ call.x[10].is[2] = a
  BY PointersLead DEF Shaped
<1>2. new = Over(words, mem)
  BY <1>1 DEF WithResult
<1>3. \A w : At(new, w) = IF w \in a..a + 2 THEN words[w] ELSE At(mem, w)
  <2>1. DOMAIN words = a..a + 2
    OBVIOUS
  <2> HIDE DEF words, new
  <2> QED BY <1>2, <2>1, WrittenOver
<1> HIDE DEF new
<1>4. ASSUME NEW part \in 0..2 PROVE At(new, a + part) = Word(ResultOf(depth), part)
  <2>1. a + part \in a..a + 2 /\ (a + part) - a = part
    BY <1>1
  <2>2. words[a + part] = Word(ResultOf(depth), part)
    BY <2>1
  <2> QED BY <1>3, <2>1, <2>2
<1>5. \A w \in Int : w < a \/ a + 2 < w => w \notin a..a + 2
  BY <1>1
<1>6. Written(new, a, ResultOf(depth))
  BY <1>4 DEF Written
<1>7. \A w \in Int : w < a \/ a + 2 < w => At(new, w) = At(mem, w)
  <2> HIDE DEF words
  <2> QED BY <1>3, <1>5
<1> QED BY <1>6, <1>7 DEF new

-----------------------------------------------------------------------------
(* Calls.                                                                   *)

(* Calls in progress, each of which is below those it was made from.        *)
Nested(calls) ==
  /\ IsList(calls) /\ \A depth \in DOMAIN calls : Shaped(calls[depth])
  /\ \A d, e \in DOMAIN calls : d < e => EndsBelow(calls[e], calls[d].low)
RunningInv ==
  /\ Nested(running) /\ unboxed \in BOOLEAN
  /\ \A depth \in DOMAIN running : Kept(running[depth], depth, stack)
CallablesInv ==
  /\ DOMAIN callables = Callables
  /\ \A c \in Callables : callables[c] = NotMade \/ Bound(callables[c])
ArgumentsInv == RunningInv /\ CallablesInv /\ answer.came = answer.written

LEMMA LowestIsLast ==
  ASSUME NEW calls, Nested(calls)
  PROVE  /\ PointerBelow(calls) \in Int
         /\ \A d \in DOMAIN calls : PointerBelow(calls) <= calls[d].low
<1> DEFINE n == Len(calls)
<1>1. n \in Nat /\ DOMAIN calls = 1..n /\ (calls = <<>> <=> n = 0)
  BY DEF Nested, IsList
<1>2. CASE calls = <<>>
  BY <1>1, <1>2 DEF PointerBelow
<1>3. CASE calls # <<>>
  <2>1. n \in 1..n
    BY <1>1, <1>3
  <2>2. PointerBelow(calls) = calls[n].low
    BY <1>3 DEF PointerBelow, Last
  <2> HIDE DEF n
  <2>3. /\ calls[n].low \in Int /\ calls[n].sp \in Int /\ calls[n].result \in Int
        /\ calls[n].low <= calls[n].sp /\ calls[n].sp <= calls[n].result
    BY <1>1, <2>1 DEF Nested, Shaped
  <2>4. ASSUME NEW d \in 1..n PROVE calls[n].low <= calls[d].low
    <3>1. CASE d = n
      BY <2>3, <3>1
    <3>2. CASE d # n
      <4>1. d < n
        BY <1>1, <3>2
      <4>2. calls[n].result + 2 < calls[d].low
        BY <1>1, <2>1, <4>1 DEF Nested, EndsBelow
      <4>3. calls[d].low \in Int
        BY <1>1 DEF Nested, Shaped
      <4> QED BY <2>3, <4>2, <4>3
    <3> QED BY <3>1, <3>2
  <2> QED BY <1>1, <2>2, <2>3, <2>4
<1> QED BY <1>2, <1>3

(* What setup_arguments leaves for a call that is not refused.              *)
LEMMA ArgumentsArePlaced ==
  ASSUME unboxed \in BOOLEAN,
         NEW sp \in Int, NEW list, WellKept(list), ~Refused(list),
         NEW b, b = setup_arguments(sp, list),
         NEW call, Entered(call, b, list), call.boxed = ~unboxed, NEW mem, Has(mem, b.words)
  PROVE  Found(b, call, mem, sp)
<1>1. CASE unboxed
  <2>1. b = setup_unboxed(sp, list)
    BY <1>1 DEF setup_arguments
  <2>2. call.boxed = FALSE
    BY <1>1
  <2> DEFINE first == setup_arguments_native(0, list)
  <2>3. Len(first.x) <= 7 /\ Len(first.f) <= 8
    <3>1. ~(Len(first.x) > 7) /\ ~(Len(first.f) > 8)
      BY <1>1 DEF Refused
    <3>2. IsList(first.x) /\ IsList(first.f)
      BY NativeInTurn DEF NativelyPlaced
    <3> HIDE DEF first
    <3>3. Len(first.x) \in Nat /\ Len(first.f) \in Nat
      BY <3>2 DEF IsList
    <3> QED BY <3>1, <3>3
  <2> QED BY <2>1, <2>2, <2>3, UnboxedArePlaced
<1>2. CASE ~unboxed
  <2>1. b = setup_boxed(sp, list)
    BY <1>2 DEF setup_arguments
  <2>2. call.boxed = TRUE
    BY <1>2
  <2> QED BY <2>1, <2>2, BoxedArePlaced
<1> QED BY <1>1, <1>2

LEMMA NewCallIsKept ==
  ASSUME RunningInv, NEW list, WellKept(list), NEW given, given = list,
         vmcall_internal(list, given), UNCHANGED unboxed
  PROVE  RunningInv' /\ answer'.came = answer'.written
<1> DEFINE n == Len(running)
           sp == PointerBelow(running) - (IF running = <<>> THEN 0 ELSE 2)
           b == setup_arguments(sp, list)
           low == b.sp - FrameWords
           call == [given |-> given, boxed |-> ~unboxed, x |-> b.x, f |-> b.f, sp |-> b.sp,
                    low |-> low, result |-> b.result, wrote |-> FALSE]
           frame == [w \in low..b.sp - 1 |-> Local(n + 1)]
<1>1. /\ ~Refused(list) /\ stack' = Over(frame, Over(b.words, stack))
      /\ running' = Append(running, call) /\ answer' = NoAnswer
  BY DEF vmcall_internal
<1>2. n \in Nat /\ DOMAIN running = 1..n /\ IsList(running) /\ unboxed \in BOOLEAN
  BY DEF RunningInv, Nested, IsList
<1>3. sp \in Int /\ \A d \in 1..n : sp <= running[d].low
  <2>1. \A d \in 1..n : running[d].low \in Int
    BY <1>2 DEF RunningInv, Nested, Shaped
  <2>2. PointerBelow(running) \in Int /\ \A d \in 1..n : PointerBelow(running) <= running[d].low
    BY <1>2, LowestIsLast DEF RunningInv
  <2> DEFINE top == PointerBelow(running)
             gap == IF running = <<>> THEN 0 ELSE 2
  <2>3. gap \in 0..2
    OBVIOUS
  <2> HIDE DEF top, gap, n
  <2>4. top - gap \in Int /\ \A d \in 1..n : top - gap <= running[d].low
    BY <2>1, <2>2, <2>3 DEF top
  <2> QED BY <2>4 DEF top, gap
<1>4. /\ call.given = list /\ call.boxed = ~unboxed /\ call.x = b.x /\ call.f = b.f /\ call.sp = b.sp
      /\ call.low = low /\ call.result = b.result /\ call.wrote = FALSE
      /\ DOMAIN call = {"given", "boxed", "x", "f", "sp", "low", "result", "wrote"}
  OBVIOUS
<1>0. b = setup_arguments(sp, list)
  OBVIOUS
<1> HIDE DEF sp, b, call
<1>5. /\ b.sp \in Int /\ b.sp <= sp
      /\ \A w \in DOMAIN b.words : w \in Int /\ b.sp <= w /\ w < sp
      /\ Entered(call, b, list)
  <2>1. Has(b.words, b.words)
    BY DEF At, Has
  <2>2. Entered(call, b, list)
    BY <1>4 DEF Entered
  <2>3. Found(b, call, b.words, sp)
    BY <1>0, <1>1, <1>2, <1>3, <1>4, <2>1, <2>2, ArgumentsArePlaced
  <2> QED BY <2>2, <2>3 DEF Found
<1>6. low \in Int /\ low <= b.sp /\ DOMAIN frame = low..b.sp - 1
  <2>1. FrameWords \in Nat
    BY ArgumentsAssumption
  <2> QED BY <1>5, <2>1
<1>7. /\ \A w \in low..b.sp - 1 : At(stack', w) = Local(n + 1)
      /\ \A w \in DOMAIN b.words : At(stack', w) = b.words[w]
      /\ \A w \in Int : sp <= w => At(stack', w) = At(stack, w)
  <2>1. \A w : At(stack', w) = IF w \in DOMAIN frame THEN frame[w]
                               ELSE IF w \in DOMAIN b.words THEN b.words[w] ELSE At(stack, w)
    <3> DEFINE under == Over(b.words, stack)
    <3>1. \A w : At(under, w) = IF w \in DOMAIN b.words THEN b.words[w] ELSE At(stack, w)
      BY WrittenOver
    <3> HIDE DEF frame, under
    <3>2. stack' = Over(frame, under)
      BY <1>1 DEF under
    <3>3. \A w : At(stack', w) = IF w \in DOMAIN frame THEN frame[w] ELSE At(under, w)
      BY <3>2, WrittenOver
    <3> QED BY <3>1, <3>3
  <2>2. \A w \in low..b.sp - 1 : frame[w] = Local(n + 1)
    OBVIOUS
  <2> HIDE DEF frame, low
  <2>3. \A w \in DOMAIN b.words : w \notin low..b.sp - 1
    BY <1>5, <1>6
  <2>5. \A w \in Int : sp <= w => w \notin low..b.sp - 1 /\ w \notin DOMAIN b.words
    BY <1>3, <1>5, <1>6
  <2> QED BY <1>6, <2>1, <2>2, <2>3, <2>5
<1> HIDE DEF low, frame
<1>8. /\ b.sp \in Int /\ b.sp <= sp /\ b.result \in Int /\ b.sp <= b.result
      /\ Address(call, Len(list)) + 2 < sp /\ b.result + 2 < sp
      /\ Len(list) <= 7 => b.result = Address(call, 0)
      /\ b.x[10] = Pointer(b.result)
      /\ Placed(call, stack')
  <2>1. Has(stack', b.words)
    BY <1>7 DEF Has
  <2>2. Found(b, call, stack', sp)
    BY <1>0, <1>1, <1>2, <1>3, <1>4, <1>5, <2>1, ArgumentsArePlaced
  <2> QED BY <1>4, <2>2 DEF Found
<1>9. Shaped(call) /\ Kept(call, n + 1, stack')
  <2>1. call.boxed \in BOOLEAN
    BY <1>2, <1>4
  <2>2. Shaped(call)
    BY <1>4, <1>6, <1>8, <2>1 DEF Shaped
  <2>3. Kept(call, n + 1, stack')
    BY <1>4, <1>7, <1>8 DEF Kept
  <2> QED BY <2>2, <2>3
<1>10. ASSUME NEW d \in 1..n PROVE Kept(running[d], d, stack')
  <2>1. /\ Shaped(running[d]) /\ Kept(running[d], d, stack) /\ running[d].low \in Int
        /\ sp <= running[d].low
    BY <1>2, <1>3 DEF RunningInv, Nested, Shaped
  <2>2. \A w \in Int : running[d].low <= w => At(stack', w) = At(stack, w)
    BY <1>3, <1>7, <2>1
  <2> QED BY <2>1, <2>2, CallIsKept
<1>11. ASSUME NEW d \in 1..n PROVE EndsBelow(call, running[d].low)
  <2>1. sp <= running[d].low /\ running[d].low \in Int
    BY <1>2, <1>3 DEF RunningInv, Nested, Shaped
  <2>2. Address(call, Len(list)) \in Int
    <3>1. call.sp \in Int /\ Len(list) \in Nat
      BY <1>4, <1>8 DEF WellKept, IsList
    <3>2. (IF call.boxed THEN Overflowing(call.given) ELSE 0) \in Int
      BY <1>4, <3>1 DEF Overflowing
    <3> QED BY <3>1, <3>2 DEF Address, VariantWords
  <2>3. Address(call, Len(list)) + 2 < running[d].low /\ b.result + 2 < running[d].low
    BY <1>3, <1>8, <2>1, <2>2
  <2> QED BY <1>4, <2>3 DEF EndsBelow
<1>12. /\ IsList(running') /\ DOMAIN running' = 1..n + 1
       /\ running'[n + 1] = call /\ \A d \in 1..n : running'[d] = running[d]
  <2> DEFINE S == Range(running) \cup {call}
  <2>1. running \in Seq(S)
    <3>1. running \in Seq(Range(running)) /\ Range(running) \subseteq S
      BY <1>2 DEF IsList
    <3> QED BY <3>1, SeqMonotonic
  <2>2. call \in S
    OBVIOUS
  <2> HIDE DEF S
  <2>3. /\ running' \in Seq(S) /\ Len(running') = n + 1 /\ running'[n + 1] = call
        /\ \A d \in 1..n : running'[d] = running[d]
    BY <1>1, <2>1, <2>2, AppendProperties
  <2> QED BY <2>3, ListOfMembers
<1> HIDE DEF n
<1>13. \A d \in 1..n + 1 : d = n + 1 \/ d \in 1..n
  BY <1>2
<1>14. \A d \in 1..n + 1 : Shaped(running'[d]) /\ Kept(running'[d], d, stack')
  BY <1>2, <1>9, <1>10, <1>12, <1>13 DEF RunningInv, Nested
<1>15. ASSUME NEW d \in 1..n + 1, NEW e \in 1..n + 1, d < e
       PROVE  EndsBelow(running'[e], running'[d].low)
  <2>1. d \in 1..n
    BY <1>2, <1>15
  <2>2. CASE e = n + 1
    BY <1>11, <1>12, <2>1, <2>2
  <2>3. CASE e \in 1..n
    BY <1>2, <1>12, <1>15, <2>1, <2>3 DEF RunningInv, Nested
  <2> QED BY <1>13, <2>2, <2>3
<1>16. answer'.came = answer'.written
  BY <1>1 DEF NoAnswer
<1> QED BY <1>2, <1>12, <1>14, <1>15, <1>16 DEF RunningInv, Nested

(* Lists whose elements are known.                                          *)
LEMMA ListOfElements ==
  ASSUME NEW n \in Nat, NEW s, s = [i \in 1..n |-> s[i]]
  PROVE  IsList(s) /\ Len(s) = n /\ DOMAIN s = 1..n
<1>1. DOMAIN s = 1..n
  BY Zenon
<1>2. \A i \in 1..n : s[i] \in Range(s)
  BY <1>1 DEF Range
<1>3. [i \in 1..n |-> s[i]] \in Seq(Range(s))
  BY <1>2, IsASeq
<1>4. s \in Seq(Range(s))
  BY <1>3
<1> QED BY <1>1, <1>4 DEF IsList

(* A function that needs no more of its arguments writes its result, which *)
(* is below them.                                                           *)
LEMMA WritingIsKept ==
  ASSUME NEW call, Shaped(call), Len(call.given) <= 7, NEW depth, NEW mem, Kept(call, depth, mem),
         NEW new, new = [call EXCEPT !.wrote = TRUE]
  PROVE  Shaped(new) /\ Kept(new, depth, WithResult(mem, call, depth))
<1> DEFINE after == WithResult(mem, call, depth)
<1>1. /\ DOMAIN new = DOMAIN call /\ new.wrote = TRUE
      /\ new.given = call.given /\ new.boxed = call.boxed /\ new.x = call.x /\ new.f = call.f
      /\ new.sp = call.sp /\ new.low = call.low /\ new.result = call.result
  <2>1. "wrote" \in DOMAIN call
    BY DEF Shaped
  <2>2. \A field \in DOMAIN call : field # "wrote" => new[field] = call[field]
    BY <2>1
  <2> QED BY <2>1, <2>2 DEF Shaped
<1>2. \A i : Address(new, i) = Address(call, i)
  BY <1>1 DEF Address
<1>3. Shaped(new)
  BY <1>1, <1>2 DEF Shaped
<1>4. /\ Written(after, call.result, ResultOf(depth))
      /\ \A w \in Int : w < call.result \/ call.result + 2 < w => At(after, w) = At(mem, w)
  BY ResultIsWritten
<1> HIDE DEF after
<1>5. \A w \in new.low..new.sp - 1 : At(after, w) = Local(depth)
  <2>1. \A w \in call.low..call.sp - 1 : w \in Int /\ w < call.result
    BY DEF Shaped
  <2>2. \A w \in call.low..call.sp - 1 : At(mem, w) = Local(depth)
    BY DEF Kept
  <2> QED BY <1>1, <1>4, <2>1, <2>2
<1>6. Placed(call, after)
  <2>1. \A w \in ArgumentWords(call) : w \in Int /\ call.result + 2 < w
    BY ArgumentsStandAbove
  <2>2. Placed(call, mem)
    BY DEF Kept
  <2> QED BY <1>4, <2>1, <2>2, PlacedIsKept
<1>7. Placed(new, after)
  <2>1. CASE call.boxed
    <3>1. PlacedBoxed(call, after)
      BY <1>6, <2>1 DEF Placed
    <3>2. PlacedBoxed(new, after)
      BY <1>1, <1>2, <3>1 DEF PlacedBoxed
    <3> QED BY <1>1, <2>1, <3>2 DEF Placed
  <2>2. CASE ~call.boxed
    <3>1. PlacedUnboxed(call, after)
      BY <1>6, <2>2 DEF Placed
    <3>2. PlacedUnboxed(new, after)
      BY <1>1, <1>2, <3>1 DEF PlacedUnboxed
    <3> QED BY <1>1, <2>2, <3>2 DEF Placed
  <2> QED BY <2>1, <2>2
<1>8. Kept(new, depth, after)
  BY <1>1, <1>4, <1>5, <1>7 DEF Kept
<1> QED BY <1>3, <1>8 DEF after

(* The calls below the innermost are not reached by its result.             *)
LEMMA OthersAreKept ==
  ASSUME RunningInv, running # <<>>, NEW d \in 1..Len(running) - 1
  PROVE  LET n == Len(running)
         IN  \A w \in Int : running[d].low <= w =>
               At(WithResult(stack, running[n], n), w) = At(stack, w)
<1> DEFINE n == Len(running)
<1>1. n \in Nat /\ DOMAIN running = 1..n
  BY DEF RunningInv, Nested, IsList
<1>2. d \in 1..n /\ n \in 1..n /\ d < n
  BY <1>1
<1> HIDE DEF n
<1>3. Shaped(running[n]) /\ Shaped(running[d]) /\ EndsBelow(running[n], running[d].low)
  BY <1>1, <1>2 DEF RunningInv, Nested
<1>4. /\ running[n].result + 2 < running[d].low
      /\ running[n].result \in Int /\ running[d].low \in Int
  BY <1>3 DEF EndsBelow, Shaped
<1>5. \A w \in Int : running[d].low <= w => running[n].result + 2 < w
  BY <1>4
<1>6. \A w \in Int : running[n].result + 2 < w =>
        At(WithResult(stack, running[n], n), w) = At(stack, w)
  BY <1>3, ResultIsWritten
<1> QED BY <1>5, <1>6 DEF n

-----------------------------------------------------------------------------
(* Operations.                                                              *)

(* write_result leaves every call what it had.                              *)
LEMMA WriteResultIsSafe ==
  ASSUME MaxEarly <= 7, RunningInv, write_result
  PROVE  RunningInv'
<1> DEFINE n == Len(running)
           call == running[n]
           new == [call EXCEPT !.wrote = TRUE]
<1>1. n \in Nat /\ DOMAIN running = 1..n /\ running # <<>> /\ n \in 1..n
  <2>1. n \in Nat /\ DOMAIN running = 1..n /\ running # <<>>
    BY DEF RunningInv, Nested, IsList, write_result
  <2> QED BY <2>1
<1>2. /\ Len(call.given) <= MaxEarly
      /\ stack' = WithResult(stack, call, n)
      /\ running' = [running EXCEPT ![n].wrote = TRUE] /\ unboxed' = unboxed
  BY DEF write_result, Last
<1>3. /\ running' = [d \in 1..n |-> running'[d]]
      /\ running'[n] = new /\ \A d \in 1..n : d # n => running'[d] = running[d]
  BY <1>1, <1>2
<1>4. Shaped(call) /\ Kept(call, n, stack)
  BY <1>1 DEF RunningInv, Nested
<1> HIDE DEF n, new
<1>5. Len(call.given) <= 7
  <2>1. Len(call.given) \in Nat /\ MaxEarly \in Nat
    BY <1>4, ArgumentsAssumption DEF Shaped, WellKept, IsList
  <2> DEFINE many == Len(call.given)
  <2>2. many \in Nat /\ many <= MaxEarly
    BY <1>2, <2>1
  <2> HIDE DEF many
  <2>3. many <= 7
    BY <2>1, <2>2
  <2> QED BY <2>3 DEF many
<1>6. Shaped(new) /\ Kept(new, n, stack')
  <2> HIDE DEF call
  <2> QED BY <1>2, <1>4, <1>5, WritingIsKept DEF new
<1>7. /\ new.low = call.low /\ new.result = call.result
      /\ new.sp = call.sp /\ new.given = call.given /\ new.boxed = call.boxed
  BY <1>4 DEF Shaped, new
<1>8. /\ \A top : EndsBelow(call, top) => EndsBelow(new, top)
  BY <1>7 DEF EndsBelow, Address
<1>9. ASSUME NEW d \in 1..n, d # n PROVE Kept(running[d], d, stack')
  <2>1. d \in 1..n - 1
    BY <1>1, <1>9
  <2>2. \A w \in Int : running[d].low <= w => At(stack', w) = At(stack, w)
    BY <1>1, <1>2, <2>1, OthersAreKept DEF n
  <2>3. Shaped(running[d]) /\ Kept(running[d], d, stack)
    BY <1>1, <1>9 DEF RunningInv, Nested
  <2> QED BY <2>2, <2>3, CallIsKept
<1>10. /\ IsList(running') /\ DOMAIN running' = 1..n
       /\ \A d \in 1..n : Shaped(running'[d]) /\ Kept(running'[d], d, stack')
  <2>1. IsList(running') /\ DOMAIN running' = 1..n
    BY <1>1, <1>3, ListOfElements
  <2>2. \A d \in 1..n : Shaped(running[d])
    BY <1>1 DEF RunningInv, Nested
  <2> QED BY <1>3, <1>6, <1>9, <2>1, <2>2
<1>11. ASSUME NEW d \in 1..n, NEW e \in 1..n, d < e
       PROVE  EndsBelow(running'[e], running'[d].low)
  <2>1. EndsBelow(running[e], running[d].low) /\ d # n
    BY <1>1, <1>11 DEF RunningInv, Nested
  <2>2. CASE e = n
    BY <1>3, <1>8, <2>1, <2>2
  <2>3. CASE e # n
    BY <1>3, <2>1, <2>3
  <2> QED BY <2>2, <2>3
<1> QED BY <1>2, <1>10, <1>11 DEF RunningInv, Nested

(* returns leaves the calls below what they had, and the result written is  *)
(* the one that comes back.                                                 *)
LEMMA ReturnsIsSafe ==
  ASSUME RunningInv, returns
  PROVE  RunningInv' /\ answer'.came = answer'.written
<1> DEFINE n == Len(running)
           call == running[n]
           mem == IF call.wrote THEN stack ELSE WithResult(stack, call, n)
           bottom == PointerBelow(Front(running))
<1>1. n \in Nat /\ DOMAIN running = 1..n /\ running # <<>> /\ n \in 1..n /\ IsList(running)
  <2>1. n \in Nat /\ DOMAIN running = 1..n /\ running # <<>> /\ IsList(running)
    BY DEF RunningInv, Nested, IsList, returns
  <2> QED BY <2>1
<1>2. /\ answer' = [written |-> ResultOf(n), came |-> VariantAt(mem, call.result)]
      /\ stack' = Restrict(mem, {w \in DOMAIN mem : w >= bottom})
      /\ running' = Front(running) /\ unboxed' = unboxed
  BY DEF returns, Last
<1>3. Shaped(call) /\ Kept(call, n, stack) /\ call.result \in Int
  BY <1>1 DEF RunningInv, Nested, Shaped
<1> HIDE DEF n, call
<1>4. Written(mem, call.result, ResultOf(n))
  <2>1. CASE call.wrote
    BY <1>3, <2>1 DEF Kept
  <2>2. CASE ~call.wrote
    BY <1>3, <2>2, ResultIsWritten
  <2> QED BY <2>1, <2>2
<1>5. ASSUME NEW d \in 1..n - 1, NEW w \in Int, running[d].low <= w
      PROVE  At(mem, w) = At(stack, w)
  <2>1. At(WithResult(stack, call, n), w) = At(stack, w)
    BY <1>1, <1>5, OthersAreKept DEF n, call
  <2> QED BY <2>1
<1> HIDE DEF mem
<1>6. answer'.came = answer'.written
  <2>1. VariantAt(mem, call.result) = ResultOf(n)
    BY <1>3, <1>4, VariantIsRead
  <2> QED BY <1>2, <2>1
<1>7. /\ IsList(running') /\ DOMAIN running' = 1..n - 1
      /\ \A d \in 1..n - 1 : running'[d] = running[d]
  <2>1. /\ 1 \in Int /\ n - 1 \in Int /\ (n - 1) - 1 + 1 = n - 1
        /\ IF 1 <= n - 1 THEN TRUE ELSE n - 1 = 0
        /\ \A d \in 1..n - 1 : d \in 1..n /\ 1 + d - 1 = d
    BY <1>1
  <2> DEFINE S == Range(running)
  <2>2. \A d \in 1..n - 1 : running[d] \in S
    BY <1>1, <2>1 DEF Range
  <2> HIDE DEF S
  <2>3. running' = SubSeq(running, 1, n - 1)
    BY <1>2 DEF Front, n
  <2>4. /\ running' \in Seq(S) /\ Len(running') = IF 1 <= n - 1 THEN (n - 1) - 1 + 1 ELSE 0
        /\ \A d \in 1..(n - 1) - 1 + 1 : running'[d] = running[1 + d - 1]
    BY <2>1, <2>2, <2>3, SubSeqProperties
  <2>5. Len(running') = n - 1 /\ \A d \in 1..n - 1 : running'[d] = running[d]
    BY <2>1, <2>4
  <2>6. DOMAIN running' = 1..n - 1
    BY <2>4, <2>5
  <2> QED BY <2>4, <2>5, <2>6, ListOfMembers
<1>8. \A d \in 1..n - 1 : d \in 1..n
  BY <1>1
<1>9. Nested(running')
  <2>1. \A d \in 1..n - 1 : Shaped(running'[d])
    BY <1>1, <1>7, <1>8 DEF RunningInv, Nested
  <2>2. \A d, e \in 1..n - 1 : d < e => EndsBelow(running'[e], running'[d].low)
    BY <1>1, <1>7, <1>8 DEF RunningInv, Nested
  <2> QED BY <1>7, <2>1, <2>2 DEF Nested
<1>10. bottom \in Int /\ \A d \in 1..n - 1 : bottom <= running[d].low
  <2>1. /\ PointerBelow(running') \in Int
        /\ \A d \in DOMAIN running' : PointerBelow(running') <= running'[d].low
    BY <1>9, LowestIsLast
  <2> QED BY <1>2, <1>7, <2>1
<1> HIDE DEF bottom
<1>11. ASSUME NEW d \in 1..n - 1 PROVE Kept(running[d], d, stack')
  <2>1. Shaped(running[d]) /\ Kept(running[d], d, stack) /\ running[d].low \in Int
    BY <1>1, <1>8 DEF RunningInv, Nested, Shaped
  <2>2. ASSUME NEW w \in Int, running[d].low <= w PROVE At(stack', w) = At(stack, w)
    <3>1. bottom <= running[d].low
      BY <1>10
    <3>2. w >= bottom
      BY <1>10, <2>1, <2>2, <3>1
    <3>3. DOMAIN stack' = {u \in DOMAIN mem : u >= bottom} /\ \A u \in DOMAIN stack' : stack'[u] = mem[u]
      BY <1>2 DEF Restrict
    <3>4. At(stack', w) = At(mem, w)
      BY <3>2, <3>3 DEF At
    <3> QED BY <1>5, <2>2, <3>4
  <2> QED BY <2>1, <2>2, CallIsKept
<1> QED BY <1>2, <1>6, <1>7, <1>9, <1>11 DEF RunningInv

LEMMA ListsAreWellKept ==
  ASSUME NEW list \in Arguments \cup NestedArguments \cup BoundArguments PROVE WellKept(list)
BY ArgumentsAssumption DEF WellKept, IsList

LEMMA VmcallIsSafe ==
  ASSUME ArgumentsInv, NEW list \in ListsNow, vmcall(list)
  PROVE  ArgumentsInv'
<1>1. list \in Arguments \cup NestedArguments \cup BoundArguments
  BY DEF ListsNow
<1>2. WellKept(list)
  BY <1>1, ListsAreWellKept
<1>3. RunningInv' /\ answer'.came = answer'.written
  BY <1>2, NewCallIsKept DEF ArgumentsInv, vmcall
<1>4. CallablesInv'
  BY DEF ArgumentsInv, CallablesInv, vmcall
<1> QED BY <1>3, <1>4 DEF ArgumentsInv

(* A callable that is made has its arguments where its calls expect them.   *)
LEMMA CallableIsMade ==
  ASSUME ArgumentsInv, NEW c \in Callables, NEW bound \in BoundArguments, vmcallable(c, bound)
  PROVE  ArgumentsInv'
<1> DEFINE made == [bound |-> bound,
                    m_varargs_ptrs |-> [i \in Slots8 |-> IF i \in DOMAIN bound THEN bound[i]
                                                         ELSE NoArgument]]
<1>1. WellKept(bound)
  BY ListsAreWellKept
<1>2. Bound(made)
  BY <1>1 DEF Bound
<1>3. callables' = [callables EXCEPT ![c] = made]
  BY DEF vmcallable
<1> HIDE DEF made
<1>4. CallablesInv'
  BY <1>2, <1>3 DEF ArgumentsInv, CallablesInv
<1>5. RunningInv' /\ answer' = answer
  BY DEF ArgumentsInv, RunningInv, vmcallable
<1> QED BY <1>4, <1>5 DEF ArgumentsInv

(* The array of a callable then begins with the arguments bound to it and   *)
(* the given ones after them.                                               *)
ArrayFor(callable, list) ==
  [i \in Slots8 |-> IF i - Len(callable.bound) \in DOMAIN list
                    THEN list[i - Len(callable.bound)] ELSE callable.m_varargs_ptrs[i]]
BoundFirst(callable, list, pointers, total) ==
  /\ WellKept(SubSeq(pointers, 1, total))
  /\ callable.bound \o list = SubSeq(pointers, 1, total)
  /\ Bound([callable EXCEPT !.m_varargs_ptrs = pointers])

LEMMA BoundComeFirst ==
  ASSUME NEW callable, Bound(callable), NEW list, WellKept(list),
         NEW total, total = Len(callable.bound) + Len(list), total <= 8,
         NEW pointers, pointers = ArrayFor(callable, list)
  PROVE  BoundFirst(callable, list, pointers, total)
<1> DEFINE bound == callable.bound
           m == Len(bound)
           n == Len(list)
           all == bound \o list
           S == Range(bound) \cup Range(list)
<1>1. /\ m \in Nat /\ n \in Nat /\ DOMAIN bound = 1..m /\ DOMAIN list = 1..n
      /\ IsList(bound) /\ IsList(list)
  BY DEF Bound, WellKept, IsList
<1>2. bound \in Seq(S) /\ list \in Seq(S)
  <2>1. bound \in Seq(Range(bound)) /\ list \in Seq(Range(list))
    BY <1>1 DEF IsList
  <2> QED BY <2>1, SeqMonotonic
<1>3. \A kept \in S : kept.kind \in Kinds
  BY DEF Range, Bound, WellKept
<1>4. /\ \A i \in 1..m : callable.m_varargs_ptrs[i] = bound[i]
      /\ "m_varargs_ptrs" \in DOMAIN callable /\ "bound" \in DOMAIN callable
      /\ DOMAIN callable = {"bound", "m_varargs_ptrs"} /\ WellKept(bound)
  <2>1. \A i \in 1..m : i \in Slots8
    <3>1. m + n <= 8
      OBVIOUS
    <3> HIDE DEF m, n
    <3> QED BY <1>1, <3>1 DEF Slots8
  <2> QED BY <1>1, <2>1 DEF Bound
<1>5. total = m + n /\ total \in Nat /\ total <= 8
  BY <1>1
<1> HIDE DEF S, m, n, bound
<1>6. /\ all \in Seq(S) /\ Len(all) = total
      /\ \A i \in 1..total : all[i] = IF i <= m THEN bound[i] ELSE list[i - m]
  BY <1>2, <1>5, ConcatProperties DEF m, n
<1> HIDE DEF all
<1>7. /\ pointers = [i \in Slots8 |-> IF i - m \in 1..n THEN list[i - m] ELSE callable.m_varargs_ptrs[i]]
      /\ DOMAIN pointers = Slots8
  BY <1>1 DEF bound, m, ArrayFor
<1>8. \A i \in 1..m : i \in Slots8 /\ ~(i - m \in 1..n)
  BY <1>1, <1>5 DEF Slots8
<1>9. \A i \in 1..total : /\ i \in Slots8
                          /\ i <= m => i \in 1..m
                          /\ ~(i <= m) => i - m \in 1..n
  <2> SUFFICES ASSUME NEW i \in 1..total
               PROVE  i \in 1..8 /\ (i <= m => i \in 1..m) /\ (~(i <= m) => i - m \in 1..n)
    BY DEF Slots8
  <2>1. m \in Nat /\ n \in Nat /\ total = m + n /\ total <= 8 /\ total \in Nat
    BY <1>1, <1>5
  <2> HIDE DEF all
  <2> QED BY <2>1
<1>10. \A i \in 1..m : pointers[i] = bound[i]
  BY <1>4, <1>7, <1>8
<1>11. \A i \in 1..total : pointers[i] = all[i]
  <2> SUFFICES ASSUME NEW i \in 1..total PROVE pointers[i] = all[i]
    OBVIOUS
  <2>1. CASE i <= m
    BY <1>6, <1>9, <1>10, <2>1
  <2>2. CASE ~(i <= m)
    BY <1>6, <1>7, <1>9, <2>2
  <2> QED BY <2>1, <2>2
<1>12. SubSeq(pointers, 1, total) = all
  <2> DEFINE s == SubSeq(pointers, 1, total)
  <2>1. /\ 1 \in Int /\ total \in Int /\ total - 1 + 1 = total
        /\ (IF 1 <= total THEN total - 1 + 1 ELSE 0) = total
        /\ \A i \in 1..total : 1 + i - 1 = i
    BY <1>5
  <2>2. \A i \in 1..total : pointers[i] \in S
    <3>1. \A i \in 1..total : all[i] \in S
      BY <1>6
    <3> QED BY <1>11, <3>1
  <2>3. /\ s \in Seq(S) /\ Len(s) = IF 1 <= total THEN total - 1 + 1 ELSE 0
        /\ \A i \in 1..total - 1 + 1 : s[i] = pointers[1 + i - 1]
    BY <2>1, <2>2, SubSeqProperties
  <2> HIDE DEF s
  <2>4. Len(s) = total /\ \A i \in 1..total : s[i] = pointers[i]
    BY <2>1, <2>3
  <2>5. s = [i \in 1..total |-> s[i]] /\ all = [i \in 1..total |-> all[i]]
    BY <1>6, <2>3, <2>4
  <2>6. \A i \in 1..total : s[i] = all[i]
    BY <1>11, <2>4
  <2>7. s = all
    BY <2>5, <2>6
  <2> QED BY <2>7 DEF s
<1>13. WellKept(all)
  <2>1. \A i \in DOMAIN all : all[i].kind \in Kinds
    BY <1>3, <1>6
  <2>2. IsList(all)
    BY <1>6, ListOfMembers
  <2> QED BY <2>1, <2>2 DEF WellKept
<1>14. Bound([callable EXCEPT !.m_varargs_ptrs = pointers])
  <2> DEFINE after == [callable EXCEPT !.m_varargs_ptrs = pointers]
  <2>1. DOMAIN after = DOMAIN callable /\ after.m_varargs_ptrs = pointers /\ after.bound = bound
    BY <1>4 DEF bound
  <2> HIDE DEF after
  <2>2. \A i \in Slots8 \cap DOMAIN bound : pointers[i] = bound[i]
    BY <1>1, <1>10
  <2>3. Bound(after)
    BY <1>4, <1>7, <2>1, <2>2 DEF Bound
  <2> QED BY <2>3 DEF after
<1> QED BY <1>12, <1>13, <1>14 DEF all, bound, BoundFirst

(* RiscvCallable::call: the function gets the bound arguments and the given *)
(* ones.                                                                    *)
LEMMA CallableIsCalled ==
  ASSUME ArgumentsInv, NEW c \in Callables, NEW list \in NestedArguments, call_callable(c, list)
  PROVE  ArgumentsInv'
<1> DEFINE callable == callables[c]
           total == Len(callable.bound) + Len(list)
           pointers == [i \in Slots8 |->
                          IF i - Len(callable.bound) \in DOMAIN list
                          THEN list[i - Len(callable.bound)] ELSE callable.m_varargs_ptrs[i]]
           passed == SubSeq(pointers, 1, total)
<1>1. WellKept(list)
  BY ListsAreWellKept
<1>2. RunningInv /\ Bound(callable) /\ unboxed' = unboxed
  BY DEF ArgumentsInv, CallablesInv, call_callable
<1>3. CASE /\ total <= 8 /\ callables' = [callables EXCEPT ![c].m_varargs_ptrs = pointers]
           /\ vmcall_internal(passed, callable.bound \o list)
  <2>1. /\ WellKept(passed) /\ callable.bound \o list = passed
        /\ Bound([callable EXCEPT !.m_varargs_ptrs = pointers])
    <3>1. total = Len(callable.bound) + Len(list) /\ pointers = ArrayFor(callable, list)
      BY DEF ArrayFor
    <3> HIDE DEF pointers, total, callable
    <3>2. total <= 8 /\ Bound(callable)
      BY <1>2, <1>3
    <3>3. BoundFirst(callable, list, pointers, total)
      BY <1>1, <3>1, <3>2, BoundComeFirst
    <3> QED BY <3>3 DEF passed, BoundFirst
  <2> HIDE DEF pointers, passed, total
  <2>2. RunningInv' /\ answer'.came = answer'.written
    BY <1>2, <1>3, <2>1, NewCallIsKept
  <2>3. CallablesInv'
    <3>1. callables' = [callables EXCEPT ![c] = [callable EXCEPT !.m_varargs_ptrs = pointers]]
      BY <1>3
    <3> QED BY <2>1, <3>1 DEF ArgumentsInv, CallablesInv
  <2> QED BY <2>2, <2>3 DEF ArgumentsInv
<1>4. CASE vmcall_internal(list, list) /\ UNCHANGED callables
  <2>1. RunningInv' /\ answer'.came = answer'.written
    BY <1>1, <1>2, <1>4, NewCallIsKept
  <2>2. CallablesInv'
    BY <1>4 DEF ArgumentsInv, CallablesInv
  <2> QED BY <2>1, <2>2 DEF ArgumentsInv
<1> HIDE DEF passed, pointers, total
<1> QED BY <1>3, <1>4 DEF call_callable, passed, pointers, total

-----------------------------------------------------------------------------
(* The invariant holds.                                                     *)

LEMMA ArgumentsInvAtFirst == ASSUME ArgumentsInit PROVE ArgumentsInv
<1>1. IsList(<<>>) /\ DOMAIN <<>> = {}
  BY DEF IsList
<1>2. RunningInv
  BY <1>1 DEF ArgumentsInit, RunningInv, Nested
<1>3. CallablesInv
  BY DEF ArgumentsInit, CallablesInv
<1>4. answer.came = answer.written
  BY DEF ArgumentsInit, NoAnswer
<1> QED BY <1>2, <1>3, <1>4 DEF ArgumentsInv

LEMMA ArgumentsInvIsInductive ==
  ASSUME MaxEarly <= 7, ArgumentsInv, [ArgumentsNext]_argument_vars
  PROVE  ArgumentsInv'
<1>1. ASSUME NEW list \in ListsNow, vmcall(list) PROVE ArgumentsInv'
  BY <1>1, VmcallIsSafe
<1>2. ASSUME NEW list \in ListsNow, vmcall_refused(list) PROVE ArgumentsInv'
  BY <1>2 DEF ArgumentsInv, RunningInv, CallablesInv, vmcall_refused, NoAnswer
<1>3. CASE write_result
  <2>1. RunningInv'
    BY <1>3, WriteResultIsSafe DEF ArgumentsInv
  <2> QED BY <1>3, <2>1 DEF ArgumentsInv, CallablesInv, write_result
<1>4. CASE returns
  <2>1. RunningInv' /\ answer'.came = answer'.written
    BY <1>4, ReturnsIsSafe DEF ArgumentsInv
  <2>2. callables' = callables
    BY <1>4 DEF returns
  <2> QED BY <2>1, <2>2 DEF ArgumentsInv, CallablesInv
<1>5. CASE set_unboxed_arguments
  BY <1>5 DEF ArgumentsInv, RunningInv, CallablesInv, set_unboxed_arguments, NoAnswer
<1>6. ASSUME NEW c \in Callables, NEW bound \in BoundArguments,
             (running = <<>> /\ vmcallable(c, bound)) \/ api_callable_create(c, bound)
      PROVE  ArgumentsInv'
  BY <1>6, CallableIsMade DEF api_callable_create
<1>7. ASSUME NEW c \in Callables, NEW list \in NestedArguments, call_callable(c, list)
      PROVE  ArgumentsInv'
  BY <1>7, CallableIsCalled
<1>8. CASE UNCHANGED argument_vars
  BY <1>8 DEF ArgumentsInv, RunningInv, CallablesInv, argument_vars
<1> QED BY <1>1, <1>2, <1>3, <1>4, <1>5, <1>6, <1>7, <1>8 DEF ArgumentsNext

LEMMA ArgumentsInvSuffices == ASSUME ArgumentsInv PROVE ArgumentsArrive
<1>1. ASSUME NEW depth \in DOMAIN running
      PROVE  /\ \A i \in DOMAIN running[depth].given :
                  Parameter(running[depth], stack, i) = running[depth].given[i].value
             /\ \A w \in running[depth].low..running[depth].sp - 1 : At(stack, w) = Local(depth)
  <2> DEFINE call == running[depth]
  <2>1. Shaped(call) /\ Kept(call, depth, stack)
    BY <1>1 DEF ArgumentsInv, RunningInv, Nested
  <2> HIDE DEF call
  <2>2. Placed(call, stack) /\ \A w \in call.low..call.sp - 1 : At(stack, w) = Local(depth)
    BY <2>1 DEF Kept
  <2>3. \A i \in DOMAIN call.given : Parameter(call, stack, i) = call.given[i].value
    BY <2>1, <2>2, ParameterIsFound
  <2> QED BY <2>2, <2>3 DEF call
<1>2. answer.came = answer.written
  BY DEF ArgumentsInv
<1> QED BY <1>1, <1>2 DEF ArgumentsArrive

(* The arguments of every call in progress are where its function looks for *)
(* them, bound ones first, its frame is its own, and the result that comes  *)
(* back is the one written (setup_arguments, vmcallable.h), as long as a    *)
(* function of more than seven arguments, whose result has the place of one *)
(* of them, writes it after it has read them.                               *)
THEOREM ArgumentsAlwaysArrive == ASSUME MaxEarly <= 7 PROVE ArgumentsSpec => []ArgumentsArrive
<1>1. ArgumentsInit => ArgumentsInv
  BY ArgumentsInvAtFirst
<1>2. ArgumentsInv /\ [ArgumentsNext]_argument_vars => ArgumentsInv'
  BY ArgumentsInvIsInductive
<1>3. ArgumentsInv => ArgumentsArrive
  BY ArgumentsInvSuffices
<1> QED BY <1>1, <1>2, <1>3, PTL DEF ArgumentsSpec
=============================================================================
