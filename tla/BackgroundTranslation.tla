------------------------ MODULE BackgroundTranslation ------------------------
(***************************************************************************)
(* Background translations (sandbox.cpp).  A load may hand the translation *)
(* of the program to a thread of its own; the threads are kept in a list   *)
(* behind a mutex, reaped when a later load starts another one, and joined *)
(* by Deinitialize() before the extension is unloaded, because the code    *)
(* they run is unmapped then.                                              *)
(*                                                                         *)
(* Loads run on the threads in Loaders; the thread a load creates has the  *)
(* identity of the load's turn.  The engine calls Deinitialize() when no   *)
(* load is in progress and starts none afterwards (register_types.cpp).    *)
(***************************************************************************)
EXTENDS Naturals, Sequences, SequencesExt

CONSTANTS
  Loaders,   \* threads that load programs
  Workers,   \* the translation threads that can be created
  Unloader,  \* the thread that unloads the extension
  NoOne

ASSUME TranslationAssumption ==
  /\ Loaders \cap Workers = {}
  /\ NoOne \notin Loaders \cup Workers \cup {Unloader}
  /\ Unloader \notin Loaders

VARIABLES
  worker,        \* "none", "steps", "done" (the flag is set), "exited", "joined"
  pc,            \* of the loaders, in start_background_translation
  own,           \* the thread object a loader holds
  at,            \* the loader's position in the list it reaps
  mutex,         \* background_translations_mutex: its holder, or NoOne
  translations,  \* background_translations
  unload,        \* of Deinitialize: "not yet", "locked", "joins", "finished"
  pending        \* the list it took over

vars == <<worker, pc, own, at, mutex, translations, unload, pending>>

Init == /\ worker = [w \in Workers |-> "none"]
        /\ pc = [t \in Loaders |-> "idle"]
        /\ own = [t \in Loaders |-> NoOne]
        /\ at = [t \in Loaders |-> 0]
        /\ mutex = NoOne
        /\ translations = <<>>
        /\ unload = "not yet" /\ pending = <<>>

-----------------------------------------------------------------------------
(* A translation thread. *)

(* The step returns or throws; the flag is set in either case.             *)
set_done(w) == /\ worker[w] = "steps"
               /\ worker' = [worker EXCEPT ![w] = "done"]
               /\ UNCHANGED <<pc, own, at, mutex, translations, unload, pending>>

exit(w) == /\ worker[w] = "done"
           /\ worker' = [worker EXCEPT ![w] = "exited"]
           /\ UNCHANGED <<pc, own, at, mutex, translations, unload, pending>>

-----------------------------------------------------------------------------
(* start_background_translation.  The thread runs before it is listed.     *)

create_thread(t) ==
  /\ pc[t] = "idle" /\ unload = "not yet"
  /\ \E w \in Workers : /\ worker[w] = "none"
                        /\ worker' = [worker EXCEPT ![w] = "steps"]
                        /\ own' = [own EXCEPT ![t] = w]
  /\ pc' = [pc EXCEPT ![t] = "locks"]
  /\ UNCHANGED <<at, mutex, translations, unload, pending>>

lock(t) == /\ pc[t] = "locks" /\ mutex = NoOne
           /\ mutex' = t
           /\ pc' = [pc EXCEPT ![t] = "reaps"]
           /\ at' = [at EXCEPT ![t] = 1]
           /\ UNCHANGED <<worker, own, translations, unload, pending>>

(* One turn of the loop: pass over a thread that is not done, or go to     *)
(* join the one that is.                                                   *)
examine(t) ==
  /\ pc[t] = "reaps" /\ at[t] <= Len(translations)
  /\ IF worker[translations[at[t]]] \in {"done", "exited"}
     THEN pc' = [pc EXCEPT ![t] = "joins"] /\ at' = at
     ELSE at' = [at EXCEPT ![t] = @ + 1] /\ pc' = pc
  /\ UNCHANGED <<worker, own, mutex, translations, unload, pending>>

(* Definitions named ..._Mutant are the next definition with a plausible   *)
(* mistake in it; no other definition uses them.                           *)
join_Mutant(t) ==
  /\ pc[t] = "joins" /\ worker[translations[at[t]]] = "exited"
  /\ worker' = [worker EXCEPT ![translations[at[t]]] = "joined"]
  /\ pc' = [pc EXCEPT ![t] = "reaps"]
  /\ at' = [at EXCEPT ![t] = @ + 1]
  /\ UNCHANGED <<own, mutex, translations, unload, pending>>

(* join() waits for the thread to exit; then its entry is erased.          *)
join(t) ==
  /\ pc[t] = "joins" /\ worker[translations[at[t]]] = "exited"
  /\ worker' = [worker EXCEPT ![translations[at[t]]] = "joined"]
  /\ translations' = RemoveAt(translations, at[t])
  /\ pc' = [pc EXCEPT ![t] = "reaps"]
  /\ UNCHANGED <<own, at, mutex, unload, pending>>

push_back_Mutant(t) ==
  /\ pc[t] = "reaps" /\ at[t] > Len(translations)
  /\ translations' = Append(translations, own[t])
  /\ own' = [own EXCEPT ![t] = NoOne]
  /\ pc' = [pc EXCEPT ![t] = "idle"]
  /\ UNCHANGED <<worker, at, mutex, unload, pending>>

push_back(t) ==
  /\ pc[t] = "reaps" /\ at[t] > Len(translations)
  /\ translations' = Append(translations, own[t])
  /\ own' = [own EXCEPT ![t] = NoOne]
  /\ pc' = [pc EXCEPT ![t] = "idle"]
  /\ mutex' = NoOne
  /\ UNCHANGED <<worker, at, unload, pending>>

-----------------------------------------------------------------------------
(* Deinitialize. *)

lock_for_unload ==
  /\ unload = "not yet" /\ mutex = NoOne
  /\ \A t \in Loaders : pc[t] = "idle"
  /\ mutex' = Unloader /\ unload' = "locked"
  /\ UNCHANGED <<worker, pc, own, at, translations, pending>>

swap == /\ unload = "locked"
        /\ pending' = translations /\ translations' = pending
        /\ mutex' = NoOne /\ unload' = "joins"
        /\ UNCHANGED <<worker, pc, own, at>>

join_first == /\ unload = "joins" /\ pending # <<>>
              /\ worker[Head(pending)] = "exited"
              /\ worker' = [worker EXCEPT ![Head(pending)] = "joined"]
              /\ pending' = Tail(pending)
              /\ UNCHANGED <<pc, own, at, mutex, translations, unload>>

finish == /\ unload = "joins" /\ pending = <<>>
          /\ unload' = "finished"
          /\ UNCHANGED <<worker, pc, own, at, mutex, translations, pending>>

(* Nothing is left to do. *)
unloaded == /\ unload = "finished"
            /\ UNCHANGED vars

Deinitialize == lock_for_unload \/ swap \/ join_first \/ finish

Load(t) == create_thread(t) \/ lock(t) \/ examine(t) \/ join(t) \/ push_back(t)

Next == \/ \E w \in Workers : set_done(w) \/ exit(w)
        \/ \E t \in Loaders : Load(t)
        \/ Deinitialize
        \/ unloaded

Spec == Init /\ [][Next]_vars

(* Translations end, a load that has begun goes on, and so does unloading. *)
(* The mutex need not be fair: there are only so many loads.               *)
Fairness ==
  /\ \A w \in Workers : WF_vars(set_done(w) \/ exit(w))
  /\ \A t \in Loaders : WF_vars(lock(t) \/ examine(t) \/ join(t) \/ push_back(t))
  /\ WF_vars(swap \/ join_first \/ finish)

FairSpec == Spec /\ Fairness

-----------------------------------------------------------------------------
(* No translation thread is left when Deinitialize() returns: the code it  *)
(* would run is gone.                                                      *)
NothingRunsUnloaded ==
  unload = "finished" => \A w \in Workers : worker[w] \in {"none", "joined"}

(* Whatever thread was created is accounted for exactly once, so that it   *)
(* is joined once (a std::thread that is destroyed unjoined, or joined     *)
(* twice, ends the process), and when all is unloaded none is left; the    *)
(* list a loader walks changes under nobody.                               *)
EveryThreadIsOwnedOnce ==
  LET listed == translations \o pending
  IN  /\ \A i, j \in 1..Len(listed) : listed[i] = listed[j] => i = j
      /\ \A w \in Workers :
           worker[w] \in {"steps", "done", "exited"} <=>
             \/ \E i \in 1..Len(listed) : listed[i] = w
             \/ \E t \in Loaders : own[t] = w
      /\ NothingRunsUnloaded

(* Every load comes to list its thread, whoever reaps and joins meanwhile, *)
(* and unloading, once begun, comes to an end.                             *)
LoadsAndUnloadEnd ==
  /\ \A t \in Loaders : pc[t] # "idle" ~> pc[t] = "idle"
  /\ unload = "locked" ~> unload = "finished"
=============================================================================
