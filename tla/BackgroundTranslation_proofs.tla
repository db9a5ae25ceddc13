-------------------- MODULE BackgroundTranslation_proofs --------------------
(* Theorems about BackgroundTranslation, for any numbers of loads and       *)
(* translation threads.                                                     *)
EXTENDS BackgroundTranslation, SequenceTheorems, TLAPS

Live == {"steps", "done", "exited"}

(* Deinitialize() takes the list over: one of the two is always empty, and  *)
(* the other has the threads that are to be joined.                         *)
Taken == unload \in {"joins", "finished"}
listed == IF Taken THEN pending ELSE translations

Typed ==
  /\ worker \in [Workers -> Live \cup {"none", "joined"}]
  /\ pc \in [Loaders -> {"idle", "locks", "reaps", "joins"}]
  /\ own \in [Loaders -> Workers \cup {NoOne}]
  /\ at \in [Loaders -> Nat]
  /\ unload \in {"not yet", "locked", "joins", "finished"}
  /\ listed \in Seq(Workers)
  /\ IF Taken THEN translations = <<>> ELSE pending = <<>>
  /\ unload = "finished" => listed = <<>>

(* A loader in the list holds the mutex, and looks at an entry or past the  *)
(* last one; the unloader finds no loader at work.                          *)
AtWork(t) ==
  /\ pc[t] \in {"reaps", "joins"} <=> mutex = t
  /\ pc[t] \in {"reaps", "joins"} => at[t] >= 1
  /\ pc[t] = "joins" => at[t] <= Len(listed)
  /\ unload # "not yet" => pc[t] = "idle"
  /\ pc[t] = "idle" <=> own[t] = NoOne

Guarded ==
  /\ mutex \in Loaders \cup {Unloader, NoOne}
  /\ mutex = Unloader <=> unload = "locked"
  /\ \A t \in Loaders : AtWork(t)

(* Whom a live thread belongs to: one entry of the list or one loader.      *)
Entries(w) == {i \in 1..Len(listed) : listed[i] = w}
Holders(w) == {t \in Loaders : own[t] = w}

Owned ==
  /\ \A i, j \in 1..Len(listed) : listed[i] = listed[j] => i = j
  /\ \A t, u \in Loaders : own[t] = own[u] /\ own[t] # NoOne => t = u
  /\ \A w \in Workers : Entries(w) = {} \/ Holders(w) = {}
  /\ \A w \in Workers : worker[w] \in Live <=> Entries(w) # {} \/ Holders(w) # {}

TranslationInv == Typed /\ Guarded /\ Owned

(* Erasing an entry moves those behind it to the front by one.              *)
LEMMA RemoveAtProperties ==
  ASSUME NEW S, NEW s \in Seq(S), NEW i \in 1..Len(s)
  PROVE  /\ RemoveAt(s, i) \in Seq(S) /\ Len(RemoveAt(s, i)) = Len(s) - 1
         /\ \A j \in 1..Len(s) - 1 : RemoveAt(s, i)[j] = IF j < i THEN s[j] ELSE s[j + 1]
<1> DEFINE front == SubSeq(s, 1, i - 1)
           back == SubSeq(s, i + 1, Len(s))
<1>0. Len(s) \in Nat /\ \A j \in 1..Len(s) : s[j] \in S
  BY LenProperties, ElementOfSeq
<1>1. front \in Seq(S) /\ Len(front) = i - 1 /\ \A j \in 1..i - 1 : front[j] = s[j]
  <2>1. 1 \in Int /\ i - 1 \in Int /\ \A j \in 1..i - 1 : s[j] \in S
    BY <1>0
  <2>2. /\ front \in Seq(S)
        /\ Len(front) = IF 1 <= i - 1 THEN (i - 1) - 1 + 1 ELSE 0
        /\ \A j \in 1..(i - 1) - 1 + 1 : front[j] = s[1 + j - 1]
    BY <2>1, SubSeqProperties
  <2> QED BY <1>0, <2>2
<1>2. /\ back \in Seq(S) /\ Len(back) = Len(s) - i
      /\ \A j \in 1..Len(s) - i : back[j] = s[i + j]
  <2>1. i + 1 \in Int /\ Len(s) \in Int /\ \A j \in i + 1..Len(s) : s[j] \in S
    BY <1>0
  <2>2. /\ back \in Seq(S)
        /\ Len(back) = IF i + 1 <= Len(s) THEN Len(s) - (i + 1) + 1 ELSE 0
        /\ \A j \in 1..Len(s) - (i + 1) + 1 : back[j] = s[i + 1 + j - 1]
    BY <2>1, SubSeqProperties
  <2> QED BY <1>0, <2>2
<1>3. RemoveAt(s, i) = front \o back
  BY DEF RemoveAt
<1>4. /\ front \o back \in Seq(S) /\ Len(front \o back) = Len(front) + Len(back)
      /\ \A j \in 1..Len(front) + Len(back) :
           (front \o back)[j] = IF j <= Len(front) THEN front[j] ELSE back[j - Len(front)]
  BY <1>1, <1>2, ConcatProperties
<1> HIDE DEF front, back
<1> QED BY <1>0, <1>1, <1>2, <1>3, <1>4

LEMMA InitTranslations == Init => TranslationInv
<1> SUFFICES ASSUME Init PROVE TranslationInv
  OBVIOUS
<1>1. translations = <<>> /\ pending = <<>> /\ listed = <<>> /\ ~Taken /\ <<>> \in Seq(Workers)
  BY EmptySeq DEF Init, listed, Taken
<1>2. Typed
  BY <1>1 DEF Init, Typed, Live
<1>3. Guarded
  BY TranslationAssumption DEF Init, Guarded, AtWork
<1>4. 1..Len(listed) = {}
  BY <1>1
<1>5. Owned
  <2>1. \A w \in Workers : Entries(w) = {} /\ Holders(w) = {} /\ worker[w] \notin Live
    BY <1>4, TranslationAssumption DEF Init, Entries, Holders, Live
  <2> QED BY <1>4, <2>1 DEF Init, Owned
<1> QED BY <1>2, <1>3, <1>5 DEF TranslationInv

(* A loader that is not concerned stays where it is.                        *)
LEMMA AtWorkStays ==
  ASSUME NEW t \in Loaders, AtWork(t), listed' = listed, unload' = unload,
         pc'[t] = pc[t], at'[t] = at[t], own'[t] = own[t], mutex' = t <=> mutex = t
  PROVE  AtWork(t)'
BY DEF AtWork

(* A thread that goes on stays whose it is.                                 *)
LEMMA WorkerStep ==
  ASSUME TranslationInv, NEW w \in Workers, set_done(w) \/ exit(w)
  PROVE  TranslationInv'
<1>1. /\ UNCHANGED <<pc, own, at, mutex, translations, unload, pending>>
      /\ \E v \in Live : worker' = [worker EXCEPT ![w] = v]
      /\ worker[w] \in Live
  BY DEF set_done, exit, Live
<1>2. /\ worker' \in [Workers -> Live \cup {"none", "joined"}]
      /\ \A v \in Workers : worker'[v] \in Live <=> worker[v] \in Live
  BY <1>1 DEF TranslationInv, Typed
<1>3. listed' = listed /\ Taken' = Taken
  BY <1>1 DEF listed, Taken
<1>4. Typed'
  BY <1>1, <1>2, <1>3 DEF TranslationInv, Typed
<1>5. Guarded'
  BY <1>1, <1>3, AtWorkStays DEF TranslationInv, Guarded
<1>6. Owned'
  BY <1>1, <1>2, <1>3 DEF TranslationInv, Owned, Entries, Holders
<1> QED BY <1>4, <1>5, <1>6 DEF TranslationInv

(* A new thread belongs to the load that made it.                           *)
LEMMA CreateThread ==
  ASSUME TranslationInv, NEW t \in Loaders, create_thread(t)
  PROVE  TranslationInv'
<1>0. Typed /\ Guarded /\ Owned
  BY DEF TranslationInv
<1>1. PICK w \in Workers : /\ worker[w] = "none" /\ worker' = [worker EXCEPT ![w] = "steps"]
                           /\ own' = [own EXCEPT ![t] = w]
  BY DEF create_thread
<1>2. /\ pc[t] = "idle" /\ unload = "not yet" /\ pc' = [pc EXCEPT ![t] = "locks"]
      /\ UNCHANGED <<at, mutex, translations, unload, pending>>
  BY DEF create_thread
<1>3. listed' = listed /\ Taken' = Taken
  BY <1>2 DEF listed, Taken
<1>4. /\ own[t] = NoOne /\ w # NoOne
      /\ \A u \in Loaders : own[u] # w
      /\ \A i \in 1..Len(listed) : listed[i] # w
  BY <1>0, <1>1, <1>2, TranslationAssumption DEF Guarded, AtWork, Owned, Live, Entries, Holders
<1>5. Typed'
  BY <1>0, <1>1, <1>2, <1>3 DEF Typed, Live
<1>6. Guarded'
  <2>1. ASSUME NEW u \in Loaders, u # t PROVE AtWork(u)'
    <3>1. pc'[u] = pc[u] /\ at'[u] = at[u] /\ own'[u] = own[u]
      BY <1>0, <1>1, <1>2, <2>1 DEF Typed
    <3> QED BY <1>0, <1>2, <1>3, <3>1, AtWorkStays DEF Guarded
  <2>2. AtWork(t)'
    <3>1. pc'[t] = "locks" /\ own'[t] = w
      BY <1>0, <1>1, <1>2 DEF Typed
    <3> QED BY <1>0, <1>2, <1>4, <3>1 DEF Guarded, AtWork
  <2> QED BY <1>0, <1>2, <2>1, <2>2 DEF Guarded
<1>7. /\ Entries(w)' = {} /\ t \in Holders(w)'
      /\ \A v \in Workers : Entries(v)' = Entries(v) /\ (v # w => Holders(v)' = Holders(v))
      /\ worker'[w] \in Live /\ \A v \in Workers : v # w => worker'[v] = worker[v]
  <2>1. worker'[w] \in Live /\ \A v \in Workers : v # w => worker'[v] = worker[v]
    BY <1>0, <1>1 DEF Typed, Live
  <2>2. own'[t] = w /\ \A u \in Loaders : u # t => own'[u] = own[u]
    BY <1>0, <1>1 DEF Typed
  <2>3. \A v \in Workers : Entries(v)' = Entries(v)
    BY <1>3 DEF Entries
  <2>4. Entries(w) = {}
    BY <1>4 DEF Entries
  <2>5. t \in Holders(w)'
    BY <2>2 DEF Holders
  <2>6. ASSUME NEW v \in Workers, v # w PROVE Holders(v)' = Holders(v)
    BY <1>4, <2>2, <2>6, TranslationAssumption DEF Holders
  <2> QED BY <2>1, <2>3, <2>4, <2>5, <2>6
<1>8. \A u, v \in Loaders : own'[u] = own'[v] /\ own'[u] # NoOne => u = v
  BY <1>0, <1>1, <1>4 DEF Owned, Typed
<1>9. Owned'
  BY <1>0, <1>3, <1>7, <1>8 DEF Owned
<1> QED BY <1>5, <1>6, <1>9 DEF TranslationInv

(* Taking the mutex and walking the list change nothing else.               *)
LEMMA Walk ==
  ASSUME TranslationInv, NEW t \in Loaders, lock(t) \/ examine(t)
  PROVE  TranslationInv'
<1>0. Typed /\ Guarded /\ Owned
  BY DEF TranslationInv
<1>1. UNCHANGED <<worker, own, translations, unload, pending>>
  BY DEF lock, examine
<1>2. listed' = listed /\ Taken' = Taken
  BY <1>1 DEF listed, Taken
<1>3. unload = "not yet" /\ translations = listed /\ Len(listed) \in Nat
  <2>1. unload = "not yet"
    BY <1>0 DEF lock, examine, Guarded, AtWork
  <2> QED BY <1>0, <2>1, LenProperties DEF Typed, listed, Taken
<1>4. Owned'
  BY <1>0, <1>1, <1>2 DEF Owned, Entries, Holders
<1>5. ASSUME lock(t) PROVE Typed' /\ Guarded'
  <2>1. /\ pc[t] = "locks" /\ mutex = NoOne /\ mutex' = t
        /\ pc' = [pc EXCEPT ![t] = "reaps"] /\ at' = [at EXCEPT ![t] = 1]
    BY <1>5 DEF lock
  <2>2. Typed'
    BY <1>0, <1>1, <1>2, <2>1 DEF Typed
  <2>3. ASSUME NEW u \in Loaders, u # t PROVE AtWork(u)'
    <3>1. pc'[u] = pc[u] /\ at'[u] = at[u]
      BY <1>0, <2>1, <2>3 DEF Typed
    <3>2. NoOne # u
      BY TranslationAssumption
    <3> QED BY <1>0, <1>1, <1>2, <2>1, <2>3, <3>1, <3>2, AtWorkStays DEF Guarded
  <2>4. AtWork(t)'
    <3>1. pc'[t] = "reaps" /\ at'[t] = 1
      BY <1>0, <2>1 DEF Typed
    <3>2. own[t] # NoOne
      BY <1>0, <2>1 DEF Guarded, AtWork
    <3>3. own'[t] = own[t] /\ unload' = "not yet" /\ mutex' = t
      BY <1>1, <1>3, <2>1
    <3>4. at'[t] >= 1
      BY <3>1, SMT
    <3> QED BY <3>1, <3>2, <3>3, <3>4 DEF AtWork
  <2>5. mutex' # Unloader /\ unload' # "locked"
    BY <1>1, <1>3, <2>1, TranslationAssumption
  <2> QED BY <2>1, <2>2, <2>3, <2>4, <2>5 DEF Guarded
<1>6. ASSUME examine(t) PROVE Typed' /\ Guarded'
  <2>1. /\ pc[t] = "reaps" /\ at[t] <= Len(listed) /\ mutex' = mutex
        /\ \/ pc' = [pc EXCEPT ![t] = "joins"] /\ at' = at
           \/ at' = [at EXCEPT ![t] = @ + 1] /\ pc' = pc
    BY <1>3, <1>6 DEF examine
  <2>2. at[t] \in Nat /\ at[t] + 1 \in Nat /\ at[t] + 1 >= 1 /\ at[t] >= 1
    <3>1. at[t] \in Nat
      BY <1>0 DEF Typed
    <3>2. at[t] >= 1
      BY <1>0, <2>1 DEF Guarded, AtWork
    <3> QED BY <3>1, <3>2
  <2>3. /\ at' \in [Loaders -> Nat]
        /\ pc' \in [Loaders -> {"idle", "locks", "reaps", "joins"}]
    BY <1>0, <2>1, <2>2 DEF Typed
  <2>4. Typed'
    BY <1>0, <1>1, <1>2, <2>3 DEF Typed
  <2>5. ASSUME NEW u \in Loaders, u # t PROVE AtWork(u)'
    <3>1. pc'[u] = pc[u] /\ at'[u] = at[u]
      BY <1>0, <2>1, <2>5 DEF Typed
    <3> QED BY <1>0, <1>1, <1>2, <2>1, <3>1, AtWorkStays DEF Guarded
  <2>6. AtWork(t)'
    <3>1. \/ pc'[t] = "joins" /\ at'[t] = at[t]
          \/ pc'[t] = "reaps" /\ at'[t] = at[t] + 1
      BY <1>0, <2>1 DEF Typed
    <3>2. own[t] # NoOne /\ mutex = t
      BY <1>0, <2>1 DEF Guarded, AtWork
    <3> QED BY <1>1, <1>2, <1>3, <2>1, <2>2, <3>1, <3>2 DEF AtWork
  <2> QED BY <1>0, <1>1, <2>1, <2>4, <2>5, <2>6 DEF Guarded
<1> QED BY <1>4, <1>5, <1>6 DEF TranslationInv

(* A thread that is joined leaves the list and belongs to nobody.           *)
LEMMA OwnedAfterJoin ==
  ASSUME Typed, Owned, NEW k \in 1..Len(listed), NEW gone \in Workers, listed[k] = gone,
         worker' = [worker EXCEPT ![gone] = "joined"], own' = own,
         Len(listed') = Len(listed) - 1,
         \A j \in 1..Len(listed) - 1 :
           listed'[j] = IF j < k THEN listed[j] ELSE listed[j + 1]
  PROVE  /\ Owned'
         /\ worker' \in [Workers -> Live \cup {"none", "joined"}]
<1> DEFINE n == Len(listed)
           old(j) == IF j < k THEN j ELSE j + 1
<1>1. n \in Nat /\ \A j \in 1..n : listed[j] \in Workers
  BY LenProperties, ElementOfSeq DEF Typed
<1>2. \A j \in 1..n - 1 : old(j) \in 1..n /\ old(j) # k /\ listed'[j] = listed[old(j)]
  BY <1>1
<1>3. \A i, j \in 1..n - 1 : old(i) = old(j) => i = j
  BY <1>1
<1>4. \A i \in 1..n : i # k => \E j \in 1..n - 1 : old(j) = i
  <2>1. ASSUME NEW i \in 1..n, i < k PROVE i \in 1..n - 1 /\ old(i) = i
    BY <1>1, <2>1
  <2>2. ASSUME NEW i \in 1..n, i > k PROVE i - 1 \in 1..n - 1 /\ old(i - 1) = i
    BY <1>1, <2>2
  <2>3. \A i \in 1..n : i # k => i < k \/ i > k
    BY <1>1
  <2> QED BY <2>1, <2>2, <2>3
<1>5. worker'[gone] = "joined" /\ \A w \in Workers : w # gone => worker'[w] = worker[w]
  BY <1>1 DEF Typed
<1>6. worker' \in [Workers -> Live \cup {"none", "joined"}]
  BY <1>1 DEF Typed
<1> HIDE DEF old
<1>7. \A i, j \in 1..n - 1 : listed'[i] = listed'[j] => i = j
  BY <1>2, <1>3, SMTT(40) DEF Owned
<1>8. \A w \in Workers : Holders(w)' = Holders(w)
  BY DEF Holders
<1>9. Entries(gone)' = {} /\ Holders(gone) = {}
  <2>1. \A j \in 1..n - 1 : listed'[j] # gone
    BY <1>2 DEF Owned
  <2>2. k \in Entries(gone)
    BY DEF Entries
  <2>3. Entries(gone)' = {}
    BY <2>1 DEF Entries
  <2>4. Holders(gone) = {}
    BY <1>1, <2>2 DEF Owned
  <2> QED BY <2>3, <2>4
<1>10. ASSUME NEW w \in Workers, w # gone
       PROVE  Entries(w)' = {} <=> Entries(w) = {}
  <2>1. ASSUME NEW j \in 1..n - 1, listed'[j] = w PROVE Entries(w) # {}
    BY <1>2, <2>1 DEF Entries
  <2>2. ASSUME NEW i \in 1..n, listed[i] = w PROVE Entries(w)' # {}
    <3>1. i # k
      BY <1>10, <2>2
    <3>2. PICK j \in 1..n - 1 : old(j) = i
      BY <1>4, <3>1
    <3>3. listed'[j] = w /\ j \in 1..Len(listed')
      BY <1>2, <2>2, <3>2
    <3> QED BY <3>3 DEF Entries
  <2> QED BY <2>1, <2>2 DEF Entries
<1>11. "joined" \notin Live
  BY DEF Live
<1> HIDE DEF n
<1>12. \A w \in Workers : Entries(w)' = {} \/ Holders(w)' = {}
  BY <1>8, <1>9, <1>10 DEF Owned
<1>13. \A w \in Workers : worker'[w] \in Live <=> Entries(w)' # {} \/ Holders(w)' # {}
  <2>1. worker'[gone] \notin Live /\ Entries(gone)' = {} /\ Holders(gone)' = {}
    BY <1>1, <1>5, <1>8, <1>9, <1>11
  <2>2. ASSUME NEW w \in Workers, w # gone
        PROVE  worker'[w] \in Live <=> Entries(w)' # {} \/ Holders(w)' # {}
    <3>1. worker'[w] = worker[w] /\ Holders(w)' = Holders(w)
      BY <1>5, <1>8, <2>2
    <3>2. Entries(w)' = {} <=> Entries(w) = {}
      BY <1>10, <2>2
    <3>3. worker[w] \in Live <=> Entries(w) # {} \/ Holders(w) # {}
      BY DEF Owned
    <3> QED BY <3>1, <3>2, <3>3
  <2> QED BY <2>1, <2>2
<1>14. \A t, u \in Loaders : own'[t] = own'[u] /\ own'[t] # NoOne => t = u
  BY DEF Owned
<1> QED BY <1>6, <1>7, <1>12, <1>13, <1>14 DEF Owned, n

(* A load that reaps joins the thread it looks at.                          *)
LEMMA Join ==
  ASSUME TranslationInv, NEW t \in Loaders, join(t)
  PROVE  TranslationInv'
<1>0. Typed /\ Guarded /\ Owned
  BY DEF TranslationInv
<1>1. /\ pc[t] = "joins" /\ pc' = [pc EXCEPT ![t] = "reaps"]
      /\ UNCHANGED <<own, at, mutex, unload, pending>>
  BY DEF join
<1>2. unload = "not yet" /\ mutex = t /\ 1 <= at[t] /\ at[t] <= Len(listed) /\ own[t] # NoOne
  BY <1>0, <1>1 DEF Guarded, AtWork
<1>3. listed = translations /\ ~Taken /\ ~Taken' /\ listed' = translations'
  BY <1>1, <1>2 DEF listed, Taken
<1>4. at[t] \in 1..Len(listed) /\ Len(listed) \in Nat
  <2>1. at[t] \in Nat /\ Len(listed) \in Nat
    BY <1>0, LenProperties DEF Typed
  <2>2. 1 <= at[t] /\ at[t] <= Len(listed)
    BY <1>2
  <2> QED BY <2>1, <2>2
<1>5. PICK gone \in Workers : listed[at[t]] = gone
  BY <1>0, <1>4, ElementOfSeq DEF Typed
<1>6. worker' = [worker EXCEPT ![gone] = "joined"] /\ listed' = RemoveAt(listed, at[t])
  BY <1>3, <1>5 DEF join
<1>7. /\ listed' \in Seq(Workers) /\ Len(listed') = Len(listed) - 1
      /\ \A j \in 1..Len(listed) - 1 :
           listed'[j] = IF j < at[t] THEN listed[j] ELSE listed[j + 1]
  BY <1>0, <1>4, <1>6, RemoveAtProperties, ZenonT(40) DEF Typed
<1>8. Owned' /\ worker' \in [Workers -> Live \cup {"none", "joined"}]
  BY <1>0, <1>1, <1>4, <1>5, <1>6, <1>7, OwnedAfterJoin
<1>9. Typed'
  BY <1>0, <1>1, <1>2, <1>3, <1>7, <1>8 DEF Typed
<1>10. ASSUME NEW u \in Loaders, u # t PROVE AtWork(u)'
  <2>1. pc'[u] = pc[u] /\ at'[u] = at[u] /\ own'[u] = own[u]
    BY <1>0, <1>1, <1>10 DEF Typed
  <2>2. pc[u] # "joins"
    BY <1>0, <1>2, <1>10 DEF Guarded, AtWork
  <2> QED BY <1>0, <1>1, <2>1, <2>2 DEF Guarded, AtWork
<1>11. AtWork(t)'
  <2>1. pc'[t] = "reaps" /\ at'[t] = at[t] /\ own'[t] = own[t]
    BY <1>0, <1>1 DEF Typed
  <2> QED BY <1>1, <1>2, <2>1 DEF AtWork
<1>12. Guarded'
  BY <1>0, <1>1, <1>10, <1>11 DEF Guarded
<1> QED BY <1>8, <1>9, <1>12 DEF TranslationInv

(* A load hands its thread over to the list.                                *)
LEMMA PushBack ==
  ASSUME TranslationInv, NEW t \in Loaders, push_back(t)
  PROVE  TranslationInv'
<1>0. Typed /\ Guarded /\ Owned
  BY DEF TranslationInv
<1>1. /\ pc[t] = "reaps" /\ pc' = [pc EXCEPT ![t] = "idle"] /\ mutex' = NoOne
      /\ own' = [own EXCEPT ![t] = NoOne]
      /\ UNCHANGED <<worker, at, unload, pending>>
  BY DEF push_back
<1>2. unload = "not yet" /\ mutex = t /\ own[t] # NoOne
  BY <1>0, <1>1 DEF Guarded, AtWork
<1>3. listed = translations /\ ~Taken /\ ~Taken' /\ listed' = translations'
  BY <1>1, <1>2 DEF listed, Taken
<1>4. PICK w \in Workers : own[t] = w
  BY <1>0, <1>2 DEF Typed
<1> DEFINE n == Len(listed)
<1>5. /\ listed' = Append(listed, w) /\ listed' \in Seq(Workers)
      /\ n \in Nat /\ Len(listed') = n + 1
      /\ \A i \in 1..n : listed'[i] = listed[i]
      /\ listed'[n + 1] = w
  <2>1. listed' = Append(listed, w) /\ listed \in Seq(Workers)
    BY <1>0, <1>3, <1>4 DEF push_back, Typed
  <2> QED BY <2>1, AppendProperties, LenProperties
<1>6. own'[t] = NoOne /\ \A u \in Loaders : u # t => own'[u] = own[u]
  BY <1>0, <1>1 DEF Typed
<1>7. Typed'
  BY <1>0, <1>1, <1>2, <1>3, <1>5 DEF Typed
<1>8. Guarded'
  <2>1. ASSUME NEW u \in Loaders, u # t PROVE AtWork(u)'
    <3>1. pc'[u] = pc[u] /\ at'[u] = at[u] /\ own'[u] = own[u]
      BY <1>0, <1>1, <1>6, <2>1 DEF Typed
    <3>2. pc[u] \notin {"reaps", "joins"} /\ u # NoOne
      BY <1>0, <1>2, <2>1, TranslationAssumption DEF Guarded, AtWork
    <3> QED BY <1>0, <1>1, <3>1, <3>2 DEF Guarded, AtWork
  <2>2. AtWork(t)'
    <3>1. pc'[t] = "idle" /\ t # NoOne
      BY <1>0, <1>1, TranslationAssumption DEF Typed
    <3> QED BY <1>1, <1>6, <3>1 DEF AtWork
  <2> QED BY <1>1, <1>2, <2>1, <2>2, TranslationAssumption DEF Guarded
<1>9. Entries(w) = {} /\ \A i \in 1..n : listed[i] # w
  <2>1. t \in Holders(w)
    BY <1>4 DEF Holders
  <2>2. Entries(w) = {}
    BY <1>0, <2>1 DEF Owned
  <2> QED BY <2>2 DEF Entries
<1>10. Holders(w)' = {} /\ n + 1 \in Entries(w)'
  <2>1. ASSUME NEW u \in Loaders PROVE own'[u] # w
    BY <1>0, <1>2, <1>4, <1>6, <2>1 DEF Owned
  <2>2. Holders(w)' = {}
    BY <2>1 DEF Holders
  <2>3. n + 1 \in 1..n + 1
    BY <1>5
  <2> QED BY <1>5, <2>2, <2>3 DEF Entries
<1>11. ASSUME NEW v \in Workers, v # w
       PROVE  Holders(v)' = Holders(v) /\ Entries(v)' = Entries(v)
  <2>1. \A u \in Loaders : own'[u] = v <=> own[u] = v
    BY <1>4, <1>6, <1>11, TranslationAssumption
  <2>2. Holders(v)' = Holders(v)
    BY <2>1 DEF Holders
  <2>3. \A i \in 1..n + 1 : i \in 1..n \/ i = n + 1
    BY <1>5
  <2>4. \A i \in 1..n : i \in 1..n + 1
    BY <1>5
  <2>5. Entries(v)' = Entries(v)
    BY <1>5, <1>11, <2>3, <2>4 DEF Entries
  <2> QED BY <2>2, <2>5
<1>12. \A i, j \in 1..Len(listed') : listed'[i] = listed'[j] => i = j
  <2>1. \A i \in 1..n + 1 : i \in 1..n \/ i = n + 1
    BY <1>5
  <2> QED BY <1>0, <1>5, <1>9, <2>1 DEF Owned
<1>13. \A u, v \in Loaders : own'[u] = own'[v] /\ own'[u] # NoOne => u = v
  BY <1>0, <1>6 DEF Owned
<1>14. worker[w] \in Live
  <2>1. t \in Holders(w)
    BY <1>4 DEF Holders
  <2> QED BY <1>0, <2>1 DEF Owned
<1>15. Owned'
  <2>1. \A v \in Workers : Entries(v)' = {} \/ Holders(v)' = {}
    BY <1>0, <1>10, <1>11 DEF Owned
  <2>2. \A v \in Workers : worker'[v] \in Live <=> Entries(v)' # {} \/ Holders(v)' # {}
    BY <1>0, <1>1, <1>10, <1>11, <1>14 DEF Owned
  <2> QED BY <1>12, <1>13, <2>1, <2>2 DEF Owned
<1> QED BY <1>7, <1>8, <1>15 DEF TranslationInv

(* Unloading takes the list over, joins its threads and leaves none.        *)
LEMMA Unload ==
  ASSUME TranslationInv, Deinitialize
  PROVE  TranslationInv'
<1>0. Typed /\ Guarded /\ Owned
  BY DEF TranslationInv
<1>1. ASSUME lock_for_unload PROVE TranslationInv'
  <2>1. /\ unload = "not yet" /\ mutex = NoOne /\ \A t \in Loaders : pc[t] = "idle"
        /\ mutex' = Unloader /\ unload' = "locked"
        /\ UNCHANGED <<worker, pc, own, at, translations, pending>>
    BY <1>1 DEF lock_for_unload
  <2>2. listed' = listed /\ ~Taken /\ ~Taken'
    BY <2>1 DEF listed, Taken
  <2>3. Typed'
    BY <1>0, <2>1, <2>2 DEF Typed
  <2>4. Guarded'
    BY <1>0, <2>1, TranslationAssumption DEF Guarded, AtWork
  <2>5. Owned'
    <3>1. worker' = worker /\ own' = own /\ listed' = listed
      BY <2>1, <2>2
    <3> QED BY <1>0, <3>1 DEF Owned, Entries, Holders
  <2> QED BY <2>3, <2>4, <2>5 DEF TranslationInv
<1>2. ASSUME swap PROVE TranslationInv'
  <2>1. /\ unload = "locked" /\ unload' = "joins" /\ mutex' = NoOne
        /\ pending' = translations /\ translations' = pending
        /\ UNCHANGED <<worker, pc, own, at>>
    BY <1>2 DEF swap
  <2>2. listed' = listed /\ ~Taken /\ Taken'
    BY <2>1 DEF listed, Taken
  <2>3. Typed'
    BY <1>0, <2>1, <2>2 DEF Typed
  <2>4. \A t \in Loaders : pc[t] = "idle"
    BY <1>0, <2>1 DEF Guarded, AtWork
  <2>5. Guarded'
    BY <1>0, <2>1, <2>4, TranslationAssumption DEF Guarded, AtWork
  <2>6. Owned'
    BY <1>0, <2>1, <2>2 DEF Owned, Entries, Holders
  <2> QED BY <2>3, <2>5, <2>6 DEF TranslationInv
<1>3. ASSUME join_first PROVE TranslationInv'
  <2>1. /\ unload = "joins" /\ pending # <<>> /\ pending' = Tail(pending)
        /\ worker' = [worker EXCEPT ![Head(pending)] = "joined"]
        /\ UNCHANGED <<pc, own, at, mutex, translations, unload>>
    BY <1>3 DEF join_first
  <2>2. listed = pending /\ Taken /\ Taken' /\ listed' = Tail(listed) /\ listed # <<>>
    BY <2>1 DEF listed, Taken
  <2>3. /\ listed' \in Seq(Workers) /\ Len(listed) \in Nat /\ Len(listed') = Len(listed) - 1
        /\ \A j \in 1..Len(listed) - 1 : listed'[j] = listed[j + 1]
        /\ 1 \in 1..Len(listed) /\ listed[1] = Head(listed) /\ Head(listed) \in Workers
    <3>1. listed \in Seq(Workers) /\ Len(listed) \in Nat
      BY <1>0, LenProperties DEF Typed
    <3>2. /\ Head(listed) \in Workers /\ Tail(listed) \in Seq(Workers)
          /\ Len(Tail(listed)) = Len(listed) - 1
          /\ \A j \in 1..Len(Tail(listed)) : Tail(listed)[j] = listed[j + 1]
      BY <2>2, <3>1, HeadTailProperties
    <3>3. Len(listed) # 0
      BY <2>2, <3>1, EmptySeq
    <3>4. 1 \in 1..Len(listed) /\ listed[1] = Head(listed)
      BY <3>1, <3>3
    <3> HIDE DEF listed
    <3> QED BY <2>2, <3>1, <3>2, <3>4
  <2>5. PICK gone \in Workers : gone = Head(listed) /\ listed[1] = gone
    BY <2>3
  <2>6. \A j \in 1..Len(listed) - 1 :
          listed'[j] = IF j < 1 THEN listed[j] ELSE listed[j + 1]
    BY <2>3
  <2>7. Owned' /\ worker' \in [Workers -> Live \cup {"none", "joined"}]
    BY <1>0, <2>1, <2>2, <2>3, <2>5, <2>6, OwnedAfterJoin
  <2>8. Typed'
    BY <1>0, <2>1, <2>2, <2>3, <2>7 DEF Typed
  <2>9. \A t \in Loaders : pc[t] = "idle"
    BY <1>0, <2>1 DEF Guarded, AtWork
  <2>10. Guarded'
    BY <1>0, <2>1, <2>9 DEF Guarded, AtWork
  <2> QED BY <2>7, <2>8, <2>10 DEF TranslationInv
<1>4. ASSUME finish PROVE TranslationInv'
  <2>1. /\ unload = "joins" /\ pending = <<>> /\ unload' = "finished"
        /\ UNCHANGED <<worker, pc, own, at, mutex, translations, pending>>
    BY <1>4 DEF finish
  <2>2. listed' = listed /\ Taken /\ Taken' /\ listed = <<>>
    BY <2>1 DEF listed, Taken
  <2>3. Typed'
    BY <1>0, <2>1, <2>2 DEF Typed
  <2>4. Guarded'
    BY <1>0, <2>1, <2>2 DEF Guarded, AtWork
  <2>5. Owned'
    BY <1>0, <2>1, <2>2 DEF Owned, Entries, Holders
  <2> QED BY <2>3, <2>4, <2>5 DEF TranslationInv
<1> QED BY <1>1, <1>2, <1>3, <1>4 DEF Deinitialize

LEMMA Stutter == TranslationInv /\ UNCHANGED vars => TranslationInv'
<1> SUFFICES ASSUME TranslationInv, UNCHANGED vars PROVE TranslationInv'
  OBVIOUS
<1>1. UNCHANGED <<worker, pc, own, at, mutex, translations, unload, pending>>
  BY DEF vars
<1>2. listed' = listed /\ Taken' = Taken
  BY <1>1 DEF listed, Taken
<1>3. Typed'
  BY <1>1, <1>2 DEF TranslationInv, Typed
<1>4. Guarded'
  BY <1>1, <1>2 DEF TranslationInv, Guarded, AtWork
<1>5. Owned'
  BY <1>1, <1>2 DEF TranslationInv, Owned, Entries, Holders
<1> QED BY <1>3, <1>4, <1>5 DEF TranslationInv

LEMMA Steps == TranslationInv /\ [Next]_vars => TranslationInv'
<1> SUFFICES ASSUME TranslationInv, [Next]_vars PROVE TranslationInv'
  OBVIOUS
<1>1. ASSUME NEW w \in Workers, set_done(w) \/ exit(w) PROVE TranslationInv'
  BY <1>1, WorkerStep
<1>2. ASSUME NEW t \in Loaders, Load(t) PROVE TranslationInv'
  BY <1>2, CreateThread, Walk, Join, PushBack DEF Load
<1>3. ASSUME Deinitialize PROVE TranslationInv'
  BY <1>3, Unload
<1>4. ASSUME UNCHANGED vars PROVE TranslationInv'
  BY <1>4, Stutter
<1> QED BY <1>1, <1>2, <1>3, <1>4 DEF Next, unloaded

LEMMA NoneLeft == TranslationInv => NothingRunsUnloaded
<1> SUFFICES ASSUME TranslationInv, unload = "finished", NEW w \in Workers
             PROVE  worker[w] \in {"none", "joined"}
  BY DEF NothingRunsUnloaded
<1>1. 1..Len(listed) = {}
  BY DEF TranslationInv, Typed
<1>2. Entries(w) = {}
  BY <1>1 DEF Entries
<1>3. \A t \in Loaders : own[t] = NoOne
  BY DEF TranslationInv, Guarded, AtWork
<1>4. Holders(w) = {}
  BY <1>3, TranslationAssumption DEF Holders
<1>5. worker[w] \notin Live /\ worker[w] \in Live \cup {"none", "joined"}
  BY <1>2, <1>4 DEF TranslationInv, Owned, Typed
<1> QED BY <1>5

LEMMA Owners == TranslationInv => EveryThreadIsOwnedOnce
<1> SUFFICES ASSUME TranslationInv PROVE EveryThreadIsOwnedOnce
  OBVIOUS
<1>1. translations \o pending = listed
  <2>1. \/ translations = <<>> /\ pending = listed
        \/ pending = <<>> /\ translations = listed
    BY DEF TranslationInv, Typed, listed
  <2> QED BY <2>1, ConcatEmptySeq DEF TranslationInv, Typed
<1>2. \A w \in Workers : /\ Entries(w) # {} <=> \E i \in 1..Len(listed) : listed[i] = w
                         /\ Holders(w) # {} <=> \E t \in Loaders : own[t] = w
  BY DEF Entries, Holders
<1>3. \A w \in Workers :
        worker[w] \in {"steps", "done", "exited"} <=>
          \/ \E i \in 1..Len(listed) : listed[i] = w
          \/ \E t \in Loaders : own[t] = w
  BY <1>2 DEF TranslationInv, Owned, Live
<1>4. \A i, j \in 1..Len(listed) : listed[i] = listed[j] => i = j
  BY DEF TranslationInv, Owned
<1> HIDE DEF listed
<1> QED BY <1>1, <1>3, <1>4, NoneLeft DEF EveryThreadIsOwnedOnce

(* A translation thread that was started is in the list that Deinitialize() *)
(* joins, or with the one load that is about to list it, whatever number of *)
(* loads start, reap and join threads at the same time: none is joined      *)
(* twice or lost, and none runs when Deinitialize() has returned.           *)
THEOREM ThreadsAreAlwaysOwnedOnce == Spec => []EveryThreadIsOwnedOnce
<1>1. TranslationInv => EveryThreadIsOwnedOnce
  BY Owners
<1> QED BY <1>1, InitTranslations, Steps, PTL DEF Spec
=============================================================================
