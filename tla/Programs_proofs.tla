-------------------------- MODULE Programs_proofs --------------------------
(* Theorems about the files that programs come from (ELFScripts) and the    *)
(* properties that one program hands to the next (SandboxProperties), for   *)
(* any scripts, Sandboxes, paths, files, programs and names.                *)
EXTENDS ELFScripts, SandboxProperties, NaturalsInduction, WellFoundedInduction,
        SequenceTheorems, TLAPS

-----------------------------------------------------------------------------
(* Sets of Sandboxes, as sequences without repetition.                      *)

LEMMA RangeMembers ==
  ASSUME NEW S, NEW q \in Seq(S)
  PROVE  /\ Len(q) \in Nat /\ DOMAIN q = 1..Len(q)
         /\ \A c : c \in Range(q) <=> \E i \in 1..Len(q) : q[i] = c
<1>1. Len(q) \in Nat /\ DOMAIN q = 1..Len(q)
  OBVIOUS
<1> QED BY <1>1 DEF Range

(* erase: the one entry goes, the last takes its place.                     *)
LEMMA EraseTakesOut ==
  ASSUME NEW S, NEW q \in Seq(S), IsInjective(q), NEW b
  PROVE  /\ Erase(q, b) \in Seq(S) /\ IsInjective(Erase(q, b))
         /\ \A c : c \in Range(Erase(q, b)) <=> c \in Range(q) /\ c # b
         /\ Len(Erase(q, b)) = IF b \in Range(q) THEN Len(q) - 1 ELSE Len(q)
<1>1. /\ Len(q) \in Nat /\ DOMAIN q = 1..Len(q)
      /\ \A c : c \in Range(q) <=> \E i \in 1..Len(q) : q[i] = c
  BY RangeMembers
<1>2. CASE b \notin Range(q)
  <2>1. Erase(q, b) = q
    BY <1>1, <1>2 DEF Erase
  <2> QED BY <1>2, <2>1
<1>3. CASE b \in Range(q)
  <2> DEFINE n == Len(q)
             at == CHOOSE i \in DOMAIN q : q[i] = b
             moved == [q EXCEPT ![at] = Last(q)]
  <2>1. at \in 1..n /\ q[at] = b
    BY <1>1, <1>3
  <2>2. Erase(q, b) = SubSeq(moved, 1, Len(moved) - 1)
    BY <1>1, <1>3 DEF Erase, Front
  <2> HIDE DEF at
  <2>3. n \in Nat /\ n > 0
    BY <1>1, <2>1
  <2>4. q[n] \in S
    BY <2>3
  <2>5. /\ moved \in Seq(S) /\ Len(moved) = n
        /\ \A i \in 1..n : moved[i] = IF i = at THEN q[n] ELSE q[i]
    BY <2>1, <2>4 DEF Last
  <2> HIDE DEF moved
  <2> DEFINE e == SubSeq(moved, 1, n - 1)
  <2>6. e \in Seq(S) /\ Len(e) = n - 1 /\ \A i \in 1..n - 1 : e[i] = moved[i]
    <3>1. \A i \in 1..n - 1 : moved[i] \in S
      BY <2>3, <2>5
    <3>2. /\ e \in Seq(S) /\ Len(e) = IF 1 <= n - 1 THEN n - 1 - 1 + 1 ELSE 0
          /\ \A i \in 1..(n - 1 - 1 + 1) : e[i] = moved[1 + i - 1]
      BY <2>3, <2>5, <3>1, SubSeqProperties
    <3>3. n - 1 - 1 + 1 = n - 1 /\ \A i \in Int : 1 + i - 1 = i
      BY <2>3
    <3> QED BY <2>3, <3>2, <3>3
  <2> HIDE DEF n, e
  <2>7. DOMAIN e = 1..n - 1
    BY <2>6
  <2>8. \A i \in 1..n - 1 : i \in 1..n /\ e[i] = IF i = at THEN q[n] ELSE q[i]
    BY <2>3, <2>5, <2>6
  <2>9. \A i, j \in 1..n : q[i] = q[j] => i = j
    BY <1>1 DEF IsInjective, n
  <2>10. IsInjective(e)
    <3>1. \A i, j \in 1..n - 1 : e[i] = e[j] => i = j
      BY <2>3, <2>8, <2>9
    <3> QED BY <2>7, <3>1 DEF IsInjective
  <2>11. \A c : c \in Range(q) <=> \E i \in 1..n : q[i] = c
    BY <1>1 DEF n
  <2>12. ASSUME NEW c
         PROVE  c \in Range(e) <=> c \in Range(q) /\ c # b
    <3>1. c \in Range(e) <=> \E i \in 1..n - 1 : e[i] = c
      BY <2>7 DEF Range
    <3>2. ASSUME NEW i \in 1..n - 1, e[i] = c
          PROVE  c \in Range(q) /\ c # b
      <4>1. CASE i = at
        <5>1. c = q[n] /\ n \in 1..n /\ n # at
          BY <2>3, <2>8, <3>2, <4>1
        <5> QED BY <2>1, <2>9, <2>11, <5>1
      <4>2. CASE i # at
        <5>1. c = q[i] /\ i \in 1..n
          BY <2>8, <3>2, <4>2
        <5> QED BY <2>1, <2>9, <2>11, <4>2, <5>1
      <4> QED BY <4>1, <4>2
    <3>3. ASSUME c \in Range(q), c # b
          PROVE  \E i \in 1..n - 1 : e[i] = c
      <4>1. PICK k \in 1..n : q[k] = c
        BY <2>11, <3>3
      <4>2. k # at
        BY <2>1, <3>3, <4>1
      <4>3. CASE k = n
        <5>1. at \in 1..n - 1 /\ e[at] = q[n]
          BY <2>1, <2>3, <2>8, <4>2, <4>3
        <5> QED BY <4>1, <4>3, <5>1
      <4>4. CASE k # n
        <5>1. k \in 1..n - 1
          BY <2>3, <4>4
        <5> QED BY <2>8, <4>1, <4>2, <5>1
      <4> QED BY <4>3, <4>4
    <3> QED BY <3>1, <3>2, <3>3
  <2> QED BY <1>3, <2>2, <2>5, <2>6, <2>10, <2>12 DEF e, n
<1> QED BY <1>2, <1>3

(* insert: a new entry comes last.                                          *)
LEMMA InsertPutsIn ==
  ASSUME NEW S, NEW q \in Seq(S), IsInjective(q), NEW b \in S
  PROVE  /\ Insert(q, b) \in Seq(S) /\ IsInjective(Insert(q, b))
         /\ \A c : c \in Range(Insert(q, b)) <=> c \in Range(q) \/ c = b
         /\ Len(Insert(q, b)) = IF b \in Range(q) THEN Len(q) ELSE Len(q) + 1
<1>1. /\ Len(q) \in Nat /\ DOMAIN q = 1..Len(q)
      /\ \A c : c \in Range(q) <=> \E i \in 1..Len(q) : q[i] = c
  BY RangeMembers
<1>2. CASE b \in Range(q)
  <2>1. Insert(q, b) = q
    BY <1>1, <1>2 DEF Insert
  <2>2. Insert(q, b) \in Seq(S) /\ IsInjective(Insert(q, b))
    BY <2>1
  <2>3. \A c : c \in Range(Insert(q, b)) <=> c \in Range(q) \/ c = b
    BY <1>2, <2>1, Zenon
  <2>4. Len(Insert(q, b)) = IF b \in Range(q) THEN Len(q) ELSE Len(q) + 1
    BY <1>2, <2>1, Zenon
  <2> QED BY <2>2, <2>3, <2>4
<1>3. CASE b \notin Range(q)
  <2> DEFINE n == Len(q)
             a == Append(q, b)
  <2>1. Insert(q, b) = a
    BY <1>1, <1>3 DEF Insert
  <2>2. /\ a \in Seq(S) /\ Len(a) = n + 1 /\ a[n + 1] = b
        /\ \A i \in 1..n : a[i] = q[i]
    OBVIOUS
  <2>3. DOMAIN a = 1..n + 1
    BY <2>2
  <2> HIDE DEF a
  <2>4. n \in Nat /\ \A i \in 1..n + 1 : i \in 1..n \/ i = n + 1
    BY <1>1
  <2>5. \A i \in 1..n : q[i] # b /\ i \in 1..n + 1
    BY <1>1, <1>3
  <2>6. \A i, j \in 1..n : q[i] = q[j] => i = j
    BY <1>1 DEF IsInjective
  <2>7. n + 1 \in 1..n + 1
    BY <2>4
  <2>8. \A c : c \in Range(q) <=> \E i \in 1..n : q[i] = c
    BY <1>1
  <2> HIDE DEF n
  <2>9. IsInjective(a)
    BY <2>2, <2>3, <2>4, <2>5, <2>6 DEF IsInjective
  <2>10. \A c : c \in Range(a) <=> c \in Range(q) \/ c = b
    <3>1. \A c : c \in Range(a) <=> \E i \in 1..n + 1 : a[i] = c
      BY <2>3 DEF Range
    <3> QED BY <2>2, <2>4, <2>5, <2>7, <2>8, <3>1
  <2>11. Len(a) = Len(q) + 1
    BY <2>2 DEF n
  <2>12. Insert(q, b) \in Seq(S) /\ IsInjective(Insert(q, b))
    BY <2>1, <2>2, <2>9
  <2>13. \A c : c \in Range(Insert(q, b)) <=> c \in Range(q) \/ c = b
    BY <2>1, <2>10, Zenon
  <2>14. Len(Insert(q, b)) = IF b \in Range(q) THEN Len(q) ELSE Len(q) + 1
    BY <1>3, <2>1, <2>11, Zenon
  <2> QED BY <2>12, <2>13, <2>14
<1> QED BY <1>2, <1>3

-----------------------------------------------------------------------------
(* Counting up to N, and the function that a loop with N rounds defines.    *)

LEMMA CountUp ==
  ASSUME NEW N \in Nat, NEW S, 0 \in S, \A i \in 0..N - 1 : i \in S => i + 1 \in S
  PROVE  \A i \in 0..N : i \in S
<1> DEFINE missing == {i \in 0..N : i \notin S}
<1>1. SUFFICES ASSUME missing # {} PROVE FALSE
  OBVIOUS
<1>2. missing \subseteq Nat
  OBVIOUS
<1> HIDE DEF missing
<1>3. PICK least \in missing : \A i \in missing : <<i, least>> \notin OpToRel(<, Nat)
  BY <1>1, <1>2, NatLessThanWellFounded, WFMin
<1>4. \A i \in missing : ~(i < least)
  BY <1>2, <1>3 DEF OpToRel
<1>5. least \in 0..N /\ least \notin S /\ least # 0
  BY <1>3 DEF missing
<1>6. least - 1 \in 0..N - 1 /\ (least - 1) + 1 = least /\ least - 1 \in 0..N
  BY <1>5
<1>7. least - 1 \notin missing
  BY <1>4, <1>5, <1>6
<1>8. least - 1 \in S
  BY <1>6, <1>7 DEF missing
<1>9. least \in S
  BY <1>6, <1>8
<1> QED BY <1>5, <1>9

IsRound(F, N, X) == F \in [(1..N) \X X -> X]
IsLoop(f, F, N, X, w) ==
  f \in [0..N -> X] /\ f[0] = w /\ \A i \in 1..N : f[i] = F[<<i, f[i - 1]>>]

LEMMA LoopExists ==
  ASSUME NEW N \in Nat, NEW X, NEW w \in X, NEW F, IsRound(F, N, X)
  PROVE  \E f : IsLoop(f, F, N, X, w)
<1> DEFINE S == {n \in 0..N : \E f \in [0..n -> X] :
                   f[0] = w /\ \A i \in 1..n : f[i] = F[<<i, f[i - 1]>>]}
<1>0. F \in [(1..N) \X X -> X]
  BY DEF IsRound
<1>1. 0 \in S
  <2> DEFINE f == [i \in 0..0 |-> w]
  <2>1. f \in [0..0 -> X] /\ f[0] = w /\ \A i \in 1..0 : f[i] = F[<<i, f[i - 1]>>]
    OBVIOUS
  <2>2. 0 \in 0..N
    OBVIOUS
  <2> HIDE DEF f
  <2> QED BY <2>1, <2>2
<1>2. ASSUME NEW n \in 0..N - 1, n \in S
      PROVE  n + 1 \in S
  <2>1. PICK f \in [0..n -> X] :
          f[0] = w /\ \A i \in 1..n : f[i] = F[<<i, f[i - 1]>>]
    BY <1>2
  <2> DEFINE x == F[<<n + 1, f[n]>>]
             g == [i \in 0..n + 1 |-> IF i = n + 1 THEN x ELSE f[i]]
  <2>2. /\ n \in Nat /\ n + 1 \in 1..N /\ n + 1 \in 0..N /\ n \in 0..n
        /\ 0 \in 0..n + 1 /\ 0 # n + 1 /\ n + 1 \in 0..n + 1
        /\ \A i \in 0..n + 1 : i = n + 1 \/ i \in 0..n
        /\ \A i \in 0..n : i # n + 1 /\ i \in 0..n + 1
        /\ \A i \in 1..n + 1 : i = n + 1 \/ (i \in 1..n /\ i \in 0..n)
        /\ \A i \in 1..n : i - 1 \in 0..n
        /\ (n + 1) - 1 = n
    OBVIOUS
  <2>3. x \in X
    BY <1>0, <2>2
  <2> HIDE DEF x
  <2>4. g \in [0..n + 1 -> X] /\ g[n + 1] = x /\ \A i \in 0..n : g[i] = f[i]
    BY <2>2, <2>3
  <2> HIDE DEF g
  <2>5. g[0] = w
    BY <2>1, <2>2, <2>4
  <2>6. \A i \in 1..n + 1 : g[i] = F[<<i, g[i - 1]>>]
    <3>1. g[n + 1] = F[<<n + 1, g[(n + 1) - 1]>>]
      BY <2>2, <2>4 DEF x
    <3>2. \A i \in 1..n : g[i] = F[<<i, g[i - 1]>>]
      BY <2>1, <2>2, <2>4
    <3> QED BY <2>2, <3>1, <3>2
  <2> QED BY <2>2, <2>4, <2>5, <2>6
<1> HIDE DEF S
<1>3. N \in S
  BY <1>1, <1>2, CountUp
<1> QED BY <1>3 DEF S, IsLoop

-----------------------------------------------------------------------------
(* The states of the scripts, the Sandboxes and the map that the operations *)
(* compute on.                                                              *)

Texts == [path : Paths, source_code : Bytes, source_version : Nat, functions : Bytes]
BoxStates == [m_program_data : Scripts \cup {None}, m_source_version : Int,
              m_program_bytes : Bytes, running : Bytes]
Worlds == [script : [Scripts -> Texts], box : [Sandboxes -> BoxStates],
           map : [Paths -> Seq(Sandboxes)]]

(* The registry tells which Sandboxes run a script of a path.               *)
Registered(w) ==
  /\ \A p \in Paths : IsInjective(w.map[p])
  /\ \A p \in Paths, b \in Sandboxes :
       b \in Range(w.map[p]) <=>
         /\ w.box[b].m_program_data # None
         /\ w.script[w.box[b].m_program_data].path = p

(* Only scripts of L are run, and only by the Sandboxes of A.               *)
Owned(w, L, A) ==
  \A b \in Sandboxes : /\ w.box[b].m_program_data \in L \cup {None}
                       /\ b \notin A => w.box[b] = NewBox

(* No Sandbox is ahead of its script; one that is up to date runs what the  *)
(* script holds, unless the script is the one that has just changed.        *)
Versioned(w, changed) ==
  \A b \in Sandboxes :
    LET s == w.box[b].m_program_data
    IN  s # None =>
          /\ w.box[b].m_source_version <= w.script[s].source_version
          /\ s # changed /\ w.box[b].m_source_version = w.script[s].source_version
               => w.box[b].running = w.script[s].source_code

Published(w) == \A s \in Scripts : w.script[s].functions \in {None, w.script[s].source_code}

Good(w, L, A, changed) ==
  /\ w \in Worlds
  /\ Registered(w) /\ Owned(w, L, A) /\ Versioned(w, changed) /\ Published(w)

(* What no operation on a Sandbox changes of a script.                      *)
SameTexts(v, w) ==
  \A s \in Scripts : /\ v.script[s].path = w.script[s].path
                     /\ v.script[s].source_code = w.script[s].source_code
                     /\ v.script[s].source_version = w.script[s].source_version

LEMMA WorldParts ==
  ASSUME NEW w \in Worlds
  PROVE  /\ w = [script |-> w.script, box |-> w.box, map |-> w.map]
         /\ w.script \in [Scripts -> Texts] /\ w.box \in [Sandboxes -> BoxStates]
         /\ w.map \in [Paths -> Seq(Sandboxes)]
BY DEF Worlds

LEMMA ScriptsNotNone == None \notin Scripts /\ \A s \in Scripts : s # None
BY ScriptsAssumption

(* unregister_instance and register_instance, by what they do to the map.   *)
LEMMA UnregisterMap ==
  ASSUME NEW w \in Worlds, Registered(w), NEW b \in Sandboxes
  PROVE  LET u == unregister_instance(w, b)
             s == w.box[b].m_program_data
         IN  /\ u \in Worlds /\ u.script = w.script /\ u.box = w.box
             /\ \A p \in Paths :
                  u.map[p] = IF s # None /\ w.script[s].path = p
                             THEN Erase(w.map[p], b) ELSE w.map[p]
<1> DEFINE s == w.box[b].m_program_data
           u == unregister_instance(w, b)
<1>0. /\ w.script \in [Scripts -> Texts] /\ w.box \in [Sandboxes -> BoxStates]
      /\ w.map \in [Paths -> Seq(Sandboxes)]
      /\ w = [script |-> w.script, box |-> w.box, map |-> w.map]
  BY WorldParts
<1>1. s \in Scripts \cup {None}
  BY <1>0 DEF BoxStates
<1>2. CASE s = None
  <2>1. u = w
    BY <1>2 DEF unregister_instance
  <2>2. \A p \in Paths : u.map[p] = w.map[p]
    BY <2>1, Zenon
  <2> QED BY <1>0, <1>2, <2>1, <2>2, Zenon
<1>3. CASE s # None
  <2> DEFINE path == w.script[s].path
  <2>1. path \in Paths
    BY <1>0, <1>1, <1>3 DEF Texts
  <2>2. u = [w EXCEPT !.map[path] = Erase(@, b)]
    BY <1>3 DEF unregister_instance
  <2>3. u = [script |-> w.script, box |-> w.box,
             map |-> [w.map EXCEPT ![path] = Erase(w.map[path], b)]]
    <3> DEFINE texts == w.script
               boxes == w.box
               sets == w.map
    <3>1. w = [script |-> texts, box |-> boxes, map |-> sets] /\ w.map = sets
      BY <1>0, Zenon
    <3> HIDE DEF texts, boxes, sets, path
    <3>2. [[script |-> texts, box |-> boxes, map |-> sets] EXCEPT !.map[path] = Erase(@, b)]
            = [script |-> texts, box |-> boxes, map |-> [sets EXCEPT ![path] = Erase(sets[path], b)]]
      OBVIOUS
    <3>3. u = [script |-> texts, box |-> boxes, map |-> [sets EXCEPT ![path] = Erase(sets[path], b)]]
      BY <2>2, <3>1, <3>2, Zenon
    <3> QED BY <3>3, Zenon DEF texts, boxes, sets
  <2> HIDE DEF path, u
  <2>4. u.script = w.script /\ u.box = w.box
    BY <2>3
  <2>5. u.map = [w.map EXCEPT ![path] = Erase(w.map[path], b)]
    BY <2>3
  <2>6. u \in Worlds
    <3>1. w.map[path] \in Seq(Sandboxes) /\ IsInjective(w.map[path])
      BY <1>0, <2>1 DEF Registered
    <3>2. Erase(w.map[path], b) \in Seq(Sandboxes)
      BY <3>1, EraseTakesOut
    <3>3. [w.map EXCEPT ![path] = Erase(w.map[path], b)] \in [Paths -> Seq(Sandboxes)]
      BY <1>0, <3>2
    <3> QED BY <1>0, <2>3, <3>3 DEF Worlds
  <2>7. \A p \in Paths : u.map[p] = IF path = p THEN Erase(w.map[p], b) ELSE w.map[p]
    BY <1>0, <2>1, <2>5
  <2> QED BY <1>3, <2>4, <2>6, <2>7 DEF u, path
<1> QED BY <1>2, <1>3

LEMMA RegisterMap ==
  ASSUME NEW w, w = [script |-> w.script, box |-> w.box, map |-> w.map],
         w.map \in [Paths -> Seq(Sandboxes)], NEW b \in Sandboxes,
         NEW s, s = None \/ w.script[s].path \in Paths
  PROVE  LET r == register_instance(w, b, s)
         IN  /\ r = [script |-> w.script, box |-> w.box, map |-> r.map]
             /\ r.map \in [Paths -> Seq(Sandboxes)]
             /\ \A p \in Paths :
                  r.map[p] = IF s # None /\ w.script[s].path = p
                             THEN Insert(w.map[p], b) ELSE w.map[p]
<1> DEFINE r == register_instance(w, b, s)
<1>1. CASE s = None
  <2>1. r = w
    BY <1>1 DEF register_instance
  <2> QED BY <1>1, <2>1
<1>2. CASE s # None
  <2> DEFINE path == w.script[s].path
  <2>1. path \in Paths
    BY <1>2
  <2>2. r = [w EXCEPT !.map[path] = Insert(@, b)]
    BY <1>2 DEF register_instance
  <2>3. r = [script |-> w.script, box |-> w.box,
             map |-> [w.map EXCEPT ![path] = Insert(w.map[path], b)]]
    BY <2>2
  <2>4. Insert(w.map[path], b) \in Seq(Sandboxes)
    BY <2>1 DEF Insert
  <2> HIDE DEF path, r
  <2>5. r.map = [w.map EXCEPT ![path] = Insert(w.map[path], b)]
    BY <2>3
  <2>6. r.map \in [Paths -> Seq(Sandboxes)]
    BY <2>1, <2>4, <2>5
  <2>7. \A p \in Paths : r.map[p] = IF path = p THEN Insert(w.map[p], b) ELSE w.map[p]
    BY <2>1, <2>5
  <2> QED BY <1>2, <2>3, <2>5, <2>6, <2>7 DEF r, path
<1> QED BY <1>1, <1>2

(* A Sandbox is given another script: it is registered under that one's     *)
(* path and under no other, and a path it stays under keeps its length.     *)
LEMMA SetDataMap ==
  ASSUME NEW w \in Worlds, Registered(w), NEW b \in Sandboxes,
         NEW s \in Scripts \cup {None}
  PROVE  LET r == set_program_data_internal(w, b, s)
         IN  /\ r = [script |-> w.script, box |-> [w.box EXCEPT ![b].m_program_data = s],
                     map |-> r.map]
             /\ r.map \in [Paths -> Seq(Sandboxes)]
             /\ \A p \in Paths :
                  /\ IsInjective(r.map[p])
                  /\ \A c \in Sandboxes :
                       c \in Range(r.map[p]) <=>
                         IF c = b THEN s # None /\ w.script[s].path = p
                         ELSE c \in Range(w.map[p])
                  /\ b \in Range(w.map[p]) /\ s # None /\ w.script[s].path = p
                       => Len(r.map[p]) = Len(w.map[p])
<1> DEFINE old == w.box[b].m_program_data
           u == unregister_instance(w, b)
           v == [u EXCEPT !.box[b].m_program_data = s]
           r == register_instance(v, b, s)
<1>0. /\ w.script \in [Scripts -> Texts] /\ w.box \in [Sandboxes -> BoxStates]
      /\ w.map \in [Paths -> Seq(Sandboxes)]
  BY WorldParts
<1>1. /\ u \in Worlds /\ u.script = w.script /\ u.box = w.box
      /\ \A p \in Paths :
           u.map[p] = IF old # None /\ w.script[old].path = p
                      THEN Erase(w.map[p], b) ELSE w.map[p]
  BY UnregisterMap
<1> HIDE DEF u
<1>2. /\ v = [script |-> w.script, box |-> [w.box EXCEPT ![b].m_program_data = s],
              map |-> u.map]
      /\ u.map \in [Paths -> Seq(Sandboxes)]
  <2>1. PICK map \in [Paths -> Seq(Sandboxes)] :
          u = [script |-> w.script, box |-> w.box, map |-> map]
    BY <1>1, WorldParts
  <2>2. [[script |-> w.script, box |-> w.box, map |-> map]
           EXCEPT !.box[b].m_program_data = s] =
          [script |-> w.script, box |-> [w.box EXCEPT ![b].m_program_data = s],
           map |-> map]
    BY SMTT(40)
  <2>3. v = [script |-> w.script, box |-> [w.box EXCEPT ![b].m_program_data = s],
             map |-> map]
    BY <2>1, <2>2, Zenon
  <2> QED BY <2>1, <2>3
<1> HIDE DEF v
<1>3. /\ v = [script |-> v.script, box |-> v.box, map |-> v.map]
      /\ v.script = w.script /\ v.map = u.map
      /\ v.box = [w.box EXCEPT ![b].m_program_data = s]
      /\ v.map \in [Paths -> Seq(Sandboxes)]
  BY <1>2
<1>4. s = None \/ v.script[s].path \in Paths
  BY <1>0, <1>3 DEF Texts
<1>5. /\ r = [script |-> v.script, box |-> v.box, map |-> r.map]
      /\ r.map \in [Paths -> Seq(Sandboxes)]
      /\ \A p \in Paths :
           r.map[p] = IF s # None /\ v.script[s].path = p
                      THEN Insert(v.map[p], b) ELSE v.map[p]
  BY <1>3, <1>4, RegisterMap
<1>6. set_program_data_internal(w, b, s) = r
  BY DEF set_program_data_internal, u, v
<1> HIDE DEF r
<1>7. ASSUME NEW p \in Paths
      PROVE  /\ u.map[p] \in Seq(Sandboxes) /\ IsInjective(u.map[p])
             /\ \A c \in Sandboxes :
                  c \in Range(u.map[p]) <=> c # b /\ c \in Range(w.map[p])
             /\ b \in Range(w.map[p]) => Len(u.map[p]) = Len(w.map[p]) - 1
  <2>1. /\ w.map[p] \in Seq(Sandboxes) /\ IsInjective(w.map[p])
        /\ b \in Range(w.map[p]) <=> old # None /\ w.script[old].path = p
    BY <1>0 DEF Registered
  <2>2. CASE old # None /\ w.script[old].path = p
    <3>1. u.map[p] = Erase(w.map[p], b)
      BY <1>1, <2>2
    <3> QED BY <2>1, <2>2, <3>1, EraseTakesOut
  <2>3. CASE ~(old # None /\ w.script[old].path = p)
    <3>1. u.map[p] = w.map[p]
      BY <1>1, <2>3
    <3> QED BY <2>1, <2>3, <3>1
  <2> QED BY <2>2, <2>3
<1>8. ASSUME NEW p \in Paths
      PROVE  /\ IsInjective(r.map[p])
             /\ \A c \in Sandboxes :
                  c \in Range(r.map[p]) <=>
                    IF c = b THEN s # None /\ w.script[s].path = p
                    ELSE c \in Range(w.map[p])
             /\ b \in Range(w.map[p]) /\ s # None /\ w.script[s].path = p
                  => Len(r.map[p]) = Len(w.map[p])
  <2>1. CASE s # None /\ w.script[s].path = p
    <3>1. r.map[p] = Insert(u.map[p], b)
      BY <1>3, <1>5, <2>1
    <3>2. u.map[p] \in Seq(Sandboxes) /\ IsInjective(u.map[p]) /\ b \notin Range(u.map[p])
      BY <1>7
    <3>3. /\ IsInjective(Insert(u.map[p], b))
          /\ Len(Insert(u.map[p], b)) = Len(u.map[p]) + 1
          /\ \A c : c \in Range(Insert(u.map[p], b)) <=> c \in Range(u.map[p]) \/ c = b
      <4> DEFINE q == u.map[p]
      <4>1. q \in Seq(Sandboxes) /\ IsInjective(q) /\ b \notin Range(q)
        BY <3>2
      <4> HIDE DEF q
      <4>2. /\ IsInjective(Insert(q, b))
            /\ \A c : c \in Range(Insert(q, b)) <=> c \in Range(q) \/ c = b
            /\ Len(Insert(q, b)) = IF b \in Range(q) THEN Len(q) ELSE Len(q) + 1
        BY <4>1, InsertPutsIn
      <4> QED BY <4>1, <4>2 DEF q
    <3>4. b \in Range(w.map[p]) => Len(r.map[p]) = Len(w.map[p])
      <4>1. Len(w.map[p]) \in Nat
        BY <1>0
      <4> QED BY <1>7, <3>1, <3>3, <4>1
    <3> QED BY <1>7, <2>1, <3>1, <3>3, <3>4
  <2>2. CASE ~(s # None /\ w.script[s].path = p)
    <3>1. r.map[p] = u.map[p]
      BY <1>3, <1>5, <2>2
    <3> QED BY <1>7, <2>2, <3>1
  <2> QED BY <2>1, <2>2
<1> QED BY <1>3, <1>5, <1>6, <1>8

-----------------------------------------------------------------------------
(* What any operation on one Sandbox has to see to: that the Sandbox is in  *)
(* a state its script allows.                                               *)
Fits(entry, w, s, changed) ==
  /\ entry \in BoxStates /\ entry.m_program_data = s
  /\ s # None =>
       /\ entry.m_source_version <= w.script[s].source_version
       /\ s # changed /\ entry.m_source_version = w.script[s].source_version
            => entry.running = w.script[s].source_code

LEMMA OneBoxChanges ==
  ASSUME NEW L, NEW A, NEW changed, NEW w, Good(w, L, A, changed), L \subseteq Scripts,
         NEW b \in Sandboxes, NEW s \in L \cup {None}, NEW entry,
         Fits(entry, w, s, changed), b \in A \/ entry = NewBox,
         NEW texts \in [Scripts -> Texts],
         \A x \in Scripts : /\ texts[x].path = w.script[x].path
                            /\ texts[x].source_code = w.script[x].source_code
                            /\ texts[x].source_version = w.script[x].source_version
                            /\ texts[x].functions \in {None, texts[x].source_code},
         NEW r, r = [script |-> texts, box |-> [w.box EXCEPT ![b] = entry],
                     map |-> set_program_data_internal(w, b, s).map]
  PROVE  /\ Good(r, L, A, changed) /\ SameTexts(r, w)
         /\ s # None /\ b \in Range(w.map[w.script[s].path])
              => Len(r.map[w.script[s].path]) = Len(w.map[w.script[s].path])
<1> DEFINE map == set_program_data_internal(w, b, s).map
           boxes == [w.box EXCEPT ![b] = entry]
<1>0. /\ w \in Worlds /\ w.script \in [Scripts -> Texts]
      /\ w.box \in [Sandboxes -> BoxStates] /\ s \in Scripts \cup {None}
  BY WorldParts DEF Good
<1>1. /\ map \in [Paths -> Seq(Sandboxes)]
      /\ \A p \in Paths :
           /\ IsInjective(map[p])
           /\ \A c \in Sandboxes :
                c \in Range(map[p]) <=>
                  IF c = b THEN s # None /\ w.script[s].path = p
                  ELSE c \in Range(w.map[p])
           /\ b \in Range(w.map[p]) /\ s # None /\ w.script[s].path = p
                => Len(map[p]) = Len(w.map[p])
  BY <1>0, SetDataMap DEF Good
<1> HIDE DEF map
<1>2. /\ boxes \in [Sandboxes -> BoxStates] /\ boxes[b] = entry
      /\ \A c \in Sandboxes : c # b => boxes[c] = w.box[c]
  BY <1>0 DEF Fits
<1> HIDE DEF boxes
<1>3. r.script = texts /\ r.box = boxes /\ r.map = map
  BY DEF boxes, map
<1>4. r \in Worlds
  BY <1>1, <1>2 DEF Worlds, boxes, map
<1>5. SameTexts(r, w)
  BY <1>3 DEF SameTexts
<1>6. \A c \in Sandboxes : w.box[c].m_program_data \in Scripts \cup {None}
  BY <1>0 DEF BoxStates
<1>7. Registered(r)
  <2>1. ASSUME NEW p \in Paths, NEW c \in Sandboxes
        PROVE  c \in Range(map[p]) <=> /\ boxes[c].m_program_data # None
                                       /\ texts[boxes[c].m_program_data].path = p
    <3>1. CASE c = b
      BY <1>0, <1>1, <1>2, <2>1, <3>1, SMTT(40) DEF Fits
    <3>2. CASE c # b
      <4>1. c \in Range(w.map[p]) <=> /\ w.box[c].m_program_data # None
                                      /\ w.script[w.box[c].m_program_data].path = p
        BY DEF Good, Registered
      <4> QED BY <1>1, <1>2, <1>6, <3>2, <4>1
    <3> QED BY <3>1, <3>2
  <2>2. \A p \in Paths, c \in Sandboxes :
          c \in Range(r.map[p]) <=> /\ r.box[c].m_program_data # None
                                   /\ r.script[r.box[c].m_program_data].path = p
    BY <1>3, <2>1, ZenonT(40)
  <2>3. \A p \in Paths : IsInjective(r.map[p])
    BY <1>1, <1>3
  <2> QED BY <2>2, <2>3 DEF Registered
<1>8. Owned(r, L, A)
  BY <1>2, <1>3 DEF Good, Owned, Fits
<1>9. Versioned(r, changed)
  <2>1. ASSUME NEW c \in Sandboxes, boxes[c].m_program_data # None
        PROVE  LET x == boxes[c].m_program_data
               IN  /\ boxes[c].m_source_version <= texts[x].source_version
                   /\ x # changed /\ boxes[c].m_source_version = texts[x].source_version
                        => boxes[c].running = texts[x].source_code
    <3>1. CASE c = b
      BY <1>0, <1>2, <2>1, <3>1 DEF Fits
    <3>2. CASE c # b
      BY <1>2, <1>6, <2>1, <3>2 DEF Good, Versioned
    <3> QED BY <3>1, <3>2
  <2> QED BY <1>3, <2>1, ZenonT(40) DEF Versioned
<1>10. Published(r)
  BY <1>3 DEF Published
<1>11. s # None /\ b \in Range(w.map[w.script[s].path])
         => Len(map[w.script[s].path]) = Len(w.map[w.script[s].path])
  <2>1. s # None => w.script[s].path \in Paths
    BY <1>0 DEF Texts
  <2> QED BY <1>1, <2>1
<1> QED BY <1>3, <1>4, <1>5, <1>7, <1>8, <1>9, <1>10, <1>11 DEF Good

(* load, by what it does to the Sandbox and to the script it runs.          *)
LEMMA Loading ==
  ASSUME NEW texts, NEW boxes, NEW map, NEW v,
         v = [script |-> texts, box |-> boxes, map |-> map],
         NEW b, NEW bytes, NEW s, s = boxes[b].m_program_data,
         NEW ran, ran = [boxes EXCEPT ![b].running = IF bytes \in Programs THEN bytes ELSE None],
         NEW published, published = IF bytes \in Publishing /\ s # None
                                    THEN [texts EXCEPT ![s].functions = bytes] ELSE texts
  PROVE  load(v, b, bytes) = [script |-> published, box |-> ran, map |-> map]
<1> DEFINE runs == IF bytes \in Programs THEN bytes ELSE None
           w == [script |-> texts, box |-> boxes, map |-> map]
           made == [script |-> texts, box |-> ran, map |-> map]
<1>1. [w EXCEPT !.box[b].running = runs] = made
  <2> HIDE DEF runs
  <2>1. [w EXCEPT !.box[b].running = runs] =
          [script |-> texts, box |-> [boxes EXCEPT ![b].running = runs], map |-> map]
    OBVIOUS
  <2> QED BY <2>1 DEF runs
<1>2. w.box = boxes
  OBVIOUS
<1>3. load(w, b, bytes) = IF bytes \in Publishing /\ s # None
                          THEN [made EXCEPT !.script[s].functions = bytes] ELSE made
  BY <1>1, <1>2, Zenon DEF load
<1>4. [made EXCEPT !.script[s].functions = bytes] =
        [script |-> [texts EXCEPT ![s].functions = bytes], box |-> ran, map |-> map]
  OBVIOUS
<1> HIDE DEF made
<1>5. CASE bytes \in Publishing /\ s # None
  BY <1>3, <1>4, <1>5
<1>6. CASE ~(bytes \in Publishing /\ s # None)
  BY <1>3, <1>6 DEF made
<1> QED BY <1>5, <1>6

LEMMA SetProgramKeeps ==
  ASSUME NEW L, NEW A, NEW changed, NEW w, Good(w, L, A, changed), L \subseteq Scripts,
         NEW b \in Sandboxes, b \in A, NEW s \in L \cup {None}
  PROVE  LET r == set_program(w, b, s)
         IN  /\ Good(r, L, A, changed) /\ SameTexts(r, w)
             /\ s # None /\ b \in Range(w.map[w.script[s].path])
                  => Len(r.map[w.script[s].path]) = Len(w.map[w.script[s].path])
<1> DEFINE known == KnownVersion(w, b, s)
           version == w.script[s].source_version
           bytes == w.script[s].source_code
           r == set_program(w, b, s)
           map == set_program_data_internal(w, b, s).map
           empty == [m_program_data |-> s, m_source_version |-> known,
                     m_program_bytes |-> None, running |-> None]
           cleared == [w.box EXCEPT ![b] = empty]
           unloaded == [script |-> w.script, box |-> cleared, map |-> map]
<1>0. /\ w \in Worlds /\ w.script \in [Scripts -> Texts]
      /\ w.box \in [Sandboxes -> BoxStates] /\ s \in Scripts \cup {None} /\ Registered(w)
  BY WorldParts DEF Good
<1>1. CASE b \in busy \/ (s # None /\ known = version)
  <2>1. r = w
    BY <1>1 DEF set_program
  <2> QED BY <2>1 DEF SameTexts
<1>2. CASE ~(b \in busy \/ (s # None /\ known = version))
  <2>1. [set_program_data_internal(w, b, s) EXCEPT !.box[b] = empty] = unloaded
    <3>1. set_program_data_internal(w, b, s) =
            [script |-> w.script, box |-> [w.box EXCEPT ![b].m_program_data = s],
             map |-> map]
      BY <1>0, SetDataMap
    <3> HIDE DEF map, empty
    <3>2. [[w.box EXCEPT ![b].m_program_data = s] EXCEPT ![b] = empty] = cleared
      BY <1>0
    <3> QED BY <3>1, <3>2
  <2>2. r = IF s = None THEN unloaded
            ELSE LET made == load(unloaded, b, bytes)
                 IN  IF bytes \in Programs
                     THEN [made EXCEPT !.box[b].m_source_version = version] ELSE made
    BY <1>2, <2>1, Zenon DEF set_program
  <2>3. known \in Int /\ (s # None => known <= version)
    <3>1. CASE s # None /\ w.box[b].m_program_data = s
      BY <1>0, <3>1 DEF KnownVersion, Good, Versioned, BoxStates
    <3>2. CASE ~(s # None /\ w.box[b].m_program_data = s)
      <4>1. known = -1
        BY <3>2 DEF KnownVersion
      <4>2. s # None => version \in Nat
        BY <1>0 DEF Texts
      <4> QED BY <4>1, <4>2
    <3> QED BY <3>1, <3>2
  <2>4. /\ empty \in BoxStates /\ empty.m_program_data = s
        /\ empty.m_source_version = known
    BY <1>0, <2>3 DEF BoxStates, Bytes
  <2>5. cleared \in [Sandboxes -> BoxStates] /\ cleared[b] = empty
    BY <1>0, <2>4
  <2>6. \A x \in Scripts : w.script[x].functions \in {None, w.script[x].source_code}
    BY DEF Good, Published
  <2>7. CASE s = None
    <3>1. Fits(empty, w, s, changed)
      BY <2>4, <2>7 DEF Fits
    <3>2. r = unloaded
      BY <2>2, <2>7
    <3> HIDE DEF empty, r
    <3> QED BY <1>0, <2>6, <3>1, <3>2, OneBoxChanges DEF r
  <2>8. CASE s # None
    <3> DEFINE runs == IF bytes \in Programs THEN bytes ELSE None
               entry == [m_program_data |-> s,
                         m_source_version |-> IF bytes \in Programs THEN version ELSE known,
                         m_program_bytes |-> None, running |-> runs]
               texts == IF bytes \in Publishing
                         THEN [w.script EXCEPT ![s].functions = bytes] ELSE w.script
    <3>1. s \in Scripts /\ version \in Nat /\ bytes \in Bytes
      BY <1>0, <2>8 DEF Texts
    <3>2. /\ runs \in Bytes /\ (bytes \in Publishing => bytes \in Bytes)
          /\ (bytes \in Programs => runs = bytes)
      BY <3>1, ScriptsAssumption DEF Bytes
    <3> HIDE DEF runs
    <3>3. Fits(entry, w, s, changed)
      <4>1. entry \in BoxStates
        BY <1>0, <2>3, <3>1, <3>2 DEF BoxStates, Bytes
      <4>2. entry.m_source_version <= version
        BY <2>3, <2>8, <3>1
      <4>3. entry.m_source_version = version => bytes \in Programs
        BY <1>2, <2>8
      <4>4. entry.running = runs /\ entry.m_program_data = s
        OBVIOUS
      <4> HIDE DEF entry
      <4> QED BY <3>2, <4>1, <4>2, <4>3, <4>4 DEF Fits
    <3>4. /\ texts \in [Scripts -> Texts]
          /\ \A x \in Scripts :
               /\ texts[x].path = w.script[x].path
               /\ texts[x].source_code = w.script[x].source_code
               /\ texts[x].source_version = w.script[x].source_version
               /\ texts[x].functions \in {None, texts[x].source_code}
      BY <1>0, <2>6, <3>1, <3>2 DEF Texts
    <3>5. r = [script |-> texts, box |-> [w.box EXCEPT ![b] = entry], map |-> map]
      <4> DEFINE ran == [cleared EXCEPT ![b].running = runs]
                 made == [script |-> texts, box |-> ran, map |-> map]
                 loaded_only == [m_program_data |-> s, m_source_version |-> known,
                                 m_program_bytes |-> None, running |-> runs]
                 up_to_date == [m_program_data |-> s, m_source_version |-> version,
                                m_program_bytes |-> None, running |-> runs]
      <4>1. load(unloaded, b, bytes) = made
        <5>1. cleared[b].m_program_data = s
          BY <2>4, <2>5
        <5>2. ran = [cleared EXCEPT ![b].running = IF bytes \in Programs THEN bytes ELSE None]
          BY DEF runs
        <5>3. texts = IF bytes \in Publishing /\ s # None
                       THEN [w.script EXCEPT ![s].functions = bytes] ELSE w.script
          BY <2>8
        <5> HIDE DEF cleared, map, bytes, ran, texts
        <5> QED BY <5>1, <5>2, <5>3, Loading
      <4>2. ran = [w.box EXCEPT ![b] = loaded_only]
        BY <1>0
      <4>3. [ran EXCEPT ![b].m_source_version = version] = [w.box EXCEPT ![b] = up_to_date]
        BY <1>0
      <4> HIDE DEF ran, texts, map, version, bytes, unloaded
      <4>4. [made EXCEPT !.box[b].m_source_version = version] =
              [script |-> texts, box |-> [ran EXCEPT ![b].m_source_version = version],
               map |-> map]
        OBVIOUS
      <4>5. r = IF bytes \in Programs
                THEN [made EXCEPT !.box[b].m_source_version = version] ELSE made
        BY <2>2, <2>8, <4>1, Zenon
      <4> HIDE DEF r
      <4>6. CASE bytes \in Programs
        <5>1. entry = up_to_date
          BY <4>6
        <5> QED BY <4>3, <4>4, <4>5, <4>6, <5>1
      <4>7. CASE bytes \notin Programs
        <5>1. entry = loaded_only
          BY <4>7
        <5> QED BY <4>2, <4>5, <4>7, <5>1
      <4> QED BY <4>6, <4>7
    <3> HIDE DEF entry, texts, r
    <3> QED BY <1>0, <3>3, <3>4, <3>5, OneBoxChanges, SMTT(40) DEF r
  <2> QED BY <2>7, <2>8
<1> QED BY <1>1, <1>2

(* A Sandbox with no script is as good as any.                              *)
LEMMA UnloadKeeps ==
  ASSUME NEW L, NEW A, NEW changed, NEW w, Good(w, L, A, changed), L \subseteq Scripts,
         NEW b \in Sandboxes, NEW entry \in BoxStates, entry.m_program_data = None,
         b \in A \/ entry = NewBox
  PROVE  LET r == [set_program_data_internal(w, b, None) EXCEPT !.box[b] = entry]
         IN  Good(r, L, A, changed) /\ r.box[b] = entry
<1> DEFINE map == set_program_data_internal(w, b, None).map
           r == [set_program_data_internal(w, b, None) EXCEPT !.box[b] = entry]
<1>0. /\ w \in Worlds /\ w.script \in [Scripts -> Texts]
      /\ w.box \in [Sandboxes -> BoxStates] /\ Registered(w)
  BY WorldParts DEF Good
<1>1. r = [script |-> w.script, box |-> [w.box EXCEPT ![b] = entry], map |-> map]
  <2>1. set_program_data_internal(w, b, None) =
          [script |-> w.script, box |-> [w.box EXCEPT ![b].m_program_data = None],
           map |-> map]
    BY <1>0, SetDataMap
  <2> HIDE DEF map
  <2>2. [[w.box EXCEPT ![b].m_program_data = None] EXCEPT ![b] = entry] =
          [w.box EXCEPT ![b] = entry]
    BY <1>0
  <2> QED BY <2>1, <2>2
<1>2. Fits(entry, w, None, changed)
  BY DEF Fits
<1>3. \A x \in Scripts : w.script[x].functions \in {None, w.script[x].source_code}
  BY DEF Good, Published
<1>4. r.box[b] = entry
  BY <1>0, <1>1
<1> HIDE DEF r
<1>5. Good(r, L, A, changed)
  BY <1>0, <1>1, <1>2, <1>3, OneBoxChanges
<1> QED BY <1>4, <1>5 DEF r

LEMMA LoadBufferKeeps ==
  ASSUME NEW L, NEW A, NEW changed, NEW w, Good(w, L, A, changed), L \subseteq Scripts,
         NEW b \in Sandboxes, b \in A, NEW bytes \in Bytes
  PROVE  Good(load_buffer(w, b, bytes), L, A, changed)
<1> DEFINE map == set_program_data_internal(w, b, None).map
           r == load_buffer(w, b, bytes)
           version == w.box[b].m_source_version
           runs == IF bytes \in Programs THEN bytes ELSE None
           stopped == [m_program_data |-> None, m_source_version |-> version,
                       m_program_bytes |-> bytes, running |-> None]
           entry == [m_program_data |-> None, m_source_version |-> version,
                     m_program_bytes |-> bytes, running |-> runs]
           cleared == [w.box EXCEPT ![b] = stopped]
           unloaded == [script |-> w.script, box |-> cleared, map |-> map]
<1>0. /\ w \in Worlds /\ w.script \in [Scripts -> Texts]
      /\ w.box \in [Sandboxes -> BoxStates] /\ Registered(w)
  BY WorldParts DEF Good
<1>1. [set_program_data_internal(w, b, None) EXCEPT !.box[b] =
         [m_program_data |-> None, m_source_version |-> @.m_source_version,
          m_program_bytes |-> bytes, running |-> None]] = unloaded
  <2> DEFINE unset == [w.box EXCEPT ![b].m_program_data = None]
  <2>1. set_program_data_internal(w, b, None) =
          [script |-> w.script, box |-> unset, map |-> map]
    BY <1>0, SetDataMap
  <2>2. unset[b].m_source_version = version
    BY <1>0 DEF BoxStates
  <2>3. [unset EXCEPT ![b] = stopped] = cleared
    BY <1>0
  <2> HIDE DEF map, unset, cleared, version
  <2>4. [[script |-> w.script, box |-> unset, map |-> map] EXCEPT !.box[b] =
          [m_program_data |-> None, m_source_version |-> @.m_source_version,
           m_program_bytes |-> bytes, running |-> None]] =
          [script |-> w.script,
           box |-> [unset EXCEPT ![b] =
             [m_program_data |-> None, m_source_version |-> unset[b].m_source_version,
              m_program_bytes |-> bytes, running |-> None]],
           map |-> map]
    OBVIOUS
  <2> QED BY <2>1, <2>2, <2>3, <2>4
<1>2. r = load(unloaded, b, bytes)
  BY <1>1, Zenon DEF load_buffer
<1>3. r = [script |-> w.script, box |-> [w.box EXCEPT ![b] = entry], map |-> map]
  <2> DEFINE ran == [cleared EXCEPT ![b].running = runs]
  <2>1. ran = [w.box EXCEPT ![b] = entry]
    BY <1>0
  <2>2. cleared[b].m_program_data = None
    BY <1>0
  <2>3. ran = [cleared EXCEPT ![b].running = IF bytes \in Programs THEN bytes ELSE None]
    OBVIOUS
  <2>4. w.script = IF bytes \in Publishing /\ None # None
                   THEN [w.script EXCEPT ![None].functions = bytes] ELSE w.script
    OBVIOUS
  <2> HIDE DEF cleared, map, ran
  <2>5. load(unloaded, b, bytes) = [script |-> w.script, box |-> ran, map |-> map]
    BY <2>2, <2>3, <2>4, Loading
  <2> QED BY <1>2, <2>1, <2>5
<1>4. Fits(entry, w, None, changed)
  <2>1. version \in Int
    BY <1>0 DEF BoxStates
  <2>2. runs \in Bytes
    BY DEF Bytes
  <2> HIDE DEF runs, version
  <2> QED BY <2>1, <2>2 DEF Fits, BoxStates
<1>5. \A x \in Scripts : w.script[x].functions \in {None, w.script[x].source_code}
  BY DEF Good, Published
<1> HIDE DEF r, entry
<1>6. Good(r, L, A, changed)
  BY <1>0, <1>3, <1>4, <1>5, OneBoxChanges
<1> QED BY <1>6 DEF r

(* The loop over the Sandboxes of a path: whatever order it meets them in,  *)
(* it finds as many positions as it counted.                                *)
LEMMA GivingKeeps ==
  ASSUME NEW L, NEW A, NEW changed, NEW w, Good(w, L, A, changed), L \subseteq Scripts,
         NEW s \in L
  PROVE  Good(GiveToSandboxes(w, s), L, A, changed) /\ SameTexts(GiveToSandboxes(w, s), w)
<1> DEFINE path == w.script[s].path
           N == Len(w.map[path])
           X == {v \in Worlds : /\ Good(v, L, A, changed) /\ SameTexts(v, w)
                                /\ Len(v.map[path]) = N}
           Give(v, i) == set_program(v, v.map[path][i], s)
           F == [x \in (1..N) \X X |-> Give(x[2], x[1])]
           Rounds(g) == [i \in 0..N |-> IF i = 0 THEN w ELSE Give(g[i - 1], i)]
<1>0. /\ w \in Worlds /\ w.script \in [Scripts -> Texts] /\ s \in Scripts
      /\ w.map \in [Paths -> Seq(Sandboxes)]
  BY WorldParts DEF Good
<1>1. path \in Paths /\ N \in Nat /\ w \in X /\ s # None
  <2>1. path \in Paths
    BY <1>0 DEF Texts
  <2>2. N \in Nat
    BY <1>0, <2>1
  <2> HIDE DEF path, N
  <2>3. w \in X
    BY <1>0 DEF SameTexts, N
  <2> QED BY <1>0, <2>1, <2>2, <2>3, ScriptsNotNone
<1>2. ASSUME NEW v \in X, NEW i \in 1..N
      PROVE  Give(v, i) \in X
  <2> DEFINE b == v.map[path][i]
  <2>1. Good(v, L, A, changed) /\ SameTexts(v, w) /\ Len(v.map[path]) = N /\ v \in Worlds
    OBVIOUS
  <2>2. v.map[path] \in Seq(Sandboxes) /\ v.script[s].path = path
    BY <1>0, <1>1, <2>1, WorldParts DEF SameTexts
  <2> HIDE DEF path, N, X
  <2>3. b \in Sandboxes /\ b \in Range(v.map[path])
    BY <1>1, <2>1, <2>2 DEF Range
  <2> HIDE DEF b
  <2>4. v.box[b].m_program_data # None
    BY <1>1, <2>1, <2>3 DEF Good, Registered
  <2>5. b \in A
    BY <2>1, <2>3, <2>4 DEF Good, Owned, NewBox
  <2>6. /\ Good(set_program(v, b, s), L, A, changed) /\ SameTexts(set_program(v, b, s), v)
        /\ Len(set_program(v, b, s).map[path]) = Len(v.map[path])
    BY <1>1, <2>1, <2>2, <2>3, <2>5, SetProgramKeeps, SMTT(40)
  <2>7. SameTexts(set_program(v, b, s), w)
    BY <2>1, <2>6 DEF SameTexts
  <2>8. set_program(v, b, s) \in Worlds
    BY <2>6 DEF Good
  <2> QED BY <2>1, <2>6, <2>7, <2>8 DEF X, b
<1>3. GiveToSandboxes(w, s) = (CHOOSE g : g = Rounds(g))[N]
  BY DEF GiveToSandboxes
<1> HIDE DEF path, N, X, Give
<1>4. F \in [(1..N) \X X -> X] /\ \A i \in 1..N, v \in X : F[<<i, v>>] = Give(v, i)
  BY <1>2
<1> HIDE DEF F
<1>5. \E g : g = Rounds(g)
  <2>1. PICK f : f \in [0..N -> X] /\ f[0] = w /\ \A i \in 1..N : f[i] = F[<<i, f[i - 1]>>]
    <3>1. N \in Nat /\ w \in X /\ IsRound(F, N, X)
      BY <1>1, <1>4 DEF IsRound
    <3>2. \E f : IsLoop(f, F, N, X, w)
      BY <3>1, LoopExists
    <3> QED BY <3>2 DEF IsLoop
  <2>2. \A i \in 1..N : i - 1 \in 0..N
    BY <1>1
  <2>3. \A i \in 1..N : f[i] = Give(f[i - 1], i)
    BY <1>4, <2>1, <2>2
  <2>4. \A i \in 0..N : i = 0 \/ i \in 1..N
    BY <1>1
  <2>5. \A i \in 0..N : f[i] = IF i = 0 THEN w ELSE Give(f[i - 1], i)
    BY <2>1, <2>3, <2>4
  <2>6. f = Rounds(f)
    <3>1. f = [i \in 0..N |-> f[i]]
      BY <2>1
    <3>2. [i \in 0..N |-> f[i]] = Rounds(f)
      BY <2>5
    <3> QED BY <3>1, <3>2
  <2> QED BY <2>6
<1> DEFINE g == CHOOSE g : g = Rounds(g)
<1>6. g = Rounds(g)
  BY <1>5
<1> HIDE DEF g
<1>7. g[0] \in X
  BY <1>1, <1>6
<1>8. ASSUME NEW i \in 0..N - 1, g[i] \in X
      PROVE  g[i + 1] \in X
  <2>1. i + 1 \in 1..N /\ i + 1 \in 0..N /\ i + 1 # 0 /\ (i + 1) - 1 = i
    BY <1>1
  <2>2. g[i + 1] = Give(g[(i + 1) - 1], i + 1)
    BY <1>6, <2>1
  <2> QED BY <1>2, <1>8, <2>1, <2>2
<1>9. g[N] \in X
  <2> DEFINE S == {i \in 0..N : g[i] \in X}
  <2>1. 0 \in S /\ \A i \in 0..N - 1 : i \in S => i + 1 \in S
    BY <1>1, <1>7, <1>8
  <2> HIDE DEF S
  <2>2. N \in S
    BY <1>1, <2>1, CountUp
  <2> QED BY <2>2 DEF S
<1> QED BY <1>3, <1>9 DEF g, X

-----------------------------------------------------------------------------
(* What any operation on one script has to see to.                          *)
Suits(entry, w, s, changed) ==
  /\ entry \in Texts /\ entry.functions \in {None, entry.source_code}
  /\ \A b \in Sandboxes :
       w.box[b].m_program_data = s =>
         /\ entry.path = w.script[s].path
         /\ w.box[b].m_source_version <= entry.source_version
         /\ s # changed /\ w.box[b].m_source_version = entry.source_version
              => w.box[b].running = entry.source_code

LEMMA OneScriptChanges ==
  ASSUME NEW L, NEW A, NEW other, NEW after, NEW w, Good(w, L, A, other),
         NEW s \in Scripts, NEW entry, Suits(entry, w, s, after), other \in {after, s},
         NEW r, r = [script |-> [w.script EXCEPT ![s] = entry], box |-> w.box,
                     map |-> w.map]
  PROVE  Good(r, L, A, after)
<1> DEFINE texts == [w.script EXCEPT ![s] = entry]
<1>0. /\ w \in Worlds /\ w.script \in [Scripts -> Texts]
      /\ w.box \in [Sandboxes -> BoxStates] /\ w.map \in [Paths -> Seq(Sandboxes)]
  BY WorldParts DEF Good
<1>1. /\ texts \in [Scripts -> Texts] /\ texts[s] = entry
      /\ \A x \in Scripts : x # s => texts[x] = w.script[x]
  BY <1>0 DEF Suits
<1>2. r.script = texts /\ r.box = w.box /\ r.map = w.map
  OBVIOUS
<1>3. r \in Worlds
  BY <1>0, <1>1 DEF Worlds
<1> HIDE DEF texts
<1>4. \A b \in Sandboxes : w.box[b].m_program_data \in Scripts \cup {None}
  BY <1>0 DEF BoxStates
<1>5. Registered(r)
  <2>1. \A b \in Sandboxes :
          w.box[b].m_program_data # None =>
            texts[w.box[b].m_program_data].path =
              w.script[w.box[b].m_program_data].path
    BY <1>1, <1>4 DEF Suits
  <2>2. \A p \in Paths, b \in Sandboxes :
          b \in Range(w.map[p]) <=> /\ w.box[b].m_program_data # None
                                    /\ texts[w.box[b].m_program_data].path = p
    BY <2>1 DEF Good, Registered
  <2>3. \A p \in Paths : IsInjective(w.map[p])
    BY DEF Good, Registered
  <2>4. \A p \in Paths, b \in Sandboxes :
          b \in Range(r.map[p]) <=> /\ r.box[b].m_program_data # None
                                    /\ r.script[r.box[b].m_program_data].path = p
    <3> TAKE p \in Paths, b \in Sandboxes
    <3>1. b \in Range(r.map[p]) <=> b \in Range(w.map[p])
      BY <1>2
    <3>2. r.script[r.box[b].m_program_data].path = texts[w.box[b].m_program_data].path
      BY <1>2
    <3>3. r.box[b].m_program_data = w.box[b].m_program_data
      BY <1>2
    <3> QED BY <2>2, <3>1, <3>2, <3>3, Zenon
  <2>5. \A p \in Paths : IsInjective(r.map[p])
    BY <1>2, <2>3
  <2> QED BY <2>4, <2>5 DEF Registered
<1>6. Owned(r, L, A)
  BY <1>2 DEF Good, Owned
<1>7. Versioned(r, after)
  <2>1. ASSUME NEW b \in Sandboxes, w.box[b].m_program_data # None
        PROVE  LET x == w.box[b].m_program_data
               IN  /\ w.box[b].m_source_version <= texts[x].source_version
                   /\ x # after /\ w.box[b].m_source_version = texts[x].source_version
                        => w.box[b].running = texts[x].source_code
    <3>1. CASE w.box[b].m_program_data = s
      BY <1>1, <3>1 DEF Suits
    <3>2. CASE w.box[b].m_program_data # s
      BY <1>1, <1>4, <2>1, <3>2 DEF Good, Versioned
    <3> QED BY <3>1, <3>2
  <2> QED BY <1>2, <2>1 DEF Versioned
<1>8. Published(r)
  <2>1. \A x \in Scripts : texts[x].functions \in {None, texts[x].source_code}
    BY <1>1 DEF Good, Published, Suits
  <2> QED BY <1>2, <2>1 DEF Published
<1> QED BY <1>3, <1>5, <1>6, <1>7, <1>8 DEF Good

(* set_file: the new bytes may be given to Sandboxes that are older than    *)
(* the script, or to a script that changes its version next.                *)
LEMMA SetFileKeeps ==
  ASSUME NEW L, NEW A, NEW changed, NEW w, Good(w, L, A, changed), L \subseteq Scripts,
         NEW s \in L, NEW p \in Paths, files \in [Paths -> Bytes],
         \A b \in Sandboxes :
           w.box[b].m_program_data = s =>
             /\ p = w.script[s].path
             /\ changed = s \/ w.box[b].m_source_version < w.script[s].source_version
  PROVE  LET r == set_file(w, s, p)
         IN  /\ Good(r, L, A, changed) /\ r.script[s].path = p
             /\ r.script[s].source_version = w.script[s].source_version
<1> DEFINE moved == [w EXCEPT !.script[s].path = p]
           newer == NewSource(moved, s, files[p])
           old == w.script[s]
           there == [path |-> p, source_code |-> old.source_code,
                     source_version |-> old.source_version, functions |-> old.functions]
           fresh == [path |-> p, source_code |-> files[p],
                     source_version |-> old.source_version, functions |-> None]
           here == [w.script EXCEPT ![s] = there]
<1>0. /\ w \in Worlds /\ w.script \in [Scripts -> Texts] /\ s \in Scripts
      /\ w.box \in [Sandboxes -> BoxStates] /\ old \in Texts
      /\ w = [script |-> w.script, box |-> w.box, map |-> w.map]
  BY WorldParts DEF Good
<1>1. moved = [script |-> here, box |-> w.box, map |-> w.map]
  <2>1. [[script |-> w.script, box |-> w.box, map |-> w.map] EXCEPT !.script[s].path = p] =
          [script |-> [w.script EXCEPT ![s].path = p], box |-> w.box, map |-> w.map]
    OBVIOUS
  <2>2. [w.script EXCEPT ![s].path = p] = here
    <3>1. [old EXCEPT !.path = p] = there
      BY <1>0 DEF Texts
    <3> QED BY <1>0, <3>1
  <2>3. moved = [[script |-> w.script, box |-> w.box, map |-> w.map]
                   EXCEPT !.script[s].path = p]
    BY <1>0, Zenon
  <2> HIDE DEF moved, here
  <2> QED BY <2>1, <2>2, <2>3
<1> HIDE DEF moved
<1>2. old.functions \in {None, old.source_code}
  BY <1>0 DEF Good, Published
<1>3. \A b \in Sandboxes :
        w.box[b].m_program_data = s =>
          /\ p = old.path /\ w.box[b].m_source_version <= old.source_version
          /\ s # changed /\ w.box[b].m_source_version = old.source_version
               => w.box[b].running = old.source_code
  BY <1>0, ScriptsNotNone DEF Good, Versioned
<1>4. Suits(there, w, s, changed) /\ there.path = p
      /\ there.source_version = old.source_version
  <2>1. there \in Texts
    BY <1>0 DEF Texts
  <2> QED BY <1>2, <1>3, <2>1 DEF Suits
<1>5. Good(moved, L, A, changed)
  BY <1>0, <1>1, <1>4, OneScriptChanges
<1>6. moved.script[s] = there /\ moved.script = here /\ moved.box = w.box /\ moved.map = w.map
  BY <1>0, <1>1
<1>7. CASE files[p] \in {None, old.source_code}
  <2>1. set_file(w, s, p) = moved
    BY <1>7 DEF set_file, moved
  <2> QED BY <1>4, <1>5, <1>6, <2>1
<1>8. CASE files[p] \notin {None, old.source_code}
  <2>1. set_file(w, s, p) = GiveToSandboxes(newer, s)
    BY <1>8 DEF set_file, moved
  <2>2. newer = [script |-> [moved.script EXCEPT ![s] = fresh], box |-> moved.box,
                 map |-> moved.map]
    <3>1. newer = [moved EXCEPT !.script[s] =
                     [@ EXCEPT !.source_code = files[p], !.functions = None]]
      BY DEF NewSource
    <3>2. [there EXCEPT !.source_code = files[p], !.functions = None] = fresh
      <4> DEFINE half == [path |-> p, source_code |-> files[p],
                          source_version |-> old.source_version,
                          functions |-> old.functions]
      <4> HIDE DEF old
      <4>1. [there EXCEPT !.source_code = files[p]] = half
        OBVIOUS
      <4>2. [half EXCEPT !.functions = None] = fresh
        OBVIOUS
      <4> HIDE DEF half
      <4> QED BY <4>1, <4>2
    <3>3. here[s] = there
      BY <1>0
    <3> HIDE DEF here, there, fresh, newer
    <3>4. [[script |-> here, box |-> w.box, map |-> w.map] EXCEPT !.script[s] =
             [@ EXCEPT !.source_code = files[p], !.functions = None]] =
            [script |-> [here EXCEPT ![s] =
                           [here[s] EXCEPT !.source_code = files[p], !.functions = None]],
             box |-> w.box, map |-> w.map]
      OBVIOUS
    <3> QED BY <1>1, <1>6, <3>1, <3>2, <3>3, <3>4
  <2>3. fresh \in Texts /\ fresh.functions = None /\ fresh.path = p
        /\ fresh.source_version = old.source_version
    BY <1>0 DEF Texts, Bytes
  <2>4. moved.script[s].path = p
    BY <1>4, <1>6
  <2>5. ASSUME NEW b \in Sandboxes, w.box[b].m_program_data = s, s # changed
        PROVE  w.box[b].m_source_version # old.source_version
    BY <1>0, <2>5 DEF BoxStates, Texts
  <2>6. Suits(fresh, moved, s, changed)
    <3> HIDE DEF fresh
    <3> QED BY <1>3, <1>6, <2>3, <2>4, <2>5 DEF Suits
  <2> HIDE DEF newer, fresh
  <2>7. Good(newer, L, A, changed)
    BY <1>0, <1>5, <2>2, <2>6, OneScriptChanges
  <2>8. newer.script[s] = fresh
    BY <1>0, <1>6, <2>2
  <2>9. /\ Good(GiveToSandboxes(newer, s), L, A, changed)
        /\ SameTexts(GiveToSandboxes(newer, s), newer)
    BY <2>7, GivingKeeps
  <2> QED BY <1>0, <2>1, <2>3, <2>8, <2>9 DEF SameTexts
<1> QED BY <1>7, <1>8

(* _reload: whoever ran the script before is now behind it.                 *)
LEMMA ReloadKeeps ==
  ASSUME NEW L, NEW A, NEW changed, NEW w, Good(w, L, A, changed), L \subseteq Scripts,
         NEW s \in L, changed \in {None, s}, files \in [Paths -> Bytes]
  PROVE  Good(_reload(w, s), L, A, None)
<1> DEFINE old == w.script[s]
           entry == [path |-> old.path, source_code |-> old.source_code,
                     source_version |-> old.source_version + 1,
                     functions |-> old.functions]
           texts == [w.script EXCEPT ![s] = entry]
           newer == [w EXCEPT !.script[s].source_version = @ + 1]
<1>0. /\ w \in Worlds /\ w.script \in [Scripts -> Texts] /\ s \in Scripts
      /\ w.box \in [Sandboxes -> BoxStates] /\ old \in Texts
      /\ w = [script |-> w.script, box |-> w.box, map |-> w.map]
  BY WorldParts DEF Good
<1>1. newer = [script |-> texts, box |-> w.box, map |-> w.map]
  <2>1. [[script |-> w.script, box |-> w.box, map |-> w.map]
           EXCEPT !.script[s].source_version = @ + 1] =
          [script |-> [w.script EXCEPT ![s].source_version = @ + 1], box |-> w.box,
           map |-> w.map]
    OBVIOUS
  <2>2. [w.script EXCEPT ![s].source_version = @ + 1] = texts
    <3>1. [old EXCEPT !.source_version = @ + 1] = entry
      BY <1>0 DEF Texts
    <3> QED BY <1>0, <3>1
  <2>3. newer = [[script |-> w.script, box |-> w.box, map |-> w.map]
                   EXCEPT !.script[s].source_version = @ + 1]
    BY <1>0, Zenon
  <2> HIDE DEF newer, texts
  <2> QED BY <2>1, <2>2, <2>3
<1>2. _reload(w, s) = set_file(newer, s, newer.script[s].path)
  BY DEF _reload
<1> HIDE DEF newer
<1>3. /\ newer.script[s] = entry /\ newer.box = w.box
      /\ newer.script[s].path \in Paths
  BY <1>0, <1>1 DEF Texts
<1>4. \A b \in Sandboxes :
        w.box[b].m_program_data = s =>
          /\ w.box[b].m_source_version \in Int
          /\ w.box[b].m_source_version <= old.source_version
  BY <1>0, ScriptsNotNone DEF Good, Versioned, BoxStates
<1>5. /\ entry \in Texts /\ entry.path = old.path
      /\ entry.source_version = old.source_version + 1 /\ old.source_version \in Nat
      /\ entry.functions \in {None, entry.source_code}
  BY <1>0 DEF Texts, Good, Published
<1>6. \A b \in Sandboxes :
        w.box[b].m_program_data = s =>
          w.box[b].m_source_version < entry.source_version
  BY <1>4, <1>5
<1> HIDE DEF entry
<1>7. Suits(entry, w, s, None)
  <2>1. \A b \in Sandboxes :
          w.box[b].m_program_data = s =>
            /\ w.box[b].m_source_version <= entry.source_version
            /\ w.box[b].m_source_version # entry.source_version
    BY <1>4, <1>5, <1>6
  <2> QED BY <1>5, <2>1 DEF Suits
<1>8. Good(newer, L, A, None)
  BY <1>0, <1>1, <1>7, OneScriptChanges
<1> QED BY <1>2, <1>3, <1>6, <1>8, SetFileKeeps

-----------------------------------------------------------------------------
(* The inductive invariant.                                                 *)
ScriptsTyped ==
  /\ files \in [Paths -> Bytes] /\ loaded \subseteq Scripts /\ alive \subseteq Sandboxes

ScriptsInv == ScriptsTyped /\ Good(World, loaded, alive, None)

LEMMA Becoming ==
  ASSUME NEW w \in Worlds, Becomes(w)
  PROVE  World' = w
<1>1. w = [script |-> w.script, box |-> w.box, map |-> w.map]
  BY WorldParts
<1>2. World' = [script |-> w.script, box |-> w.box, map |-> w.map]
  BY DEF Becomes, World
<1> QED BY <1>1, <1>2, Zenon

LEMMA GoodNext ==
  ASSUME NEW w, Becomes(w), ScriptsTyped', Good(w, loaded', alive', None)
  PROVE  ScriptsInv'
<1>1. World' = w
  BY Becoming DEF Good
<1> QED BY <1>1 DEF ScriptsInv

(* A script that nobody runs yet, or one that changes its version next.     *)
LEMMA WeakerGood ==
  ASSUME NEW L, NEW M, NEW A, NEW w, NEW s, Good(w, L, A, None), L \subseteq M
  PROVE  Good(w, M, A, None) /\ Good(w, M, A, s)
<1>1. Owned(w, M, A)
  BY DEF Good, Owned
<1>2. Versioned(w, s)
  BY DEF Good, Versioned
<1> QED BY <1>1, <1>2 DEF Good

LEMMA WorldFields == World.script = script /\ World.box = box /\ World.map = sandbox_map
BY DEF World

LEMMA LoadResourceKeeps ==
  ASSUME ScriptsInv, NEW s \in Scripts, NEW p \in Paths, load_resource(s, p)
  PROVE  ScriptsInv'
<1> DEFINE L == loaded \cup {s}
           first == set_file(World, s, p)
<1>1. /\ s \notin loaded /\ loaded' = L /\ Becomes(_reload(first, s))
      /\ files' = files /\ alive' = alive /\ ScriptsTyped
  BY DEF load_resource, ScriptsInv
<1>2. L \subseteq Scripts /\ s \in L /\ loaded \subseteq L /\ files \in [Paths -> Bytes]
  BY <1>1 DEF ScriptsTyped
<1>3. Good(World, L, alive, None) /\ Good(World, loaded, alive, None)
  BY <1>2, WeakerGood DEF ScriptsInv
<1>4. \A b \in Sandboxes : World.box[b].m_program_data # s
  BY <1>1, <1>3, ScriptsNotNone DEF Good, Owned
<1> HIDE DEF L, first
<1>5. Good(first, L, alive, None)
  BY <1>2, <1>3, <1>4, SetFileKeeps DEF first
<1>6. Good(_reload(first, s), L, alive, None)
  BY <1>2, <1>5, ReloadKeeps
<1>7. ScriptsTyped'
  BY <1>1, <1>2 DEF ScriptsTyped
<1> QED BY <1>1, <1>6, <1>7, GoodNext

LEMMA SaveKeeps ==
  ASSUME ~SavesElsewhere, ScriptsInv, NEW s \in Scripts, NEW p \in Paths, save(s, p)
  PROVE  ScriptsInv'
<1> DEFINE first == set_file(World, s, p)
<1>1. /\ s \in loaded /\ loaded' = loaded /\ Becomes(_reload(first, s))
      /\ files' = files /\ alive' = alive /\ ScriptsTyped /\ p = World.script[s].path
  BY WorldFields DEF save, ScriptsInv
<1>2. loaded \subseteq Scripts /\ files \in [Paths -> Bytes]
  BY <1>1 DEF ScriptsTyped
<1>3. Good(World, loaded, alive, s)
  BY <1>2, WeakerGood DEF ScriptsInv
<1> HIDE DEF first
<1>4. Good(first, loaded, alive, s)
  BY <1>1, <1>2, <1>3, SetFileKeeps DEF first
<1>5. Good(_reload(first, s), loaded, alive, None)
  BY <1>1, <1>2, <1>4, ReloadKeeps
<1>6. ScriptsTyped'
  BY <1>1 DEF ScriptsTyped
<1> QED BY <1>1, <1>5, <1>6, GoodNext

LEMMA ReloadStepKeeps ==
  ASSUME ScriptsInv, NEW s \in Scripts, reload(s)
  PROVE  ScriptsInv'
<1>1. /\ s \in loaded /\ loaded' = loaded /\ Becomes(_reload(World, s))
      /\ files' = files /\ alive' = alive /\ ScriptsTyped
  BY DEF reload, ScriptsInv
<1>2. Good(_reload(World, s), loaded, alive, None)
  BY <1>1, ReloadKeeps DEF ScriptsInv, ScriptsTyped
<1>3. ScriptsTyped'
  BY <1>1 DEF ScriptsTyped
<1> QED BY <1>1, <1>2, <1>3, GoodNext

LEMMA NewStates == NewScript \in Texts /\ NewBox \in BoxStates
<1>1. (CHOOSE p \in Paths : TRUE) \in Paths
  BY ScriptsAssumption
<1> QED BY <1>1 DEF NewScript, NewBox, Texts, BoxStates, Bytes

LEMMA DropResourceKeeps ==
  ASSUME ScriptsInv, NEW s \in Scripts, drop_resource(s)
  PROVE  ScriptsInv'
<1> DEFINE w == [script |-> [script EXCEPT ![s] = NewScript], box |-> box,
                 map |-> sandbox_map]
           L == loaded \ {s}
<1>1. /\ loaded' = L /\ files' = files /\ alive' = alive /\ ScriptsTyped
      /\ \A b \in alive : box[b].m_program_data # s
      /\ script' = [script EXCEPT ![s] = NewScript] /\ box' = box
      /\ sandbox_map' = sandbox_map
  BY DEF drop_resource, ScriptsInv
<1>2. Good(World, loaded, alive, None)
  BY DEF ScriptsInv
<1>3. \A b \in Sandboxes : World.box[b].m_program_data # s
  BY <1>1, <1>2, ScriptsNotNone, WorldFields DEF Good, Owned, NewBox
<1>4. Good(World, L, alive, None)
  <2>1. Owned(World, L, alive)
    BY <1>2, <1>3 DEF Good, Owned
  <2> QED BY <1>2, <2>1 DEF Good
<1>5. Suits(NewScript, World, s, None)
  BY <1>3, NewStates DEF Suits, NewScript
<1>6. w = [script |-> [World.script EXCEPT ![s] = NewScript], box |-> World.box,
           map |-> World.map]
  BY WorldFields
<1> HIDE DEF L
<1>7. Good(w, L, alive, None)
  <2> HIDE DEF w
  <2> QED BY <1>4, <1>5, <1>6, OneScriptChanges
<1>8. Becomes(w)
  BY <1>1 DEF Becomes
<1>9. ScriptsTyped'
  BY <1>1 DEF ScriptsTyped, L
<1> HIDE DEF w
<1> QED BY <1>1, <1>7, <1>8, <1>9, GoodNext

LEMMA NewSandboxKeeps ==
  ASSUME ScriptsInv, NEW b \in Sandboxes, new_sandbox(b)
  PROVE  ScriptsInv'
<1>1. /\ alive' = alive \cup {b} /\ loaded' = loaded /\ files' = files
      /\ script' = script /\ box' = box /\ sandbox_map' = sandbox_map /\ ScriptsTyped
  BY DEF new_sandbox, ScriptsInv
<1>2. World' = World
  BY <1>1 DEF World
<1>3. Owned(World, loaded, alive')
  BY <1>1 DEF ScriptsInv, Good, Owned
<1>4. Good(World, loaded, alive', None)
  BY <1>3 DEF ScriptsInv, Good
<1> QED BY <1>1, <1>2, <1>4 DEF ScriptsInv, ScriptsTyped

LEMMA FreeSandboxKeeps ==
  ASSUME ScriptsInv, NEW b \in Sandboxes, free_sandbox(b)
  PROVE  ScriptsInv'
<1> DEFINE w == [set_program_data_internal(World, b, None) EXCEPT !.box[b] = NewBox]
<1>1. /\ alive' = alive \ {b} /\ loaded' = loaded /\ files' = files
      /\ Becomes(w) /\ ScriptsTyped
  BY DEF free_sandbox, ScriptsInv
<1> HIDE DEF w
<1>2. Good(w, loaded, alive, None) /\ w.box[b] = NewBox
  BY <1>1, NewStates, UnloadKeeps DEF ScriptsInv, ScriptsTyped, NewBox, w
<1>3. Owned(w, loaded, alive \ {b})
  BY <1>2 DEF Good, Owned
<1>4. Good(w, loaded', alive', None)
  BY <1>1, <1>2, <1>3 DEF Good
<1>5. ScriptsTyped'
  BY <1>1 DEF ScriptsTyped
<1> QED BY <1>1, <1>4, <1>5, GoodNext

LEMMA GiveProgramKeeps ==
  ASSUME ScriptsInv, NEW b \in Sandboxes, NEW s \in Scripts \cup {None}, give_program(b, s)
  PROVE  ScriptsInv'
<1>1. /\ b \in alive /\ s \in loaded \cup {None} /\ Becomes(set_program(World, b, s))
      /\ alive' = alive /\ loaded' = loaded /\ files' = files /\ ScriptsTyped
  BY DEF give_program, ScriptsInv
<1>2. Good(set_program(World, b, s), loaded, alive, None)
  BY <1>1, SetProgramKeeps DEF ScriptsInv, ScriptsTyped
<1>3. ScriptsTyped'
  BY <1>1 DEF ScriptsTyped
<1> QED BY <1>1, <1>2, <1>3, GoodNext

LEMMA GiveBufferKeeps ==
  ASSUME ScriptsInv, NEW b \in Sandboxes, NEW bytes \in Contents, give_buffer(b, bytes)
  PROVE  ScriptsInv'
<1>1. /\ b \in alive /\ Becomes(load_buffer(World, b, bytes))
      /\ alive' = alive /\ loaded' = loaded /\ files' = files /\ ScriptsTyped
  BY DEF give_buffer, ScriptsInv
<1>2. bytes \in Bytes
  BY DEF Bytes
<1>3. Good(load_buffer(World, b, bytes), loaded, alive, None)
  BY <1>1, <1>2, LoadBufferKeeps DEF ScriptsInv, ScriptsTyped
<1>4. ScriptsTyped'
  BY <1>1 DEF ScriptsTyped
<1> QED BY <1>1, <1>3, <1>4, GoodNext

(* A Sandbox that has forgotten its version is behind every script.         *)
LEMMA ForgettingKeeps ==
  ASSUME NEW L, NEW A, NEW w, Good(w, L, A, None), NEW b \in Sandboxes, b \in A
  PROVE  LET r == [w EXCEPT !.box[b].m_source_version = -1]
         IN  /\ Good(r, L, A, None) /\ r.script = w.script
             /\ r.box[b].m_program_data = w.box[b].m_program_data
             /\ r.box[b].m_program_bytes = w.box[b].m_program_bytes
<1> DEFINE r == [w EXCEPT !.box[b].m_source_version = -1]
           changed == [w.box EXCEPT ![b].m_source_version = -1]
<1>0. /\ w \in Worlds /\ w.script \in [Scripts -> Texts]
      /\ w.box \in [Sandboxes -> BoxStates] /\ w.map \in [Paths -> Seq(Sandboxes)]
      /\ w = [script |-> w.script, box |-> w.box, map |-> w.map]
  BY WorldParts DEF Good
<1>1. r = [script |-> w.script, box |-> changed, map |-> w.map]
  <2>1. [[script |-> w.script, box |-> w.box, map |-> w.map]
           EXCEPT !.box[b].m_source_version = -1] =
          [script |-> w.script, box |-> [w.box EXCEPT ![b].m_source_version = -1],
           map |-> w.map]
    OBVIOUS
  <2>2. r = [[script |-> w.script, box |-> w.box, map |-> w.map]
               EXCEPT !.box[b].m_source_version = -1]
    BY <1>0, Zenon
  <2> HIDE DEF r
  <2> QED BY <2>1, <2>2
<1> HIDE DEF r
<1>2. /\ changed \in [Sandboxes -> BoxStates] /\ changed[b].m_source_version = -1
      /\ \A c \in Sandboxes : /\ changed[c].m_program_data = w.box[c].m_program_data
                              /\ changed[c].m_program_bytes = w.box[c].m_program_bytes
                              /\ c # b => changed[c] = w.box[c]
  BY <1>0 DEF BoxStates
<1> HIDE DEF changed
<1>3. r.script = w.script /\ r.box = changed /\ r.map = w.map
  BY <1>1
<1>4. r \in Worlds
  BY <1>0, <1>1, <1>2 DEF Worlds
<1>5. Registered(r)
  BY <1>2, <1>3 DEF Good, Registered
<1>6. Owned(r, L, A)
  BY <1>2, <1>3 DEF Good, Owned
<1>7. Versioned(r, None)
  <2>1. ASSUME NEW c \in Sandboxes, changed[c].m_program_data # None
        PROVE  LET x == changed[c].m_program_data
               IN  /\ changed[c].m_source_version <= w.script[x].source_version
                   /\ changed[c].m_source_version = w.script[x].source_version
                        => changed[c].running = w.script[x].source_code
    <3>1. CASE c = b
      <4>1. changed[c].m_program_data \in Scripts
        BY <1>0, <1>2, <2>1 DEF BoxStates
      <4>2. w.script[changed[c].m_program_data].source_version \in Nat
        BY <1>0, <4>1 DEF Texts
      <4> QED BY <1>2, <3>1, <4>2
    <3>2. CASE c # b
      BY <1>2, <2>1, <3>2 DEF Good, Versioned
    <3> QED BY <3>1, <3>2
  <2> QED BY <1>3, <2>1 DEF Versioned
<1>8. Published(r)
  BY <1>3 DEF Good, Published
<1>9. Good(r, L, A, None)
  BY <1>4, <1>5, <1>6, <1>7, <1>8 DEF Good
<1> QED BY <1>2, <1>3, <1>9 DEF r

LEMMA ResetKeeps ==
  ASSUME ScriptsInv, NEW b \in Sandboxes, NEW off \in BOOLEAN, reset(b, off)
  PROVE  ScriptsInv'
<1> DEFINE w == [World EXCEPT !.box[b].m_source_version = -1]
           r == IF off THEN [set_program_data_internal(w, b, None) EXCEPT !.box[b] = NewBox]
                ELSE IF box[b].m_program_data # None
                     THEN set_program(w, b, box[b].m_program_data)
                ELSE IF box[b].m_program_bytes # None
                     THEN load_buffer(w, b, box[b].m_program_bytes)
                ELSE w
<1>1. /\ b \in alive /\ Becomes(r)
      /\ alive' = alive /\ loaded' = loaded /\ files' = files /\ ScriptsTyped
  BY DEF reset, ScriptsInv
<1>2. loaded \subseteq Scripts
  BY <1>1 DEF ScriptsTyped
<1>3. Good(World, loaded, alive, None)
  BY DEF ScriptsInv
<1>4. Good(w, loaded, alive, None)
  BY <1>1, <1>3, ForgettingKeeps
<1>5. box[b].m_program_data \in loaded \cup {None} /\ box[b].m_program_bytes \in Bytes
  BY <1>3, WorldFields, WorldParts DEF Good, Owned, BoxStates
<1> HIDE DEF w
<1>6. Good(r, loaded, alive, None)
  <2>1. CASE off
    <3>1. r = [set_program_data_internal(w, b, None) EXCEPT !.box[b] = NewBox]
      BY <2>1
    <3>2. NewBox.m_program_data = None
      BY DEF NewBox
    <3> QED BY <1>1, <1>2, <1>4, <3>1, <3>2, NewStates, UnloadKeeps
  <2>2. CASE ~off /\ box[b].m_program_data # None
    <3>1. r = set_program(w, b, box[b].m_program_data)
      BY <2>2
    <3> QED BY <1>1, <1>2, <1>4, <1>5, <3>1, SetProgramKeeps
  <2>3. CASE ~off /\ box[b].m_program_data = None /\ box[b].m_program_bytes # None
    <3>1. r = load_buffer(w, b, box[b].m_program_bytes)
      BY <2>3
    <3> QED BY <1>1, <1>2, <1>4, <1>5, <3>1, LoadBufferKeeps
  <2>4. CASE ~off /\ box[b].m_program_data = None /\ box[b].m_program_bytes = None
    BY <1>4, <2>4
  <2> QED BY <2>1, <2>2, <2>3, <2>4
<1>7. ScriptsTyped'
  BY <1>1 DEF ScriptsTyped
<1> HIDE DEF r
<1> QED BY <1>1, <1>6, <1>7, GoodNext

LEMMA UnchangedKeeps ==
  ASSUME ScriptsInv, ScriptsTyped', UNCHANGED <<loaded, script, alive, box, sandbox_map>>
  PROVE  ScriptsInv'
<1>1. World' = World /\ loaded' = loaded /\ alive' = alive
  BY DEF World
<1> QED BY <1>1 DEF ScriptsInv

LEMMA ScriptsInitial ==
  ASSUME Init
  PROVE  ScriptsInv
<1>1. ScriptsTyped
  BY DEF Init, ScriptsTyped
<1>2. /\ World.script = [s \in Scripts |-> NewScript]
      /\ World.box = [b \in Sandboxes |-> NewBox]
      /\ World.map = [p \in Paths |-> <<>>]
      /\ World = [script |-> World.script, box |-> World.box, map |-> World.map]
  BY WorldFields DEF Init, World
<1>3. World \in Worlds
  <2>1. World.script \in [Scripts -> Texts] /\ World.box \in [Sandboxes -> BoxStates]
    BY <1>2, NewStates
  <2>2. World.map \in [Paths -> Seq(Sandboxes)]
    BY <1>2
  <2> QED BY <1>2, <2>1, <2>2 DEF Worlds
<1>4. \A b \in Sandboxes : World.box[b] = NewBox /\ NewBox.m_program_data = None
  BY <1>2 DEF NewBox
<1>5. Registered(World)
  <2>1. \A p \in Paths : DOMAIN World.map[p] = {}
    BY <1>2
  <2>2. \A p \in Paths : IsInjective(World.map[p]) /\ Range(World.map[p]) = {}
    BY <2>1 DEF IsInjective, Range
  <2> QED BY <1>4, <2>2 DEF Registered
<1>6. Owned(World, loaded, alive) /\ Versioned(World, None)
  BY <1>4 DEF Owned, Versioned
<1>7. Published(World)
  BY <1>2 DEF Published, NewScript
<1> QED BY <1>1, <1>3, <1>5, <1>6, <1>7 DEF ScriptsInv, Good

LEMMA ScriptsStep ==
  ASSUME ~SavesElsewhere, ScriptsInv, [Next]_vars
  PROVE  ScriptsInv'
<1>0. ScriptsTyped
  BY DEF ScriptsInv
<1>1. ASSUME NEW p \in Paths, NEW bytes \in Bytes, write_file(p, bytes)
      PROVE  ScriptsInv'
  BY <1>0, <1>1, UnchangedKeeps DEF write_file, ScriptsTyped
<1>2. ASSUME NEW s \in Scripts, NEW p \in Paths, load_resource(s, p) \/ save(s, p)
      PROVE  ScriptsInv'
  BY <1>2, LoadResourceKeeps, SaveKeeps
<1>3. ASSUME NEW s \in Scripts, drop_resource(s) \/ reload(s)
      PROVE  ScriptsInv'
  BY <1>3, DropResourceKeeps, ReloadStepKeeps
<1>4. ASSUME NEW b \in Sandboxes, new_sandbox(b) \/ free_sandbox(b)
      PROVE  ScriptsInv'
  BY <1>4, NewSandboxKeeps, FreeSandboxKeeps
<1>5. ASSUME NEW b, call(b) \/ call_ends(b)
      PROVE  ScriptsInv'
  BY <1>0, <1>5, UnchangedKeeps DEF call, call_ends, ScriptsTyped
<1>6. ASSUME NEW b \in Sandboxes, NEW s \in Scripts \cup {None}, give_program(b, s)
      PROVE  ScriptsInv'
  BY <1>6, GiveProgramKeeps
<1>7. ASSUME NEW b \in Sandboxes, NEW bytes \in Contents, give_buffer(b, bytes)
      PROVE  ScriptsInv'
  BY <1>7, GiveBufferKeeps
<1>8. ASSUME NEW b \in Sandboxes, NEW off \in BOOLEAN, reset(b, off)
      PROVE  ScriptsInv'
  BY <1>8, ResetKeeps
<1>9. CASE UNCHANGED vars
  BY <1>0, <1>9, UnchangedKeeps DEF vars, ScriptsTyped
<1> QED BY <1>1, <1>2, <1>3, <1>4, <1>5, <1>6, <1>7, <1>8, <1>9 DEF Next

LEMMA ScriptsInvHolds ==
  ASSUME ~SavesElsewhere
  PROVE  Spec => []ScriptsInv
<1>1. Init => ScriptsInv
  BY ScriptsInitial
<1>2. ScriptsInv /\ [Next]_vars => ScriptsInv'
  BY ScriptsStep
<1> QED BY <1>1, <1>2, PTL DEF Spec

(* The Sandboxes registered under a path are those that run a script of     *)
(* that path, each once, whatever is loaded, reloaded, saved in its place   *)
(* and freed in between.                                                    *)
THEOREM RegistryStaysExact ==
  ASSUME ~SavesElsewhere
  PROVE  Spec => []RegistryIsExact
<1>1. ScriptsInv => RegistryIsExact
  <2>1. SUFFICES ASSUME ScriptsInv PROVE RegistryIsExact
    OBVIOUS
  <2>2. Good(World, loaded, alive, None)
    BY <2>1 DEF ScriptsInv
  <2>3. ASSUME NEW b \in Sandboxes, box[b].m_program_data # None
        PROVE  b \in alive
    BY <2>2, <2>3, WorldFields DEF Good, Owned, NewBox
  <2>4. \A p \in Paths : IsInjective(sandbox_map[p])
    BY <2>2, WorldFields DEF Good, Registered
  <2>5. \A p \in Paths, b \in Sandboxes :
          b \in Range(sandbox_map[p]) <=>
            /\ box[b].m_program_data # None
            /\ script[box[b].m_program_data].path = p
    BY <2>2, WorldFields DEF Good, Registered
  <2> QED BY <2>3, <2>4, <2>5 DEF RegistryIsExact
<1> QED BY <1>1, ScriptsInvHolds, PTL

(* A Sandbox that has the version of its script runs what the script holds, *)
(* so leaving it as it is, is right.                                        *)
THEOREM VersionsTellSources ==
  ASSUME ~SavesElsewhere
  PROVE  Spec => []VersionTellsSource
<1>1. ScriptsInv => VersionTellsSource
  <2>1. SUFFICES ASSUME ScriptsInv, NEW b \in alive PROVE
          box[b].m_program_data # None
          /\ box[b].m_source_version = script[box[b].m_program_data].source_version
            => box[b].running = script[box[b].m_program_data].source_code
    BY DEF VersionTellsSource
  <2>2. b \in Sandboxes
    BY <2>1 DEF ScriptsInv, ScriptsTyped
  <2> QED BY <2>1, <2>2, WorldFields DEF ScriptsInv, Good, Versioned
<1> QED BY <1>1, ScriptsInvHolds, PTL

(* The functions a script lists are those of the bytes it holds.            *)
THEOREM FunctionsStayOfTheSource ==
  ASSUME ~SavesElsewhere
  PROVE  Spec => []FunctionsAreOfTheSource
<1>1. ScriptsInv => FunctionsAreOfTheSource
  BY WorldFields DEF ScriptsInv, ScriptsTyped, Good, Published, FunctionsAreOfTheSource
<1> QED BY <1>1, ScriptsInvHolds, PTL
-----------------------------------------------------------------------------
(* The lists of properties that loading a program makes.                    *)

Declared == UNION {ToSet(b.by_main) \cup ToSet(b.by_table) : b \in Releases}
Listings == {[name |-> p.name, type |-> p.type, access |-> access] :
               p \in Declared, access \in {"functions", "variable"}}
Values == Given \cup {Null, Gone} \cup {p.default : p \in Declared}

WellListed(props) ==
  /\ props \in Seq(Listings)
  /\ \A i \in DOMAIN props : props[i].name \in PropertyNames \ Clashing
  /\ \A i, j \in DOMAIN props : props[i].name = props[j].name => i = j

LEMMA DeclaredLists ==
  ASSUME NEW b \in Releases, NEW list \in {b.by_main, b.by_table}
  PROVE  /\ list \in Seq(Declared) /\ Len(list) \in Nat
         /\ \A i \in 1..Len(list) : list[i] \in Declared
<1>1. list \in Seq(ToSet(list))
  BY PropertiesAssumption
<1>2. ToSet(list) \subseteq Declared
  BY DEF Declared
<1>3. Len(list) \in Nat /\ DOMAIN list = 1..Len(list)
  BY <1>1
<1>4. \A i \in 1..Len(list) : list[i] \in Declared
  BY <1>2, <1>3 DEF ToSet
<1>5. list = [i \in 1..Len(list) |-> list[i]]
  BY <1>1
<1> HIDE DEF Declared
<1> QED BY <1>3, <1>4, <1>5, SeqDef

LEMMA DeclaredNames ==
  ASSUME NEW p \in Declared
  PROVE  p.name \in PropertyNames
<1>1. PICK b \in Releases : p \in ToSet(b.by_main) \cup ToSet(b.by_table)
  BY DEF Declared
<1>2. NamesOf(b.by_main) \subseteq PropertyNames /\ NamesOf(b.by_table) \subseteq PropertyNames
  BY PropertiesAssumption
<1> QED BY <1>1, <1>2 DEF ToSet, NamesOf

LEMMA NothingWellListed == WellListed(<<>>)
BY DEF WellListed

(* A name that is taken or the Sandbox's own is not listed again.           *)
LEMMA AddedWellListed ==
  ASSUME NEW props, WellListed(props), NEW p \in Declared,
         NEW access \in {"functions", "variable"}
  PROVE  WellListed(Added(props, p, access))
<1> DEFINE entry == [name |-> p.name, type |-> p.type, access |-> access]
           longer == Append(props, entry)
<1>1. CASE p.name \notin Clashing /\ p.name \notin NamesOf(props)
  <2>1. entry \in Listings /\ entry.name = p.name /\ p.name \in PropertyNames
    BY DeclaredNames DEF Listings
  <2> HIDE DEF entry
  <2>2. /\ props \in Seq(Listings) /\ Len(props) \in Nat /\ DOMAIN props = 1..Len(props)
    BY DEF WellListed
  <2>3. /\ longer \in Seq(Listings) /\ DOMAIN longer = 1..Len(props) + 1
        /\ longer[Len(props) + 1] = entry
        /\ \A i \in 1..Len(props) : longer[i] = props[i]
    BY <2>1, <2>2
  <2>4. \A i \in DOMAIN longer : i = Len(props) + 1 \/ i \in DOMAIN props
    BY <2>2, <2>3
  <2>5. \A i \in DOMAIN props : props[i].name # p.name /\ longer[i] = props[i]
    BY <1>1, <2>2, <2>3 DEF NamesOf
  <2> HIDE DEF longer
  <2>6. WellListed(longer)
    BY <1>1, <2>1, <2>3, <2>4, <2>5 DEF WellListed
  <2> QED BY <2>6 DEF Added, longer, entry
<1>2. CASE p.name \in Clashing \/ p.name \in NamesOf(props)
  BY <1>2 DEF Added
<1> QED BY <1>1, <1>2

LEMMA OneMoreWellListed ==
  ASSUME NEW props, WellListed(props), NEW p \in Declared
  PROVE  WellListed(add_property(props, p)) /\ WellListed(api_sandbox_add(props, p))
BY AddedWellListed DEF add_property, add_variable, api_sandbox_add

(* The loops over what main() adds and over the array.                      *)
LEMMA MainWellListed ==
  ASSUME NEW b \in Releases, NEW k \in 0..Len(b.by_main)
  PROVE  WellListed(added_by_main(b.by_main, k))
<1> DEFINE list == b.by_main
           N == Len(list)
           X == {props \in Seq(Listings) : WellListed(props)}
           F == [x \in (1..N) \X X |-> api_sandbox_add(x[2], list[x[1]])]
           Rounds(g) == [i \in 0..N |-> IF i = 0 THEN <<>> ELSE api_sandbox_add(g[i - 1], list[i])]
<1>1. N \in Nat /\ \A i \in 1..N : list[i] \in Declared
  BY DeclaredLists
<1>2. <<>> \in X
  BY NothingWellListed DEF WellListed
<1>3. ASSUME NEW props \in X, NEW i \in 1..N
      PROVE  api_sandbox_add(props, list[i]) \in X
  BY <1>1, OneMoreWellListed DEF WellListed
<1>4. added_by_main(list, k) = (CHOOSE g : g = Rounds(g))[k]
  BY DEF added_by_main
<1>5. \A props \in X : WellListed(props)
  OBVIOUS
<1> HIDE DEF list, N, X
<1>6. F \in [(1..N) \X X -> X]
      /\ \A i \in 1..N, props \in X : F[<<i, props>>] = api_sandbox_add(props, list[i])
  BY <1>3
<1> HIDE DEF F
<1>7. \E g : g = Rounds(g)
  <2>1. PICK f : IsLoop(f, F, N, X, <<>>)
    BY <1>1, <1>2, <1>6, LoopExists DEF IsRound
  <2>2. f \in [0..N -> X] /\ f[0] = <<>> /\ \A i \in 1..N : f[i] = F[<<i, f[i - 1]>>]
    BY <2>1 DEF IsLoop
  <2>3. \A i \in 1..N : i - 1 \in 0..N
    BY <1>1
  <2>4. \A i \in 1..N : f[i] = api_sandbox_add(f[i - 1], list[i])
    BY <1>6, <2>2, <2>3
  <2>5. \A i \in 0..N : i = 0 \/ i \in 1..N
    BY <1>1
  <2>6. \A i \in 0..N : f[i] = IF i = 0 THEN <<>> ELSE api_sandbox_add(f[i - 1], list[i])
    BY <2>2, <2>4, <2>5
  <2>7. f = [i \in 0..N |-> f[i]] /\ [i \in 0..N |-> f[i]] = Rounds(f)
    BY <2>2, <2>6
  <2> QED BY <2>7
<1> DEFINE g == CHOOSE g : g = Rounds(g)
<1>8. g = Rounds(g)
  BY <1>7
<1> HIDE DEF g
<1> DEFINE S == {i \in 0..N : g[i] \in X}
<1>9. 0 \in S
  BY <1>1, <1>2, <1>8
<1>10. ASSUME NEW i \in 0..N - 1, i \in S
       PROVE  i + 1 \in S
  <2>1. i + 1 \in 1..N /\ i + 1 \in 0..N /\ i + 1 # 0 /\ (i + 1) - 1 = i
    BY <1>1
  <2>2. g[i + 1] = api_sandbox_add(g[(i + 1) - 1], list[i + 1])
    BY <1>8, <2>1
  <2> QED BY <1>3, <1>10, <2>1, <2>2
<1> HIDE DEF S
<1>11. k \in S
  BY <1>1, <1>9, <1>10, CountUp DEF list, N
<1>12. g[k] \in X
  BY <1>11 DEF S
<1> QED BY <1>4, <1>5, <1>12 DEF g, list

LEMMA TableWellListed ==
  ASSUME NEW b \in Releases, NEW first, WellListed(first)
  PROVE  WellListed(read_program_properties(first, b.by_table))
<1> DEFINE list == b.by_table
           N == Len(list)
           X == {props \in Seq(Listings) : WellListed(props)}
           F == [x \in (1..N) \X X |-> add_property(x[2], list[x[1]])]
           Rounds(g) == [i \in 0..N |-> IF i = 0 THEN first ELSE add_property(g[i - 1], list[i])]
<1>1. N \in Nat /\ \A i \in 1..N : list[i] \in Declared
  BY DeclaredLists
<1>2. first \in X
  BY DEF WellListed
<1>3. ASSUME NEW props \in X, NEW i \in 1..N
      PROVE  add_property(props, list[i]) \in X
  BY <1>1, OneMoreWellListed DEF WellListed
<1>4. read_program_properties(first, list) = (CHOOSE g : g = Rounds(g))[N]
  BY DEF read_program_properties
<1>5. \A props \in X : WellListed(props)
  OBVIOUS
<1> HIDE DEF list, N, X
<1>6. F \in [(1..N) \X X -> X]
      /\ \A i \in 1..N, props \in X : F[<<i, props>>] = add_property(props, list[i])
  BY <1>3
<1> HIDE DEF F
<1>7. \E g : g = Rounds(g)
  <2>1. PICK f : IsLoop(f, F, N, X, first)
    BY <1>1, <1>2, <1>6, LoopExists DEF IsRound
  <2>2. f \in [0..N -> X] /\ f[0] = first /\ \A i \in 1..N : f[i] = F[<<i, f[i - 1]>>]
    BY <2>1 DEF IsLoop
  <2>3. \A i \in 1..N : i - 1 \in 0..N
    BY <1>1
  <2>4. \A i \in 1..N : f[i] = add_property(f[i - 1], list[i])
    BY <1>6, <2>2, <2>3
  <2>5. \A i \in 0..N : i = 0 \/ i \in 1..N
    BY <1>1
  <2>6. \A i \in 0..N : f[i] = IF i = 0 THEN first ELSE add_property(f[i - 1], list[i])
    BY <2>2, <2>4, <2>5
  <2>7. f = [i \in 0..N |-> f[i]] /\ [i \in 0..N |-> f[i]] = Rounds(f)
    BY <2>2, <2>6
  <2> QED BY <2>7
<1> DEFINE g == CHOOSE g : g = Rounds(g)
<1>8. g = Rounds(g)
  BY <1>7
<1> HIDE DEF g
<1> DEFINE S == {i \in 0..N : g[i] \in X}
<1>9. 0 \in S
  BY <1>1, <1>2, <1>8
<1>10. ASSUME NEW i \in 0..N - 1, i \in S
       PROVE  i + 1 \in S
  <2>1. i + 1 \in 1..N /\ i + 1 \in 0..N /\ i + 1 # 0 /\ (i + 1) - 1 = i
    BY <1>1
  <2>2. g[i + 1] = add_property(g[(i + 1) - 1], list[i + 1])
    BY <1>8, <2>1
  <2> QED BY <1>3, <1>10, <2>1, <2>2
<1> HIDE DEF S
<1>11. N \in S
  BY <1>1, <1>9, <1>10, CountUp
<1>12. g[N] \in X
  BY <1>11 DEF S
<1> QED BY <1>4, <1>5, <1>12 DEF g, list

(* The variables of a program start as values.                              *)
LEMMA DefaultsAreValues ==
  ASSUME NEW b \in Releases
  PROVE  Defaults(b) \in [PropertyNames -> Values]
<1> DEFINE all == b.by_main \o b.by_table
<1>1. all \in Seq(Declared)
  BY DeclaredLists
<1>2. ASSUME NEW n \in NamesOf(all)
      PROVE  PropertyOf(all, n).default \in Values
  <2> HIDE DEF all
  <2> DEFINE i == CHOOSE i \in DOMAIN all : all[i].name = n
  <2>1. i \in DOMAIN all
    BY <1>2 DEF NamesOf
  <2> HIDE DEF i
  <2>2. all[i] \in Declared
    BY <1>1, <2>1
  <2>3. PropertyOf(all, n) = all[i]
    BY DEF PropertyOf, i
  <2> QED BY <2>2, <2>3 DEF Values
<1> HIDE DEF all
<1>3. \A n \in PropertyNames :
        (IF n \in NamesOf(all) THEN PropertyOf(all, n).default ELSE Null) \in Values
  BY <1>2 DEF Values
<1> QED BY <1>3 DEF Defaults, all

(* Whatever is loaded, the properties are well listed and every variable    *)
(* that a property has starts as its program says.                          *)
LEMMA LoadedWell ==
  ASSUME NEW b \in Releases \cup {NotLoaded}, load_release(b)
  PROVE  /\ WellListed(m_properties') /\ memory_of' \in [PropertyNames -> Values]
         /\ \A p \in ToSet(m_properties') : memory_of'[p.name] = Defaults(release')[p.name]
<1>1. CASE b # NotLoaded /\ b.accepted
  <2>1. PICK k \in 0..Len(b.by_main) : m_properties' = loaded_properties(b, k)
    BY <1>1 DEF load_release
  <2>2. b \in Releases /\ memory_of' = Defaults(b) /\ release' = b
    BY <1>1 DEF load_release
  <2> QED BY <2>1, <2>2, MainWellListed, TableWellListed, DefaultsAreValues DEF loaded_properties
<1>2. CASE ~(b # NotLoaded /\ b.accepted)
  <2>1. m_properties' = <<>> /\ memory_of' = NoVariables
    BY <1>2 DEF load_release
  <2>2. ToSet(<<>>) = {}
    BY DEF ToSet
  <2>3. NoVariables \in [PropertyNames -> Values]
    BY DEF NoVariables, Values
  <2> QED BY <2>1, <2>2, <2>3, NothingWellListed
<1> QED BY <1>1, <1>2

-----------------------------------------------------------------------------
(* Carrying the values over.                                                *)

Stages == {"none", "reading", "writing"}
Carryings == [stage : Stages, to : Releases \cup {NotLoaded},
              old : Seq(Listings), property_values : Seq(Values)]

PropertiesTyped ==
  /\ memory_of \in [PropertyNames -> Values]
  /\ carrying \in Carryings
  /\ before \in [properties : Seq(Listings), memory : [PropertyNames -> Values]]
  /\ WellListed(m_properties) /\ WellListed(carrying.old) /\ WellListed(before.properties)

SameIn(props, p) == \E q \in ToSet(props) : q.name = p.name /\ q.type = p.type

(* The i-th value is the one that the i-th of the old properties had.       *)
Aligned(i) ==
  \/ carrying.old[i].name \in disturbed
  \/ carrying.property_values[i] = before.memory[carrying.old[i].name]

WhileReading ==
  carrying.stage = "reading" =>
    /\ carrying.old = m_properties /\ before.properties = m_properties
    /\ before.memory = memory_of
    /\ Len(carrying.property_values) <= Len(carrying.old)
    /\ \A i \in 1..Len(carrying.property_values) : Aligned(i)

(* What a property of the new program holds when its turn is over.          *)
Settled(p) ==
  \/ p.name \in disturbed
  \/ memory_of[p.name] = IF SameIn(before.properties, p) THEN before.memory[p.name]
                         ELSE Defaults(release)[p.name]

WhileWriting ==
  carrying.stage = "writing" =>
    /\ Len(carrying.old) <= Len(carrying.property_values)
    /\ \A i \in 1..Len(carrying.old) : Aligned(i)
    /\ ToSet(carrying.old) \subseteq ToSet(before.properties)
    /\ \A p \in ToSet(m_properties) : SameIn(carrying.old, p) \/ Settled(p)

PropertiesInv == PropertiesTyped /\ WhileReading /\ WhileWriting

LEMMA PropertiesInitial == PropertiesInit => PropertiesInv
<1> SUFFICES ASSUME PropertiesInit PROVE PropertiesInv
  OBVIOUS
<1>1. NoVariables \in [PropertyNames -> Values]
  BY DEF NoVariables, Values
<1>2. PropertiesTyped
  BY <1>1, NothingWellListed
  DEF PropertiesInit, PropertiesTyped, AtRest, Carryings, Stages, NothingBefore
<1>3. WhileReading /\ WhileWriting
  BY DEF PropertiesInit, WhileReading, WhileWriting, AtRest
<1> QED BY <1>2, <1>3 DEF PropertiesInv

LEMMA Listing ==
  ASSUME NEW props, WellListed(props), NEW n \in NamesOf(props)
  PROVE  /\ PropertyOf(props, n) \in ToSet(props) /\ PropertyOf(props, n).name = n
         /\ n \in PropertyNames /\ n \notin Clashing
<1>1. PICK i \in DOMAIN props : props[i].name = n
  BY DEF NamesOf
<1> QED BY <1>1 DEF WellListed, PropertyOf, ToSet

(* Setting a property changes no other variable.                            *)
LEMMA SettingOne ==
  ASSUME PropertiesTyped, NEW n, NEW v \in Values, NEW in_call \in BOOLEAN,
         set_sandbox_property(n, v, in_call)
  PROVE  /\ memory_of' \in [PropertyNames -> Values]
         /\ \A m \in PropertyNames : m # n => memory_of'[m] = memory_of[m]
         /\ n \notin NamesOf(m_properties) => memory_of' = memory_of
<1>1. CASE n \in NamesOf(m_properties)
  <2> DEFINE p == PropertyOf(m_properties, n)
  <2>1. SandboxProperty_set(p, v, in_call)
    BY <1>1 DEF set_sandbox_property
  <2>2. p.name = n /\ n \in PropertyNames
    BY <1>1, Listing DEF PropertiesTyped
  <2> HIDE DEF p
  <2>3. \/ memory_of' = [memory_of EXCEPT ![n] = v]
        \/ memory_of' = [memory_of EXCEPT ![n] = Gone]
        \/ memory_of' = memory_of
    BY <2>1, <2>2 DEF SandboxProperty_set, guest_side
  <2>4. Gone \in Values /\ memory_of \in [PropertyNames -> Values]
    BY DEF Values, PropertiesTyped
  <2> QED BY <1>1, <2>2, <2>3, <2>4
<1>2. CASE n \notin NamesOf(m_properties)
  BY <1>2 DEF set_sandbox_property, guest_side, PropertiesTyped
<1> QED BY <1>1, <1>2

(* Between two set_program()s.                                              *)
LEMMA AtRestKeeps ==
  ASSUME PropertiesInv, carrying = AtRest, UNCHANGED <<carrying, before>>,
         memory_of' \in [PropertyNames -> Values], WellListed(m_properties')
  PROVE  PropertiesInv'
<1>1. carrying.stage = "none" /\ carrying'.stage = "none"
  BY DEF AtRest
<1>2. PropertiesTyped'
  BY DEF PropertiesInv, PropertiesTyped
<1> QED BY <1>1, <1>2 DEF PropertiesInv, WhileReading, WhileWriting

LEMMA BeginKeeps ==
  ASSUME PropertiesInv, NEW b \in Releases \cup {NotLoaded}, begin_set_program(b)
  PROVE  PropertiesInv'
<1>1. /\ carrying' = [stage |-> "reading", to |-> b, old |-> m_properties,
                      property_values |-> <<>>]
      /\ before' = [properties |-> m_properties, memory |-> memory_of]
      /\ UNCHANGED <<m_properties, memory_of>>
  BY DEF begin_set_program, AtRest, guest_side
<1>2. /\ memory_of \in [PropertyNames -> Values] /\ WellListed(m_properties)
      /\ m_properties \in Seq(Listings)
  BY DEF PropertiesInv, PropertiesTyped, WellListed
<1>3. PropertiesTyped'
  BY <1>1, <1>2 DEF PropertiesTyped, Carryings, Stages
<1>4. WhileReading' /\ WhileWriting'
  BY <1>1, <1>2 DEF WhileReading, WhileWriting
<1> QED BY <1>3, <1>4 DEF PropertiesInv

LEMMA ReadKeeps ==
  ASSUME PropertiesInv, read_property
  PROVE  PropertiesInv'
<1> DEFINE vals == carrying.property_values
           n == carrying.old[Len(vals) + 1].name
<1>1. /\ carrying.stage = "reading" /\ Len(vals) + 1 <= Len(carrying.old)
      /\ UNCHANGED <<m_properties, memory_of, before>>
  BY DEF read_property, Reading, guest_side
<1>2. PICK v \in get_sandbox_property(n) :
        /\ carrying' = [carrying EXCEPT !.property_values = Append(@, v)]
        /\ disturbed' = disturbed \cup (IF v = before.memory[n] THEN {} ELSE {n})
  BY DEF read_property, Reading
<1>3. /\ carrying \in Carryings /\ vals \in Seq(Values) /\ Len(vals) \in Nat
      /\ carrying.old \in Seq(Listings) /\ memory_of \in [PropertyNames -> Values]
      /\ WellListed(m_properties)
  BY DEF PropertiesInv, PropertiesTyped, Carryings
<1>4. /\ carrying.old = m_properties /\ before.properties = m_properties
      /\ before.memory = memory_of /\ \A i \in 1..Len(vals) : Aligned(i)
  BY <1>1 DEF PropertiesInv, WhileReading
<1>5. Len(vals) + 1 \in 1..Len(carrying.old) /\ n \in NamesOf(m_properties)
  BY <1>1, <1>3, <1>4 DEF NamesOf
<1>6. v \in Values
  <2> DEFINE p == PropertyOf(m_properties, n)
  <2>1. v \in Reads(p) /\ p.name = n /\ n \in PropertyNames
    BY <1>2, <1>3, <1>5, Listing DEF get_sandbox_property
  <2> HIDE DEF p
  <2>2. v \in {memory_of[n], Null}
    BY <2>1 DEF Reads
  <2>3. Null \in Values
    BY DEF Values
  <2> QED BY <1>3, <2>1, <2>2, <2>3
<1>7. /\ carrying' \in Carryings /\ carrying'.stage = "reading"
      /\ carrying'.old = carrying.old /\ carrying'.property_values = Append(vals, v)
  <2>1. Append(vals, v) \in Seq(Values)
    BY <1>3, <1>6
  <2>2. carrying' = [carrying EXCEPT !.property_values = Append(vals, v)]
    BY <1>2
  <2> HIDE <1>2
  <2> QED BY <1>1, <1>3, <2>1, <2>2 DEF Carryings
<1>8. PropertiesTyped'
  BY <1>1, <1>4, <1>7 DEF PropertiesInv, PropertiesTyped
<1>9. ASSUME NEW i \in 1..Len(vals) + 1
      PROVE  Aligned(i)'
  <2>1. CASE i = Len(vals) + 1
    <3>1. carrying'.property_values[i] = v /\ carrying'.old[i].name = n
      BY <1>3, <1>6, <1>7, <2>1
    <3>2. v = before.memory[n] \/ n \in disturbed'
      BY <1>2
    <3> QED BY <1>1, <3>1, <3>2 DEF Aligned
  <2>2. CASE i \in 1..Len(vals)
    <3>1. carrying'.property_values[i] = vals[i] /\ carrying'.old[i] = carrying.old[i]
      BY <1>3, <1>6, <1>7, <2>2
    <3>2. disturbed \subseteq disturbed'
      BY <1>2
    <3> QED BY <1>1, <1>4, <2>2, <3>1, <3>2 DEF Aligned
  <2> QED BY <1>3, <2>1, <2>2
<1>10. Len(carrying'.property_values) = Len(vals) + 1
  BY <1>3, <1>6, <1>7
<1>11. WhileReading'
  BY <1>1, <1>4, <1>7, <1>9, <1>10 DEF WhileReading
<1>12. WhileWriting'
  BY <1>7 DEF WhileWriting
<1> QED BY <1>8, <1>11, <1>12 DEF PropertiesInv

LEMMA LoadKeeps ==
  ASSUME PropertiesInv, load_carrying
  PROVE  PropertiesInv'
<1> DEFINE old == carrying.old
           vals == carrying.property_values
           b == carrying.to
<1>1. /\ carrying.stage = "reading" /\ Len(vals) + 1 > Len(old) /\ load_release(b)
      /\ carrying' = [carrying EXCEPT !.stage = "writing",
                                      !.old = IF b = NotLoaded THEN <<>> ELSE @]
      /\ UNCHANGED <<before, disturbed>>
  BY DEF load_carrying, Reading
<1>2. /\ carrying \in Carryings /\ b \in Releases \cup {NotLoaded} /\ vals \in Seq(Values)
      /\ Len(vals) \in Nat /\ old \in Seq(Listings) /\ Len(old) \in Nat /\ WellListed(old)
  BY DEF PropertiesInv, PropertiesTyped, Carryings
<1>3. /\ before.properties = old /\ Len(vals) <= Len(old)
      /\ \A i \in 1..Len(vals) : Aligned(i)
  BY <1>1 DEF PropertiesInv, WhileReading
<1>4. /\ WellListed(m_properties') /\ memory_of' \in [PropertyNames -> Values]
      /\ \A p \in ToSet(m_properties') : memory_of'[p.name] = Defaults(release')[p.name]
  <2> HIDE DEF b
  <2> QED BY <1>1, <1>2, LoadedWell
<1>5. /\ carrying' \in Carryings /\ carrying'.stage = "writing"
      /\ carrying'.property_values = vals
      /\ carrying'.old = <<>> \/ carrying'.old = old
  <2>1. PICK rest : /\ rest = <<>> \/ rest = old
                    /\ carrying' = [carrying EXCEPT !.stage = "writing", !.old = rest]
    BY <1>1
  <2>2. rest \in Seq(Listings)
    <3>1. <<>> \in Seq(Listings)
      OBVIOUS
    <3>2. rest = <<>> \/ rest = old
      BY <2>1
    <3> QED BY <1>2, <3>1, <3>2
  <2> HIDE <1>1
  <2> QED BY <1>2, <2>1, <2>2 DEF Carryings, Stages
<1>6. PropertiesTyped'
  BY <1>1, <1>2, <1>4, <1>5, NothingWellListed DEF PropertiesInv, PropertiesTyped
<1>7. Len(carrying'.old) <= Len(vals) /\ \A i \in 1..Len(carrying'.old) : Aligned(i)'
  <2>1. CASE carrying'.old = <<>>
    BY <1>2, <2>1
  <2>2. CASE carrying'.old = old
    <3>1. Len(vals) = Len(old)
      BY <1>1, <1>2, <1>3
    <3> QED BY <1>1, <1>3, <1>5, <2>2, <3>1 DEF Aligned
  <2> QED BY <1>5, <2>1, <2>2
<1>8. ToSet(carrying'.old) \subseteq ToSet(before'.properties)
  BY <1>1, <1>3, <1>5 DEF ToSet
<1>9. ASSUME NEW p \in ToSet(m_properties')
      PROVE  SameIn(carrying'.old, p) \/ Settled(p)'
  <2>1. memory_of'[p.name] = Defaults(release')[p.name]
    BY <1>4
  <2>2. CASE b # NotLoaded
    <3>1. before'.properties = carrying'.old
      BY <1>1, <1>2, <1>3, <2>2 DEF Carryings
    <3> QED BY <2>1, <3>1 DEF Settled
  <2>3. CASE b = NotLoaded
    <3>1. m_properties' = <<>>
      BY <1>1, <2>3 DEF load_release
    <3> QED BY <3>1 DEF ToSet
  <2> QED BY <2>2, <2>3
<1>10. WhileReading'
  BY <1>5 DEF WhileReading
<1>11. WhileWriting'
  BY <1>5, <1>7, <1>8, <1>9 DEF WhileWriting
<1> QED BY <1>6, <1>10, <1>11 DEF PropertiesInv

(* The property whose turn it is gets its value or is left out; the others  *)
(* are not touched.                                                         *)
LEMMA WriteKeeps ==
  ASSUME PropertiesInv, write_property
  PROVE  PropertiesInv'
<1> DEFINE old == carrying.old
           vals == carrying.property_values
           p == Head(old)
           v == Head(vals)
<1>1. /\ carrying.stage = "writing" /\ old # <<>>
      /\ carrying' = [carrying EXCEPT !.old = Tail(old), !.property_values = Tail(vals)]
      /\ UNCHANGED <<release, m_properties, before>>
  BY DEF write_property
<1>2. /\ carrying \in Carryings /\ vals \in Seq(Values) /\ Len(vals) \in Nat
      /\ old \in Seq(Listings) /\ Len(old) \in Nat /\ WellListed(old)
      /\ memory_of \in [PropertyNames -> Values] /\ WellListed(m_properties)
  BY DEF PropertiesInv, PropertiesTyped, Carryings
<1>3. /\ Len(old) <= Len(vals) /\ \A i \in 1..Len(old) : Aligned(i)
      /\ ToSet(old) \subseteq ToSet(before.properties)
      /\ \A q \in ToSet(m_properties) : SameIn(old, q) \/ Settled(q)
  BY <1>1 DEF PropertiesInv, WhileWriting
<1>4. /\ Len(old) > 0 /\ Len(vals) > 0 /\ p = old[1] /\ v = vals[1] /\ v \in Values
      /\ p \in ToSet(old) /\ DOMAIN old = 1..Len(old)
      /\ \A q \in ToSet(old) : q = p \/ q \in ToSet(Tail(old))
      /\ \A q \in ToSet(Tail(old)) : q \in ToSet(old)
  <2>1. Len(old) > 0 /\ Len(vals) > 0 /\ 1 \in 1..Len(old) /\ DOMAIN old = 1..Len(old)
    BY <1>1, <1>2, <1>3
  <2>2. p = old[1] /\ v = vals[1] /\ v \in Values
    BY <1>2, <2>1
  <2>3. /\ Len(Tail(old)) = Len(old) - 1 /\ DOMAIN Tail(old) = 1..Len(old) - 1
        /\ \A i \in 1..Len(old) - 1 : Tail(old)[i] = old[i + 1]
    BY <1>2, <2>1
  <2>4. \A i \in 1..Len(old) : i = 1 \/ (i - 1 \in 1..Len(old) - 1 /\ (i - 1) + 1 = i)
    BY <1>2
  <2>5. \A i \in 1..Len(old) - 1 : i + 1 \in 1..Len(old)
    BY <1>2
  <2>6. ASSUME NEW q \in ToSet(old)
        PROVE  q = p \/ q \in ToSet(Tail(old))
    <3>1. PICK i \in 1..Len(old) : q = old[i]
      BY <2>1 DEF ToSet
    <3>2. CASE i # 1
      <4>1. i - 1 \in DOMAIN Tail(old) /\ Tail(old)[i - 1] = q
        BY <2>3, <2>4, <3>1, <3>2
      <4> QED BY <4>1 DEF ToSet
    <3> QED BY <2>2, <3>1, <3>2
  <2>7. ASSUME NEW q \in ToSet(Tail(old))
        PROVE  q \in ToSet(old)
    <3>1. PICK i \in 1..Len(old) - 1 : q = Tail(old)[i]
      BY <2>3 DEF ToSet
    <3>2. q = old[i + 1] /\ i + 1 \in DOMAIN old
      BY <2>1, <2>3, <2>5, <3>1
    <3> QED BY <3>2 DEF ToSet
  <2>8. p \in ToSet(old)
    BY <2>1, <2>2 DEF ToSet
  <2> QED BY <2>1, <2>2, <2>6, <2>7, <2>8
<1>5. v = before.memory[p.name] \/ p.name \in disturbed
  BY <1>2, <1>3, <1>4 DEF Aligned
<1>6. WellListed(Tail(old)) /\ Tail(old) \in Seq(Listings) /\ Tail(vals) \in Seq(Values)
  <2>1. Tail(old) \in Seq(Listings) /\ Tail(vals) \in Seq(Values)
    BY <1>2, <1>4
  <2>2. /\ DOMAIN Tail(old) = 1..Len(old) - 1
        /\ \A i \in 1..Len(old) - 1 : Tail(old)[i] = old[i + 1] /\ i + 1 \in DOMAIN old
    BY <1>2, <1>4
  <2>3. \A i, j \in 1..Len(old) - 1 : i + 1 = j + 1 => i = j
    BY <1>2
  <2> DEFINE rest == Tail(old)
             n == Len(old) - 1
  <2>4. /\ \A i \in DOMAIN old : old[i].name \in PropertyNames \ Clashing
        /\ \A i, j \in DOMAIN old : old[i].name = old[j].name => i = j
    BY <1>2 DEF WellListed
  <2>5. rest \in Seq(Listings) /\ DOMAIN rest = 1..n
    BY <2>1, <2>2, Zenon
  <2>6. /\ \A i \in 1..n : rest[i] = old[i + 1] /\ i + 1 \in DOMAIN old
        /\ \A i, j \in 1..n : i + 1 = j + 1 => i = j
    BY <2>2, <2>3, Zenon
  <2> HIDE DEF rest, n
  <2>7. \A i \in 1..n : rest[i].name \in PropertyNames \ Clashing
    BY <2>4, <2>6, Zenon
  <2>8. ASSUME NEW i \in 1..n, NEW j \in 1..n, rest[i].name = rest[j].name
        PROVE  i = j
    <3>1. i + 1 \in DOMAIN old /\ j + 1 \in DOMAIN old /\ old[i + 1].name = old[j + 1].name
      BY <2>6, <2>8, Zenon
    <3>2. i + 1 = j + 1
      BY <2>4, <3>1, Zenon
    <3> QED BY <2>6, <3>2, Zenon
  <2>9. WellListed(rest)
    BY <2>5, <2>7, <2>8, Zenon DEF WellListed
  <2> QED BY <2>1, <2>9 DEF rest
<1>7. /\ carrying' \in Carryings /\ carrying'.stage = "writing"
      /\ carrying'.old = Tail(old) /\ carrying'.property_values = Tail(vals)
  <2> HIDE DEF p, v
  <2> QED BY <1>1, <1>2, <1>6 DEF Carryings
<1>8. /\ memory_of' \in [PropertyNames -> Values] /\ disturbed \subseteq disturbed'
      /\ \A m \in PropertyNames : m # p.name => memory_of'[m] = memory_of[m]
      /\ Matches(m_properties, p) => memory_of'[p.name] = v \/ p.name \in disturbed'
  <2>1. CASE Matches(m_properties, p)
    <3>1. /\ set_sandbox_property(p.name, v, FALSE)
          /\ disturbed' = disturbed \cup (IF memory_of'[p.name] = v THEN {} ELSE {p.name})
      BY <2>1 DEF write_property
    <3>2. PropertiesTyped
      BY DEF PropertiesInv
    <3> HIDE DEF p, v
    <3> QED BY <1>4, <3>1, <3>2, SettingOne
  <2>2. CASE ~Matches(m_properties, p)
    <3>1. UNCHANGED <<memory_of, disturbed>>
      BY <2>2 DEF write_property, guest_side
    <3> QED BY <1>2, <2>2, <3>1
  <2> QED BY <2>1, <2>2
<1> HIDE DEF p, v
<1>9. PropertiesTyped'
  BY <1>1, <1>6, <1>7, <1>8 DEF PropertiesInv, PropertiesTyped
<1>10. Len(carrying'.old) <= Len(carrying'.property_values)
       /\ \A i \in 1..Len(carrying'.old) : Aligned(i)'
  <2>1. /\ Len(Tail(old)) = Len(old) - 1 /\ Len(Tail(vals)) = Len(vals) - 1
        /\ \A i \in 1..Len(old) - 1 : /\ Tail(old)[i] = old[i + 1] /\ Tail(vals)[i] = vals[i + 1]
                                      /\ i + 1 \in 1..Len(old)
    BY <1>2, <1>3, <1>4
  <2>2. \A i \in 1..Len(old) - 1 : Aligned(i + 1)
    BY <1>3, <2>1
  <2>3. ASSUME NEW i \in 1..Len(old) - 1
        PROVE  Aligned(i)'
    <3>1. \/ old[i + 1].name \in disturbed
          \/ vals[i + 1] = before.memory[old[i + 1].name]
      BY <2>2 DEF Aligned
    <3>2. carrying'.old[i] = old[i + 1] /\ carrying'.property_values[i] = vals[i + 1]
      BY <1>7, <2>1
    <3>3. disturbed \subseteq disturbed' /\ before' = before
      BY <1>1, <1>8
    <3> QED BY <3>1, <3>2, <3>3 DEF Aligned
  <2> QED BY <1>2, <1>3, <1>7, <2>1, <2>3
<1>11. ToSet(carrying'.old) \subseteq ToSet(before'.properties)
  BY <1>1, <1>3, <1>4, <1>7
<1>12. ASSUME NEW q \in ToSet(m_properties)
       PROVE  SameIn(Tail(old), q) \/ Settled(q)'
  <2>1. q.name \in PropertyNames /\ \A r \in ToSet(m_properties) : r.name = q.name => r = q
    BY <1>2 DEF WellListed, ToSet
  <2>2. CASE q.name = p.name /\ q.type = p.type
    <3>1. Matches(m_properties, p)
      BY <2>2 DEF Matches, ToSet
    <3>2. SameIn(before.properties, q)
      BY <1>3, <1>4, <2>2 DEF SameIn
    <3>3. p.name \in disturbed' \/ memory_of'[p.name] = before.memory[p.name]
      BY <1>5, <1>8, <3>1
    <3> QED BY <1>1, <2>2, <3>2, <3>3 DEF Settled
  <2>3. CASE ~(q.name = p.name /\ q.type = p.type) /\ SameIn(old, q)
    BY <1>4, <2>3 DEF SameIn
  <2>4. CASE q.name # p.name /\ Settled(q)
    BY <1>1, <1>8, <2>1, <2>4 DEF Settled
  <2>5. CASE q.name = p.name /\ q.type # p.type /\ Settled(q)
    <3>1. ~Matches(m_properties, p)
      BY <2>1, <2>5 DEF Matches, ToSet
    <3>2. UNCHANGED <<memory_of, disturbed>>
      BY <3>1 DEF write_property, guest_side, p
    <3> QED BY <1>1, <2>5, <3>2 DEF Settled
  <2> QED BY <1>3, <2>2, <2>3, <2>4, <2>5
<1>13. WhileReading'
  BY <1>7 DEF WhileReading
<1>14. WhileWriting'
  BY <1>1, <1>7, <1>10, <1>11, <1>12 DEF WhileWriting
<1> QED BY <1>9, <1>13, <1>14 DEF PropertiesInv

(* An accessor reaches the Sandbox's own properties only, and no property   *)
(* of a program has the name of one of those.                               *)
LEMMA AccessorKeeps ==
  ASSUME ~AccessorsSetProperties, PropertiesInv,
         NEW n \in PropertyNames \cup BuiltIn, NEW v \in Given, set_in_accessor(n, v)
  PROVE  PropertiesInv'
<1>1. PropertiesTyped /\ n \in BuiltIn /\ n \in Clashing /\ v \in Values
  BY PropertiesAssumption DEF set_in_accessor, PropertiesInv, Values
<1>2. n \notin NamesOf(m_properties)
  BY <1>1, Listing DEF PropertiesTyped
<1>3. memory_of' = memory_of /\ UNCHANGED <<release, m_properties, carrying>>
  BY <1>1, <1>2, SettingOne DEF set_in_accessor
<1>4. before.memory \in [PropertyNames -> Values]
      /\ before \in [properties : Seq(Listings), memory : [PropertyNames -> Values]]
      /\ memory_of \in [PropertyNames -> Values]
  BY <1>1 DEF PropertiesTyped
<1>5. CASE carrying.stage = "reading" /\ n \in PropertyNames
  <2>1. before.memory = memory_of
    BY <1>5 DEF PropertiesInv, WhileReading
  <2>2. before' = [before EXCEPT !.memory[n] = memory_of[n]]
    BY <1>3, <1>5 DEF set_in_accessor
  <2>3. before' = before
    BY <1>4, <2>1, <2>2
  <2>4. disturbed' = disturbed
    BY <1>5 DEF set_in_accessor
  <2> QED BY <1>3, <2>3, <2>4
      DEF PropertiesInv, PropertiesTyped, WhileReading, WhileWriting, Aligned, Settled
<1>6. CASE ~(carrying.stage = "reading" /\ n \in PropertyNames)
  <2>1. before' = before /\ disturbed \subseteq disturbed'
    BY <1>6 DEF set_in_accessor
  <2> QED BY <1>3, <2>1
      DEF PropertiesInv, PropertiesTyped, WhileReading, WhileWriting, Aligned, Settled
<1> QED BY <1>5, <1>6

LEMMA PropertiesStep ==
  ASSUME ~AccessorsSetProperties
  PROVE  PropertiesInv /\ [PropertiesNext]_property_vars => PropertiesInv'
<1>0. SUFFICES ASSUME PropertiesInv, [PropertiesNext]_property_vars PROVE PropertiesInv'
  OBVIOUS
<1>1. PropertiesTyped /\ memory_of \in [PropertyNames -> Values] /\ WellListed(m_properties)
  BY <1>0 DEF PropertiesInv, PropertiesTyped
<1>2. ASSUME NEW n \in PropertyNames \cup BuiltIn, NEW v \in Given,
             set_by_host(n, v) \/ set_in_call(n, v)
      PROVE  PropertiesInv'
  <2>1. /\ carrying = AtRest /\ UNCHANGED <<m_properties, carrying, before>>
        /\ set_sandbox_property(n, v, FALSE) \/ set_sandbox_property(n, v, TRUE)
    BY <1>2 DEF set_by_host, set_in_call
  <2>2. v \in Values
    BY DEF Values
  <2>3. memory_of' \in [PropertyNames -> Values]
    BY <1>1, <2>1, <2>2, SettingOne
  <2> QED BY <1>0, <1>1, <2>1, <2>3, AtRestKeeps
<1>3. ASSUME NEW n \in PropertyNames \cup BuiltIn, NEW v \in Given, set_in_accessor(n, v)
      PROVE  PropertiesInv'
  BY <1>0, <1>3, AccessorKeeps
<1>4. ASSUME NEW b \in Releases \cup {NotLoaded}, load_bytes(b)
      PROVE  PropertiesInv'
  <2>1. carrying = AtRest /\ UNCHANGED <<carrying, before>> /\ load_release(b)
    BY <1>4 DEF load_bytes
  <2>2. WellListed(m_properties') /\ memory_of' \in [PropertyNames -> Values]
    BY <2>1, LoadedWell
  <2> QED BY <1>0, <2>1, <2>2, AtRestKeeps
<1>5. ASSUME end_set_program
      PROVE  PropertiesInv'
  <2>1. /\ carrying' = AtRest /\ before' = NothingBefore
        /\ UNCHANGED <<m_properties, memory_of>>
    BY <1>5 DEF end_set_program, guest_side
  <2>2. NoVariables \in [PropertyNames -> Values]
    BY DEF NoVariables, Values
  <2>3. PropertiesTyped'
    BY <1>1, <2>1, <2>2, NothingWellListed
    DEF PropertiesTyped, AtRest, Carryings, Stages, NothingBefore
  <2>4. WhileReading' /\ WhileWriting'
    BY <2>1 DEF AtRest, WhileReading, WhileWriting
  <2> QED BY <2>3, <2>4 DEF PropertiesInv
<1>6. CASE UNCHANGED property_vars
  BY <1>0, <1>6 DEF property_vars, guest_side, PropertiesInv, PropertiesTyped, WhileReading,
                    WhileWriting, Aligned, Settled
<1> QED BY <1>0, <1>2, <1>3, <1>4, <1>5, <1>6, BeginKeeps, ReadKeeps, LoadKeeps, WriteKeeps
        DEF PropertiesNext, unload

(* After set_program() a property that both programs have with one type has *)
(* the value it had before, and the others start as their program says,     *)
(* save those that an accessor failed for.                                  *)
THEOREM PropertiesAreAlwaysKept ==
  ASSUME ~AccessorsSetProperties
  PROVE  PropertiesSpec => []PropertiesAreKept
<1>1. PropertiesInit => PropertiesInv
  BY PropertiesInitial
<1>2. PropertiesInv /\ [PropertiesNext]_property_vars => PropertiesInv'
  BY PropertiesStep
<1>3. PropertiesInv => PropertiesAreKept
  <2>1. SUFFICES ASSUME PropertiesInv, carrying.stage = "writing", carrying.old = <<>>,
                        NEW i \in DOMAIN m_properties
                 PROVE  Settled(m_properties[i])
    BY DEF PropertiesAreKept, Settled, SameIn
  <2>2. m_properties[i] \in ToSet(m_properties)
    BY DEF ToSet
  <2>3. ~SameIn(carrying.old, m_properties[i])
    BY <2>1 DEF SameIn, ToSet
  <2> QED BY <2>1, <2>2, <2>3 DEF PropertiesInv, WhileWriting
<1> QED BY <1>1, <1>2, <1>3, PTL DEF PropertiesSpec
=============================================================================
