----------------------- MODULE RegisterAllocator_proofs -----------------------
(* Theorems about RegisterAllocator, for any values, pool, code and lists of *)
(* registers that host calls change.                                         *)
EXTENDS RegisterAllocator, FiniteSetTheorems, SequenceTheorems, TLAPS

-----------------------------------------------------------------------------
(* What is left of a map.                                                    *)

LEMMA Unbinding ==
  ASSUME NEW f, NEW x
  PROVE  /\ DOMAIN Without(f, x) = DOMAIN f \ {x}
         /\ \A z \in DOMAIN f : z # x => Without(f, x)[z] = f[z]
BY DEF Without, Restrict

-----------------------------------------------------------------------------
(* The free list, a sequence without repetition.                             *)

LEMMA Members ==
  ASSUME NEW S, NEW q \in Seq(S)
  PROVE  /\ Len(q) \in Nat /\ DOMAIN q = 1..Len(q) /\ Range(q) \subseteq S
         /\ \A c : c \in Range(q) <=> \E i \in 1..Len(q) : q[i] = c
<1>1. Len(q) \in Nat /\ DOMAIN q = 1..Len(q) /\ \A i \in 1..Len(q) : q[i] \in S
  OBVIOUS
<1> QED BY <1>1 DEF Range

(* push_back.                                                                *)
LEMMA PushedBack ==
  ASSUME NEW S, NEW q \in Seq(S), IsInjective(q), NEW x \in S, x \notin Range(q)
  PROVE  /\ Append(q, x) \in Seq(S) /\ IsInjective(Append(q, x))
         /\ Range(Append(q, x)) = Range(q) \cup {x} /\ Append(q, x) # <<>>
<1> DEFINE a == Append(q, x)
           n == Len(q)
<1>1. n \in Nat /\ DOMAIN q = 1..n /\ \A c : c \in Range(q) <=> \E i \in 1..n : q[i] = c
  BY Members
<1>2. /\ a \in Seq(S) /\ Len(a) = n + 1 /\ a[n + 1] = x /\ a # <<>>
      /\ \A i \in 1..n : a[i] = q[i]
  BY AppendProperties
<1>3. \A c : c \in Range(a) <=> \E i \in 1..n + 1 : a[i] = c
  <2>1. a \in Seq(S) /\ Len(a) = n + 1
    BY <1>2
  <2> HIDE DEF a, n
  <2> QED BY <2>1, Members
<1>4. DOMAIN a = 1..n + 1
  BY <1>2
<1>5. \A i, j \in 1..n : q[i] = q[j] => i = j
  BY <1>1 DEF IsInjective
<1> HIDE DEF a, n
<1>6. \A i \in 1..n + 1 : i = n + 1 \/ i \in 1..n
  BY <1>1
<1>7. n + 1 \in 1..n + 1 /\ \A i \in 1..n : i \in 1..n + 1
  BY <1>1
<1>8. \A i \in 1..n : q[i] # x
  BY <1>1
<1>9. IsInjective(a)
  BY <1>2, <1>4, <1>5, <1>6, <1>8 DEF IsInjective
<1>10. \A c : c \in Range(a) <=> c \in Range(q) \/ c = x
  BY <1>1, <1>2, <1>3, <1>6, <1>7
<1>11. Range(a) = Range(q) \cup {x}
  BY <1>10
<1> QED BY <1>2, <1>9, <1>11 DEF a

(* pop_back, after back.                                                     *)
LEMMA PoppedBack ==
  ASSUME NEW S, NEW q \in Seq(S), IsInjective(q), q # <<>>
  PROVE  /\ Front(q) \in Seq(S) /\ IsInjective(Front(q)) /\ Last(q) \in S
         /\ Range(q) = Range(Front(q)) \cup {Last(q)} /\ Last(q) \notin Range(Front(q))
<1> DEFINE f == Front(q)
           n == Len(q) - 1
<1>1. n \in Nat /\ Len(q) = n + 1
  BY EmptySeq
<1>2. DOMAIN q = 1..n + 1 /\ \A c : c \in Range(q) <=> \E i \in 1..n + 1 : q[i] = c
  BY <1>1, Members
<1>3. Last(q) = q[n + 1] /\ Last(q) \in S
  BY <1>1 DEF Last
<1>4. f \in Seq(S) /\ Len(f) = n /\ \A i \in 1..n : f[i] = q[i]
  <2>1. \A i \in 1..n : q[i] \in S
    BY <1>1
  <2>2. /\ f \in Seq(S) /\ Len(f) = (IF 1 <= n THEN n - 1 + 1 ELSE 0)
        /\ \A i \in 1..n - 1 + 1 : f[i] = q[1 + i - 1]
    BY <1>1, <2>1, SubSeqProperties DEF Front
  <2>3. n - 1 + 1 = n /\ \A i \in 1..n : 1 + i - 1 = i
    BY <1>1
  <2> HIDE DEF f, n
  <2>4. Len(f) = n
    BY <1>1, <2>2
  <2> QED BY <2>2, <2>3, <2>4
<1>5. DOMAIN f = 1..n /\ \A c : c \in Range(f) <=> \E i \in 1..n : f[i] = c
  BY <1>4, Members
<1>6. \A i, j \in 1..n + 1 : q[i] = q[j] => i = j
  BY <1>2 DEF IsInjective
<1> HIDE DEF f, n
<1>7. n + 1 \in 1..n + 1 /\ \A i \in 1..n + 1 : i = n + 1 \/ i \in 1..n
  BY <1>1
<1>8. \A i \in 1..n : i \in 1..n + 1 /\ i # n + 1
  BY <1>1
<1>9. IsInjective(f)
  BY <1>4, <1>5, <1>6, <1>8 DEF IsInjective
<1>10. Last(q) \notin Range(f)
  <2>1. \A i \in 1..n : q[n + 1] # q[i]
    BY <1>6, <1>7, <1>8
  <2>2. \A i \in 1..n : f[i] # Last(q)
    BY <1>3, <1>4, <2>1
  <2> QED BY <1>5, <2>2
<1>11. \A c : c \in Range(q) <=> c \in Range(f) \/ c = Last(q)
  BY <1>2, <1>3, <1>4, <1>5, <1>7, <1>8
<1>12. Range(q) = Range(f) \cup {Last(q)}
  BY <1>11
<1> QED BY <1>3, <1>4, <1>9, <1>10, <1>12 DEF f

(* find and erase: the entries behind the one that goes move up.             *)
LEMMA ErasedOne ==
  ASSUME NEW S, NEW q \in Seq(S), IsInjective(q), NEW x
  PROVE  /\ Erased(q, x) \in Seq(S) /\ IsInjective(Erased(q, x))
         /\ Range(Erased(q, x)) = Range(q) \ {x}
<1>0. /\ Len(q) \in Nat /\ DOMAIN q = 1..Len(q)
      /\ \A c : c \in Range(q) <=> \E i \in 1..Len(q) : q[i] = c
  BY Members
<1>1. CASE x \notin Range(q)
  <2>1. Erased(q, x) = q /\ Range(q) = Range(q) \ {x}
    BY <1>1 DEF Erased
  <2> QED BY <2>1
<1>2. CASE x \in Range(q)
  <2> DEFINE at == CHOOSE i \in DOMAIN q : q[i] = x /\ \A j \in 1..i - 1 : q[j] # x
             n == Len(q) - 1
             front == SubSeq(q, 1, at - 1)
             back == SubSeq(q, at + 1, Len(q))
             e == front \o back
  <2>1. \A i, j \in DOMAIN q : q[i] = q[j] => i = j
    BY DEF IsInjective
  <2>2. at \in 1..Len(q) /\ q[at] = x
    <3>1. PICK i \in 1..Len(q) : q[i] = x
      BY <1>0, <1>2
    <3>2. \A j \in 1..i - 1 : q[j] # x
      <4>1. \A j \in 1..i - 1 : j \in 1..Len(q) /\ j # i
        BY <1>0, <3>1
      <4> QED BY <1>0, <2>1, <3>1, <4>1
    <3> QED BY <1>0, <3>1, <3>2
  <2>3. Erased(q, x) = e
    BY <1>2 DEF Erased, RemoveAt
  <2> HIDE DEF at
  <2>4. n \in Nat /\ Len(q) = n + 1 /\ at \in 1..n + 1 /\ at \in Int
    BY <1>0, <2>2
  <2>5. front \in Seq(S) /\ Len(front) = at - 1 /\ \A j \in 1..at - 1 : front[j] = q[j]
    <3>1. \A j \in 1..at - 1 : q[j] \in S
      BY <1>0, <2>4
    <3>2. /\ front \in Seq(S) /\ Len(front) = (IF 1 <= at - 1 THEN (at - 1) - 1 + 1 ELSE 0)
          /\ \A j \in 1..(at - 1) - 1 + 1 : front[j] = q[1 + j - 1]
      BY <2>4, <3>1, SubSeqProperties
    <3> HIDE DEF front
    <3>3. (at - 1) - 1 + 1 = at - 1 /\ \A j \in 1..at - 1 : 1 + j - 1 = j
      BY <2>4
    <3>4. Len(front) = at - 1
      BY <2>4, <3>2
    <3> QED BY <3>2, <3>3, <3>4
  <2>6. back \in Seq(S) /\ Len(back) = n + 1 - at /\ \A j \in 1..n + 1 - at : back[j] = q[at + j]
    <3>1. at + 1 \in Int /\ Len(q) \in Int /\ \A j \in at + 1..Len(q) : q[j] \in S
      BY <1>0, <2>4
    <3>2. /\ back \in Seq(S)
          /\ Len(back) = (IF at + 1 <= Len(q) THEN Len(q) - (at + 1) + 1 ELSE 0)
          /\ \A j \in 1..Len(q) - (at + 1) + 1 : back[j] = q[at + 1 + j - 1]
      BY <3>1, SubSeqProperties
    <3> HIDE DEF back, n
    <3>3. Len(q) - (at + 1) + 1 = n + 1 - at /\ \A j \in 1..n + 1 - at : at + 1 + j - 1 = at + j
      BY <2>4
    <3>4. Len(back) = n + 1 - at
      BY <2>4, <3>2
    <3> QED BY <3>2, <3>3, <3>4
  <2>7. /\ e \in Seq(S) /\ Len(e) = Len(front) + Len(back)
        /\ \A j \in 1..Len(front) + Len(back) :
             e[j] = IF j <= Len(front) THEN front[j] ELSE back[j - Len(front)]
    BY <2>5, <2>6, ConcatProperties
  <2> DEFINE up(j) == IF j < at THEN j ELSE j + 1
  <2>8. e \in Seq(S) /\ Len(e) = n /\ \A j \in 1..n : e[j] = q[up(j)]
    <3> HIDE DEF front, back, e, n
    <3>1. Len(front) + Len(back) = n
      BY <2>4, <2>5, <2>6
    <3>2. ASSUME NEW j \in 1..n PROVE e[j] = q[up(j)]
      <4>1. CASE j < at
        <5>1. j \in 1..at - 1 /\ j <= Len(front)
          BY <2>4, <2>5, <4>1
        <5> QED BY <2>5, <2>7, <3>1, <4>1, <5>1
      <4>2. CASE ~(j < at)
        <5>1. ~(j <= Len(front)) /\ j - Len(front) \in 1..n + 1 - at /\ at + (j - Len(front)) = j + 1
          BY <2>4, <2>5, <4>2
        <5> QED BY <2>6, <2>7, <3>1, <4>2, <5>1
      <4> QED BY <4>1, <4>2
    <3> QED BY <2>7, <3>1, <3>2
  <2>9. /\ \A j \in 1..n : up(j) \in 1..n + 1 /\ up(j) # at
        /\ \A i, j \in 1..n : up(i) = up(j) => i = j
    BY <2>4
  <2>10. \A i \in 1..n + 1 : i # at => \E j \in 1..n : up(j) = i
    <3> SUFFICES ASSUME NEW i \in 1..n + 1, i # at
                 PROVE  \E j \in 1..n : up(j) = i
      OBVIOUS
    <3>1. CASE i < at
      <4>1. i \in 1..n /\ up(i) = i
        BY <2>4, <3>1
      <4> QED BY <4>1
    <3>2. CASE ~(i < at)
      <4>1. i - 1 \in 1..n /\ up(i - 1) = i
        BY <2>4, <3>2
      <4> QED BY <4>1
    <3> QED BY <3>1, <3>2
  <2>11. DOMAIN e = 1..n /\ \A c : c \in Range(e) <=> \E i \in 1..n : e[i] = c
    <3>1. e \in Seq(S) /\ Len(e) = n
      BY <2>8
    <3> HIDE DEF e, n
    <3> QED BY <3>1, Members
  <2> HIDE DEF e, n, up, front, back
  <2>12. DOMAIN q = 1..n + 1 /\ \A c : c \in Range(q) <=> \E i \in 1..n + 1 : q[i] = c
    BY <1>0, <2>4
  <2>13. IsInjective(e)
    BY <2>1, <2>8, <2>9, <2>11, <2>12 DEF IsInjective
  <2>14. ASSUME NEW c \in Range(e) PROVE c \in Range(q) /\ c # x
    <3>1. PICK j \in 1..n : e[j] = c
      BY <2>11
    <3>2. c = q[up(j)] /\ up(j) \in DOMAIN q /\ up(j) # at /\ at \in DOMAIN q
      BY <2>4, <2>8, <2>9, <2>12, <3>1
    <3> QED BY <2>1, <2>2, <2>12, <3>2
  <2>15. ASSUME NEW c \in Range(q), c # x PROVE c \in Range(e)
    <3>1. PICK i \in 1..n + 1 : q[i] = c
      BY <2>12
    <3>2. PICK j \in 1..n : up(j) = i
      BY <2>2, <2>10, <2>15, <3>1
    <3> QED BY <2>8, <2>11, <3>1, <3>2
  <2>16. Range(e) = Range(q) \ {x}
    BY <2>14, <2>15
  <2> QED BY <2>3, <2>8, <2>13, <2>16
<1> QED BY <1>1, <1>2

LEMMA AsManyAsMembers ==
  ASSUME NEW S, NEW q \in Seq(S), IsInjective(q)
  PROVE  Len(q) = Cardinality(Range(q))
<1>1. Len(q) \in Nat /\ DOMAIN q = 1..Len(q) /\ q \in [1..Len(q) -> Range(q)]
  <2>1. q \in [1..Len(q) -> S] /\ DOMAIN q = 1..Len(q) /\ Len(q) \in Nat
    BY LenProperties
  <2> QED BY <2>1, Zenon DEF Range
<1>2. q \in Injection(1..Len(q), Range(q))
  BY <1>1 DEF Injection
<1>3. q \in Surjection(1..Len(q), Range(q))
  BY <1>1 DEF Surjection, Range
<1>4. ExistsBijection(1..Len(q), Range(q))
  BY <1>2, <1>3 DEF ExistsBijection, Bijection
<1> QED BY <1>1, <1>4, FS_CountingElements

-----------------------------------------------------------------------------
(* What keeps the maps and the list apart and in step.                       *)

Usable == Range(Pool) \cup Forceable

(* The maps are inverse to each other, but for a value that is on its way to *)
(* another register and has none in the second map.                          *)
Paired(vm, pm, moving) ==
  /\ DOMAIN vm \subseteq VRegs /\ DOMAIN pm \subseteq Usable
  /\ \A v \in DOMAIN vm : v \notin moving => vm[v] \in DOMAIN pm /\ pm[vm[v]] = v
  /\ \A p \in DOMAIN pm : pm[p] \in DOMAIN vm /\ pm[p] \notin moving /\ vm[pm[p]] = p

Apart(pm, free) ==
  free \in Seq(Usable) /\ IsInjective(free) /\ Range(free) \cap DOMAIN pm = {}

Complete(pm, free) == Range(Pool) \subseteq DOMAIN pm \cup Range(free)

Sound(b) ==
  /\ b = [m_vreg_to_preg |-> b.m_vreg_to_preg, m_preg_to_vreg |-> b.m_preg_to_vreg,
          m_free_registers |-> b.m_free_registers]
  /\ Paired(b.m_vreg_to_preg, b.m_preg_to_vreg, {})
  /\ Apart(b.m_preg_to_vreg, b.m_free_registers)
  /\ Complete(b.m_preg_to_vreg, b.m_free_registers)

(* What is said to be in a register is there.                                *)
Loaded(b, h) == \A v \in DOMAIN b.m_vreg_to_preg : h[b.m_vreg_to_preg[v]] = v

(* A register from the end of the list, for a value that has none or loses   *)
(* the one it has.                                                           *)
LEMMA Giving ==
  ASSUME NEW b, NEW vreg \in VRegs, b.m_free_registers # <<>>,
         Paired(b.m_vreg_to_preg, b.m_preg_to_vreg, {vreg}),
         Apart(b.m_preg_to_vreg, b.m_free_registers),
         Complete(b.m_preg_to_vreg, b.m_free_registers)
  PROVE  LET c == Given(b, vreg)
             q == Last(b.m_free_registers)
         IN  /\ Sound(c)
             /\ q \in Range(b.m_free_registers) /\ q \in Usable /\ q \notin DOMAIN b.m_preg_to_vreg
             /\ DOMAIN c.m_vreg_to_preg = DOMAIN b.m_vreg_to_preg \cup {vreg}
             /\ c.m_vreg_to_preg[vreg] = q
             /\ \A v \in DOMAIN b.m_vreg_to_preg :
                  v # vreg => c.m_vreg_to_preg[v] = b.m_vreg_to_preg[v]
             /\ DOMAIN c.m_preg_to_vreg = DOMAIN b.m_preg_to_vreg \cup {q}
<1> DEFINE vm == b.m_vreg_to_preg
           pm == b.m_preg_to_vreg
           free == b.m_free_registers
           q == Last(free)
           vm2 == Mapped(vm, vreg, q)
           pm2 == Mapped(pm, q, vreg)
           free2 == Front(free)
           c == Given(b, vreg)
<1>1. c = [m_vreg_to_preg |-> vm2, m_preg_to_vreg |-> pm2, m_free_registers |-> free2]
  BY DEF Given
<1>2. c.m_vreg_to_preg = vm2 /\ c.m_preg_to_vreg = pm2 /\ c.m_free_registers = free2
  BY <1>1
<1>3. /\ free2 \in Seq(Usable) /\ IsInjective(free2) /\ q \in Usable
      /\ Range(free) = Range(free2) \cup {q} /\ q \notin Range(free2)
  BY PoppedBack DEF Apart
<1>4. /\ DOMAIN vm2 = DOMAIN vm \cup {vreg} /\ vm2[vreg] = q
      /\ \A v \in DOMAIN vm : v # vreg => vm2[v] = vm[v]
  <2> HIDE DEF vm, q
  <2> QED BY DEF Mapped
<1>5. /\ DOMAIN pm2 = DOMAIN pm \cup {q} /\ pm2[q] = vreg
      /\ \A p \in DOMAIN pm : p # q => pm2[p] = pm[p]
  <2> HIDE DEF pm, q
  <2> QED BY DEF Mapped
<1>6. /\ DOMAIN vm \subseteq VRegs /\ DOMAIN pm \subseteq Usable
      /\ \A v \in DOMAIN vm : v # vreg => vm[v] \in DOMAIN pm /\ pm[vm[v]] = v
      /\ \A p \in DOMAIN pm : pm[p] \in DOMAIN vm /\ pm[p] # vreg /\ vm[pm[p]] = p
  BY DEF Paired
<1>7. Range(free) \cap DOMAIN pm = {} /\ Range(Pool) \subseteq DOMAIN pm \cup Range(free)
  BY DEF Apart, Complete
<1> HIDE DEF vm2, pm2, free2, q, vm, pm, free, c
<1>8. q \notin DOMAIN pm /\ q \in Range(free)
  BY <1>3, <1>7
<1>9. Paired(vm2, pm2, {})
  <2>1. DOMAIN vm2 \subseteq VRegs /\ DOMAIN pm2 \subseteq Usable
    BY <1>3, <1>4, <1>5, <1>6
  <2>2. ASSUME NEW v \in DOMAIN vm2 PROVE vm2[v] \in DOMAIN pm2 /\ pm2[vm2[v]] = v
    <3>1. CASE v = vreg
      BY <1>4, <1>5, <3>1
    <3>2. CASE v # vreg
      BY <1>4, <1>5, <1>6, <1>8, <3>2
    <3> QED BY <3>1, <3>2
  <2>3. ASSUME NEW p \in DOMAIN pm2 PROVE pm2[p] \in DOMAIN vm2 /\ vm2[pm2[p]] = p
    <3>1. CASE p = q
      BY <1>4, <1>5, <3>1
    <3>2. CASE p # q
      BY <1>4, <1>5, <1>6, <3>2
    <3> QED BY <3>1, <3>2
  <2> QED BY <2>1, <2>2, <2>3 DEF Paired
<1>10. Apart(pm2, free2) /\ Complete(pm2, free2)
  BY <1>3, <1>5, <1>7 DEF Apart, Complete
<1>11. Sound(c)
  BY <1>1, <1>2, <1>9, <1>10 DEF Sound
<1>12. /\ DOMAIN c.m_vreg_to_preg = DOMAIN vm \cup {vreg} /\ c.m_vreg_to_preg[vreg] = q
       /\ \A v \in DOMAIN vm : v # vreg => c.m_vreg_to_preg[v] = vm[v]
       /\ DOMAIN c.m_preg_to_vreg = DOMAIN pm \cup {q}
  BY <1>2, <1>4, <1>5
<1> QED BY <1>3, <1>8, <1>11, <1>12 DEF c, q, vm, pm, free

(* spill_register, free_register and invalidate_register: both entries go,   *)
(* and the register comes back to the list.                                  *)
LEMMA Spilling ==
  ASSUME NEW b, Sound(b), NEW vreg \in DOMAIN b.m_vreg_to_preg
  PROVE  LET c == spill_register(b, vreg)
             p == b.m_vreg_to_preg[vreg]
         IN  /\ Sound(c) /\ p \in Usable /\ c.m_free_registers # <<>>
             /\ DOMAIN c.m_vreg_to_preg = DOMAIN b.m_vreg_to_preg \ {vreg}
             /\ \A v \in DOMAIN c.m_vreg_to_preg :
                  c.m_vreg_to_preg[v] = b.m_vreg_to_preg[v] /\ b.m_vreg_to_preg[v] # p
             /\ DOMAIN c.m_preg_to_vreg = DOMAIN b.m_preg_to_vreg \ {p}
<1> DEFINE vm == b.m_vreg_to_preg
           pm == b.m_preg_to_vreg
           free == b.m_free_registers
           p == vm[vreg]
           vm2 == Without(vm, vreg)
           pm2 == Without(pm, p)
           free2 == Append(free, p)
           c == spill_register(b, vreg)
<1>1. c = [m_vreg_to_preg |-> vm2, m_preg_to_vreg |-> pm2, m_free_registers |-> free2]
  BY DEF spill_register
<1>2. c.m_vreg_to_preg = vm2 /\ c.m_preg_to_vreg = pm2 /\ c.m_free_registers = free2
  BY <1>1
<1>3. /\ DOMAIN vm \subseteq VRegs /\ DOMAIN pm \subseteq Usable
      /\ \A v \in DOMAIN vm : vm[v] \in DOMAIN pm /\ pm[vm[v]] = v
      /\ \A r \in DOMAIN pm : pm[r] \in DOMAIN vm /\ vm[pm[r]] = r
  BY DEF Sound, Paired
<1>4. /\ free \in Seq(Usable) /\ IsInjective(free) /\ Range(free) \cap DOMAIN pm = {}
      /\ Range(Pool) \subseteq DOMAIN pm \cup Range(free)
  BY DEF Sound, Apart, Complete
<1>5. p \in DOMAIN pm /\ p \in Usable /\ p \notin Range(free) /\ pm[p] = vreg
  BY <1>3, <1>4
<1>6. /\ free2 \in Seq(Usable) /\ IsInjective(free2) /\ free2 # <<>>
      /\ Range(free2) = Range(free) \cup {p}
  BY <1>4, <1>5, PushedBack
<1>7. /\ DOMAIN vm2 = DOMAIN vm \ {vreg} /\ \A v \in DOMAIN vm : v # vreg => vm2[v] = vm[v]
      /\ DOMAIN pm2 = DOMAIN pm \ {p} /\ \A r \in DOMAIN pm : r # p => pm2[r] = pm[r]
  BY Unbinding
<1> HIDE DEF vm2, pm2, free2, p, vm, pm, free, c
<1>8. \A v \in DOMAIN vm2 : vm2[v] = vm[v] /\ vm[v] # p
  BY <1>3, <1>5, <1>7
<1>9. Paired(vm2, pm2, {})
  <2>1. DOMAIN vm2 \subseteq VRegs /\ DOMAIN pm2 \subseteq Usable
    BY <1>3, <1>7
  <2>2. \A v \in DOMAIN vm2 : vm2[v] \in DOMAIN pm2 /\ pm2[vm2[v]] = v
    BY <1>3, <1>7, <1>8
  <2>3. \A r \in DOMAIN pm2 : pm2[r] \in DOMAIN vm2 /\ vm2[pm2[r]] = r
    <3>1. \A r \in DOMAIN pm2 : r \in DOMAIN pm /\ r # p /\ pm2[r] = pm[r]
      BY <1>7
    <3>2. vm[vreg] = p
      BY DEF p
    <3>3. \A r \in DOMAIN pm2 : pm[r] # vreg
      BY <1>3, <3>1, <3>2
    <3> QED BY <1>3, <1>7, <3>1, <3>3
  <2> QED BY <2>1, <2>2, <2>3 DEF Paired
<1>10. Apart(pm2, free2) /\ Complete(pm2, free2)
  BY <1>4, <1>5, <1>6, <1>7 DEF Apart, Complete
<1>11. Sound(c)
  BY <1>1, <1>2, <1>9, <1>10 DEF Sound
<1>12. /\ DOMAIN c.m_vreg_to_preg = DOMAIN vm \ {vreg} /\ c.m_free_registers # <<>>
       /\ \A v \in DOMAIN c.m_vreg_to_preg : c.m_vreg_to_preg[v] = vm[v] /\ vm[v] # p
       /\ DOMAIN c.m_preg_to_vreg = DOMAIN pm \ {p}
  BY <1>2, <1>6, <1>7, <1>8
<1> QED BY <1>5, <1>11, <1>12 DEF c, p, vm, pm, free

(* allocate_register, for each candidate there may be.                       *)
LEMMA Allocating ==
  ASSUME NEW b, Sound(b), NEW h, Loaded(b, h), DOMAIN h = PRegs, NEW vreg \in VRegs, NEW idx,
         NEW c \in Allocated(b, vreg, idx)
  PROVE  /\ Sound(c)
         /\ vreg \in DOMAIN b.m_vreg_to_preg => c = b
         /\ vreg \notin DOMAIN b.m_vreg_to_preg
              => Loaded(c, [h EXCEPT ![c.m_vreg_to_preg[vreg]] = vreg])
<1>1. CASE vreg \in DOMAIN b.m_vreg_to_preg
  <2>1. c = b
    BY <1>1 DEF Allocated
  <2> QED BY <1>1, <2>1
<1>2. CASE vreg \notin DOMAIN b.m_vreg_to_preg
  <2>1. PICK a : /\ c = Given(a, vreg)
                 /\ \/ a = b /\ b.m_free_registers # <<>>
                    \/ \E v \in DOMAIN b.m_vreg_to_preg : a = spill_register(b, v)
    BY <1>2 DEF Allocated, find_spill_candidate
  <2>2. /\ Sound(a) /\ Loaded(a, h) /\ a.m_free_registers # <<>>
        /\ DOMAIN a.m_vreg_to_preg \subseteq DOMAIN b.m_vreg_to_preg
    <3>1. CASE a = b /\ b.m_free_registers # <<>>
      BY <3>1
    <3>2. ASSUME NEW v \in DOMAIN b.m_vreg_to_preg, a = spill_register(b, v)
          PROVE  /\ Sound(a) /\ Loaded(a, h) /\ a.m_free_registers # <<>>
                 /\ DOMAIN a.m_vreg_to_preg \subseteq DOMAIN b.m_vreg_to_preg
      <4>1. /\ Sound(a) /\ a.m_free_registers # <<>>
            /\ DOMAIN a.m_vreg_to_preg = DOMAIN b.m_vreg_to_preg \ {v}
            /\ \A w \in DOMAIN a.m_vreg_to_preg : a.m_vreg_to_preg[w] = b.m_vreg_to_preg[w]
        BY <3>2, Spilling
      <4> QED BY <4>1 DEF Loaded
    <3> QED BY <2>1, <3>1, <3>2
  <2> DEFINE q == Last(a.m_free_registers)
  <2>3. vreg \notin DOMAIN a.m_vreg_to_preg
    BY <1>2, <2>2
  <2>4. /\ Paired(a.m_vreg_to_preg, a.m_preg_to_vreg, {vreg})
        /\ Apart(a.m_preg_to_vreg, a.m_free_registers)
        /\ Complete(a.m_preg_to_vreg, a.m_free_registers)
    BY <2>2, <2>3 DEF Sound, Paired
  <2>5. /\ Sound(c) /\ q \in Usable /\ q \notin DOMAIN a.m_preg_to_vreg
        /\ DOMAIN c.m_vreg_to_preg = DOMAIN a.m_vreg_to_preg \cup {vreg}
        /\ c.m_vreg_to_preg[vreg] = q
        /\ \A v \in DOMAIN a.m_vreg_to_preg : v # vreg => c.m_vreg_to_preg[v] = a.m_vreg_to_preg[v]
    <3> DEFINE d == Given(a, vreg)
    <3>1. /\ Sound(d) /\ q \in Usable /\ q \notin DOMAIN a.m_preg_to_vreg
          /\ DOMAIN d.m_vreg_to_preg = DOMAIN a.m_vreg_to_preg \cup {vreg}
          /\ d.m_vreg_to_preg[vreg] = q
          /\ \A v \in DOMAIN a.m_vreg_to_preg : v # vreg => d.m_vreg_to_preg[v] = a.m_vreg_to_preg[v]
      BY <2>2, <2>4, Giving, ZenonT(40)
    <3>2. c = d
      BY <2>1
    <3> HIDE DEF d, q
    <3> QED BY <3>1, <3>2
  <2> HIDE DEF q
  <2>6. ASSUME NEW v \in DOMAIN c.m_vreg_to_preg
        PROVE  [h EXCEPT ![q] = vreg][c.m_vreg_to_preg[v]] = v
    <3>1. q \in DOMAIN h
      BY <2>5 DEF Usable, PRegs
    <3>2. CASE v = vreg
      BY <2>5, <3>1, <3>2
    <3>3. CASE v # vreg
      <4>1. v \in DOMAIN a.m_vreg_to_preg /\ c.m_vreg_to_preg[v] = a.m_vreg_to_preg[v]
        BY <2>5, <3>3
      <4>2. a.m_vreg_to_preg[v] \in DOMAIN a.m_preg_to_vreg
        BY <2>2, <4>1 DEF Sound, Paired
      <4>3. a.m_vreg_to_preg[v] # q /\ a.m_vreg_to_preg[v] \in DOMAIN h
        BY <2>2, <2>5, <4>2 DEF Sound, Paired, Usable, PRegs
      <4>4. h[a.m_vreg_to_preg[v]] = v
        BY <2>2, <4>1 DEF Loaded
      <4> QED BY <4>1, <4>3, <4>4
    <3> QED BY <3>2, <3>3
  <2>7. Loaded(c, [h EXCEPT ![c.m_vreg_to_preg[vreg]] = vreg])
    BY <2>5, <2>6 DEF Loaded
  <2> QED BY <1>2, <2>5, <2>7
<1> QED BY <1>1, <1>2

(* force_register_mapping: who was in the register loses it, and the value   *)
(* gives up the one it had.                                                  *)
LEMMA Forcing ==
  ASSUME NEW b, Sound(b), NEW h, Loaded(b, h), DOMAIN h = PRegs,
         NEW vreg \in VRegs, NEW preg \in Forceable
  PROVE  /\ Sound(Forced(b, vreg, preg))
         /\ Loaded(Forced(b, vreg, preg), [h EXCEPT ![preg] = vreg])
<1> DEFINE vm == b.m_vreg_to_preg
           pm == b.m_preg_to_vreg
           free == b.m_free_registers
           taken == preg \in DOMAIN pm /\ pm[preg] # vreg
           evicted == IF taken THEN Without(vm, pm[preg]) ELSE vm
           moves == vreg \in DOMAIN evicted /\ evicted[vreg] # preg
           released == IF moves THEN Without(pm, evicted[vreg]) ELSE pm
           more == IF moves THEN Append(free, evicted[vreg]) ELSE free
           vm2 == Mapped(evicted, vreg, preg)
           pm2 == Mapped(released, preg, vreg)
           free2 == Erased(more, preg)
           c == Forced(b, vreg, preg)
<1>1. c = [m_vreg_to_preg |-> vm2, m_preg_to_vreg |-> pm2, m_free_registers |-> free2]
  BY DEF Forced
<1>2. c.m_vreg_to_preg = vm2 /\ c.m_preg_to_vreg = pm2 /\ c.m_free_registers = free2
  BY <1>1
<1>3. /\ DOMAIN vm \subseteq VRegs /\ DOMAIN pm \subseteq Usable
      /\ \A v \in DOMAIN vm : vm[v] \in DOMAIN pm /\ pm[vm[v]] = v
      /\ \A r \in DOMAIN pm : pm[r] \in DOMAIN vm /\ vm[pm[r]] = r
  BY DEF Sound, Paired
<1>4. /\ free \in Seq(Usable) /\ IsInjective(free) /\ Range(free) \cap DOMAIN pm = {}
      /\ Range(Pool) \subseteq DOMAIN pm \cup Range(free) /\ preg \in Usable
  BY DEF Sound, Apart, Complete, Usable
<1>5. \A v \in DOMAIN vm : h[vm[v]] = v
  BY DEF Loaded
<1>6. /\ DOMAIN vm2 = DOMAIN evicted \cup {vreg} /\ vm2[vreg] = preg
      /\ \A v \in DOMAIN evicted : v # vreg => vm2[v] = evicted[v]
  <2> HIDE DEF evicted
  <2> QED BY DEF Mapped
<1>7. /\ DOMAIN pm2 = DOMAIN released \cup {preg} /\ pm2[preg] = vreg
      /\ \A r \in DOMAIN released : r # preg => pm2[r] = released[r]
  <2> HIDE DEF released
  <2> QED BY DEF Mapped
<1> HIDE DEF vm2, pm2, free2, c, vm, pm, free
<1>8. /\ DOMAIN evicted \subseteq DOMAIN vm
      /\ \A v \in DOMAIN vm : v \in DOMAIN evicted <=> vm[v] # preg \/ v = vreg
      /\ \A v \in DOMAIN evicted : evicted[v] = vm[v]
  <2>1. CASE taken
    <3>1. evicted = Without(vm, pm[preg])
      BY <2>1
    <3> HIDE DEF evicted
    <3>2. /\ DOMAIN evicted = DOMAIN vm \ {pm[preg]}
          /\ \A v \in DOMAIN vm : v # pm[preg] => evicted[v] = vm[v]
      BY <3>1, Unbinding
    <3>3. \A v \in DOMAIN vm : vm[v] = preg <=> v = pm[preg]
      BY <1>3, <2>1
    <3> QED BY <2>1, <3>2, <3>3
  <2>2. CASE ~taken
    BY <1>3, <2>2
  <2> QED BY <2>1, <2>2
<1> HIDE DEF evicted
<1> DEFINE old == evicted[vreg]
<1>9. moves => old = vm[vreg] /\ vreg \in DOMAIN vm /\ old # preg /\ old \in DOMAIN pm /\ pm[old] = vreg
  BY <1>3, <1>8
<1>10. /\ DOMAIN released = IF moves THEN DOMAIN pm \ {old} ELSE DOMAIN pm
       /\ \A r \in DOMAIN released : released[r] = pm[r]
  <2>1. CASE moves
    <3>1. released = Without(pm, old)
      BY <2>1
    <3> HIDE DEF released, old
    <3>2. /\ DOMAIN released = DOMAIN pm \ {old}
          /\ \A r \in DOMAIN pm : r # old => released[r] = pm[r]
      BY <3>1, Unbinding
    <3> QED BY <2>1, <3>2
  <2>2. CASE ~moves
    BY <2>2
  <2> QED BY <2>1, <2>2
<1>11. /\ more \in Seq(Usable) /\ IsInjective(more)
       /\ Range(more) = Range(free) \cup (IF moves THEN {old} ELSE {})
  <2>1. CASE moves
    <3>1. more = Append(free, old) /\ old \in Usable /\ old \notin Range(free)
      BY <1>3, <1>4, <1>9, <2>1
    <3> HIDE DEF more, old
    <3> QED BY <1>4, <2>1, <3>1, PushedBack
  <2>2. CASE ~moves
    BY <1>4, <2>2
  <2> QED BY <2>1, <2>2
<1>12. /\ free2 \in Seq(Usable) /\ IsInjective(free2) /\ Range(free2) = Range(more) \ {preg}
  <2> HIDE DEF more
  <2> QED BY <1>11, ErasedOne DEF free2
<1> HIDE DEF released, more
<1> DEFINE leaves == moves
<1>13. \A v \in DOMAIN evicted :
         v # vreg => v \in DOMAIN vm /\ vm[v] # preg /\ (leaves => vm[v] # old)
  BY <1>3, <1>8, <1>9
<1>14. ~leaves => vreg \notin DOMAIN vm \/ vm[vreg] = preg
  BY <1>8
<1>15. leaves => old # preg /\ old \in DOMAIN pm /\ pm[old] = vreg
  BY <1>9
<1>16. /\ DOMAIN released = IF leaves THEN DOMAIN pm \ {old} ELSE DOMAIN pm
       /\ Range(more) = Range(free) \cup (IF leaves THEN {old} ELSE {})
  BY <1>10, <1>11
<1>17. leaves => vreg \in DOMAIN vm /\ vm[vreg] = old
  BY <1>9
<1> HIDE DEF leaves, moves, old
<1>18. Paired(vm2, pm2, {})
  <2>1. DOMAIN vm2 \subseteq VRegs /\ DOMAIN pm2 \subseteq Usable
    <3>1. DOMAIN released \subseteq DOMAIN pm
      BY <1>16
    <3> QED BY <1>3, <1>4, <1>6, <1>7, <1>8, <3>1
  <2>2. ASSUME NEW v \in DOMAIN vm2 PROVE vm2[v] \in DOMAIN pm2 /\ pm2[vm2[v]] = v
    <3>1. CASE v = vreg
      BY <1>6, <1>7, <3>1
    <3>2. CASE v # vreg
      <4>1. /\ v \in DOMAIN evicted /\ v \in DOMAIN vm /\ vm[v] # preg /\ (leaves => vm[v] # old)
            /\ vm2[v] = vm[v]
        BY <1>6, <1>8, <1>13, <3>2
      <4>2. vm[v] \in DOMAIN pm /\ pm[vm[v]] = v
        BY <1>3, <4>1
      <4>3. vm[v] \in DOMAIN released
        BY <1>16, <4>1, <4>2
      <4> QED BY <1>7, <1>10, <4>1, <4>2, <4>3
    <3> QED BY <3>1, <3>2
  <2>3. ASSUME NEW r \in DOMAIN pm2 PROVE pm2[r] \in DOMAIN vm2 /\ vm2[pm2[r]] = r
    <3>1. CASE r = preg
      BY <1>6, <1>7, <3>1
    <3>2. CASE r # preg
      <4>1. r \in DOMAIN released /\ r \in DOMAIN pm /\ pm2[r] = pm[r] /\ (leaves => r # old)
        BY <1>7, <1>10, <1>16, <3>2
      <4>2. pm[r] \in DOMAIN vm /\ vm[pm[r]] = r
        BY <1>3, <4>1
      <4>3. pm[r] # vreg
        BY <1>14, <1>17, <3>2, <4>1, <4>2
      <4>4. pm[r] \in DOMAIN evicted
        BY <1>8, <3>2, <4>2
      <4> QED BY <1>6, <1>8, <4>1, <4>2, <4>3, <4>4
    <3> QED BY <3>1, <3>2
  <2> QED BY <2>1, <2>2, <2>3 DEF Paired
<1>19. Apart(pm2, free2)
  <2>1. Range(free2) \cap DOMAIN pm2 = {}
    BY <1>4, <1>7, <1>12, <1>15, <1>16
  <2> QED BY <1>12, <2>1 DEF Apart
<1>20. Complete(pm2, free2)
  BY <1>4, <1>7, <1>12, <1>15, <1>16 DEF Complete
<1>21. Sound(c)
  BY <1>1, <1>2, <1>18, <1>19, <1>20 DEF Sound
<1>22. ASSUME NEW v \in DOMAIN vm2 PROVE [h EXCEPT ![preg] = vreg][vm2[v]] = v
  <2>1. preg \in DOMAIN h
    BY DEF PRegs
  <2>2. CASE v = vreg
    BY <1>6, <2>1, <2>2
  <2>3. CASE v # vreg
    <3>1. v \in DOMAIN vm /\ vm[v] # preg /\ vm2[v] = vm[v]
      BY <1>6, <1>8, <1>13, <2>3
    <3>2. vm[v] \in DOMAIN h /\ h[vm[v]] = v
      BY <1>3, <1>5, <3>1 DEF Usable, PRegs
    <3> QED BY <3>1, <3>2
  <2> QED BY <2>2, <2>3
<1>23. Loaded(c, [h EXCEPT ![preg] = vreg])
  BY <1>2, <1>22 DEF Loaded
<1> QED BY <1>21, <1>23 DEF c

-----------------------------------------------------------------------------
(* Around a host call.  At most one of the registers that it changes can     *)
(* hold a value: those of the pool are not changed, so it is bound by force. *)
OneIsBound(l) == \A p, r \in Range(l) \cap Usable : p = r

(* After i of the registers in the list: none of those holds a value, and    *)
(* either all values are where they were, or one move takes them all to      *)
(* where they are said to be and nothing is left for the call to change.     *)
Cleared(x, l, i, h) ==
  /\ Sound(x[1])
  /\ \A j \in 1..i : l[j] \notin DOMAIN x[1].m_preg_to_vreg
  /\ \/ x[2] = <<>> /\ Loaded(x[1], h)
     \/ /\ \E p, q \in Usable : /\ x[2] = << <<p, q>> >>
                                /\ Loaded(x[1], [h EXCEPT ![q] = h[p]])
        /\ \A r \in Range(l) : r \notin DOMAIN x[1].m_preg_to_vreg

LEMMA ClearingOne ==
  ASSUME NEW l, OneIsBound(l), Range(l) \cap Range(Pool) = {}, NEW i \in Nat, i > 0, NEW S,
         l \in Seq(S), i \in 1..Len(l),
         NEW h, DOMAIN h = PRegs, NEW x, Cleared(x, l, i - 1, h)
  PROVE  Cleared(Vacated(x[1], x[2], l[i]), l, i, h)
<1> DEFINE b == x[1]
           preg == l[i]
           y == Vacated(x[1], x[2], preg)
           vm == b.m_vreg_to_preg
           pm == b.m_preg_to_vreg
           free == b.m_free_registers
<1>1. Sound(b) /\ \A j \in 1..i : j = i \/ l[j] \notin DOMAIN pm
  <2>1. \A j \in 1..i : j = i \/ j \in 1..i - 1
    OBVIOUS
  <2> QED BY <2>1 DEF Cleared
<1>2. preg \in Range(l)
  BY Members
<1>3. CASE preg \notin DOMAIN pm
  <2>1. y = <<x[1], x[2]>>
    BY <1>3 DEF Vacated
  <2>2. y[1] = x[1] /\ y[2] = x[2]
    BY <2>1
  <2> HIDE DEF y
  <2>3. \A j \in 1..i : l[j] \notin DOMAIN pm
    BY <1>1, <1>3
  <2>4. Cleared(y, l, i, h)
    BY <1>1, <2>2, <2>3 DEF Cleared
  <2> QED BY <2>4 DEF y
<1>4. CASE preg \in DOMAIN pm
  <2> DEFINE vreg == pm[preg]
             c == [b EXCEPT !.m_preg_to_vreg = Without(pm, preg)]
             q == Last(free)
  <2>1. x[2] = <<>> /\ Loaded(b, h)
    BY <1>2, <1>4 DEF Cleared
  <2>2. /\ DOMAIN vm \subseteq VRegs /\ DOMAIN pm \subseteq Usable
        /\ \A v \in DOMAIN vm : vm[v] \in DOMAIN pm /\ pm[vm[v]] = v
        /\ \A r \in DOMAIN pm : pm[r] \in DOMAIN vm /\ vm[pm[r]] = r
    BY <1>1 DEF Sound, Paired
  <2>3. /\ free \in Seq(Usable) /\ IsInjective(free) /\ Range(free) \cap DOMAIN pm = {}
        /\ Range(Pool) \subseteq DOMAIN pm \cup Range(free)
    BY <1>1 DEF Sound, Apart, Complete
  <2>4. preg \in Usable /\ preg \notin Range(Pool) /\ vreg \in DOMAIN vm /\ vm[vreg] = preg
    BY <1>2, <1>4, <2>2
  <2>5. \A r \in Range(l) : r \in Usable => r = preg
    BY <1>2, <2>4 DEF OneIsBound
  <2>6. CASE free = <<>>
    <3> DEFINE d == spill_register(b, vreg)
    <3>1. y = <<d, x[2]>>
      BY <1>4, <2>6 DEF Vacated
    <3>2. y[1] = d /\ y[2] = x[2]
      BY <3>1
    <3>3. /\ Sound(d) /\ DOMAIN d.m_preg_to_vreg = DOMAIN pm \ {preg}
          /\ DOMAIN d.m_vreg_to_preg = DOMAIN vm \ {vreg}
          /\ \A v \in DOMAIN d.m_vreg_to_preg : d.m_vreg_to_preg[v] = vm[v]
      <4> HIDE DEF vreg, preg, b
      <4>1. /\ Sound(d) /\ DOMAIN d.m_preg_to_vreg = DOMAIN pm \ {vm[vreg]}
            /\ DOMAIN d.m_vreg_to_preg = DOMAIN vm \ {vreg}
            /\ \A v \in DOMAIN d.m_vreg_to_preg : d.m_vreg_to_preg[v] = vm[v]
        BY <1>1, <2>4, Spilling
      <4> HIDE DEF d, vm, pm
      <4> QED BY <2>4, <4>1
    <3> HIDE DEF y, d, vreg
    <3>4. Loaded(d, h)
      BY <2>1, <3>3 DEF Loaded
    <3>5. \A j \in 1..i : l[j] \notin DOMAIN d.m_preg_to_vreg
      BY <1>1, <3>3
    <3>6. Cleared(y, l, i, h)
      BY <2>1, <3>2, <3>3, <3>4, <3>5 DEF Cleared
    <3> QED BY <3>6 DEF y
  <2>7. CASE free # <<>>
    <3> DEFINE d == Given(c, vreg)
    <3>1. y = <<d, Append(<<>>, <<preg, q>>)>>
      BY <1>4, <2>1, <2>7 DEF Vacated
    <3>2. y[1] = d /\ y[2] = << <<preg, q>> >>
      BY <3>1
    <3>3. /\ c.m_vreg_to_preg = vm /\ c.m_preg_to_vreg = Without(pm, preg)
          /\ c.m_free_registers = free
      BY <1>1 DEF Sound
    <3>4. /\ DOMAIN Without(pm, preg) = DOMAIN pm \ {preg}
          /\ \A r \in DOMAIN pm : r # preg => Without(pm, preg)[r] = pm[r]
      BY Unbinding
    <3> HIDE DEF y, d, c, vreg
    <3>5. Paired(vm, Without(pm, preg), {vreg})
      <4>1. \A v \in DOMAIN vm : v # vreg => vm[v] # preg
        BY <2>2 DEF vreg
      <4>2. \A r \in DOMAIN pm : r # preg => pm[r] # vreg
        BY <2>2, <2>4
      <4> QED BY <2>2, <3>4, <4>1, <4>2 DEF Paired
    <3>6. Apart(Without(pm, preg), free) /\ Complete(Without(pm, preg), free)
      BY <2>3, <2>4, <3>4 DEF Apart, Complete
    <3>7. vreg \in VRegs
      BY <2>2, <2>4
    <3>8. /\ Sound(d) /\ q \in Range(free) /\ q \in Usable
          /\ DOMAIN d.m_vreg_to_preg = DOMAIN vm \cup {vreg} /\ d.m_vreg_to_preg[vreg] = q
          /\ \A v \in DOMAIN vm : v # vreg => d.m_vreg_to_preg[v] = vm[v]
          /\ DOMAIN d.m_preg_to_vreg = (DOMAIN pm \ {preg}) \cup {q}
      <4>1. /\ c.m_free_registers # <<>> /\ Paired(c.m_vreg_to_preg, c.m_preg_to_vreg, {vreg})
            /\ Apart(c.m_preg_to_vreg, c.m_free_registers)
            /\ Complete(c.m_preg_to_vreg, c.m_free_registers)
        BY <2>7, <3>3, <3>5, <3>6
      <4>2. /\ Sound(d) /\ Last(c.m_free_registers) \in Range(c.m_free_registers)
            /\ Last(c.m_free_registers) \in Usable
            /\ DOMAIN d.m_vreg_to_preg = DOMAIN c.m_vreg_to_preg \cup {vreg}
            /\ d.m_vreg_to_preg[vreg] = Last(c.m_free_registers)
            /\ \A v \in DOMAIN c.m_vreg_to_preg :
                 v # vreg => d.m_vreg_to_preg[v] = c.m_vreg_to_preg[v]
            /\ DOMAIN d.m_preg_to_vreg = DOMAIN c.m_preg_to_vreg \cup {Last(c.m_free_registers)}
        BY <3>7, <4>1, Giving DEF d
      <4> QED BY <3>3, <3>4, <4>2
    <3> HIDE DEF q
    <3>9. q # preg
      BY <1>4, <2>3, <3>8
    <3>10. \A r \in Range(l) : r \notin DOMAIN d.m_preg_to_vreg
      BY <2>2, <2>5, <3>8, <3>9
    <3>11. \A j \in 1..i : l[j] \in Range(l)
      <4>1. \A j \in 1..i : j \in 1..Len(l)
        BY Members
      <4> QED BY <4>1, Members
    <3>12. ASSUME NEW v \in DOMAIN d.m_vreg_to_preg
           PROVE  [h EXCEPT ![q] = h[preg]][d.m_vreg_to_preg[v]] = v
      <4>1. q \in DOMAIN h /\ \A r \in DOMAIN pm : r \in DOMAIN h /\ r # q
        BY <2>2, <2>3, <3>8 DEF Usable, PRegs
      <4>2. CASE v = vreg
        <5>1. h[preg] = vreg
          BY <2>1, <2>4 DEF Loaded
        <5> QED BY <3>8, <4>1, <4>2, <5>1
      <4>3. CASE v # vreg
        <5>1. v \in DOMAIN vm /\ d.m_vreg_to_preg[v] = vm[v] /\ vm[v] \in DOMAIN pm
          BY <2>2, <3>8, <4>3
        <5>2. h[vm[v]] = v
          BY <2>1, <5>1 DEF Loaded
        <5> QED BY <4>1, <5>1, <5>2
      <4> QED BY <4>2, <4>3
    <3>13. Loaded(d, [h EXCEPT ![q] = h[preg]])
      BY <3>12 DEF Loaded
    <3>14. Cleared(y, l, i, h)
      BY <2>4, <3>2, <3>8, <3>10, <3>11, <3>13 DEF Cleared
    <3> QED BY <3>14 DEF y
  <2> QED BY <2>6, <2>7
<1> QED BY <1>3, <1>4

LEMMA CountUp ==
  ASSUME NEW N \in Nat, NEW S, 0 \in S, \A i \in 0..N - 1 : i \in S => i + 1 \in S
  PROVE  \A i \in 0..N : i \in S
<1> DEFINE missing == {i \in 0..N : i \notin S}
<1>1. SUFFICES ASSUME missing # {} PROVE FALSE
  OBVIOUS
<1>2. missing \subseteq Nat
  OBVIOUS
<1> HIDE DEF missing
<1>3. PICK first \in missing : \A i \in missing : <<i, first>> \notin OpToRel(<, Nat)
  BY <1>1, <1>2, NatLessThanWellFounded, WFMin
<1>4. \A i \in missing : ~(i < first)
  BY <1>2, <1>3 DEF OpToRel
<1>5. first \in 0..N /\ first \notin S /\ first # 0
  BY <1>3 DEF missing
<1>6. first - 1 \in 0..N - 1 /\ (first - 1) + 1 = first /\ first - 1 \in 0..N
  BY <1>5
<1>7. first - 1 \in S
  <2>1. first - 1 \notin missing
    BY <1>4, <1>5, <1>6
  <2> QED BY <1>6, <2>1 DEF missing
<1> QED BY <1>5, <1>6, <1>7

(* The loop of handle_syscall_clobbering, round by round.                    *)
LEMMA ClearingRounds ==
  ASSUME NEW b, NEW S, NEW l \in Seq(S)
  PROVE  \E f : /\ f[0] = <<b, <<>>>>
                /\ \A i \in 1..Len(l) : f[i] = Vacated(f[i - 1][1], f[i - 1][2], l[i])
                /\ handle_syscall_clobbering(b, l) = f[Len(l)]
<1> DEFINE N == Len(l)
           Step(x, i) == Vacated(x[1], x[2], l[i])
           Rounds(g) == [i \in 0..N |-> IF i = 0 THEN <<b, <<>>>> ELSE Step(g[i - 1], i)]
           Upto(f, n) == f[0] = <<b, <<>>>> /\ \A i \in 1..n : f[i] = Step(f[i - 1], i)
           S0 == {n \in 0..N : \E f : Upto(f, n)}
<1>0. N \in Nat
  OBVIOUS
<1>1. handle_syscall_clobbering(b, l) = (CHOOSE g : g = Rounds(g))[N]
  BY DEF handle_syscall_clobbering
<1> HIDE DEF N, Step
<1>2. 0 \in S0
  <2>1. Upto([i \in 0..0 |-> <<b, <<>>>>], 0)
    OBVIOUS
  <2>2. 0 \in 0..N
    BY <1>0
  <2> HIDE DEF Upto
  <2>3. \E f : Upto(f, 0)
    BY <2>1, Zenon
  <2> QED BY <2>2, <2>3
<1>3. ASSUME NEW n \in 0..N - 1, n \in S0 PROVE n + 1 \in S0
  <2>1. PICK f : Upto(f, n)
    BY <1>3
  <2> DEFINE g == [i \in 0..n + 1 |-> IF i = n + 1 THEN Step(f[n], n + 1) ELSE f[i]]
  <2>2. /\ n \in Nat /\ n + 1 \in 0..N /\ 0 \in 0..n + 1 /\ 0 # n + 1 /\ (n + 1) - 1 = n
        /\ \A i \in 1..n + 1 : /\ i = n + 1 \/ (i \in 1..n /\ i # n + 1)
                              /\ i \in 0..n + 1 /\ i - 1 \in 0..n + 1 /\ i - 1 # n + 1
    BY <1>0
  <2>3. \A i \in 0..n + 1 : g[i] = IF i = n + 1 THEN Step(f[n], n + 1) ELSE f[i]
    OBVIOUS
  <2> HIDE DEF g
  <2>4. g[0] = <<b, <<>>>>
    BY <2>1, <2>2, <2>3
  <2>5. ASSUME NEW i \in 1..n + 1 PROVE g[i] = Step(g[i - 1], i)
    <3>1. CASE i = n + 1
      BY <2>2, <2>3, <3>1
    <3>2. CASE i \in 1..n /\ i # n + 1
      BY <2>1, <2>2, <2>3, <3>2
    <3> QED BY <2>2, <3>1, <3>2
  <2>6. Upto(g, n + 1)
    BY <2>4, <2>5
  <2> HIDE DEF Upto
  <2> QED BY <2>2, <2>6
<1> HIDE DEF S0
<1>4. N \in S0
  <2>1. \A i \in 0..N - 1 : i \in S0 => i + 1 \in S0
    BY <1>3
  <2>2. \A i \in 0..N : i \in S0
    BY <1>0, <1>2, <2>1, CountUp, ZenonT(40)
  <2> QED BY <1>0, <2>2
<1>5. \E g : g = Rounds(g)
  <2>1. PICK f : Upto(f, N)
    BY <1>4 DEF S0
  <2> DEFINE g == [i \in 0..N |-> f[i]]
  <2>2. \A i \in 0..N : i = 0 \/ (i \in 1..N /\ i - 1 \in 0..N)
    BY <1>0
  <2>3. \A i \in 0..N : g[i] = f[i]
    OBVIOUS
  <2>4. \A i \in 0..N : f[i] = IF i = 0 THEN <<b, <<>>>> ELSE Step(g[i - 1], i)
    <3> HIDE DEF g
    <3>1. \A i \in 1..N : g[i - 1] = f[i - 1]
      BY <1>0, <2>3
    <3> QED BY <2>1, <2>2, <3>1
  <2>5. g = Rounds(g)
    BY <2>4
  <2> QED BY <2>5
<1> DEFINE f == CHOOSE g : g = Rounds(g)
<1>6. f = Rounds(f)
  BY <1>5
<1> HIDE DEF f
<1>7. \A i \in 0..N : f[i] = IF i = 0 THEN <<b, <<>>>> ELSE Step(f[i - 1], i)
  BY <1>6
<1> HIDE DEF Rounds
<1>8. 0 \in 0..N /\ \A i \in 1..N : i \in 0..N /\ i # 0
  BY <1>0
<1>9. Upto(f, N)
  BY <1>7, <1>8
<1>10. handle_syscall_clobbering(b, l) = f[N]
  BY <1>1 DEF f
<1> QED BY <1>9, <1>10 DEF N, Step

LEMMA NoMove == ASSUME NEW h PROVE AfterMoves(h, <<>>) = h
<1> DEFINE Rounds(g) == [i \in 0..0 |-> IF i = 0 THEN h
                         ELSE [g[i - 1] EXCEPT ![<<>>[i][2]] = g[i - 1][<<>>[i][1]]]]
<1>1. AfterMoves(h, <<>>) = (CHOOSE g : g = Rounds(g))[0]
  BY DEF AfterMoves
<1>2. \A g : Rounds(g) = [i \in 0..0 |-> h]
  OBVIOUS
<1> HIDE DEF Rounds
<1>3. (CHOOSE g : g = Rounds(g)) = [i \in 0..0 |-> h]
  BY <1>2
<1> QED BY <1>1, <1>3

LEMMA OneMove ==
  ASSUME NEW h, NEW p, NEW q
  PROVE  AfterMoves(h, << <<p, q>> >>) = [h EXCEPT ![q] = h[p]]
<1> DEFINE moves == << <<p, q>> >>
           Rounds(g) == [i \in 0..1 |-> IF i = 0 THEN h
                         ELSE [g[i - 1] EXCEPT ![moves[i][2]] = g[i - 1][moves[i][1]]]]
           f == [i \in 0..1 |-> IF i = 0 THEN h ELSE [h EXCEPT ![q] = h[p]]]
<1>1. Len(moves) = 1 /\ moves[1][1] = p /\ moves[1][2] = q
  OBVIOUS
<1> HIDE DEF moves
<1>2. AfterMoves(h, moves) = (CHOOSE g : g = Rounds(g))[1]
  BY <1>1 DEF AfterMoves
<1>3. f = Rounds(f)
  <2>1. \A i \in 0..1 : i = 0 \/ (i = 1 /\ i - 1 = 0)
    OBVIOUS
  <2>2. f[0] = h
    OBVIOUS
  <2>3. \A i \in 0..1 : Rounds(f)[i] = f[i]
    BY <1>1, <2>1, <2>2
  <2> QED BY <2>3
<1>4. \A g : g = Rounds(g) => g[0] = h /\ g[1] = [h EXCEPT ![q] = h[p]]
  <2> SUFFICES ASSUME NEW g, g = Rounds(g) PROVE g[0] = h /\ g[1] = [h EXCEPT ![q] = h[p]]
    OBVIOUS
  <2>1. g[0] = h
    OBVIOUS
  <2>2. g[1] = [g[0] EXCEPT ![q] = g[0][p]]
    BY <1>1
  <2> QED BY <2>1, <2>2
<1> HIDE DEF f, Rounds
<1>5. (CHOOSE g : g = Rounds(g))[1] = [h EXCEPT ![q] = h[p]]
  BY <1>3, <1>4
<1> QED BY <1>2, <1>5 DEF moves

LEMMA Clearing ==
  ASSUME NEW S, NEW l \in Seq(S), OneIsBound(l), Range(l) \cap Range(Pool) = {},
         NEW b, Sound(b), NEW h, DOMAIN h = PRegs, Loaded(b, h)
  PROVE  LET after == handle_syscall_clobbering(b, l)
         IN  /\ Sound(after[1])
             /\ Loaded(after[1], [p \in PRegs |-> IF p \in Range(l) THEN NoValue
                                                 ELSE AfterMoves(h, after[2])[p]])
<1> DEFINE N == Len(l)
           x == handle_syscall_clobbering(b, l)
           h2 == [p \in PRegs |-> IF p \in Range(l) THEN NoValue ELSE AfterMoves(h, x[2])[p]]
<1>0. N \in Nat /\ \A r : r \in Range(l) <=> \E i \in 1..N : l[i] = r
  BY Members
<1>1. PICK f : /\ f[0] = <<b, <<>>>>
               /\ \A i \in 1..N : f[i] = Vacated(f[i - 1][1], f[i - 1][2], l[i])
               /\ x = f[N]
  BY ClearingRounds
<1> HIDE DEF N, x
<1> DEFINE good == {i \in 0..N : Cleared(f[i], l, i, h)}
<1>2. 0 \in good
  <2>1. f[0][1] = b /\ f[0][2] = <<>>
    BY <1>1
  <2>2. Cleared(f[0], l, 0, h)
    BY <2>1 DEF Cleared
  <2> QED BY <1>0, <2>2
<1>3. ASSUME NEW i \in 0..N - 1, i \in good PROVE i + 1 \in good
  <2>1. i + 1 \in Nat /\ i + 1 > 0 /\ i + 1 \in 1..N /\ i + 1 \in 0..N /\ (i + 1) - 1 = i
    BY <1>0
  <2>2. Cleared(f[i], l, (i + 1) - 1, h)
    BY <1>3, <2>1
  <2> DEFINE k == i + 1
  <2>3. f[k] = Vacated(f[i][1], f[i][2], l[k])
    BY <1>1, <2>1
  <2>4. k \in Nat /\ k > 0 /\ k \in 1..Len(l) /\ Cleared(f[i], l, k - 1, h)
    BY <2>1, <2>2 DEF N
  <2> HIDE DEF k
  <2>5. Cleared(Vacated(f[i][1], f[i][2], l[k]), l, k, h)
    BY <2>4, ClearingOne
  <2> QED BY <2>1, <2>3, <2>5 DEF k
<1> HIDE DEF good
<1>4. N \in good
  <2>1. \A i \in 0..N - 1 : i \in good => i + 1 \in good
    BY <1>3
  <2>2. \A i \in 0..N : i \in good
    BY <1>0, <1>2, <2>1, CountUp, ZenonT(40)
  <2> QED BY <1>0, <2>2
<1>5. Cleared(x, l, N, h)
  BY <1>1, <1>4 DEF good
<1>6. Sound(x[1]) /\ \A r \in Range(l) : r \notin DOMAIN x[1].m_preg_to_vreg
  BY <1>0, <1>5 DEF Cleared
<1>7. Loaded(x[1], AfterMoves(h, x[2]))
  <2>1. CASE x[2] = <<>> /\ Loaded(x[1], h)
    BY <2>1, NoMove
  <2>2. ASSUME NEW p, NEW q, x[2] = << <<p, q>> >>, Loaded(x[1], [h EXCEPT ![q] = h[p]])
        PROVE  Loaded(x[1], AfterMoves(h, x[2]))
    BY <2>2, OneMove
  <2> QED BY <1>5, <2>1, <2>2 DEF Cleared
<1>8. ASSUME NEW v \in DOMAIN x[1].m_vreg_to_preg PROVE h2[x[1].m_vreg_to_preg[v]] = v
  <2> DEFINE p == x[1].m_vreg_to_preg[v]
  <2>1. p \in DOMAIN x[1].m_preg_to_vreg /\ p \in PRegs
    BY <1>6 DEF Sound, Paired, Usable, PRegs
  <2>2. AfterMoves(h, x[2])[p] = v
    BY <1>7 DEF Loaded
  <2> HIDE DEF p
  <2>3. h2[p] = v
    BY <1>6, <2>1, <2>2
  <2> QED BY <2>3 DEF p
<1> HIDE DEF h2
<1>9. Loaded(x[1], h2)
  BY <1>8 DEF Loaded
<1> QED BY <1>6, <1>9 DEF x, h2

-----------------------------------------------------------------------------
(* The invariant.                                                            *)

AllocatorInv ==
  /\ Sound(allocator)
  /\ DOMAIN holds = PRegs
  /\ Loaded(allocator, holds)

(* Of the registers that one host call changes, a caller binds values by     *)
(* itself to one at most.                                                    *)
OneBoundByForce == \A l \in ClobberedLists : \A p, r \in Range(l) \cap Forceable : p = r

LEMMA FreshIsSound ==
  ASSUME NEW b, b = [m_vreg_to_preg |-> <<>>, m_preg_to_vreg |-> <<>>, m_free_registers |-> Pool]
  PROVE  Sound(b) /\ \A h : Loaded(b, h)
<1>1. /\ b.m_vreg_to_preg = <<>> /\ b.m_preg_to_vreg = <<>> /\ b.m_free_registers = Pool
  OBVIOUS
<1>2. DOMAIN <<>> = {}
  OBVIOUS
<1>3. Pool \in Seq(Usable) /\ IsInjective(Pool)
  <2>1. Pool \in Seq(Range(Pool)) /\ Range(Pool) \subseteq Usable
    BY AllocatorAssumption DEF Usable
  <2> QED BY <2>1, SeqMonotonic, AllocatorAssumption
<1>4. Paired(<<>>, <<>>, {})
  BY <1>2 DEF Paired
<1>5. Apart(<<>>, Pool) /\ Complete(<<>>, Pool)
  BY <1>2, <1>3 DEF Apart, Complete
<1> QED BY <1>1, <1>2, <1>4, <1>5 DEF Sound, Loaded

LEMMA AllocatorInitInv == AllocatorInit => AllocatorInv
BY FreshIsSound DEF AllocatorInit, AllocatorInv

LEMMA AllocatorNextInv ==
  ASSUME OneBoundByForce PROVE AllocatorInv /\ [AllocatorNext]_allocator_vars => AllocatorInv'
<1> SUFFICES ASSUME AllocatorInv, [AllocatorNext]_allocator_vars PROVE AllocatorInv'
  OBVIOUS
<1>0. Sound(allocator) /\ DOMAIN holds = PRegs /\ Loaded(allocator, holds)
  BY DEF AllocatorInv
<1>1. CASE next_instruction
  BY <1>0, <1>1 DEF next_instruction, AllocatorInv
<1>2. CASE init
  BY <1>0, <1>2, FreshIsSound DEF init, AllocatorInv
<1>3. ASSUME NEW vreg \in VRegs, allocate_register(vreg) PROVE AllocatorInv'
  <2>1. PICK c \in Allocated(allocator, vreg, current_instr_idx) :
          /\ allocator' = c
          /\ holds' = IF vreg \in DOMAIN allocator.m_vreg_to_preg THEN holds
                      ELSE [holds EXCEPT ![c.m_vreg_to_preg[vreg]] = vreg]
    BY <1>3 DEF allocate_register
  <2>2. /\ Sound(c) /\ (vreg \in DOMAIN allocator.m_vreg_to_preg => c = allocator)
        /\ vreg \notin DOMAIN allocator.m_vreg_to_preg
             => Loaded(c, [holds EXCEPT ![c.m_vreg_to_preg[vreg]] = vreg])
    <3>1. c \in Allocated(allocator, vreg, current_instr_idx)
      BY <2>1
    <3>2. Sound(c)
      BY <1>0, <1>3, <3>1, Allocating
    <3>3. vreg \in DOMAIN allocator.m_vreg_to_preg => c = allocator
      BY <3>1 DEF Allocated
    <3>4. ASSUME vreg \notin DOMAIN allocator.m_vreg_to_preg
          PROVE  Loaded(c, [holds EXCEPT ![c.m_vreg_to_preg[vreg]] = vreg])
      BY <1>0, <1>3, <3>1, <3>4, Allocating
    <3> QED BY <3>2, <3>3, <3>4
  <2>3. DOMAIN holds' = PRegs
    BY <1>0, <2>1
  <2>4. Loaded(c, holds')
    BY <1>0, <2>1, <2>2
  <2> QED BY <2>1, <2>2, <2>3, <2>4 DEF AllocatorInv
<1>4. ASSUME NEW vreg \in VRegs, free_register(vreg) PROVE AllocatorInv'
  <2>1. /\ vreg \in DOMAIN allocator.m_vreg_to_preg /\ holds' = holds
        /\ allocator' = spill_register(allocator, vreg)
    BY <1>4 DEF free_register
  <2>2. /\ Sound(allocator')
        /\ DOMAIN allocator'.m_vreg_to_preg = DOMAIN allocator.m_vreg_to_preg \ {vreg}
        /\ \A v \in DOMAIN allocator'.m_vreg_to_preg :
             allocator'.m_vreg_to_preg[v] = allocator.m_vreg_to_preg[v]
    BY <1>0, <2>1, Spilling
  <2>3. Loaded(allocator', holds')
    BY <1>0, <2>1, <2>2 DEF Loaded
  <2> QED BY <1>0, <2>1, <2>2, <2>3 DEF AllocatorInv
<1>5. ASSUME NEW vreg \in VRegs, invalidate_register(vreg) PROVE AllocatorInv'
  <2> DEFINE p == allocator.m_vreg_to_preg[vreg]
  <2>1. /\ vreg \in DOMAIN allocator.m_vreg_to_preg /\ holds' = [holds EXCEPT ![p] = NoValue]
        /\ allocator' = spill_register(allocator, vreg)
    BY <1>5 DEF invalidate_register
  <2>2. /\ Sound(allocator')
        /\ DOMAIN allocator'.m_vreg_to_preg = DOMAIN allocator.m_vreg_to_preg \ {vreg}
        /\ \A v \in DOMAIN allocator'.m_vreg_to_preg :
             allocator'.m_vreg_to_preg[v] = allocator.m_vreg_to_preg[v]
             /\ allocator.m_vreg_to_preg[v] # p
    BY <1>0, <2>1, Spilling
  <2> HIDE DEF p
  <2>3. \A r : r # p => holds'[r] = holds[r]
    BY <1>0, <2>1
  <2>4. Loaded(allocator', holds')
    BY <1>0, <2>2, <2>3 DEF Loaded
  <2>5. DOMAIN holds' = PRegs
    BY <1>0, <2>1
  <2> QED BY <2>2, <2>4, <2>5 DEF AllocatorInv
<1>6. ASSUME NEW vreg \in VRegs, NEW preg \in Forceable, force_register_mapping(vreg, preg)
      PROVE  AllocatorInv'
  <2>1. allocator' = Forced(allocator, vreg, preg) /\ holds' = [holds EXCEPT ![preg] = vreg]
    BY <1>6 DEF force_register_mapping
  <2>2. Sound(allocator') /\ Loaded(allocator', holds')
    BY <1>0, <2>1, Forcing
  <2> QED BY <1>0, <2>1, <2>2 DEF AllocatorInv
<1>7. ASSUME NEW l \in ClobberedLists, spill_around_syscall(l) PROVE AllocatorInv'
  <2> DEFINE after == handle_syscall_clobbering(allocator, l)
  <2>1. /\ allocator' = after[1]
        /\ holds' = [p \in PRegs |-> IF p \in Range(l) THEN NoValue ELSE AfterMoves(holds, after[2])[p]]
    BY <1>7 DEF spill_around_syscall
  <2>2. l \in Seq(Range(l)) /\ Range(l) \cap Range(Pool) = {}
    BY AllocatorAssumption
  <2>3. OneIsBound(l)
    BY <2>2 DEF OneIsBound, Usable, OneBoundByForce
  <2>4. Sound(allocator') /\ Loaded(allocator', holds')
    BY <1>0, <2>1, <2>2, <2>3, Clearing
  <2> HIDE DEF after
  <2>5. DOMAIN holds' = PRegs
    BY <2>1
  <2> QED BY <2>4, <2>5 DEF AllocatorInv
<1>8. CASE UNCHANGED allocator_vars
  BY <1>0, <1>8 DEF allocator_vars, AllocatorInv
<1> QED BY <1>1, <1>2, <1>3, <1>4, <1>5, <1>6, <1>7, <1>8 DEF AllocatorNext

LEMMA SoundIsAccounted == ASSUME AllocatorInv PROVE RegistersHoldTheirValues
<1> DEFINE vm == allocator.m_vreg_to_preg
           pm == allocator.m_preg_to_vreg
           free == allocator.m_free_registers
<1>1. /\ \A v \in DOMAIN vm : vm[v] \in DOMAIN pm /\ pm[vm[v]] = v
      /\ \A p \in DOMAIN pm : pm[p] \in DOMAIN vm /\ vm[pm[p]] = p
      /\ free \in Seq(Usable) /\ IsInjective(free) /\ Range(free) \cap DOMAIN pm = {}
      /\ Range(Pool) \subseteq DOMAIN pm \cup Range(free)
  BY DEF AllocatorInv, Sound, Paired, Apart, Complete
<1>2. DOMAIN pm = Range(vm)
  BY <1>1 DEF Range
<1>3. Len(free) = Cardinality(Range(free))
  BY <1>1, AsManyAsMembers
<1>4. RegistersAreAccounted
  BY <1>1, <1>2, <1>3 DEF RegistersAreAccounted
<1> QED BY <1>4 DEF RegistersHoldTheirValues, AllocatorInv, Loaded

(* Whatever is allocated, released, invalidated or bound by force, and       *)
(* whichever values are moved around host calls: a register that is said to  *)
(* hold a value does, no two values share one, and none of the pool is lost  *)
(* or free twice, if of the registers that one host call changes at most one *)
(* is bound by force (register_allocator.cpp, RISCVCodeGen::spill_around_-   *)
(* syscall).                                                                 *)
THEOREM RegistersAlwaysHoldTheirValues ==
  ASSUME OneBoundByForce PROVE AllocatorSpec => []RegistersHoldTheirValues
<1>1. AllocatorInit => AllocatorInv
  BY AllocatorInitInv
<1>2. AllocatorInv /\ [AllocatorNext]_allocator_vars => AllocatorInv'
  BY AllocatorNextInv
<1>3. AllocatorInv => RegistersHoldTheirValues
  BY SoundIsAccounted
<1> QED BY <1>1, <1>2, <1>3, PTL DEF AllocatorSpec
===============================================================================
