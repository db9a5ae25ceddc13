------------------------ MODULE GuestReferences_proofs ------------------------
(* Theorems about what the guest refers to by numbers: Variants, by index   *)
(* (ScopedVariants), for any numbers of levels, references and values, and  *)
(* objects, by address (ScopedObjects), for every number of levels,         *)
(* addresses and objects.                                                   *)
EXTENDS GuestReferences, FiniteSetTheorems, SequenceTheorems, TLAPS

-----------------------------------------------------------------------------
(* Variants.  A state of a call is looked at as four sequences or functions: *)
(* its slots s, the Variants o it owns, the arguments a of the host, and h, *)
(* what the call holds.                                                     *)

(* The host never raises references_max above what was reserved.            *)
NeverRaised == \A n \in ReferencesMax : n <= DefaultMaxRefs

Contents == Values \cup {Nil}
Pointers == [owned : BOOLEAN, storage : Nat, pos : Nat]
Own(n) == [owned |-> TRUE, storage |-> DefaultMaxRefs, pos |-> n]
Unowned(s) == {n \in 1..Len(s) : ~s[n].owned}

(* Every slot points at a Variant of its own, and what is owned has a slot. *)
WellPointed(s, o) ==
  /\ Len(s) <= DefaultMaxRefs
  /\ \A n \in 1..Len(s) : IF s[n].owned
                          THEN s[n] = Own(s[n].pos) /\ s[n].pos \in 1..Len(o)
                          ELSE s[n].pos = n
  /\ \A m, n \in 1..Len(s) :
       s[m].owned /\ s[n].owned /\ s[m].pos = s[n].pos => m = n
  /\ Cardinality(Unowned(s)) + Len(o) = Len(s)

(* What a call holds is what its slots lead to.                             *)
Denotes(s, o, a, h) ==
  \A i \in DOMAIN h :
    /\ i \in Nat /\ i + 1 \in 1..Len(s) /\ h[i] \in Values
    /\ IF s[i + 1].owned THEN o[s[i + 1].pos] = h[i]
       ELSE i + 1 \in 1..Len(a) /\ a[i + 1] = h[i]

LEMMA UnownedFinite ==
  ASSUME NEW s \in Seq(Pointers)
  PROVE  /\ Len(s) \in Nat /\ \A n \in 1..Len(s) : s[n] \in Pointers
         /\ IsFiniteSet(Unowned(s)) /\ Cardinality(Unowned(s)) \in Nat
<1>1. Len(s) \in Nat /\ \A n \in 1..Len(s) : s[n] \in Pointers
  BY LenProperties, ElementOfSeq
<1>2. IsFiniteSet(1..Len(s)) /\ Unowned(s) \subseteq 1..Len(s)
  BY <1>1, FS_Interval DEF Unowned
<1> QED BY <1>1, <1>2, FS_Subset, FS_CardinalityType

LEMMA OwnedFit ==
  ASSUME NEW s \in Seq(Pointers), NEW o \in Seq(Contents), WellPointed(s, o)
  PROVE  /\ Len(o) <= Len(s) /\ Len(s) <= DefaultMaxRefs
         /\ (\A n \in 1..Len(s) : s[n].owned) => Len(o) = Len(s)
<1>1. Cardinality(Unowned(s)) \in Nat /\ Len(s) \in Nat /\ Len(o) \in Nat
  BY UnownedFinite, LenProperties
<1>2. Cardinality(Unowned(s)) + Len(o) = Len(s) /\ Len(s) <= DefaultMaxRefs
  BY DEF WellPointed
<1>3. (\A n \in 1..Len(s) : s[n].owned) => Cardinality(Unowned(s)) = 0
  BY FS_EmptySet DEF Unowned
<1> QED BY <1>1, <1>2, <1>3

LEMMA OwnFields ==
  \A n : Own(n).owned = TRUE /\ Own(n).pos = n /\ Own(n).storage = DefaultMaxRefs
BY DEF Own

LEMMA OwnTyped ==
  ASSUME NEW n \in Nat
  PROVE  Own(n) \in Pointers /\ Own(n).owned = TRUE /\ Own(n).pos = n
BY VariantsAssumption DEF Own, Pointers

(* A new Variant gets a slot behind the others.                             *)
LEMMA Appended ==
  ASSUME NEW s \in Seq(Pointers), NEW o \in Seq(Contents), NEW v \in Values,
         WellPointed(s, o), Len(s) < DefaultMaxRefs
  PROVE  /\ WellPointed(Append(s, Own(Len(o) + 1)), Append(o, v))
         /\ Append(s, Own(Len(o) + 1)) \in Seq(Pointers) /\ Append(o, v) \in Seq(Contents)
         /\ Len(Append(s, Own(Len(o) + 1))) = Len(s) + 1
         /\ \A n \in 1..Len(s) : Append(s, Own(Len(o) + 1))[n] = s[n]
         /\ Append(s, Own(Len(o) + 1))[Len(s) + 1] = Own(Len(o) + 1)
         /\ Len(Append(o, v)) = Len(o) + 1
         /\ \A n \in 1..Len(o) : Append(o, v)[n] = o[n]
         /\ Append(o, v)[Len(o) + 1] = v
<1> DEFINE n0 == Len(s)
           k0 == Len(o)
           s2 == Append(s, Own(k0 + 1))
           o2 == Append(o, v)
<1>1. n0 \in Nat /\ k0 \in Nat /\ DefaultMaxRefs \in Nat
  BY LenProperties, VariantsAssumption
<1>2. Own(k0 + 1) \in Pointers /\ Own(k0 + 1).owned /\ Own(k0 + 1).pos = k0 + 1
  <2>1. k0 + 1 \in Nat
    BY <1>1
  <2> HIDE DEF k0
  <2> QED BY <2>1, OwnTyped
<1>3. /\ s2 \in Seq(Pointers) /\ Len(s2) = n0 + 1
      /\ \A n \in 1..n0 : s2[n] = s[n]
      /\ s2[n0 + 1] = Own(k0 + 1)
  BY <1>2, AppendProperties
<1>4. /\ o2 \in Seq(Contents) /\ Len(o2) = k0 + 1
      /\ \A n \in 1..k0 : o2[n] = o[n]
      /\ o2[k0 + 1] = v
  BY AppendProperties DEF Contents
<1> HIDE DEF s2, o2
<1>5. \A n \in 1..n0 + 1 : n \in 1..n0 \/ n = n0 + 1
  BY <1>1
<1>6. \A n \in 1..n0 : n # n0 + 1 /\ n \in 1..n0 + 1
  BY <1>1
<1>7. Unowned(s2) = Unowned(s)
  BY <1>2, <1>3, <1>5, <1>6 DEF Unowned
<1>8. Len(s2) <= DefaultMaxRefs
  BY <1>1, <1>3
<1>9. \A n \in 1..n0 : s[n].owned => s[n].pos \in 1..k0 /\ s[n].pos # k0 + 1
                                    /\ s[n].pos \in 1..k0 + 1
  <2>1. \A k \in 1..k0 : k # k0 + 1 /\ k \in 1..k0 + 1
    BY <1>1
  <2> QED BY <2>1 DEF WellPointed
<1>10. k0 + 1 \in 1..k0 + 1
  BY <1>1
<1>11. \A n \in 1..n0 + 1 : IF s2[n].owned
                            THEN s2[n] = Own(s2[n].pos) /\ s2[n].pos \in 1..k0 + 1
                            ELSE s2[n].pos = n
  BY <1>2, <1>3, <1>5, <1>9, <1>10 DEF WellPointed
<1>12. \A m, n \in 1..n0 + 1 : s2[m].owned /\ s2[n].owned /\ s2[m].pos = s2[n].pos => m = n
  BY <1>2, <1>3, <1>5, <1>9 DEF WellPointed
<1>13. Cardinality(Unowned(s2)) + (k0 + 1) = n0 + 1
  <2>1. Cardinality(Unowned(s)) \in Nat
    BY UnownedFinite
  <2>2. Cardinality(Unowned(s)) + k0 = n0
    BY DEF WellPointed
  <2> QED BY <1>1, <1>7, <2>1, <2>2
<1>14. WellPointed(s2, o2)
  BY <1>3, <1>4, <1>8, <1>11, <1>12, <1>13 DEF WellPointed
<1> QED BY <1>3, <1>4, <1>14 DEF s2, o2

LEMMA AppendDenotes ==
  ASSUME NEW s \in Seq(Pointers), NEW o \in Seq(Contents), NEW v \in Values, NEW a, NEW h,
         WellPointed(s, o), Len(s) < DefaultMaxRefs, Denotes(s, o, a, h)
  PROVE  /\ Denotes(Append(s, Own(Len(o) + 1)), Append(o, v), a, h)
         /\ Denotes(Append(s, Own(Len(o) + 1)), Append(o, v), a, WithIndex(h, Len(s), v))
<1> DEFINE n0 == Len(s)
           k0 == Len(o)
           s2 == Append(s, Own(k0 + 1))
           o2 == Append(o, v)
<1>1. n0 \in Nat /\ k0 \in Nat
  BY LenProperties
<1>2. /\ Len(s2) = n0 + 1 /\ \A n \in 1..n0 : s2[n] = s[n]
      /\ s2[n0 + 1] = Own(k0 + 1)
      /\ Len(o2) = k0 + 1 /\ \A n \in 1..k0 : o2[n] = o[n]
      /\ o2[k0 + 1] = v
  BY Appended
<1>3. Own(k0 + 1).owned = TRUE /\ Own(k0 + 1).pos = k0 + 1
  BY DEF Own
<1> HIDE DEF s2, o2
<1>4. \A n \in 1..n0 : n \in 1..n0 + 1
  BY <1>1
<1>5. Denotes(s2, o2, a, h)
  BY <1>2, <1>4 DEF Denotes, WellPointed
<1>6. n0 + 1 \in 1..n0 + 1
  BY <1>1
<1>7. Denotes(s2, o2, a, WithIndex(h, n0, v))
  <2> SUFFICES ASSUME NEW i \in DOMAIN WithIndex(h, n0, v)
               PROVE  /\ i \in Nat /\ i + 1 \in 1..Len(s2)
                      /\ WithIndex(h, n0, v)[i] \in Values
                      /\ IF s2[i + 1].owned
                         THEN o2[s2[i + 1].pos] = WithIndex(h, n0, v)[i]
                         ELSE i + 1 \in 1..Len(a) /\ a[i + 1] = WithIndex(h, n0, v)[i]
    BY DEF Denotes
  <2>1. CASE i = n0
    <3>1. WithIndex(h, n0, v)[i] = v
      BY <2>1 DEF WithIndex
    <3> QED BY <1>1, <1>2, <1>3, <1>6, <2>1, <3>1
  <2>2. CASE i # n0
    <3>1. i \in DOMAIN h /\ WithIndex(h, n0, v)[i] = h[i]
      BY <2>2 DEF WithIndex
    <3> QED BY <1>5, <3>1 DEF Denotes
  <2> QED BY <2>1, <2>2
<1> QED BY <1>5, <1>7 DEF s2, o2

(* A Variant of the host is copied, and its slot led to the copy.           *)
LEMMA Copied ==
  ASSUME NEW s \in Seq(Pointers), NEW o \in Seq(Contents), NEW v \in Values, NEW a, NEW h,
         NEW i \in Nat, i + 1 \in 1..Len(s), ~s[i + 1].owned,
         WellPointed(s, o), Denotes(s, o, a, h)
  PROVE  /\ [s EXCEPT ![i + 1] = Own(Len(o) + 1)] \in Seq(Pointers)
         /\ Append(o, v) \in Seq(Contents)
         /\ WellPointed([s EXCEPT ![i + 1] = Own(Len(o) + 1)], Append(o, v))
         /\ Denotes([s EXCEPT ![i + 1] = Own(Len(o) + 1)], Append(o, v), a,
                    WithIndex(h, i, v))
<1> DEFINE n0 == Len(s)
           k0 == Len(o)
           at == i + 1
           s2 == [s EXCEPT ![at] = Own(k0 + 1)]
           o2 == Append(o, v)
           h2 == WithIndex(h, i, v)
<1>1. n0 \in Nat /\ k0 \in Nat /\ k0 + 1 \in Nat /\ at \in 1..n0
  BY LenProperties
<1>2. Own(k0 + 1) \in Pointers /\ Own(k0 + 1).owned /\ Own(k0 + 1).pos = k0 + 1
  <2> HIDE DEF k0
  <2> QED BY <1>1, OwnTyped
<1>3. /\ s2 \in Seq(Pointers) /\ Len(s2) = n0
      /\ \A n \in 1..n0 : s2[n] = IF n = at THEN Own(k0 + 1) ELSE s[n]
  <2> HIDE DEF at
  <2> QED BY <1>1, <1>2, ExceptSeq
<1>4. /\ o2 \in Seq(Contents) /\ Len(o2) = k0 + 1
      /\ \A n \in 1..k0 : o2[n] = o[n]
      /\ o2[k0 + 1] = v
  BY AppendProperties DEF Contents
<1> HIDE DEF s2, o2, at
<1>5. ~s[at].owned
  BY DEF at
<1>6. Unowned(s2) = Unowned(s) \ {at} /\ at \in Unowned(s)
  BY <1>1, <1>2, <1>3, <1>5 DEF Unowned
<1>7. \A n \in 1..n0 : s[n].owned => s[n].pos \in 1..k0 /\ s[n].pos # k0 + 1
                                    /\ s[n].pos \in 1..k0 + 1
  <2>1. \A k \in 1..k0 : k # k0 + 1 /\ k \in 1..k0 + 1
    BY <1>1
  <2> QED BY <2>1 DEF WellPointed
<1>8. k0 + 1 \in 1..k0 + 1
  BY <1>1
<1>9. ASSUME NEW n \in 1..n0
      PROVE  IF s2[n].owned THEN s2[n] = Own(s2[n].pos) /\ s2[n].pos \in 1..k0 + 1
             ELSE s2[n].pos = n
  <2>1. CASE n = at
    BY <1>2, <1>3, <1>8, <2>1
  <2>2. CASE n # at
    BY <1>3, <1>7, <2>2 DEF WellPointed
  <2> QED BY <2>1, <2>2
<1>10. \A m, n \in 1..n0 : s2[m].owned /\ s2[n].owned /\ s2[m].pos = s2[n].pos => m = n
  <2>1. \A n \in 1..n0 : n # at => s2[n] = s[n]
    BY <1>3
  <2>2. s2[at].pos = k0 + 1
    BY <1>1, <1>2, <1>3
  <2>3. \A m, n \in 1..n0 : s[m].owned /\ s[n].owned /\ s[m].pos = s[n].pos => m = n
    BY DEF WellPointed
  <2>4. ASSUME NEW m \in 1..n0, m # at, s2[m].owned PROVE s2[m].pos # s2[at].pos
    BY <1>7, <2>1, <2>2, <2>4
  <2> QED BY <2>1, <2>3, <2>4
<1>11. Cardinality(Unowned(s2)) + (k0 + 1) = n0
  <2>1. IsFiniteSet(Unowned(s)) /\ Cardinality(Unowned(s)) \in Nat
    BY UnownedFinite
  <2>2. Cardinality(Unowned(s)) + k0 = n0
    BY DEF WellPointed
  <2>3. Cardinality(Unowned(s2)) = Cardinality(Unowned(s)) - 1
    BY <1>6, <2>1, FS_RemoveElement, ZenonT(40)
  <2> QED BY <1>1, <2>1, <2>2, <2>3
<1>12. WellPointed(s2, o2)
  <2>1. Len(s2) <= DefaultMaxRefs
    BY <1>3 DEF WellPointed
  <2> QED BY <1>3, <1>4, <1>9, <1>10, <1>11, <2>1 DEF WellPointed
<1>13. Denotes(s2, o2, a, h2)
  <2> SUFFICES ASSUME NEW j \in DOMAIN h2
               PROVE  /\ j \in Nat /\ j + 1 \in 1..Len(s2) /\ h2[j] \in Values
                      /\ IF s2[j + 1].owned THEN o2[s2[j + 1].pos] = h2[j]
                         ELSE j + 1 \in 1..Len(a) /\ a[j + 1] = h2[j]
    BY DEF Denotes
  <2>1. CASE j = i
    <3>1. h2[j] = v /\ j + 1 = at
      BY <2>1 DEF WithIndex, at
    <3> QED BY <1>1, <1>2, <1>3, <1>4, <2>1, <3>1
  <2>2. CASE j # i
    <3>1. j \in DOMAIN h /\ h2[j] = h[j]
      BY <2>2 DEF WithIndex
    <3>2. j \in Nat /\ j + 1 \in 1..n0 /\ j + 1 # at
      BY <2>2, <3>1 DEF Denotes, at
    <3>3. s2[j + 1] = s[j + 1]
      BY <1>3, <3>2
    <3>4. /\ h[j] \in Values
          /\ IF s[j + 1].owned THEN o[s[j + 1].pos] = h[j]
             ELSE j + 1 \in 1..Len(a) /\ a[j + 1] = h[j]
      BY <3>1 DEF Denotes
    <3>5. s[j + 1].owned => o2[s[j + 1].pos] = o[s[j + 1].pos]
      BY <1>4, <1>7, <3>2
    <3> QED BY <1>3, <3>1, <3>2, <3>3, <3>4, <3>5
  <2> QED BY <2>1, <2>2
<1> QED BY <1>3, <1>4, <1>12, <1>13 DEF s2, o2, at

(* What is written through one slot is seen through no other.               *)
LEMMA Written ==
  ASSUME NEW s \in Seq(Pointers), NEW o \in Seq(Contents), NEW a, NEW h,
         NEW i \in Nat, i + 1 \in 1..Len(s), s[i + 1].owned,
         WellPointed(s, o), Denotes(s, o, a, h)
  PROVE  /\ \A v \in Contents : /\ [o EXCEPT ![s[i + 1].pos] = v] \in Seq(Contents)
                                /\ WellPointed(s, [o EXCEPT ![s[i + 1].pos] = v])
                                /\ Denotes(s, [o EXCEPT ![s[i + 1].pos] = v], a,
                                           WithoutIndex(h, i))
         /\ \A v \in Values : Denotes(s, [o EXCEPT ![s[i + 1].pos] = v], a,
                                      WithIndex(h, i, v))
<1> DEFINE p == s[i + 1].pos
           without == WithoutIndex(h, i)
<1>1. p \in 1..Len(o)
  BY DEF WellPointed
<1>2. ASSUME NEW v \in Contents
      PROVE  /\ [o EXCEPT ![p] = v] \in Seq(Contents) /\ Len([o EXCEPT ![p] = v]) = Len(o)
             /\ \A n \in 1..Len(o) : [o EXCEPT ![p] = v][n] = IF n = p THEN v ELSE o[n]
  <2> HIDE DEF p
  <2> QED BY <1>1, ExceptSeq
<1>3. ASSUME NEW j \in DOMAIN h, j # i
      PROVE  /\ j \in Nat /\ j + 1 \in 1..Len(s) /\ h[j] \in Values
             /\ s[j + 1].owned => /\ s[j + 1].pos \in 1..Len(o) /\ s[j + 1].pos # p
                                  /\ o[s[j + 1].pos] = h[j]
             /\ ~s[j + 1].owned => j + 1 \in 1..Len(a) /\ a[j + 1] = h[j]
  <2>1. j \in Nat /\ j + 1 \in 1..Len(s) /\ h[j] \in Values /\ j + 1 # i + 1
    BY <1>3 DEF Denotes
  <2>2. s[j + 1].owned => s[j + 1].pos \in 1..Len(o) /\ s[j + 1].pos # p
    BY <2>1 DEF WellPointed
  <2> QED BY <2>1, <2>2 DEF Denotes
<1>4. ASSUME NEW v \in Contents, NEW o2, o2 = [o EXCEPT ![p] = v]
      PROVE  /\ o2 \in Seq(Contents) /\ WellPointed(s, o2) /\ Denotes(s, o2, a, without)
             /\ v \in Values => Denotes(s, o2, a, WithIndex(h, i, v))
  <2>1. /\ o2 \in Seq(Contents) /\ Len(o2) = Len(o)
        /\ \A n \in 1..Len(o) : o2[n] = IF n = p THEN v ELSE o[n]
    BY <1>2, <1>4
  <2> HIDE DEF p
  <2>2. WellPointed(s, o2)
    BY <2>1 DEF WellPointed
  <2>3. \A j \in DOMAIN h : j # i =>
          /\ j \in Nat /\ j + 1 \in 1..Len(s) /\ h[j] \in Values
          /\ IF s[j + 1].owned THEN o2[s[j + 1].pos] = h[j]
             ELSE j + 1 \in 1..Len(a) /\ a[j + 1] = h[j]
    BY <1>3, <2>1
  <2>4. Denotes(s, o2, a, without)
    BY <2>3 DEF Denotes, WithoutIndex
  <2>5. o2[p] = v /\ p = s[i + 1].pos
    BY <1>1, <2>1 DEF p
  <2>6. ASSUME v \in Values PROVE Denotes(s, o2, a, WithIndex(h, i, v))
    BY <2>3, <2>5, <2>6 DEF Denotes, WithIndex
  <2> QED BY <2>1, <2>2, <2>4, <2>6
<1>5. Values \subseteq Contents
  BY DEF Contents
<1> QED BY <1>4, <1>5

(* A call begins with the arguments of the host and nothing of its own.     *)
LEMMA Begun ==
  ASSUME NEW a \in Seq(Values), Len(a) <= DefaultMaxRefs
  PROVE  LET s == [n \in 1..Len(a) |-> [owned |-> FALSE, storage |-> 0, pos |-> n]]
         IN  /\ s \in Seq(Pointers) /\ <<>> \in Seq(Contents) /\ WellPointed(s, <<>>)
             /\ Denotes(s, <<>>, a, [i \in 0..(Len(a) - 1) |-> a[i + 1]])
<1> DEFINE s == [n \in 1..Len(a) |-> [owned |-> FALSE, storage |-> 0, pos |-> n]]
           h == [i \in 0..(Len(a) - 1) |-> a[i + 1]]
<1>1. Len(a) \in Nat /\ \A n \in 1..Len(a) : a[n] \in Values
  BY LenProperties, ElementOfSeq
<1>2. s \in Seq(Pointers) /\ Len(s) = Len(a)
  <2>1. s \in [1..Len(a) -> Pointers]
    BY <1>1 DEF Pointers
  <2> QED BY <1>1, <2>1
<1>3. \A n \in 1..Len(a) : s[n].owned = FALSE /\ s[n].pos = n
  OBVIOUS
<1> HIDE DEF s
<1>4. Unowned(s) = 1..Len(a)
  BY <1>2, <1>3 DEF Unowned
<1>5. Cardinality(1..Len(a)) = Len(a)
  <2>1. Cardinality(1..Len(a)) = IF 1 > Len(a) THEN 0 ELSE Len(a) - 1 + 1
    BY <1>1, FS_Interval, SMTT(40)
  <2> QED BY <1>1, <2>1
<1>6. <<>> \in Seq(Contents) /\ Len(<<>>) = 0
  BY EmptySeq
<1>7. WellPointed(s, <<>>)
  BY <1>1, <1>2, <1>3, <1>4, <1>5, <1>6 DEF WellPointed
<1>8. \A i \in 0..(Len(a) - 1) : i \in Nat /\ i + 1 \in 1..Len(a)
  BY <1>1
<1>9. Denotes(s, <<>>, a, h)
  BY <1>1, <1>2, <1>3, <1>8 DEF Denotes
<1> QED BY <1>2, <1>6, <1>7, <1>9 DEF s

-----------------------------------------------------------------------------
(* The state, as those sequences for every level.                           *)
Sound(s, o, a, h) ==
  /\ s \in Seq(Pointers) /\ o \in Seq(Contents) /\ a \in Seq(Values)
  /\ WellPointed(s, o)
  /\ Denotes(s, o, a, h)

IsLeveled(f) == f = [l \in CallStates |-> f[l]]

(* The slots of the permanent state are those of its Variants, in order.    *)
IsPermanent(s) == \A n \in 1..Len(s) : s[n].owned /\ s[n].pos = n

AllSound(sl, ow, ar, he) ==
  /\ IsLeveled(sl) /\ IsLeveled(ow) /\ IsLeveled(ar) /\ IsLeveled(he)
  /\ \A l \in CallStates : Sound(sl[l], ow[l], ar[l], he[l])
  /\ IsPermanent(sl[0]) /\ DOMAIN he[0] = {}

(* What the program keeps is what it stored, at the negated position.       *)
KeptIn(o, k) ==
  \A i \in DOMAIN k : i \in Int /\ -i \in 1..Len(o) /\ k[i] \in Values /\ o[-i] = k[i]

VariantsInv ==
  /\ current \in CallStates
  /\ capacity = [l \in CallStates |-> DefaultMaxRefs]
  /\ max_refs \in Nat /\ max_refs <= DefaultMaxRefs
  /\ AllSound(slots, owned, args, held)
  /\ KeptIn(owned[0], kept)

LEMMA LevelsTyped ==
  /\ 0 \in CallStates /\ DefaultMaxRefs \in Nat
  /\ \A l \in CallStates : l \in Nat /\ l < MaxStates
BY VariantsAssumption DEF CallStates

(* One level changes.                                                       *)
LEMMA LevelChanged ==
  ASSUME NEW sl, NEW ow, NEW ar, NEW he, AllSound(sl, ow, ar, he),
         NEW l \in CallStates, NEW s, NEW o, NEW a, NEW h, Sound(s, o, a, h),
         l = 0 => IsPermanent(s) /\ DOMAIN h = {}
  PROVE  AllSound([sl EXCEPT ![l] = s], [ow EXCEPT ![l] = o], [ar EXCEPT ![l] = a],
                  [he EXCEPT ![l] = h])
<1> DEFINE sl2 == [sl EXCEPT ![l] = s]
           ow2 == [ow EXCEPT ![l] = o]
           ar2 == [ar EXCEPT ![l] = a]
           he2 == [he EXCEPT ![l] = h]
<1>1. /\ DOMAIN sl = CallStates /\ DOMAIN ow = CallStates
      /\ DOMAIN ar = CallStates /\ DOMAIN he = CallStates
  BY DEF AllSound, IsLeveled
<1>2. \A m \in CallStates : /\ sl2[m] = IF m = l THEN s ELSE sl[m]
                            /\ ow2[m] = IF m = l THEN o ELSE ow[m]
                            /\ ar2[m] = IF m = l THEN a ELSE ar[m]
                            /\ he2[m] = IF m = l THEN h ELSE he[m]
  BY <1>1
<1>3. IsLeveled(sl2) /\ IsLeveled(ow2) /\ IsLeveled(ar2) /\ IsLeveled(he2)
  BY <1>1 DEF IsLeveled
<1> HIDE DEF sl2, ow2, ar2, he2
<1>4. \A m \in CallStates : Sound(sl2[m], ow2[m], ar2[m], he2[m])
  BY <1>2 DEF AllSound
<1>5. IsPermanent(sl2[0]) /\ DOMAIN he2[0] = {}
  BY <1>2, LevelsTyped DEF AllSound
<1>6. AllSound(sl2, ow2, ar2, he2)
  BY <1>3, <1>4, <1>5 DEF AllSound
<1> QED BY <1>6 DEF sl2, ow2, ar2, he2

LEMMA Same ==
  ASSUME NEW f, IsLeveled(f), NEW l \in CallStates
  PROVE  [f EXCEPT ![l] = f[l]] = f
<1>1. DOMAIN f = CallStates /\ f = [m \in CallStates |-> f[m]]
  BY DEF IsLeveled
<1>2. [f EXCEPT ![l] = f[l]] = [m \in CallStates |-> f[m]]
  BY <1>1
<1> QED BY <1>1, <1>2

LEMMA PermanentAligned ==
  ASSUME NEW s, NEW o, NEW a, NEW h, Sound(s, o, a, h), IsPermanent(s)
  PROVE  Len(o) = Len(s) /\ Len(s) \in Nat
<1>1. \A n \in 1..Len(s) : s[n].owned
  BY DEF IsPermanent
<1> QED BY <1>1, OwnedFit, UnownedFinite DEF Sound

(* What an index leads to.                                                  *)
LEMMA Lookup ==
  ASSUME VariantsInv, NEW l \in CallStates
  PROVE  /\ \A i \in DOMAIN held[l] :
              /\ i \in Nat /\ i + 1 \in 1..Len(slots[l]) /\ held[l][i] \in Values
              /\ IsScoped(l, i) /\ l # 0
              /\ get_scoped_variant(l, i) = held[l][i]
         /\ \A i \in DOMAIN kept :
              /\ i \in Int /\ i < 0 /\ -i \in 1..Len(slots[0]) /\ kept[i] \in Values
              /\ IsScoped(l, i)
              /\ get_scoped_variant(l, i) = kept[i]
<1>1. /\ Sound(slots[l], owned[l], args[l], held[l])
      /\ Sound(slots[0], owned[0], args[0], held[0])
      /\ capacity[l] = DefaultMaxRefs /\ capacity[0] = DefaultMaxRefs
  BY LevelsTyped DEF VariantsInv, AllSound
<1>2. Len(owned[0]) = Len(slots[0]) /\ IsPermanent(slots[0])
  BY <1>1, PermanentAligned DEF VariantsInv, AllSound
<1>3. ASSUME NEW i \in DOMAIN held[l]
      PROVE  /\ i \in Nat /\ i + 1 \in 1..Len(slots[l]) /\ held[l][i] \in Values
             /\ IsScoped(l, i) /\ l # 0
             /\ get_scoped_variant(l, i) = held[l][i]
  <2>1. /\ i \in Nat /\ i + 1 \in 1..Len(slots[l]) /\ held[l][i] \in Values
        /\ IF slots[l][i + 1].owned THEN owned[l][slots[l][i + 1].pos] = held[l][i]
           ELSE i + 1 \in 1..Len(args[l]) /\ args[l][i + 1] = held[l][i]
    BY <1>1, <1>3 DEF Sound, Denotes
  <2>2. StateOf(l, i) = l /\ PositionOf(i) = i + 1
    BY <2>1 DEF StateOf, PositionOf, is_permanent_variant
  <2>3. IsScoped(l, i)
    BY <2>1, <2>2 DEF IsScoped
  <2>4. l # 0
    BY <1>3 DEF VariantsInv, AllSound
  <2>5. IF slots[l][i + 1].owned THEN slots[l][i + 1].storage = DefaultMaxRefs
        ELSE slots[l][i + 1].pos = i + 1
    <3>1. IF slots[l][i + 1].owned THEN slots[l][i + 1] = Own(slots[l][i + 1].pos)
          ELSE slots[l][i + 1].pos = i + 1
      BY <1>1, <2>1 DEF Sound, WellPointed
    <3> QED BY <3>1, OwnFields
  <2>6. get_scoped_variant(l, i) = held[l][i]
    BY <1>1, <2>1, <2>2, <2>3, <2>5 DEF get_scoped_variant
  <2> QED BY <2>1, <2>3, <2>4, <2>6
<1>4. ASSUME NEW i \in DOMAIN kept
      PROVE  /\ i \in Int /\ i < 0 /\ -i \in 1..Len(slots[0]) /\ kept[i] \in Values
             /\ IsScoped(l, i)
             /\ get_scoped_variant(l, i) = kept[i]
  <2>1. i \in Int /\ -i \in 1..Len(slots[0]) /\ kept[i] \in Values /\ owned[0][-i] = kept[i]
    BY <1>2, <1>4 DEF VariantsInv, KeptIn
  <2>2. i < 0
    BY <2>1
  <2>3. StateOf(l, i) = 0 /\ PositionOf(i) = -i
    BY <2>2 DEF StateOf, PositionOf, is_permanent_variant
  <2>4. IsScoped(l, i)
    BY <2>1, <2>3 DEF IsScoped
  <2>5. slots[0][-i].owned /\ slots[0][-i].pos = -i
    BY <1>2, <2>1 DEF IsPermanent
  <2>6. slots[0][-i].storage = DefaultMaxRefs
    <3>1. slots[0][-i] = Own(slots[0][-i].pos)
      BY <1>1, <2>1, <2>5 DEF Sound, WellPointed
    <3> QED BY <3>1, OwnFields
  <2>7. get_scoped_variant(l, i) = kept[i]
    BY <1>1, <2>1, <2>3, <2>4, <2>5, <2>6 DEF get_scoped_variant
  <2> QED BY <2>1, <2>2, <2>4, <2>7
<1> QED BY <1>3, <1>4

(* The globals, as Variants are appended and assigned.                      *)
LEMMA KeptAppended ==
  ASSUME NEW o \in Seq(Contents), NEW k, NEW v \in Values, KeptIn(o, k)
  PROVE  /\ KeptIn(Append(o, v), k)
         /\ KeptIn(Append(o, v), WithIndex(k, -(Len(o) + 1), v))
<1> DEFINE m == Len(o)
           o2 == Append(o, v)
<1>1. m \in Nat
  BY LenProperties
<1>2. Len(o2) = m + 1 /\ (\A n \in 1..m : o2[n] = o[n]) /\ o2[m + 1] = v
  BY AppendProperties DEF Contents
<1> HIDE DEF o2
<1>3. \A n \in 1..m : n \in 1..m + 1
  BY <1>1
<1>4. KeptIn(o2, k)
  BY <1>2, <1>3 DEF KeptIn
<1>5. -(m + 1) \in Int /\ -(-(m + 1)) = m + 1 /\ m + 1 \in 1..m + 1
  BY <1>1
<1>6. KeptIn(o2, WithIndex(k, -(m + 1), v))
  <2> SUFFICES ASSUME NEW i \in DOMAIN WithIndex(k, -(m + 1), v)
               PROVE  /\ i \in Int /\ -i \in 1..Len(o2)
                      /\ WithIndex(k, -(m + 1), v)[i] \in Values
                      /\ o2[-i] = WithIndex(k, -(m + 1), v)[i]
    BY DEF KeptIn
  <2>1. CASE i = -(m + 1)
    <3>1. WithIndex(k, -(m + 1), v)[i] = v
      BY <2>1 DEF WithIndex
    <3> QED BY <1>2, <1>5, <2>1, <3>1
  <2>2. CASE i # -(m + 1)
    <3>1. i \in DOMAIN k /\ WithIndex(k, -(m + 1), v)[i] = k[i]
      BY <2>2 DEF WithIndex
    <3> QED BY <1>4, <3>1 DEF KeptIn
  <2> QED BY <2>1, <2>2
<1> QED BY <1>4, <1>6 DEF o2

LEMMA KeptAssigned ==
  ASSUME NEW o \in Seq(Contents), NEW k, NEW v \in Values, KeptIn(o, k),
         NEW i \in Int, -i \in 1..Len(o)
  PROVE  KeptIn([o EXCEPT ![-i] = v], WithIndex(k, i, v))
<1> DEFINE n == -i
           o2 == [o EXCEPT ![n] = v]
<1>1. n \in 1..Len(o) /\ v \in Contents
  BY DEF Contents
<1>2. Len(o2) = Len(o) /\ \A m \in 1..Len(o) : o2[m] = IF m = n THEN v ELSE o[m]
  <2> HIDE DEF n
  <2> QED BY <1>1, ExceptSeq
<1> HIDE DEF o2
<1>3. KeptIn(o2, WithIndex(k, i, v))
  <2> SUFFICES ASSUME NEW j \in DOMAIN WithIndex(k, i, v)
               PROVE  /\ j \in Int /\ -j \in 1..Len(o2) /\ WithIndex(k, i, v)[j] \in Values
                      /\ o2[-j] = WithIndex(k, i, v)[j]
    BY DEF KeptIn
  <2>1. CASE j = i
    <3>1. WithIndex(k, i, v)[j] = v
      BY <2>1 DEF WithIndex
    <3> QED BY <1>1, <1>2, <2>1, <3>1
  <2>2. CASE j # i
    <3>1. j \in DOMAIN k /\ WithIndex(k, i, v)[j] = k[j]
      BY <2>2 DEF WithIndex
    <3>2. j \in Int /\ -j \in 1..Len(o) /\ k[j] \in Values /\ o[-j] = k[j]
      BY <3>1 DEF KeptIn
    <3>3. -j # n
      BY <2>2, <3>2
    <3> QED BY <1>2, <3>1, <3>2, <3>3
  <2> QED BY <2>1, <2>2
<1> QED BY <1>3 DEF o2

(* A Variant is appended to a level.                                        *)
LEMMA LevelAppended ==
  ASSUME NEW s, NEW o, NEW a, NEW h, NEW v \in Values, Sound(s, o, a, h),
         Len(s) < DefaultMaxRefs
  PROVE  /\ Sound(Append(s, Own(Len(o) + 1)), Append(o, v), a, h)
         /\ Sound(Append(s, Own(Len(o) + 1)), Append(o, v), a, WithIndex(h, Len(s), v))
         /\ IsPermanent(s) => IsPermanent(Append(s, Own(Len(o) + 1)))
<1> DEFINE s2 == Append(s, Own(Len(o) + 1))
<1>1. Sound(s2, Append(o, v), a, h) /\ Sound(s2, Append(o, v), a, WithIndex(h, Len(s), v))
  BY Appended, AppendDenotes DEF Sound
<1>2. ASSUME IsPermanent(s) PROVE IsPermanent(s2)
  <2>1. Len(o) = Len(s) /\ Len(s) \in Nat
    BY <1>2, PermanentAligned
  <2>2. /\ Len(s2) = Len(s) + 1 /\ \A n \in 1..Len(s) : s2[n] = s[n]
        /\ s2[Len(s) + 1] = Own(Len(o) + 1)
    BY Appended DEF Sound
  <2> HIDE DEF s2
  <2>3. \A n \in 1..Len(s) + 1 : n \in 1..Len(s) \/ n = Len(s) + 1
    BY <2>1
  <2> QED BY <1>2, <2>1, <2>2, <2>3, OwnFields DEF IsPermanent
<1> QED BY <1>1, <1>2

LEMMA CreateKeeps ==
  ASSUME VariantsInv, NEW v \in Values, create_scoped_variant(v)
  PROVE  VariantsInv' /\ args' = args
<1> DEFINE s == slots[current]
           o == owned[current]
           a == args[current]
           h == held[current]
           s2 == Append(s, Own(Len(o) + 1))
           o2 == Append(o, v)
           i == IndexOf(current, Len(s) + 1)
<1>1. /\ current \in CallStates /\ current \in Nat /\ 0 \in CallStates
      /\ capacity[current] = DefaultMaxRefs
      /\ Sound(s, o, a, h)
      /\ IsLeveled(slots) /\ IsLeveled(owned) /\ IsLeveled(args) /\ IsLeveled(held)
  BY LevelsTyped DEF VariantsInv, AllSound
<1>2. /\ Len(s) < DefaultMaxRefs
      /\ slots' = [slots EXCEPT ![current] = s2]
      /\ owned' = [owned EXCEPT ![current] = o2]
      /\ args' = args /\ current' = current /\ capacity' = capacity /\ max_refs' = max_refs
      /\ Remember(i, v)
  BY <1>1 DEF create_scoped_variant, PushSlot, Owning, Own
<1>3. /\ Sound(s2, o2, a, h) /\ Sound(s2, o2, a, WithIndex(h, Len(s), v))
      /\ IsPermanent(s) => IsPermanent(s2)
      /\ Len(s) \in Nat
  BY <1>1, <1>2, LevelAppended, UnownedFinite DEF Sound
<1>4. args = [args EXCEPT ![current] = a] /\ held = [held EXCEPT ![current] = h]
  BY <1>1, Same
<1>5. /\ DOMAIN owned = CallStates
      /\ KeptIn(owned[0], kept) /\ o \in Seq(Contents) /\ AllSound(slots, owned, args, held)
  BY <1>1 DEF VariantsInv, IsLeveled, Sound
<1>6. CASE current = 0
  <2>1. IsPermanent(s) /\ DOMAIN h = {}
    BY <1>5, <1>6 DEF AllSound
  <2>2. Len(o) = Len(s)
    BY <1>1, <2>1, PermanentAligned
  <2>3. i = -(Len(o) + 1) /\ i < 0
    BY <1>3, <1>6, <2>2 DEF IndexOf
  <2>4. held' = held /\ kept' = WithIndex(kept, -(Len(o) + 1), v)
    BY <1>2, <2>3 DEF Remember, is_permanent_variant
  <2>5. AllSound([slots EXCEPT ![current] = s2], [owned EXCEPT ![current] = o2],
                 [args EXCEPT ![current] = a], [held EXCEPT ![current] = h])
    BY <1>1, <1>3, <1>5, <2>1, LevelChanged
  <2>6. owned'[0] = o2
    BY <1>1, <1>2, <1>5, <1>6
  <2>7. KeptIn(owned'[0], kept')
    BY <1>5, <1>6, <2>4, <2>6, KeptAppended
  <2> QED BY <1>2, <1>4, <2>4, <2>5, <2>7 DEF VariantsInv
<1>7. CASE current # 0
  <2>1. i = Len(s) /\ ~(i < 0)
    BY <1>3, <1>7 DEF IndexOf
  <2>2. held' = [held EXCEPT ![current] = WithIndex(h, Len(s), v)] /\ kept' = kept
    BY <1>2, <2>1 DEF Remember, is_permanent_variant
  <2>3. AllSound([slots EXCEPT ![current] = s2], [owned EXCEPT ![current] = o2],
                 [args EXCEPT ![current] = a],
                 [held EXCEPT ![current] = WithIndex(h, Len(s), v)])
    BY <1>1, <1>3, <1>5, <1>7, LevelChanged
  <2>4. owned'[0] = owned[0]
    BY <1>1, <1>2, <1>5, <1>7
  <2> QED BY <1>2, <1>4, <1>5, <2>2, <2>3, <2>4 DEF VariantsInv
<1> QED BY <1>2, <1>6, <1>7

LEMMA EmptySound ==
  ASSUME NEW a \in Seq(Values)
  PROVE  Sound(<<>>, <<>>, a, NoIndices)
<1>1. <<>> \in Seq(Pointers) /\ <<>> \in Seq(Contents) /\ Len(<<>>) = 0
  BY EmptySeq
<1>2. \A n \in 1..Len(<<>>) : FALSE
  BY <1>1
<1>3. Unowned(<<>>) = {}
  BY <1>2 DEF Unowned
<1>4. Cardinality(Unowned(<<>>)) + Len(<<>>) = Len(<<>>) /\ Len(<<>>) <= DefaultMaxRefs
  <2>1. Cardinality(Unowned(<<>>)) = 0
    BY <1>3, FS_EmptySet
  <2> QED BY <1>1, <2>1, LevelsTyped
<1>5. WellPointed(<<>>, <<>>)
  BY <1>2, <1>4 DEF WellPointed
<1>6. Denotes(<<>>, <<>>, a, NoIndices)
  BY DEF Denotes, NoIndices
<1> QED BY <1>1, <1>5, <1>6 DEF Sound

LEMMA InitHolds == VariantsInit => VariantsInv
<1> SUFFICES ASSUME VariantsInit PROVE VariantsInv
  OBVIOUS
<1>1. Sound(<<>>, <<>>, <<>>, NoIndices)
  BY EmptySound, EmptySeq
<1>2. AllSound(slots, owned, args, held)
  <2>1. \A l \in CallStates : /\ slots[l] = <<>> /\ owned[l] = <<>> /\ args[l] = <<>>
                              /\ held[l] = NoIndices
    BY DEF VariantsInit
  <2>2. IsLeveled(slots) /\ IsLeveled(owned) /\ IsLeveled(args) /\ IsLeveled(held)
    BY DEF VariantsInit, IsLeveled
  <2>3. IsPermanent(<<>>) /\ DOMAIN NoIndices = {}
    BY EmptySeq DEF IsPermanent, NoIndices
  <2> QED BY <1>1, <2>1, <2>2, <2>3, LevelsTyped DEF AllSound
<1>3. KeptIn(owned[0], kept)
  BY DEF VariantsInit, KeptIn, NoIndices
<1>4. current = 0 /\ max_refs = DefaultMaxRefs
      /\ capacity = [l \in CallStates |-> DefaultMaxRefs]
  BY DEF VariantsInit
<1> QED BY <1>2, <1>3, <1>4, LevelsTyped DEF VariantsInv

LEMMA LoadKeeps ==
  ASSUME VariantsInv, load_main
  PROVE  VariantsInv'
<1>1. /\ current' = 0 /\ max_refs' = max_refs /\ args' = args /\ kept' = NoIndices
      /\ owned' = [l \in CallStates |-> <<>>] /\ slots' = [l \in CallStates |-> <<>>]
      /\ held' = [l \in CallStates |-> NoIndices]
  BY DEF load_main
<1>2. capacity' = [l \in CallStates |-> DefaultMaxRefs]
  <2>1. \A l \in CallStates : (IF max_refs > capacity[l] THEN max_refs ELSE capacity[l])
                              = DefaultMaxRefs
    BY LevelsTyped DEF VariantsInv
  <2> QED BY <2>1 DEF load_main
<1>3. \A l \in CallStates : Sound(<<>>, <<>>, args[l], NoIndices)
  BY EmptySound DEF VariantsInv, AllSound, Sound
<1>4. AllSound(slots', owned', args', held')
  <2>1. \A l \in CallStates : /\ slots'[l] = <<>> /\ owned'[l] = <<>> /\ args'[l] = args[l]
                              /\ held'[l] = NoIndices
    BY <1>1
  <2>2. IsLeveled(slots') /\ IsLeveled(owned') /\ IsLeveled(args') /\ IsLeveled(held')
    BY <1>1 DEF IsLeveled, VariantsInv, AllSound
  <2>3. IsPermanent(<<>>) /\ DOMAIN NoIndices = {}
    BY EmptySeq DEF IsPermanent, NoIndices
  <2> QED BY <1>3, <2>1, <2>2, <2>3, LevelsTyped DEF AllSound
<1>5. KeptIn(owned'[0], kept')
  BY <1>1 DEF KeptIn, NoIndices
<1> QED BY <1>1, <1>2, <1>4, <1>5, LevelsTyped DEF VariantsInv

LEMMA BeginKeeps ==
  ASSUME VariantsInv, NEW a \in HostArguments, vmcall_begins(a)
  PROVE  VariantsInv' /\ current' = current + 1 /\ args' = [args EXCEPT ![current + 1] = a]
<1> DEFINE l == current + 1
           s == [n \in 1..Len(a) |-> [owned |-> FALSE, storage |-> 0, pos |-> n]]
           h == [i \in 0..(Len(a) - 1) |-> a[i + 1]]
<1>1. /\ l < MaxStates /\ Len(a) <= capacity[l] /\ current' = l
      /\ owned' = [owned EXCEPT ![l] = <<>>]
      /\ slots' = [slots EXCEPT ![l] = s]
      /\ args' = [args EXCEPT ![l] = a]
      /\ held' = [held EXCEPT ![l] = h]
      /\ capacity' = capacity /\ max_refs' = max_refs /\ kept' = kept
  BY DEF vmcall_begins
<1>2. l \in CallStates /\ l # 0
  BY <1>1, VariantsAssumption DEF VariantsInv, CallStates
<1>3. a \in Seq(Values) /\ Len(a) <= DefaultMaxRefs
  BY <1>1, <1>2, VariantsAssumption DEF VariantsInv
<1>4. Sound(s, <<>>, a, h)
  BY <1>3, Begun DEF Sound
<1> HIDE DEF s, h
<1>5. AllSound(slots', owned', args', held')
  <2>1. AllSound(slots, owned, args, held)
    BY DEF VariantsInv
  <2> HIDE DEF l
  <2> QED BY <1>1, <1>2, <1>4, <2>1, LevelChanged
<1>6. owned'[0] = owned[0]
  BY <1>1, <1>2, LevelsTyped DEF VariantsInv, AllSound, IsLeveled
<1> QED BY <1>1, <1>2, <1>5, <1>6 DEF VariantsInv

LEMMA EndKeeps ==
  ASSUME VariantsInv, vmcall_ends
  PROVE  VariantsInv' /\ current' = current - 1 /\ args' = [args EXCEPT ![current] = <<>>]
<1>1. /\ current > 0 /\ current' = current - 1
      /\ args' = [args EXCEPT ![current] = <<>>]
      /\ held' = [held EXCEPT ![current] = NoIndices]
      /\ owned' = owned /\ slots' = slots
      /\ capacity' = capacity /\ max_refs' = max_refs /\ kept' = kept
  BY DEF vmcall_ends
<1>2. current \in CallStates /\ current # 0 /\ current' \in CallStates
  BY <1>1, VariantsAssumption DEF VariantsInv, CallStates
<1>3. AllSound(slots, owned, args, held)
  BY DEF VariantsInv
<1>4. Sound(slots[current], owned[current], <<>>, NoIndices)
  <2>1. <<>> \in Seq(Values)
    BY EmptySeq
  <2>2. Denotes(slots[current], owned[current], <<>>, NoIndices)
    BY DEF Denotes, NoIndices
  <2> QED BY <1>2, <1>3, <2>1, <2>2 DEF AllSound, Sound
<1>5. /\ [slots EXCEPT ![current] = slots[current]] = slots
      /\ [owned EXCEPT ![current] = owned[current]] = owned
  BY <1>2, <1>3, Same DEF AllSound
<1>6. AllSound([slots EXCEPT ![current] = slots[current]],
               [owned EXCEPT ![current] = owned[current]],
               [args EXCEPT ![current] = <<>>], [held EXCEPT ![current] = NoIndices])
  BY <1>2, <1>3, <1>4, LevelChanged
<1>7. AllSound(slots', owned', args', held')
  BY <1>1, <1>5, <1>6
<1> QED BY <1>1, <1>2, <1>7 DEF VariantsInv

LEMMA SetMaxRefsKeeps ==
  ASSUME VariantsInv, NeverRaised, NEW n \in ReferencesMax, set_max_refs(n)
  PROVE  VariantsInv'
<1>1. n \in Nat /\ n <= DefaultMaxRefs
  BY VariantsAssumption DEF NeverRaised
<1>2. capacity' = capacity
  <2>1. \A l \in CallStates : (IF n > capacity[l] THEN n ELSE capacity[l]) = DefaultMaxRefs
    BY <1>1, LevelsTyped DEF VariantsInv
  <2> QED BY <2>1 DEF set_max_refs, VariantsInv
<1>3. /\ max_refs' = n /\ current' = current /\ owned' = owned /\ slots' = slots
      /\ args' = args /\ held' = held /\ kept' = kept
  BY DEF set_max_refs
<1> QED BY <1>1, <1>2, <1>3 DEF VariantsInv

(* The guest stores through an index of this call, or of its globals.       *)
LEMMA HeldWritten ==
  ASSUME VariantsInv, NEW i \in DOMAIN held[current], NEW v \in Values,
         slots[current][i + 1].owned,
         owned' = [owned EXCEPT ![current][slots[current][i + 1].pos] = v],
         Remember(i, v), UNCHANGED <<current, capacity, slots, max_refs, args>>
  PROVE  VariantsInv'
<1> DEFINE s == slots[current]
           o == owned[current]
           a == args[current]
           h == held[current]
           o2 == [o EXCEPT ![s[i + 1].pos] = v]
<1>1. /\ current \in CallStates /\ current # 0
      /\ i \in Nat /\ i + 1 \in 1..Len(s)
  BY Lookup DEF VariantsInv
<1>2. AllSound(slots, owned, args, held) /\ Sound(s, o, a, h)
  BY <1>1 DEF VariantsInv, AllSound
<1>3. Sound(s, o2, a, WithIndex(h, i, v))
  <2>1. v \in Contents
    BY DEF Contents
  <2>2. o2 \in Seq(Contents) /\ WellPointed(s, o2)
    BY <1>1, <1>2, <2>1, Written DEF Sound
  <2>3. Denotes(s, o2, a, WithIndex(h, i, v))
    BY <1>1, <1>2, Written DEF Sound
  <2> QED BY <1>2, <2>2, <2>3 DEF Sound
<1>4. AllSound([slots EXCEPT ![current] = s], [owned EXCEPT ![current] = o2],
               [args EXCEPT ![current] = a], [held EXCEPT ![current] = WithIndex(h, i, v)])
  BY <1>1, <1>2, <1>3, LevelChanged
<1>5. [slots EXCEPT ![current] = s] = slots /\ [args EXCEPT ![current] = a] = args
  BY <1>1, <1>2, Same DEF AllSound
<1>6. owned' = [owned EXCEPT ![current] = o2]
  OBVIOUS
<1>7. held' = [held EXCEPT ![current] = WithIndex(h, i, v)] /\ kept' = kept
  BY <1>1 DEF Remember, is_permanent_variant
<1>8. AllSound(slots', owned', args', held')
  BY <1>4, <1>5, <1>6, <1>7
<1>9. owned'[0] = owned[0]
  BY <1>1, <1>2, <1>6, LevelsTyped DEF AllSound, IsLeveled
<1> QED BY <1>1, <1>7, <1>8, <1>9 DEF VariantsInv

LEMMA KeptWritten ==
  ASSUME VariantsInv, NEW i \in DOMAIN kept, NEW v \in Values,
         owned' = [owned EXCEPT ![0][-i] = v],
         Remember(i, v), UNCHANGED <<current, capacity, slots, max_refs, args>>
  PROVE  VariantsInv'
<1> DEFINE s == slots[0]
           o == owned[0]
           a == args[0]
           h == held[0]
           o2 == [o EXCEPT ![-i] = v]
<1>1. 0 \in CallStates /\ i \in Int /\ i < 0 /\ -i \in 1..Len(s)
  BY Lookup, LevelsTyped DEF VariantsInv
<1>2. /\ AllSound(slots, owned, args, held) /\ Sound(s, o, a, h) /\ KeptIn(o, kept)
      /\ IsPermanent(s) /\ DOMAIN h = {}
  BY <1>1 DEF VariantsInv, AllSound
<1>3. s[-i].owned /\ s[-i].pos = -i /\ Len(o) = Len(s)
  BY <1>1, <1>2, PermanentAligned DEF IsPermanent
<1>4. Sound(s, o2, a, h)
  <2> DEFINE j == -i - 1
  <2>1. j \in Nat /\ j + 1 = -i
    BY <1>1
  <2>2. v \in Contents
    BY DEF Contents
  <2> HIDE DEF j
  <2>3. o2 = [o EXCEPT ![s[j + 1].pos] = v]
    BY <1>3, <2>1
  <2>4. o2 \in Seq(Contents) /\ WellPointed(s, o2)
    <3>1. j + 1 \in 1..Len(s) /\ s[j + 1].owned
      BY <1>1, <1>3, <2>1
    <3>2. /\ s \in Seq(Pointers) /\ o \in Seq(Contents)
          /\ WellPointed(s, o) /\ Denotes(s, o, a, h)
      BY <1>2 DEF Sound
    <3> HIDE DEF s, o, a, h, o2
    <3>3. \A w \in Contents : /\ [o EXCEPT ![s[j + 1].pos] = w] \in Seq(Contents)
                              /\ WellPointed(s, [o EXCEPT ![s[j + 1].pos] = w])
      BY <2>1, <3>1, <3>2, Written
    <3> QED BY <2>2, <2>3, <3>3
  <2>5. Denotes(s, o2, a, h)
    BY <1>2 DEF Denotes
  <2> QED BY <1>2, <2>4, <2>5 DEF Sound
<1>5. AllSound([slots EXCEPT ![0] = s], [owned EXCEPT ![0] = o2],
               [args EXCEPT ![0] = a], [held EXCEPT ![0] = h])
  BY <1>1, <1>2, <1>4, LevelChanged
<1>6. /\ [slots EXCEPT ![0] = s] = slots /\ [args EXCEPT ![0] = a] = args
      /\ [held EXCEPT ![0] = h] = held
  BY <1>1, <1>2, Same DEF AllSound
<1>7. owned' = [owned EXCEPT ![0] = o2] /\ owned'[0] = o2
  BY <1>1, <1>2 DEF AllSound, IsLeveled
<1>8. held' = held /\ kept' = WithIndex(kept, i, v)
  BY <1>1 DEF Remember, is_permanent_variant
<1>9. AllSound(slots', owned', args', held')
  BY <1>5, <1>6, <1>7, <1>8
<1>10. KeptIn(owned'[0], kept')
  BY <1>1, <1>2, <1>3, <1>7, <1>8, KeptAssigned DEF Sound
<1> QED BY <1>9, <1>10 DEF VariantsInv

(* Where an index leads: to this call, or to the permanent state.           *)
LEMMA Places ==
  ASSUME VariantsInv
  PROVE  /\ \A i \in DOMAIN held[current] :
              /\ ~is_permanent_variant(i) /\ StateOf(current, i) = current
              /\ PositionOf(i) = i + 1
         /\ \A i \in DOMAIN kept :
              /\ is_permanent_variant(i) /\ StateOf(current, i) = 0 /\ PositionOf(i) = -i
              /\ slots[0][-i].owned /\ slots[0][-i].pos = -i
              /\ slots[0][-i].storage = capacity[0]
<1>1. current \in CallStates /\ 0 \in CallStates
  BY LevelsTyped DEF VariantsInv
<1>2. ASSUME NEW i \in DOMAIN held[current]
      PROVE  /\ ~is_permanent_variant(i) /\ StateOf(current, i) = current
             /\ PositionOf(i) = i + 1
  <2>1. i \in Nat
    BY <1>1, <1>2, Lookup
  <2> QED BY <2>1 DEF is_permanent_variant, StateOf, PositionOf
<1>3. ASSUME NEW i \in DOMAIN kept
      PROVE  /\ is_permanent_variant(i) /\ StateOf(current, i) = 0 /\ PositionOf(i) = -i
             /\ slots[0][-i].owned /\ slots[0][-i].pos = -i
             /\ slots[0][-i].storage = capacity[0]
  <2>1. i \in Int /\ i < 0 /\ -i \in 1..Len(slots[0])
    BY <1>1, <1>3, Lookup
  <2>2. slots[0][-i].owned /\ slots[0][-i].pos = -i
    BY <2>1 DEF VariantsInv, AllSound, IsPermanent
  <2>3. slots[0][-i] = Own(slots[0][-i].pos)
    BY <1>1, <2>1, <2>2 DEF VariantsInv, AllSound, Sound, WellPointed
  <2>4. slots[0][-i].storage = DefaultMaxRefs /\ capacity[0] = DefaultMaxRefs
    BY <1>1, <2>3, OwnFields DEF VariantsInv
  <2> QED BY <2>1, <2>2, <2>4 DEF is_permanent_variant, StateOf, PositionOf
<1> QED BY <1>2, <1>3

LEMMA AssignKeeps ==
  ASSUME VariantsInv, NEW i \in DOMAIN held[current] \cup DOMAIN kept, NEW v \in Values,
         try_reuse_assign_variant(i, v)
  PROVE  VariantsInv' /\ args' = args
<1>1. CASE /\ is_permanent_variant(i)
           /\ owned' = [owned EXCEPT ![0][PositionOf(i)] = v]
           /\ Remember(i, v)
           /\ UNCHANGED <<current, main_runs, capacity, slots, max_refs, args>>
  <2>1. i \in DOMAIN kept /\ PositionOf(i) = -i
    BY <1>1, Places
  <2> QED BY <1>1, <2>1, KeptWritten
<1>2. CASE /\ ~is_permanent_variant(i)
           /\ is_mutable_variant(StateOf(current, i),
                                 slots[StateOf(current, i)][PositionOf(i)])
           /\ Write(StateOf(current, i), slots[StateOf(current, i)][PositionOf(i)], v)
           /\ Remember(i, v)
           /\ UNCHANGED <<current, main_runs, capacity, slots, max_refs>>
  <2>1. i \in DOMAIN held[current] /\ PositionOf(i) = i + 1 /\ StateOf(current, i) = current
    BY <1>2, Places
  <2>2. slots[current][i + 1].owned
    BY <1>2, <2>1 DEF is_mutable_variant
  <2>3. /\ owned' = [owned EXCEPT ![current][slots[current][i + 1].pos] = v]
        /\ args' = args
    BY <1>2, <2>1, <2>2 DEF Write
  <2> QED BY <1>2, <2>1, <2>2, <2>3, HeldWritten
<1>3. CASE create_scoped_variant(v)
  BY <1>3, CreateKeeps
<1> QED BY <1>1, <1>2, <1>3 DEF try_reuse_assign_variant

LEMMA MutableKeeps ==
  ASSUME VariantsInv, NEW i \in DOMAIN held[current] \cup DOMAIN kept, NEW v \in Values,
         get_mutable_scoped_variant(i, v)
  PROVE  VariantsInv' /\ args' = args
<1> DEFINE st == StateOf(current, i)
           p == slots[st][PositionOf(i)]
<1>1. CASE is_mutable_variant(st, p) /\ Write(st, p, v) /\ UNCHANGED slots
  <2>1. p.owned /\ owned' = [owned EXCEPT ![st][p.pos] = v] /\ args' = args
    BY <1>1 DEF is_mutable_variant, Write
  <2>2. /\ Remember(i, v) /\ current' = current /\ capacity' = capacity
        /\ slots' = slots /\ max_refs' = max_refs
    BY <1>1 DEF get_mutable_scoped_variant
  <2>3. CASE i \in DOMAIN held[current]
    <3>1. st = current /\ p = slots[current][i + 1]
      BY <2>3, Places
    <3>2. /\ slots[current][i + 1].owned
          /\ owned' = [owned EXCEPT ![current][slots[current][i + 1].pos] = v]
      BY <2>1, <3>1
    <3> HIDE DEF st, p
    <3> QED BY <2>1, <2>2, <2>3, <3>2, HeldWritten
  <2>4. CASE i \in DOMAIN kept
    <3>1. st = 0 /\ p.pos = -i
      BY <2>4, Places
    <3>2. owned' = [owned EXCEPT ![0][-i] = v]
      BY <2>1, <3>1
    <3> HIDE DEF st, p
    <3> QED BY <2>1, <2>2, <2>4, <3>2, KeptWritten
  <2> QED BY <2>3, <2>4
<1>2. CASE /\ ~is_mutable_variant(st, p)
           /\ owned' = [owned EXCEPT ![st] = Append(@, v)]
           /\ slots' = [slots EXCEPT ![st][PositionOf(i)] = Owning(st, Len(owned[st]) + 1)]
           /\ UNCHANGED args
  <2> DEFINE s == slots[current]
             o == owned[current]
             a == args[current]
             h == held[current]
             s2 == [s EXCEPT ![i + 1] = Own(Len(o) + 1)]
             o2 == Append(o, v)
  <2>1. i \in DOMAIN held[current]
    <3>1. i \notin DOMAIN kept
      BY <1>2, Places DEF is_mutable_variant
    <3> QED BY <3>1
  <2>2. st = current /\ PositionOf(i) = i + 1
    BY <2>1, Places
  <2>3. /\ current \in CallStates /\ current # 0 /\ i \in Nat /\ i + 1 \in 1..Len(s)
        /\ capacity[current] = DefaultMaxRefs
    BY <2>1, Lookup DEF VariantsInv
  <2>4. AllSound(slots, owned, args, held) /\ Sound(s, o, a, h)
    BY <2>3 DEF VariantsInv, AllSound
  <2>5. ~s[i + 1].owned
    <3>1. s[i + 1].owned => s[i + 1] = Own(s[i + 1].pos)
      BY <2>3, <2>4 DEF Sound, WellPointed
    <3>2. s[i + 1].owned => s[i + 1].storage = capacity[current]
      BY <2>3, <3>1, OwnFields
    <3> QED BY <1>2, <2>2, <3>2 DEF is_mutable_variant
  <2>6. Sound(s2, o2, a, WithIndex(h, i, v))
    BY <2>3, <2>4, <2>5, Copied DEF Sound
  <2>7. AllSound([slots EXCEPT ![current] = s2], [owned EXCEPT ![current] = o2],
                 [args EXCEPT ![current] = a], [held EXCEPT ![current] = WithIndex(h, i, v)])
    BY <2>3, <2>4, <2>6, LevelChanged
  <2>8. [args EXCEPT ![current] = a] = args
    BY <2>3, <2>4, Same DEF AllSound
  <2>9. Owning(current, Len(o) + 1) = Own(Len(o) + 1)
    BY <2>3 DEF Owning, Own
  <2>10. slots' = [slots EXCEPT ![current] = s2] /\ owned' = [owned EXCEPT ![current] = o2]
    BY <1>2, <2>2, <2>9
  <2>11. /\ Remember(i, v) /\ current' = current /\ capacity' = capacity
         /\ max_refs' = max_refs
    BY DEF get_mutable_scoped_variant
  <2>12. held' = [held EXCEPT ![current] = WithIndex(h, i, v)] /\ kept' = kept
    BY <2>3, <2>11 DEF Remember, is_permanent_variant
  <2>13. AllSound(slots', owned', args', held')
    BY <1>2, <2>7, <2>8, <2>10, <2>12
  <2>14. owned'[0] = owned[0]
    BY <2>3, <2>4, <2>10, LevelsTyped DEF AllSound, IsLeveled
  <2> QED BY <1>2, <2>11, <2>12, <2>13, <2>14 DEF VariantsInv
<1> QED BY <1>1, <1>2 DEF get_mutable_scoped_variant

LEMMA PermanentKeeps ==
  ASSUME VariantsInv, ~KeepsOverflow, NEW i \in DOMAIN held[current] \cup DOMAIN kept,
         create_permanent_variant(i)
  PROVE  VariantsInv' /\ args' = args
<1> DEFINE s == slots[current]
           o == owned[current]
           a == args[current]
           h == held[current]
           p == s[i + 1]
           v == get_scoped_variant(current, i)
           moves == is_mutable_variant(current, p)
           o1 == IF p.owned THEN [o EXCEPT ![p.pos] = Nil] ELSE o
           h1 == IF p.owned THEN WithoutIndex(h, i) ELSE h
           sp == slots[0]
           op == owned[0]
           s2 == Append(sp, Own(Len(op) + 1))
           o2 == Append(op, v)
<1>1. i \in DOMAIN held[current]
  BY Places DEF create_permanent_variant
<1>2. /\ current \in CallStates /\ current # 0 /\ 0 \in CallStates
      /\ i \in Nat /\ i + 1 \in 1..Len(s) /\ PositionOf(i) = i + 1
      /\ v \in Values
      /\ capacity[current] = DefaultMaxRefs /\ capacity[0] = DefaultMaxRefs
  BY <1>1, Lookup, Places, LevelsTyped DEF VariantsInv
<1>3. /\ AllSound(slots, owned, args, held)
      /\ Sound(s, o, a, h) /\ Sound(sp, op, args[0], held[0])
      /\ IsPermanent(sp) /\ DOMAIN held[0] = {} /\ KeptIn(op, kept)
  BY <1>2 DEF VariantsInv, AllSound
<1>4. moves <=> p.owned
  <2>1. p.owned => p = Own(p.pos)
    BY <1>2, <1>3 DEF Sound, WellPointed
  <2>2. p.owned => p.storage = capacity[current]
    BY <1>2, <2>1, OwnFields
  <2> QED BY <2>2 DEF is_mutable_variant
<1>5. current' = current /\ capacity' = capacity /\ max_refs' = max_refs
  BY DEF create_permanent_variant
<1>6. CASE UNCHANGED <<owned, slots, args, held, kept>>
  BY <1>5, <1>6 DEF VariantsInv
<1>7. CASE /\ Len(op) < capacity[0]
           /\ owned' = [owned EXCEPT ![current] = o1, ![0] = o2]
           /\ args' = [args EXCEPT ![current] = a]
           /\ PushSlot(0)
           /\ kept' = WithIndex(kept, -(Len(op) + 1), v)
           /\ held' = IF moves THEN [held EXCEPT ![current] = WithoutIndex(h, i)] ELSE held
  <2>1. Sound(s, o1, a, h1)
    <3>1. CASE p.owned
      <4>1. Nil \in Contents
        BY DEF Contents
      <4>2. /\ [o EXCEPT ![p.pos] = Nil] \in Seq(Contents)
            /\ WellPointed(s, [o EXCEPT ![p.pos] = Nil])
            /\ Denotes(s, [o EXCEPT ![p.pos] = Nil], a, WithoutIndex(h, i))
        BY <1>2, <1>3, <3>1, <4>1, Written DEF Sound
      <4> QED BY <1>3, <3>1, <4>2 DEF Sound
    <3>2. CASE ~p.owned
      BY <1>3, <3>2
    <3> QED BY <3>1, <3>2
  <2> HIDE DEF o1, h1
  <2> DEFINE ow1 == [owned EXCEPT ![current] = o1]
             he1 == [held EXCEPT ![current] = h1]
  <2>2. AllSound([slots EXCEPT ![current] = s], ow1, [args EXCEPT ![current] = a], he1)
    BY <1>2, <1>3, <2>1, LevelChanged
  <2>3. [slots EXCEPT ![current] = s] = slots /\ [args EXCEPT ![current] = a] = args
    BY <1>2, <1>3, Same DEF AllSound
  <2>4. AllSound(slots, ow1, args, he1)
    BY <2>2, <2>3
  <2>5. ow1[0] = op /\ he1[0] = held[0] /\ DOMAIN ow1 = CallStates
    BY <1>2, <1>3 DEF AllSound, IsLeveled
  <2>6. Len(sp) < DefaultMaxRefs
    BY <1>2, <1>3, <1>7, PermanentAligned
  <2>7. Sound(s2, o2, args[0], held[0]) /\ IsPermanent(s2)
    BY <1>2, <1>3, <2>6, LevelAppended
  <2> HIDE DEF v, ow1, he1
  <2>8. AllSound([slots EXCEPT ![0] = s2], [ow1 EXCEPT ![0] = o2],
                 [args EXCEPT ![0] = args[0]], [he1 EXCEPT ![0] = held[0]])
    BY <1>2, <1>3, <2>4, <2>7, LevelChanged
  <2>9. [args EXCEPT ![0] = args[0]] = args /\ [he1 EXCEPT ![0] = held[0]] = he1
    BY <1>2, <2>4, <2>5, Same DEF AllSound
  <2>10. owned' = [ow1 EXCEPT ![0] = o2] /\ owned'[0] = o2
    BY <1>2, <1>7, <2>5 DEF ow1
  <2>11. slots' = [slots EXCEPT ![0] = s2]
    BY <1>2, <1>7 DEF PushSlot, Owning, Own
  <2>12. held' = he1
    <3>1. held = [held EXCEPT ![current] = h]
      BY <1>2, <1>3, Same DEF AllSound
    <3> QED BY <1>4, <1>7, <3>1 DEF he1, h1
  <2>13. AllSound(slots', owned', args', held')
    BY <1>7, <2>3, <2>8, <2>9, <2>10, <2>11, <2>12
  <2>14. KeptIn(owned'[0], kept')
    <3>1. op \in Seq(Contents)
      BY <1>3 DEF Sound
    <3>2. KeptIn(o2, WithIndex(kept, -(Len(op) + 1), v))
      BY <1>2, <1>3, <3>1, KeptAppended
    <3> QED BY <1>7, <2>10, <3>2
  <2> QED BY <1>5, <1>7, <2>3, <2>13, <2>14 DEF VariantsInv
<1>8. QED
  <2>1. v = get_scoped_variant(current, i) /\ p = slots[current][PositionOf(i)]
    BY <1>2
  <2>2. CASE UNCHANGED <<owned, slots, args, held>>
             /\ kept' = IF KeepsOverflow THEN WithIndex(kept, i, v) ELSE kept
    BY <1>6, <2>2
  <2>3. CASE /\ Len(owned[0]) < capacity[0]
             /\ owned' = [owned EXCEPT ![current] =
                                         IF moves /\ p.owned
                                         THEN [@ EXCEPT ![p.pos] = Nil] ELSE @,
                                       ![0] = Append(@, v)]
             /\ args' = [args EXCEPT ![current] =
                                       IF moves /\ ~p.owned
                                       THEN [@ EXCEPT ![p.pos] = Nil] ELSE @]
             /\ PushSlot(0)
             /\ kept' = WithIndex(kept, -(Len(owned[0]) + 1), v)
             /\ held' = IF moves THEN [held EXCEPT ![current] = WithoutIndex(@, i)] ELSE held
    <3>1. args' = [args EXCEPT ![current] = a]
      BY <1>4, <2>3
    <3>2. owned' = [owned EXCEPT ![current] = o1, ![0] = o2]
      <4>1. (IF moves /\ p.owned THEN [o EXCEPT ![p.pos] = Nil] ELSE o) = o1
        BY <1>4
      <4>2. [owned EXCEPT ![current] = o1][0] = owned[0]
        BY <1>2, <1>3 DEF AllSound, IsLeveled
      <4> HIDE DEF o1, v, p, moves
      <4> QED BY <2>3, <4>1, <4>2
    <3> HIDE DEF o1, v, moves
    <3> QED BY <1>7, <2>3, <3>1, <3>2
  <2> HIDE DEF v, moves, o1, h1
  <2> QED BY <1>2, <2>1, <2>2, <2>3 DEF create_permanent_variant, v, moves

-----------------------------------------------------------------------------
(* Every step keeps the invariant, and what the host passed.                *)
HostKept == \A l \in 1..MaxStates : l <= current /\ l <= current' => args'[l] = args[l]

LEMMA StepKeeps ==
  ASSUME VariantsInv, NeverRaised, ~KeepsOverflow, [VariantsNext]_variants_vars
  PROVE  VariantsInv' /\ HostKept
<1>1. current \in CallStates /\ DOMAIN args = CallStates
  BY DEF VariantsInv, AllSound, IsLeveled
<1>2. ASSUME args' = args PROVE HostKept
  BY <1>2 DEF HostKept
<1>3. CASE load_main
  BY <1>2, <1>3, LoadKeeps DEF load_main
<1>4. CASE main_returns
  BY <1>2, <1>4 DEF main_returns, VariantsInv
<1>5. ASSUME NEW a \in HostArguments, vmcall_begins(a) PROVE VariantsInv' /\ HostKept
  <2>1. VariantsInv' /\ args' = [args EXCEPT ![current + 1] = a] /\ current + 1 < MaxStates
    BY <1>5, BeginKeeps DEF vmcall_begins
  <2>2. \A l \in 1..MaxStates : l <= current => l \in CallStates /\ l # current + 1
    BY <1>1, VariantsAssumption DEF CallStates
  <2> QED BY <1>1, <2>1, <2>2 DEF HostKept
<1>6. CASE vmcall_ends
  <2>1. /\ VariantsInv' /\ current' = current - 1
        /\ args' = [args EXCEPT ![current] = <<>>]
    BY <1>6, EndKeeps
  <2>2. \A l \in 1..MaxStates : l <= current - 1 => l # current
    BY <1>1, LevelsTyped
  <2> QED BY <1>1, <2>1, <2>2 DEF HostKept
<1>7. ASSUME NEW n \in ReferencesMax, set_max_refs(n) PROVE VariantsInv' /\ HostKept
  BY <1>2, <1>7, SetMaxRefsKeeps DEF set_max_refs
<1>8. CASE GuestStep
  <2>1. CASE \E v \in Values : create_scoped_variant(v)
    BY <1>2, <2>1, CreateKeeps
  <2>2. ASSUME NEW i \in DOMAIN held[current] \cup DOMAIN kept, clone(i)
        PROVE  VariantsInv' /\ HostKept
    <3>1. get_scoped_variant(current, i) \in Values
      BY <1>1, Lookup
    <3>2. create_scoped_variant(get_scoped_variant(current, i))
      BY <2>2 DEF clone
    <3> QED BY <1>2, <3>1, <3>2, CreateKeeps
  <2>3. ASSUME NEW i \in DOMAIN held[current] \cup DOMAIN kept, create_permanent_variant(i)
        PROVE  VariantsInv' /\ HostKept
    BY <1>2, <2>3, PermanentKeeps
  <2>4. ASSUME NEW i \in DOMAIN held[current] \cup DOMAIN kept, NEW v \in Values,
               try_reuse_assign_variant(i, v)
        PROVE  VariantsInv' /\ HostKept
    BY <1>2, <2>4, AssignKeeps
  <2>5. ASSUME NEW i \in DOMAIN held[current] \cup DOMAIN kept, NEW v \in Values,
               get_mutable_scoped_variant(i, v)
        PROVE  VariantsInv' /\ HostKept
    BY <1>2, <2>5, MutableKeeps
  <2> QED BY <1>8, <2>1, <2>2, <2>3, <2>4, <2>5 DEF GuestStep
<1>9. CASE UNCHANGED variants_vars
  BY <1>2, <1>9 DEF variants_vars, VariantsInv
<1> QED BY <1>3, <1>4, <1>5, <1>6, <1>7, <1>8, <1>9 DEF VariantsNext

THEOREM InvHolds ==
  ASSUME NeverRaised, ~KeepsOverflow
  PROVE  VariantsSpec => []VariantsInv
<1>1. VariantsInv /\ [VariantsNext]_variants_vars => VariantsInv'
  BY StepKeeps
<1> QED BY <1>1, InitHolds, PTL DEF VariantsSpec

(* IndicesMeanWhatWasStored: every index a call holds, and every index in   *)
(* the program's globals, denotes what the guest last stored under it.      *)
THEOREM IndicesAlwaysMeanWhatWasStored ==
  ASSUME NeverRaised, ~KeepsOverflow
  PROVE  VariantsSpec => []IndicesMeanWhatWasStored
<1>1. ASSUME VariantsInv PROVE IndicesMeanWhatWasStored
  <2>1. current \in CallStates /\ \A l \in 1..current : l \in CallStates
    BY <1>1, VariantsAssumption DEF VariantsInv, CallStates
  <2> QED BY <1>1, <2>1, Lookup DEF IndicesMeanWhatWasStored
<1> QED BY <1>1, InvHolds, PTL

(* StorageFits: no vector outgrows its reserved storage, and the two of the *)
(* permanent state are aligned.                                             *)
THEOREM StorageAlwaysFits ==
  ASSUME NeverRaised, ~KeepsOverflow
  PROVE  VariantsSpec => []StorageFits
<1>1. ASSUME VariantsInv PROVE StorageFits
  <2>1. \A l \in CallStates : Sound(slots[l], owned[l], args[l], held[l])
    BY <1>1 DEF VariantsInv, AllSound
  <2>2. \A l \in CallStates : Len(owned[l]) <= Len(slots[l]) /\ Len(slots[l]) <= capacity[l]
    BY <1>1, <2>1, OwnedFit DEF VariantsInv, Sound
  <2>3. IsPermanent(slots[0]) /\ Len(slots[0]) = Len(owned[0])
    BY <1>1, <2>1, LevelsTyped, PermanentAligned DEF VariantsInv, AllSound
  <2> QED BY <2>2, <2>3 DEF StorageFits, IsPermanent
<1> QED BY <1>1, InvHolds, PTL

(* HostArgumentsAreReadOnly: no step changes an argument of a call that is  *)
(* in progress before and after it.                                         *)
THEOREM HostArgumentsAreNeverWritten ==
  ASSUME NeverRaised, ~KeepsOverflow
  PROVE  VariantsSpec => HostArgumentsAreReadOnly
<1>1. ASSUME VariantsInv, [VariantsNext]_variants_vars
      PROVE  [ \A l \in 1..MaxStates : l <= current /\ l <= current'
                                       => args'[l] = args[l] ]_variants_vars
  BY <1>1, StepKeeps DEF HostKept
<1> QED BY <1>1, InvHolds, PTL DEF VariantsSpec, HostArgumentsAreReadOnly

-----------------------------------------------------------------------------
(* Objects.                                                                 *)

(* What the engine, the references and the allow list have to be like.  The *)
(* last two conjuncts carry the argument: whatever is referred to is alive, *)
(* and an entry of the allow list tells the one address its object has had, *)
(* which is why comparing addresses is sound while the object is alive.     *)
Engine ==
  /\ memory \in [Addresses -> Objects \cup {None}]
  /\ \A a, b \in Addresses : memory[a] = memory[b] /\ memory[a] # None => a = b
  /\ \A a \in Addresses : memory[a] # None => memory[a] \in created

Counted ==
  /\ host_refs \subseteq RefCounteds /\ allowed_refs \subseteq RefCounteds
  /\ scoped_refs \in [Levels -> SUBSET RefCounteds]
  /\ arguments \in [Levels -> SUBSET RefCounteds]
  /\ level \in Levels
  /\ Referenced \subseteq Alive

Listed ==
  /\ DOMAIN allowed_objects \subseteq Objects \cap created
  /\ \A o \in DOMAIN allowed_objects :
       /\ allowed_objects[o] \in Addresses
       /\ \A a \in Addresses : memory[a] = o => allowed_objects[o] = a
  /\ DOMAIN allowed_objects \cap RefCounteds \subseteq allowed_refs

SoundObjects == Engine /\ Counted /\ Listed

LEMMA ReferencedMembers ==
  \A r : r \in Referenced <=>
           \/ r \in host_refs \/ r \in allowed_refs
           \/ \E l \in Levels : r \in scoped_refs[l] \/ r \in arguments[l]
BY DEF Referenced

LEMMA ReferencedMembersNext ==
  \A r : r \in Referenced' <=>
           \/ r \in host_refs' \/ r \in allowed_refs'
           \/ \E l \in Levels : r \in scoped_refs'[l] \/ r \in arguments'[l]
BY DEF Referenced

(* The only object at an address is found there. *)
LEMMA AddressOfAlive ==
  ASSUME Engine, NEW o \in Alive
  PROVE  AddressOf(o) \in Addresses /\ memory[AddressOf(o)] = o /\ o # None
<1>1. PICK a \in Addresses : memory[a] = o /\ o # None
  BY DEF Alive
<1> QED BY <1>1 DEF AddressOf

(* Release takes nothing away but what nobody refers to. *)
LEMMA ReleaseKeeps ==
  ASSUME Engine, Release
  PROVE  /\ memory' \in [Addresses -> Objects \cup {None}]
         /\ \A a \in Addresses :
              \/ memory'[a] = memory[a]
              \/ /\ memory'[a] = None /\ memory[a] \in RefCounteds
                 /\ memory[a] \notin Referenced'
BY DEF Engine, Release

(* Nothing new comes into memory: the engine's part survives. *)
LEMMA EngineShrinks ==
  ASSUME Engine, memory' \in [Addresses -> Objects \cup {None}],
         \A a \in Addresses : memory'[a] = memory[a] \/ memory'[a] = None,
         created' = created
  PROVE  Engine'
BY DEF Engine

LEMMA NoneIsNoObject == None \notin Nodes /\ None \notin RefCounteds
BY ObjectsAssumption DEF Objects

(* After a Release everything referred to is still alive, if it was before. *)
LEMMA ReleasedAlive ==
  ASSUME Engine, Release, Referenced' \subseteq Alive, Referenced' \subseteq RefCounteds
  PROVE  Referenced' \subseteq Alive'
<1> SUFFICES ASSUME NEW r \in Referenced' PROVE r \in Alive'
  OBVIOUS
<1>1. PICK a \in Addresses : memory[a] = r /\ r # None
  BY DEF Alive
<1>2. memory'[a] = r
  BY <1>1, ReleaseKeeps
<1> QED BY <1>1, <1>2 DEF Alive

-----------------------------------------------------------------------------
LEMMA SoundInit == Init => SoundObjects
<1> SUFFICES ASSUME Init PROVE SoundObjects
  OBVIOUS
<1>1. Engine
  BY DEF Init, Engine
<1>2. Counted
  <2>1. Referenced = {}
    BY DEF Init, Referenced
  <2>2. 0 \in Levels
    BY ObjectsAssumption DEF Levels
  <2> QED BY <2>1, <2>2 DEF Init, Counted
<1>3. Listed
  BY DEF Init, Listed, Nothing
<1> QED BY <1>1, <1>2, <1>3 DEF SoundObjects

(* The engine's part is kept by every step. *)
LEMMA EngineStep == SoundObjects /\ [Next]_vars => Engine'
<1> SUFFICES ASSUME SoundObjects, [Next]_vars PROVE Engine'
  OBVIOUS
<1>0. Engine
  BY DEF SoundObjects
<1>1. ASSUME NEW o \in Objects, NEW a \in Addresses, new_object(o, a)
      PROVE  Engine'
  BY <1>0, <1>1, NoneIsNoObject DEF new_object, Engine, Objects
<1>2. ASSUME NEW o \in Nodes, free_node(o) PROVE Engine'
  <2>1. AddressOf(o) \in Addresses
    BY <1>0, <1>2, AddressOfAlive DEF free_node
  <2>2. /\ memory' \in [Addresses -> Objects \cup {None}] /\ created' = created
        /\ \A a \in Addresses : memory'[a] = memory[a] \/ memory'[a] = None
    BY <1>0, <1>2, <2>1 DEF free_node, Engine
  <2> QED BY <1>0, <2>2, EngineShrinks
<1>3. CASE Release /\ created' = created
  <2>1. /\ memory' \in [Addresses -> Objects \cup {None}]
        /\ \A a \in Addresses : memory'[a] = memory[a] \/ memory'[a] = None
    BY <1>0, <1>3, ReleaseKeeps
  <2> QED BY <1>0, <1>3, <2>1, EngineShrinks
<1>4. CASE UNCHANGED <<memory, created>>
  BY <1>0, <1>4 DEF Engine
<1>5. CASE \E S \in SUBSET Objects : begin_call(S)
  BY <1>3, <1>5 DEF begin_call
<1>6. CASE end_call \/ full_reset
  BY <1>3, <1>6 DEF end_call, full_reset
<1>7. CASE (\E o \in Objects : create(o)) \/ (\E a \in Addresses : resolve_scoped_object(a))
  BY <1>4, <1>7 DEF create, resolve_scoped_object, engine
<1>8. CASE HostStep
  <2>1. CASE \E o \in Objects : add_allowed_object(o)
    BY <1>4, <2>1 DEF add_allowed_object, Unaltered
  <2>2. CASE \E o \in Objects : remove_allowed_object(o)
    BY <1>3, <2>2 DEF remove_allowed_object, Unaltered
  <2>3. CASE \E o \in host_refs : drop_reference(o)
    BY <1>3, <2>3 DEF drop_reference
  <2>4. CASE clear_allowed_objects
    BY <1>3, <2>4 DEF clear_allowed_objects, Unaltered
  <2>5. CASE \E c \in {"none", "asks"} : set_object_allowed_callback(c)
    BY <1>4, <2>5 DEF set_object_allowed_callback, Unaltered
  <2>6. CASE \E enable \in BOOLEAN : set_restrictions(enable)
    BY <1>4, <2>6 DEF set_restrictions, Unaltered
  <2> QED BY <1>1, <1>2, <1>8, <2>1, <2>2, <2>3, <2>4, <2>5, <2>6 DEF HostStep
<1>9. CASE UNCHANGED vars
  BY <1>4, <1>9 DEF vars, engine
<1> QED BY <1>5, <1>6, <1>7, <1>8, <1>9 DEF Next

-----------------------------------------------------------------------------
(* Only RefCounted objects are referred to. *)
LEMMA CountedTypes ==
  SoundObjects /\ [Next]_vars =>
    /\ host_refs' \subseteq RefCounteds /\ allowed_refs' \subseteq RefCounteds
    /\ scoped_refs' \in [Levels -> SUBSET RefCounteds]
    /\ arguments' \in [Levels -> SUBSET RefCounteds]
    /\ level' \in Levels
<1> DEFINE Typed == /\ host_refs \subseteq RefCounteds
                    /\ allowed_refs \subseteq RefCounteds
                    /\ scoped_refs \in [Levels -> SUBSET RefCounteds]
                    /\ arguments \in [Levels -> SUBSET RefCounteds]
                    /\ level \in Levels
<1> SUFFICES ASSUME SoundObjects, [Next]_vars PROVE Typed'
  OBVIOUS
<1>0. Typed
  BY DEF SoundObjects, Counted
<1>1. ASSUME NEW S \in SUBSET Objects, begin_call(S) PROVE Typed'
  <2>1. level + 1 \in Levels /\ level' = level + 1
    BY <1>0, <1>1, ObjectsAssumption DEF begin_call, Levels
  <2>2. /\ host_refs' = host_refs /\ allowed_refs' = allowed_refs
        /\ scoped_refs' = [scoped_refs EXCEPT ![level + 1] = {}]
        /\ arguments' = [arguments EXCEPT ![level + 1] = S \cap RefCounteds]
    BY <1>1 DEF begin_call, restrictions
  <2> QED BY <1>0, <2>1, <2>2
<1>2. CASE end_call
  <2>1. level - 1 \in Levels
    BY <1>0, <1>2, ObjectsAssumption DEF end_call, Levels
  <2> QED BY <1>0, <1>2, <2>1 DEF end_call, restrictions
<1>3. CASE full_reset
  BY <1>0, <1>3 DEF full_reset, restrictions
<1>4. ASSUME NEW o \in Objects, create(o) PROVE Typed'
  BY <1>0, <1>4 DEF create, add_scoped_object, engine, restrictions
<1>5. ASSUME NEW a \in Addresses, resolve_scoped_object(a) PROVE Typed'
  BY <1>0, <1>5 DEF resolve_scoped_object, engine, restrictions
<1>6. CASE HostStep
  BY <1>0, <1>6 DEF HostStep, new_object, drop_reference, free_node,
     add_allowed_object, remove_allowed_object, clear_allowed_objects,
     set_object_allowed_callback, set_restrictions, Unaltered, restrictions
<1>7. CASE UNCHANGED vars
  BY <1>0, <1>7 DEF vars, engine, restrictions
<1> QED BY <1>1, <1>2, <1>3, <1>4, <1>5, <1>6, <1>7 DEF Next

(* What is referred to after a step was alive, or is an object made by it.  *)
LEMMA ReferencedStep ==
  SoundObjects /\ Next => \A r \in Referenced' : r \in Alive \/ \E a \in Addresses : new_object(r, a)
<1> SUFFICES ASSUME SoundObjects, Next, NEW r \in Referenced', r \notin Referenced
             PROVE  r \in Alive \/ \E a \in Addresses : new_object(r, a)
  BY DEF SoundObjects, Counted
<1>0. /\ scoped_refs \in [Levels -> SUBSET RefCounteds]
      /\ arguments \in [Levels -> SUBSET RefCounteds]
      /\ level \in Levels
  BY DEF SoundObjects, Counted
<1> USE ReferencedMembers, ReferencedMembersNext
<1>1. ASSUME NEW S \in SUBSET Objects, begin_call(S) PROVE r \in Alive
  <2>1. /\ host_refs' = host_refs /\ allowed_refs' = allowed_refs
        /\ scoped_refs' = [scoped_refs EXCEPT ![level + 1] = {}]
        /\ arguments' = [arguments EXCEPT ![level + 1] = S \cap RefCounteds]
        /\ S \subseteq Alive
    BY <1>1 DEF begin_call, restrictions
  <2>2. \A l \in Levels : r \in scoped_refs'[l] => r \in scoped_refs[l]
    BY <1>0, <2>1
  <2>3. \A l \in Levels : r \in arguments'[l] => r \in arguments[l] \/ r \in S
    BY <1>0, <2>1
  <2> QED BY <2>1, <2>2, <2>3
<1>2. CASE end_call
  BY <1>0, <1>2 DEF end_call, restrictions
<1>3. CASE full_reset
  BY <1>0, <1>3 DEF full_reset, restrictions
<1>4. ASSUME NEW o \in Objects, create(o) PROVE r \in Alive
  <2>1. /\ host_refs' = host_refs /\ allowed_refs' = allowed_refs
        /\ arguments' = arguments /\ o \in Alive
    BY <1>4 DEF create, engine, restrictions
  <2>2. \A l \in Levels : r \in scoped_refs'[l] => r \in scoped_refs[l] \/ r = o
    BY <1>0, <1>4 DEF create, add_scoped_object
  <2> QED BY <2>1, <2>2
<1>5. ASSUME NEW a \in Addresses, resolve_scoped_object(a) PROVE FALSE
  BY <1>5 DEF resolve_scoped_object, engine, restrictions
<1>6. CASE HostStep
  <2>1. ASSUME NEW o \in Objects, NEW a \in Addresses, new_object(o, a)
        PROVE  r = o
    BY <2>1 DEF new_object, restrictions
  <2>2. ASSUME NEW o \in Objects, add_allowed_object(o) PROVE r \in Alive
    BY <2>2 DEF add_allowed_object, Unaltered
  <2>3. ASSUME NEW o \in Objects, remove_allowed_object(o) PROVE FALSE
    BY <2>3 DEF remove_allowed_object, Unaltered
  <2>4. ASSUME NEW o \in host_refs, drop_reference(o) PROVE FALSE
    BY <2>4 DEF drop_reference, restrictions
  <2>5. ASSUME NEW o \in Nodes, free_node(o) PROVE FALSE
    BY <2>5 DEF free_node, restrictions
  <2>6. CASE clear_allowed_objects
    BY <2>6 DEF clear_allowed_objects, Unaltered
  <2>7. ASSUME NEW c \in {"none", "asks"}, set_object_allowed_callback(c)
        PROVE  FALSE
    BY <2>7 DEF set_object_allowed_callback, Unaltered
  <2>8. ASSUME NEW enable \in BOOLEAN, set_restrictions(enable) PROVE FALSE
    BY <2>8 DEF set_restrictions, Unaltered
  <2> QED BY <1>6, <2>1, <2>2, <2>3, <2>4, <2>5, <2>6, <2>7, <2>8 DEF HostStep
<1> QED BY <1>1, <1>2, <1>3, <1>4, <1>5, <1>6 DEF Next

(* A step leaves memory as it is, releases, frees a node or makes an object. *)
LEMMA MemoryStep ==
  [Next]_vars => \/ Release \/ memory' = memory
                 \/ \E o \in Nodes : free_node(o)
                 \/ \E o \in Objects, a \in Addresses : new_object(o, a)
BY DEF Next, HostStep, vars, engine, drop_reference, begin_call, end_call, full_reset,
   create, resolve_scoped_object, add_allowed_object, remove_allowed_object,
   clear_allowed_objects, set_object_allowed_callback, set_restrictions, Unaltered

LEMMA CountedStep == SoundObjects /\ [Next]_vars => Counted'
<1> SUFFICES ASSUME SoundObjects, [Next]_vars PROVE Counted'
  OBVIOUS
<1>0. Engine /\ Referenced \subseteq Alive
  BY DEF SoundObjects, Counted
<1>1. Referenced' \subseteq RefCounteds
  <2>1. /\ host_refs' \subseteq RefCounteds /\ allowed_refs' \subseteq RefCounteds
        /\ scoped_refs' \in [Levels -> SUBSET RefCounteds]
        /\ arguments' \in [Levels -> SUBSET RefCounteds]
    BY CountedTypes
  <2> QED BY <2>1, ReferencedMembersNext
<1>2. ASSUME NEW r \in Referenced' PROVE r \in Alive'
  <2>0. CASE UNCHANGED vars
    <3>1. r \in Referenced /\ memory' = memory
      BY <1>2, <2>0, ReferencedMembers, ReferencedMembersNext DEF vars, engine, restrictions
    <3> QED BY <1>0, <3>1 DEF Alive
  <2>1. CASE \E a \in Addresses : new_object(r, a)
    <3>1. PICK a \in Addresses : new_object(r, a)
      BY <2>1
    <3>2. memory'[a] = r /\ r # None
      BY <1>0, <1>1, <1>2, <3>1, NoneIsNoObject DEF new_object, Engine
    <3> QED BY <3>2 DEF Alive
  <2>2. CASE r \in Alive
    <3>1. PICK a \in Addresses : memory[a] = r /\ r # None
      BY <2>2 DEF Alive
    <3>2. memory'[a] = r
      <4>1. CASE Release
        BY <1>0, <1>2, <3>1, <4>1, ReleaseKeeps
      <4>2. CASE memory' = memory
        BY <3>1, <4>2
      <4>3. ASSUME NEW o \in Nodes, free_node(o) PROVE memory'[a] = r
        <5>1. AddressOf(o) \in Addresses /\ memory[AddressOf(o)] = o
          BY <1>0, <4>3, AddressOfAlive DEF free_node
        <5>2. r # o
          BY <1>1, <1>2, ObjectsAssumption
        <5> QED BY <1>0, <3>1, <4>3, <5>1, <5>2 DEF free_node, Engine
      <4>4. ASSUME NEW o \in Objects, NEW b \in Addresses, new_object(o, b)
            PROVE  memory'[a] = r
        BY <1>0, <3>1, <4>4 DEF new_object, Engine
      <4> QED BY <4>1, <4>2, <4>3, <4>4, MemoryStep
    <3> QED BY <3>1, <3>2 DEF Alive
  <2> QED BY <1>2, <2>0, <2>1, <2>2, ReferencedStep
<1> QED BY <1>2, CountedTypes DEF Counted

-----------------------------------------------------------------------------
(* An object is put in memory once: where it is found, it always was.       *)
LEMMA NeverMoves ==
  ASSUME SoundObjects, [Next]_vars, NEW o \in Objects \cap created,
         NEW a \in Addresses, memory'[a] = o
  PROVE  memory[a] = o
<1>0. Engine /\ o # None
  BY NoneIsNoObject DEF SoundObjects, Objects
<1>1. CASE Release
  BY <1>0, <1>1, ReleaseKeeps
<1>2. ASSUME NEW p \in Nodes, free_node(p) PROVE memory[a] = o
  <2>1. AddressOf(p) \in Addresses
    BY <1>0, <1>2, AddressOfAlive DEF free_node
  <2> QED BY <1>0, <1>2, <2>1 DEF free_node, Engine
<1>3. ASSUME NEW p \in Objects, NEW b \in Addresses, new_object(p, b)
      PROVE  memory[a] = o
  BY <1>0, <1>3 DEF new_object, Engine
<1> QED BY <1>1, <1>2, <1>3, MemoryStep

(* What the steps that leave the allow list alone keep of it. *)
LEMMA CreatedGrows == [Next]_vars => created \subseteq created'
BY DEF Next, HostStep, vars, engine, new_object, drop_reference, free_node,
   begin_call, end_call, full_reset, create, resolve_scoped_object,
   add_allowed_object, remove_allowed_object, clear_allowed_objects,
   set_object_allowed_callback, set_restrictions, Unaltered

LEMMA ListChanges ==
  [Next]_vars => \/ UNCHANGED <<allowed_objects, allowed_refs>>
                 \/ \E o \in Objects : add_allowed_object(o) \/ remove_allowed_object(o)
                 \/ clear_allowed_objects
BY DEF Next, HostStep, vars, restrictions, new_object, drop_reference, free_node,
   begin_call, end_call, full_reset, create, resolve_scoped_object,
   set_object_allowed_callback, set_restrictions

LEMMA ListedStep == SoundObjects /\ [Next]_vars => Listed'
<1> SUFFICES ASSUME SoundObjects, [Next]_vars PROVE Listed'
  OBVIOUS
<1>0. Listed /\ Engine /\ Engine'
  BY EngineStep DEF SoundObjects
<1>1. /\ created \subseteq created'
      /\ \A o \in DOMAIN allowed_objects :
           /\ allowed_objects[o] \in Addresses
           /\ \A a \in Addresses : memory'[a] = o => allowed_objects[o] = a
  BY <1>0, NeverMoves, CreatedGrows DEF Listed
<1>2. CASE UNCHANGED <<allowed_objects, allowed_refs>>
  BY <1>0, <1>1, <1>2 DEF Listed
<1>3. ASSUME NEW o \in Objects, add_allowed_object(o) PROVE Listed'
  <2>1. /\ AddressOf(o) \in Addresses /\ memory[AddressOf(o)] = o /\ o # None
        /\ memory' = memory /\ created' = created
    BY <1>0, <1>3, AddressOfAlive DEF add_allowed_object, Unaltered
  <2>2. o \in created /\ \A a \in Addresses : memory[a] = o => a = AddressOf(o)
    BY <1>0, <2>1 DEF Engine
  <2>3. /\ DOMAIN allowed_objects' = DOMAIN allowed_objects \cup {o}
        /\ \A p \in DOMAIN allowed_objects' :
             allowed_objects'[p] = IF p = o THEN AddressOf(o) ELSE allowed_objects[p]
        /\ allowed_refs' = allowed_refs \cup ({o} \cap RefCounteds)
    BY <1>3 DEF add_allowed_object, With
  <2> QED BY <1>0, <1>1, <2>1, <2>2, <2>3 DEF Listed
<1>4. ASSUME NEW o \in Objects, remove_allowed_object(o) PROVE Listed'
  <2>1. /\ DOMAIN allowed_objects' = DOMAIN allowed_objects \ {o}
        /\ \A p \in DOMAIN allowed_objects' : allowed_objects'[p] = allowed_objects[p]
        /\ allowed_refs' = allowed_refs \ {o}
    BY <1>4 DEF remove_allowed_object, Without
  <2> QED BY <1>0, <1>1, <2>1 DEF Listed
<1>5. CASE clear_allowed_objects
  BY <1>5 DEF clear_allowed_objects, Nothing, Listed
<1> QED BY <1>2, <1>3, <1>4, <1>5, ListChanges

-----------------------------------------------------------------------------
LEMMA SoundAlways == Spec => []SoundObjects
<1>1. SoundObjects /\ [Next]_vars => SoundObjects'
  BY EngineStep, CountedStep, ListedStep DEF SoundObjects
<1> QED BY <1>1, SoundInit, PTL DEF Spec

(* The allow list opens an address exactly while an allowed object lives    *)
(* there: get_explicitly_allowed_object compares an address with entries    *)
(* made long before, when other objects may have been at that address.  A   *)
(* RefCounted object on the list is alive, whatever the host and the guest  *)
(* let go of: add_allowed_object took a reference.                          *)
THEOREM AllowListStaysExact == Spec => []AllowListIsExact
<1>1. ASSUME SoundObjects, NEW a \in Addresses
      PROVE  get_explicitly_allowed_object(a) =
               IF memory[a] \in DOMAIN allowed_objects THEN memory[a] ELSE None
  <2>1. (\E o \in DOMAIN allowed_objects : allowed_objects[o] = a /\ memory[a] = o)
          <=> memory[a] \in DOMAIN allowed_objects
    BY <1>1 DEF SoundObjects, Listed
  <2> QED BY <2>1 DEF get_explicitly_allowed_object
<1>2. SoundObjects => AllowedObjectsStayAlive
  BY ReferencedMembers DEF SoundObjects, Counted, Listed, AllowedObjectsStayAlive
<1>3. SoundObjects => AllowListIsExact
  BY <1>1, <1>2 DEF AllowListIsExact
<1> QED BY <1>3, SoundAlways, PTL

-----------------------------------------------------------------------------
(* The handles of a call, when the host frees no node during calls.  An     *)
(* entry is scoped for everything handed out, and for nothing else: that is *)
(* why taking no reference when there is an entry already does no harm.     *)
Handed ==
  /\ DOMAIN scoped_objects = Levels /\ DOMAIN given = Levels
  /\ \A l \in 1..level : DOMAIN scoped_objects[l] = DOMAIN given[l]
  /\ \A l \in 1..level : \A a \in DOMAIN given[l] :
       /\ a \in Addresses /\ given[l][a] \in Objects
       /\ memory[a] = given[l][a]
       /\ scoped_objects[l][a] \in {None, given[l][a]}
       /\ given[l][a] \in RefCounteds =>
            given[l][a] \in scoped_refs[l] \cup arguments[l]

Tables == <<level, scoped_objects, scoped_refs, arguments, given>>

(* The calls below the one that begins or ends keep all that is theirs. *)
LEMMA TablesOfOthers ==
  [Next]_vars =>
    \/ \E S \in SUBSET Objects : begin_call(S)
    \/ end_call
    \/ full_reset
    \/ \E o \in Objects : create(o)
    \/ \E a \in Addresses : resolve_scoped_object(a)
    \/ UNCHANGED Tables
BY DEF Next, HostStep, vars, new_object, drop_reference, free_node,
   add_allowed_object, remove_allowed_object, clear_allowed_objects,
   set_object_allowed_callback, set_restrictions, Unaltered, Tables

(* What a call referred to, it still refers to while it lasts. *)
LEMMA ReferencesLast ==
  ASSUME SoundObjects, Handed, [Next]_vars, NEW l \in 1..level, l <= level'
  PROVE  /\ l \in Levels
         /\ scoped_refs[l] \subseteq scoped_refs'[l]
         /\ arguments[l] \subseteq arguments'[l]
<1>0. /\ level \in Levels /\ l \in Levels /\ level \in Nat /\ l # 0
      /\ scoped_refs \in [Levels -> SUBSET RefCounteds]
      /\ arguments \in [Levels -> SUBSET RefCounteds]
  BY ObjectsAssumption DEF SoundObjects, Counted, Levels
<1>1. ASSUME NEW S \in SUBSET Objects, begin_call(S)
      PROVE  scoped_refs'[l] = scoped_refs[l] /\ arguments'[l] = arguments[l]
  BY <1>0, <1>1 DEF begin_call
<1>2. CASE end_call
  BY <1>0, <1>2 DEF end_call
<1>3. CASE full_reset
  BY <1>0, <1>3 DEF full_reset
<1>4. ASSUME NEW o \in Objects, create(o)
      PROVE  scoped_refs[l] \subseteq scoped_refs'[l] /\ arguments'[l] = arguments[l]
  BY <1>0, <1>4 DEF create, add_scoped_object
<1>5. ASSUME NEW a \in Addresses, resolve_scoped_object(a)
      PROVE  scoped_refs'[l] = scoped_refs[l] /\ arguments'[l] = arguments[l]
  BY <1>5 DEF resolve_scoped_object
<1>6. CASE UNCHANGED Tables
  BY <1>0, <1>6 DEF Tables
<1> QED BY <1>0, <1>1, <1>2, <1>3, <1>4, <1>5, <1>6, TablesOfOthers

(* So no step moves or frees what a handle was given for. *)
LEMMA HandlesLast ==
  ASSUME SoundObjects, Handed, [Next]_vars, ~FreesInCalls,
         NEW l \in 1..level, l <= level', NEW a \in DOMAIN given[l]
  PROVE  memory'[a] = given[l][a]
<1>0. /\ a \in Addresses /\ memory[a] = given[l][a] /\ memory[a] \in Objects
      /\ Engine /\ memory[a] # None /\ level # 0 /\ l \in Levels
      /\ given[l][a] \in RefCounteds => given[l][a] \in scoped_refs[l] \cup arguments[l]
  BY NoneIsNoObject, ReferencesLast, ObjectsAssumption
     DEF SoundObjects, Handed, Objects, Counted, Levels
<1>1. CASE Release
  <2>1. given[l][a] \in RefCounteds => given[l][a] \in Referenced'
    BY <1>0, ReferencesLast, ReferencedMembersNext
  <2> QED BY <1>0, <1>1, <2>1, ReleaseKeeps
<1>2. ASSUME NEW o \in Nodes, free_node(o) PROVE FALSE
  BY <1>0, <1>2 DEF free_node
<1>3. ASSUME NEW o \in Objects, NEW b \in Addresses, new_object(o, b)
      PROVE  memory'[a] = memory[a]
  BY <1>0, <1>3 DEF new_object, Engine
<1> QED BY <1>0, <1>1, <1>2, <1>3, MemoryStep

LEMMA HandedStep == ~FreesInCalls /\ SoundObjects /\ Handed /\ [Next]_vars => Handed'
<1> SUFFICES ASSUME ~FreesInCalls, SoundObjects, Handed, [Next]_vars PROVE Handed'
  OBVIOUS
<1>0. /\ level \in Levels /\ level \in Nat /\ Engine
      /\ \A l : l \in 1..level => l \in Levels /\ l \in Nat /\ l # 0
      /\ scoped_refs \in [Levels -> SUBSET RefCounteds]
      /\ arguments \in [Levels -> SUBSET RefCounteds]
  BY ObjectsAssumption DEF SoundObjects, Counted, Levels
<1>1. ASSUME NEW S \in SUBSET Objects, begin_call(S) PROVE Handed'
  <2> DEFINE n == level + 1
             A == {AddressOf(o) : o \in S}
  <2>1. /\ level' = n /\ n \in Levels /\ S \subseteq Alive
        /\ scoped_objects' = [scoped_objects EXCEPT ![n] = [a \in A |-> None]]
        /\ arguments' = [arguments EXCEPT ![n] = S \cap RefCounteds]
        /\ given' = [given EXCEPT ![n] = [a \in A |-> memory[a]]]
    BY <1>0, <1>1, ObjectsAssumption DEF begin_call, Levels
  <2>2. /\ DOMAIN scoped_objects' = Levels /\ DOMAIN given' = Levels
        /\ scoped_objects'[n] = [a \in A |-> None]
        /\ given'[n] = [a \in A |-> memory[a]]
        /\ arguments'[n] = S \cap RefCounteds
    BY <1>0, <2>1 DEF Handed
  <2>3. ASSUME NEW l \in 1..level
        PROVE  /\ l \in Levels /\ l # n /\ l <= level'
               /\ scoped_objects'[l] = scoped_objects[l] /\ given'[l] = given[l]
    BY <1>0, <2>1, <2>2 DEF Handed
  <2>4. ASSUME NEW a \in A
        PROVE  /\ a \in Addresses /\ memory[a] \in S /\ memory[a] # None
               /\ memory'[a] = memory[a]
    <3>1. PICK o \in S : a = AddressOf(o)
      OBVIOUS
    <3>2. a \in Addresses /\ memory[a] = o /\ o # None
      BY <1>0, <2>1, <3>1, AddressOfAlive
    <3>3. o \in RefCounteds => o \in Referenced'
      BY <2>1, <2>2, ReferencedMembersNext
    <3>4. Release
      BY <1>1 DEF begin_call
    <3> QED BY <1>0, <3>2, <3>3, <3>4, ReleaseKeeps
  <2>5. \A l \in 1..level' : l = n \/ l \in 1..level
    BY <1>0, <2>1
  <2>6. ASSUME NEW l \in 1..level', NEW a \in DOMAIN given'[l]
        PROVE  /\ a \in Addresses /\ given'[l][a] \in Objects
               /\ memory'[a] = given'[l][a]
               /\ scoped_objects'[l][a] \in {None, given'[l][a]}
               /\ given'[l][a] \in RefCounteds =>
                    given'[l][a] \in scoped_refs'[l] \cup arguments'[l]
    <3>1. CASE l = n
      BY <2>2, <2>4, <3>1
    <3>2. CASE l \in 1..level
      BY <2>3, <3>2, HandlesLast, ReferencesLast DEF Handed
    <3> QED BY <2>5, <3>1, <3>2
  <2>7. \A l \in 1..level' : DOMAIN scoped_objects'[l] = DOMAIN given'[l]
    BY <2>2, <2>3, <2>5 DEF Handed
  <2> QED BY <2>2, <2>6, <2>7 DEF Handed
<1>2. CASE end_call
  <2>1. /\ level' = level - 1 /\ level \in Levels \ {0}
        /\ scoped_objects' = scoped_objects
        /\ given' = [given EXCEPT ![level] = Nothing]
    BY <1>0, <1>2 DEF end_call
  <2>2. ASSUME NEW l \in 1..level'
        PROVE  l \in 1..level /\ l <= level' /\ given'[l] = given[l]
    BY <1>0, <2>1 DEF Handed
  <2>3. DOMAIN given' = Levels
    BY <2>1 DEF Handed
  <2> QED BY <2>1, <2>2, <2>3, HandlesLast, ReferencesLast DEF Handed
<1>3. CASE full_reset
  <2>1. 1..level' = {}
    BY <1>3 DEF full_reset
  <2> QED BY <1>3, <2>1 DEF full_reset, Handed
<1>4. ASSUME NEW o \in Objects, create(o) PROVE Handed'
  <2> DEFINE b == AddressOf(o)
             old == scoped_objects[level]
  <2>1. /\ b \in Addresses /\ memory[b] = o /\ o # None
        /\ level \in 1..level /\ level' = level /\ memory' = memory
        /\ arguments' = arguments
    BY <1>0, <1>4, AddressOfAlive DEF create, engine
  <2>2. /\ scoped_objects' = [scoped_objects EXCEPT ![level] =
             IF b \in DOMAIN @ /\ @[b] # None THEN @ ELSE With(@, b, o)]
        /\ scoped_refs' = [scoped_refs EXCEPT ![level] =
             IF b \in DOMAIN old THEN @ ELSE @ \cup ({o} \cap RefCounteds)]
        /\ given' = [given EXCEPT ![level] = With(@, b, o)]
    BY <1>4 DEF create, add_scoped_object, add_scoped_entry
  <2>3. /\ DOMAIN scoped_objects' = Levels /\ DOMAIN given' = Levels
        /\ scoped_objects'[level] =
             IF b \in DOMAIN old /\ old[b] # None THEN old ELSE With(old, b, o)
        /\ scoped_refs'[level] =
             IF b \in DOMAIN old THEN scoped_refs[level]
             ELSE scoped_refs[level] \cup ({o} \cap RefCounteds)
        /\ given'[level] = With(given[level], b, o)
    BY <1>0, <2>2 DEF Handed
  <2>4. ASSUME NEW l \in 1..level, l # level
        PROVE  /\ scoped_objects'[l] = scoped_objects[l] /\ given'[l] = given[l]
               /\ scoped_refs'[l] = scoped_refs[l]
    BY <1>0, <2>2, <2>4 DEF Handed
  <2>5. DOMAIN scoped_objects'[level] = DOMAIN given'[level]
    BY <2>1, <2>3 DEF Handed, With
  <2>6. ASSUME NEW a \in DOMAIN given'[level]
        PROVE  /\ a \in Addresses /\ given'[level][a] \in Objects
               /\ memory[a] = given'[level][a]
               /\ scoped_objects'[level][a] \in {None, given'[level][a]}
               /\ given'[level][a] \in RefCounteds =>
                    given'[level][a] \in scoped_refs'[level] \cup arguments[level]
    <3>1. CASE a = b
      <4>1. given'[level][a] = o
        BY <2>3, <3>1 DEF With
      <4>2. b \in DOMAIN old => given[level][b] = o /\ old[b] \in {None, o}
        BY <2>1 DEF Handed
      <4>3. scoped_objects'[level][a] \in {None, o}
        BY <2>3, <3>1, <4>2 DEF With
      <4>4. o \in RefCounteds => o \in scoped_refs'[level] \cup arguments[level]
        BY <2>1, <2>3, <4>2 DEF Handed
      <4> QED BY <2>1, <3>1, <4>1, <4>3, <4>4
    <3>2. CASE a # b
      <4>1. /\ a \in DOMAIN given[level] /\ given'[level][a] = given[level][a]
            /\ scoped_objects'[level][a] = old[a]
        BY <2>1, <2>3, <3>2 DEF With, Handed
      <4> QED BY <2>1, <2>3, <4>1 DEF Handed
    <3> QED BY <3>1, <3>2
  <2> QED BY <2>1, <2>3, <2>4, <2>5, <2>6 DEF Handed
<1>5. ASSUME NEW b \in Addresses, resolve_scoped_object(b) PROVE Handed'
  <2>1. /\ level \in 1..level /\ level' = level /\ memory' = memory
        /\ b \in DOMAIN scoped_objects[level]
        /\ arguments' = arguments /\ scoped_refs' = scoped_refs /\ given' = given
        /\ scoped_objects' = [scoped_objects EXCEPT ![level][b] = memory[b]]
    BY <1>0, <1>5 DEF resolve_scoped_object, engine
  <2>2. memory[b] = given[level][b]
    BY <2>1 DEF Handed
  <2> QED BY <1>0, <2>1, <2>2 DEF Handed
<1>6. CASE UNCHANGED Tables
  <2>1. /\ level' = level /\ scoped_objects' = scoped_objects /\ given' = given
        /\ scoped_refs' = scoped_refs /\ arguments' = arguments
    BY <1>6 DEF Tables
  <2> QED BY <1>0, <2>1, HandlesLast DEF Handed
<1> QED BY <1>1, <1>2, <1>3, <1>4, <1>5, <1>6, TablesOfOthers

LEMMA HandedInit == Init => Handed
<1> SUFFICES ASSUME Init PROVE Handed
  OBVIOUS
<1>1. 1..level = {}
  BY DEF Init
<1> QED BY <1>1 DEF Init, Handed

LEMMA HandedAlways == ASSUME ~FreesInCalls PROVE Spec => [](SoundObjects /\ Handed)
<1>1. SoundObjects /\ Handed /\ [Next]_vars => Handed'
  BY HandedStep
<1> QED BY <1>1, HandedInit, SoundAlways, PTL DEF Spec

(* While no node is freed during calls, a RefCounted object handed to a     *)
(* call lives until that call is over, through nested calls and whatever    *)
(* the host drops: scoped_refs and the arguments of the call refer to it.   *)
THEOREM CountedHandlesAreKept ==
  ASSUME ~FreesInCalls PROVE Spec => []CountedHandlesStayAlive
<1>1. Handed => CountedHandlesStayAlive
  BY DEF Handed, CountedHandlesStayAlive
<1> QED BY <1>1, HandedAlways, PTL

(* And every handle reaches the object it was given for.                    *)
THEOREM HandlesAreExact ==
  ASSUME ~FreesInCalls PROVE Spec => []HandlesDenoteTheirObjects
<1>1. SoundObjects /\ Handed => HandlesDenoteTheirObjects
  <2> SUFFICES ASSUME SoundObjects, Handed, NEW l \in 1..level, NEW a \in DOMAIN given[l]
               PROVE  get_object_from_address(l, a) = given[l][a]
    BY DEF HandlesDenoteTheirObjects
  <2> QED BY DEF Handed, get_object_from_address
<1> QED BY <1>1, HandedAlways, PTL

(* The restrictions of a Sandbox stay on during calls: every function that  *)
(* lifts them checks is_in_vmcall(), except remove_allowed_object(), which  *)
(* the assumption keeps the host from calling then.                         *)
THEOREM RestrictionsLast ==
  ASSUME ~RemovesInCalls PROVE Spec => RestrictionsAreNotLifted
<1>1. SoundObjects /\ [Next]_vars => [level > 0 /\ ~unrestricted => ~unrestricted']_vars
  <2> SUFFICES ASSUME SoundObjects, Next, level > 0, ~unrestricted PROVE ~unrestricted'
    OBVIOUS
  <2>0. level # 0
    BY ObjectsAssumption DEF SoundObjects, Counted, Levels
  <2>1. CASE UNCHANGED <<allowed_objects, callback>>
    BY <2>1 DEF unrestricted
  <2>2. ASSUME NEW enable \in BOOLEAN, set_restrictions(enable) PROVE ~unrestricted'
    <3>1. enable /\ allowed_objects' = allowed_objects
      BY <2>0, <2>2 DEF set_restrictions, is_in_vmcall
    <3>2. callback' # "none"
      BY <2>2, <3>1 DEF set_restrictions
    <3> QED BY <3>2 DEF unrestricted
  <2>3. CASE HostStep
    BY <2>0, <2>1, <2>2, <2>3 DEF HostStep, is_in_vmcall, new_object, drop_reference, free_node,
       restrictions, add_allowed_object, remove_allowed_object, clear_allowed_objects,
       set_object_allowed_callback
  <2> QED BY <2>1, <2>3 DEF Next, restrictions, begin_call, end_call, full_reset,
          create, resolve_scoped_object
<1> QED BY <1>1, SoundAlways, PTL DEF Spec, RestrictionsAreNotLifted

-----------------------------------------------------------------------------
(* The table of a call never has more entries than references_max, also    *)
(* though begin_call takes a set of objects and the entries are addresses.  *)
Bounded ==
  /\ DOMAIN scoped_objects = Levels /\ DOMAIN given = Levels
  /\ \A l \in Levels : /\ DOMAIN scoped_objects[l] \subseteq Addresses
                       /\ Cardinality(DOMAIN scoped_objects[l]) <= MaxRefs
                       /\ DOMAIN given[l] \subseteq Addresses

LEMMA FewAddresses ==
  ASSUME Engine, NEW S \in SUBSET Alive, Cardinality(S) <= MaxRefs
  PROVE  /\ {AddressOf(o) : o \in S} \subseteq Addresses
         /\ Cardinality({AddressOf(o) : o \in S}) <= MaxRefs
<1> DEFINE T == {AddressOf(o) : o \in S}
           f == [o \in S |-> AddressOf(o)]
           B == {a \in Addresses : memory[a] \in S}
           g == [a \in B |-> memory[a]]
<1>1. T \subseteq Addresses
  BY AddressOfAlive
<1>2. IsFiniteSet(B)
  BY ObjectsAssumption, FS_Subset
<1>3. g \in Surjection(B, S)
  <2>1. \A o \in S : AddressOf(o) \in B /\ g[AddressOf(o)] = o
    BY AddressOfAlive
  <2>2. g \in [B -> S]
    OBVIOUS
  <2> HIDE DEF g, B
  <2> QED BY <2>1, <2>2 DEF Surjection
<1>4. IsFiniteSet(S)
  <2> HIDE DEF g, B
  <2> QED BY <1>2, <1>3, FS_Surjection
<1>5. f \in Surjection(S, T)
  BY DEF Surjection
<1>6. Cardinality(T) <= Cardinality(S) /\ IsFiniteSet(T)
  <2> HIDE DEF f, T
  <2> QED BY <1>4, <1>5, FS_Surjection
<1>7. Cardinality(T) \in Nat /\ Cardinality(S) \in Nat /\ MaxRefs \in Nat
  <2> HIDE DEF T
  <2> QED BY <1>4, <1>6, FS_CardinalityType, ObjectsAssumption
<1> HIDE DEF T
<1>8. Cardinality(T) <= MaxRefs
  BY <1>6, <1>7
<1> QED BY <1>1, <1>8 DEF T

LEMMA BoundedStep == SoundObjects /\ Bounded /\ [Next]_vars => Bounded'
<1> SUFFICES ASSUME SoundObjects, Bounded, [Next]_vars PROVE Bounded'
  OBVIOUS
<1>0. /\ level \in Levels /\ level \in Nat /\ Engine /\ MaxRefs \in Nat
      /\ IsFiniteSet(Addresses) /\ IsFiniteSet({}) /\ Cardinality({}) = 0
  BY ObjectsAssumption, FS_EmptySet DEF SoundObjects, Counted, Levels
<1>1. ASSUME NEW l \in Levels, NEW f, NEW g, DOMAIN f \subseteq Addresses,
             Cardinality(DOMAIN f) <= MaxRefs, DOMAIN g \subseteq Addresses,
             scoped_objects' = [scoped_objects EXCEPT ![l] = f],
             given' = [given EXCEPT ![l] = g]
      PROVE  Bounded'
  BY <1>1 DEF Bounded
<1>3. ASSUME NEW S \in SUBSET Objects, begin_call(S) PROVE Bounded'
  <2>1. /\ level + 1 \in Levels /\ S \subseteq Alive /\ Cardinality(S) <= MaxRefs
        /\ scoped_objects' = [scoped_objects EXCEPT ![level + 1] =
                                [a \in {AddressOf(o) : o \in S} |-> None]]
        /\ given' = [given EXCEPT ![level + 1] =
                       [a \in {AddressOf(o) : o \in S} |-> memory[a]]]
    BY <1>0, <1>3, ObjectsAssumption DEF begin_call, Levels
  <2>2. /\ {AddressOf(o) : o \in S} \subseteq Addresses
        /\ Cardinality({AddressOf(o) : o \in S}) <= MaxRefs
    BY <1>0, <2>1, FewAddresses
  <2> QED BY <1>1, <2>1, <2>2
<1>4. CASE end_call
  <2>1. given' = [given EXCEPT ![level] = Nothing] /\ scoped_objects' = scoped_objects
    BY <1>4 DEF end_call
  <2>2. DOMAIN Nothing = {}
    BY DEF Nothing
  <2> QED BY <1>0, <2>1, <2>2 DEF Bounded
<1>5. CASE full_reset
  <2>1. DOMAIN Nothing = {}
    BY DEF Nothing
  <2>2. scoped_objects' = [l \in Levels |-> Nothing] /\ given' = given
    BY <1>5 DEF full_reset
  <2> QED BY <1>0, <2>1, <2>2 DEF Bounded
<1>6. ASSUME NEW o \in Objects, create(o) PROVE Bounded'
  <2>1. PICK at \in Addresses : at = AddressOf(o)
    BY <1>0, <1>6, AddressOfAlive DEF create
  <2> DEFINE rows == scoped_objects[level]
  <2>2. /\ at \in DOMAIN rows \/ Cardinality(DOMAIN rows) < MaxRefs
        /\ scoped_objects' = [scoped_objects EXCEPT ![level] =
              IF at \in DOMAIN rows /\ rows[at] # None THEN rows ELSE With(rows, at, o)]
        /\ given' = [given EXCEPT ![level] = With(given[level], at, o)]
    BY <1>0, <1>6, <2>1 DEF create, add_scoped_object, add_scoped_entry, Bounded
  <2>3. /\ DOMAIN rows \subseteq Addresses /\ Cardinality(DOMAIN rows) <= MaxRefs
        /\ DOMAIN given[level] \subseteq Addresses
    BY <1>0 DEF Bounded
  <2>4. \A f : DOMAIN With(f, at, o) = DOMAIN f \cup {at}
    BY DEF With
  <2>5. Cardinality(DOMAIN rows \cup {at}) <= MaxRefs
    <3> DEFINE D == DOMAIN rows
    <3>1. IsFiniteSet(D)
      BY <1>0, <2>3, FS_Subset
    <3>2. Cardinality(D) \in Nat
      BY <3>1, FS_CardinalityType
    <3> HIDE DEF rows, D
    <3>3. Cardinality(D \cup {at}) = IF at \in D THEN Cardinality(D) ELSE Cardinality(D) + 1
      BY <3>1, FS_AddElement
    <3>4. at \in D \/ Cardinality(D) < MaxRefs
      BY <2>2 DEF D
    <3>5. Cardinality(D) <= MaxRefs
      BY <2>3 DEF D
    <3>6. Cardinality(D \cup {at}) <= MaxRefs
      BY <1>0, <3>2, <3>3, <3>4, <3>5
    <3> QED BY <3>6 DEF D
  <2> DEFINE entered == IF at \in DOMAIN rows /\ rows[at] # None THEN rows
                        ELSE With(rows, at, o)
             handed == With(given[level], at, o)
  <2>6. DOMAIN entered \subseteq Addresses /\ Cardinality(DOMAIN entered) <= MaxRefs
    <3> HIDE DEF rows
    <3> QED BY <2>3, <2>4, <2>5
  <2>7. DOMAIN handed \subseteq Addresses
    BY <2>3, <2>4
  <2>8. /\ scoped_objects' = [scoped_objects EXCEPT ![level] = entered]
        /\ given' = [given EXCEPT ![level] = handed]
    BY <2>2
  <2> HIDE DEF entered, handed
  <2> QED BY <1>0, <1>1, <2>6, <2>7, <2>8
<1>7. ASSUME NEW a \in Addresses, resolve_scoped_object(a) PROVE Bounded'
  <2>1. /\ scoped_objects' = [scoped_objects EXCEPT ![level][a] = memory[a]]
        /\ given' = given
    BY <1>7 DEF resolve_scoped_object
  <2>2. \A l \in Levels : DOMAIN scoped_objects'[l] = DOMAIN scoped_objects[l]
    BY <1>0, <2>1 DEF Bounded
  <2> QED BY <2>1, <2>2 DEF Bounded
<1>8. CASE UNCHANGED <<scoped_objects, given>>
  BY <1>8 DEF Bounded
<1> QED BY <1>3, <1>4, <1>5, <1>6, <1>7, <1>8
        DEF Next, vars, HostStep, new_object, drop_reference, free_node, Unaltered,
            add_allowed_object, remove_allowed_object, clear_allowed_objects,
            set_object_allowed_callback, set_restrictions

(* Every variable keeps its type; in particular no call state ever holds    *)
(* more than references_max objects, however its calls, the objects made in *)
(* them and addresses used again follow each other.                         *)
THEOREM TablesStayBounded == Spec => []TypeOK
<1> DEFINE Others == created \subseteq Objects /\ callback \in Callbacks
<1>1. Init => Bounded /\ Others
  <2>1. DOMAIN Nothing = {} /\ Cardinality({}) = 0 /\ MaxRefs \in Nat
    BY FS_EmptySet, ObjectsAssumption DEF Nothing
  <2> QED BY <2>1 DEF Init, Bounded, Callbacks
<1>2. Others /\ [Next]_vars => Others'
  <2> SUFFICES ASSUME Others, [Next]_vars PROVE Others'
    OBVIOUS
  <2>1. CASE HostStep
    BY <2>1 DEF HostStep, new_object, drop_reference, free_node, restrictions, Unaltered,
       add_allowed_object, remove_allowed_object, clear_allowed_objects,
       set_object_allowed_callback, set_restrictions, Callbacks
  <2> QED BY <2>1 DEF Next, vars, engine, restrictions, begin_call, end_call, full_reset,
          create, resolve_scoped_object
<1>3. SoundObjects /\ Bounded /\ Others => TypeOK
  BY DEF SoundObjects, Engine, Counted, Listed, Bounded, TypeOK
<1> QED BY <1>1, <1>2, <1>3, BoundedStep, SoundAlways, PTL DEF Spec
==============================================================================
