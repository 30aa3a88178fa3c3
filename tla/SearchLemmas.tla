----------------------------- MODULE SearchLemmas -----------------------------
(***************************************************************************)
(* Searches: the least of some numbers, and a search that goes on from     *)
(* place to place.                                                         *)
(***************************************************************************)
EXTENDS Integers, FiniteSetTheorems, WellFoundedInduction, TLAPS

(* A set of natural numbers that is not empty has a least element.          *)
LEMMA LeastElement ==
  ASSUME NEW S \in SUBSET Nat, S # {}
  PROVE  \E m \in S : \A n \in S : m <= n
<1> DEFINE T == {0 .. n : n \in S}
           R == StrictSubsetOrdering(Nat)
<1>1. T \subseteq FiniteSubsetsOf(Nat) /\ T # {}
  <2>1. \A n \in S : 0 \in Int /\ n \in Int /\ 0 .. n \in SUBSET Nat
    OBVIOUS
  <2>2. \A n \in S : IsFiniteSet(0 .. n)
    BY <2>1, FS_Interval
  <2>3. \A n \in S : 0 .. n \in FiniteSubsetsOf(Nat)
    BY <2>1, <2>2 DEF FiniteSubsetsOf
  <2> QED
    BY <2>3
<1>2. PICK x \in T : \A y \in T : ~(<<y, x>> \in R)
  <2> HIDE DEF T, R
  <2>1. IsWellFoundedOn(R, FiniteSubsetsOf(Nat))
    BY FS_StrictSubsetOrderingWellFounded DEF R
  <2> QED
    BY <1>1, <2>1, WFMin
<1>3. PICK m \in S : x = 0 .. m
  BY <1>2
<1>4. ASSUME NEW n \in S, n < m PROVE FALSE
  <2>1. 0 .. n \in T /\ 0 .. n \subseteq 0 .. m /\ m \notin 0 .. n /\ m \in 0 .. m
    BY <1>4
  <2>2. <<0 .. n, 0 .. m>> \in R
    BY <2>1 DEF StrictSubsetOrdering
  <2> QED
    BY <1>2, <1>3, <2>1, <2>2
<1> QED
  BY <1>4

(* A search that goes on from a place to the next until it may stop is a    *)
(* function, also where it never stops.                                     *)
LEMMA SearchExists ==
  ASSUME NEW stop \in SUBSET Nat, NEW goes \in [Nat -> Nat]
  PROVE  \E f : f = [x \in Nat |-> IF x \in stop THEN x ELSE f[goes[x]]]
<1> DEFINE Closed(T) == \A x \in T : x \notin stop => goes[x] \in T
           Ends(x) == {r \in stop : \A T \in SUBSET Nat : x \in T /\ Closed(T) => r \in T}
           End(x) == CHOOSE r : r \in Ends(x)
           f == [x \in Nat |-> End(x)]
<1>1. ASSUME NEW x \in stop PROVE End(x) = x
  <2>1. {x} \in SUBSET Nat /\ Closed({x})
    OBVIOUS
  <2>2. Ends(x) = {x}
    BY <2>1
  <2> HIDE DEF Ends
  <2> QED
    BY <2>2
<1>2. ASSUME NEW x \in Nat \ stop PROVE Ends(x) = Ends(goes[x])
  <2>1. ASSUME NEW r \in Ends(x), NEW T \in SUBSET Nat, goes[x] \in T, Closed(T)
        PROVE  r \in T
    <3>1. T \cup {x} \in SUBSET Nat /\ Closed(T \cup {x})
      BY <2>1
    <3>2. r \in T \cup {x} /\ r \in stop
      BY <3>1
    <3> QED
      BY <3>2
  <2>2. ASSUME NEW r \in Ends(goes[x]), NEW T \in SUBSET Nat, x \in T, Closed(T)
        PROVE  r \in T
    BY <2>2
  <2>3. /\ \A r \in Ends(x) : r \in stop
        /\ \A r \in Ends(goes[x]) : r \in stop
    OBVIOUS
  <2> QED
    BY <2>1, <2>2
<1>3. ASSUME NEW x \in Nat \ stop PROVE End(x) = End(goes[x]) /\ goes[x] \in Nat
  <2>1. Ends(x) = Ends(goes[x])
    BY <1>2
  <2> HIDE DEF Ends
  <2> QED
    BY <2>1
<1> HIDE DEF End
<1>4. \A x \in Nat : f[x] = IF x \in stop THEN x ELSE f[goes[x]]
  BY <1>1, <1>3
<1>5. f = [x \in Nat |-> IF x \in stop THEN x ELSE f[goes[x]]]
  BY <1>4
<1> HIDE DEF f
<1> QED
  BY <1>5
=============================================================================
