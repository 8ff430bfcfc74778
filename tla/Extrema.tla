------------------------------ MODULE Extrema ------------------------------
(***************************************************************************)
(* Finite sets of integers have a largest and a smallest element: what the *)
(* code finds by walking a list, the modules name with CHOOSE.             *)
(***************************************************************************)
EXTENDS Integers, FiniteSets, FiniteSetTheorems, TLAPS

\* Of the sets of what is above an element, one is minimal: it is empty.
LEMMA HasLargest ==
    ASSUME NEW S, IsFiniteSet(S), S \subseteq Int, S # {}
    PROVE  \E p \in S : \A q \in S : q <= p
<1> DEFINE Above(p) == {q \in S : q > p}
           T == {Above(p) : p \in S}
<1>1. IsWellFoundedOn(StrictSubsetOrdering(S), FiniteSubsetsOf(S))
  BY FS_StrictSubsetOrderingWellFounded, Zenon
<1>2. T \subseteq FiniteSubsetsOf(S)
  <2> SUFFICES ASSUME NEW p \in S PROVE Above(p) \in FiniteSubsetsOf(S)
    OBVIOUS
  <2>1. Above(p) \in SUBSET S
    OBVIOUS
  <2>2. IsFiniteSet(Above(p))
    BY <2>1, FS_Subset
  <2> QED BY <2>1, <2>2 DEF FiniteSubsetsOf
<1>3. T # {}
  OBVIOUS
<1>4. \E X \in T : \A Y \in T : ~(<<Y, X>> \in StrictSubsetOrdering(S))
  <2> HIDE DEF T
  <2> QED BY <1>1, <1>2, <1>3, WFMin, Zenon
<1>5. PICK p \in S : \A r \in S : ~(<<Above(r), Above(p)>> \in StrictSubsetOrdering(S))
  BY <1>4
<1>6. ASSUME NEW r \in S, r > p PROVE FALSE
  <2> p \in Int /\ r \in Int /\ \A q \in S : q \in Int
    OBVIOUS
  <2>0. r \in Above(p) /\ r \notin Above(r)
    BY <1>6
  <2>1. Above(r) \subseteq Above(p)
    <3> SUFFICES ASSUME NEW q \in S, q > r PROVE q > p
      OBVIOUS
    <3> QED BY <1>6
  <2>2. Above(r) \in SUBSET S /\ Above(p) \in SUBSET S
    OBVIOUS
  <2> HIDE DEF Above
  <2>3. <<Above(r), Above(p)>> \in StrictSubsetOrdering(S)
    BY <2>0, <2>1, <2>2 DEF StrictSubsetOrdering
  <2> QED BY <1>5, <2>3
<1> QED BY <1>6

\* The same for the sets of what is below an element, one is minimal: it is empty.
LEMMA HasSmallest ==
    ASSUME NEW S, IsFiniteSet(S), S \subseteq Int, S # {}
    PROVE  \E p \in S : \A q \in S : p <= q
<1> DEFINE Below(p) == {q \in S : q < p}
           T == {Below(p) : p \in S}
<1>1. IsWellFoundedOn(StrictSubsetOrdering(S), FiniteSubsetsOf(S))
  BY FS_StrictSubsetOrderingWellFounded, Zenon
<1>2. T \subseteq FiniteSubsetsOf(S)
  <2> SUFFICES ASSUME NEW p \in S PROVE Below(p) \in FiniteSubsetsOf(S)
    OBVIOUS
  <2>1. Below(p) \in SUBSET S
    OBVIOUS
  <2>2. IsFiniteSet(Below(p))
    BY <2>1, FS_Subset
  <2> QED BY <2>1, <2>2 DEF FiniteSubsetsOf
<1>3. T # {}
  OBVIOUS
<1>4. \E X \in T : \A Y \in T : ~(<<Y, X>> \in StrictSubsetOrdering(S))
  <2> HIDE DEF T
  <2> QED BY <1>1, <1>2, <1>3, WFMin, Zenon
<1>5. PICK p \in S : \A r \in S : ~(<<Below(r), Below(p)>> \in StrictSubsetOrdering(S))
  BY <1>4
<1>6. ASSUME NEW r \in S, r < p PROVE FALSE
  <2> p \in Int /\ r \in Int /\ \A q \in S : q \in Int
    OBVIOUS
  <2>0. r \in Below(p) /\ r \notin Below(r)
    BY <1>6
  <2>1. Below(r) \subseteq Below(p)
    <3> SUFFICES ASSUME NEW q \in S, q < r PROVE q < p
      OBVIOUS
    <3> QED BY <1>6
  <2>2. Below(r) \in SUBSET S /\ Below(p) \in SUBSET S
    OBVIOUS
  <2> HIDE DEF Below
  <2>3. <<Below(r), Below(p)>> \in StrictSubsetOrdering(S)
    BY <2>0, <2>1, <2>2 DEF StrictSubsetOrdering
  <2> QED BY <1>5, <2>3
<1> QED BY <1>6
=============================================================================
