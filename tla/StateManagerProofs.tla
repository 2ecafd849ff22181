------------------------- MODULE StateManagerProofs -------------------------
(***************************************************************************)
(* The class table is correct for every set of values and every tolerance. *)
(*                                                                         *)
(* The key step is CandidateComplete: the one key lower_bound returns is   *)
(* within Eps whenever any key is.  With it Separated is inductive, the    *)
(* numbering is dense because a new id is the size of the table, and what  *)
(* was emitted stays true because the table only grows.                    *)
(***************************************************************************)
EXTENDS StateManager, FiniteSetTheorems, TLAPS

\* The inductive invariant: all three properties and the types, together.
IInv == TypeOK /\ Separated /\ IdsDense /\ EmittedFaithful

-----------------------------------------------------------------------------

\* A non-empty finite set of integers has a least element: among the sets of
\* elements up to a given one, a smallest set exists.
LEMMA LeastElement ==
  ASSUME NEW S, IsFiniteSet(S), S \subseteq Int, S # {}
  PROVE  \E k \in S : \A m \in S : k <= m
<1> DEFINE UpTo(k) == {m \in S : m <= k}
           T == {UpTo(k) : k \in S}
<1>1. IsWellFoundedOn(StrictSubsetOrdering(S), SUBSET S)
  BY FS_StrictSubsetOrderingWellFounded, FS_FiniteSubsetsOfFinite
<1>2. T \subseteq SUBSET S /\ T # {}
  OBVIOUS
<1>3. PICK A \in T : \A B \in T : <<B, A>> \notin StrictSubsetOrdering(S)
  BY <1>1, <1>2, WFMin
<1>4. PICK k \in S : A = UpTo(k)
  OBVIOUS
<1>5. ASSUME NEW m \in S, m < k
      PROVE  FALSE
  <2>1. k <= k /\ ~(k <= m) /\ \A x \in S : x <= m => x <= k
    BY <1>5
  <2>2. UpTo(m) \subseteq A /\ k \in A /\ k \notin UpTo(m)
    BY <1>4, <2>1
  <2>3. UpTo(m) \in SUBSET S /\ A \in SUBSET S
    BY <1>4
  <2>4. <<UpTo(m), A>> \in StrictSubsetOrdering(S)
    BY <2>2, <2>3 DEF StrictSubsetOrdering
  <2>5. UpTo(m) \in T
    OBVIOUS
  <2> QED
    BY <1>3, <2>4, <2>5
<1> QED
  BY <1>5

\* lower_bound finds the least key that is not below x.
LEMMA LowerBoundExists ==
  ASSUME TypeOK, NEW x \in Int, NEW a \in Installed, a >= x
  PROVE  \E k \in LowerBound(x) : k <= a
<1> DEFINE S == {k \in Installed : k >= x}
<1>1. S \subseteq Int /\ S # {} /\ a \in S
  BY ValuesAssumption DEF TypeOK
<1>2. IsFiniteSet(S)
  BY FS_Subset DEF TypeOK
<1>3. PICK k \in S : \A m \in S : k <= m
  BY <1>1, <1>2, LeastElement
<1>4. k \in LowerBound(x) /\ k <= a
  BY <1>1, <1>3 DEF LowerBound
<1> QED
  BY <1>4

\* Completeness of the search: a class within Eps of v is found if one exists.
LEMMA CandidateComplete ==
  ASSUME TypeOK, NEW v \in Values, Candidate(v) = {}, NEW a \in Installed
  PROVE  ~Near(a, v)
<1> SUFFICES ASSUME Near(a, v) PROVE FALSE
  OBVIOUS
<1>1. a \in Int /\ v \in Int /\ Eps \in Nat
  BY ValuesAssumption, EpsAssumption DEF TypeOK
<1>2. a >= v - Eps /\ a <= v + Eps
  BY <1>1 DEF Near, Abs
<1>3. PICK k \in LowerBound(v - Eps) : k <= a
  BY <1>1, <1>2, LowerBoundExists
<1>4. k \in Int /\ k >= v - Eps
  BY ValuesAssumption DEF LowerBound, TypeOK
<1>5. Near(k, v)
  BY <1>1, <1>2, <1>3, <1>4 DEF Near, Abs
<1> QED
  BY <1>3, <1>5 DEF Candidate

-----------------------------------------------------------------------------

LEMMA InitIInv == Init => IInv
BY FS_EmptySet DEF Init, IInv, TypeOK, Separated, IdsDense, EmittedFaithful, Installed

LEMMA ReuseStep ==
  ASSUME IInv, NEW v \in Values, Reuse(v)
  PROVE  IInv'
<1>1. PICK k \in Candidate(v) :
         /\ emitted' = emitted \cup {[value |-> v, id |-> value_map[k]]}
         /\ value_map' = value_map
  BY DEF Reuse
<1>2. k \in Installed /\ Near(k, v) /\ value_map[k] \in Nat
  BY DEF Candidate, LowerBound, IInv, TypeOK
<1>3. TypeOK'
  BY <1>1, <1>2 DEF IInv, TypeOK, Installed
<1>4. Separated' /\ IdsDense'
  BY <1>1 DEF IInv, Separated, IdsDense, Installed
<1>5. EmittedFaithful'
  BY <1>1, <1>2 DEF IInv, EmittedFaithful, IdsDense, Installed
<1> QED
  BY <1>3, <1>4, <1>5 DEF IInv

LEMMA ExtendStep ==
  ASSUME IInv, NEW v \in Values, Extend(v)
  PROVE  IInv'
<1> DEFINE id == Cardinality(Installed)
<1>1. /\ Candidate(v) = {}
      /\ value_map' = [k \in Installed \cup {v} |-> IF k = v THEN id ELSE value_map[k]]
      /\ emitted' = emitted \cup {[value |-> v, id |-> id]}
  BY DEF Extend
<1>2. \A a \in Installed : ~Near(a, v)
  BY <1>1, CandidateComplete DEF IInv
<1>3. v \in Int /\ Installed \subseteq Int /\ Eps \in Nat
  BY ValuesAssumption, EpsAssumption DEF IInv, TypeOK
<1>4. Near(v, v) /\ \A a \in Int : Near(a, v) <=> Near(v, a)
  BY <1>3 DEF Near, Abs
<1>5. v \notin Installed
  BY <1>2, <1>4
<1>6. Installed' = Installed \cup {v}
  BY <1>1 DEF Installed
<1>7. /\ IsFiniteSet(Installed')
      /\ id \in Nat
      /\ Cardinality(Installed') = id + 1
  BY <1>5, <1>6, FS_AddElement, FS_CardinalityType DEF IInv, TypeOK
<1>8. value_map'[v] = id /\ \A a \in Installed : value_map'[a] = value_map[a]
  BY <1>1, <1>5
<1>9. \A a \in Installed : value_map[a] < id /\ value_map[a] \in Nat
  BY DEF IInv, IdsDense, TypeOK
<1>10. TypeOK'
  <2>1. value_map' \in [Installed' -> Nat]
    BY <1>1, <1>6, <1>7, <1>9
  <2>2. emitted' \subseteq [value : Values, id : Nat]
    BY <1>1, <1>7 DEF IInv, TypeOK
  <2> QED
    BY <1>6, <1>7, <2>1, <2>2 DEF IInv, TypeOK
<1>11. Separated'
  BY <1>2, <1>3, <1>4, <1>6 DEF IInv, Separated
<1>12. IdsDense'
  BY <1>6, <1>7, <1>8, <1>9 DEF IInv, IdsDense
<1>13. EmittedFaithful'
  <2> SUFFICES ASSUME NEW e \in emitted'
               PROVE  /\ \E k \in Installed' : value_map'[k] = e.id /\ Near(k, e.value)
                      /\ \A k \in Installed' : value_map'[k] = e.id => Near(k, e.value)
    BY <1>6 DEF EmittedFaithful, Near
  <2>1. CASE e = [value |-> v, id |-> id]
    BY <2>1, <1>4, <1>6, <1>7, <1>8, <1>9
  <2>2. CASE e \in emitted
    <3>1. PICK k \in Installed : value_map[k] = e.id /\ Near(k, e.value)
      BY <2>2 DEF IInv, EmittedFaithful
    <3>2. e.id # id
      BY <3>1, <1>7, <1>9
    <3> QED
      BY <2>2, <3>1, <3>2, <1>6, <1>8 DEF IInv, EmittedFaithful
  <2> QED
    BY <1>1, <2>1, <2>2
<1> QED
  BY <1>10, <1>11, <1>12, <1>13 DEF IInv

LEMMA NextIInv == IInv /\ [Next]_vars => IInv'
<1> SUFFICES ASSUME IInv, [Next]_vars PROVE IInv'
  OBVIOUS
<1>1. ASSUME NEW v \in Values, install(v) PROVE IInv'
  BY <1>1, ReuseStep, ExtendStep DEF install
<1>2. CASE UNCHANGED vars
  BY <1>2 DEF vars, IInv, TypeOK, Separated, IdsDense, EmittedFaithful, Installed
<1> QED
  BY <1>1, <1>2 DEF Next

LEMMA Invariance == Spec => []IInv
BY InitIInv, NextIInv, PTL DEF Spec

-----------------------------------------------------------------------------

\* The table always holds finitely many of the values, with natural ids.
THEOREM TypeCorrect == Spec => []TypeOK
BY Invariance, PTL DEF IInv

\* No two classes are within Eps of one another: install reuses whenever it can.
THEOREM ClassesSeparated == Spec => []Separated
BY Invariance, PTL DEF IInv

\* The ids are a numbering from 0: no class is defined twice in the CSS.
THEOREM ClassesNumbered == Spec => []IdsDense
BY Invariance, PTL DEF IInv

\* A class name in the HTML is, at the end of the document, defined by one value
\* and that value is within Eps of the one it was emitted for.
THEOREM ClassesFaithful == Spec => []EmittedFaithful
BY Invariance, PTL DEF IInv

\* A class once defined keeps its id and its value.
THEOREM ClassesAreStable == Spec => ClassesStable
<1>1. ASSUME IInv, [Next]_vars
      PROVE  [\A k \in Installed : k \in DOMAIN value_map' /\ value_map'[k] = value_map[k]]_vars
  <2>1. ASSUME NEW v \in Values, Reuse(v)
        PROVE  \A k \in Installed : k \in DOMAIN value_map' /\ value_map'[k] = value_map[k]
    BY <2>1 DEF Reuse, Installed
  <2>2. ASSUME NEW v \in Values, Extend(v)
        PROVE  \A k \in Installed : k \in DOMAIN value_map' /\ value_map'[k] = value_map[k]
    <3>1. Candidate(v) = {}
      BY <2>2 DEF Extend
    <3>2. Near(v, v)
      BY ValuesAssumption, EpsAssumption DEF Near, Abs
    <3>3. v \notin Installed
      BY <3>1, <3>2, <1>1, CandidateComplete DEF IInv
    <3> QED
      BY <2>2, <3>3 DEF Extend, Installed
  <2> QED
    BY <1>1, <2>1, <2>2 DEF Next, install
<1> QED
  BY <1>1, Invariance, PTL DEF Spec, ClassesStable
=============================================================================
