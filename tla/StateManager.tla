---------------------------- MODULE StateManager ----------------------------
(***************************************************************************)
(* The table that turns a measured double (a left coordinate, a width, a   *)
(* letter space, ...) into the number of a reusable CSS class.             *)
(*                                                                         *)
(* The HTML of a page is written while the table still grows and the CSS   *)
(* is written only at the end of the document, so what must hold relates   *)
(* an old answer of install to the table as it is at the end.              *)
(***************************************************************************)
EXTENDS Integers, FiniteSets

CONSTANTS Values,   (* the doubles a page asks for, in units of one common scale *)
          Eps       (* values no farther than Eps are treated as equal           *)

ASSUME ValuesAssumption == Values \subseteq Int
ASSUME EpsAssumption == Eps \in Nat

VARIABLES value_map,   \* from an installed value to the id of its class
          emitted      \* history: the pairs (value asked for, id put in the HTML)

vars == <<value_map, emitted>>

-----------------------------------------------------------------------------

Abs(x) == IF x < 0 THEN -x ELSE x

Near(a, b) == Abs(a - b) <= Eps

Installed == DOMAIN value_map

\* std::map::lower_bound(x): the least key that is not below x, if there is one.
LowerBound(x) ==
  {k \in Installed : k >= x /\ \A m \in Installed : m >= x => k <= m}

(* Plausible slips in install, which the checks must notice: *)

\* The search starts at the value itself, missing a class just below it.
LowerBoundFromValue(v) == {k \in LowerBound(v) : Near(k, v)}

\* The candidate is taken without the distance test.
CandidateUnchecked(v) == LowerBound(v - Eps)

\* The one key install looks at.
Candidate(v) == {k \in LowerBound(v - Eps) : Near(k, v)}

Init ==
  /\ value_map = [k \in {} |-> 0]
  /\ emitted = {}

\* An existing class is close enough.
Reuse(v) ==
  \E k \in Candidate(v) :
    /\ emitted' = emitted \cup {[value |-> v, id |-> value_map[k]]}
    /\ UNCHANGED value_map

(* Plausible slips in numbering the class: *)

\* The new class gets the number of the last one.
ExtendWithLastId(v) ==
  LET id == Cardinality(Installed) - 1
  IN  /\ Candidate(v) = {}
      /\ value_map' = [k \in Installed \cup {v} |-> IF k = v THEN id ELSE value_map[k]]
      /\ emitted' = emitted \cup {[value |-> v, id |-> id]}

\* Ids are counted over the values that are not below the new one.
ExtendCountingAbove(v) ==
  LET id == Cardinality({k \in Installed : k >= v})
  IN  /\ Candidate(v) = {}
      /\ value_map' = [k \in Installed \cup {v} |-> IF k = v THEN id ELSE value_map[k]]
      /\ emitted' = emitted \cup {[value |-> v, id |-> id]}

\* Ids are recomputed in key order on every insertion.
ExtendRenumbering(v) ==
  LET keys == Installed \cup {v}
  IN  /\ Candidate(v) = {}
      /\ value_map' = [k \in keys |-> Cardinality({m \in keys : m < k})]
      /\ emitted' = emitted \cup {[value |-> v, id |-> value_map'[v]]}

\* A new class is numbered by the size of the map.
Extend(v) ==
  LET id == Cardinality(Installed)
  IN  /\ Candidate(v) = {}
      /\ value_map' = [k \in Installed \cup {v} |-> IF k = v THEN id ELSE value_map[k]]
      /\ emitted' = emitted \cup {[value |-> v, id |-> id]}

install(v) == Reuse(v) \/ Extend(v)

Next == \E v \in Values : install(v)

Spec == Init /\ [][Next]_vars

-----------------------------------------------------------------------------

\* The state keeps its type: the table maps finitely many values to ids
\* (StateManager::install).
TypeOK ==
  /\ Installed \subseteq Values
  /\ IsFiniteSet(Installed)
  /\ value_map \in [Installed -> Nat]
  /\ emitted \subseteq [value : Values, id : Nat]

\* Two classes are never mergeable: looking at the single key lower_bound returns
\* is enough to find a class within Eps whenever there is one.
Separated == \A a, b \in Installed : a # b => ~Near(a, b)

\* The ids are 0, 1, ..., one class each: the CSS never defines a class twice.
IdsDense ==
  /\ \A a, b \in Installed : value_map[a] = value_map[b] => a = b
  /\ \A a \in Installed : value_map[a] < Cardinality(Installed)

\* Every class name already in the HTML is defined by the table, by exactly one
\* value, and that value is within Eps of the one the HTML was written for.
EmittedFaithful ==
  \A e \in emitted :
    /\ \E k \in Installed : value_map[k] = e.id /\ Near(k, e.value)
    /\ \A k \in Installed : value_map[k] = e.id => Near(k, e.value)

\* Installing never redefines or renumbers a class.
ClassesStable ==
  [][\A k \in Installed : k \in DOMAIN value_map' /\ value_map'[k] = value_map[k]]_vars

=============================================================================
