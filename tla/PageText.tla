------------------------------ MODULE PageText ------------------------------
(***************************************************************************)
(* The order of the texts of a page: the comparison of two texts, sorting, *)
(* the removal of duplicates, and the rearrangement by a cluster tree.     *)
(*                                                                         *)
(* A text is [id, x, y]; y grows upwards.  A cluster tree is the sequence  *)
(* of its joins: node h joins two children, leaves (a text, counted from   *)
(* 0) or earlier nodes, that are close (at the threshold or above) or not. *)
(***************************************************************************)
EXTENDS Integers, SequencesExt

CONSTANT Tolerance  (* coordinates no farther apart are the same *)

ASSUME ToleranceAssumption == Tolerance \in Nat

Sign(d) == IF d > Tolerance THEN 1 ELSE IF d < -Tolerance THEN -1 ELSE 0

\* Top to bottom, then left to right.  Not transitive: three texts in a row can be
\* equal from one to the next and differ from the first to the last.
compareTo(s, t) ==
  LET down == -Sign(s.y - t.y)
  IN  IF down = 0 THEN Sign(s.x - t.x) ELSE down

Before(s, t) == compareTo(s, t) < 0
Duplicate(s, t) == compareTo(s, t) = 0

-----------------------------------------------------------------------------
\* Collections.sort of the JDK on a short list: the run at the start, reversed when
\* it descends, is extended by binary insertion.

InitialRun(c) ==
  LET descends == Len(c) > 1 /\ Before(c[2], c[1])
      fits(k) == Before(c[k], c[k - 1]) = descends
      length == CHOOSE n \in 1 .. Len(c) :
                  /\ \A k \in 2 .. n : fits(k)
                  /\ n < Len(c) => ~fits(n + 1)
      run == SubSeq(c, 1, length)
  IN  IF descends THEN Reverse(run) ELSE run

\* The place binary search finds for a text: after those it does not precede.
Place(sorted, text) ==
  LET search[range \in (0 .. Len(sorted)) \X (0 .. Len(sorted))] ==
        LET left == range[1]
            right == range[2]
            mid == (left + right) \div 2
        IN  IF left >= right THEN left + 1
            ELSE IF Before(text, sorted[mid + 1]) THEN search[<<left, mid>>]
                                                  ELSE search[<<mid + 1, right>>]
  IN  search[<<0, Len(sorted)>>]

\* The texts after the run, up to each one, are inserted in turn.
Sorted(c) ==
  LET run == InitialRun(c)
      sorted[k \in Len(run) .. Len(c)] ==
        IF k = Len(run) THEN run
        ELSE InsertAt(sorted[k - 1], Place(sorted[k - 1], c[k]), c[k])
  IN  IF c = <<>> THEN <<>> ELSE sorted[Len(c)]

-----------------------------------------------------------------------------

Without(c, ids) ==
  LET kept[k \in 0 .. Len(c)] ==
        IF k = 0 THEN <<>>
        ELSE IF c[k].id \in ids THEN kept[k - 1] ELSE Append(kept[k - 1], c[k])
  IN  kept[Len(c)]

(* A plausible slip: a text is compared with its neighbour's neighbour. *)

removeDuplicatesSkipping(c) ==
  LET n == Len(c)
      marked[at \in (1 .. n + 1) \X (1 .. n + 3)] ==
        LET i == at[1]
            j == at[2]
        IN  IF i > n \/ j > n THEN {}
            ELSE IF Duplicate(c[i], c[j]) THEN {c[j].id} \cup marked[<<i, j + 1>>]
                                          ELSE marked[<<i + 1, i + 3>>]
  IN  Without(c, marked[<<1, 2>>])

\* A text is compared with those after it up to the first that differs; the walk goes
\* on with its neighbour, though that may have been marked itself.
removeDuplicates(c) ==
  LET n == Len(c)
      marked[at \in (1 .. n + 1) \X (1 .. n + 2)] ==
        LET i == at[1]
            j == at[2]
        IN  IF i > n \/ j > n THEN {}
            ELSE IF Duplicate(c[i], c[j]) THEN {c[j].id} \cup marked[<<i, j + 1>>]
                                          ELSE marked[<<i + 1, i + 2>>]
  IN  Without(c, marked[<<1, 2>>])

-----------------------------------------------------------------------------
\* The texts a subtree returns form a group when its parent does not join them; null,
\* the empty sequence here, forms none.
Group(points) == IF points = <<>> THEN <<>> ELSE << points >>

(* A plausible slip: the right child is looked at only if there is no left group. *)
UnjoinedOneSided(left, right) ==
  left.groups \o right.groups \o
    (IF left.points # <<>> THEN Group(left.points) ELSE Group(right.points))

Unjoined(left, right) ==
  left.groups \o right.groups \o Group(left.points) \o Group(right.points)

\* recurseTree: what a subtree adds to the cluster groups, and the texts it returns,
\* if all its joins are close, for its parent to join.
Subtrees(gtr, content) ==
  LET result[h \in DOMAIN gtr] ==
        LET child(c) == IF c.leaf
                        THEN [groups |-> <<>>, points |-> << content[c.index + 1] >>]
                        ELSE result[c.index]
            left == child(gtr[h].left)
            right == child(gtr[h].right)
        IN  IF gtr[h].close /\ left.points # <<>> /\ right.points # <<>>
            THEN [groups |-> <<>>, points |-> left.points \o right.points]
            ELSE [groups |-> Unjoined(left, right), points |-> <<>>]
  IN  result

\* The root is the node with the highest number; what it returns is not used.
parseGTR(gtr, content) == Subtrees(gtr, content)[Len(gtr)].groups

\* A text without content stands for each group, at the place of the group's first.
calculatePrimaryNodesAsIndexNodes(groups) ==
  [g \in DOMAIN groups |-> [id |-> g, x |-> groups[g][1].x, y |-> groups[g][1].y]]

(* A plausible slip: the groups stay in the order of the tree. *)
serializeUnordered(groups) ==
  FlattenSeq([g \in DOMAIN groups |-> Sorted(groups[g])])

\* The groups come in the order of their first texts, each in its own order.
serialize(groups) ==
  LET sorted == [g \in DOMAIN groups |-> Sorted(groups[g])]
      indexNodes == Sorted(calculatePrimaryNodesAsIndexNodes(sorted))
  IN  FlattenSeq([k \in DOMAIN groups |-> Sorted(sorted[indexNodes[k].id])])
=============================================================================
