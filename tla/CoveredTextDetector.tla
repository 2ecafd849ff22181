------------------------ MODULE CoveredTextDetector -------------------------
(***************************************************************************)
(* The covered text detector of a page, with the recursion of              *)
(* add_non_char_bbox as a stack of calls.                                  *)
(*                                                                         *)
(* Characters are numbered from 1.  A call [bbox, index, i] is an          *)
(* activation of add_non_char_bbox(bbox, index) whose loop looks next at   *)
(* character i; `index` characters were drawn before its graphic.          *)
(***************************************************************************)
EXTENDS BBox, Sequences, FiniteSets

CONSTANTS Boxes,        (* the bounding boxes that occur                *)
          MaxChars,     (* bound: characters on the page                *)
          MaxGraphics   (* bound: graphics on the page                  *)

ASSUME BoundsAssumption == MaxChars \in Nat /\ MaxGraphics \in Nat

VARIABLES char_bboxes,
          chars_covered,
          calls,          \* the activations of add_non_char_bbox, innermost last
          hidden,         \* history: the characters clipped away entirely
          graphics        \* history: the graphics reported so far

vars == <<char_bboxes, chars_covered, calls, hidden, graphics>>

Chars == 1 .. Len(char_bboxes)

Call(box, n) == [bbox |-> box, index |-> n, i |-> 1]

Depth == Len(calls)
Top == calls[Depth]

-----------------------------------------------------------------------------

Init ==
  /\ char_bboxes = <<>>
  /\ chars_covered = <<>>
  /\ calls = <<>>
  /\ hidden = {}
  /\ graphics = {}

reset ==
  /\ calls = <<>>
  /\ char_bboxes' = <<>>
  /\ chars_covered' = <<>>
  /\ hidden' = {}
  /\ graphics' = {}
  /\ UNCHANGED calls

add_char_bbox(box) ==
  /\ calls = <<>>
  /\ Len(char_bboxes) < MaxChars
  /\ char_bboxes' = Append(char_bboxes, box)
  /\ chars_covered' = Append(chars_covered, FALSE)
  /\ UNCHANGED <<calls, hidden, graphics>>

(* A plausible slip: a character that is clipped away does not count as covered. *)

ClippedButNotCovered(box, partially) ==
  /\ calls = <<>>
  /\ Len(char_bboxes) < MaxChars
  /\ char_bboxes' = Append(char_bboxes, box)
  /\ chars_covered' = Append(chars_covered, partially)
  /\ IF partially
     THEN calls' = Append(calls, Call(box, Len(char_bboxes))) /\ UNCHANGED hidden
     ELSE hidden' = hidden \cup {Len(char_bboxes) + 1} /\ UNCHANGED calls
  /\ UNCHANGED graphics

\* A clipped character is drawn in the background at once; when some of it is
\* visible it also covers what was drawn before it.
add_char_bbox_clipped(box, partially) ==
  /\ calls = <<>>
  /\ Len(char_bboxes) < MaxChars
  /\ char_bboxes' = Append(char_bboxes, box)
  /\ chars_covered' = Append(chars_covered, TRUE)
  /\ IF partially
     THEN calls' = Append(calls, Call(box, Len(char_bboxes))) /\ UNCHANGED hidden
     ELSE hidden' = hidden \cup {Len(char_bboxes) + 1} /\ UNCHANGED calls
  /\ UNCHANGED graphics

add_non_char_bbox(box) ==
  /\ calls = <<>>
  /\ Cardinality(graphics) < MaxGraphics
  /\ calls' = Append(calls, Call(box, Len(chars_covered)))
  /\ graphics' = graphics \cup {[bbox |-> box, after |-> Len(char_bboxes)]}
  /\ UNCHANGED <<char_bboxes, chars_covered, hidden>>

\* The innermost loop's character, while the loop runs, gets covered by this call.
Hits == ~chars_covered[Top.i] /\ bbox_intersect(char_bboxes[Top.i], Top.bbox)

\* The loop's i++.
Advanced == [calls EXCEPT ![Depth].i = @ + 1]

(* A plausible slip in the loop, which the checks must notice: *)

\* `continue` in a loop whose increment is at the end of its body.
SkipWithoutAdvance ==
  /\ calls # <<>>
  /\ Top.i <= Top.index
  /\ ~Hits
  /\ UNCHANGED vars

\* One iteration that covers nothing.
Skip ==
  /\ calls # <<>>
  /\ Top.i <= Top.index
  /\ ~Hits
  /\ calls' = Advanced
  /\ UNCHANGED <<char_bboxes, chars_covered, hidden, graphics>>

(* Plausible slips in the recursion: *)

\* The covered character is not treated as a graphic in turn.
CoverOnly ==
  /\ calls # <<>>
  /\ Top.i <= Top.index
  /\ Hits
  /\ chars_covered' = [chars_covered EXCEPT ![Top.i] = TRUE]
  /\ calls' = Advanced
  /\ UNCHANGED <<char_bboxes, hidden, graphics>>

\* The recursive call keeps the caller's index.
RecurseWithSameIndex ==
  /\ calls # <<>>
  /\ Top.i <= Top.index
  /\ Hits
  /\ chars_covered' = [chars_covered EXCEPT ![Top.i] = TRUE]
  /\ calls' = Append(Advanced, Call(char_bboxes[Top.i], Top.index))
  /\ UNCHANGED <<char_bboxes, hidden, graphics>>

\* The recursive call omits the index: the graphic counts as drawn last.
RecurseWithDefaultIndex ==
  /\ calls # <<>>
  /\ Top.i <= Top.index
  /\ Hits
  /\ chars_covered' = [chars_covered EXCEPT ![Top.i] = TRUE]
  /\ calls' = Append(Advanced, Call(char_bboxes[Top.i], Len(chars_covered)))
  /\ UNCHANGED <<char_bboxes, hidden, graphics>>

\* One iteration that covers its character and recurses: the character is now a
\* graphic, drawn after the characters before it.
CoverAndRecurse ==
  /\ calls # <<>>
  /\ Top.i <= Top.index
  /\ Hits
  /\ chars_covered' = [chars_covered EXCEPT ![Top.i] = TRUE]
  /\ calls' = Append(Advanced, Call(char_bboxes[Top.i], Top.i - 1))
  /\ UNCHANGED <<char_bboxes, hidden, graphics>>

Return ==
  /\ calls # <<>>
  /\ Top.i > Top.index
  /\ calls' = SubSeq(calls, 1, Depth - 1)
  /\ UNCHANGED <<char_bboxes, chars_covered, hidden, graphics>>

Run == Skip \/ CoverAndRecurse \/ Return

Next ==
  \/ reset
  \/ \E box \in Boxes :
       \/ add_char_bbox(box)
       \/ \E partially \in BOOLEAN : add_char_bbox_clipped(box, partially)
       \/ add_non_char_bbox(box)
  \/ Run

Spec == Init /\ [][Next]_vars

\* The detector runs in the drawing thread: a call that was made is executed.
FairSpec == Spec /\ WF_vars(Run)

-----------------------------------------------------------------------------

\* The state keeps its type: one flag for each character reported to the detector,
\* and a character the clip path removes counts as covered (add_char_bbox_clipped).
TypeOK ==
  /\ char_bboxes \in Seq(Boxes)
  /\ chars_covered \in Seq(BOOLEAN) /\ Len(chars_covered) = Len(char_bboxes)
  /\ hidden \subseteq Chars
  /\ \A i \in hidden : chars_covered[i]
  /\ graphics \subseteq [bbox : Boxes, after : 0 .. Len(char_bboxes)]
  /\ calls \in Seq([bbox : Boxes, index : Nat, i : Nat])

InBackground(i) == chars_covered[i] /\ i \notin hidden

\* Between two calls no text lies under anything the background paints over it:
\* not under a graphic, nor under a character that was moved there for any reason.
NothingPaintedOverText ==
  calls = <<>> =>
    \A j \in Chars : ~chars_covered[j] =>
      /\ \A g \in graphics :
           j <= g.after => ~bbox_intersect(char_bboxes[j], g.bbox)
      /\ \A i \in Chars :
           i > j /\ InBackground(i) => ~bbox_intersect(char_bboxes[j], char_bboxes[i])

\* The index strictly decreases from a call to the one it makes, so the recursion
\* is no deeper than the number of characters, and it ends.
CallsDescend ==
  /\ \A k \in 1 .. Depth - 1 : calls[k + 1].index < calls[k].index
  /\ Depth <= Len(char_bboxes) + 1

\* Nothing else moves to the background: every move is one PaintLayers calls for.
PL == INSTANCE PaintLayers
ImplementsPaintLayers == PL!Spec

\* Every report of a graphic comes to an end.
CallsReturn == calls # <<>> ~> calls = <<>>

-----------------------------------------------------------------------------
\* The inductive strengthening: what the calls in progress still owe.

\* A background item: its box, and how many characters were drawn before it.
Source(box, n) ==
  \/ \E g \in graphics : g.bbox = box /\ g.after = n
  \/ \E i \in Chars : InBackground(i) /\ char_bboxes[i] = box /\ n = i - 1

\* Every call in progress works for a background item, within the characters
\* before it, and calls are nested with decreasing indices.
CallsOK ==
  \A k \in 1 .. Depth :
    /\ Source(calls[k].bbox, calls[k].index)
    /\ calls[k].i >= 1
    /\ calls[k].index + k <= Len(char_bboxes) + 1

\* Character j is yet to be visited by the call made for the background item.
Ahead(box, n, j) ==
  \E k \in 1 .. Depth : calls[k].bbox = box /\ calls[k].index = n /\ calls[k].i <= j

\* So it is for every character still lying under a background item.
Pending ==
  \A box \in Boxes, n \in 0 .. Len(char_bboxes) : Source(box, n) =>
    \A j \in 1 .. n :
      ~chars_covered[j] /\ bbox_intersect(char_bboxes[j], box) => Ahead(box, n, j)

IInv == TypeOK /\ CallsOK /\ Pending /\ CallsDescend

=============================================================================
