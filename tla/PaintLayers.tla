----------------------------- MODULE PaintLayers ----------------------------
(***************************************************************************)
(* What the covered text detector promises to the two layers of a page.    *)
(*                                                                         *)
(* A page is an image (the background) under HTML text.  A character may   *)
(* stay text only while nothing that is painted into the background after  *)
(* it overlaps it; otherwise the text would come out above something that  *)
(* hides it in the PDF.  A character moved to the background is from then  *)
(* on a background item for the characters drawn before it.                *)
(*                                                                         *)
(* The specification allows any order of the moves, and only moves that    *)
(* are needed; the next item is accepted once no move is needed.           *)
(***************************************************************************)
EXTENDS BBox, Sequences

CONSTANT Boxes  (* the bounding boxes that occur *)

VARIABLES char_bboxes,    \* the boxes of the characters in drawing order
          chars_covered,  \* for each character: it is drawn in the background
          hidden,         \* the characters the clip path removes entirely
          graphics        \* the graphics: box, number of characters drawn before

vars == <<char_bboxes, chars_covered, hidden, graphics>>

Chars == 1 .. Len(char_bboxes)

\* A character that is really painted into the background.
InBackground(i) == chars_covered[i] /\ i \notin hidden

GraphicOver(j) ==
  \E g \in graphics : j <= g.after /\ bbox_intersect(char_bboxes[j], g.bbox)

CharOver(j) ==
  \E i \in Chars :
    /\ i > j
    /\ InBackground(i)
    /\ bbox_intersect(char_bboxes[j], char_bboxes[i])

MustCover(j) == ~chars_covered[j] /\ (GraphicOver(j) \/ CharOver(j))

Settled == \A j \in Chars : ~MustCover(j)

Init ==
  /\ char_bboxes = <<>>
  /\ chars_covered = <<>>
  /\ hidden = {}
  /\ graphics = {}

\* clip: the character is inside the clip path, partly inside it, or outside.
DrawChar(box, clip) ==
  /\ Settled
  /\ char_bboxes' = Append(char_bboxes, box)
  /\ chars_covered' = Append(chars_covered, clip # "inside")
  /\ hidden' = IF clip = "outside" THEN hidden \cup {Len(char_bboxes) + 1} ELSE hidden
  /\ UNCHANGED graphics

DrawGraphic(box) ==
  /\ Settled
  /\ graphics' = graphics \cup {[bbox |-> box, after |-> Len(char_bboxes)]}
  /\ UNCHANGED <<char_bboxes, chars_covered, hidden>>

Cover(j) ==
  /\ MustCover(j)
  /\ chars_covered' = [chars_covered EXCEPT ![j] = TRUE]
  /\ UNCHANGED <<char_bboxes, hidden, graphics>>

\* A new page.
Clear ==
  /\ Settled
  /\ char_bboxes' = <<>>
  /\ chars_covered' = <<>>
  /\ hidden' = {}
  /\ graphics' = {}

Next ==
  \/ \E box \in Boxes, clip \in {"inside", "partial", "outside"} : DrawChar(box, clip)
  \/ \E box \in Boxes : DrawGraphic(box)
  \/ \E j \in Chars : Cover(j)
  \/ Clear

Spec == Init /\ [][Next]_vars
=============================================================================
