-------------------------------- MODULE BBox --------------------------------
(***************************************************************************)
(* Bounding boxes of util/math.cc: quadruples <<x0, y0, x1, y1>> whose     *)
(* corners may come in either order, as a mirrored text matrix leaves them.*)
(***************************************************************************)
EXTENDS Integers

Lower(a, b) == IF a <= b THEN a ELSE b
Upper(a, b) == IF a <= b THEN b ELSE a

\* The overlap of two boxes on one axis is the open interval between the two.
OverlapFrom(p, q, axis) ==
  Upper(Lower(p[axis], p[axis + 2]), Lower(q[axis], q[axis + 2]))
OverlapTo(p, q, axis) ==
  Lower(Upper(p[axis], p[axis + 2]), Upper(q[axis], q[axis + 2]))

\* Boxes that only touch, and empty boxes, do not intersect.
bbox_intersect(p, q) ==
  \A axis \in {1, 2} : OverlapFrom(p, q, axis) < OverlapTo(p, q, axis)

\* The third argument of the code: the common part, when there is one.
bbox_common(p, q) ==
  << OverlapFrom(p, q, 1), OverlapFrom(p, q, 2), OverlapTo(p, q, 1), OverlapTo(p, q, 2) >>
=============================================================================
