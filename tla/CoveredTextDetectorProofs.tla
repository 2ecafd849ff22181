---------------------- MODULE CoveredTextDetectorProofs ---------------------
(***************************************************************************)
(* The detector's recursion, for every set of boxes and any page.          *)
(*                                                                         *)
(* IInv says what the calls in progress still owe: a character lying under *)
(* a background item (Source) that is not covered yet is ahead of the loop *)
(* of the call made for that item (Pending).  When no call is in progress  *)
(* nothing is owed, which is NothingPaintedOverText; and because every     *)
(* call works for a background item (CallsOK), each character it covers is *)
(* one PaintLayers wants covered.                                          *)
(***************************************************************************)
EXTENDS CoveredTextDetector, SequenceTheorems, TLAPS

\* Covering one more visible character adds exactly one background item.
LEMMA SourceAfterCover ==
  ASSUME TypeOK, NEW c \in Chars, ~chars_covered[c],
         chars_covered' = [chars_covered EXCEPT ![c] = TRUE],
         UNCHANGED <<char_bboxes, hidden, graphics>>,
         NEW box, NEW n
  PROVE  Source(box, n)' <=> Source(box, n) \/ (box = char_bboxes[c] /\ n = c - 1)
<1>1. c \notin hidden
  BY DEF TypeOK
<1>2. /\ chars_covered'[c] = TRUE
      /\ \A i \in Chars : i # c => chars_covered'[i] = chars_covered[i]
  BY DEF TypeOK, Chars
<1>3. \A i \in Chars : InBackground(i)' <=> InBackground(i) \/ i = c
  BY <1>1, <1>2, Zenon DEF InBackground
<1> QED
  BY <1>3 DEF Source, Chars

\* A new character leaves the earlier background items alone.
LEMMA SourceAfterAppend ==
  ASSUME TypeOK, NEW box \in Boxes, NEW covered \in BOOLEAN, NEW hide \in BOOLEAN,
         char_bboxes' = Append(char_bboxes, box),
         chars_covered' = Append(chars_covered, covered),
         hidden' = IF hide THEN hidden \cup {Len(char_bboxes) + 1} ELSE hidden,
         graphics' = graphics,
         NEW b, NEW n
  PROVE  Source(b, n)' <=> \/ Source(b, n)
                           \/ covered /\ ~hide /\ b = box /\ n = Len(char_bboxes)
<1>1. PICK last \in Nat : last = Len(char_bboxes) + 1
  BY DEF TypeOK
<1>2. /\ Chars' = Chars \cup {last}
      /\ last \notin Chars
      /\ last - 1 = Len(char_bboxes)
  BY <1>1 DEF Chars, TypeOK
<1>3. /\ \A i \in Chars : char_bboxes'[i] = char_bboxes[i]
      /\ char_bboxes'[last] = box
  BY <1>1 DEF Chars, TypeOK
<1>4. /\ \A i \in Chars : chars_covered'[i] = chars_covered[i]
      /\ chars_covered'[last] = covered
  BY <1>1 DEF Chars, TypeOK
<1>5. /\ \A i \in Chars : InBackground(i)' <=> InBackground(i)
      /\ InBackground(last)' <=> covered /\ ~hide
  <2>1. \A i \in Chars : i \in hidden' <=> i \in hidden
    BY <1>1, <1>2
  <2>2. last \in hidden' <=> hide
    BY <1>1, <1>2 DEF TypeOK
  <2> QED
    BY <1>4, <2>1, <2>2, Zenon DEF InBackground
<1>6. (\E i \in Chars' : InBackground(i)' /\ char_bboxes'[i] = b /\ n = i - 1)
        <=> \/ \E i \in Chars : InBackground(i) /\ char_bboxes[i] = b /\ n = i - 1
            \/ covered /\ ~hide /\ b = box /\ n = Len(char_bboxes)
  BY <1>2, <1>3, <1>5, Zenon
<1> QED
  BY <1>6 DEF Source

-----------------------------------------------------------------------------

LEMMA InitIInv == Init => IInv
BY DEF Init, IInv, TypeOK, CallsOK, Pending, Ahead, CallsDescend, Source, InBackground, Chars, Depth

LEMMA SourceRange ==
  ASSUME TypeOK, NEW box, NEW n, Source(box, n)
  PROVE  box \in Boxes /\ n \in 0 .. Len(char_bboxes)
<1>1. CASE \E g \in graphics : g.bbox = box /\ g.after = n
  BY <1>1 DEF TypeOK
<1>2. CASE \E i \in Chars : InBackground(i) /\ char_bboxes[i] = box /\ n = i - 1
  BY <1>2 DEF TypeOK, Chars
<1> QED
  BY <1>1, <1>2 DEF Source

\* Between calls every character under a background item is covered.
LEMMA IdleOwesNothing ==
  ASSUME TypeOK, Pending, calls = <<>>,
         NEW box, NEW n, Source(box, n), NEW j \in 1 .. n,
         bbox_intersect(char_bboxes[j], box)
  PROVE  chars_covered[j]
<1>1. box \in Boxes /\ n \in 0 .. Len(char_bboxes)
  BY SourceRange
<1> QED
  BY <1>1 DEF Pending, Ahead, Depth

\* A character is appended between calls; a partly visible one starts a call.
LEMMA AppendStep ==
  ASSUME IInv, calls = <<>>,
         NEW box \in Boxes, NEW covered \in BOOLEAN, NEW hide \in BOOLEAN,
         hide => covered,
         char_bboxes' = Append(char_bboxes, box),
         chars_covered' = Append(chars_covered, covered),
         hidden' = IF hide THEN hidden \cup {Len(char_bboxes) + 1} ELSE hidden,
         graphics' = graphics,
         calls' = IF covered /\ ~hide
                  THEN Append(calls, Call(box, Len(char_bboxes))) ELSE calls
  PROVE  IInv'
<1> USE DEF IInv
<1>1. \A b, n : Source(b, n)' <=> \/ Source(b, n)
                                  \/ covered /\ ~hide /\ b = box /\ n = Len(char_bboxes)
  BY SourceAfterAppend
<1>2. Len(char_bboxes') = Len(char_bboxes) + 1 /\ Len(char_bboxes) \in Nat
  BY DEF TypeOK
<1>3. \A j \in 1 .. Len(char_bboxes) :
         char_bboxes'[j] = char_bboxes[j] /\ chars_covered'[j] = chars_covered[j]
  BY DEF TypeOK
<1>4. chars_covered'[Len(char_bboxes) + 1] = covered
  BY DEF TypeOK
<1>5. CASE covered /\ ~hide
  <2>1. Len(calls') = 1 /\ calls'[1] = Call(box, Len(char_bboxes))
    BY <1>5 DEF TypeOK
  <2>2. calls' \in Seq([bbox : Boxes, index : Nat, i : Nat])
    BY <1>5, <1>2 DEF TypeOK, Call
  <2>3. TypeOK'
    BY <2>2, <1>5, <1>2, <1>3 DEF TypeOK, Chars
  <2>4. CallsOK'
    BY <2>1, <1>1, <1>2, <1>5 DEF CallsOK, Depth, Call
  <2>5. CallsDescend'
    BY <2>1, <1>2 DEF CallsDescend, Depth
  <2>6. Pending'
    <3> SUFFICES ASSUME NEW b \in Boxes, NEW n \in 0 .. Len(char_bboxes'),
                        Source(b, n)', NEW j \in 1 .. n,
                        ~chars_covered'[j], bbox_intersect(char_bboxes'[j], b)
                 PROVE  Ahead(b, n, j)'
      BY DEF Pending
    <3>1. CASE Source(b, n)
      <4>1. j \in 1 .. Len(char_bboxes)
        BY <3>1, SourceRange, <1>2
      <4> QED
        BY <3>1, <4>1, <1>3, IdleOwesNothing
    <3>2. CASE b = box /\ n = Len(char_bboxes)
      BY <3>2, <2>1, <1>2 DEF Call, Ahead, Depth
    <3> QED
      BY <3>1, <3>2, <1>1
  <2> QED
    BY <2>3, <2>4, <2>5, <2>6
<1>6. CASE ~(covered /\ ~hide)
  <2>1. calls' = <<>> /\ \A b, n : Source(b, n)' <=> Source(b, n)
    BY <1>1, <1>6
  <2>2. TypeOK'
    <3>1. hidden' \subseteq hidden \cup {Len(char_bboxes) + 1}
      OBVIOUS
    <3>2. hidden' \subseteq Chars'
      <4> SUFFICES ASSUME NEW h \in hidden' PROVE h \in Chars'
        OBVIOUS
      <4> QED
        BY <3>1, <1>2 DEF TypeOK, Chars
    <3>3. \A i \in hidden' : chars_covered'[i]
      BY <1>2, <1>3, <1>4 DEF TypeOK, Chars
    <3>4. /\ char_bboxes' \in Seq(Boxes)
          /\ chars_covered' \in Seq(BOOLEAN)
          /\ Len(chars_covered') = Len(char_bboxes')
          /\ graphics' \subseteq [bbox : Boxes, after : 0 .. Len(char_bboxes')]
      BY <1>2 DEF TypeOK
    <3>5. calls' \in Seq([bbox : Boxes, index : Nat, i : Nat])
      BY <2>1
    <3> QED
      BY <3>2, <3>3, <3>4, <3>5 DEF TypeOK
  <2>3. CallsOK' /\ CallsDescend'
    BY <2>1, <1>2 DEF CallsOK, CallsDescend, Depth
  <2>4. Pending'
    <3> SUFFICES ASSUME NEW b \in Boxes, NEW n \in 0 .. Len(char_bboxes'),
                        Source(b, n), NEW j \in 1 .. n,
                        ~chars_covered'[j], bbox_intersect(char_bboxes'[j], b)
                 PROVE  FALSE
      BY <2>1 DEF Pending
    <3>1. j \in 1 .. Len(char_bboxes)
      BY SourceRange, <1>2
    <3> QED
      BY <3>1, <1>3, IdleOwesNothing
  <2> QED
    BY <2>2, <2>3, <2>4
<1> QED
  BY <1>5, <1>6

LEMMA ResetStep == IInv /\ reset => IInv'
BY DEF IInv, reset, TypeOK, CallsOK, Pending, Ahead, CallsDescend, Source, InBackground, Chars, Depth

\* A graphic is reported between calls, and a call is made for it.
LEMMA GraphicStep ==
  ASSUME IInv, NEW box \in Boxes, add_non_char_bbox(box)
  PROVE  IInv'
<1> USE DEF IInv
<1>1. /\ Len(char_bboxes) \in Nat
      /\ calls = <<>>
      /\ UNCHANGED <<char_bboxes, chars_covered, hidden>>
      /\ graphics' = graphics \cup {[bbox |-> box, after |-> Len(char_bboxes)]}
      /\ calls' = <<[bbox |-> box, index |-> Len(char_bboxes), i |-> 1]>>
  BY DEF add_non_char_bbox, TypeOK, Call
<1>2. \A b, n : Source(b, n)' <=> Source(b, n) \/ (b = box /\ n = Len(char_bboxes))
  <2> TAKE b, n
  <2> PICK new : new = [bbox |-> box, after |-> Len(char_bboxes)]
    OBVIOUS
  <2>1. graphics' = graphics \cup {new} /\ new.bbox = box /\ new.after = Len(char_bboxes)
    BY <1>1
  <2>2. (\E g \in graphics' : g.bbox = b /\ g.after = n)
                    <=> \/ \E g \in graphics : g.bbox = b /\ g.after = n
                        \/ b = box /\ n = Len(char_bboxes)
    BY <2>1, Zenon
  <2>3. Chars' = Chars /\ \A i : InBackground(i)' <=> InBackground(i)
    BY <1>1, Zenon DEF InBackground, Chars
  <2>4. (\E i \in Chars' : InBackground(i)' /\ char_bboxes'[i] = b /\ n = i - 1)
                    <=> \E i \in Chars : InBackground(i) /\ char_bboxes[i] = b /\ n = i - 1
    BY <1>1, <2>3, Zenon
  <2> QED
    BY <2>2, <2>4 DEF Source
<1>3. TypeOK'
  <2>1. calls' \in Seq([bbox : Boxes, index : Nat, i : Nat])
    BY <1>1
  <2> QED
    BY <1>1, <2>1 DEF TypeOK, Chars
<1>4. Depth' = 1 /\ calls'[1] = [bbox |-> box, index |-> Len(char_bboxes), i |-> 1]
  BY <1>1 DEF Depth
<1>5. CallsOK' /\ CallsDescend'
  BY <1>1, <1>2, <1>4 DEF CallsOK, CallsDescend
<1>6. Pending'
  <2> SUFFICES ASSUME NEW b \in Boxes, NEW n \in 0 .. Len(char_bboxes),
                      Source(b, n)', NEW j \in 1 .. n,
                      ~chars_covered[j], bbox_intersect(char_bboxes[j], b)
               PROVE  Ahead(b, n, j)'
    BY <1>1 DEF Pending
  <2>1. CASE Source(b, n)
    BY <1>1, <2>1, IdleOwesNothing
  <2>2. CASE b = box /\ n = Len(char_bboxes)
    BY <2>2, <1>4 DEF Ahead
  <2> QED
    BY <2>1, <2>2, <1>2
<1> QED
  BY <1>3, <1>5, <1>6

-----------------------------------------------------------------------------
\* The steps of the calls in progress.

LEMMA TopIsACall ==
  ASSUME IInv, calls # <<>>
  PROVE  /\ Depth \in Nat \ {0}
         /\ Top \in [bbox : Boxes, index : Nat, i : Nat]
         /\ Top.i >= 1
         /\ Top.index + Depth <= Len(char_bboxes) + 1
         /\ Source(Top.bbox, Top.index)
<1>1. Depth \in Nat \ {0} /\ Top \in [bbox : Boxes, index : Nat, i : Nat]
  <2> DEFINE CallSet == [bbox : Boxes, index : Nat, i : Nat]
  <2> HIDE DEF CallSet
  <2>1. calls \in Seq(CallSet)
    BY DEF IInv, TypeOK, CallSet
  <2>2. Len(calls) \in Nat \ {0} /\ calls[Len(calls)] \in CallSet
    BY <2>1
  <2> QED
    BY <2>2 DEF Depth, Top, CallSet
<1> QED
  BY <1>1 DEF IInv, CallsOK, Top

\* The rest of the calls when the innermost loop goes to its next character.
LEMMA Advance ==
  ASSUME IInv, calls # <<>>
  PROVE  /\ Advanced \in Seq([bbox : Boxes, index : Nat, i : Nat])
         /\ Len(Advanced) = Depth
         /\ \A k \in 1 .. Depth :
              /\ Advanced[k].bbox = calls[k].bbox
              /\ Advanced[k].index = calls[k].index
              /\ Advanced[k].i = IF k = Depth THEN Top.i + 1 ELSE calls[k].i
              /\ Advanced[k].i >= 1
<1> DEFINE CallSet == [bbox : Boxes, index : Nat, i : Nat]
<1> PICK advanced : advanced = [bbox |-> Top.bbox, index |-> Top.index, i |-> Top.i + 1]
  OBVIOUS
<1>1. /\ Depth \in 1 .. Len(calls)
      /\ Depth = Len(calls)
      /\ calls \in Seq(CallSet)
      /\ Top \in CallSet
  BY TopIsACall DEF IInv, TypeOK, Depth
<1>2. advanced \in CallSet
  BY TopIsACall
<1>3. Advanced = [calls EXCEPT ![Depth] = advanced]
  <2>1. [Top EXCEPT !.i = @ + 1] = advanced
    BY TopIsACall
  <2> QED
    BY <2>1 DEF Top, Advanced
<1>4. /\ Advanced \in Seq(CallSet)
      /\ Len(Advanced) = Depth
      /\ \A k \in 1 .. Depth : Advanced[k] = IF k = Depth THEN advanced ELSE calls[k]
  <2> HIDE DEF CallSet
  <2> QED
    BY <1>1, <1>2, <1>3, ExceptSeq
<1>5. \A k \in 1 .. Depth : calls[k] \in CallSet /\ calls[k].i >= 1
  <2> HIDE DEF CallSet
  <2>1. \A k \in 1 .. Depth : calls[k] \in CallSet
    BY <1>1
  <2> QED
    BY <2>1 DEF IInv, CallsOK
<1>6. ASSUME NEW k \in 1 .. Depth
      PROVE  /\ Advanced[k].bbox = calls[k].bbox
             /\ Advanced[k].index = calls[k].index
             /\ Advanced[k].i = IF k = Depth THEN Top.i + 1 ELSE calls[k].i
             /\ Advanced[k].i >= 1
  <2>1. CASE k = Depth
    BY <1>1, <1>4, <1>5, <2>1 DEF Top
  <2>2. CASE k # Depth
    BY <1>4, <1>5, <2>2
  <2> QED
    BY <2>1, <2>2
<1> QED
  BY <1>4, <1>6

\* Passing a character that is covered, or that the innermost call's graphic does
\* not touch, forgets nothing.
LEMMA StillAhead ==
  ASSUME IInv, calls # <<>>,
         NEW box, NEW n, NEW j \in Nat, Ahead(box, n, j),
         ~ (j = Top.i /\ Top.bbox = box)
  PROVE  \E k \in 1 .. Depth :
           Advanced[k].bbox = box /\ Advanced[k].index = n /\ Advanced[k].i <= j
<1>1. \A k \in 1 .. Depth :
        /\ Advanced[k].bbox = calls[k].bbox
        /\ Advanced[k].index = calls[k].index
        /\ Advanced[k].i = IF k = Depth THEN Top.i + 1 ELSE calls[k].i
  BY Advance
<1>2. PICK k \in 1 .. Depth : calls[k].bbox = box /\ calls[k].index = n /\ calls[k].i <= j
  BY DEF Ahead
<1>3. Advanced[k].i <= j
  BY <1>1, <1>2, TopIsACall DEF Top
<1> QED
  BY <1>1, <1>2, <1>3

LEMMA SkipStep == IInv /\ Skip => IInv'
<1> SUFFICES ASSUME IInv, Skip PROVE IInv'
  OBVIOUS
<1> USE DEF IInv
<1>1. /\ calls # <<>>
      /\ ~Hits
      /\ calls' = Advanced
      /\ UNCHANGED <<char_bboxes, chars_covered, hidden, graphics>>
  BY DEF Skip
<1>2. calls' \in Seq([bbox : Boxes, index : Nat, i : Nat])
  BY <1>1, Advance
<1>3. /\ Depth' = Depth
      /\ \A k \in 1 .. Depth : /\ calls'[k].bbox = calls[k].bbox
                               /\ calls'[k].index = calls[k].index
                               /\ calls'[k].i >= 1
  BY <1>1, Advance DEF Depth
<1>4. \A b, n : Source(b, n)' <=> Source(b, n)
  BY <1>1 DEF Source, InBackground, Chars
<1>5. TypeOK'
  BY <1>1, <1>2 DEF TypeOK, Chars
<1>6. CallsOK' /\ CallsDescend'
  BY <1>1, <1>3, <1>4 DEF CallsOK, CallsDescend, Depth, TypeOK
<1>7. Pending'
  <2> SUFFICES ASSUME NEW b \in Boxes, NEW n \in 0 .. Len(char_bboxes),
                      Source(b, n), NEW j \in 1 .. n,
                      ~chars_covered[j], bbox_intersect(char_bboxes[j], b)
               PROVE  Ahead(b, n, j)'
    BY <1>1, <1>4 DEF Pending
  <2>1. Ahead(b, n, j) /\ j \in Nat
    BY DEF Pending
  <2>2. ~ (j = Top.i /\ Top.bbox = b)
    BY <1>1 DEF Hits
  <2>3. \E k \in 1 .. Depth : calls'[k].bbox = b /\ calls'[k].index = n /\ calls'[k].i <= j
    BY <1>1, <2>1, <2>2, StillAhead
  <2> QED
    BY <1>3, <2>3 DEF Ahead
<1> QED
  BY <1>5, <1>6, <1>7

\* Covering character c starts a call for it, one level deeper.
LEMMA CoverStep == IInv /\ CoverAndRecurse => IInv'
<1> SUFFICES ASSUME IInv, CoverAndRecurse PROVE IInv'
  OBVIOUS
<1> USE DEF IInv
<1> PICK c \in Nat : c = Top.i
  BY TopIsACall DEF CoverAndRecurse
<1> PICK rest : rest = Advanced
  OBVIOUS
<1> PICK new : new = [bbox |-> char_bboxes[c], index |-> c - 1, i |-> 1]
  OBVIOUS
<1>1. /\ calls # <<>>
      /\ c <= Top.index
      /\ ~chars_covered[c]
      /\ chars_covered' = [chars_covered EXCEPT ![c] = TRUE]
      /\ calls' = Append(rest, new)
      /\ UNCHANGED <<char_bboxes, hidden, graphics>>
  BY DEF CoverAndRecurse, Hits, Call
<1>2. c \in Chars /\ c >= 1 /\ c + Depth <= Len(char_bboxes) + 1 /\ Depth \in Nat \ {0}
  <2>1. /\ Depth \in Nat \ {0} /\ Top.index \in Nat
        /\ Top.index + Depth <= Len(char_bboxes) + 1
        /\ c >= 1
    BY <1>1, TopIsACall
  <2>2. Len(char_bboxes) \in Nat
    BY DEF TypeOK
  <2> QED
    BY <1>1, <2>1, <2>2 DEF Chars
<1> PICK d \in Nat \ {0} : d = Depth
  BY <1>2
<1>3. /\ rest \in Seq([bbox : Boxes, index : Nat, i : Nat])
      /\ Len(rest) = d
      /\ \A k \in 1 .. d : /\ rest[k].bbox = calls[k].bbox
                           /\ rest[k].index = calls[k].index
                           /\ rest[k].i >= 1
  BY <1>1, Advance
<1>4. new \in [bbox : Boxes, index : Nat, i : Nat]
  BY <1>2 DEF TypeOK, Chars
<1>5. /\ calls' \in Seq([bbox : Boxes, index : Nat, i : Nat])
      /\ Depth' = d + 1
      /\ calls'[d + 1] = new
      /\ \A k \in 1 .. d : calls'[k] = rest[k]
  BY <1>1, <1>3, <1>4, AppendProperties DEF Depth
<1>6. \A b, n : Source(b, n)' <=> Source(b, n) \/ (b = char_bboxes[c] /\ n = c - 1)
  BY <1>1, <1>2, SourceAfterCover
<1>7. TypeOK'
  <2>1. chars_covered' \in Seq(BOOLEAN) /\ Len(chars_covered') = Len(char_bboxes)
    <3>1. chars_covered \in Seq(BOOLEAN) /\ Len(chars_covered) = Len(char_bboxes)
      BY DEF TypeOK
    <3>2. c \in 1 .. Len(chars_covered)
      BY <1>2, <3>1 DEF Chars
    <3> QED
      BY <1>1, <3>1, <3>2
  <2>2. \A i \in hidden : chars_covered'[i]
    BY <1>1, <1>2 DEF TypeOK, Chars
  <2> QED
    BY <1>1, <1>5, <2>1, <2>2 DEF TypeOK, Chars
<1>8. ASSUME NEW k \in 1 .. d
      PROVE  /\ k \in 1 .. d + 1
             /\ calls'[k] = rest[k]
             /\ calls'[k].bbox = calls[k].bbox
             /\ calls'[k].index = calls[k].index
             /\ calls'[k].i >= 1
  <2>1. calls'[k] = rest[k]
    BY <1>5
  <2> QED
    BY <1>3, <2>1
<1>9. CallsOK'
  <2> SUFFICES ASSUME NEW k \in 1 .. d + 1, NEW b, NEW n,
                      b = calls'[k].bbox, n = calls'[k].index
               PROVE  /\ Source(b, n)'
                      /\ calls'[k].i >= 1
                      /\ n + k <= Len(char_bboxes) + 1
    BY <1>1, <1>5 DEF CallsOK
  <2>1. CASE k = d + 1
    <3>1. b = char_bboxes[c] /\ n = c - 1 /\ calls'[k].i = 1
      BY <2>1, <1>5
    <3>2. Source(b, n)'
      BY <3>1, <1>6
    <3> QED
      BY <2>1, <3>1, <3>2, <1>2
  <2>2. CASE k \in 1 .. d
    <3>1. Source(b, n) /\ n + k <= Len(char_bboxes) + 1
      BY <2>2, <1>8 DEF CallsOK
    <3> QED
      BY <2>2, <3>1, <1>6, <1>8
  <2> QED
    BY <2>1, <2>2
<1>10. CallsDescend'
  <2>1. ASSUME NEW k \in 1 .. d PROVE calls'[k + 1].index < calls'[k].index
    <3>1. CASE k = d
      <4>1. calls'[k + 1].index = c - 1
        BY <3>1, <1>5
      <4>2. calls'[k].index = Top.index /\ Top.index \in Nat
        BY <3>1, <1>1, <1>8, TopIsACall DEF Top
      <4> QED
        BY <4>1, <4>2, <1>1
    <3>2. CASE k < d
      <4>1. /\ calls'[k + 1].index = calls[k + 1].index
            /\ calls'[k].index = calls[k].index
        BY <3>2, <1>8
      <4>2. calls[k + 1].index < calls[k].index
        BY <3>2 DEF CallsDescend
      <4> QED
        BY <4>1, <4>2
    <3> QED
      BY <3>1, <3>2
  <2> QED
    <3>1. d + 1 <= Len(char_bboxes') + 1
      <4>1. Len(char_bboxes) \in Nat
        BY DEF TypeOK
      <4> QED
        BY <1>1, <1>2, <4>1
    <3>2. \A k \in 1 .. Depth' - 1 : calls'[k + 1].index < calls'[k].index
      BY <1>5, <2>1
    <3> QED
      BY <1>5, <3>1, <3>2 DEF CallsDescend
<1>11. Pending'
  <2> SUFFICES ASSUME NEW b \in Boxes, NEW n \in 0 .. Len(char_bboxes),
                      Source(b, n)', NEW j \in 1 .. n,
                      ~chars_covered'[j], bbox_intersect(char_bboxes[j], b)
               PROVE  Ahead(b, n, j)'
    BY <1>1 DEF Pending
  <2>1. j # c /\ ~chars_covered[j]
    <3>1. j \in 1 .. Len(chars_covered) /\ c \in 1 .. Len(chars_covered)
      BY <1>2 DEF TypeOK, Chars
    <3>2. chars_covered' = [chars_covered EXCEPT ![c] = TRUE] /\ ~chars_covered'[j]
      BY <1>1
    <3>3. DOMAIN chars_covered = 1 .. Len(chars_covered)
      BY DEF TypeOK
    <3>4. chars_covered'[c] = TRUE /\ (j # c => chars_covered'[j] = chars_covered[j])
      BY <3>1, <3>2, <3>3
    <3> QED
      BY <3>2, <3>4
  <2>2. CASE Source(b, n)
    <3>1. Ahead(b, n, j) /\ j \in Nat
      BY <2>1, <2>2 DEF Pending
    <3>2. PICK k \in 1 .. d : rest[k].bbox = b /\ rest[k].index = n /\ rest[k].i <= j
      BY <1>1, <2>1, <3>1, StillAhead
    <3>3. k \in 1 .. d + 1 /\ calls'[k] = rest[k]
      BY <1>8
    <3> QED
      BY <1>5, <3>2, <3>3 DEF Ahead
  <2>3. CASE b = char_bboxes[c] /\ n = c - 1
    <3>1. d + 1 \in 1 .. d + 1 /\ calls'[d + 1] = new
      BY <1>5
    <3>2. new.bbox = b /\ new.index = n /\ new.i <= j
      BY <2>3
    <3> QED
      BY <1>5, <3>1, <3>2 DEF Ahead
  <2> QED
    BY <1>6, <2>2, <2>3
<1> QED
  BY <1>7, <1>9, <1>10, <1>11

\* A call that returns has visited every character it was made for.
LEMMA ReturnStep == IInv /\ Return => IInv'
<1> SUFFICES ASSUME IInv, Return PROVE IInv'
  OBVIOUS
<1> USE DEF IInv
<1>1. /\ calls # <<>>
      /\ Top.i > Top.index
      /\ calls' = SubSeq(calls, 1, Depth - 1)
      /\ UNCHANGED <<char_bboxes, chars_covered, hidden, graphics>>
  BY DEF Return
<1>2. Depth \in Nat \ {0} /\ Top \in [bbox : Boxes, index : Nat, i : Nat]
  BY <1>1, TopIsACall
<1>3. /\ calls' \in Seq([bbox : Boxes, index : Nat, i : Nat])
      /\ Depth' = Depth - 1
      /\ \A k \in 1 .. Depth - 1 : calls'[k] = calls[k]
  <2> DEFINE CallSet == [bbox : Boxes, index : Nat, i : Nat]
  <2>1. calls \in Seq(CallSet)
    BY DEF TypeOK
  <2> HIDE DEF CallSet
  <2>2. \A k \in 1 .. Depth - 1 : calls[k] \in CallSet
    BY <1>2, <2>1 DEF Depth
  <2>3. /\ SubSeq(calls, 1, Depth - 1) \in Seq(CallSet)
        /\ Len(SubSeq(calls, 1, Depth - 1)) = Depth - 1
        /\ \A k \in 1 .. Depth - 1 : SubSeq(calls, 1, Depth - 1)[k] = calls[k]
    BY <1>2, <2>2, SubSeqProperties
  <2> QED
    BY <1>1, <2>3 DEF Depth, CallSet
<1>4. \A b, n : Source(b, n)' <=> Source(b, n)
  BY <1>1 DEF Source, InBackground, Chars
<1>5. TypeOK'
  BY <1>1, <1>3 DEF TypeOK, Chars
<1>6. CallsOK' /\ CallsDescend'
  BY <1>1, <1>2, <1>3, <1>4 DEF CallsOK, CallsDescend, TypeOK
<1>7. Pending'
  <2> SUFFICES ASSUME NEW b \in Boxes, NEW n \in 0 .. Len(char_bboxes),
                      Source(b, n), NEW j \in 1 .. n,
                      ~chars_covered[j], bbox_intersect(char_bboxes[j], b)
               PROVE  Ahead(b, n, j)'
    BY <1>1, <1>4 DEF Pending
  <2>1. PICK k \in 1 .. Depth : calls[k].bbox = b /\ calls[k].index = n /\ calls[k].i <= j
    BY DEF Pending, Ahead
  <2>2. k # Depth
    BY <1>1, <1>2, <2>1 DEF Top
  <2>3. k \in 1 .. Depth' /\ calls'[k] = calls[k]
    BY <1>2, <1>3, <2>2
  <2> QED
    BY <2>1, <2>3 DEF Ahead
<1> QED
  BY <1>5, <1>6, <1>7

-----------------------------------------------------------------------------

LEMMA IdleIsSettled == IInv => NothingPaintedOverText
<1> SUFFICES ASSUME IInv, calls = <<>>, NEW j \in Chars, ~chars_covered[j]
             PROVE  /\ \A g \in graphics :
                         j <= g.after => ~bbox_intersect(char_bboxes[j], g.bbox)
                    /\ \A i \in Chars :
                         i > j /\ InBackground(i) =>
                           ~bbox_intersect(char_bboxes[j], char_bboxes[i])
  BY DEF NothingPaintedOverText
<1>1. ASSUME NEW g \in graphics, j <= g.after, bbox_intersect(char_bboxes[j], g.bbox)
      PROVE  FALSE
  <2>1. Source(g.bbox, g.after) /\ j \in 1 .. g.after
    BY <1>1 DEF Source, IInv, TypeOK, Chars
  <2> QED
    BY <1>1, <2>1, IdleOwesNothing DEF IInv
<1>2. ASSUME NEW i \in Chars, i > j, InBackground(i),
             bbox_intersect(char_bboxes[j], char_bboxes[i])
      PROVE  FALSE
  <2>1. Source(char_bboxes[i], i - 1) /\ j \in 1 .. i - 1
    BY <1>2 DEF Source, Chars
  <2> QED
    BY <1>2, <2>1, IdleOwesNothing DEF IInv
<1> QED
  BY <1>1, <1>2

LEMMA NextIInv == IInv /\ [Next]_vars => IInv'
<1> SUFFICES ASSUME IInv, [Next]_vars PROVE IInv'
  OBVIOUS
<1>1. ASSUME NEW box \in Boxes, add_char_bbox(box) PROVE IInv'
  <2>1. calls = <<>> /\ hidden' = hidden /\ graphics' = graphics /\ calls' = calls
    BY <1>1 DEF add_char_bbox
  <2>2. /\ char_bboxes' = Append(char_bboxes, box)
        /\ chars_covered' = Append(chars_covered, FALSE)
    BY <1>1 DEF add_char_bbox
  <2> QED
    BY <2>1, <2>2, AppendStep
<1>2. ASSUME NEW box \in Boxes, NEW partially \in BOOLEAN,
             add_char_bbox_clipped(box, partially)
      PROVE  IInv'
  <2>1. /\ calls = <<>> /\ graphics' = graphics
        /\ char_bboxes' = Append(char_bboxes, box)
        /\ chars_covered' = Append(chars_covered, TRUE)
    BY <1>2 DEF add_char_bbox_clipped
  <2>2. CASE partially
    <3>1. hidden' = hidden /\ calls' = Append(calls, Call(box, Len(char_bboxes)))
      BY <1>2, <2>2 DEF add_char_bbox_clipped
    <3> QED
      BY <2>1, <3>1, AppendStep
  <2>3. CASE ~partially
    <3>1. hidden' = hidden \cup {Len(char_bboxes) + 1} /\ calls' = calls
      BY <1>2, <2>3 DEF add_char_bbox_clipped
    <3> QED
      BY <2>1, <3>1, AppendStep
  <2> QED
    BY <2>2, <2>3
<1>3. ASSUME NEW box \in Boxes, add_non_char_bbox(box) PROVE IInv'
  BY <1>3, GraphicStep
<1>4. CASE UNCHANGED vars
  BY <1>4 DEF vars, IInv, TypeOK, CallsOK, Pending, Ahead, CallsDescend, Source,
              InBackground, Chars, Depth
<1> QED
  BY <1>1, <1>2, <1>3, <1>4, ResetStep, SkipStep, CoverStep, ReturnStep DEF Next, Run

LEMMA Invariance == Spec => []IInv
BY InitIInv, NextIInv, PTL DEF Spec

-----------------------------------------------------------------------------

\* The two vectors of the detector stay one entry per character, and a character
\* the clip path removes is one the HTML does not show.
THEOREM TypeCorrect == Spec => []TypeOK
BY Invariance, PTL DEF IInv

\* Once add_non_char_bbox has returned, no text lies under anything the background
\* paints over it, however the recursion of add_non_char_bbox spread.
THEOREM TextIsOnTop == Spec => []NothingPaintedOverText
<1>1. IInv => NothingPaintedOverText
  BY IdleIsSettled
<1> QED
  BY <1>1, Invariance, PTL

\* The recursion of add_non_char_bbox is bounded by the characters of the page.
THEOREM RecursionDescends == Spec => []CallsDescend
BY Invariance, PTL DEF IInv

-----------------------------------------------------------------------------
(* The refinement.  A report is one step of PaintLayers; the calls it makes   *)
(* are steps of their own, which cover one character that must be covered, or *)
(* change nothing there.                                                      *)

LEMMA SameOverlap == \A p, q : PL!bbox_intersect(p, q) <=> bbox_intersect(p, q)
BY Zenon DEF PL!bbox_intersect, PL!OverlapFrom, PL!OverlapTo, PL!Lower, PL!Upper,
         bbox_intersect, OverlapFrom, OverlapTo, Lower, Upper

LEMMA IdleAcceptsItems == IInv /\ calls = <<>> => PL!Settled
<1> SUFFICES ASSUME IInv, calls = <<>>, NEW j \in Chars, ~chars_covered[j]
             PROVE  ~PL!GraphicOver(j) /\ ~PL!CharOver(j)
  BY DEF PL!Settled, PL!MustCover, PL!Chars, Chars
<1>1. /\ \A g \in graphics : j <= g.after => ~bbox_intersect(char_bboxes[j], g.bbox)
      /\ \A i \in Chars :
           i > j /\ InBackground(i) => ~bbox_intersect(char_bboxes[j], char_bboxes[i])
  BY IdleIsSettled, Zenon DEF NothingPaintedOverText
<1>2. \A i : PL!InBackground(i) <=> InBackground(i)
  BY Zenon DEF PL!InBackground, InBackground
<1> QED
  BY <1>1, <1>2, SameOverlap, Zenon DEF PL!GraphicOver, PL!CharOver, PL!Chars, Chars

LEMMA StepRefines == IInv /\ [Next]_vars => [PL!Next]_(PL!vars)
<1> SUFFICES ASSUME IInv, [Next]_vars PROVE PL!Next \/ UNCHANGED PL!vars
  OBVIOUS
<1>1. CASE reset
  <2>1. PL!Clear
    BY <1>1, IdleAcceptsItems DEF reset, PL!Clear
  <2> QED
    BY <2>1 DEF PL!Next
<1>2. ASSUME NEW box \in Boxes, add_char_bbox(box) PROVE PL!Next
  <2>1. PL!DrawChar(box, "inside")
    BY <1>2, IdleAcceptsItems DEF add_char_bbox, PL!DrawChar
  <2> QED
    BY <2>1 DEF PL!Next
<1>3. ASSUME NEW box \in Boxes, NEW partially \in BOOLEAN,
             add_char_bbox_clipped(box, partially)
      PROVE  PL!Next
  <2>1. CASE partially
    <3>1. PL!DrawChar(box, "partial")
      BY <1>3, <2>1, IdleAcceptsItems DEF add_char_bbox_clipped, PL!DrawChar
    <3> QED
      BY <3>1 DEF PL!Next
  <2>2. CASE ~partially
    <3>1. PL!DrawChar(box, "outside")
      BY <1>3, <2>2, IdleAcceptsItems DEF add_char_bbox_clipped, PL!DrawChar
    <3> QED
      BY <3>1 DEF PL!Next
  <2> QED
    BY <2>1, <2>2
<1>4. ASSUME NEW box \in Boxes, add_non_char_bbox(box) PROVE PL!Next
  <2>1. PL!DrawGraphic(box)
    <3>1. /\ calls = <<>>
          /\ graphics' = graphics \cup {[bbox |-> box, after |-> Len(char_bboxes)]}
          /\ UNCHANGED <<char_bboxes, chars_covered, hidden>>
      BY <1>4 DEF add_non_char_bbox
    <3>2. PL!Settled
      BY <3>1, IdleAcceptsItems
    <3> QED
      BY <3>1, <3>2, Zenon DEF PL!DrawGraphic
  <2> QED
    BY <2>1 DEF PL!Next
<1>5. CASE CoverAndRecurse
  <2> PICK c : c = Top.i
    OBVIOUS
  <2>1. /\ ~chars_covered[c] /\ c <= Top.index /\ calls # <<>>
        /\ bbox_intersect(char_bboxes[c], Top.bbox)
        /\ chars_covered' = [chars_covered EXCEPT ![c] = TRUE]
        /\ UNCHANGED <<char_bboxes, hidden, graphics>>
    BY <1>5 DEF CoverAndRecurse, Hits
  <2>2. Source(Top.bbox, Top.index) /\ c \in Chars
    BY <2>1, TopIsACall DEF Chars, IInv, TypeOK
  <2>3. PL!MustCover(c)
    <3>1. ASSUME NEW g \in graphics, g.bbox = Top.bbox, g.after = Top.index
          PROVE  PL!GraphicOver(c)
      BY <3>1, <2>1, SameOverlap, Zenon DEF PL!GraphicOver
    <3>2. ASSUME NEW i \in Chars, InBackground(i), char_bboxes[i] = Top.bbox,
                 Top.index = i - 1
          PROVE  PL!CharOver(c)
      <4>1. i > c
        BY <2>1, <2>2, <3>2 DEF Chars
      <4>2. PL!InBackground(i)
        BY <3>2, Zenon DEF PL!InBackground, InBackground
      <4> QED
        BY <2>1, <3>2, <4>1, <4>2, SameOverlap, Zenon DEF PL!CharOver, PL!Chars, Chars
    <3>3. PL!GraphicOver(c) \/ PL!CharOver(c)
      BY <2>2, <3>1, <3>2, Zenon DEF Source
    <3> QED
      BY <2>1, <3>3, Zenon DEF PL!MustCover
  <2>4. PL!Cover(c)
    BY <2>1, <2>3 DEF PL!Cover
  <2> QED
    BY <2>2, <2>4 DEF PL!Next, PL!Chars, Chars
<1>6. CASE Skip \/ Return \/ UNCHANGED vars
  BY <1>6 DEF Skip, Return, vars, PL!vars
<1> QED
  BY <1>1, <1>2, <1>3, <1>4, <1>5, <1>6 DEF Next, Run

\* The detector moves a character to the background exactly when PaintLayers calls
\* for it, and it has made every such move before it takes the next report.
THEOREM Refinement == Spec => ImplementsPaintLayers
<1>1. Init => PL!Init
  BY DEF Init, PL!Init
<1> QED
  BY <1>1, StepRefines, Invariance, PTL DEF Spec, ImplementsPaintLayers, PL!Spec
=============================================================================
