------------------------ MODULE TextVisibilityProofs ------------------------
(***************************************************************************)
(* Every character of a page is in exactly one layer, and what the HTML    *)
(* shows hides nothing: for every page and every setting.                  *)
(*                                                                         *)
(* Three counts of characters must agree.  The detector numbers those it   *)
(* is told of, a line remembers the number of its first character, and the *)
(* background renderer counts those it is given.  The invariant states     *)
(* each count as a function of the page: TraceNo for the first two, which  *)
(* the first pass makes, and PaintNo for the third, which the second pass  *)
(* makes.  They part at text that clips, which only the first one counts.  *)
(***************************************************************************)
EXTENDS TextVisibility, FiniteSetTheorems, SequenceTheorems, TLAPS

\* The detector's own theorems, about the detector of this page.
DP == INSTANCE CoveredTextDetectorProofs WITH MaxChars <- MaxItems, MaxGraphics <- MaxItems

Clips == {"inside", "partial", "outside"}
PageItem == [kind : Kinds, box : Boxes, clip : Clips]

\* The items of some kinds before item n of a page.
Earlier(p, kinds, n) == {m \in 1 .. n - 1 : p[m].kind \in kinds}
Before(p, kinds, n) == Cardinality(Earlier(p, kinds, n))

\* What the first pass reports to the detector as characters, and what the second
\* pass counts.
Traced == {"text", "space", "clipping"}
Counted == {"text", "space"}

TraceNo(n) == Before(page, Traced, n)
PaintNo(n) == Before(page, Counted, n)

Correct == param.correct_text_visibility

Line == [first_char_index : Int, text : Seq(Nat)]

StateTyped ==
  /\ param \in Params
  /\ phase \in {"idle", "html", "background", "dumped"}
  /\ pages \in 0 .. MaxPages
  /\ page \in Seq(PageItem) /\ Len(page) <= MaxItems
  /\ lines \in Seq(Line)
  /\ renderer \in Renderers
  /\ drawn_char_count \in [Renderers -> 0 .. MaxItems]
  /\ pos \in 1 .. MaxItems + 1
  /\ background \subseteq Items /\ shown \subseteq Items

\* The detector has been told of every character of the page, once, in order, with
\* its box, and of every graphic, with its place among them.
Reported ==
  /\ get_char_count = IF Correct THEN TraceNo(Len(page) + 1) ELSE 0
  /\ Correct =>
       \A n \in Items :
         /\ page[n].kind \in Traced =>
              /\ char_bboxes[TraceNo(n) + 1] = page[n].box
              /\ page[n].clip # "outside" => TraceNo(n) + 1 \notin hidden
         /\ page[n].kind = "graphic" =>
              [bbox |-> page[n].box, after |-> TraceNo(n)] \in graphics

DetectorOK ==
  /\ DP!IInv
  /\ phase # "html" => calls = <<>>
  /\ Reported

\* Item n of a page is character k of a line whose first character has this number.
PlacedAt(p, correct, first, k, n) ==
  /\ n \in 1 .. Len(p)
  /\ p[n].kind \in Traced
  /\ IF correct THEN first >= 0 /\ first + k - 1 = Before(p, Traced, n) ELSE first = -1

EntriesOK ==
  \A i \in 1 .. Len(lines) : \A k \in 1 .. Len(lines[i].text) :
    PlacedAt(page, Correct, lines[i].first_char_index, k, lines[i].text[k])

InLines(n) == \E i \in 1 .. Len(lines) : \E k \in 1 .. Len(lines[i].text) : lines[i].text[k] = n

\* The number of the character that would be appended to the current line.
LastLineOK ==
  LET last == lines[Len(lines)] IN
  IF Correct THEN last.first_char_index >= 0
                  /\ last.first_char_index + Len(last.text) = get_char_count
             ELSE last.first_char_index = -1

LinesOK ==
  /\ EntriesOK
  /\ phase \in {"html", "background"} =>
       \A n \in Items : page[n].kind \in Traced => InLines(n)
  /\ phase \in {"idle", "dumped"} => lines = <<>>
  /\ phase = "html" /\ lines # <<>> => LastLineOK

Visible(n) ==
  /\ ~param.fallback
  /\ page[n].kind \in {"text", "clipping"}
  /\ Correct => ~is_char_covered(TraceNo(n))

\* Every character is drawn as an image.
AllPainted == param.fallback \/ param.proof

Painted(n) ==
  \/ page[n].kind \in {"graphic", "image", "clipping"}
  \/ AllPainted
  \/ Correct /\ is_char_covered(PaintNo(n))

\* What the second pass has done so far, and what the page comes to.
LayersOK ==
  /\ phase = "background" =>
       /\ param.process_nontext
       /\ pos \in 1 .. Len(page) + 1
       /\ drawn_char_count[renderer] =
            IF ~AllPainted /\ Correct THEN PaintNo(pos) ELSE 0
       /\ background = {n \in 1 .. pos - 1 : Painted(n)}
  /\ phase = "dumped" =>
       /\ shown = {n \in Items : Visible(n)}
       /\ background = IF param.process_nontext THEN {n \in Items : Painted(n)} ELSE {}

IInv == StateTyped /\ DetectorOK /\ LinesOK /\ LayersOK

-----------------------------------------------------------------------------

\* What the page holds at any of its places.
LEMMA ItemOfPage == ASSUME StateTyped, NEW n \in Items PROVE page[n] \in PageItem
<1>1. page \in Seq(PageItem) /\ n \in 1 .. Len(page)
  BY DEF StateTyped, Items
<1> QED
  BY <1>1, ElementOfSeq, Zenon

-----------------------------------------------------------------------------
(* Counting items. *)

\* There are finitely many earlier items, fewer than n.
LEMMA EarlierFinite ==
  ASSUME NEW p, NEW kinds, NEW n \in Nat \ {0}
  PROVE  /\ IsFiniteSet(Earlier(p, kinds, n))
         /\ Before(p, kinds, n) \in 0 .. n - 1
<1>1. IsFiniteSet(1 .. n - 1) /\ Cardinality(1 .. n - 1) = n - 1
  BY FS_Interval
<1>2. Earlier(p, kinds, n) \in SUBSET (1 .. n - 1)
  BY DEF Earlier
<1>3. IsFiniteSet(Earlier(p, kinds, n)) /\ Before(p, kinds, n) <= n - 1
  BY <1>1, <1>2, FS_Subset DEF Before
<1> QED
  BY <1>3, FS_CardinalityType DEF Before

\* The count grows by one at an item of one of the kinds.
LEMMA BeforeCounts ==
  ASSUME NEW p, NEW kinds, NEW n \in Nat \ {0}, p[n].kind \in kinds
  PROVE  Before(p, kinds, n + 1) = Before(p, kinds, n) + 1
<1>1. Earlier(p, kinds, n + 1) = Earlier(p, kinds, n) \cup {n} /\ n \notin Earlier(p, kinds, n)
  BY DEF Earlier
<1> QED
  BY <1>1, EarlierFinite, FS_AddElement DEF Before

\* It does not change at an item of another kind.
LEMMA BeforePasses ==
  ASSUME NEW p, NEW kinds, NEW n \in Nat \ {0}, p[n].kind \notin kinds
  PROVE  Before(p, kinds, n + 1) = Before(p, kinds, n)
<1>1. Earlier(p, kinds, n + 1) = Earlier(p, kinds, n)
  BY DEF Earlier
<1> QED
  BY <1>1 DEF Before

\* No item comes before the first.
LEMMA BeforeFirst == \A p, kinds : Before(p, kinds, 1) = 0
<1>1. \A p, kinds : Earlier(p, kinds, 1) = {}
  BY DEF Earlier
<1> QED
  BY <1>1, FS_EmptySet DEF Before

\* The count depends on the kinds of the earlier items alone.
LEMMA BeforeSame ==
  ASSUME NEW p, NEW q, NEW kinds, NEW n \in Nat,
         \A m \in 1 .. n - 1 : p[m].kind \in kinds <=> q[m].kind \in kinds
  PROVE  Before(p, kinds, n) = Before(q, kinds, n)
<1>1. Earlier(p, kinds, n) = Earlier(q, kinds, n)
  BY DEF Earlier
<1> QED
  BY <1>1 DEF Before

\* An item of one of the kinds has a smaller number than any later item.
LEMMA BeforeGrows ==
  ASSUME NEW p, NEW kinds, NEW m \in Nat \ {0}, NEW n \in Nat, m < n, p[m].kind \in kinds
  PROVE  Before(p, kinds, m) < Before(p, kinds, n)
<1>1. IsFiniteSet(1 .. n - 1)
  BY FS_Interval
<1>2. Earlier(p, kinds, n) \in SUBSET (1 .. n - 1)
  BY DEF Earlier
<1>3. IsFiniteSet(Earlier(p, kinds, n))
  BY <1>1, <1>2, FS_Subset
<1>4. Earlier(p, kinds, m + 1) \in SUBSET Earlier(p, kinds, n)
  BY DEF Earlier
<1>5. Before(p, kinds, m + 1) <= Before(p, kinds, n)
  BY <1>3, <1>4, FS_Subset DEF Before
<1>6. Before(p, kinds, n) \in Nat
  BY <1>3, FS_CardinalityType DEF Before
<1>7. Before(p, kinds, m) \in Nat /\ Before(p, kinds, m + 1) = Before(p, kinds, m) + 1
  BY EarlierFinite, BeforeCounts
<1> QED
  BY <1>5, <1>6, <1>7

\* The two counts agree as long as no text clips.
LEMMA CountsAgree ==
  ASSUME NEW n \in Nat, \A m \in 1 .. n - 1 : page[m].kind # "clipping"
  PROVE  TraceNo(n) = PaintNo(n)
<1>1. Earlier(page, Traced, n) = Earlier(page, Counted, n)
  BY DEF Earlier, Traced, Counted
<1> QED
  BY <1>1 DEF TraceNo, PaintNo, Before

-----------------------------------------------------------------------------
(* The detector of the page. *)

\* What the page may do to the detector.
DetectorMoves ==
  \/ Detector!reset
  \/ \E box \in Boxes :
       \/ Detector!add_char_bbox(box)
       \/ \E partially \in BOOLEAN : Detector!add_char_bbox_clipped(box, partially)
       \/ Detector!add_non_char_bbox(box)
  \/ Detector!Run
  \/ UNCHANGED detectorVars

\* Each such step is a step of the specification the detector was proved about.
LEMMA DetectorConforms == DetectorMoves => [DP!Next]_(DP!vars)
<1> SUFFICES ASSUME DetectorMoves PROVE [DP!Next]_(DP!vars)
  OBVIOUS
<1>1. \A box : Detector!add_char_bbox(box) => DP!add_char_bbox(box)
  BY DEF Detector!add_char_bbox, DP!add_char_bbox
<1>2. \A box, partially : Detector!add_char_bbox_clipped(box, partially)
                            => DP!add_char_bbox_clipped(box, partially)
  BY DEF Detector!add_char_bbox_clipped, DP!add_char_bbox_clipped, Detector!Call, DP!Call
<1>3. \A box : Detector!add_non_char_bbox(box) => DP!add_non_char_bbox(box)
  BY Zenon DEF Detector!add_non_char_bbox, DP!add_non_char_bbox, Detector!Call, DP!Call,
               Detector!Cardinality, DP!Cardinality
<1>4. Detector!reset => DP!reset
  BY DEF Detector!reset, DP!reset
<1>5. Detector!Run => DP!Run
  <2>1. Detector!Top = DP!Top /\ Detector!Advanced = DP!Advanced /\ Detector!Depth = DP!Depth
    BY DEF Detector!Top, DP!Top, Detector!Advanced, DP!Advanced, Detector!Depth, DP!Depth
  <2>2. Detector!Hits = DP!Hits
    BY Zenon, <2>1 DEF Detector!Hits, DP!Hits, Detector!bbox_intersect, DP!bbox_intersect,
              Detector!OverlapFrom, DP!OverlapFrom, Detector!OverlapTo, DP!OverlapTo,
              Detector!Lower, DP!Lower, Detector!Upper, DP!Upper
  <2>3. Detector!Skip => DP!Skip
    BY <2>1, <2>2, Zenon DEF Detector!Skip, DP!Skip
  <2>4. Detector!CoverAndRecurse => DP!CoverAndRecurse
    BY <2>1, <2>2, Zenon DEF Detector!CoverAndRecurse, DP!CoverAndRecurse, Detector!Call, DP!Call
  <2>5. Detector!Return => DP!Return
    BY <2>1, <2>2, Zenon DEF Detector!Return, DP!Return
  <2> QED
    BY <2>3, <2>4, <2>5 DEF Detector!Run, DP!Run
<1>6. UNCHANGED detectorVars => UNCHANGED DP!vars
  BY DEF detectorVars, DP!vars
<1> QED
  BY <1>1, <1>2, <1>3, <1>4, <1>5, <1>6 DEF DP!Next, DetectorMoves

\* So the detector's invariant carries over.
LEMMA DetectorStep ==
  ASSUME DP!IInv,
         \/ Detector!reset
         \/ \E box \in Boxes :
              \/ Detector!add_char_bbox(box)
              \/ \E partially \in BOOLEAN : Detector!add_char_bbox_clipped(box, partially)
              \/ Detector!add_non_char_bbox(box)
         \/ Detector!Run
         \/ UNCHANGED detectorVars
  PROVE  DP!IInv'
BY DetectorConforms, ConstantsAssumption, DP!NextIInv DEF DetectorMoves

\* What a report of a character does to what the invariant reads of the detector.
LEMMA TraceCharStep ==
  ASSUME DP!IInv, Correct, NEW box \in Boxes, NEW clip \in Clips, TraceChar(box, clip)
  PROVE  /\ char_bboxes' = Append(char_bboxes, box)
         /\ Len(chars_covered') = Len(chars_covered) + 1
         /\ hidden' \subseteq IF clip = "outside" THEN hidden \cup {Len(char_bboxes) + 1}
                                                  ELSE hidden
         /\ graphics' = graphics
         /\ DP!IInv'
<1>1. \/ Detector!add_char_bbox(box) /\ clip = "inside"
      \/ \E partially \in BOOLEAN : /\ Detector!add_char_bbox_clipped(box, partially)
                                    /\ partially <=> clip = "partial"
                                    /\ ~partially => clip = "outside"
  BY DEF TraceChar, Correct
<1>2. DP!IInv'
  BY <1>1, DetectorStep
<1>3. /\ char_bboxes' = Append(char_bboxes, box)
      /\ graphics' = graphics
      /\ \E covered \in BOOLEAN : chars_covered' = Append(chars_covered, covered)
  BY <1>1 DEF Detector!add_char_bbox, Detector!add_char_bbox_clipped
<1>4. hidden' \subseteq IF clip = "outside" THEN hidden \cup {Len(char_bboxes) + 1} ELSE hidden
  BY <1>1 DEF Detector!add_char_bbox, Detector!add_char_bbox_clipped
<1>5. Len(chars_covered') = Len(chars_covered) + 1
  <2>1. chars_covered \in Seq(BOOLEAN)
    BY DEF DP!IInv, DP!TypeOK
  <2>2. \A covered \in BOOLEAN : Len(Append(chars_covered, covered)) = Len(chars_covered) + 1
    BY <2>1, AppendProperties
  <2> QED
    BY <1>3, <2>2
<1> QED
  BY <1>2, <1>3, <1>4, <1>5

\* The number of a character does not change as the page grows.
LEMMA TraceNoAppend ==
  ASSUME page \in Seq(PageItem), NEW item \in PageItem, page' = Append(page, item)
  PROVE  /\ \A n \in 1 .. Len(page) + 1 : Before(page', Traced, n) = TraceNo(n)
         /\ Before(page', Traced, Len(page) + 2) =
              IF item.kind \in Traced THEN TraceNo(Len(page) + 1) + 1
                                      ELSE TraceNo(Len(page) + 1)
<1> PICK len \in Nat : len = Len(page)
  OBVIOUS
<1>1. /\ Len(page') = len + 1 /\ page'[len + 1] = item
      /\ \A n \in 1 .. len : page'[n] = page[n]
  BY AppendProperties
<1>2. ASSUME NEW n \in 1 .. len + 1 PROVE Before(page', Traced, n) = TraceNo(n)
  <2>1. \A m \in 1 .. n - 1 : page'[m].kind \in Traced <=> page[m].kind \in Traced
    BY <1>1
  <2>2. Before(page', Traced, n) = Before(page, Traced, n)
    <3>1. n \in Nat
      OBVIOUS
    <3> QED
      BY <2>1, <3>1, BeforeSame, ZenonT(60)
  <2> QED
    BY <2>2 DEF TraceNo
<1>3. Before(page', Traced, len + 2) =
        IF item.kind \in Traced THEN Before(page', Traced, len + 1) + 1
                                ELSE Before(page', Traced, len + 1)
  <2> PICK n \in Nat \ {0} : n = len + 1
    OBVIOUS
  <2>1. n + 1 = len + 2 /\ page'[n] = item
    BY <1>1
  <2>2. CASE item.kind \in Traced
    <3>1. Before(page', Traced, n + 1) = Before(page', Traced, n) + 1
      BY <2>1, <2>2, BeforeCounts, Zenon
    <3> QED
      BY <2>1, <2>2, <3>1
  <2>3. CASE item.kind \notin Traced
    <3>1. Before(page', Traced, n + 1) = Before(page', Traced, n)
      BY <2>1, <2>3, BeforePasses, Zenon
    <3> QED
      BY <2>1, <2>3, <3>1
  <2> QED
    BY <2>2, <2>3
<1>4. Before(page', Traced, len + 1) = TraceNo(len + 1)
  BY <1>2
<1> QED
  BY <1>2, <1>3, <1>4

\* One item more, on a page whose characters the detector has: the detector has the
\* new one's, when it is one.
LEMMA ReportedStep ==
  ASSUME StateTyped, DetectorOK, NEW item \in PageItem,
         page' = Append(page, item), param' = param,
         DP!IInv', phase' = phase, phase = "html",
         IF ~Correct THEN UNCHANGED detectorVars
         ELSE IF item.kind \in Traced
         THEN /\ char_bboxes' = Append(char_bboxes, item.box)
              /\ Len(chars_covered') = Len(chars_covered) + 1
              /\ hidden' \subseteq IF item.clip = "outside"
                                   THEN hidden \cup {Len(char_bboxes) + 1} ELSE hidden
              /\ graphics' = graphics
         ELSE /\ UNCHANGED <<char_bboxes, chars_covered, hidden>>
              /\ graphics' = IF item.kind = "graphic"
                             THEN graphics \cup {[bbox |-> item.box, after |-> Len(char_bboxes)]}
                             ELSE graphics
  PROVE  /\ DetectorOK'
         /\ get_char_count' = IF Correct /\ item.kind \in Traced
                              THEN get_char_count + 1 ELSE get_char_count
         /\ \A n \in 1 .. Len(page) + 1 : Before(page', Traced, n) = TraceNo(n)
<1> PICK len \in Nat : len = Len(page)
  BY DEF StateTyped
<1>1. /\ Len(page') = len + 1 /\ page'[len + 1] = item
      /\ \A n \in 1 .. len : page'[n] = page[n]
  BY AppendProperties DEF StateTyped
<1>2. \A n \in 1 .. len + 1 : Before(page', Traced, n) = TraceNo(n)
  BY TraceNoAppend DEF StateTyped
<1>3. Before(page', Traced, len + 2) =
        IF item.kind \in Traced THEN TraceNo(len + 1) + 1 ELSE TraceNo(len + 1)
  BY TraceNoAppend DEF StateTyped
<1>4. /\ char_bboxes \in Seq(Boxes)
      /\ Len(chars_covered) = Len(char_bboxes)
      /\ hidden \subseteq 1 .. Len(char_bboxes)
  BY DEF DetectorOK, DP!IInv, DP!TypeOK, DP!Chars
<1>5. Correct => /\ Len(char_bboxes) = TraceNo(len + 1)
                 /\ Len(chars_covered) = TraceNo(len + 1)
                 /\ TraceNo(len + 1) \in Nat
  <2>1. TraceNo(len + 1) \in Nat
    BY EarlierFinite DEF TraceNo
  <2> QED
    BY <1>4, <2>1 DEF DetectorOK, Reported, get_char_count
<1>6. get_char_count' = IF Correct /\ item.kind \in Traced
                        THEN get_char_count + 1 ELSE get_char_count
  BY DEF get_char_count, detectorVars
<1>7. get_char_count' = IF Correct THEN Before(page', Traced, len + 2) ELSE 0
  BY <1>3, <1>5, <1>6 DEF DetectorOK, Reported, get_char_count
<1>8. ASSUME Correct, NEW n \in 1 .. len, page[n].kind \in Traced
      PROVE  /\ char_bboxes'[TraceNo(n) + 1] = page[n].box
             /\ page[n].clip # "outside" => TraceNo(n) + 1 \notin hidden'
  <2>1. TraceNo(n) \in Nat /\ TraceNo(n) + 1 <= Len(char_bboxes)
    <3>1. TraceNo(n) \in Nat
      BY EarlierFinite DEF TraceNo
    <3>2. TraceNo(n) < TraceNo(len + 1)
      BY <1>8, BeforeGrows DEF TraceNo
    <3> QED
      BY <1>5, <1>8, <3>1, <3>2
  <2>2. /\ char_bboxes[TraceNo(n) + 1] = page[n].box
        /\ page[n].clip # "outside" => TraceNo(n) + 1 \notin hidden
    BY <1>8 DEF DetectorOK, Reported, Items
  <2>3. char_bboxes' = char_bboxes \/ char_bboxes' = Append(char_bboxes, item.box)
    BY <1>8
  <2>4. char_bboxes'[TraceNo(n) + 1] = char_bboxes[TraceNo(n) + 1]
    BY <1>4, <2>1, <2>3, AppendProperties DEF PageItem
  <2>5. hidden' \subseteq hidden \cup {Len(char_bboxes) + 1}
    BY <1>8
  <2>6. TraceNo(n) + 1 # Len(char_bboxes) + 1
    BY <1>5, <1>8, <2>1
  <2> QED
    BY <2>2, <2>4, <2>5, <2>6
<1>9. ASSUME Correct, NEW n \in 1 .. len, page[n].kind = "graphic"
      PROVE  [bbox |-> page[n].box, after |-> TraceNo(n)] \in graphics'
  <2>1. [bbox |-> page[n].box, after |-> TraceNo(n)] \in graphics
    BY <1>9 DEF DetectorOK, Reported, Items
  <2> QED
    BY <1>9, <2>1
<1>10. ASSUME Correct, item.kind \in Traced
       PROVE  /\ char_bboxes'[TraceNo(len + 1) + 1] = item.box
              /\ item.clip # "outside" => TraceNo(len + 1) + 1 \notin hidden'
  <2>1. char_bboxes'[TraceNo(len + 1) + 1] = item.box
    BY <1>4, <1>5, <1>10, AppendProperties DEF PageItem
  <2>2. TraceNo(len + 1) + 1 \notin hidden
    BY <1>4, <1>5, <1>10
  <2> QED
    BY <1>10, <2>1, <2>2
<1>11. ASSUME Correct, item.kind = "graphic"
       PROVE  [bbox |-> item.box, after |-> TraceNo(len + 1)] \in graphics'
  BY <1>5, <1>11 DEF Traced
<1>12. Reported'
  <2> SUFFICES ASSUME Correct, NEW n \in 1 .. len + 1
               PROVE  /\ page'[n].kind \in Traced =>
                           /\ char_bboxes'[TraceNo(n) + 1] = page'[n].box
                           /\ page'[n].clip # "outside" => TraceNo(n) + 1 \notin hidden'
                      /\ page'[n].kind = "graphic" =>
                           [bbox |-> page'[n].box, after |-> TraceNo(n)] \in graphics'
    BY <1>1, <1>2, <1>7 DEF Reported, Items, Correct, TraceNo
  <2>1. CASE n = len + 1
    BY <1>1, <1>10, <1>11, <2>1
  <2>2. CASE n \in 1 .. len
    BY <1>1, <1>8, <1>9, <2>2
  <2> QED
    BY <2>1, <2>2
<1> QED
  BY <1>2, <1>6, <1>12 DEF DetectorOK
-----------------------------------------------------------------------------
(* The lines. *)

\* Writing an item adds one place, the last of the last line, and moves no other.
LEMMA WithItemStep ==
  ASSUME StateTyped, LinesOK, phase = "html", get_char_count \in Nat,
         NEW newLine, lines' = WithItem(newLine)
  PROVE  /\ lines' \in Seq(Line) /\ lines' # <<>>
         /\ LET last == Len(lines')
                end == Len(lines'[last].text)
                first == lines'[last].first_char_index
            IN  /\ end \in Nat \ {0}
                /\ lines'[last].text[end] = Len(page) + 1
                /\ IF Correct THEN first >= 0 /\ first + end - 1 = get_char_count
                              ELSE first = -1
                /\ \A i \in 1 .. Len(lines') : \A k \in 1 .. Len(lines'[i].text) :
                     \/ i = last /\ k = end
                     \/ /\ i \in 1 .. Len(lines) /\ k \in 1 .. Len(lines[i].text)
                        /\ lines'[i].first_char_index = lines[i].first_char_index
                        /\ lines'[i].text[k] = lines[i].text[k]
         /\ \A i \in 1 .. Len(lines) : \A k \in 1 .. Len(lines[i].text) :
              /\ i \in 1 .. Len(lines') /\ k \in 1 .. Len(lines'[i].text)
              /\ lines'[i].text[k] = lines[i].text[k]
<1> PICK item \in Nat : item = Len(page) + 1
  BY DEF StateTyped
<1> PICK L \in Nat : L = Len(lines)
  BY DEF StateTyped
<1>1. lines \in Seq(Line) /\ \A i \in 1 .. L : lines[i] \in Line
  BY DEF StateTyped
<1>2. CASE newLine \/ lines = <<>>
  <2> PICK new : new = [first_char_index |-> IF Correct THEN get_char_count ELSE -1,
                        text |-> <<item>>]
    OBVIOUS
  <2>1. lines' = Append(lines, new)
    BY <1>2 DEF WithItem, Correct
  <2>2. /\ new.first_char_index = IF Correct THEN get_char_count ELSE -1
        /\ new.text = <<item>>
        /\ Len(new.text) = 1 /\ new.text[1] = item
        /\ new \in Line
    BY DEF Line
  <2>3. /\ lines' \in Seq(Line) /\ lines' # <<>> /\ Len(lines') = L + 1
        /\ lines'[L + 1] = new
        /\ \A i \in 1 .. L : lines'[i] = lines[i]
    BY <1>1, <2>1, <2>2, AppendProperties
  <2> QED
    BY <2>2, <2>3
<1>3. CASE ~(newLine \/ lines = <<>>)
  <2>1. lines' = [lines EXCEPT ![L].text = Append(@, item)] /\ L # 0
    BY <1>1, <1>3 DEF WithItem
  <2> PICK text : text = lines[L].text
    OBVIOUS
  <2> PICK new : new = [lines[L] EXCEPT !.text = Append(text, item)]
    OBVIOUS
  <2>2. lines[L] \in Line /\ text \in Seq(Nat)
    BY <1>1, <2>1 DEF Line
  <2>3. /\ Append(text, item) \in Seq(Nat) /\ Len(text) \in Nat
        /\ Len(Append(text, item)) = Len(text) + 1
        /\ Append(text, item)[Len(text) + 1] = item
        /\ \A k \in 1 .. Len(text) : Append(text, item)[k] = text[k]
    BY <2>2, AppendProperties
  <2>4. /\ new \in Line
        /\ new.first_char_index = lines[L].first_char_index
        /\ new.text = Append(text, item)
    BY <2>2, <2>3 DEF Line
  <2>5. /\ lines' = [lines EXCEPT ![L] = new]
        /\ lines' \in Seq(Line) /\ Len(lines') = L
        /\ lines'[L] = new
        /\ \A i \in 1 .. L : i # L => lines'[i] = lines[i]
    <3>1. lines' = [lines EXCEPT ![L] = new]
      BY <2>1
    <3>2. L \in 1 .. Len(lines)
      BY <2>1
    <3>3. /\ [lines EXCEPT ![L] = new] \in Seq(Line)
          /\ Len([lines EXCEPT ![L] = new]) = Len(lines)
          /\ \A j \in 1 .. Len(lines) :
               [lines EXCEPT ![L] = new][j] = IF j = L THEN new ELSE lines[j]
      <4> HIDE DEF Line
      <4> QED
        BY <1>1, <2>4, <3>2, ExceptSeq
    <3> QED
      BY <3>1, <3>2, <3>3
  <2>6. IF Correct THEN lines[L].first_char_index >= 0
                        /\ lines[L].first_char_index + Len(text) = get_char_count
                   ELSE lines[L].first_char_index = -1
    BY <1>3 DEF LinesOK, LastLineOK
  <2>7. lines[L].first_char_index \in Int
    BY <2>2 DEF Line
  <2>8. lines' # <<>>
    BY <2>1, <2>5
  <2>9. \A i \in 1 .. L : \A k \in 1 .. Len(lines'[i].text) :
          \/ i = L /\ k = Len(text) + 1
          \/ /\ k \in 1 .. Len(lines[i].text)
             /\ lines'[i].first_char_index = lines[i].first_char_index
             /\ lines'[i].text[k] = lines[i].text[k]
    BY <2>3, <2>4, <2>5
  <2>10. \A i \in 1 .. L : \A k \in 1 .. Len(lines[i].text) :
           /\ k \in 1 .. Len(lines'[i].text)
           /\ lines'[i].text[k] = lines[i].text[k]
    BY <2>3, <2>4, <2>5
  <2> QED
    BY <2>3, <2>4, <2>5, <2>6, <2>7, <2>8, <2>9, <2>10
<1> QED
  BY <1>2, <1>3

\* The page grows: an item already in its place stays there.
LEMMA PlacedStays ==
  ASSUME StateTyped, NEW item \in PageItem, page' = Append(page, item), param' = param,
         NEW first, NEW k, NEW n, PlacedAt(page, Correct, first, k, n)
  PROVE  PlacedAt(page', Correct, first, k, n)
<1>1. n \in 1 .. Len(page) /\ page'[n] = page[n] /\ Len(page') = Len(page) + 1
  BY AppendProperties DEF StateTyped, PlacedAt
<1>2. Before(page', Traced, n) = TraceNo(n)
  BY <1>1, TraceNoAppend DEF StateTyped
<1> QED
  BY <1>1, <1>2 DEF PlacedAt, TraceNo, StateTyped

\* The place after the one a character has now taken.
LEMMA OnePlaceOn == \A a \in Int, e \in Nat \ {0}, c \in Nat : a + e - 1 = c => a + e = c + 1
OBVIOUS

\* A character takes the next place in the lines, under the number the detector
\* gives it.
LEMMA LinesStep ==
  ASSUME StateTyped, Reported, LinesOK, phase = "html", phase' = phase,
         NEW item \in PageItem, item.kind \in Traced,
         page' = Append(page, item), param' = param,
         NEW newLine, lines' = WithItem(newLine),
         get_char_count' = IF Correct THEN get_char_count + 1 ELSE get_char_count
  PROVE  LinesOK'
<1> PICK new \in Nat \ {0} : new = Len(page) + 1
  BY DEF StateTyped
<1>1. /\ Len(page') = new /\ page'[new] = item
      /\ \A n \in Items : page'[n] = page[n]
      /\ Items' = Items \cup {new} /\ new \notin Items
  BY AppendProperties DEF StateTyped, Items
<1>2. get_char_count \in Nat /\ (Correct => get_char_count = TraceNo(new))
  BY EarlierFinite DEF Reported, TraceNo
<1> PICK last : last = Len(lines')
  OBVIOUS
<1> PICK end : end = Len(lines'[last].text)
  OBVIOUS
<1> PICK first : first = lines'[last].first_char_index
  OBVIOUS
<1>3. /\ lines' \in Seq(Line) /\ lines' # <<>>
      /\ end \in Nat \ {0}
      /\ lines'[last].text[end] = new
      /\ IF Correct THEN first >= 0 /\ first + end - 1 = get_char_count ELSE first = -1
      /\ \A i \in 1 .. last : \A k \in 1 .. Len(lines'[i].text) :
           \/ i = last /\ k = end
           \/ /\ i \in 1 .. Len(lines) /\ k \in 1 .. Len(lines[i].text)
              /\ lines'[i].first_char_index = lines[i].first_char_index
              /\ lines'[i].text[k] = lines[i].text[k]
  BY <1>2, WithItemStep
<1>4. \A i \in 1 .. Len(lines) : \A k \in 1 .. Len(lines[i].text) :
        /\ i \in 1 .. last /\ k \in 1 .. Len(lines'[i].text)
        /\ lines'[i].text[k] = lines[i].text[k]
  BY <1>2, WithItemStep
<1>5. last \in Nat \ {0} /\ first \in Int
  <2>1. last \in Nat \ {0}
    BY <1>3, EmptySeq
  <2>2. lines'[last] \in Line
    BY <1>3, <2>1, ElementOfSeq
  <2> QED
    BY <2>1, <2>2 DEF Line
<1>6. Correct' = Correct
  BY DEF Correct
<1>7. PlacedAt(page', Correct, first, end, new)
  <2>1. Before(page', Traced, new) = TraceNo(new)
    BY TraceNoAppend DEF StateTyped
  <2>2. new \in 1 .. Len(page') /\ page'[new].kind \in Traced
    BY <1>1
  <2>3. IF Correct THEN first >= 0 /\ first + end - 1 = Before(page', Traced, new)
                   ELSE first = -1
    BY <1>2, <1>3, <2>1
  <2> QED
    BY <2>2, <2>3 DEF PlacedAt
<1>8. EntriesOK'
  <2> SUFFICES ASSUME NEW i \in 1 .. last, NEW k \in 1 .. Len(lines'[i].text)
               PROVE  PlacedAt(page', Correct, lines'[i].first_char_index, k, lines'[i].text[k])
    BY <1>6 DEF EntriesOK
  <2>1. CASE i = last /\ k = end
    BY <1>3, <1>7, <2>1
  <2>2. CASE /\ i \in 1 .. Len(lines) /\ k \in 1 .. Len(lines[i].text)
             /\ lines'[i].first_char_index = lines[i].first_char_index
             /\ lines'[i].text[k] = lines[i].text[k]
    <3> PICK n : n = lines[i].text[k]
      OBVIOUS
    <3> PICK f : f = lines[i].first_char_index
      OBVIOUS
    <3>1. PlacedAt(page, Correct, f, k, n)
      BY <2>2 DEF LinesOK, EntriesOK
    <3>2. PlacedAt(page', Correct, f, k, n)
      BY <3>1, PlacedStays
    <3> QED
      BY <2>2, <3>2
  <2> QED
    BY <1>3, <2>1, <2>2
<1>9. ASSUME NEW n \in Items', page'[n].kind \in Traced PROVE InLines(n)'
  <2>1. CASE n = new
    <3>1. last \in 1 .. Len(lines') /\ end \in 1 .. Len(lines'[last].text)
      BY <1>3, <1>5
    <3> QED
      BY <1>3, <2>1, <3>1 DEF InLines
  <2>2. CASE n \in Items
    <3>1. InLines(n)
      BY <1>1, <1>9, <2>2 DEF LinesOK
    <3> QED
      BY <1>4, <3>1 DEF InLines
  <2> QED
    BY <1>1, <2>1, <2>2
<1>10. LastLineOK'
  <2>1. IF Correct THEN first >= 0 /\ first + end = get_char_count' ELSE first = -1
    <3>1. CASE Correct
      <4>1. first + end = get_char_count + 1
        <5>1. first + end - 1 = get_char_count
          BY <1>3, <3>1, Zenon
        <5>2. first \in Int /\ end \in Nat \ {0} /\ get_char_count \in Nat
          BY <1>2, <1>3, <1>5, Zenon
        <5> QED
          BY <5>1, <5>2, OnePlaceOn, ZenonT(60)
      <4> QED
        BY <1>3, <3>1, <4>1, Zenon
    <3>2. CASE ~Correct
      BY <1>3, <3>2, Zenon
    <3> QED
      BY <3>1, <3>2
  <2> QED
    BY <2>1 DEF LastLineOK, Correct
<1> QED
  BY <1>8, <1>9, <1>10 DEF LinesOK

\* What is not a character leaves the lines alone.
LEMMA LinesKept ==
  ASSUME StateTyped, LinesOK, phase = "html", phase' = phase,
         NEW item \in PageItem, item.kind \notin Traced,
         page' = Append(page, item), param' = param,
         lines' = lines, get_char_count' = get_char_count
  PROVE  LinesOK'
<1>1. Correct' = Correct
  BY DEF Correct
<1>2. /\ page'[Len(page) + 1] = item
      /\ \A n \in Items : page'[n] = page[n]
      /\ Items' = Items \cup {Len(page) + 1}
  BY AppendProperties DEF StateTyped, Items
<1>3. EntriesOK'
  <2> SUFFICES ASSUME NEW i \in 1 .. Len(lines), NEW k \in 1 .. Len(lines[i].text)
               PROVE  PlacedAt(page', Correct, lines[i].first_char_index, k, lines[i].text[k])
    BY <1>1 DEF EntriesOK
  <2> PICK n : n = lines[i].text[k]
    OBVIOUS
  <2> PICK f : f = lines[i].first_char_index
    OBVIOUS
  <2>1. PlacedAt(page, Correct, f, k, n)
    BY DEF LinesOK, EntriesOK
  <2>2. PlacedAt(page', Correct, f, k, n)
    BY <2>1, PlacedStays
  <2> QED
    BY <2>2
<1>4. \A n \in Items' : page'[n].kind \in Traced => InLines(n)'
  <2>1. \A n \in Items : page[n].kind \in Traced => InLines(n)
    BY DEF LinesOK
  <2>2. \A n : InLines(n)' <=> InLines(n)
    BY DEF InLines
  <2> QED
    BY <1>2, <2>1, <2>2
<1>5. LastLineOK' <=> LastLineOK
  BY DEF LastLineOK, Correct
<1> QED
  BY <1>3, <1>4, <1>5 DEF LinesOK

-----------------------------------------------------------------------------
(* The first pass. *)

\* One item more, once the detector and the lines have taken it.
LEMMA GivenStep ==
  ASSUME IInv, NEW item \in PageItem, page' = Append(page, item), Len(page) < MaxItems,
         phase = "html",
         UNCHANGED <<param, phase, pages, renderer, drawn_char_count, pos, background, shown>>,
         lines' \in Seq(Line), DetectorOK', LinesOK'
  PROVE  IInv'
<1>1. page' \in Seq(PageItem) /\ Len(page') = Len(page) + 1 /\ Len(page) \in Nat
  BY AppendProperties DEF IInv, StateTyped
<1>2. StateTyped'
  BY <1>1, ConstantsAssumption DEF IInv, StateTyped, Items
<1>3. LayersOK'
  BY DEF LayersOK
<1> QED
  BY <1>2, <1>3 DEF IInv

\* drawString keeps the invariant, whatever the render mode and clip of the text.
LEMMA DrawTextStep ==
  ASSUME IInv, NEW kind \in Kinds, NEW box \in Boxes, NEW clip \in Clips, NEW newLine,
         DrawText(kind, box, clip, newLine)
  PROVE  IInv'
<1> PICK item : item = [kind |-> kind, box |-> box, clip |-> clip]
  OBVIOUS
<1>1. /\ item \in PageItem /\ item.kind \in Traced
      /\ item.box = box /\ item.clip = clip
  BY DEF PageItem, DrawText, Traced
<1>2. /\ phase = "html" /\ page' = Append(page, item) /\ Len(page) < MaxItems
      /\ UNCHANGED <<param, phase, pages, renderer, drawn_char_count, pos, background, shown>>
  BY DEF DrawText, Given
<1>3. lines' = WithItem(newLine) /\ TraceChar(box, clip)
  BY DEF DrawText
<1>4. IF ~Correct THEN UNCHANGED detectorVars /\ DP!IInv'
      ELSE /\ char_bboxes' = Append(char_bboxes, box)
           /\ Len(chars_covered') = Len(chars_covered) + 1
           /\ hidden' \subseteq IF clip = "outside" THEN hidden \cup {Len(char_bboxes) + 1}
                                                    ELSE hidden
           /\ graphics' = graphics
           /\ DP!IInv'
  <2>1. DP!IInv
    BY DEF IInv, DetectorOK
  <2>2. CASE Correct
    BY <1>3, <2>1, <2>2, TraceCharStep
  <2>3. CASE ~Correct
    <3>1. UNCHANGED detectorVars
      BY <1>3, <2>3 DEF TraceChar, Correct
    <3> QED
      BY <2>1, <2>3, <3>1, DetectorStep
  <2> QED
    BY <2>2, <2>3
<1>5. /\ DetectorOK'
      /\ get_char_count' = IF Correct THEN get_char_count + 1 ELSE get_char_count
  BY <1>1, <1>2, <1>4, ReportedStep DEF IInv
<1>6. LinesOK'
  BY <1>1, <1>2, <1>3, <1>5, LinesStep DEF IInv, DetectorOK
<1>7. lines' \in Seq(Line)
  <2>1. get_char_count \in Nat
    BY EarlierFinite DEF IInv, DetectorOK, Reported, TraceNo, StateTyped
  <2> QED
    BY <1>2, <1>3, <2>1, WithItemStep DEF IInv
<1> QED
  BY <1>1, <1>2, <1>5, <1>6, <1>7, GivenStep

\* So does text in a font that is drawn as an image, which the detector never hears of.
LEMMA DrawImageTextStep ==
  ASSUME IInv, NEW box \in Boxes, DrawImageText(box)
  PROVE  IInv'
<1> PICK item : item = [kind |-> "image", box |-> box, clip |-> "inside"]
  OBVIOUS
<1>1. item \in PageItem /\ item.kind = "image"
  BY DEF PageItem, DrawImageText, Given, Clips
<1>2. /\ phase = "html" /\ page' = Append(page, item) /\ Len(page) < MaxItems
      /\ UNCHANGED <<param, phase, pages, renderer, drawn_char_count, pos, background, shown>>
      /\ UNCHANGED <<lines, detectorVars>>
  BY DEF DrawImageText, Given
<1>3. DP!IInv'
  BY <1>2, DetectorStep DEF IInv, DetectorOK
<1>4. item.kind \notin Traced
  BY <1>1 DEF Traced
<1>5. DetectorOK' /\ get_char_count' = get_char_count
  BY <1>1, <1>2, <1>3, <1>4, ReportedStep DEF IInv, detectorVars
<1>6. LinesOK'
  BY <1>1, <1>2, <1>4, <1>5, LinesKept DEF IInv
<1> QED
  BY <1>1, <1>2, <1>5, <1>6, GivenStep DEF IInv, StateTyped

\* So does a graphic, which the detector is told of and the text layer is not.
LEMMA DrawGraphicStep ==
  ASSUME IInv, NEW box \in Boxes, DrawGraphic(box)
  PROVE  IInv'
<1> PICK item : item = [kind |-> "graphic", box |-> box, clip |-> "inside"]
  OBVIOUS
<1>1. item \in PageItem /\ item.kind = "graphic" /\ item.box = box
  BY DEF PageItem, DrawGraphic, Given, Clips
<1>2. /\ phase = "html" /\ page' = Append(page, item) /\ Len(page) < MaxItems
      /\ UNCHANGED <<param, phase, pages, renderer, drawn_char_count, pos, background, shown>>
      /\ UNCHANGED lines
  BY DEF DrawGraphic, Given
<1>3. IF Correct THEN Detector!add_non_char_bbox(box) ELSE UNCHANGED detectorVars
  BY DEF DrawGraphic, Correct
<1>4. DP!IInv'
  BY <1>3, DetectorStep DEF IInv, DetectorOK
<1>5. item.kind \notin Traced
  BY <1>1 DEF Traced
<1>6. Correct => /\ UNCHANGED <<char_bboxes, chars_covered, hidden>>
                 /\ graphics' = graphics \cup {[bbox |-> box, after |-> Len(char_bboxes)]}
  BY <1>3 DEF Detector!add_non_char_bbox
<1>7. DetectorOK' /\ get_char_count' = get_char_count
  BY <1>1, <1>2, <1>3, <1>4, <1>5, <1>6, ReportedStep DEF IInv
<1>8. LinesOK'
  BY <1>1, <1>2, <1>5, <1>7, LinesKept DEF IInv
<1> QED
  BY <1>1, <1>2, <1>7, <1>8, GivenStep DEF IInv, StateTyped

\* The detector's own steps change no number and no box.
LEMMA DetectStep == ASSUME IInv, Detect PROVE IInv'
<1>1. /\ Detector!Run
      /\ UNCHANGED <<param, phase, pages, page, lines, renderer, drawn_char_count, pos,
                     background, shown>>
  BY DEF Detect
<1>2. calls # <<>> /\ UNCHANGED <<char_bboxes, hidden, graphics>>
  BY <1>1 DEF Detector!Run, Detector!Skip, Detector!CoverAndRecurse, Detector!Return
<1>3. phase = "html"
  BY <1>2 DEF IInv, DetectorOK
<1>4. DP!IInv'
  BY <1>1, DetectorStep DEF IInv, DetectorOK
<1>5. get_char_count' = get_char_count
  BY <1>2, <1>4 DEF IInv, DetectorOK, DP!IInv, DP!TypeOK, get_char_count
<1>6. DetectorOK'
  BY <1>1, <1>2, <1>3, <1>4, <1>5 DEF IInv, DetectorOK, Reported, Correct, TraceNo, Items
<1>7. StateTyped'
  BY <1>1 DEF IInv, StateTyped, Items
<1>8. LinesOK'
  BY <1>1, <1>5 DEF IInv, LinesOK, EntriesOK, InLines, LastLineOK, Correct, Items
<1>9. LayersOK'
  BY <1>1, <1>3 DEF LayersOK
<1> QED
  BY <1>6, <1>7, <1>8, <1>9 DEF IInv

\* startPage begins an empty page with a reset detector and no lines.
LEMMA StartPageStep == ASSUME IInv, startPage PROVE IInv'
<1>1. /\ phase = "idle" /\ phase' = "html" /\ pages < MaxPages /\ pages' = pages + 1
      /\ page' = <<>> /\ pos' = 1 /\ background' = {} /\ shown' = {}
      /\ UNCHANGED <<param, lines, renderer, drawn_char_count>>
      /\ Detector!reset
  BY DEF startPage
<1>2. DP!IInv'
  BY <1>1, DetectorStep DEF IInv, DetectorOK
<1>3. get_char_count' = 0
  BY <1>1 DEF Detector!reset, get_char_count
<1>4. Len(page') = 0 /\ Items' = {}
  BY <1>1 DEF Items
<1>5. Before(page', Traced, 1) = 0
  BY BeforeFirst
<1>6. DetectorOK'
  BY <1>1, <1>2, <1>3, <1>4, <1>5 DEF DetectorOK, Reported, TraceNo
<1>7. lines' = <<>>
  BY <1>1 DEF IInv, LinesOK
<1>8. LinesOK'
  BY <1>4, <1>7, <1>1 DEF LinesOK, EntriesOK
<1>9. StateTyped'
  BY <1>1, <1>4, ConstantsAssumption DEF IInv, StateTyped
<1> QED
  BY <1>1, <1>6, <1>8, <1>9 DEF IInv, LayersOK

-----------------------------------------------------------------------------
(* The second pass, and the text layer. *)

\* A character's place in its line leads to the verdict the detector reached for it.
LEMMA ShownByPlace ==
  ASSUME StateTyped, LinesOK, NEW i \in 1 .. Len(lines), NEW k \in 1 .. Len(lines[i].text)
  PROVE  Shows(lines[i], k) <=> (Correct => ~is_char_covered(TraceNo(lines[i].text[k])))
<1> PICK first : first = lines[i].first_char_index
  OBVIOUS
<1> PICK n : n = lines[i].text[k]
  OBVIOUS
<1>1. PlacedAt(page, Correct, first, k, n)
  BY DEF LinesOK, EntriesOK
<1>2. CASE Correct
  <2>1. first >= 0 /\ first + k - 1 = TraceNo(n)
    BY <1>1, <1>2 DEF PlacedAt, TraceNo
  <2>2. lines[i] \in Line
    BY ElementOfSeq DEF StateTyped
  <2>3. ~(first < 0)
    BY <2>1, <2>2 DEF Line
  <2> QED
    BY <1>2, <2>1, <2>3, Zenon DEF Shows
<1>3. CASE ~Correct
  <2>1. first < 0
    BY <1>1, <1>3 DEF PlacedAt
  <2> QED
    BY <1>3, <2>1, Zenon DEF Shows
<1> QED
  BY <1>2, <1>3

\* What dump_text leaves visible are the items of the page that Visible names.
LEMMA DumpTextShows ==
  ASSUME StateTyped, LinesOK, phase \in {"html", "background"}, dump_text
  PROVE  shown' = {n \in Items : Visible(n)}
<1>1. ASSUME NEW n \in Items, ~param.fallback, page[n].kind # "space"
      PROVE  (\E i \in 1 .. Len(lines) : \E k \in 1 .. Len(lines[i].text) :
                lines[i].text[k] = n /\ Shows(lines[i], k))
             <=> Visible(n)
  <2>1. CASE page[n].kind \in Traced
    <3>1. page[n].kind \in {"text", "clipping"}
      BY <1>1, <2>1 DEF Traced
    <3>2. InLines(n)
      BY <2>1 DEF LinesOK
    <3>3. \A j \in 1 .. Len(lines) : \A l \in 1 .. Len(lines[j].text) :
            lines[j].text[l] = n =>
              (Shows(lines[j], l) <=> (Correct => ~is_char_covered(TraceNo(n))))
      BY ShownByPlace
    <3> QED
      BY <1>1, <3>1, <3>2, <3>3, Zenon DEF Visible, InLines
  <2>2. CASE page[n].kind \notin Traced
    <3>1. page[n].kind \notin {"text", "clipping"}
      BY <2>2 DEF Traced
    <3>2. \A i \in 1 .. Len(lines) : \A k \in 1 .. Len(lines[i].text) : lines[i].text[k] # n
      BY <2>2 DEF LinesOK, EntriesOK, PlacedAt
    <3> QED
      BY <3>1, <3>2 DEF Visible
  <2> QED
    BY <2>1, <2>2
<1>2. \A n \in Items : Visible(n) => ~param.fallback /\ page[n].kind # "space"
  BY DEF Visible
<1>3. CASE param.fallback
  <2>1. shown' = {}
    BY <1>3 DEF dump_text
  <2> QED
    BY <1>2, <1>3, <2>1
<1>4. CASE ~param.fallback
  <2>1. shown' = {n \in Items :
                    /\ page[n].kind # "space"
                    /\ \E i \in 1 .. Len(lines) : \E k \in 1 .. Len(lines[i].text) :
                         lines[i].text[k] = n /\ Shows(lines[i], k)}
    BY <1>4 DEF dump_text
  <2> QED
    BY <1>1, <1>2, <1>4, <2>1, Zenon
<1> QED
  BY <1>3, <1>4

\* Once the page has been given, what the detector and the page hold stays.
LEMMA DetectorKept ==
  ASSUME IInv, UNCHANGED <<param, detectorVars, page>>, calls = <<>>
  PROVE  /\ DetectorOK'
         /\ \A n : Painted(n)' <=> Painted(n)
         /\ \A n : Visible(n)' <=> Visible(n)
<1>1. DP!IInv'
  BY DetectorStep DEF IInv, DetectorOK
<1>2. get_char_count' = get_char_count /\ Correct' = Correct
  BY DEF get_char_count, Correct, detectorVars
<1>3. \A n : is_char_covered(n)' <=> is_char_covered(n)
  BY DEF is_char_covered, get_char_count, detectorVars
<1> QED
  BY <1>1, <1>2, <1>3 DEF IInv, DetectorOK, Reported, Painted, AllPainted, Visible, TraceNo, PaintNo,
                          Items, detectorVars, is_char_covered, get_char_count, Correct

\* The lines wait for the end of the page.
LEMMA LinesWait ==
  ASSUME LinesOK, phase \in {"html", "background"}, phase' = "background",
         UNCHANGED <<param, page, lines>>
  PROVE  LinesOK'
BY DEF LinesOK, EntriesOK, InLines, Items, Correct

\* A background renderer starts at the first item, with nothing counted.
LEMMA RenderPageStep ==
  ASSUME IInv, phase \in {"html", "background"}, calls = <<>>, param.process_nontext,
         NEW r \in Renderers, render_page(r),
         UNCHANGED <<param, detectorVars, pages, page, lines, shown>>
  PROVE  IInv'
<1>1. /\ phase' = "background" /\ renderer' = r /\ pos' = 1 /\ background' = {}
      /\ drawn_char_count' = [drawn_char_count EXCEPT ![r] = 0]
  BY DEF render_page
<1>2. Before(page', Counted, 1) = 0
  BY BeforeFirst
<1>3. /\ drawn_char_count' \in [Renderers -> 0 .. MaxItems]
      /\ drawn_char_count'[renderer'] = 0
  BY <1>1, ConstantsAssumption DEF IInv, StateTyped
<1>4. StateTyped'
  BY <1>1, <1>3, ConstantsAssumption DEF IInv, StateTyped, Items
<1>5. Len(page') \in Nat
  BY DEF IInv, StateTyped
<1>6. LayersOK'
  BY <1>1, <1>2, <1>3, <1>5 DEF LayersOK, PaintNo
<1> QED
  BY <1>1, <1>4, <1>6, DetectorKept, LinesWait DEF IInv

\* The text layer is written, and the lines are forgotten.
LEMMA DumpStep ==
  ASSUME IInv, phase \in {"html", "background"}, calls = <<>>, dump_text,
         UNCHANGED <<param, detectorVars, pages, page, renderer, drawn_char_count, pos>>,
         background' = IF param.process_nontext THEN {n \in Items : Painted(n)} ELSE {}
  PROVE  IInv'
<1>1. phase' = "dumped" /\ lines' = <<>>
  BY DEF dump_text
<1>2. shown' = {n \in Items : Visible(n)}
  BY DumpTextShows DEF IInv
<1>3. /\ DetectorOK'
      /\ \A n : Painted(n)' <=> Painted(n)
      /\ \A n : Visible(n)' <=> Visible(n)
  BY DetectorKept
<1>4. LayersOK'
  BY <1>1, <1>2, <1>3 DEF LayersOK, Items
<1>5. LinesOK'
  BY <1>1 DEF LinesOK, EntriesOK
<1>6. StateTyped'
  BY <1>1, <1>2 DEF IInv, StateTyped, Items
<1> QED
  BY <1>3, <1>4, <1>5, <1>6 DEF IInv

\* endPage hands the settled detector to the background pass and starts its counter at 0.
LEMMA EndPageStep == ASSUME IInv, endPage PROVE IInv'
<1>1. /\ phase = "html" /\ calls = <<>>
      /\ UNCHANGED <<param, detectorVars, pages, page>>
  BY DEF endPage
<1>2. CASE param.process_nontext
  <2>1. PICK r \in Renderers : render_page(r) /\ UNCHANGED <<lines, shown>>
    BY <1>2 DEF endPage, Renderers
  <2> QED
    BY <1>1, <1>2, <2>1, RenderPageStep
<1>3. CASE ~param.process_nontext
  BY <1>1, <1>3, DumpStep DEF endPage
<1> QED
  BY <1>2, <1>3

\* The background renderer's count is the number of the next character, and it
\* paints an item exactly when the finished page has it there.
LEMMA PaintStep == ASSUME IInv, Paint PROVE IInv'
<1>1. /\ phase = "background" /\ phase' = phase /\ pos \in Items /\ pos' = pos + 1
      /\ UNCHANGED <<param, detectorVars, pages, page, lines, renderer, shown>>
  BY DEF Paint
<1> PICK len \in Nat : len = Len(page)
  BY DEF IInv, StateTyped
<1>2. /\ pos \in 1 .. len /\ len <= MaxItems /\ pos + 1 \in 1 .. MaxItems + 1
      /\ page[pos] \in PageItem
  BY <1>1, ElementOfSeq, ConstantsAssumption DEF Items, IInv, StateTyped
<1> PICK kind : kind = page[pos].kind
  OBVIOUS
<1>3. kind \in {"text", "space", "clipping", "image", "graphic"}
  BY <1>2, ConstantsAssumption DEF PageItem
<1> PICK count : count = drawn_char_count[renderer]
  OBVIOUS
<1> DEFINE counted == ~AllPainted /\ Correct
<1>4. /\ renderer \in Renderers
      /\ drawn_char_count \in [Renderers -> 0 .. MaxItems]
      /\ count = IF counted THEN PaintNo(pos) ELSE 0
      /\ background = {n \in 1 .. pos - 1 : Painted(n)}
      /\ calls = <<>>
  BY <1>1 DEF IInv, StateTyped, LayersOK, DetectorOK
<1>5. PaintNo(pos) \in 0 .. pos - 1
  BY <1>2, EarlierFinite DEF PaintNo
<1>6. PaintNo(pos + 1) = IF kind \in Counted THEN PaintNo(pos) + 1 ELSE PaintNo(pos)
  BY <1>2, BeforeCounts, BeforePasses DEF PaintNo
<1>7. /\ background' = IF Painted(pos) THEN background \cup {pos} ELSE background
      /\ drawn_char_count' = IF counted /\ kind \in Counted
                             THEN [drawn_char_count EXCEPT ![renderer] = count + 1]
                             ELSE drawn_char_count
  <2>1. CASE kind = "graphic"
    BY <2>1 DEF Paint, Painted, Counted
  <2>2. CASE kind \in {"image", "clipping"}
    BY <2>2 DEF Paint, drawChar, Painted, Counted
  <2>3. CASE kind \in {"text", "space"}
    <3>1. kind \in Counted
      BY <2>3 DEF Counted
    <3>2. Painted(pos) <=> AllPainted \/ (Correct /\ is_char_covered(PaintNo(pos)))
      BY <2>3 DEF Painted
    <3>3. drawChar /\ kind \notin {"image", "clipping"}
      BY <2>3 DEF Paint
    <3>4. CASE counted
      BY <1>4, <3>1, <3>2, <3>3, <3>4 DEF drawChar, Correct, AllPainted
    <3>5. CASE ~counted
      BY <1>4, <3>1, <3>2, <3>3, <3>5 DEF drawChar, Correct, AllPainted
    <3> QED
      BY <3>4, <3>5
  <2> QED
    BY <1>3, <2>1, <2>2, <2>3
<1>8. background' = {n \in 1 .. pos : Painted(n)}
  BY <1>2, <1>4, <1>7
<1>9. /\ drawn_char_count' \in [Renderers -> 0 .. MaxItems]
      /\ drawn_char_count'[renderer] = IF counted THEN PaintNo(pos + 1) ELSE 0
  <2>1. CASE counted /\ kind \in Counted
    <3>1. count + 1 \in 0 .. MaxItems /\ PaintNo(pos + 1) = count + 1
      BY <1>2, <1>4, <1>5, <1>6, <2>1, ConstantsAssumption
    <3>2. drawn_char_count' = [drawn_char_count EXCEPT ![renderer] = count + 1]
      BY <1>7, <2>1
    <3> QED
      BY <1>4, <2>1, <3>1, <3>2
  <2>2. CASE ~(counted /\ kind \in Counted)
    <3>1. counted => PaintNo(pos + 1) = PaintNo(pos)
      BY <1>6, <2>2
    <3> QED
      BY <1>4, <1>7, <2>2, <3>1
  <2> QED
    BY <2>1, <2>2
<1>10. /\ DetectorOK'
       /\ \A n : Painted(n)' <=> Painted(n)
  BY <1>1, <1>4, DetectorKept
<1>11. PaintNo(pos + 1) = Before(page', Counted, pos')
  BY <1>1 DEF PaintNo
<1>12. pos' - 1 = pos /\ pos' \in 1 .. len + 1
  BY <1>1, <1>2
<1>13. LayersOK'
  BY <1>1, <1>8, <1>9, <1>10, <1>11, <1>12 DEF IInv, LayersOK, PaintNo, AllPainted, Correct
<1>14. StateTyped'
  BY <1>1, <1>2, <1>8, <1>9 DEF IInv, StateTyped, Items
<1>15. LinesOK'
  BY <1>1, LinesWait DEF IInv
<1> QED
  BY <1>10, <1>13, <1>14, <1>15 DEF IInv

\* The fallback to a bitmap starts the second pass over, with its counter at 0.
LEMMA FallBackStep == ASSUME IInv, FallBack PROVE IInv'
<1>1. /\ phase = "background" /\ render_page("bitmap")
      /\ UNCHANGED <<param, detectorVars, pages, page, lines, shown>>
  BY DEF FallBack
<1>2. calls = <<>> /\ param.process_nontext
  BY <1>1 DEF IInv, DetectorOK, LayersOK
<1> QED
  BY <1>1, <1>2, RenderPageStep DEF Renderers

\* Dumping the text after the background pass keeps the invariant.
LEMMA DumpTextStep == ASSUME IInv, DumpText PROVE IInv'
<1>1. /\ phase = "background" /\ pos \notin Items /\ dump_text
      /\ UNCHANGED <<param, detectorVars, pages, page, renderer, drawn_char_count, pos,
                     background>>
  BY DEF DumpText
<1>2. /\ calls = <<>> /\ param.process_nontext
      /\ background = {n \in 1 .. pos - 1 : Painted(n)}
      /\ pos \in 1 .. Len(page) + 1 /\ Len(page) \in Nat
  BY <1>1 DEF IInv, DetectorOK, LayersOK, StateTyped
<1>3. pos = Len(page) + 1
  BY <1>1, <1>2 DEF Items
<1>4. background' = {n \in Items : Painted(n)}
  BY <1>1, <1>2, <1>3 DEF Items
<1> QED
  BY <1>1, <1>2, <1>4, DumpStep

\* Closing the page only makes room for the next one.
LEMMA ClosePageStep == ASSUME IInv, ClosePage PROVE IInv'
<1>1. /\ phase = "dumped" /\ phase' = "idle"
      /\ UNCHANGED <<param, detectorVars, pages, page, lines, renderer, drawn_char_count,
                     pos, background, shown>>
  BY DEF ClosePage
<1>2. calls = <<>> /\ lines = <<>>
  BY <1>1 DEF IInv, DetectorOK, LinesOK
<1>3. DetectorOK'
  BY <1>1, <1>2, DetectorKept
<1>4. LinesOK' /\ LayersOK'
  BY <1>1, <1>2 DEF LinesOK, EntriesOK, LayersOK
<1>5. StateTyped'
  BY <1>1 DEF IInv, StateTyped, Items
<1> QED
  BY <1>3, <1>4, <1>5 DEF IInv

-----------------------------------------------------------------------------

\* The invariant holds before the first page.
LEMMA InitIInv == Init => IInv
<1> SUFFICES ASSUME Init PROVE IInv
  OBVIOUS
<1>1. DP!Init
  BY DEF Init, Detector!Init, DP!Init
<1>2. DP!IInv
  BY <1>1, ConstantsAssumption, DP!InitIInv
<1>3. get_char_count = 0 /\ calls = <<>>
  BY DEF Init, Detector!Init, get_char_count
<1>4. page = <<>> /\ Len(page) = 0 /\ Items = {} /\ TraceNo(1) = 0
  BY BeforeFirst DEF Init, Items, TraceNo
<1>5. DetectorOK
  BY <1>2, <1>3, <1>4 DEF DetectorOK, Reported
<1>6. StateTyped
  BY <1>4, ConstantsAssumption DEF Init, StateTyped, Renderers
<1>7. LinesOK /\ LayersOK
  BY DEF Init, LinesOK, EntriesOK, LayersOK
<1> QED
  BY <1>5, <1>6, <1>7 DEF IInv

\* Every step of the two passes, and every step of the detector within them, keeps it.
LEMMA NextIInv == IInv /\ [Next]_vars => IInv'
<1> SUFFICES ASSUME IInv, [Next]_vars PROVE IInv'
  OBVIOUS
<1>1. ASSUME NEW box \in Boxes, NEW kind \in Kinds, NEW clip \in Clips, NEW newLine \in BOOLEAN,
             DrawText(kind, box, clip, newLine)
      PROVE  IInv'
  BY <1>1, DrawTextStep
<1>2. ASSUME NEW box \in Boxes, DrawImageText(box) \/ DrawGraphic(box) PROVE IInv'
  BY <1>2, DrawImageTextStep, DrawGraphicStep
<1>3. CASE startPage \/ Detect \/ endPage
  BY <1>3, StartPageStep, DetectStep, EndPageStep
<1>4. CASE Paint \/ FallBack \/ DumpText \/ ClosePage
  BY <1>4, PaintStep, FallBackStep, DumpTextStep, ClosePageStep
<1>5. CASE UNCHANGED vars
  <2>1. DP!IInv'
    BY <1>5, DetectorStep DEF vars, IInv, DetectorOK
  <2>2. UNCHANGED <<param, char_bboxes, chars_covered, calls, hidden, graphics, phase, pages,
                    page, lines, renderer, drawn_char_count, pos, background, shown>>
    BY <1>5 DEF vars, detectorVars
  <2>3. StateTyped'
    BY <2>2 DEF IInv, StateTyped, Items
  <2>4. DetectorOK'
    BY <2>1, <2>2 DEF IInv, DetectorOK, Reported, get_char_count, TraceNo, Correct, Items
  <2>5. LinesOK'
    BY <2>2 DEF IInv, LinesOK, EntriesOK, InLines, LastLineOK, get_char_count, Correct, Items
  <2>6. \A n : (Painted(n)' <=> Painted(n)) /\ (Visible(n)' <=> Visible(n))
    BY <2>2 DEF Painted, AllPainted, Visible, is_char_covered, get_char_count, TraceNo, PaintNo,
                Correct
  <2>7. LayersOK'
    BY <2>2, <2>6 DEF IInv, LayersOK, PaintNo, AllPainted, Correct, Items
  <2> QED
    BY <2>3, <2>4, <2>5, <2>7 DEF IInv
<1> QED
  BY <1>1, <1>2, <1>3, <1>4, <1>5 DEF Next, Clips

\* So it holds in every reachable state.
LEMMA Invariance == Spec => []IInv
BY InitIInv, NextIInv, PTL DEF Spec

-----------------------------------------------------------------------------

\* The state keeps its type: the detector has at most one verdict for each item of
\* the page, and the lines and both layers name items of this page only.
THEOREM TypeCorrect == Spec => []TypeOK
<1>1. ASSUME IInv PROVE TypeOK
  <2>1. StateTyped
    BY <1>1 DEF IInv
  <2> PICK len \in Nat : len = Len(page)
    BY <2>1 DEF StateTyped
  <2>2. TraceNo(len + 1) \in 0 .. len
    BY EarlierFinite DEF TraceNo
  <2>3. get_char_count <= len
    BY <1>1, <2>2 DEF IInv, DetectorOK, Reported
  <2>4. Len(chars_covered) = Len(char_bboxes)
    BY <1>1 DEF IInv, DetectorOK, DP!IInv, DP!TypeOK
  <2>5. \A i \in 1 .. Len(lines) : \A k \in 1 .. Len(lines[i].text) : lines[i].text[k] \in Items
    BY <1>1 DEF IInv, LinesOK, EntriesOK, PlacedAt, Items
  <2> QED
    BY <2>1, <2>3, <2>4, <2>5 DEF TypeOK, StateTyped, get_char_count
<1> QED
  BY <1>1, Invariance, PTL

\* No text up to item n clips.
NoClipping(n) == \A m \in 1 .. n : page[m].kind # "clipping"

\* EachCharOnce and PaintOrderKept, each as far as the page has no text that clips.
OnceUntilClipping ==
  phase = "dumped" /\ param.process_nontext =>
    \A n \in Items : NoClipping(n) /\ page[n].kind \in {"text", "image"} =>
      IF param.proof THEN n \in background ELSE (n \in shown) # (n \in background)

OrderUntilClipping ==
  phase = "dumped" /\ Correct /\ ~param.proof =>
    \A m, n \in Items :
      m < n /\ bbox_intersect(page[m].box, page[n].box)
            /\ page[n].kind # "image" /\ page[n].clip # "outside" /\ NoClipping(n) =>
        ~ (m \in shown /\ n \in background)

\* The detector and the page mean the same by overlapping boxes.
LEMMA SameOverlap == \A p, q : DP!bbox_intersect(p, q) <=> bbox_intersect(p, q)
BY Zenon DEF DP!bbox_intersect, DP!OverlapFrom, DP!OverlapTo, DP!Lower, DP!Upper,
         bbox_intersect, OverlapFrom, OverlapTo, Lower, Upper

\* On a finished page a character with no clipping text up to it is in one of the layers,
\* because both passes looked it up under the same number.
LEMMA DumpedOnce == IInv => OnceUntilClipping
<1> SUFFICES ASSUME IInv, phase = "dumped", param.process_nontext, NEW n \in Items,
                    NoClipping(n), page[n].kind \in {"text", "image"}
             PROVE  IF param.proof THEN n \in background ELSE (n \in shown) # (n \in background)
  BY DEF OnceUntilClipping
<1>1. (n \in shown <=> Visible(n)) /\ (n \in background <=> Painted(n))
  BY DEF IInv, LayersOK
<1>2. n \in Nat /\ \A m \in 1 .. n - 1 : page[m].kind # "clipping"
  BY DEF NoClipping, Items
<1>3. TraceNo(n) = PaintNo(n)
  BY <1>2, CountsAgree
<1>4. CASE ~param.proof
  <2>1. Visible(n) <=> ~Painted(n)
    <3>1. CASE page[n].kind = "text"
      BY <1>3, <1>4, <3>1 DEF Visible, Painted, AllPainted
    <3>2. CASE page[n].kind = "image"
      BY <3>2 DEF Visible, Painted
    <3> QED
      BY <3>1, <3>2
  <2> QED
    BY <1>1, <1>4, <2>1, Zenon
<1>5. CASE param.proof
  <2>1. Painted(n)
    BY <1>5 DEF Painted, AllPainted
  <2> QED
    BY <1>1, <1>5, <2>1, Zenon
<1> QED
  BY <1>4, <1>5

\* The detector's verdicts, in terms of the items of the page.
LEMMA VerdictOnPage ==
  ASSUME IInv, phase = "dumped", Correct,
         NEW m \in Items, page[m].kind \in Traced, ~is_char_covered(TraceNo(m))
  PROVE  /\ TraceNo(m) + 1 \in 1 .. Len(char_bboxes)
         /\ ~chars_covered[TraceNo(m) + 1]
         /\ char_bboxes[TraceNo(m) + 1] = page[m].box
<1> PICK len \in Nat : len = Len(page)
  BY DEF IInv, StateTyped
<1>1. TraceNo(m) \in Nat /\ TraceNo(len + 1) \in Nat
  BY EarlierFinite DEF TraceNo, Items
<1>2. TraceNo(m) < TraceNo(len + 1)
  BY BeforeGrows DEF TraceNo, Items
<1>3. get_char_count = TraceNo(len + 1) /\ Len(char_bboxes) = get_char_count
  BY DEF IInv, DetectorOK, Reported, DP!IInv, DP!TypeOK, get_char_count
<1>4. TraceNo(m) + 1 \in 1 .. get_char_count
  BY <1>1, <1>2, <1>3
<1>5. char_bboxes[TraceNo(m) + 1] = page[m].box
  BY DEF IInv, DetectorOK, Reported
<1> QED
  BY <1>3, <1>4, <1>5, Zenon DEF is_char_covered

\* On a finished page such a character that is in the text layer lies under nothing painted
\* after it, because the detector saw everything that was.
LEMMA DumpedOrder == IInv => OrderUntilClipping
<1> SUFFICES ASSUME IInv, phase = "dumped", Correct, ~param.proof,
                    NEW m \in Items, NEW n \in Items, m < n,
                    bbox_intersect(page[m].box, page[n].box),
                    page[n].kind # "image", page[n].clip # "outside", NoClipping(n),
                    m \in shown, n \in background
             PROVE  FALSE
  BY DEF OrderUntilClipping
<1>1. Visible(m) /\ Painted(n)
  BY DEF IInv, LayersOK
<1>2. /\ ~param.fallback /\ page[m].kind \in Traced
      /\ ~is_char_covered(TraceNo(m))
  BY <1>1 DEF Visible, Traced
<1> PICK j : j = TraceNo(m) + 1
  OBVIOUS
<1>3. /\ j \in DP!Chars /\ ~chars_covered[j] /\ char_bboxes[j] = page[m].box
  BY <1>2, VerdictOnPage DEF DP!Chars
<1>4. /\ \A g \in graphics : j <= g.after => ~bbox_intersect(char_bboxes[j], g.bbox)
      /\ \A i \in DP!Chars :
           i > j /\ DP!InBackground(i) => ~bbox_intersect(char_bboxes[j], char_bboxes[i])
  <2>1. DP!NothingPaintedOverText
    BY ConstantsAssumption, DP!IdleIsSettled DEF IInv, DetectorOK
  <2>2. calls = <<>>
    BY DEF IInv, DetectorOK
  <2> QED
    BY <1>3, <2>1, <2>2, SameOverlap, Zenon DEF DP!NothingPaintedOverText
<1>5. m \in Nat \ {0} /\ n \in Nat
  BY DEF Items
<1>6. TraceNo(m) < TraceNo(n) /\ TraceNo(m) \in Nat /\ TraceNo(n) \in Nat
  BY <1>2, <1>5, BeforeGrows, EarlierFinite DEF TraceNo
<1>7. CASE page[n].kind = "graphic"
  <2> PICK g : g = [bbox |-> page[n].box, after |-> TraceNo(n)]
    OBVIOUS
  <2>1. g \in graphics
    BY <1>7 DEF IInv, DetectorOK, Reported
  <2>2. g.bbox = page[n].box /\ j <= g.after
    BY <1>6
  <2> QED
    BY <1>3, <1>4, <2>1, <2>2
<1>8. CASE page[n].kind # "graphic"
  <2>1. page[n].kind # "clipping"
    BY <1>5 DEF NoClipping
  <2>2. is_char_covered(PaintNo(n))
    BY <1>1, <1>2, <1>8, <2>1 DEF Painted, AllPainted
  <2>3. PaintNo(n) = TraceNo(n)
    <3>1. \A l \in 1 .. n - 1 : page[l].kind # "clipping"
      BY <1>5 DEF NoClipping
    <3> QED
      BY <1>5, <3>1, CountsAgree
  <2>4. page[n].kind \in Traced
    <3>1. page[n].kind \in {"text", "space", "clipping", "image", "graphic"}
      BY ItemOfPage, ConstantsAssumption DEF IInv, PageItem
    <3> QED
      BY <1>8, <3>1 DEF Traced
  <2> PICK i : i = TraceNo(n) + 1
    OBVIOUS
  <2>5. i \in 1 .. get_char_count /\ chars_covered[i]
    BY <2>2, <2>3, Zenon DEF is_char_covered
  <2>6. i \in DP!Chars
    BY <2>5 DEF get_char_count, DP!Chars, IInv, DetectorOK, DP!IInv, DP!TypeOK
  <2>7. i \notin hidden /\ char_bboxes[i] = page[n].box
    BY <2>4 DEF IInv, DetectorOK, Reported
  <2>8. DP!InBackground(i) /\ i > j
    <3>1. i > j
      BY <1>6
    <3> QED
      BY <2>5, <2>7, <3>1, Zenon DEF DP!InBackground
  <2> QED
    BY <1>3, <1>4, <2>6, <2>7, <2>8
<1> QED
  BY <1>7, <1>8

\* Up to the first text that clips, every character of a page is in exactly one
\* layer - in the background of a proof at least -, whatever the page, the settings
\* and the renderer: the number by position in a line and the count of the second
\* pass agree so far.
THEOREM OnceBeforeClipping == Spec => []OnceUntilClipping
BY DumpedOnce, Invariance, PTL

\* Up to the first text that clips, no HTML text lies over something the page draws
\* on top of it, as far as the tracer is told of it.
THEOREM OrderBeforeClipping == Spec => []OrderUntilClipping
BY DumpedOrder, Invariance, PTL

\* A document without text that clips: every character of every page is in exactly
\* one layer, the HTML or the image under it (HTMLTextLine::dump_text and the
\* background renderers' drawChar).
THEOREM CharsOnce ==
  ASSUME "clipping" \notin Kinds
  PROVE  Spec => []EachCharOnce
<1>1. IInv => EachCharOnce
  <2> SUFFICES ASSUME IInv PROVE EachCharOnce
    OBVIOUS
  <2>1. \A n \in Items : page[n].kind # "clipping"
    BY ItemOfPage DEF IInv, PageItem
  <2>2. \A n \in Items : NoClipping(n)
    BY <2>1 DEF NoClipping, Items, IInv, StateTyped
  <2> QED
    BY <2>1, <2>2, DumpedOnce DEF OnceUntilClipping, EachCharOnce
<1> QED
  BY <1>1, Invariance, PTL

\* A document without text that clips: the HTML text hides nothing that the page
\* draws over it (CoveredTextDetector, through both passes).
THEOREM OrderKept ==
  ASSUME "clipping" \notin Kinds
  PROVE  Spec => []PaintOrderKept
<1>1. IInv => PaintOrderKept
  <2> SUFFICES ASSUME IInv PROVE PaintOrderKept
    OBVIOUS
  <2>1. \A n \in Items : page[n].kind # "clipping"
    BY ItemOfPage DEF IInv, PageItem
  <2>2. \A n \in Items : NoClipping(n)
    BY <2>1 DEF NoClipping, Items, IInv, StateTyped
  <2> QED
    BY <2>2, DumpedOrder DEF OrderUntilClipping, PaintOrderKept, Correct
<1> QED
  BY <1>1, Invariance, PTL

-----------------------------------------------------------------------------

\* Whatever the two passes do, of the detector they only use its operations.
LEMMA NextMoves == [Next]_vars => DetectorMoves
<1> SUFFICES ASSUME [Next]_vars PROVE DetectorMoves
  OBVIOUS
<1>1. ASSUME NEW box \in Boxes, NEW kind \in Kinds, NEW clip \in Clips, NEW newLine \in BOOLEAN,
             DrawText(kind, box, clip, newLine)
      PROVE  DetectorMoves
  BY <1>1, Zenon DEF DrawText, TraceChar, DetectorMoves
<1>2. ASSUME NEW box \in Boxes, DrawImageText(box) \/ DrawGraphic(box) PROVE DetectorMoves
  BY <1>2, Zenon DEF DrawImageText, DrawGraphic, DetectorMoves
<1>3. CASE startPage \/ Detect
  BY <1>3, Zenon DEF startPage, Detect, DetectorMoves
<1>4. CASE endPage \/ Paint \/ FallBack \/ DumpText \/ ClosePage \/ UNCHANGED vars
  <2>1. UNCHANGED detectorVars
    BY <1>4 DEF endPage, Paint, FallBack, DumpText, ClosePage, vars
  <2> QED
    BY <2>1, Zenon DEF DetectorMoves
<1> QED
  BY <1>1, <1>2, <1>3, <1>4 DEF Next, Clips

\* A page drawn in two passes drives the detector as its specification expects, and
\* moves characters to the background only where the abstract page calls for it:
\* nothing the renderers do to the detector disturbs what was proved of it alone.
THEOREM DetectorRefinement == Spec => DP!ImplementsPaintLayers
<1>1. Init => DP!Init
  BY DEF Init, Detector!Init, DP!Init
<1>2. [Next]_vars => [DP!Next]_(DP!vars)
  BY NextMoves, DetectorConforms
<1>3. DP!Spec => DP!ImplementsPaintLayers
  BY ConstantsAssumption, DP!Refinement
<1> QED
  BY <1>1, <1>2, <1>3, PTL DEF Spec, DP!Spec
=============================================================================
