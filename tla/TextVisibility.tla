--------------------------- MODULE TextVisibility ---------------------------
(***************************************************************************)
(* How a page becomes an image under HTML text.                            *)
(*                                                                         *)
(* Poppler interprets the page once for HTMLRenderer, which collects the   *)
(* text lines and feeds the covered text detector, and again, at the end   *)
(* of the page, for a background renderer, which paints everything that is *)
(* not HTML text.  A character has no name that the passes share: the text *)
(* layer finds its verdict by position in a line, the background renderer  *)
(* by counting the characters it is given.                                 *)
(*                                                                         *)
(* The page is what the first pass is given; the second is given the same. *)
(* Kinds of items: text; space, a space written as an offset; clipping,    *)
(* text with a render mode >= 4; image, text of a vertical or Type 3 font; *)
(* graphic, anything that is not text.                                     *)
(***************************************************************************)
EXTENDS BBox, Sequences, FiniteSets

CONSTANTS Boxes,      (* the bounding boxes that occur                        *)
          Kinds,      (* the kinds of items that occur                        *)
          Params,     (* settings [process_nontext, correct_text_visibility,  *)
                      (*    fallback, proof, svg_node_count_limit : BOOLEAN]  *)
          MaxItems,   (* bound: items on a page                               *)
          MaxPages    (* bound: pages                                         *)

ASSUME ConstantsAssumption ==
  /\ MaxItems \in Nat /\ MaxPages \in Nat
  /\ Kinds \subseteq {"text", "space", "clipping", "image", "graphic"}
  /\ Params \subseteq [process_nontext : BOOLEAN, correct_text_visibility : BOOLEAN,
                       fallback : BOOLEAN, proof : BOOLEAN, svg_node_count_limit : BOOLEAN]

VARIABLES param,
          char_bboxes, chars_covered, calls, hidden, graphics,  \* the detector
          phase,              \* idle, html, background, dumped
          pages,              \* pages started
          page,               \* the items of the page, in drawing order
          lines,              \* the page's text lines, each with its items
          renderer,           \* the background renderer at work
          drawn_char_count,   \* of each background renderer
          pos,                \* the item the background renderer is given next
          background,         \* the items it has painted
          shown               \* the items the text layer shows

detectorVars == <<char_bboxes, chars_covered, calls, hidden, graphics>>
vars == <<param, detectorVars, phase, pages, page, lines, renderer,
          drawn_char_count, pos, background, shown>>

Detector == INSTANCE CoveredTextDetector
              WITH MaxChars <- MaxItems, MaxGraphics <- MaxItems

Renderers == {"svg", "bitmap"}
Items == 1 .. Len(page)

get_char_count == Len(chars_covered)

\* Counts from 0, as the code does; an index out of bounds is not covered.
is_char_covered(index) == index + 1 \in 1 .. get_char_count /\ chars_covered[index + 1]

-----------------------------------------------------------------------------

Init ==
  /\ param \in Params
  /\ Detector!Init
  /\ phase = "idle"
  /\ pages = 0
  /\ page = <<>>
  /\ lines = <<>>
  /\ renderer = "bitmap"
  /\ drawn_char_count = [r \in Renderers |-> 0]
  /\ pos = 1
  /\ background = {}
  /\ shown = {}

(* A plausible slip: the detector is not reset for the page. *)

StartPageWithoutReset ==
  /\ phase = "idle"
  /\ pages < MaxPages
  /\ UNCHANGED detectorVars
  /\ phase' = "html"
  /\ pages' = pages + 1
  /\ page' = <<>>
  /\ pos' = 1
  /\ background' = {}
  /\ shown' = {}
  /\ UNCHANGED <<param, lines, renderer, drawn_char_count>>

startPage ==
  /\ phase = "idle"
  /\ pages < MaxPages
  /\ Detector!reset
  /\ phase' = "html"
  /\ pages' = pages + 1
  /\ page' = <<>>
  /\ pos' = 1
  /\ background' = {}
  /\ shown' = {}
  /\ UNCHANGED <<param, lines, renderer, drawn_char_count>>

-----------------------------------------------------------------------------
\* The first pass.

\* What the tracer reports of a character, according to its place in the clip path.
TraceChar(box, clip) ==
  IF ~param.correct_text_visibility THEN UNCHANGED detectorVars
  ELSE \/ clip = "inside" /\ Detector!add_char_bbox(box)
       \/ clip = "partial" /\ Detector!add_char_bbox_clipped(box, TRUE)
       \/ clip = "outside" /\ Detector!add_char_bbox_clipped(box, FALSE)

\* The lines once this item has been written: in a new line, which remembers how
\* many characters were drawn before it, or in the current one.
WithItem(newLine) ==
  LET item == Len(page) + 1
      first == IF param.correct_text_visibility THEN get_char_count ELSE -1
  IN  IF newLine \/ lines = <<>>
      THEN Append(lines, [first_char_index |-> first, text |-> <<item>>])
      ELSE [lines EXCEPT ![Len(lines)].text = Append(@, item)]

Given(kind, box, clip) ==
  /\ phase = "html"
  /\ calls = <<>>
  /\ kind \in Kinds
  /\ Len(page) < MaxItems
  /\ page' = Append(page, [kind |-> kind, box |-> box, clip |-> clip])
  /\ UNCHANGED <<param, phase, pages, renderer, drawn_char_count, pos, background, shown>>

(* A plausible slip: a space written as an offset leaves no place in the line. *)

DrawTextWithoutPadding(kind, box, clip, newLine) ==
  /\ kind \in {"text", "space", "clipping"}
  /\ Given(kind, box, clip)
  /\ lines' = IF kind = "space" THEN lines ELSE WithItem(newLine)
  /\ TraceChar(box, clip)

\* drawString for one character; a space written as an offset keeps its place in
\* the line as a padding character.
DrawText(kind, box, clip, newLine) ==
  /\ kind \in {"text", "space", "clipping"}
  /\ Given(kind, box, clip)
  /\ lines' = WithItem(newLine)
  /\ TraceChar(box, clip)

\* drawString returns at once for a vertical or Type 3 font.
DrawImageText(box) ==
  /\ Given("image", box, "inside")
  /\ UNCHANGED <<lines, detectorVars>>

(* A plausible slip: one of the drawing callbacks does not call the tracer. *)

DrawGraphicUntraced(box) ==
  /\ Given("graphic", box, "inside")
  /\ UNCHANGED <<lines, detectorVars>>

DrawGraphic(box) ==
  /\ Given("graphic", box, "inside")
  /\ IF param.correct_text_visibility
     THEN Detector!add_non_char_bbox(box)
     ELSE UNCHANGED detectorVars
  /\ UNCHANGED lines

\* The detector at work, inside the call that reported the item.
Detect ==
  /\ Detector!Run
  /\ UNCHANGED <<param, phase, pages, page, lines, renderer, drawn_char_count, pos,
                 background, shown>>

-----------------------------------------------------------------------------
\* The second pass, and the end of the page.

render_page(r) ==
  /\ phase' = "background"
  /\ renderer' = r
  /\ drawn_char_count' = [drawn_char_count EXCEPT ![r] = 0]
  /\ pos' = 1
  /\ background' = {}

Shows(line, k) ==
  \/ line.first_char_index < 0
  \/ ~is_char_covered(line.first_char_index + k - 1)

\* dump_text: covered characters, padding, and all text in fallback mode, come out
\* invisible.
dump_text ==
  /\ shown' = IF param.fallback THEN {}
              ELSE {n \in Items :
                      /\ page[n].kind # "space"
                      /\ \E i \in 1 .. Len(lines) : \E k \in 1 .. Len(lines[i].text) :
                           lines[i].text[k] = n /\ Shows(lines[i], k)}
  /\ lines' = <<>>
  /\ phase' = "dumped"

endPage ==
  /\ phase = "html"
  /\ calls = <<>>
  /\ IF param.process_nontext
     THEN /\ render_page(IF param.svg_node_count_limit THEN "svg" ELSE "bitmap")
          /\ UNCHANGED <<lines, shown>>
     ELSE /\ dump_text
          /\ background' = {}
          /\ UNCHANGED <<renderer, drawn_char_count, pos>>
  /\ UNCHANGED <<param, detectorVars, pages, page>>

\* The item the background renderer is given, drawn unless it is HTML text.
drawChar ==
  LET item == page[pos]
      asImage == param.fallback \/ param.proof \/ item.kind \in {"image", "clipping"}
      count == drawn_char_count[renderer]
      counted == ~asImage /\ param.correct_text_visibility
  IN  /\ background' = IF asImage \/ (counted /\ is_char_covered(count))
                       THEN background \cup {pos} ELSE background
      /\ drawn_char_count' = IF counted
                             THEN [drawn_char_count EXCEPT ![renderer] = @ + 1]
                             ELSE drawn_char_count

Paint ==
  /\ phase = "background"
  /\ pos \in Items
  /\ IF page[pos].kind = "graphic"
     THEN background' = background \cup {pos} /\ UNCHANGED drawn_char_count
     ELSE drawChar
  /\ pos' = pos + 1
  /\ UNCHANGED <<param, detectorVars, phase, pages, page, lines, renderer, shown>>

\* An SVG with too many nodes is dropped: the page is painted again as a bitmap.
FallBack ==
  /\ phase = "background"
  /\ pos \notin Items
  /\ renderer = "svg"
  /\ render_page("bitmap")
  /\ UNCHANGED <<param, detectorVars, pages, page, lines, shown>>

DumpText ==
  /\ phase = "background"
  /\ pos \notin Items
  /\ dump_text
  /\ UNCHANGED <<param, detectorVars, pages, page, renderer, drawn_char_count, pos,
                 background>>

ClosePage ==
  /\ phase = "dumped"
  /\ phase' = "idle"
  /\ UNCHANGED <<param, detectorVars, pages, page, lines, renderer, drawn_char_count,
                 pos, background, shown>>

Next ==
  \/ startPage
  \/ \E box \in Boxes :
       \/ \E kind \in Kinds, clip \in {"inside", "partial", "outside"}, newLine \in BOOLEAN :
            DrawText(kind, box, clip, newLine)
       \/ DrawImageText(box)
       \/ DrawGraphic(box)
  \/ Detect
  \/ endPage
  \/ Paint
  \/ FallBack
  \/ DumpText
  \/ ClosePage

Spec == Init /\ [][Next]_vars

-----------------------------------------------------------------------------

\* The state keeps its type: the detector has no more verdicts than the page has
\* items, and the lines and layers name items of this page only (startPage, endPage).
TypeOK ==
  /\ param \in Params
  /\ phase \in {"idle", "html", "background", "dumped"}
  /\ pages \in 0 .. MaxPages
  /\ renderer \in Renderers
  /\ drawn_char_count \in [Renderers -> 0 .. MaxItems]
  /\ pos \in 1 .. MaxItems + 1
  /\ background \cup shown \subseteq Items
  /\ Len(chars_covered) = Len(char_bboxes) /\ Len(chars_covered) <= Len(page)
  /\ \A i \in 1 .. Len(lines) : \A k \in 1 .. Len(lines[i].text) :
       lines[i].text[k] \in Items

\* With both layers in place every character is in exactly one of them: what the
\* text layer hides is what the background draws, though the one goes by position
\* and the other by count, on the first page and on later ones, whichever
\* background renderer draws the page in the end.  A proof draws all of them there.
EachCharOnce ==
  phase = "dumped" /\ param.process_nontext =>
    \A n \in Items : page[n].kind \in {"text", "clipping", "image"} =>
      IF param.proof THEN n \in background ELSE (n \in shown) # (n \in background)

\* The HTML text, which is above the image, hides nothing the page draws over it,
\* as far as the tracer is told of it; a proof has all text in both layers.
PaintOrderKept ==
  phase = "dumped" /\ param.correct_text_visibility /\ ~param.proof =>
    \A m, n \in Items :
      m < n /\ bbox_intersect(page[m].box, page[n].box)
            /\ page[n].kind # "image" /\ page[n].clip # "outside" =>
        ~ (m \in shown /\ n \in background)

\* "covered texts are made transparent in text layer, and are drawn on background
\* layer": no text disappears from both.
CoveredTextMoves ==
  phase = "dumped" =>
    \A n \in Items : page[n].kind = "text" /\ page[n].clip # "outside" =>
      n \in shown \/ n \in background
=============================================================================
