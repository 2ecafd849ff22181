----------------------------- MODULE TextState -----------------------------
(***************************************************************************)
(* Text state tracking of the HTML pass.  Poppler (external) reports that  *)
(* something changed; HTMLRenderer only marks what, and compares with the  *)
(* state it last wrote when the next string is drawn.  It then decides     *)
(* between no change, a new state, a new line and a new clip region, and   *)
(* expresses a move as an offset inside the current line when it can.      *)
(*                                                                         *)
(* gfx is the state of the PDF, r what the renderer remembers, and page    *)
(* what the lines written so far mean to a reader of the HTML.  Matrices   *)
(* are scalings with a translation and lengths are integers, so that EPS   *)
(* is exact equality; the page's zoom is 1.                                *)
(***************************************************************************)
EXTENDS Integers, Sequences, FiniteSets, FiniteSetsExt

CONSTANTS
  MaxOps, MaxPages,  \* bounds: operators in a page, pages
  Moves,             \* Td: <<x, y>>
  TextMats, Concats, \* Tm: <<scale, x, y>>; cm: scale
  Fonts, FontSizes,  \* Tf
  CharSpaces, WordSpaces, HorizScalings, Rises, Shifts, Fills, Clips,
  Images,            \* fonts whose strings are drawn on the background only
  Strings,           \* kinds of strings shown
  OptimizeText, SpaceAsOffset, Fallback  \* param

\* One character each: a letter; a space; a code 32 that is not a space; and a
\* space that is not the single byte 32.
LETTER == [code32 |-> FALSE, space |-> FALSE]
SPACE  == [code32 |-> TRUE,  space |-> TRUE]
SLOT   == [code32 |-> TRUE,  space |-> FALSE]
WIDE   == [code32 |-> FALSE, space |-> TRUE]

ASSUME TextStateAssumption ==
  /\ MaxOps \in Nat /\ MaxPages \in Nat \ {0}
  /\ Moves \subseteq Int \X Int /\ TextMats \subseteq (Nat \ {0}) \X Int \X Int
  /\ Concats \subseteq Nat \ {0} /\ FontSizes \subseteq Nat \ {0}
  /\ HorizScalings \subseteq Nat \ {0}
  /\ CharSpaces \cup WordSpaces \cup Rises \cup Shifts \subseteq Int
  /\ Images \subseteq Fonts /\ Clips \subseteq Nat \ {0}
  /\ Strings \subseteq [code32 : BOOLEAN, space : BOOLEAN]
  /\ {OptimizeText, SpaceAsOffset, Fallback} \subseteq BOOLEAN

VARIABLES
  gfx,     \* GfxState (external)
  saved,   \* the state that q saved (external)
  r,       \* the renderer's copy, and what is drawn so far
  changed, \* the *_changed flags that are set
  page,    \* HTMLTextPage: its lines and clips, and the reader's pen
  shown,   \* where and how the last string is shown
  meant,   \* where and how the PDF shows it
  nullLine, \* an offset was appended while there was no line
  adrift,   \* whether such a string was left out of account, see below
  ops, pages

vars == <<gfx, saved, r, changed, page, shown, meant, nullLine, adrift, ops, pages>>

Flags == {"all", "pos", "font", "ctm", "text_mat", "hori_scale", "rise",
          "letter_space", "word_space", "fill_color", "clip"}

NONE == 0
NEWSTATE == 1
NEWLINE == 2
NEWCLIP == 3

CHAR_WIDTH == 4      \* metrics of a font of size 1 (external)
ASCENT == 4
DESCENT == 0

TRANSPARENT == 0

\* A string in a font that is drawn as an image does not move the renderer's
\* position.  text: there was one since the last positioning; line: the open
\* line has been misplaced since, by that or by a move; shown: so it was for
\* the last string shown.
NotAdrift == [text |-> FALSE, line |-> FALSE, shown |-> FALSE]

Nowhere == [x |-> 0, y |-> 0, end |-> 0, font |-> 0, size |-> 0, fill |-> 0, clip |-> 0]

-----------------------------------------------------------------------------
(* The PDF.                                                                *)
NewGfx == [ctm |-> 1, tm |-> <<1, 0, 0>>, line |-> <<0, 0>>, cur |-> 0,
           font |-> 1, size |-> 1, tc |-> 0, tw |-> 0, h |-> 1, rise |-> 0,
           fill |-> 1, clip |-> 1]

PageScale(g) == g.ctm * g.tm[1]
PageX(g) == PageScale(g) * g.cur + g.ctm * g.tm[2]
PageY(g) == PageScale(g) * (g.line[2] + g.rise) + g.ctm * g.tm[3]

\* The advance of one character in text space.
Advance(g, c) == (CHAR_WIDTH * g.size + g.tc + (IF c.code32 THEN g.tw ELSE 0)) * g.h

\* cur_text_tm: CTM times text matrix times horizontal scaling and rise.
TextTm(g) == [sx |-> PageScale(g) * g.h, sy |-> PageScale(g),
              x |-> g.ctm * g.tm[2], y |-> PageScale(g) * g.rise + g.ctm * g.tm[3]]

-----------------------------------------------------------------------------
(* reset_state and HTMLTextPage::clear.                                    *)
ResetClipToPage == 1  \* mutant: the whole page, as a page starts with
ResetClip == 0        \* an empty region, which no page has

ResetR ==
  [tx |-> 0, ty |-> 0, drawX |-> 0, drawY |-> 0, fontSize |-> 0,
   tm |-> [sx |-> 1, sy |-> 1, x |-> 0, y |-> 0], scale |-> 1, matrix |-> 1,
   text |-> [font |-> 0, size |-> 0, ls |-> 0, ws |-> 0, fill |-> TRANSPARENT, va |-> 0],
   clip |-> ResetClip]

\* lines holds, for each line, the clip region its text is meant to have; a
\* clip applies from its start on.  open is false while cur_line is null.  The
\* reader's pen is at <<pen, base>> from origin on the page: the matrix of the
\* line scales its lengths horizontally.  style is the last state appended.
EmptyPageKeepingLine ==  \* mutant: clear leaves cur_line
  [open |-> TRUE, lines |-> <<>>, clips |-> <<>>, origin |-> <<0, 0>>, matrix |-> 1,
   pen |-> 0, base |-> 0, style |-> ResetR.text]
EmptyPage ==
  [open |-> FALSE, lines |-> <<>>, clips |-> <<>>, origin |-> <<0, 0>>, matrix |-> 1,
   pen |-> 0, base |-> 0, style |-> ResetR.text]

ClipPage(p, clip) ==
  LET last == Len(p.clips)
  IN IF last > 0 /\ p.clips[last].start = Len(p.lines)
     THEN [p EXCEPT !.clips[last].clip = clip]
     ELSE [p EXCEPT !.clips = Append(@, [clip |-> clip, start |-> Len(p.lines)])]

\* HTMLTextPage::dump_text: the clip element that line i is written in.
ClipOfNext(p, i) ==  \* mutant: <= for <
  LET before == {c \in 1..Len(p.clips) : p.clips[c].start <= i}
  IN IF before = {} THEN 0 ELSE p.clips[Max(before)].clip
ClipOf(p, i) ==
  LET before == {c \in 1..Len(p.clips) : p.clips[c].start < i}
  IN IF before = {} THEN 0 ELSE p.clips[Max(before)].clip

AppendOffset(p, across) == [p EXCEPT !.pen = @ + across]
AppendState(p, text) == [p EXCEPT !.style = text, !.base = @ + text.va]

-----------------------------------------------------------------------------
(* check_state_change.                                                     *)
Marked(flag) == "all" \in changed \/ flag \in changed

\* The font size in the HTML includes the vertical scaling of the matrix, so a
\* change of either splits the matrix again.
RescalesWithFont(tm, fontSize) == fontSize # r.fontSize  \* mutant
Rescales(tm, fontSize) == tm # r.tm \/ fontSize # r.fontSize

\* Letter and word space are scaled too.
RespacedIfMarked(flag, scale) == Marked(flag)  \* mutant
Respaced(flag, scale) == Marked(flag) \/ scale # r.scale

\* Everything but the position: what changed, and how much of a break it is.
Compared ==
  LET fontSize == IF Marked("font") THEN gfx.size ELSE r.fontSize
      font == IF Marked("font") THEN gfx.font ELSE r.text.font
      tm == IF \E f \in {"ctm", "text_mat", "hori_scale", "rise"} : Marked(f)
            THEN TextTm(gfx) ELSE r.tm
      rescale == Rescales(tm, fontSize)
      scale == IF rescale THEN tm.sy ELSE r.scale
      size == IF rescale THEN fontSize * scale ELSE r.text.size
      matrix == IF rescale THEN tm.sx \div scale ELSE r.matrix
      clip == IF Marked("clip") THEN gfx.clip ELSE r.clip
      text == [font |-> font, size |-> size, va |-> 0,
               ls |-> IF Respaced("letter_space", scale) THEN gfx.tc * scale ELSE r.text.ls,
               ws |-> IF Respaced("word_space", scale) THEN gfx.tw * scale ELSE r.text.ws,
               fill |-> IF ~Fallback /\ Marked("fill_color") THEN gfx.fill ELSE r.text.fill]
  IN [new |-> [r EXCEPT !.fontSize = fontSize, !.tm = tm, !.scale = scale,
                        !.matrix = matrix, !.clip = clip, !.text = text],
      recheck |-> Marked("pos") \/ tm # r.tm,
      break |-> IF clip # r.clip THEN NEWCLIP
                ELSE IF matrix # r.matrix \/ (font # r.text.font /\ {font, r.text.font} \cap Images # {})
                THEN NEWLINE
                ELSE IF text # [r.text EXCEPT !.va = 0] THEN NEWSTATE ELSE NONE]

\* The move (dx, dy) that takes the old text matrix to the new position, before
\* horizontal scaling: dx * old_draw_text_scale, dy * old_draw_text_scale.
ShiftInNewScale(new) ==  \* mutant: draw_text_scale for old_draw_text_scale
  LET lhs1 == new.tm.sx * r.tx + new.tm.x - r.tm.sx * r.drawX - r.tm.x
      lhs2 == new.tm.sy * r.ty + new.tm.y - r.tm.sy * r.drawY - r.tm.y
  IN <<(lhs1 * new.scale) \div r.tm.sx, (lhs2 * new.scale) \div r.tm.sy>>
Shift(new) ==
  LET lhs1 == new.tm.sx * r.tx + new.tm.x - r.tm.sx * r.drawX - r.tm.x
      lhs2 == new.tm.sy * r.ty + new.tm.y - r.tm.sy * r.drawY - r.tm.y
  IN <<(lhs1 * r.scale) \div r.tm.sx, (lhs2 * r.scale) \div r.tm.sy>>

\* A move along the baseline always fits in the line; another one only if it
\* does not go far to the left and the old and new glyphs overlap in height.
EmSize(text) == text.size * (ASCENT - DESCENT)
Fits(shift, new) ==
  \/ shift[2] = 0
  \/ /\ OptimizeText
     /\ 8 * shift[1] >= -EmSize(r.text)
     /\ shift[2] + DESCENT * new.text.size <= ASCENT * r.text.size
     /\ shift[2] + ASCENT * new.text.size >= DESCENT * r.text.size

\* The move is made: what is drawn next is where the PDF draws it.
DrawnAt(new, va) == [new EXCEPT !.text.va = va, !.drawX = r.tx, !.drawY = r.ty]
DrawnAlong(new) == [new EXCEPT !.drawX = r.tx]

\* The renderer after the check, the break it needs, and the offset appended,
\* as it goes across the page, when c is what the comparison found.  It is
\* divided by the horizontal scaling, which the line's matrix has, too.
Checked(c) ==
  LET shift == Shift(c.new)
      merged == c.recheck /\ c.break < NEWLINE /\ Fits(shift, c.new)
  IN IF ~c.recheck \/ c.break >= NEWLINE
     THEN [new |-> c.new, break |-> c.break, merged |-> FALSE, offset |-> 0]
     ELSE IF ~merged THEN [new |-> c.new, break |-> NEWLINE, merged |-> FALSE, offset |-> 0]
     ELSE [new |-> DrawnAt(c.new, shift[2]),
           break |-> IF shift[2] # 0 THEN NEWSTATE ELSE c.break,
           merged |-> TRUE,
           offset |-> (page.matrix * shift[1]) \div gfx.h]
CheckStateChange == Checked(Compared)

-----------------------------------------------------------------------------
(* prepare_text_line and drawString.                                       *)
OpenLine(p, c) ==
  LET clipped == IF p.open /\ c.break < NEWCLIP THEN p ELSE ClipPage(p, c.new.clip)
  IN [clipped EXCEPT !.open = TRUE, !.lines = Append(@, gfx.clip),
                     !.origin = <<PageX(gfx), PageY(gfx)>>, !.matrix = c.new.matrix,
                     !.pen = 0, !.base = 0]

\* <<renderer, page>> once the line is ready for the string, when c is what the
\* check found.
Prepared(c) ==
  LET moved == IF c.merged THEN AppendOffset(page, c.offset) ELSE page
      rest == (r.tx - c.new.drawX) * c.new.scale
      newLine == c.break >= NEWLINE \/ ~page.open
      aligned == IF newLine THEN OpenLine(moved, c) ELSE AppendOffset(moved, page.matrix * rest)
      new == IF newLine THEN DrawnAt(c.new, 0) ELSE DrawnAlong(c.new)
  IN <<new, IF newLine \/ c.break # NONE THEN AppendState(aligned, new.text) ELSE aligned>>
PrepareTextLine == Prepared(CheckStateChange)

\* How far the reader's pen moves for one character, with the offset that
\* makes up for a word space that PDF and HTML apply to different characters.
Written(new, c) ==
  LET own == CHAR_WIDTH * new.text.size + new.text.ls + (IF c.space THEN new.text.ws ELSE 0)
  IN IF c.code32 /\ SpaceAsOffset
     THEN (CHAR_WIDTH * new.fontSize + gfx.tc + gfx.tw) * new.scale
     ELSE IF c.code32 = c.space THEN own
     ELSE own + gfx.tw * new.scale * (IF c.code32 THEN 1 ELSE -1)

\* The string is written by the renderer new on the page p.
Write(c, new, p) ==
  LET x(pen) == p.origin[1] + pen
      end == p.pen + p.matrix * Written(new, c)
  IN /\ changed' = {}
     /\ r' = [new EXCEPT !.tx = @ + Advance(gfx, c), !.drawX = @ + Advance(gfx, c)]
     /\ page' = [p EXCEPT !.pen = end]
     /\ shown' = [x |-> x(p.pen), end |-> x(end), y |-> p.origin[2] + p.base,
                  font |-> p.style.font, size |-> p.style.size, fill |-> p.style.fill,
                  clip |-> ClipOf(p, Len(p.lines))]
     /\ meant' = [x |-> PageX(gfx), end |-> PageX(gfx'), y |-> PageY(gfx),
                  font |-> gfx.font, size |-> gfx.size * PageScale(gfx),
                  fill |-> gfx.fill, clip |-> gfx.clip]

\* A move that changes the translation of the matrix is made in the line's
\* lengths, of which the horizontal scaling is no part, but divided by it.
Misjudged ==
  /\ CheckStateChange.merged /\ gfx.h # 1
  /\ CheckStateChange.new.tm.x # r.tm.x

\* The line that a string is written in, on the page p, is adrift.
Astray(p) == IF p.lines # page.lines THEN adrift.text ELSE adrift.line \/ Misjudged

Show(c) ==
  /\ gfx' = [gfx EXCEPT !.cur = @ + Advance(gfx, c)]
  /\ IF gfx.font \in Images
     THEN /\ adrift' = [adrift EXCEPT !.text = TRUE]
          /\ UNCHANGED <<r, changed, page, shown, meant, nullLine>>
     ELSE /\ Write(c, PrepareTextLine[1], PrepareTextLine[2])
          /\ nullLine' = (nullLine \/ (CheckStateChange.merged /\ ~page.open))
          /\ adrift' = [adrift EXCEPT !.line = Astray(PrepareTextLine[2]),
                                      !.shown = adrift.text \/ Astray(PrepareTextLine[2])]
  /\ UNCHANGED saved

-----------------------------------------------------------------------------
(* The operators of a page and the callbacks that they make.               *)
Update(g, flags) ==
  /\ gfx' = g
  /\ changed' = changed \cup flags
  /\ r' = IF flags \cap {"all", "pos"} # {} THEN [r EXCEPT !.tx = g.line[1], !.ty = g.line[2]] ELSE r
  /\ adrift' = [adrift EXCEPT !.text = @ /\ flags \cap {"all", "pos"} = {}]
  /\ UNCHANGED <<saved, page, shown, meant, nullLine>>

Td == \E m \in Moves :
  LET to == <<gfx.line[1] + m[1], gfx.line[2] + m[2]>>
  IN Update([gfx EXCEPT !.line = to, !.cur = to[1]], {"pos"})
Tm == \E m \in TextMats :
  Update([gfx EXCEPT !.tm = m, !.line = <<0, 0>>, !.cur = 0], {"text_mat", "pos"})
Cm == \E s \in Concats : Update([gfx EXCEPT !.ctm = @ * s], {"ctm"})
Tf == \E f \in Fonts, s \in FontSizes : Update([gfx EXCEPT !.font = f, !.size = s], {"font"})
Tc == \E v \in CharSpaces : Update([gfx EXCEPT !.tc = v], {"letter_space"})
Tw == \E v \in WordSpaces : Update([gfx EXCEPT !.tw = v], {"word_space"})
Tz == \E v \in HorizScalings : Update([gfx EXCEPT !.h = v], {"hori_scale"})
Ts == \E v \in Rises : Update([gfx EXCEPT !.rise = v], {"rise"})
Fill == \E v \in Fills : Update([gfx EXCEPT !.fill = v], {"fill_color"})
Clip == \E v \in Clips : Update([gfx EXCEPT !.clip = v], {"clip"})

\* A number in a TJ array moves by a part of the font size.
TJ == \E v \in Shifts :
  /\ gfx' = [gfx EXCEPT !.cur = @ - v * gfx.size * gfx.h]
  /\ r' = [r EXCEPT !.tx = @ - v * gfx.size * gfx.h]
  /\ changed' = changed \cup {"pos"}
  /\ UNCHANGED <<saved, page, shown, meant, nullLine, adrift>>

\* q and Q stand outside text objects, so a BT follows that resets the text
\* matrix and the position.
Save == saved' = gfx /\ UNCHANGED <<gfx, r, changed, page, shown, meant, nullLine, adrift>>
Restore ==
  Update([saved EXCEPT !.tm = <<1, 0, 0>>, !.line = <<0, 0>>, !.cur = 0],
         {"all", "text_mat", "pos"})

Operator ==
  /\ ops < MaxOps
  /\ ops' = ops + 1 /\ UNCHANGED pages
  /\ \/ Td \/ Tm \/ Cm \/ Tf \/ Tc \/ Tw \/ Tz \/ Ts \/ Fill \/ Clip \/ TJ \/ Save \/ Restore
     \/ \E c \in Strings : Show(c)

\* endPage writes the page and clears it; startPage resets the state.
NextPage ==
  /\ pages < MaxPages
  /\ pages' = pages + 1 /\ ops' = 0
  /\ gfx' = NewGfx /\ saved' = NewGfx
  /\ r' = ResetR /\ changed' = {"all"}
  /\ page' = EmptyPage
  /\ shown' = Nowhere /\ meant' = Nowhere /\ adrift' = NotAdrift
  /\ UNCHANGED nullLine

Init ==
  /\ gfx = NewGfx /\ saved = NewGfx
  /\ r = ResetR /\ changed = {"all"}
  /\ page = EmptyPage
  /\ shown = Nowhere /\ meant = Nowhere
  /\ nullLine = FALSE /\ adrift = NotAdrift
  /\ ops = 0 /\ pages = 1

Next == Operator \/ NextPage
Spec == Init /\ [][Next]_vars

-----------------------------------------------------------------------------
\* The state keeps its type, and cur_line is null exactly while the page has no
\* line (prepare_text_line, HTMLTextPage::clear).
TypeOK ==
  /\ changed \subseteq Flags /\ nullLine \in BOOLEAN
  /\ adrift \in [text : BOOLEAN, line : BOOLEAN, shown : BOOLEAN]
  /\ ops \in 0..MaxOps /\ pages \in 1..MaxPages
  /\ r.tx \in Int /\ r.drawX \in Int /\ r.scale \in Nat \ {0}
  /\ page.open = (page.lines # <<>>)

\* A string starts and ends in the HTML where the PDF puts it, on the same
\* baseline: whatever was only marked, merged into the line as an offset or
\* compared with an older state, no move is lost and none is applied twice.
\* drawString leaves strings of vertical and Type 3 fonts without moving its own
\* position, so text after one is only placed once it is positioned again, and
\* in a line that began after one not before the next line; nor is text after
\* a move that changes the matrix's translation under horizontal scaling.
PlaceKept ==
  ~adrift.shown => shown.x = meant.x /\ shown.end = meant.end /\ shown.y = meant.y

\* Every string starts where the PDF puts it: the offset of a move is to "cancel
\* the effect" of a changed matrix (HTMLRenderer::check_state_change).
TextInPlace == shown.x = meant.x /\ shown.y = meant.y

\* Over a fallback image text has no colour.
Colour(fill) == IF Fallback THEN TRANSPARENT ELSE fill

\* The style in force in the HTML is the one in force in the PDF, whatever
\* changes were never reported, reported twice or undone before the string.
StyleKept ==
  /\ shown.font = meant.font /\ shown.size = meant.size
  /\ shown.fill = Colour(meant.fill)

\* Every line is written inside the clip region its text had, although lines
\* and regions are two lists that are only matched at the end of the page.
ClipKept ==
  /\ shown.clip = meant.clip
  /\ \A i \in 1..Len(page.lines) : ClipOf(page, i) = page.lines[i]

\* Without a mark, the renderer's copy is already what the PDF has: a
\* comparison that is skipped would have found nothing.
MarksComplete ==
  "all" \notin changed =>
    /\ "font" \in changed \/ (r.text.font = gfx.font /\ r.fontSize = gfx.size)
    /\ {"ctm", "text_mat", "hori_scale", "rise"} \cap changed # {} \/ r.tm = TextTm(gfx)
    /\ "letter_space" \in changed \/ r.text.ls = gfx.tc * r.scale
    /\ "word_space" \in changed \/ r.text.ws = gfx.tw * r.scale
    /\ "fill_color" \in changed \/ r.text.fill = Colour(gfx.fill)
    /\ "clip" \in changed \/ r.clip = gfx.clip

\* No offset is appended before the page has a line: the first string of a
\* page always opens one, because the reset state has no clip region.
OffsetsHaveLine == ~nullLine
=============================================================================
