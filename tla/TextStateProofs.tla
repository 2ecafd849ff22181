--------------------------- MODULE TextStateProofs ---------------------------
(***************************************************************************)
(* For every value of the constants: the marks are complete, so that a     *)
(* comparison that is skipped loses nothing; the style and the clip region *)
(* in force in the HTML are those of the PDF; and no offset is appended    *)
(* without a line.                                                         *)
(*                                                                         *)
(* They need each other's state, so they are one inductive invariant with  *)
(* the types and three more facts: the size written is the scaled one, the *)
(* style of the open line is the remembered one, and every clip region is  *)
(* followed by the line that needed it.                                    *)
(*                                                                         *)
(* And strings are where the PDF puts them.  That invariant, PlaceInv,     *)
(* comes on top of the other: the reader's pen is where the renderer has   *)
(* drawn up to unless a move was misjudged, and the renderer's position is *)
(* that of the PDF unless a string was left out.                           *)
(***************************************************************************)
EXTENDS TextState, SequenceTheorems, TLAPS

Pos == Nat \ {0}
GfxType ==
  [ctm : Pos, tm : Pos \X Int \X Int, line : Int \X Int, cur : Int,
   font : Fonts \cup {1}, size : Pos, tc : Int, tw : Int, h : Pos, rise : Int,
   fill : Fills \cup {1}, clip : Pos]
TmType == [sx : Pos, sy : Pos, x : Int, y : Int]
TextType ==
  [font : Fonts \cup {0, 1}, size : Nat, ls : Int, ws : Int, fill : Fills \cup {0, 1}, va : Int]
RType ==
  [tx : Int, ty : Int, drawX : Int, drawY : Int, fontSize : Nat, tm : TmType, scale : Pos,
   matrix : Int, text : TextType, clip : Nat]
ClipType == [clip : Nat, start : Nat]
PageType ==
  [open : BOOLEAN, lines : Seq(Pos), clips : Seq(ClipType), origin : Int \X Int,
   matrix : Int, pen : Int, base : Int, style : TextType]

Types ==
  /\ gfx \in GfxType /\ saved \in GfxType /\ r \in RType /\ page \in PageType
  /\ changed \subseteq Flags

\* The styles agree but for the vertical alignment, which is relative.
SameStyle(s, t) ==
  s.font = t.font /\ s.size = t.size /\ s.ls = t.ls /\ s.ws = t.ws /\ s.fill = t.fill

SizeScaled == r.text.size = r.fontSize * r.tm.sy
LineStyle == page.open => SameStyle(page.style, r.text)
NoLine == ~page.open => r.clip = ResetClip /\ "all" \in changed

\* Region c is the last one that starts before line i.
Governs(p, c, i) ==
  /\ p.clips[c].start < i
  /\ \A d \in 1..Len(p.clips) : p.clips[d].start < i => d <= c

ClipsOK ==
  /\ page.open => /\ page.lines # <<>> /\ page.clips # <<>>
                  /\ \A c \in 1..Len(page.clips) : page.clips[c].start < Len(page.lines)
                  /\ page.clips[Len(page.clips)].clip = r.clip
  /\ ~page.open => page.lines = <<>> /\ page.clips = <<>>
  /\ \A i \in 1..Len(page.lines) :
       \E c \in 1..Len(page.clips) : Governs(page, c, i) /\ page.clips[c].clip = page.lines[i]

\* Over a fallback image no text ever gets a colour.
NoColour == Fallback => r.text.fill = TRANSPARENT

Core == Types /\ SizeScaled /\ LineStyle /\ NoLine /\ NoColour /\ MarksComplete /\ ClipsOK

-----------------------------------------------------------------------------
(* What a check leaves in the renderer's copy is what the PDF has.         *)
Current(new) ==
  /\ new.text.font = gfx.font /\ new.fontSize = gfx.size
  /\ new.tm = TextTm(gfx)
  /\ new.text.ls = gfx.tc * new.scale /\ new.text.ws = gfx.tw * new.scale
  /\ new.text.fill = Colour(gfx.fill)
  /\ new.clip = gfx.clip
  /\ new.text.size = new.fontSize * new.tm.sy

LEMMA TextTmType ==
  ASSUME gfx \in GfxType PROVE TextTm(gfx) \in TmType
<1>1. /\ gfx.ctm \in Pos /\ gfx.tm[1] \in Pos /\ gfx.h \in Pos
      /\ gfx.tm[2] \in Int /\ gfx.tm[3] \in Int /\ gfx.rise \in Int
  BY DEF GfxType
<1>2. \A a, b \in Pos : a * b \in Pos
  BY SMT DEF Pos
<1>3. PageScale(gfx) \in Pos
  BY <1>1, <1>2 DEF PageScale
<1>4. /\ PageScale(gfx) * gfx.h \in Pos
      /\ gfx.ctm * gfx.tm[2] \in Int
      /\ PageScale(gfx) * gfx.rise + gfx.ctm * gfx.tm[3] \in Int
  BY <1>1, <1>2, <1>3 DEF Pos
<1>. QED BY <1>3, <1>4 DEF TextTm, TmType

LEMMA ComparedFacts ==
  ASSUME TextStateAssumption, Core
  PROVE  /\ Compared.new \in RType /\ Current(Compared.new)
         /\ Compared.new.tx = r.tx /\ Compared.new.ty = r.ty
         /\ Compared.break \in {NONE, NEWSTATE, NEWLINE, NEWCLIP}
         /\ Compared.break = NONE => SameStyle(Compared.new.text, r.text)
         /\ ~page.open => Compared.break = NEWCLIP
         /\ Compared.break < NEWCLIP => Compared.new.clip = r.clip
<1>1. /\ gfx \in GfxType /\ r \in RType /\ r.text \in TextType /\ r.tm \in TmType
      /\ r.scale \in Pos
  BY DEF Core, Types, RType
<1> DEFINE
  fontSize == IF Marked("font") THEN gfx.size ELSE r.fontSize
  font == IF Marked("font") THEN gfx.font ELSE r.text.font
  tm == IF \E f \in {"ctm", "text_mat", "hori_scale", "rise"} : Marked(f)
        THEN TextTm(gfx) ELSE r.tm
  rescale == Rescales(tm, fontSize)
  scale == IF rescale THEN tm.sy ELSE r.scale
  size == IF rescale THEN fontSize * scale ELSE r.text.size
  matrix == IF rescale THEN tm.sx \div scale ELSE r.matrix
  clip == IF Marked("clip") THEN gfx.clip ELSE r.clip
  ls == IF Respaced("letter_space", scale) THEN gfx.tc * scale ELSE r.text.ls
  ws == IF Respaced("word_space", scale) THEN gfx.tw * scale ELSE r.text.ws
  fill == IF ~Fallback /\ Marked("fill_color") THEN gfx.fill ELSE r.text.fill
  text == [font |-> font, size |-> size, va |-> 0, ls |-> ls, ws |-> ws, fill |-> fill]
  new == [r EXCEPT !.fontSize = fontSize, !.tm = tm, !.scale = scale, !.matrix = matrix,
                   !.clip = clip, !.text = text]
  break == IF clip # r.clip THEN NEWCLIP
           ELSE IF matrix # r.matrix \/ (font # r.text.font /\ {font, r.text.font} \cap Images # {})
           THEN NEWLINE
           ELSE IF text # [r.text EXCEPT !.va = 0] THEN NEWSTATE ELSE NONE
<1>2. Compared.new = new /\ Compared.break = break
  BY DEF Compared
<1>3. /\ font = gfx.font /\ fontSize = gfx.size /\ tm = TextTm(gfx)
      /\ clip = gfx.clip
  BY DEF Core, MarksComplete, Marked
<1>4. tm \in TmType /\ fontSize \in Pos /\ clip \in Pos
  BY <1>1, <1>3, TextTmType DEF GfxType
<1>5. scale \in Pos /\ size \in Nat /\ size = fontSize * tm.sy /\ matrix \in Int
  <2>1. scale \in Pos
    BY <1>1, <1>4 DEF TmType
  <2>2. size = fontSize * tm.sy
    BY DEF Rescales, Core, SizeScaled
  <2>3. tm.sy \in Pos /\ tm.sx \in Pos /\ r.matrix \in Int
    BY <1>1, <1>4 DEF TmType, RType
  <2>4. size \in Nat
    BY <1>4, <2>2, <2>3 DEF Pos
  <2>5. matrix \in Int
    BY <2>1, <2>3 DEF Pos
  <2>. QED BY <2>1, <2>2, <2>4, <2>5
<1>6. ls = gfx.tc * scale /\ ws = gfx.tw * scale
  BY DEF Respaced, Marked, Core, MarksComplete
<1>7. ls \in Int /\ ws \in Int
  BY <1>1, <1>5, <1>6 DEF GfxType, Pos
<1>8. /\ font \in Fonts \cup {0, 1} /\ fill \in Fills \cup {0, 1}
      /\ fill = Colour(gfx.fill)
  <2>1. fill = Colour(gfx.fill)
    BY DEF Core, NoColour, MarksComplete, Marked, Colour
  <2>2. gfx.fill \in Fills \cup {1} /\ gfx.font \in Fonts \cup {1}
    BY <1>1 DEF GfxType
  <2> QED
    BY <1>3, <2>1, <2>2 DEF Colour, TRANSPARENT
<1> HIDE DEF fontSize, font, tm, scale, size, matrix, clip, ls, ws, fill
<1>9. /\ text \in TextType /\ text.font = font /\ text.size = size /\ text.ls = ls
      /\ text.ws = ws /\ text.fill = fill
  BY <1>5, <1>7, <1>8 DEF TextType
<1>10. /\ new \in RType /\ new.fontSize = fontSize /\ new.tm = tm /\ new.scale = scale
       /\ new.clip = clip /\ new.text = text /\ new.tx = r.tx /\ new.ty = r.ty
  <2>. HIDE DEF text
  <2>1. new \in RType
    BY <1>1, <1>4, <1>5, <1>9 DEF RType, Pos
  <2>2. new.fontSize = fontSize /\ new.tm = tm /\ new.scale = scale /\ new.clip = clip
    BY <1>1 DEF RType
  <2>3. new.text = text /\ new.tx = r.tx /\ new.ty = r.ty
    BY <1>1 DEF RType
  <2>. QED BY <2>1, <2>2, <2>3
<1>11. Current(new)
  BY <1>3, <1>5, <1>6, <1>8, <1>9, <1>10 DEF Current
<1>12. break = NONE => SameStyle(text, r.text)
  BY <1>1, <1>9 DEF SameStyle, TextType, NONE, NEWSTATE, NEWLINE, NEWCLIP
<1>13. ~page.open => break = NEWCLIP
  BY <1>3, <1>4 DEF Core, NoLine, ResetClip, Pos
<1>14. break < NEWCLIP => new.clip = r.clip
  BY <1>10 DEF NEWCLIP
<1>. QED BY <1>2, <1>10, <1>11, <1>12, <1>13, <1>14

\* The position drawn and the vertical alignment can change without harm.
LEMMA DrawnAtKeeps ==
  ASSUME r \in RType, NEW n \in RType, NEW v \in Int
  PROVE  /\ DrawnAt(n, v) \in RType /\ SameStyle(DrawnAt(n, v).text, n.text)
         /\ DrawnAt(n, v).fontSize = n.fontSize /\ DrawnAt(n, v).tm = n.tm
         /\ DrawnAt(n, v).scale = n.scale /\ DrawnAt(n, v).clip = n.clip
         /\ DrawnAt(n, v).tx = n.tx /\ DrawnAt(n, v).ty = n.ty
<1>1. n.text \in TextType /\ r.tx \in Int /\ r.ty \in Int
  BY DEF RType
<1>2. PICK t : t = [n.text EXCEPT !.va = v]
  OBVIOUS
<1>3. t \in TextType /\ SameStyle(t, n.text)
  BY <1>1, <1>2 DEF TextType, SameStyle
<1>4. PICK m : m = DrawnAt(n, v)
  OBVIOUS
<1>5. m = [n EXCEPT !.text = t, !.drawX = r.tx, !.drawY = r.ty]
  BY <1>2, <1>4 DEF RType, DrawnAt
<1>6. m.text = t
  BY <1>5 DEF RType
<1>7. m \in RType
  BY <1>1, <1>3, <1>5 DEF RType
<1>8. /\ m.fontSize = n.fontSize /\ m.tm = n.tm /\ m.scale = n.scale /\ m.clip = n.clip
      /\ m.tx = n.tx /\ m.ty = n.ty
  BY <1>5 DEF RType
<1>. QED BY <1>3, <1>4, <1>6, <1>7, <1>8

LEMMA CurrentKept ==
  ASSUME NEW n, NEW m, Current(n), SameStyle(m.text, n.text),
         m.fontSize = n.fontSize, m.tm = n.tm, m.scale = n.scale, m.clip = n.clip
  PROVE  Current(m)
BY DEF Current, SameStyle

LEMMA ShiftType ==
  ASSUME NEW n \in RType, r \in RType PROVE Shift(n) \in Int \X Int
<1>1. /\ n.tm.sx \in Pos /\ n.tm.sy \in Pos /\ n.tm.x \in Int /\ n.tm.y \in Int
      /\ r.tm.sx \in Pos /\ r.tm.sy \in Pos /\ r.tm.x \in Int /\ r.tm.y \in Int
      /\ r.tx \in Int /\ r.ty \in Int /\ r.drawX \in Int /\ r.drawY \in Int /\ r.scale \in Pos
  BY DEF RType, TmType
<1>2. \A a \in Int, b \in Pos : a \div b \in Int
  BY DEF Pos
<1>3. \A a \in Int, b \in Pos : a * b \in Int /\ b * a \in Int
  BY DEF Pos
<1> DEFINE lhs1 == n.tm.sx * r.tx + n.tm.x - r.tm.sx * r.drawX - r.tm.x
           lhs2 == n.tm.sy * r.ty + n.tm.y - r.tm.sy * r.drawY - r.tm.y
<1>4. lhs1 \in Int /\ lhs2 \in Int
  BY <1>1, <1>3
<1>5. Shift(n) = <<(lhs1 * r.scale) \div r.tm.sx, (lhs2 * r.scale) \div r.tm.sy>>
  BY DEF Shift
<1> HIDE DEF lhs1, lhs2
<1>6. (lhs1 * r.scale) \div r.tm.sx \in Int /\ (lhs2 * r.scale) \div r.tm.sy \in Int
  BY <1>1, <1>2, <1>3, <1>4
<1>. QED BY <1>5, <1>6

LEMMA CheckFacts ==
  ASSUME TextStateAssumption, Core, NEW c, c = CheckStateChange
  PROVE  /\ c.new \in RType /\ Current(c.new) /\ c.offset \in Int
         /\ c.new.tx = r.tx /\ c.new.ty = r.ty
         /\ c.break \in {NONE, NEWSTATE, NEWLINE, NEWCLIP}
         /\ c.break = NONE => SameStyle(c.new.text, r.text)
         /\ ~page.open => ~c.merged /\ c.break = NEWCLIP
         /\ c.break < NEWCLIP => c.new.clip = r.clip
<1>1. /\ Compared.new \in RType /\ Current(Compared.new)
      /\ Compared.new.tx = r.tx /\ Compared.new.ty = r.ty
      /\ Compared.break \in {NONE, NEWSTATE, NEWLINE, NEWCLIP}
      /\ Compared.break = NONE => SameStyle(Compared.new.text, r.text)
      /\ ~page.open => Compared.break = NEWCLIP
      /\ Compared.break < NEWCLIP => Compared.new.clip = r.clip
  BY ComparedFacts
<1>2. PICK d : d = Compared
  OBVIOUS
<1>3. PICK shift : shift = Shift(d.new)
  OBVIOUS
<1>4. /\ shift \in Int \X Int /\ r.tx \in Int /\ r.ty \in Int /\ gfx.h \in Pos
      /\ page.matrix \in Int
  BY <1>1, <1>2, <1>3, ShiftType DEF Core, Types, RType, GfxType, PageType
<1>5. CASE c = [new |-> d.new, break |-> d.break, merged |-> FALSE, offset |-> 0]
  BY <1>1, <1>2, <1>5
<1>6. CASE /\ c = [new |-> d.new, break |-> NEWLINE, merged |-> FALSE, offset |-> 0]
           /\ d.break < NEWLINE
  BY <1>1, <1>2, <1>6 DEF NONE, NEWSTATE, NEWLINE, NEWCLIP
<1>7. CASE /\ c = [new |-> DrawnAt(d.new, shift[2]),
                   break |-> IF shift[2] # 0 THEN NEWSTATE ELSE d.break,
                   merged |-> TRUE, offset |-> (page.matrix * shift[1]) \div gfx.h]
           /\ d.break < NEWLINE
  <2>1. /\ c.new \in RType /\ SameStyle(c.new.text, d.new.text)
        /\ c.new.fontSize = d.new.fontSize /\ c.new.tm = d.new.tm
        /\ c.new.scale = d.new.scale /\ c.new.clip = d.new.clip
        /\ c.new.tx = r.tx /\ c.new.ty = r.ty
    <3>1. r \in RType /\ d.new \in RType /\ shift[2] \in Int
      BY <1>1, <1>2, <1>4 DEF Core, Types
    <3>2. c.new = DrawnAt(d.new, shift[2])
      BY <1>7
    <3>. QED BY <1>1, <1>2, <3>1, <3>2, DrawnAtKeeps
  <2>2. Current(c.new)
    BY <1>1, <1>2, <2>1, CurrentKept
  <2>3. c.break = NONE => SameStyle(c.new.text, r.text)
    BY <1>1, <1>2, <1>7, <2>1 DEF SameStyle, NONE, NEWSTATE
  <2>4. page.open
    BY <1>1, <1>2, <1>7 DEF NEWLINE, NEWCLIP
  <2>5. c.break \in {NONE, NEWSTATE, NEWLINE, NEWCLIP}
    BY <1>1, <1>2, <1>7
  <2>6. c.offset \in Int
    <3>1. PICK a : a = page.matrix * shift[1]
      OBVIOUS
    <3>2. a \in Int
      BY <1>4, <3>1
    <3> QED
      BY <1>4, <1>7, <3>1, <3>2 DEF Pos
  <2>7. c.new.clip = r.clip
    BY <1>1, <1>2, <1>7, <2>1 DEF NONE, NEWSTATE, NEWLINE, NEWCLIP
  <2>. QED BY <2>1, <2>2, <2>3, <2>4, <2>5, <2>6, <2>7
<1>8. d.break >= NEWLINE <=> ~(d.break < NEWLINE)
  BY <1>1, <1>2 DEF NONE, NEWSTATE, NEWLINE, NEWCLIP
<1>. QED BY <1>2, <1>3, <1>5, <1>6, <1>7, <1>8 DEF CheckStateChange, Checked

-----------------------------------------------------------------------------
(* The page once the line is ready for the string.                         *)

LEMMA GovernedClip ==
  ASSUME NEW p, NEW i \in Nat, p.clips \in Seq(ClipType),
         NEW c \in 1..Len(p.clips), Governs(p, c, i)
  PROVE  ClipOf(p, i) = p.clips[c].clip
<1> DEFINE before == {d \in 1..Len(p.clips) : p.clips[d].start < i}
<1>1. c \in before /\ (\A d \in before : d <= c) /\ before \subseteq Int
  BY DEF Governs
<1> HIDE DEF before
<1>2. Max(before) = c
  <2>1. PICK m : m = Max(before)
    OBVIOUS
  <2>2. m = CHOOSE x \in before : \A y \in before : x >= y
    BY <2>1 DEF Max
  <2>3. \A y \in before : c >= y
    BY <1>1
  <2>4. m \in before /\ \A y \in before : m >= y
    BY <1>1, <2>2, <2>3, Zenon
  <2>5. m \in Int /\ c \in Int /\ m >= c /\ m <= c
    BY <1>1, <2>4
  <2>. QED BY <2>1, <2>5
<1>3. ClipOf(p, i) = IF before = {} THEN 0 ELSE p.clips[Max(before)].clip
  BY DEF ClipOf, before
<1>. QED BY <1>1, <1>2, <1>3

LEMMA OffsetKeeps ==
  ASSUME NEW p \in PageType, NEW w \in Int
  PROVE  /\ AppendOffset(p, w) \in PageType /\ AppendOffset(p, w).open = p.open
         /\ AppendOffset(p, w).style = p.style /\ AppendOffset(p, w).lines = p.lines
         /\ AppendOffset(p, w).clips = p.clips
<1>1. PICK q, pen : q = AppendOffset(p, w) /\ pen = p.pen + w
  OBVIOUS
<1>2. pen \in Int
  BY <1>1 DEF PageType
<1>3. q = [p EXCEPT !.pen = pen]
  BY <1>1 DEF AppendOffset
<1>4. q \in PageType
  BY <1>2, <1>3 DEF PageType
<1>5. q.open = p.open /\ q.style = p.style /\ q.lines = p.lines /\ q.clips = p.clips
  BY <1>3 DEF PageType
<1>. QED BY <1>1, <1>4, <1>5

LEMMA StateKeeps ==
  ASSUME NEW p \in PageType, NEW t \in TextType
  PROVE  /\ AppendState(p, t) \in PageType /\ AppendState(p, t).open = p.open
         /\ AppendState(p, t).style = t /\ AppendState(p, t).lines = p.lines
         /\ AppendState(p, t).clips = p.clips
<1>1. PICK q, base : q = AppendState(p, t) /\ base = p.base + t.va
  OBVIOUS
<1>2. t.va \in Int
  BY DEF TextType
<1>3. base \in Int
  BY <1>1, <1>2 DEF PageType
<1>4. q = [p EXCEPT !.style = t, !.base = base]
  BY <1>1 DEF AppendState
<1>5. q \in PageType
  BY <1>3, <1>4 DEF PageType
<1>6. q.open = p.open /\ q.style = t /\ q.lines = p.lines /\ q.clips = p.clips
  BY <1>4 DEF PageType
<1>. QED BY <1>1, <1>5, <1>6

\* A new region is never put in the place of another: every region is followed
\* by the line that needed it.
LEMMA OpenLineFacts ==
  ASSUME TextStateAssumption, Core, NEW c, c = CheckStateChange,
         NEW p \in PageType, p.open = page.open, p.lines = page.lines,
         p.clips = page.clips, NEW q, q = OpenLine(p, c)
  PROVE  /\ q \in PageType /\ q.open /\ q.style = p.style
         /\ q.lines = Append(page.lines, gfx.clip)
         /\ \/ page.open /\ q.clips = page.clips /\ r.clip = gfx.clip
            \/ q.clips = Append(page.clips, [clip |-> gfx.clip, start |-> Len(page.lines)])
<1>1. /\ c.new \in RType /\ Current(c.new)
      /\ c.break < NEWCLIP => c.new.clip = r.clip
  BY CheckFacts
<1>2. c.new.clip = gfx.clip /\ gfx.clip \in Pos
  BY <1>1 DEF Current, Core, Types, GfxType
<1>3. /\ p.lines \in Seq(Pos) /\ p.clips \in Seq(ClipType) /\ Len(p.lines) \in Nat
  BY DEF PageType
<1>4. Append(p.lines, gfx.clip) \in Seq(Pos)
  BY <1>2, <1>3
<1>5. PICK x, y : x = PageX(gfx) /\ y = PageY(gfx)
  OBVIOUS
<1>6. x \in Int /\ y \in Int
  <2>1. /\ gfx.ctm \in Pos /\ gfx.tm[1] \in Pos /\ gfx.cur \in Int /\ gfx.tm[2] \in Int
        /\ gfx.tm[3] \in Int /\ gfx.line[2] \in Int /\ gfx.rise \in Int
    BY DEF Core, Types, GfxType
  <2>2. \A a, b \in Int : a * b \in Int /\ a + b \in Int
    OBVIOUS
  <2>. QED BY <1>5, <2>1, <2>2, SMT DEF PageX, PageY, PageScale, Pos
<1>7. PICK u : u = [clip |-> gfx.clip, start |-> Len(p.lines)]
  OBVIOUS
<1>8. u \in ClipType
  BY <1>2, <1>3, <1>7 DEF ClipType, Pos
<1>9. PICK k : k = IF p.open /\ c.break < NEWCLIP THEN p ELSE ClipPage(p, c.new.clip)
  OBVIOUS
<1>10. /\ k \in PageType /\ k.lines = p.lines /\ k.style = p.style
       /\ \/ page.open /\ k.clips = p.clips /\ r.clip = gfx.clip
          \/ k.clips = Append(p.clips, u)
  <2>1. CASE p.open /\ c.break < NEWCLIP
    BY <1>1, <1>2, <1>9, <2>1
  <2>2. CASE ~(p.open /\ c.break < NEWCLIP)
    <3>1. ~(Len(p.clips) > 0 /\ p.clips[Len(p.clips)].start = Len(p.lines))
      <4>1. CASE ~page.open
        BY <4>1 DEF Core, ClipsOK
      <4>2. CASE page.open
        <5>1. \A i \in 1..Len(p.clips) : p.clips[i].start < Len(p.lines)
          BY <4>2 DEF Core, ClipsOK
        <5>2. \A i \in 1..Len(p.clips) : p.clips[i] \in ClipType
          BY <1>3
        <5>3. \A i \in 1..Len(p.clips) : p.clips[i].start \in Nat
          BY <5>2 DEF ClipType
        <5>4. Len(p.clips) \in Nat
          BY <1>3
        <5>. QED BY <1>3, <5>1, <5>3, <5>4
      <4>. QED BY <4>1, <4>2
    <3>2. k = [p EXCEPT !.clips = Append(p.clips, u)]
      BY <1>2, <1>7, <1>9, <2>2, <3>1 DEF ClipPage
    <3>3. Append(p.clips, u) \in Seq(ClipType)
      BY <1>3, <1>8
    <3>. QED BY <3>2, <3>3 DEF PageType
  <2>. QED BY <2>1, <2>2
<1>11. q = [k EXCEPT !.open = TRUE, !.lines = Append(@, gfx.clip), !.origin = <<x, y>>,
                     !.matrix = c.new.matrix, !.pen = 0, !.base = 0]
  BY <1>5, <1>9 DEF OpenLine
<1>12. c.new.matrix \in Int
  BY <1>1 DEF RType
<1>13. PICK lines : lines = Append(p.lines, gfx.clip)
  OBVIOUS
<1>14. k.lines = p.lines
  BY <1>10
<1>15. PICK at, matrix : at = <<x, y>> /\ matrix = c.new.matrix
  OBVIOUS
<1>16. /\ lines \in Seq(Pos) /\ at \in Int \X Int /\ matrix \in Int
       /\ q = [k EXCEPT !.open = TRUE, !.lines = lines, !.origin = at,
                        !.matrix = matrix, !.pen = 0, !.base = 0]
  <2>1. lines \in Seq(Pos) /\ at \in Int \X Int /\ matrix \in Int
    BY <1>4, <1>6, <1>12, <1>13, <1>15
  <2>2. q = [k EXCEPT !.open = TRUE, !.lines = lines, !.origin = at,
                      !.matrix = matrix, !.pen = 0, !.base = 0]
    BY <1>10, <1>11, <1>13, <1>14, <1>15 DEF PageType
  <2>. QED BY <2>1, <2>2
<1>17. q \in PageType
  <2>1. k \in PageType /\ 0 \in Int
    BY <1>10
  <2>. QED BY <1>16, <2>1 DEF PageType
<1>18. q.open = TRUE /\ q.lines = lines /\ q.clips = k.clips /\ q.style = k.style
  BY <1>10, <1>16 DEF PageType
<1>. QED BY <1>7, <1>10, <1>13, <1>17, <1>18

\* Every line is in its own region, the new one and those before it.
LEMMA NewLineGoverned ==
  ASSUME Core, NEW q \in PageType, q.lines = Append(page.lines, gfx.clip),
         \/ page.open /\ q.clips = page.clips /\ r.clip = gfx.clip
         \/ q.clips = Append(page.clips, [clip |-> gfx.clip, start |-> Len(page.lines)])
  PROVE  /\ q.lines # <<>> /\ q.clips # <<>>
         /\ \A c \in 1..Len(q.clips) : q.clips[c].start < Len(q.lines)
         /\ q.clips[Len(q.clips)].clip = gfx.clip
         /\ \A i \in 1..Len(q.lines) :
              \E c \in 1..Len(q.clips) : Governs(q, c, i) /\ q.clips[c].clip = q.lines[i]
<1>1. PICK n, k : n = Len(page.lines) /\ k = Len(page.clips)
  OBVIOUS
<1>2. /\ page.lines \in Seq(Pos) /\ page.clips \in Seq(ClipType) /\ n \in Nat /\ k \in Nat
  <2>1. page.lines \in Seq(Pos) /\ page.clips \in Seq(ClipType)
    BY DEF Core, Types, PageType
  <2> QED
    BY <1>1, <2>1
<1>3. \A c \in 1..k : page.clips[c] \in ClipType
  BY <1>1, <1>2
<1>4. \A c \in 1..k : page.clips[c].start < n
  BY <1>1, <1>2 DEF Core, ClipsOK
<1>5. \A c \in 1..k : page.clips[c].start \in Nat
  BY <1>3 DEF ClipType
<1>6. \A i \in 1..n :
        \E c \in 1..k : Governs(page, c, i) /\ page.clips[c].clip = page.lines[i]
  BY <1>1 DEF Core, ClipsOK
<1>7. /\ Len(q.lines) = n + 1 /\ q.lines[n + 1] = gfx.clip
      /\ \A i \in 1..n : q.lines[i] = page.lines[i]
  <2>1. gfx.clip \in Pos
    BY DEF Core, Types, GfxType
  <2>. QED BY <1>1, <1>2, <2>1
<1>8. q.lines # <<>>
  BY <1>2, <1>7
<1>9. CASE page.open /\ q.clips = page.clips /\ r.clip = gfx.clip
  <2>1. q.clips # <<>> /\ k # 0
    BY <1>1, <1>2, <1>9 DEF Core, ClipsOK
  <2>2. q.clips[k].clip = gfx.clip
    BY <1>1, <1>9 DEF Core, ClipsOK
  <2>3. \A c \in 1..k : q.clips[c].start < n + 1
    BY <1>2, <1>4, <1>5, <1>9
  <2>4. Governs(q, k, n + 1)
    BY <1>1, <1>2, <1>9, <2>1, <2>3 DEF Governs
  <2>5. \A i \in 1..n, c \in 1..k : Governs(page, c, i) => Governs(q, c, i)
    BY <1>9 DEF Governs
  <2>6. ASSUME NEW i \in 1..(n + 1)
        PROVE  \E c \in 1..k : Governs(q, c, i) /\ q.clips[c].clip = q.lines[i]
    <3>1. CASE i = n + 1
      <4>1. k \in 1..k
        BY <1>2, <2>1
      <4>. QED BY <1>7, <2>2, <2>4, <3>1, <4>1
    <3>2. CASE i \in 1..n
      <4>1. PICK c \in 1..k : Governs(page, c, i) /\ page.clips[c].clip = page.lines[i]
        BY <1>6, <3>2
      <4>2. Governs(q, c, i)
        BY <2>5, <3>2, <4>1
      <4>. QED BY <1>7, <1>9, <3>2, <4>1, <4>2
    <3>3. i = n + 1 \/ i \in 1..n
      BY <1>2, <2>6
    <3>. QED BY <3>1, <3>2, <3>3
  <2>. QED BY <1>1, <1>7, <1>8, <1>9, <2>1, <2>2, <2>3, <2>6
<1>10. CASE q.clips = Append(page.clips, [clip |-> gfx.clip, start |-> Len(page.lines)])
  <2>1. PICK u : u = [clip |-> gfx.clip, start |-> n]
    OBVIOUS
  <2>2. u \in ClipType /\ u.clip = gfx.clip /\ u.start = n
    BY <1>2, <2>1 DEF ClipType, Core, Types, GfxType, Pos
  <2>3. q.clips = Append(page.clips, u)
    BY <1>1, <1>10, <2>1
  <2>4. /\ Len(q.clips) = k + 1 /\ q.clips[k + 1] = u
        /\ \A c \in 1..k : q.clips[c] = page.clips[c]
    BY <1>1, <1>2, <2>2, <2>3
  <2>5. q.clips # <<>>
    BY <1>2, <2>4
  <2>6. \A c \in 1..(k + 1) : q.clips[c].start < n + 1
    <3>1. ASSUME NEW c \in 1..k PROVE page.clips[c].start < n + 1
      <4>1. PICK t \in Nat : t = page.clips[c].start
        BY <1>5, <3>1
      <4>2. t < n
        BY <1>4, <3>1, <4>1
      <4>. QED BY <1>2, <4>1, <4>2
    <3>2. \A c \in 1..k : q.clips[c].start < n + 1
      BY <2>4, <3>1
    <3>. QED BY <1>2, <2>2, <2>4, <3>2
  <2>7. Governs(q, k + 1, n + 1)
    <3>1. q.clips[k + 1].start < n + 1
      BY <1>2, <2>2, <2>4
    <3>. QED BY <1>2, <2>4, <3>1 DEF Governs
  <2>8. ASSUME NEW i \in 1..n, NEW c \in 1..k, Governs(page, c, i)
        PROVE  Governs(q, c, i)
    <3>1. q.clips[c].start < i
      BY <2>4, <2>8 DEF Governs
    <3>2. ASSUME NEW d \in 1..(k + 1), q.clips[d].start < i PROVE d <= c
      <4>1. d # k + 1
        BY <1>2, <2>2, <2>4, <2>8, <3>2
      <4>2. d \in 1..k
        BY <1>2, <3>2, <4>1
      <4>. QED BY <1>1, <2>4, <2>8, <3>2, <4>2 DEF Governs
    <3>. QED BY <2>4, <3>1, <3>2 DEF Governs
  <2>9. ASSUME NEW i \in 1..(n + 1)
        PROVE  \E c \in 1..(k + 1) : Governs(q, c, i) /\ q.clips[c].clip = q.lines[i]
    <3>1. CASE i = n + 1
      <4>1. k + 1 \in 1..(k + 1)
        BY <1>2
      <4>. QED BY <1>7, <2>2, <2>4, <2>7, <3>1, <4>1
    <3>2. CASE i \in 1..n
      <4>1. PICK c \in 1..k : Governs(page, c, i) /\ page.clips[c].clip = page.lines[i]
        BY <1>6, <3>2
      <4>2. c \in 1..(k + 1)
        BY <1>2
      <4>3. Governs(q, c, i)
        BY <2>8, <3>2, <4>1
      <4>4. q.clips[c].clip = q.lines[i]
        BY <1>7, <2>4, <3>2, <4>1
      <4>. QED BY <4>2, <4>3, <4>4
    <3>3. i = n + 1 \/ i \in 1..n
      BY <1>2, <2>9
    <3>. QED BY <3>1, <3>2, <3>3
  <2>. QED BY <1>7, <1>8, <2>2, <2>4, <2>5, <2>6, <2>9
<1>. QED BY <1>9, <1>10

\* Every line is governed by the region it was meant to have.
Regions(p) ==
  /\ \A c \in 1..Len(p.clips) : p.clips[c].start < Len(p.lines)
  /\ \A i \in 1..Len(p.lines) :
       \E c \in 1..Len(p.clips) : Governs(p, c, i) /\ p.clips[c].clip = p.lines[i]

LEMMA PrepareFacts ==
  ASSUME TextStateAssumption, Core,
         NEW new, new = PrepareTextLine[1], NEW p, p = PrepareTextLine[2]
  PROVE  /\ new \in RType /\ Current(new) /\ new.tx = r.tx
         /\ p \in PageType /\ p.open /\ SameStyle(p.style, new.text)
         /\ p.lines # <<>> /\ p.clips # <<>>
         /\ p.clips[Len(p.clips)].clip = gfx.clip
         /\ Regions(p)
<1>1. PICK c : c = CheckStateChange
  OBVIOUS
<1>2. /\ c.new \in RType /\ Current(c.new) /\ c.offset \in Int
      /\ c.new.tx = r.tx
      /\ c.break \in {NONE, NEWSTATE, NEWLINE, NEWCLIP}
      /\ c.break = NONE => SameStyle(c.new.text, r.text)
      /\ ~page.open => ~c.merged /\ c.break = NEWCLIP
      /\ c.break < NEWCLIP => c.new.clip = r.clip
  BY <1>1, CheckFacts
<1>3. r \in RType /\ page \in PageType /\ r.tx \in Int
  BY DEF Core, Types, RType
<1>4. PICK moved : moved = IF c.merged THEN AppendOffset(page, c.offset) ELSE page
  OBVIOUS
<1>5. /\ moved \in PageType /\ moved.open = page.open /\ moved.style = page.style
      /\ moved.lines = page.lines /\ moved.clips = page.clips
  BY <1>2, <1>3, <1>4, OffsetKeeps
<1>6. CASE c.break >= NEWLINE \/ ~page.open
  <2>1. PICK q : q = OpenLine(moved, c)
    OBVIOUS
  <2>2. new = DrawnAt(c.new, 0) /\ p = AppendState(q, new.text)
    BY <1>1, <1>4, <1>6, <2>1 DEF PrepareTextLine, Prepared
  <2>3. /\ new \in RType /\ SameStyle(new.text, c.new.text) /\ new.fontSize = c.new.fontSize
        /\ new.tm = c.new.tm /\ new.scale = c.new.scale /\ new.clip = c.new.clip
        /\ new.tx = c.new.tx
    <3>1. PICK n, z : n = c.new /\ z = 0
      OBVIOUS
    <3>2. n \in RType /\ z \in Int
      BY <1>2, <3>1
    <3>3. new = DrawnAt(n, z)
      BY <2>2, <3>1
    <3>4. /\ DrawnAt(n, z) \in RType /\ SameStyle(DrawnAt(n, z).text, n.text)
          /\ DrawnAt(n, z).fontSize = n.fontSize /\ DrawnAt(n, z).tm = n.tm
          /\ DrawnAt(n, z).scale = n.scale /\ DrawnAt(n, z).clip = n.clip
          /\ DrawnAt(n, z).tx = n.tx
      BY <1>3, <3>2, DrawnAtKeeps
    <3>. QED BY <3>1, <3>3, <3>4
  <2>4. Current(new)
    BY <1>2, <2>3, CurrentKept
  <2>5. /\ q \in PageType /\ q.open
        /\ q.lines = Append(page.lines, gfx.clip)
        /\ \/ page.open /\ q.clips = page.clips /\ r.clip = gfx.clip
           \/ q.clips = Append(page.clips, [clip |-> gfx.clip, start |-> Len(page.lines)])
    BY <1>1, <1>5, <2>1, OpenLineFacts
  <2>6. /\ q.lines # <<>> /\ q.clips # <<>>
        /\ \A i \in 1..Len(q.clips) : q.clips[i].start < Len(q.lines)
        /\ q.clips[Len(q.clips)].clip = gfx.clip
        /\ \A i \in 1..Len(q.lines) :
             \E d \in 1..Len(q.clips) : Governs(q, d, i) /\ q.clips[d].clip = q.lines[i]
    BY <2>5, NewLineGoverned
  <2>7. new.text \in TextType
    BY <2>3 DEF RType
  <2>8. /\ p \in PageType /\ p.open = q.open /\ p.style = new.text
        /\ p.lines = q.lines /\ p.clips = q.clips
    <3>1. q \in PageType
      BY <2>5
    <3>. QED BY <2>2, <2>7, <3>1, StateKeeps
  <2>9. \A d, i : Governs(q, d, i) => Governs(p, d, i)
    BY <2>8 DEF Governs
  <2>10. \A i \in 1..Len(p.lines) :
           \E d \in 1..Len(p.clips) : Governs(p, d, i) /\ p.clips[d].clip = p.lines[i]
    BY <2>6, <2>8, <2>9
  <2>11. Regions(p)
    BY <2>6, <2>8, <2>10 DEF Regions
  <2>. QED BY <1>2, <2>3, <2>4, <2>5, <2>6, <2>8, <2>11 DEF SameStyle
<1>7. CASE ~(c.break >= NEWLINE \/ ~page.open)
  <2>1. PICK rest, across, q :
          /\ rest = (r.tx - c.new.drawX) * c.new.scale /\ across = page.matrix * rest
          /\ q = AppendOffset(moved, across)
    OBVIOUS
  <2>2. /\ new = [c.new EXCEPT !.drawX = r.tx]
        /\ p = IF c.break # NONE THEN AppendState(q, new.text) ELSE q
    <3>1. new = DrawnAlong(c.new)
      BY <1>1, <1>7 DEF PrepareTextLine, Prepared
    <3>2. p = IF c.break # NONE THEN AppendState(q, DrawnAlong(c.new).text) ELSE q
      BY <1>1, <1>4, <1>7, <2>1 DEF PrepareTextLine, Prepared
    <3>. QED BY <3>1, <3>2 DEF DrawnAlong
  <2>3. across \in Int
    <3>1. rest \in Int
      BY <1>2, <1>3, <2>1 DEF RType, Pos
    <3>2. page.matrix \in Int
      BY <1>3 DEF PageType
    <3> QED
      BY <2>1, <3>1, <3>2
  <2>4. /\ new \in RType /\ new.text = c.new.text /\ new.fontSize = c.new.fontSize
        /\ new.tm = c.new.tm /\ new.scale = c.new.scale /\ new.clip = c.new.clip
        /\ new.tx = c.new.tx
    BY <1>2, <1>3, <2>2 DEF RType
  <2>5. Current(new)
    BY <1>2, <2>4 DEF Current
  <2>6. /\ q \in PageType /\ q.open = page.open /\ q.style = page.style
        /\ q.lines = page.lines /\ q.clips = page.clips
    BY <1>5, <2>1, <2>3, OffsetKeeps
  <2>7. new.text \in TextType
    BY <2>4 DEF RType
  <2>8. /\ p \in PageType /\ p.open = q.open /\ p.lines = q.lines /\ p.clips = q.clips
        /\ IF c.break # NONE THEN p.style = new.text ELSE p.style = page.style
    BY <2>2, <2>6, <2>7, StateKeeps
  <2>9. SameStyle(p.style, new.text)
    BY <1>2, <1>7, <2>4, <2>8 DEF SameStyle, Core, LineStyle
  <2>10. c.break < NEWCLIP
    BY <1>2, <1>7 DEF NONE, NEWSTATE, NEWLINE, NEWCLIP
  <2>11. r.clip = gfx.clip
    BY <1>2, <2>10 DEF Current
  <2>12. \A d, i : Governs(page, d, i) => Governs(p, d, i)
    BY <2>6, <2>8 DEF Governs
  <2>13. /\ page.lines # <<>> /\ page.clips # <<>>
         /\ \A i \in 1..Len(page.clips) : page.clips[i].start < Len(page.lines)
         /\ page.clips[Len(page.clips)].clip = gfx.clip
         /\ \A i \in 1..Len(page.lines) :
              \E d \in 1..Len(page.clips) :
                Governs(page, d, i) /\ page.clips[d].clip = page.lines[i]
    BY <1>7, <2>11 DEF Core, ClipsOK
  <2>14. p.lines = page.lines /\ p.clips = page.clips
    BY <2>6, <2>8
  <2>15. \A i \in 1..Len(p.lines) :
           \E d \in 1..Len(p.clips) : Governs(p, d, i) /\ p.clips[d].clip = p.lines[i]
    BY <2>12, <2>13, <2>14
  <2>16. Regions(p)
    BY <2>13, <2>14, <2>15 DEF Regions
  <2>. QED BY <1>2, <1>7, <2>4, <2>5, <2>6, <2>8, <2>9, <2>13, <2>14, <2>16
<1>. QED BY <1>6, <1>7

-----------------------------------------------------------------------------
(* The operators of a page.                                                *)

\* What the marks speak of is as it was, or newly marked.
Reported(g, flags) ==
  /\ "font" \in flags \/ (g.font = gfx.font /\ g.size = gfx.size)
  /\ {"ctm", "text_mat", "hori_scale", "rise"} \cap flags # {} \/ TextTm(g) = TextTm(gfx)
  /\ "letter_space" \in flags \/ g.tc = gfx.tc
  /\ "word_space" \in flags \/ g.tw = gfx.tw
  /\ "fill_color" \in flags \/ g.fill = gfx.fill
  /\ "clip" \in flags \/ g.clip = gfx.clip

\* A callback that leaves the page alone, and of the renderer's copy all but
\* the position.
LEMMA CallbackKeeps ==
  ASSUME Core, NEW g \in GfxType, NEW flags, flags \subseteq Flags,
         "all" \in flags \/ Reported(g, flags), gfx' = g, saved' \in GfxType,
         changed' = changed \cup flags, page' = page, NEW x \in Int, NEW y \in Int,
         r' = [r EXCEPT !.tx = x, !.ty = y]
  PROVE  Core'
<1>1. /\ r' \in RType /\ r'.text = r.text /\ r'.fontSize = r.fontSize /\ r'.tm = r.tm
      /\ r'.scale = r.scale /\ r'.clip = r.clip
  BY DEF Core, Types, RType
<1>2. Types'
  BY <1>1 DEF Core, Types
<1>3. SizeScaled'
  BY <1>1 DEF Core, SizeScaled
<1>4. LineStyle'
  BY <1>1 DEF Core, LineStyle, SameStyle
<1>5. NoLine' /\ NoColour'
  BY <1>1 DEF Core, NoLine, NoColour
<1>6. MarksComplete'
  <2>1. SUFFICES ASSUME "all" \notin changed'
        PROVE /\ "font" \in changed' \/ (r'.text.font = gfx'.font /\ r'.fontSize = gfx'.size)
              /\ \/ {"ctm", "text_mat", "hori_scale", "rise"} \cap changed' # {}
                 \/ r'.tm = TextTm(g)
              /\ "letter_space" \in changed' \/ r'.text.ls = gfx'.tc * r'.scale
              /\ "word_space" \in changed' \/ r'.text.ws = gfx'.tw * r'.scale
              /\ "fill_color" \in changed' \/ r'.text.fill = Colour(gfx'.fill)
              /\ "clip" \in changed' \/ r'.clip = gfx'.clip
    BY DEF MarksComplete, TextTm, PageScale, Colour
  <2>2. "all" \notin changed /\ Reported(g, flags)
    BY <2>1
  <2>3. "font" \in changed' \/ (r'.text.font = gfx'.font /\ r'.fontSize = gfx'.size)
    BY <1>1, <2>2 DEF Core, MarksComplete, Reported
  <2>4. \/ {"ctm", "text_mat", "hori_scale", "rise"} \cap changed' # {}
        \/ r'.tm = TextTm(g)
    BY <1>1, <2>2 DEF Core, MarksComplete, Reported
  <2>5. /\ "letter_space" \in changed' \/ r'.text.ls = gfx'.tc * r'.scale
        /\ "word_space" \in changed' \/ r'.text.ws = gfx'.tw * r'.scale
    BY <1>1, <2>2 DEF Core, MarksComplete, Reported
  <2>6. /\ "fill_color" \in changed' \/ r'.text.fill = Colour(gfx'.fill)
        /\ "clip" \in changed' \/ r'.clip = gfx'.clip
    BY <1>1, <2>2 DEF Core, MarksComplete, Reported, Colour
  <2>. QED BY <2>3, <2>4, <2>5, <2>6
<1>7. ClipsOK'
  BY <1>1 DEF Core, ClipsOK, Governs
<1>. QED BY <1>2, <1>3, <1>4, <1>5, <1>6, <1>7 DEF Core

LEMMA UpdateKeeps ==
  ASSUME Core, NEW g \in GfxType, NEW flags, flags \subseteq Flags,
         "all" \in flags \/ Reported(g, flags), Update(g, flags)
  PROVE  Core'
<1>1. /\ gfx' = g /\ changed' = changed \cup flags /\ page' = page /\ saved' = saved
      /\ r' = IF flags \cap {"all", "pos"} # {}
              THEN [r EXCEPT !.tx = g.line[1], !.ty = g.line[2]] ELSE r
  BY DEF Update
<1>2. r \in RType /\ saved \in GfxType
  BY DEF Core, Types
<1>3. r.tx \in Int /\ r.ty \in Int /\ g.line[1] \in Int /\ g.line[2] \in Int
  BY <1>2 DEF RType, GfxType
<1>4. r = [r EXCEPT !.tx = r.tx, !.ty = r.ty]
  BY <1>2 DEF RType
<1>5. CASE flags \cap {"all", "pos"} # {}
  <2>1. PICK x, y : x = g.line[1] /\ y = g.line[2]
    OBVIOUS
  <2>2. x \in Int /\ y \in Int /\ r' = [r EXCEPT !.tx = x, !.ty = y]
    BY <1>1, <1>3, <1>5, <2>1
  <2>. QED BY <1>1, <1>2, <2>2, CallbackKeeps
<1>6. CASE ~(flags \cap {"all", "pos"} # {})
  <2>1. PICK x, y : x = r.tx /\ y = r.ty
    OBVIOUS
  <2>2. x \in Int /\ y \in Int /\ r' = [r EXCEPT !.tx = x, !.ty = y]
    BY <1>1, <1>3, <1>4, <1>6, <2>1
  <2>. QED BY <1>1, <1>2, <2>2, CallbackKeeps
<1>. QED BY <1>5, <1>6

LEMMA OperatorKeeps ==
  ASSUME TextStateAssumption, Core,
         Td \/ Tm \/ Cm \/ Tf \/ Tc \/ Tw \/ Tz \/ Ts \/ Fill \/ Clip \/ TJ \/ Save \/ Restore
  PROVE  Core'
<1>1. gfx \in GfxType /\ saved \in GfxType /\ r \in RType
  BY DEF Core, Types
<1>2. CASE Td
  <2>1. PICK m \in Moves :
          LET to == <<gfx.line[1] + m[1], gfx.line[2] + m[2]>>
          IN Update([gfx EXCEPT !.line = to, !.cur = to[1]], {"pos"})
    BY <1>2 DEF Td
  <2>2. PICK to, x : to = <<gfx.line[1] + m[1], gfx.line[2] + m[2]>> /\ x = to[1]
    OBVIOUS
  <2>3. PICK g : g = [gfx EXCEPT !.line = to, !.cur = x]
    OBVIOUS
  <2>4. m \in Int \X Int /\ gfx.line \in Int \X Int
    BY <1>1 DEF TextStateAssumption, GfxType
  <2>5. to \in Int \X Int /\ x \in Int
    BY <2>2, <2>4
  <2>6. g \in GfxType
    BY <1>1, <2>3, <2>5 DEF GfxType
  <2>7. Reported(g, {"pos"})
    BY <1>1, <2>3 DEF GfxType, Reported, TextTm, PageScale
  <2>8. {"pos"} \subseteq Flags /\ Update(g, {"pos"})
    BY <2>1, <2>2, <2>3 DEF Flags
  <2>. QED BY <2>6, <2>7, <2>8, UpdateKeeps
<1>3. CASE Tm
  <2>1. PICK m \in TextMats :
          Update([gfx EXCEPT !.tm = m, !.line = <<0, 0>>, !.cur = 0], {"text_mat", "pos"})
    BY <1>3 DEF Tm
  <2>2. PICK g, o : o = <<0, 0>> /\ g = [gfx EXCEPT !.tm = m, !.line = o, !.cur = 0]
    OBVIOUS
  <2>3. m \in Pos \X Int \X Int /\ o \in Int \X Int
    BY <2>2 DEF TextStateAssumption, Pos
  <2>4. g \in GfxType
    BY <1>1, <2>2, <2>3 DEF GfxType
  <2>5. Reported(g, {"text_mat", "pos"})
    BY <1>1, <2>2 DEF GfxType, Reported
  <2>6. {"text_mat", "pos"} \subseteq Flags /\ Update(g, {"text_mat", "pos"})
    BY <2>1, <2>2 DEF Flags
  <2>. QED BY <2>4, <2>5, <2>6, UpdateKeeps
<1>4. CASE Cm
  <2>1. PICK s \in Concats : Update([gfx EXCEPT !.ctm = @ * s], {"ctm"})
    BY <1>4 DEF Cm
  <2>2. PICK v : v = gfx.ctm * s
    OBVIOUS
  <2>3. PICK g : g = [gfx EXCEPT !.ctm = v]
    OBVIOUS
  <2>4. v \in Pos
    BY <1>1, <2>2 DEF TextStateAssumption, GfxType, Pos
  <2>5. g \in GfxType
    BY <1>1, <2>3, <2>4 DEF GfxType
  <2>6. Reported(g, {"ctm"})
    BY <1>1, <2>3 DEF GfxType, Reported
  <2>7. {"ctm"} \subseteq Flags /\ Update(g, {"ctm"})
    BY <2>1, <2>2, <2>3 DEF Flags
  <2>. QED BY <2>5, <2>6, <2>7, UpdateKeeps
<1>5. CASE Tf
  <2>1. PICK f \in Fonts, n \in FontSizes : Update([gfx EXCEPT !.font = f, !.size = n], {"font"})
    BY <1>5 DEF Tf
  <2>2. PICK g : g = [gfx EXCEPT !.font = f, !.size = n]
    OBVIOUS
  <2>3. n \in Pos /\ f \in Fonts \cup {1}
    BY DEF TextStateAssumption, Pos
  <2>4. g \in GfxType
    BY <1>1, <2>2, <2>3 DEF GfxType
  <2>5. Reported(g, {"font"})
    BY <1>1, <2>2 DEF GfxType, Reported, TextTm, PageScale
  <2>6. {"font"} \subseteq Flags
    BY DEF Flags
  <2>. QED BY <2>1, <2>2, <2>4, <2>5, <2>6, UpdateKeeps
<1>6. CASE Tc
  <2>1. PICK v \in CharSpaces : Update([gfx EXCEPT !.tc = v], {"letter_space"})
    BY <1>6 DEF Tc
  <2>2. PICK g : g = [gfx EXCEPT !.tc = v]
    OBVIOUS
  <2>3. v \in Int
    BY <2>1 DEF TextStateAssumption
  <2>4. g \in GfxType
    BY <1>1, <2>2, <2>3 DEF GfxType, Pos
  <2>5. Reported(g, {"letter_space"})
    BY <1>1, <2>2 DEF GfxType, Reported, TextTm, PageScale
  <2>6. {"letter_space"} \subseteq Flags
    BY DEF Flags
  <2>. QED BY <2>1, <2>2, <2>4, <2>5, <2>6, UpdateKeeps
<1>7. CASE Tw
  <2>1. PICK v \in WordSpaces : Update([gfx EXCEPT !.tw = v], {"word_space"})
    BY <1>7 DEF Tw
  <2>2. PICK g : g = [gfx EXCEPT !.tw = v]
    OBVIOUS
  <2>3. v \in Int
    BY <2>1 DEF TextStateAssumption
  <2>4. g \in GfxType
    BY <1>1, <2>2, <2>3 DEF GfxType, Pos
  <2>5. Reported(g, {"word_space"})
    BY <1>1, <2>2 DEF GfxType, Reported, TextTm, PageScale
  <2>6. {"word_space"} \subseteq Flags
    BY DEF Flags
  <2>. QED BY <2>1, <2>2, <2>4, <2>5, <2>6, UpdateKeeps
<1>8. CASE Tz
  <2>1. PICK v \in HorizScalings : Update([gfx EXCEPT !.h = v], {"hori_scale"})
    BY <1>8 DEF Tz
  <2>2. PICK g : g = [gfx EXCEPT !.h = v]
    OBVIOUS
  <2>3. v \in Nat \ {0}
    BY <2>1 DEF TextStateAssumption
  <2>4. g \in GfxType
    BY <1>1, <2>2, <2>3 DEF GfxType, Pos
  <2>5. Reported(g, {"hori_scale"})
    BY <1>1, <2>2 DEF GfxType, Reported, TextTm, PageScale
  <2>6. {"hori_scale"} \subseteq Flags
    BY DEF Flags
  <2>. QED BY <2>1, <2>2, <2>4, <2>5, <2>6, UpdateKeeps
<1>9. CASE Ts
  <2>1. PICK v \in Rises : Update([gfx EXCEPT !.rise = v], {"rise"})
    BY <1>9 DEF Ts
  <2>2. PICK g : g = [gfx EXCEPT !.rise = v]
    OBVIOUS
  <2>3. v \in Int
    BY <2>1 DEF TextStateAssumption
  <2>4. g \in GfxType
    BY <1>1, <2>2, <2>3 DEF GfxType, Pos
  <2>5. Reported(g, {"rise"})
    BY <1>1, <2>2 DEF GfxType, Reported, TextTm, PageScale
  <2>6. {"rise"} \subseteq Flags
    BY DEF Flags
  <2>. QED BY <2>1, <2>2, <2>4, <2>5, <2>6, UpdateKeeps
<1>10. CASE Fill
  <2>1. PICK v \in Fills : Update([gfx EXCEPT !.fill = v], {"fill_color"})
    BY <1>10 DEF Fill
  <2>2. PICK g : g = [gfx EXCEPT !.fill = v]
    OBVIOUS
  <2>3. v \in Fills \cup {1}
    BY <2>1 DEF TextStateAssumption
  <2>4. g \in GfxType
    BY <1>1, <2>2, <2>3 DEF GfxType, Pos
  <2>5. Reported(g, {"fill_color"})
    BY <1>1, <2>2 DEF GfxType, Reported, TextTm, PageScale
  <2>6. {"fill_color"} \subseteq Flags
    BY DEF Flags
  <2>. QED BY <2>1, <2>2, <2>4, <2>5, <2>6, UpdateKeeps
<1>11. CASE Clip
  <2>1. PICK v \in Clips : Update([gfx EXCEPT !.clip = v], {"clip"})
    BY <1>11 DEF Clip
  <2>2. PICK g : g = [gfx EXCEPT !.clip = v]
    OBVIOUS
  <2>3. v \in Nat \ {0}
    BY <2>1 DEF TextStateAssumption
  <2>4. g \in GfxType
    BY <1>1, <2>2, <2>3 DEF GfxType, Pos
  <2>5. Reported(g, {"clip"})
    BY <1>1, <2>2 DEF GfxType, Reported, TextTm, PageScale
  <2>6. {"clip"} \subseteq Flags
    BY DEF Flags
  <2>. QED BY <2>1, <2>2, <2>4, <2>5, <2>6, UpdateKeeps
<1>12. CASE TJ
  <2>1. PICK v \in Shifts :
          /\ gfx' = [gfx EXCEPT !.cur = @ - v * gfx.size * gfx.h]
          /\ r' = [r EXCEPT !.tx = @ - v * gfx.size * gfx.h]
          /\ changed' = changed \cup {"pos"} /\ saved' = saved /\ page' = page
    BY <1>12 DEF TJ
  <2>2. PICK cur, x, y, g :
          /\ cur = gfx.cur - v * gfx.size * gfx.h /\ x = r.tx - v * gfx.size * gfx.h
          /\ y = r.ty /\ g = [gfx EXCEPT !.cur = cur]
    OBVIOUS
  <2>3. /\ gfx.size \in Pos /\ gfx.h \in Pos /\ gfx.cur \in Int /\ r.tx \in Int
        /\ r.ty \in Int /\ v \in Int
    BY <1>1 DEF GfxType, RType, TextStateAssumption
  <2>4. v * gfx.size * gfx.h \in Int
    BY <2>3 DEF Pos
  <2>5. cur \in Int /\ x \in Int /\ y \in Int
    BY <2>2, <2>3, <2>4
  <2>6. g \in GfxType
    BY <1>1, <2>2, <2>5 DEF GfxType
  <2>7. Reported(g, {"pos"})
    BY <1>1, <2>2 DEF GfxType, Reported, TextTm, PageScale
  <2>8. gfx' = g /\ r' = [r EXCEPT !.tx = x, !.ty = y]
    BY <1>1, <2>1, <2>2 DEF GfxType, RType
  <2>9. {"pos"} \subseteq Flags
    BY DEF Flags
  <2>. QED BY <1>1, <2>1, <2>5, <2>6, <2>7, <2>8, <2>9, CallbackKeeps
<1>13. CASE Save
  <2>1. /\ saved' = gfx /\ gfx' = gfx /\ r' = r /\ changed' = changed /\ page' = page
    BY <1>13 DEF Save
  <2>. QED BY <1>1, <2>1 DEF Core, Types, SizeScaled, LineStyle, NoLine, NoColour, MarksComplete,
              ClipsOK, Governs, TextTm, PageScale
<1>14. CASE Restore
  <2>1. PICK g, a, o : /\ a = <<1, 0, 0>> /\ o = <<0, 0>>
                      /\ g = [saved EXCEPT !.tm = a, !.line = o, !.cur = 0]
    OBVIOUS
  <2>2. a \in Pos \X Int \X Int /\ o \in Int \X Int
    BY <2>1 DEF Pos
  <2>3. g \in GfxType
    <3>1. saved \in GfxType
      BY <1>1
    <3> QED
      BY <2>1, <2>2, <3>1 DEF GfxType
  <2>4. /\ {"all", "text_mat", "pos"} \subseteq Flags
        /\ Update(g, {"all", "text_mat", "pos"})
    BY <1>14, <2>1 DEF Flags, Restore
  <2>. QED BY <2>3, <2>4, UpdateKeeps
<1>. QED
  BY <1>2, <1>3, <1>4, <1>5, <1>6, <1>7, <1>8, <1>9, <1>10, <1>11, <1>12, <1>13, <1>14

\* A string that is drawn: the line is prepared, and every mark is removed.
LEMMA ShowKeeps ==
  ASSUME TextStateAssumption, Core, NEW c \in Strings, Show(c), nullLine \in BOOLEAN
  PROVE  /\ Core'
         /\ \/ shown'.clip = meant'.clip /\ StyleKept'
            \/ shown' = shown /\ meant' = meant
         /\ nullLine' = nullLine
<1>1. /\ gfx \in GfxType /\ saved \in GfxType /\ r \in RType /\ saved' = saved
      /\ gfx' = [gfx EXCEPT !.cur = @ + Advance(gfx, c)]
  BY DEF Core, Types, Show
<1>2. PICK adv, cur : adv = Advance(gfx, c) /\ cur = gfx.cur + adv
  OBVIOUS
<1>3. adv \in Int /\ cur \in Int
  <2>1. /\ gfx.size \in Int /\ gfx.tc \in Int /\ gfx.tw \in Int /\ gfx.h \in Int
        /\ gfx.cur \in Int
    BY <1>1 DEF GfxType, Pos
  <2>2. PICK w : w = IF c.code32 THEN gfx.tw ELSE 0
    OBVIOUS
  <2>3. w \in Int /\ CHAR_WIDTH \in Int
    BY <2>1, <2>2 DEF CHAR_WIDTH
  <2>4. (CHAR_WIDTH * gfx.size + gfx.tc + w) * gfx.h \in Int
    BY <2>1, <2>3
  <2>5. adv \in Int
    BY <1>2, <2>2, <2>4 DEF Advance
  <2>. QED BY <1>2, <2>1, <2>5
<1>4. PICK g : g = [gfx EXCEPT !.cur = cur]
  OBVIOUS
<1>5. gfx' = g /\ g \in GfxType
  BY <1>1, <1>2, <1>3, <1>4 DEF GfxType
<1>6. CASE gfx.font \in Images
  <2>. DEFINE flags == {}
  <2>1. /\ r' = r /\ changed' = changed \cup flags /\ page' = page
        /\ shown' = shown /\ meant' = meant /\ nullLine' = nullLine
    BY <1>6 DEF Show
  <2>2. Reported(g, flags)
    BY <1>1, <1>4 DEF GfxType, Reported, TextTm, PageScale
  <2>3. PICK x, y : x = r.tx /\ y = r.ty
    OBVIOUS
  <2>4. x \in Int /\ y \in Int /\ r' = [r EXCEPT !.tx = x, !.ty = y] /\ flags \subseteq Flags
    BY <1>1, <2>1, <2>3 DEF RType
  <2>. HIDE DEF flags
  <2>5. Core'
    BY <1>1, <1>5, <2>1, <2>2, <2>4, CallbackKeeps
  <2>. QED BY <2>1, <2>5
<1>7. CASE gfx.font \notin Images
  <2>1. PICK new, p : new = PrepareTextLine[1] /\ p = PrepareTextLine[2]
    OBVIOUS
  <2>2. PICK end : end = p.pen + p.matrix * Written(new, c)
    OBVIOUS
  <2>3. /\ changed' = {}
        /\ r' = [new EXCEPT !.tx = @ + Advance(gfx, c), !.drawX = @ + Advance(gfx, c)]
        /\ page' = [p EXCEPT !.pen = end]
        /\ shown'.font = p.style.font /\ shown'.size = p.style.size
        /\ shown'.fill = p.style.fill /\ shown'.clip = ClipOf(p, Len(p.lines))
        /\ meant'.font = gfx.font /\ meant'.size = gfx.size * PageScale(gfx)
        /\ meant'.fill = gfx.fill /\ meant'.clip = gfx.clip
        /\ nullLine' = (nullLine \/ (CheckStateChange.merged /\ ~page.open))
    BY <1>7, <2>1, <2>2 DEF Show, Write
  <2>4. /\ new \in RType /\ Current(new) /\ new.tx = r.tx
        /\ p \in PageType /\ p.open /\ SameStyle(p.style, new.text)
        /\ p.lines # <<>> /\ p.clips # <<>>
        /\ p.clips[Len(p.clips)].clip = gfx.clip
        /\ Regions(p)
    BY <2>1, PrepareFacts
  <2>5. nullLine' = nullLine
    <3>1. PICK k : k = CheckStateChange
      OBVIOUS
    <3>2. ~page.open => ~k.merged
      BY <3>1, CheckFacts
    <3>. QED BY <2>3, <3>1, <3>2
  <2>6. PICK x, d : x = new.tx + adv /\ d = new.drawX + adv
    OBVIOUS
  <2>7. x \in Int /\ d \in Int
    BY <1>3, <2>4, <2>6 DEF RType
  <2>8. r' = [new EXCEPT !.tx = x, !.drawX = d]
    BY <1>2, <2>3, <2>4, <2>6 DEF RType
  <2>9. /\ r' \in RType /\ r'.text = new.text /\ r'.fontSize = new.fontSize
        /\ r'.tm = new.tm /\ r'.scale = new.scale /\ r'.clip = new.clip
    BY <2>4, <2>7, <2>8 DEF RType
  <2>10. end \in Int
    <3>1. Written(new, c) \in Int
      <4>1. /\ new.text \in TextType /\ new.scale \in Int /\ new.fontSize \in Int
            /\ gfx.tc \in Int /\ gfx.tw \in Int
        BY <1>1, <2>4 DEF RType, GfxType, Pos
      <4>2. new.text.size \in Int /\ new.text.ls \in Int /\ new.text.ws \in Int
        BY <4>1 DEF TextType
      <4>3. PICK w : w = IF c.space THEN new.text.ws ELSE 0
        OBVIOUS
      <4>4. PICK own : own = CHAR_WIDTH * new.text.size + new.text.ls + w
        OBVIOUS
      <4>5. own \in Int
        BY <4>2, <4>3, <4>4 DEF CHAR_WIDTH
      <4>6. gfx.tw * new.scale * (IF c.code32 THEN 1 ELSE -1) \in Int
        <5>1. PICK sign : sign = IF c.code32 THEN 1 ELSE -1
          OBVIOUS
        <5>2. sign \in Int
          BY <5>1
        <5>3. gfx.tw * new.scale \in Int
          BY <4>1
        <5>. QED BY <5>1, <5>2, <5>3
      <4>7. (CHAR_WIDTH * new.fontSize + gfx.tc + gfx.tw) * new.scale \in Int
        BY <4>1 DEF CHAR_WIDTH
      <4>8. \/ Written(new, c) = (CHAR_WIDTH * new.fontSize + gfx.tc + gfx.tw) * new.scale
            \/ Written(new, c) = own
            \/ Written(new, c) = own + gfx.tw * new.scale * (IF c.code32 THEN 1 ELSE -1)
        BY <4>3, <4>4, Zenon DEF Written
      <4>. QED BY <4>5, <4>6, <4>7, <4>8
    <3>2. p.pen \in Int /\ p.matrix \in Int
      BY <2>4 DEF PageType
    <3>. QED BY <2>2, <3>1, <3>2
  <2>11. /\ page' \in PageType /\ page'.open = p.open /\ page'.lines = p.lines
         /\ page'.clips = p.clips /\ page'.style = p.style
    BY <2>3, <2>4, <2>10 DEF PageType
  <2>12. Types'
    BY <1>1, <1>5, <2>3, <2>9, <2>11 DEF Types
  <2>13. SizeScaled'
    BY <2>4, <2>9 DEF SizeScaled, Current
  <2>14. LineStyle'
    BY <2>4, <2>9, <2>11 DEF LineStyle, SameStyle
  <2>15. NoLine' /\ NoColour'
    BY <2>4, <2>9, <2>11 DEF NoLine, NoColour, Current, Colour
  <2>16. MarksComplete'
    <3>1. /\ g.font = gfx.font /\ g.size = gfx.size /\ TextTm(g) = TextTm(gfx)
          /\ g.tc = gfx.tc /\ g.tw = gfx.tw /\ g.fill = gfx.fill /\ g.clip = gfx.clip
      BY <1>1, <1>4 DEF GfxType, TextTm, PageScale
    <3>2. TextTm(gfx)' = TextTm(g)
      BY <1>5 DEF TextTm, PageScale
    <3>3. /\ r'.text.font = gfx'.font /\ r'.fontSize = gfx'.size /\ r'.tm = TextTm(gfx)'
          /\ r'.text.ls = gfx'.tc * r'.scale /\ r'.text.ws = gfx'.tw * r'.scale
          /\ r'.text.fill = Colour(gfx'.fill)
          /\ r'.clip = gfx'.clip
      BY <1>5, <2>4, <2>9, <3>1, <3>2 DEF Current, Colour
    <3>. QED BY <3>3 DEF MarksComplete, Colour
  <2>17. \A j, i : Governs(p, j, i) => Governs(page, j, i)'
    BY <2>11 DEF Governs
  <2>18. ClipsOK'
    <3>1. r'.clip = gfx.clip
      BY <2>4, <2>9 DEF Current
    <3>. QED BY <2>4, <2>11, <2>17, <3>1 DEF ClipsOK, Regions
  <2>19. StyleKept'
    BY <1>1, <2>3, <2>4 DEF StyleKept, SameStyle, Current, TextTm, Colour
  <2>20. shown'.clip = meant'.clip
    <3>1. PICK n, k : n = Len(p.lines) /\ k = Len(p.clips)
      OBVIOUS
    <3>2. /\ p.clips \in Seq(ClipType) /\ p.lines \in Seq(Pos)
      BY <2>4 DEF PageType
    <3>3. n \in Nat /\ k \in 1..k
      <4>1. p.clips # <<>> => Len(p.clips) \in Int /\ 1 <= Len(p.clips)
        BY <3>2
      <4>2. Len(p.lines) \in Nat
        BY <3>2
      <4>3. p.clips # <<>>
        BY <2>4
      <4>4. k \in Int /\ 1 <= k
        BY <3>1, <4>1, <4>3
      <4>5. n \in Nat
        BY <3>1, <4>2
      <4> QED
        BY <4>4, <4>5
    <3>4. Governs(p, k, n)
      <4>1. \A j \in 1..k : p.clips[j].start < n
        BY <2>4, <3>1 DEF Regions
      <4>2. \A j \in 1..k : j <= k
        BY <3>3
      <4> QED
        BY <3>1, <3>3, <4>1, <4>2 DEF Governs
    <3>5. ClipOf(p, n) = p.clips[k].clip
      BY <3>1, <3>2, <3>3, <3>4, GovernedClip
    <3>. QED BY <2>3, <2>4, <3>1, <3>5
  <2>. QED BY <2>5, <2>12, <2>13, <2>14, <2>15, <2>16, <2>18, <2>19, <2>20 DEF Core
<1>. QED BY <1>6, <1>7

-----------------------------------------------------------------------------
(* The invariant and what follows from it.                                 *)
Drift == [text : BOOLEAN, line : BOOLEAN, shown : BOOLEAN]
IInv ==
  /\ Core /\ StyleKept /\ shown.clip = meant.clip
  /\ nullLine = FALSE /\ adrift \in Drift /\ ops \in 0..MaxOps /\ pages \in 1..MaxPages

PageStart ==
  /\ gfx = NewGfx /\ saved = NewGfx /\ r = ResetR /\ changed = {"all"}
  /\ page = EmptyPage /\ shown = Nowhere /\ meant = Nowhere
PageInv == Core /\ StyleKept /\ shown.clip = meant.clip

LEMMA PageBegins == PageStart => PageInv
<1>. SUFFICES ASSUME PageStart PROVE PageInv
  OBVIOUS
<1>. USE DEF PageStart
<1>1. <<1, 0, 0>> \in Pos \X Int \X Int /\ <<0, 0>> \in Int \X Int
  BY DEF Pos
<1>2. gfx \in GfxType /\ saved \in GfxType
  BY <1>1 DEF NewGfx, GfxType, Pos
<1>3. ResetR.text \in TextType /\ ResetR.tm \in TmType
  BY DEF ResetR, TextType, TmType, Pos, TRANSPARENT
<1>4. r \in RType
  BY <1>3 DEF ResetR, RType, ResetClip, Pos
<1>5. page \in PageType
  <2>1. <<>> \in Seq(Pos) /\ <<>> \in Seq(ClipType)
    OBVIOUS
  <2>. QED BY <1>1, <1>3, <2>1 DEF EmptyPage, PageType
<1>6. Types
  BY <1>2, <1>4, <1>5 DEF Types, Flags
<1>7. SizeScaled /\ LineStyle /\ NoLine /\ NoColour /\ MarksComplete /\ ClipsOK
  BY DEF SizeScaled, LineStyle, NoLine, NoColour, MarksComplete, ClipsOK, ResetR, EmptyPage
<1>. QED BY <1>6, <1>7 DEF PageInv, Core, StyleKept, Nowhere, Colour, TRANSPARENT

LEMMA NextPageBegins == PageStart' => PageInv'
<1>. QED BY PageBegins, PTL

LEMMA NotAdriftType == NotAdrift \in Drift
BY DEF NotAdrift, Drift

LEMMA DriftType ==
  ASSUME NEW a \in Drift, NEW x \in BOOLEAN, NEW y \in BOOLEAN
  PROVE  /\ a.text \in BOOLEAN /\ a.line \in BOOLEAN
         /\ [a EXCEPT !.text = x] \in Drift /\ [a EXCEPT !.line = x, !.shown = y] \in Drift
         /\ [a EXCEPT !.text = x].text = x /\ [a EXCEPT !.text = x].line = a.line
         /\ [a EXCEPT !.text = x].shown = a.shown
         /\ [a EXCEPT !.line = x, !.shown = y].text = a.text
         /\ [a EXCEPT !.line = x, !.shown = y].line = x
         /\ [a EXCEPT !.line = x, !.shown = y].shown = y
BY DEF Drift

LEMMA AdriftKept ==
  ASSUME adrift \in Drift,
         \/ Td \/ Tm \/ Cm \/ Tf \/ Tc \/ Tw \/ Tz \/ Ts \/ Fill \/ Clip \/ TJ \/ Save \/ Restore
         \/ \E c \in Strings : Show(c)
  PROVE  adrift' \in Drift
<1>1. CASE \E g, flags : Update(g, flags)
  <2>1. PICK x \in BOOLEAN : adrift' = [adrift EXCEPT !.text = x]
    <3>1. PICK g, flags : adrift' = [adrift EXCEPT !.text = @ /\ flags \cap {"all", "pos"} = {}]
      BY <1>1 DEF Update
    <3>2. PICK x : x = (adrift.text /\ flags \cap {"all", "pos"} = {})
      OBVIOUS
    <3>3. x \in BOOLEAN /\ adrift' = [adrift EXCEPT !.text = x]
      BY <3>1, <3>2 DEF Drift
    <3> QED
      BY <3>3
  <2> QED
    BY <2>1, DriftType
<1>2. CASE TJ \/ Save
  BY <1>2 DEF TJ, Save
<1>3. CASE \E c \in Strings : Show(c)
  <2>1. PICK c \in Strings : Show(c)
    BY <1>3
  <2>2. PICK x, y : x = Astray(PrepareTextLine[2]) /\ y = (adrift.text \/ x)
    OBVIOUS
  <2>3. adrift.text \in BOOLEAN /\ adrift.line \in BOOLEAN
    BY DriftType
  <2>4. x \in BOOLEAN /\ y \in BOOLEAN
    BY <2>2, <2>3 DEF Astray
  <2>5. adrift' = [adrift EXCEPT !.text = TRUE] \/ adrift' = [adrift EXCEPT !.line = x, !.shown = y]
    BY <2>1, <2>2 DEF Show
  <2>6. [adrift EXCEPT !.text = TRUE] \in Drift /\ [adrift EXCEPT !.line = x, !.shown = y] \in Drift
    BY <2>4, DriftType
  <2> QED
    BY <2>5, <2>6
<1> QED
  BY <1>1, <1>2, <1>3 DEF Td, Tm, Cm, Tf, Tc, Tw, Tz, Ts, Fill, Clip, Restore

LEMMA InitInv == ASSUME TextStateAssumption, Init PROVE IInv
<1>1. MaxOps \in Nat /\ MaxPages \in Nat \ {0}
  BY DEF TextStateAssumption
<1>2. Core /\ StyleKept /\ shown.clip = meant.clip
  BY PageBegins DEF Init, PageStart, PageInv
<1>3. ops \in 0..MaxOps /\ pages \in 1..MaxPages
  BY <1>1 DEF Init
<1>4. nullLine = FALSE /\ adrift = NotAdrift
  BY DEF Init
<1>5. adrift \in Drift
  BY <1>4, NotAdriftType
<1>. QED BY <1>2, <1>3, <1>4, <1>5 DEF IInv

LEMMA NextInv == ASSUME TextStateAssumption, IInv, [Next]_vars PROVE IInv'
<1>1. Core /\ MaxOps \in Nat /\ MaxPages \in Nat \ {0}
  BY DEF IInv, TextStateAssumption
<1>2. CASE Operator
  <2>1. ops' \in 0..MaxOps /\ pages' \in 1..MaxPages
    BY <1>1, <1>2 DEF IInv, Operator
  <2>2. CASE Td \/ Tm \/ Cm \/ Tf \/ Tc \/ Tw \/ Tz \/ Ts \/ Fill \/ Clip \/ TJ \/ Save \/ Restore
    <3>1. Core'
      BY <1>1, <2>2, OperatorKeeps
    <3>2. /\ shown' = shown /\ meant' = meant /\ nullLine' = nullLine
      BY <2>2 DEF Td, Tm, Cm, Tf, Tc, Tw, Tz, Ts, Fill, Clip, TJ, Save, Restore, Update
    <3>3. StyleKept' /\ shown'.clip = meant'.clip
      BY <3>2 DEF IInv, StyleKept
    <3>4. adrift' \in Drift
      BY <2>2, AdriftKept DEF IInv
    <3>. QED BY <2>1, <3>1, <3>2, <3>3, <3>4 DEF IInv
  <2>3. CASE \E c \in Strings : Show(c)
    <3>1. PICK c \in Strings : Show(c)
      BY <2>3
    <3>2. /\ Core' /\ nullLine' = nullLine
          /\ \/ shown'.clip = meant'.clip /\ StyleKept'
             \/ shown' = shown /\ meant' = meant
      BY <1>1, <3>1, ShowKeeps DEF IInv
    <3>3. StyleKept' /\ shown'.clip = meant'.clip
      BY <3>2 DEF IInv, StyleKept
    <3>4. adrift' \in Drift
      BY <3>1, AdriftKept DEF IInv
    <3>. QED BY <2>1, <3>2, <3>3, <3>4 DEF IInv
  <2>. QED BY <1>2, <2>2, <2>3 DEF Operator
<1>3. CASE NextPage
  <2>1. PageStart'
    BY <1>3 DEF NextPage, PageStart
  <2>2. Core' /\ StyleKept' /\ (shown.clip = meant.clip)'
    BY <2>1, NextPageBegins DEF PageInv
  <2>3. ops' \in 0..MaxOps /\ pages' \in 1..MaxPages
    BY <1>1, <1>3 DEF IInv, NextPage
  <2>4. nullLine' = FALSE /\ adrift' \in Drift
    BY <1>3, NotAdriftType DEF IInv, NextPage
  <2>. QED BY <2>2, <2>3, <2>4 DEF IInv
<1>4. CASE UNCHANGED vars
  BY <1>4 DEF vars, IInv, Core, Types, SizeScaled, LineStyle, NoLine, NoColour, MarksComplete,
     ClipsOK, Governs, TextTm, PageScale, StyleKept
<1>. QED BY <1>2, <1>3, <1>4 DEF Next

LEMMA Invariant == ASSUME TextStateAssumption PROVE Spec => []IInv
<1>1. Init => IInv
  BY InitInv
<1>2. IInv /\ [Next]_vars => IInv'
  BY NextInv
<1>. QED BY <1>1, <1>2, PTL DEF Spec

\* The state keeps its type, and there is a current line exactly while the page
\* has lines.
THEOREM TypeCorrect == ASSUME TextStateAssumption PROVE Spec => []TypeOK
<1>1. IInv => TypeOK
  <2>1. SUFFICES ASSUME IInv PROVE TypeOK
    OBVIOUS
  <2>2. /\ r \in RType /\ page \in PageType /\ changed \subseteq Flags
        /\ nullLine \in BOOLEAN
    BY <2>1 DEF IInv, Core, Types
  <2>3. r.tx \in Int /\ r.drawX \in Int /\ r.scale \in Nat \ {0}
    BY <2>2 DEF RType, Pos
  <2>4. page.open = (page.lines # <<>>)
    <3>1. page.open \in BOOLEAN
      BY <2>2 DEF PageType
    <3>2. page.open <=> page.lines # <<>>
      BY <2>1 DEF IInv, Core, ClipsOK
    <3>. QED BY <3>1, <3>2
  <2>. QED BY <2>1, <2>2, <2>3, <2>4 DEF TypeOK, IInv, Drift
<1>. QED BY <1>1, Invariant, PTL

\* A skipped comparison would have found nothing: what is not marked in
\* check_state_change's flags is already in the renderer's copy.
THEOREM MarksAreComplete == ASSUME TextStateAssumption PROVE Spec => []MarksComplete
<1>1. IInv => MarksComplete
  BY DEF IInv, Core
<1>. QED BY <1>1, Invariant, PTL

\* The style of every string in the HTML is the one the PDF gives it.
THEOREM StyleIsKept == ASSUME TextStateAssumption PROVE Spec => []StyleKept
<1>1. IInv => StyleKept
  BY DEF IInv
<1>. QED BY <1>1, Invariant, PTL

\* Every line is written in the clip region that its text had in the PDF.
THEOREM ClipIsKept == ASSUME TextStateAssumption PROVE Spec => []ClipKept
<1>1. IInv => ClipKept
  <2>1. SUFFICES ASSUME IInv PROVE ClipKept
    OBVIOUS
  <2>2. page.clips \in Seq(ClipType) /\ page.lines \in Seq(Pos)
    BY <2>1 DEF IInv, Core, Types, PageType
  <2>3. ASSUME NEW i \in 1..Len(page.lines) PROVE ClipOf(page, i) = page.lines[i]
    <3>1. PICK c \in 1..Len(page.clips) :
            Governs(page, c, i) /\ page.clips[c].clip = page.lines[i]
      BY <2>1 DEF IInv, Core, ClipsOK
    <3>2. i \in Nat
      BY <2>2
    <3>3. ClipOf(page, i) = page.clips[c].clip
      BY <2>2, <3>1, <3>2, GovernedClip
    <3>. QED BY <3>1, <3>3
  <2>. QED BY <2>1, <2>3 DEF ClipKept, IInv
<1>. QED BY <1>1, Invariant, PTL

\* No offset is ever appended to a null line.
THEOREM EveryOffsetHasLine == ASSUME TextStateAssumption PROVE Spec => []OffsetsHaveLine
<1>1. IInv => OffsetsHaveLine
  BY DEF IInv, OffsetsHaveLine
<1>. QED BY <1>1, Invariant, PTL

-----------------------------------------------------------------------------
(* Places.                                                                 *)

\* The matrix of the text is a uniform scaling, which the font size takes, and
\* a horizontal one, which the line takes.
Even(n) == n.scale = n.tm.sy /\ n.tm.sx = n.tm.sy * n.matrix /\ n.matrix \in Pos

\* Where the pen would be on the page if n drew at <<x, y>>; positions have the
\* horizontal scaling already.
XOf(n, x) == n.tm.sy * x + n.tm.x
YOf(n, y) == n.tm.sy * y + n.tm.y

\* The reader's pen is where the renderer has drawn up to; away is whether the
\* line is adrift.
PenAt(p, n, away) ==
  /\ p.matrix = n.matrix /\ p.origin[2] + p.base = YOf(n, n.drawY)
  /\ ~away => p.origin[1] + p.pen = XOf(n, n.drawX)

\* The position is that of the PDF.
Following == r.ty = gfx.line[2] /\ (~adrift.text => r.tx = gfx.cur)

\* Whatever moves the position without drawing leaves a mark.
Drawn == (r.drawX = r.tx /\ r.drawY = r.ty) \/ Marked("pos")

PlaceInv ==
  /\ Even(r) /\ Following /\ PlaceKept
  /\ page.open => PenAt(page, r, adrift.line) /\ Drawn

-----------------------------------------------------------------------------
(* What a check finds.                                                     *)

\* Products and quotients of integers.
LEMMA Exact == \A a \in Int, b \in Pos : (a * b) \div b = a
BY SMT DEF Pos

LEMMA Turn == \A a, b, c \in Int : (a * b) * c = (a * c) * b
BY SMT

LEMMA Regroup == \A a, b, c \in Int : (a * b) * c = a * (c * b)
BY SMT

LEMMA Differ == \A a, b, c \in Int : (a - b) * c = a * c - b * c
BY SMT

LEMMA Product == \A a, b \in Pos : a * b \in Pos
BY SMT DEF Pos

LEMMA Cancel == \A a \in Pos, b, c \in Int : a * b = a * c => b = c
BY SMT DEF Pos

LEMMA Spread == \A a, b, c \in Int : a * (b + c) = a * b + a * c
BY SMT

LEMMA PlacesType ==
  ASSUME NEW n \in RType, NEW x \in Int
  PROVE  XOf(n, x) \in Int /\ YOf(n, x) \in Int
<1>1. n.tm.sx \in Int /\ n.tm.sy \in Int /\ n.tm.x \in Int /\ n.tm.y \in Int
  BY DEF RType, TmType, Pos
<1> QED
  BY <1>1 DEF XOf, YOf

\* The horizontal scaling cancels out of a move, unless a translation joins it.
Quotient(s, m, k, x, y, e, f) ==
  ((((k * m) * x + e) - ((s * m) * y + f)) * s) \div (s * m)

LEMMA Cancels ==
  ASSUME NEW s \in Pos, NEW m \in Pos, NEW x \in Int, NEW y \in Int, NEW k \in Int,
         NEW e \in Int, NEW f \in Int, m = 1 \/ e = f
  PROVE  Quotient(s, m, k, x, y, e, f) = (k * x + e) - (s * y + f)
<1>1. k * x \in Int /\ s * y \in Int /\ s \in Int /\ m \in Int
  BY DEF Pos
<1>2. PICK u, v \in Int : u = k * x /\ v = s * y
  BY <1>1
<1>3. PICK a \in Int : a = (u + e) - (v + f)
  BY <1>2
<1>4. (k * m) * x = u * m /\ (s * m) * y = v * m
  BY <1>1, <1>2, Turn
<1>5. (u * m + e) - (v * m + f) = a * m
  <2>1. CASE m = 1
    BY <1>2, <1>3, <2>1
  <2>2. CASE e = f
    <3>1. a = u - v /\ u * m \in Int /\ v * m \in Int
      BY <1>1, <1>2, <1>3, <2>2
    <3>2. (u - v) * m = u * m - v * m
      BY <1>1, <1>2, Differ
    <3> QED
      BY <2>2, <3>1, <3>2
  <2> QED
    BY <2>1, <2>2
<1>6. s * m \in Pos
  BY Product
<1>7. (a * m) * s = a * (s * m)
  BY <1>1, <1>3, Regroup
<1>8. (a * (s * m)) \div (s * m) = a
  BY <1>3, <1>6, Exact
<1> QED
  BY <1>2, <1>3, <1>4, <1>5, <1>7, <1>8 DEF Quotient

\* The move between two places in lines of one matrix.
LEMMA ShiftIs ==
  ASSUME NEW n \in RType, r \in RType, Even(r), Even(n), n.matrix = r.matrix
  PROVE  /\ Shift(n)[1] \in Int /\ Shift(n)[2] = YOf(n, r.ty) - YOf(r, r.drawY)
         /\ n.matrix = 1 \/ n.tm.x = r.tm.x => Shift(n)[1] = XOf(n, r.tx) - XOf(r, r.drawX)
<1>1. PICK tx, ty, dx, dy \in Int : tx = r.tx /\ ty = r.ty /\ dx = r.drawX /\ dy = r.drawY
  BY DEF RType
<1>2. PICK e, f, g, h \in Int : e = n.tm.x /\ f = r.tm.x /\ g = n.tm.y /\ h = r.tm.y
  BY DEF RType, TmType
<1>3. PICK k, s, m \in Pos : k = n.tm.sy /\ s = r.tm.sy /\ m = r.matrix
  <2>1. n.tm.sy \in Pos /\ r.tm.sy \in Pos /\ r.matrix \in Pos
    BY DEF RType, TmType, Even
  <2> QED
    BY <2>1
<1>4. n.tm.sx = k * m /\ r.tm.sx = s * m /\ r.scale = s
  BY <1>3 DEF Even
<1>5. /\ k \in Int /\ s \in Int /\ m \in Int /\ s # 0 /\ s * m \in Pos
      /\ (k * m) * tx \in Int /\ (s * m) * dx \in Int /\ k * ty \in Int /\ s * dy \in Int
  BY <1>1, <1>3, Product DEF Pos
<1>6. PICK a, b \in Int :
        /\ a = ((k * m) * tx + e) - ((s * m) * dx + f) /\ b = (k * ty + g) - (s * dy + h)
  BY <1>2, <1>5
<1>7. (k * m) * tx + e - (s * m) * dx - f = a /\ k * ty + g - s * dy - h = b
  <2>1. \A u, v, w, z \in Int : u + v - w - z = (u + v) - (w + z)
    OBVIOUS
  <2> QED
    BY <1>2, <1>5, <1>6, <2>1
<1>8. Shift(n) = <<(a * s) \div (s * m), (b * s) \div s>>
  BY <1>1, <1>2, <1>3, <1>4, <1>7 DEF Shift
<1>9. (b * s) \div s = b
  BY <1>3, <1>6, Exact
<1>10. (a * s) \div (s * m) \in Int
  <2>1. a * s \in Int
    BY <1>5, <1>6
  <2> QED
    BY <1>5, <2>1, SMT DEF Pos
<1>11. ASSUME m = 1 \/ e = f PROVE (a * s) \div (s * m) = (k * tx + e) - (s * dx + f)
  <2>1. Quotient(s, m, k, tx, dx, e, f) = (k * tx + e) - (s * dx + f)
    BY <1>1, <1>2, <1>3, <1>5, <1>11, Cancels
  <2> QED
    BY <1>6, <2>1 DEF Quotient
<1> QED
  BY <1>1, <1>2, <1>3, <1>6, <1>8, <1>9, <1>10, <1>11 DEF XOf, YOf

\* A line of the PDF's text matrix has its horizontal scaling.
LEMMA MatrixIs ==
  ASSUME gfx \in GfxType, NEW n \in RType, Even(n), n.tm = TextTm(gfx)
  PROVE  n.matrix = gfx.h
<1>1. PICK s : s = PageScale(gfx)
  OBVIOUS
<1>2. n.tm.sx = s * gfx.h /\ n.tm.sy = s
  BY <1>1 DEF TextTm
<1>3. s \in Pos /\ gfx.h \in Int /\ n.matrix \in Int
  <2>1. s \in Pos
    BY <1>2 DEF RType, TmType
  <2> QED
    BY <2>1 DEF GfxType, Even, Pos
<1>4. s * n.matrix = s * gfx.h
  BY <1>2 DEF Even
<1> QED
  BY <1>3, <1>4, Cancel

\* What the comparison leaves.
LEMMA ComparedEven ==
  ASSUME TextStateAssumption, Core, Even(r), NEW n, n = Compared.new
  PROVE  /\ Even(n) /\ n.tm = TextTm(gfx) /\ n.drawX = r.drawX /\ n.drawY = r.drawY
         /\ n.text.va = 0 /\ (Compared.recheck <=> Marked("pos") \/ n.tm # r.tm)
         /\ Compared.break < NEWLINE => n.matrix = r.matrix
<1> DEFINE
  fontSize == IF Marked("font") THEN gfx.size ELSE r.fontSize
  tm == IF \E f \in {"ctm", "text_mat", "hori_scale", "rise"} : Marked(f)
        THEN TextTm(gfx) ELSE r.tm
  rescale == Rescales(tm, fontSize)
  scale == IF rescale THEN tm.sy ELSE r.scale
  matrix == IF rescale THEN tm.sx \div scale ELSE r.matrix
<1>1. n \in RType /\ n.tm = TextTm(gfx)
  BY ComparedFacts DEF Current
<1>2. r \in RType /\ gfx \in GfxType
  BY DEF Core, Types
<1>3. /\ n.tm = tm /\ n.scale = scale /\ n.matrix = matrix /\ n.drawX = r.drawX
      /\ n.drawY = r.drawY /\ n.text.va = 0
      /\ Compared.recheck = (Marked("pos") \/ tm # r.tm)
  BY <1>2 DEF Compared, RType
<1>4. PICK s, h \in Pos : tm.sy = s /\ tm.sx = s * h
  <2>1. tm = TextTm(gfx) /\ TextTm(gfx) \in TmType
    BY <1>1, <1>2, <1>3, TextTmType
  <2>2. TextTm(gfx).sy \in Pos /\ TextTm(gfx).sx = TextTm(gfx).sy * gfx.h
    <3>1. PICK w : w = TextTm(gfx)
      OBVIOUS
    <3>2. w.sy = PageScale(gfx) /\ w.sx = PageScale(gfx) * gfx.h
      BY <3>1 DEF TextTm
    <3>3. w.sy \in Pos
      BY <2>1, <3>1 DEF TmType
    <3> QED
      BY <3>1, <3>2, <3>3
  <2>3. gfx.h \in Pos
    BY <1>2 DEF GfxType
  <2> QED
    BY <2>1, <2>2, <2>3
<1>5. ASSUME rescale PROVE Even(n)
  <2>1. scale = s /\ matrix = (s * h) \div s
    BY <1>4, <1>5
  <2>2. (s * h) \div s = h
    <3>1. (h * s) \div s = h /\ h * s = s * h
      BY <1>4, Exact, SMT DEF Pos
    <3> QED
      BY <3>1
  <2>3. n.matrix = h /\ n.scale = s /\ n.tm.sy = s /\ n.tm.sx = s * h
    BY <1>3, <1>4, <2>1, <2>2
  <2> QED
    BY <1>4, <2>3 DEF Even
<1>6. ASSUME ~rescale PROVE Even(n)
  <2>1. tm = r.tm /\ scale = r.scale /\ matrix = r.matrix
    BY <1>6 DEF Rescales
  <2> QED
    BY <1>1, <1>3, <2>1 DEF Even
<1>7. Even(n)
  BY <1>5, <1>6
<1>8. ASSUME Compared.break < NEWLINE PROVE n.matrix = r.matrix
  <2>1. PICK a, b, k : Compared.break = IF a THEN NEWCLIP ELSE IF matrix # r.matrix \/ b THEN NEWLINE ELSE k
    BY DEF Compared
  <2>2. ~(NEWCLIP < NEWLINE) /\ ~(NEWLINE < NEWLINE)
    BY DEF NEWCLIP, NEWLINE
  <2> QED
    BY <1>3, <1>8, <2>1, <2>2
<1> QED
  BY <1>1, <1>3, <1>7, <1>8

\* The three outcomes of a check: the line goes on where it is, or moves by an
\* offset to where the PDF is, or a new line is needed.
Stays(c) ==
  /\ c.break < NEWLINE /\ c.new.matrix = r.matrix
  /\ ~c.merged /\ ~Marked("pos") /\ c.new.tm = r.tm /\ c.new.drawX = r.drawX  /\ c.new.drawY = r.drawY /\ c.new.text.va = 0
MovesAlong(c) ==
  /\ c.break < NEWLINE /\ c.new.matrix = r.matrix
  /\ c.merged /\ c.new.drawX = r.tx /\ c.new.drawY = r.ty
  /\ ~Misjudged => c.offset = XOf(c.new, r.tx) - XOf(r, r.drawX)
  /\ c.new.text.va = YOf(c.new, r.ty) - YOf(r, r.drawY)
  /\ c.break = NONE => c.new.text.va = 0

LEMMA CheckPlaces ==
  ASSUME TextStateAssumption, Core, Even(r), page.open => page.matrix = r.matrix,
         NEW c, c = CheckStateChange
  PROVE  /\ Even(c.new) /\ c.new.tm = TextTm(gfx)
         /\ Stays(c) \/ MovesAlong(c) \/ c.break >= NEWLINE
<1>1. PICK d, n : d = Compared /\ n = d.new
  OBVIOUS
<1>2. /\ n \in RType /\ Even(n) /\ n.tm = TextTm(gfx) /\ n.drawX = r.drawX /\ n.drawY = r.drawY
      /\ n.text.va = 0 /\ (d.recheck <=> Marked("pos") \/ n.tm # r.tm)
      /\ d.break \in {NONE, NEWSTATE, NEWLINE, NEWCLIP}
      /\ d.break < NEWLINE => n.matrix = r.matrix
  BY <1>1, ComparedEven, ComparedFacts
<1>3. r \in RType /\ gfx \in GfxType /\ page \in PageType
  BY DEF Core, Types
<1>4. PICK shift, a, b : shift = Shift(n) /\ a = shift[1] /\ b = shift[2]
  OBVIOUS
<1>5. n.matrix = gfx.h /\ gfx.h \in Pos
  BY <1>2, <1>3, MatrixIs DEF GfxType
<1>6. CASE c = [new |-> n, break |-> d.break, merged |-> FALSE, offset |-> 0]
           /\ (~d.recheck \/ d.break >= NEWLINE)
  BY <1>2, <1>6 DEF Stays, NONE, NEWSTATE, NEWLINE, NEWCLIP
<1>7. CASE c = [new |-> n, break |-> NEWLINE, merged |-> FALSE, offset |-> 0]
  BY <1>2, <1>7 DEF NEWLINE
<1>8. CASE /\ c = [new |-> DrawnAt(n, b), break |-> IF b # 0 THEN NEWSTATE ELSE d.break,
                   merged |-> TRUE, offset |-> (page.matrix * a) \div gfx.h]
           /\ d.break < NEWLINE
  <2>1. /\ DrawnAt(n, b).tm = n.tm /\ DrawnAt(n, b).scale = n.scale
        /\ DrawnAt(n, b).matrix = n.matrix /\ DrawnAt(n, b).text.va = b
        /\ DrawnAt(n, b).drawX = r.tx /\ DrawnAt(n, b).drawY = r.ty
    <3>1. n.text \in TextType
      BY <1>2 DEF RType
    <3> QED
      BY <1>2, <3>1 DEF DrawnAt, RType, TextType
  <2>2. /\ a \in Int /\ b = YOf(n, r.ty) - YOf(r, r.drawY)
        /\ n.matrix = 1 \/ n.tm.x = r.tm.x => a = XOf(n, r.tx) - XOf(r, r.drawX)
    BY <1>2, <1>3, <1>4, <1>8, ShiftIs
  <2>3. XOf(DrawnAt(n, b), r.tx) = XOf(n, r.tx) /\ YOf(DrawnAt(n, b), r.ty) = YOf(n, r.ty)
    BY <2>1 DEF XOf, YOf
  <2>4. c.break < NEWLINE /\ (c.break = NONE => b = 0)
    BY <1>8 DEF NONE, NEWSTATE, NEWLINE
  <2>5. c.offset = a
    <3>1. c.merged
      BY <1>8
    <3>2. page.open
      BY <3>1, CheckFacts
    <3>3. page.matrix = gfx.h
      BY <1>2, <1>5, <1>8, <3>2
    <3>4. (gfx.h * a) \div gfx.h = a
      <4>1. (a * gfx.h) \div gfx.h = a
        BY <1>5, <2>2, Exact
      <4>2. a * gfx.h = gfx.h * a
        BY <1>5, <2>2, SMT DEF Pos
      <4> QED
        BY <4>1, <4>2
    <3> QED
      BY <1>8, <3>3, <3>4
  <2>6. ~Misjudged => a = XOf(n, r.tx) - XOf(r, r.drawX)
    <3>1. SUFFICES ASSUME ~Misjudged PROVE n.matrix = 1 \/ n.tm.x = r.tm.x
      BY <2>2
    <3>2. c.merged /\ c.new.tm.x = n.tm.x
      BY <1>8, <2>1
    <3> QED
      BY <1>5, <3>1, <3>2 DEF Misjudged
  <2>7. c.break < NEWLINE /\ c.merged /\ c.new = DrawnAt(n, b)
    BY <1>8, <2>4
  <2>8. MovesAlong(c)
    BY <1>2, <1>8, <2>1, <2>2, <2>3, <2>4, <2>5, <2>6, <2>7 DEF MovesAlong
  <2>9. Even(c.new) /\ c.new.tm = TextTm(gfx)
    BY <1>2, <2>1, <2>7 DEF Even
  <2> QED
    BY <2>8, <2>9
<1>9. d.break >= NEWLINE <=> ~(d.break < NEWLINE)
  BY <1>2 DEF NONE, NEWSTATE, NEWLINE, NEWCLIP
<1> QED
  BY <1>1, <1>4, <1>6, <1>7, <1>8, <1>9 DEF CheckStateChange, Checked

-----------------------------------------------------------------------------
(* The line is made ready.                                                 *)

\* What the helpers of a page do to the pen.
LEMMA OffsetMoves ==
  ASSUME NEW p \in PageType, NEW w \in Int
  PROVE  /\ AppendOffset(p, w).pen = p.pen + w /\ AppendOffset(p, w).base = p.base
         /\ AppendOffset(p, w).origin = p.origin /\ AppendOffset(p, w).matrix = p.matrix
BY DEF AppendOffset, PageType

LEMMA StateMoves ==
  ASSUME NEW p \in PageType, NEW t \in TextType
  PROVE  /\ AppendState(p, t).base = p.base + t.va /\ AppendState(p, t).pen = p.pen
         /\ AppendState(p, t).origin = p.origin /\ AppendState(p, t).matrix = p.matrix
BY DEF AppendState, PageType

LEMMA OpenLineMoves ==
  ASSUME NEW p \in PageType, NEW c
  PROVE  LET q == OpenLine(p, c)
         IN /\ q.pen = 0 /\ q.base = 0 /\ q.matrix = c.new.matrix
            /\ q.origin = <<PageX(gfx), PageY(gfx)>>
<1>1. PICK k : k = IF p.open /\ c.break < NEWCLIP THEN p ELSE ClipPage(p, c.new.clip)
  OBVIOUS
<1>2. {"pen", "base", "matrix", "origin", "open", "lines"} \subseteq DOMAIN k
  <2>1. PICK a, b : \/ k = p \/ k = [p EXCEPT !.clips[a].clip = b] \/ k = [p EXCEPT !.clips = b]
    BY <1>1 DEF ClipPage
  <2>2. DOMAIN p = {"open", "lines", "clips", "origin", "matrix", "pen", "base", "style"}
    BY DEF PageType
  <2>3. DOMAIN k = DOMAIN p
    BY <2>1
  <2> QED
    BY <2>2, <2>3
<1> QED
  BY <1>1, <1>2 DEF OpenLine

\* The position of the PDF in the terms of the text matrix.
LEMMA PagePlace ==
  ASSUME NEW g \in GfxType, NEW n, n.tm = TextTm(g)
  PROVE  XOf(n, g.cur) = PageX(g) /\ YOf(n, g.line[2]) = PageY(g)
<1>1. PICK s \in Int : s = PageScale(g)
  BY DEF PageScale, GfxType, Pos
<1>2. PICK ctm, a, b, cur, y, rise \in Int :
         /\ ctm = g.ctm /\ a = g.tm[2] /\ b = g.tm[3] /\ cur = g.cur /\ y = g.line[2]
         /\ rise = g.rise
  <2>1. /\ g.ctm \in Int /\ g.tm[2] \in Int /\ g.tm[3] \in Int /\ g.cur \in Int
        /\ g.line[2] \in Int /\ g.rise \in Int
    BY DEF GfxType, Pos
  <2> QED
    BY <2>1
<1>3. n.tm.sy = s /\ n.tm.x = ctm * a /\ n.tm.y = s * rise + ctm * b
  BY <1>1, <1>2 DEF TextTm
<1>4. PageX(g) = s * cur + ctm * a /\ PageY(g) = s * (y + rise) + ctm * b
  BY <1>1, <1>2 DEF PageX, PageY
<1>5. PICK q \in Int : q = ctm * b
  OBVIOUS
<1>6. s * y + (s * rise + q) = s * (y + rise) + q
  OBVIOUS
<1> QED
  BY <1>2, <1>3, <1>4, <1>5, <1>6 DEF XOf, YOf

\* A line that is ready has the pen where the renderer draws next, and unless it
\* is adrift that is where the renderer takes the PDF to be.
Ready(new, p) ==
  /\ Even(new) /\ new.tm = TextTm(gfx) /\ new.drawX = r.tx /\ new.drawY = r.ty /\ new.ty = r.ty
  /\ PenAt(p, new, Astray(p))

LEMMA PreparePlaces ==
  ASSUME TextStateAssumption, Core, adrift \in Drift, PlaceInv,
         NEW new, new = PrepareTextLine[1], NEW p, p = PrepareTextLine[2]
  PROVE  Ready(new, p)
<1>1. PICK c : c = CheckStateChange
  OBVIOUS
<1>2. /\ c.new \in RType /\ Even(c.new) /\ c.new.tm = TextTm(gfx) /\ c.offset \in Int
      /\ Stays(c) \/ MovesAlong(c) \/ c.break >= NEWLINE
      /\ c.break \in {NONE, NEWSTATE, NEWLINE, NEWCLIP} /\ c.new.ty = r.ty
      /\ ~page.open => ~c.merged /\ c.break = NEWCLIP
  <2>1. page.open => page.matrix = r.matrix
    BY DEF PlaceInv, PenAt
  <2> QED
    BY <1>1, <2>1, CheckPlaces, CheckFacts DEF PlaceInv
<1>3. /\ r \in RType /\ page \in PageType /\ gfx \in GfxType
      /\ r.tx \in Int /\ r.ty \in Int /\ r.drawX \in Int /\ r.drawY \in Int
  BY DEF Core, Types, RType
<1>4. PICK moved : moved = IF c.merged THEN AppendOffset(page, c.offset) ELSE page
  OBVIOUS
<1>5. moved \in PageType /\ moved.open = page.open /\ moved.lines = page.lines
  BY <1>2, <1>3, <1>4, OffsetKeeps
<1>6. CASE c.break >= NEWLINE \/ ~page.open
  <2>1. PICK q : q = OpenLine(moved, c)
    OBVIOUS
  <2>2. new = DrawnAt(c.new, 0) /\ p = AppendState(q, new.text)
    BY <1>1, <1>4, <1>6, <2>1 DEF PrepareTextLine, Prepared
  <2>3. /\ new.tm = c.new.tm /\ new.scale = c.new.scale /\ new.matrix = c.new.matrix
        /\ new.drawX = r.tx /\ new.drawY = r.ty /\ new.text.va = 0 /\ new.text \in TextType
        /\ new.ty = c.new.ty
    <3>1. PICK n : n = c.new
      OBVIOUS
    <3>2. n.text \in TextType /\ n \in RType
      BY <1>2, <3>1 DEF RType
    <3>3. new = [n EXCEPT !.text.va = 0, !.drawX = r.tx, !.drawY = r.ty]
      BY <2>2, <3>1 DEF DrawnAt
    <3> QED
      BY <3>1, <3>2, <3>3 DEF RType, TextType
  <2>4. /\ q.pen = 0 /\ q.base = 0 /\ q.matrix = new.matrix
        /\ q.origin = <<PageX(gfx), PageY(gfx)>>
    BY <1>5, <2>1, <2>3, OpenLineMoves
  <2>5. q \in PageType /\ q.lines = Append(page.lines, gfx.clip)
    <3>1. p.clips = p.clips /\ moved.clips = page.clips
      BY <1>2, <1>3, <1>4, OffsetKeeps
    <3> QED
      BY <1>1, <1>5, <2>1, <3>1, OpenLineFacts
  <2>6. /\ p.base = 0 /\ p.pen = 0 /\ p.origin = <<PageX(gfx), PageY(gfx)>>
        /\ p.matrix = new.matrix /\ p.lines # page.lines
    <3>1. p.base = q.base + new.text.va /\ p.pen = q.pen /\ p.origin = q.origin /\ p.matrix = q.matrix
      BY <2>2, <2>3, <2>5, StateMoves
    <3>2. p.lines = q.lines
      BY <2>2, <2>3, <2>5, StateKeeps
    <3>3. page.lines \in Seq(Pos) /\ gfx.clip \in Pos
      BY <1>3 DEF PageType, GfxType
    <3>4. Append(page.lines, gfx.clip) # page.lines
      <4>1. Len(Append(page.lines, gfx.clip)) = Len(page.lines) + 1 /\ Len(page.lines) \in Nat
        BY <3>3
      <4> QED
        BY <4>1
    <3> QED
      BY <2>3, <2>4, <2>5, <3>1, <3>2, <3>4
  <2>7. XOf(new, gfx.cur) = PageX(gfx) /\ YOf(new, gfx.line[2]) = PageY(gfx)
    BY <1>2, <1>3, <2>3, PagePlace DEF PlaceInv
  <2>8. Astray(p) = adrift.text /\ r.ty = gfx.line[2] /\ (~adrift.text => r.tx = gfx.cur)
    BY <2>6 DEF Astray, PlaceInv, Following
  <2>9. PageX(gfx) \in Int /\ PageY(gfx) \in Int
    BY <2>4, <2>5 DEF PageType
  <2>10. PenAt(p, new, Astray(p))
    BY <2>3, <2>6, <2>7, <2>8, <2>9 DEF PenAt
  <2> QED
    BY <1>2, <2>3, <2>10 DEF Ready, Even
<1>7. CASE ~(c.break >= NEWLINE \/ ~page.open)
  <2>1. PICK n, rest, across, q :
          /\ n = c.new /\ rest = (r.tx - n.drawX) * n.scale /\ across = page.matrix * rest
          /\ q = AppendOffset(moved, across)
    OBVIOUS
  <2>2. /\ new = [n EXCEPT !.drawX = r.tx]
        /\ p = IF c.break # NONE THEN AppendState(q, new.text) ELSE q
    <3>1. new = DrawnAlong(c.new)
      BY <1>1, <1>7 DEF PrepareTextLine, Prepared
    <3>2. p = IF c.break # NONE THEN AppendState(q, DrawnAlong(c.new).text) ELSE q
      BY <1>1, <1>4, <1>7, <2>1 DEF PrepareTextLine, Prepared
    <3> QED
      BY <2>1, <3>1, <3>2 DEF DrawnAlong
  <2>3. /\ new.tm = n.tm /\ new.scale = n.scale /\ new.matrix = n.matrix /\ new.text = n.text
        /\ new.drawX = r.tx /\ new.drawY = n.drawY /\ n.text \in TextType /\ n \in RType
        /\ new.ty = n.ty
    BY <1>2, <2>1, <2>2 DEF RType
  <2>4. /\ n.drawX \in Int /\ n.drawY \in Int /\ n.scale \in Int /\ n.text.va \in Int
    BY <1>2, <2>1, <2>3 DEF RType, TextType, Pos
  <2>5. n.drawX = r.tx /\ n.matrix = r.matrix
    BY <1>2, <1>7, <2>1 DEF PlaceInv, Drawn, Stays, MovesAlong
  <2>6. across = 0
    <3>1. rest = 0 /\ page.matrix \in Int
      BY <1>3, <2>1, <2>4, <2>5 DEF PageType
    <3> QED
      BY <2>1, <3>1
  <2>7. q \in PageType /\ q.lines = page.lines
    BY <1>5, <2>1, <2>6, OffsetKeeps
  <2>8. /\ q.pen = moved.pen + across /\ q.base = moved.base
        /\ q.origin = moved.origin /\ q.matrix = moved.matrix
    BY <1>5, <2>1, <2>6, OffsetMoves
  <2>9. /\ moved.pen = page.pen + (IF c.merged THEN c.offset ELSE 0)
        /\ moved.base = page.base /\ moved.origin = page.origin /\ moved.matrix = page.matrix
    <3>1. page.pen \in Int
      BY <1>3 DEF PageType
    <3> QED
      BY <1>2, <1>3, <1>4, <3>1, OffsetMoves
  <2>10. /\ p.pen = q.pen /\ p.origin = q.origin /\ p.matrix = q.matrix /\ p.lines = page.lines
         /\ p.base = q.base + (IF c.break # NONE THEN n.text.va ELSE 0)
    <3>1. q.base \in Int
      BY <2>7 DEF PageType
    <3>2. CASE c.break # NONE
      BY <2>2, <2>3, <2>7, <3>2, StateMoves, StateKeeps
    <3>3. CASE c.break = NONE
      BY <2>2, <2>7, <3>1, <3>3
    <3> QED
      BY <3>2, <3>3
  <2>11. /\ PenAt(page, r, adrift.line) /\ Drawn
         /\ ~Astray(p) => ~adrift.line /\ ~Misjudged
    BY <1>7, <2>10 DEF PlaceInv, Astray
  <2>12. PICK o, u, m, b \in Int :
           o = page.origin[1] /\ u = page.origin[2] /\ m = page.pen /\ b = page.base
    <3>1. page.origin[1] \in Int /\ page.origin[2] \in Int /\ page.pen \in Int /\ page.base \in Int
      BY <1>3 DEF PageType
    <3> QED
      BY <3>1
  <2>13. /\ u + b = YOf(r, r.drawY) /\ (~adrift.line => o + m = XOf(r, r.drawX))
         /\ p.matrix = r.matrix /\ p.origin[1] = o /\ p.origin[2] = u
    BY <2>8, <2>9, <2>10, <2>11, <2>12 DEF PenAt
  <2>14. /\ XOf(r, r.drawX) \in Int /\ YOf(r, r.drawY) \in Int
         /\ XOf(n, r.tx) \in Int /\ YOf(n, r.ty) \in Int
    BY <1>3, <2>3, PlacesType
  <2>15. XOf(new, r.tx) = XOf(n, r.tx) /\ YOf(new, n.drawY) = YOf(n, n.drawY)
    BY <2>3 DEF XOf, YOf
  <2>16. p.pen = m + (IF c.merged THEN c.offset ELSE 0)
         /\ p.base = b + (IF c.break # NONE THEN n.text.va ELSE 0)
    <3>1. p.pen = m + (IF c.merged THEN c.offset ELSE 0) + 0
      BY <2>6, <2>8, <2>9, <2>10, <2>12
    <3>2. p.base = b + (IF c.break # NONE THEN n.text.va ELSE 0)
      BY <2>8, <2>9, <2>10, <2>12
    <3> QED
      BY <1>2, <2>12, <3>1, <3>2
  <2>17. CASE Stays(c)
    <3>1. /\ n.tm = r.tm /\ n.drawX = r.drawX /\ n.drawY = r.drawY /\ n.text.va = 0
          /\ ~c.merged /\ r.drawX = r.tx /\ r.drawY = r.ty
      BY <2>1, <2>11, <2>17 DEF Stays, Drawn
    <3>2. p.pen = m /\ p.base = b
      BY <2>12, <2>16, <3>1
    <3>3. XOf(n, r.tx) = XOf(r, r.drawX) /\ YOf(n, n.drawY) = YOf(r, r.drawY)
      BY <3>1 DEF XOf, YOf
    <3>4. PenAt(p, new, Astray(p))
      BY <2>3, <2>5, <2>11, <2>13, <2>15, <3>2, <3>3 DEF PenAt
    <3> QED
      BY <1>2, <2>1, <2>3, <3>1, <3>4 DEF Ready, Even
  <2>18. CASE MovesAlong(c)
    <3>1. /\ n.drawX = r.tx /\ n.drawY = r.ty /\ c.merged
          /\ ~Misjudged => c.offset = XOf(n, r.tx) - XOf(r, r.drawX)
          /\ n.text.va = YOf(n, r.ty) - YOf(r, r.drawY)
          /\ c.break = NONE => n.text.va = 0
      BY <2>1, <2>18 DEF MovesAlong
    <3>2. p.pen = m + c.offset /\ p.base = b + n.text.va
      BY <2>12, <2>16, <3>1
    <3>3. /\ ~Astray(p) => o + (m + c.offset) = XOf(n, r.tx)
          /\ u + (b + n.text.va) = YOf(n, r.ty)
      BY <2>11, <2>13, <2>14, <3>1
    <3>4. PenAt(p, new, Astray(p))
      BY <2>3, <2>5, <2>13, <2>15, <3>1, <3>2, <3>3 DEF PenAt
    <3> QED
      BY <1>2, <2>1, <2>3, <3>1, <3>4 DEF Ready, Even
  <2> QED
    BY <1>2, <1>7, <2>17, <2>18
<1> QED
  BY <1>6, <1>7

-----------------------------------------------------------------------------
(* A string is shown.                                                      *)

\* The pen moves in the line as far as the PDF moves on the page.
LEMMA WrittenIs ==
  ASSUME TextStateAssumption, gfx \in GfxType, NEW new \in RType, Current(new), Even(new),
         new.tm = TextTm(gfx), NEW c \in Strings
  PROVE  /\ Advance(gfx, c) \in Int
         /\ new.matrix * Written(new, c) = new.tm.sy * Advance(gfx, c)
<1>1. PICK s, z, tc, tw, h \in Int :
        s = new.tm.sy /\ z = gfx.size /\ tc = gfx.tc /\ tw = gfx.tw /\ h = gfx.h
  <2>1. new.tm.sy \in Int /\ gfx.size \in Int /\ gfx.tc \in Int /\ gfx.tw \in Int /\ gfx.h \in Int
    BY DEF GfxType, RType, TmType, Pos
  <2> QED
    BY <2>1
<1>2. /\ new.scale = s /\ new.fontSize = z /\ new.text.size = z * s
      /\ new.text.ls = tc * s /\ new.text.ws = tw * s
  BY <1>1 DEF Current, Even
<1>3. PICK a, b, e \in Int : a = z * s /\ b = tc * s /\ e = tw * s
  OBVIOUS
<1>4. PICK u \in Int : u = CHAR_WIDTH * z + tc + (IF c.code32 THEN tw ELSE 0)
  BY DEF CHAR_WIDTH
<1>5. Advance(gfx, c) = u * h
  BY <1>1, <1>4 DEF Advance
<1>6. /\ s * (CHAR_WIDTH * z + tc + tw) = CHAR_WIDTH * a + b + e
      /\ s * (CHAR_WIDTH * z + tc + 0) = CHAR_WIDTH * a + b
      /\ (CHAR_WIDTH * z + tc + tw) * s = CHAR_WIDTH * a + b + e
      /\ CHAR_WIDTH * a \in Int
  BY <1>3, SMT DEF CHAR_WIDTH
<1>7. Written(new, c) = s * u
  <2>1. CASE c.code32 /\ SpaceAsOffset
    <3>1. Written(new, c) = (CHAR_WIDTH * z + tc + tw) * s
      BY <1>1, <1>2, <2>1 DEF Written
    <3> QED
      BY <1>4, <1>6, <2>1, <3>1
  <2>2. CASE c.code32 /\ ~SpaceAsOffset
    <3>1. CASE c.space
      <4>1. Written(new, c) = CHAR_WIDTH * a + b + e
        BY <1>2, <1>3, <2>2, <3>1 DEF Written
      <4> QED
        BY <1>4, <1>6, <2>2, <4>1
    <3>2. CASE ~c.space
      <4>1. Written(new, c) = (CHAR_WIDTH * a + b + 0) + e * 1
        BY <1>1, <1>2, <1>3, <2>2, <3>2 DEF Written
      <4> QED
        BY <1>3, <1>4, <1>6, <2>2, <4>1
    <3> QED
      BY <3>1, <3>2
  <2>3. CASE ~c.code32
    <3>1. CASE c.space
      <4>1. Written(new, c) = (CHAR_WIDTH * a + b + e) + e * (-1)
        BY <1>1, <1>2, <1>3, <2>3, <3>1 DEF Written
      <4> QED
        BY <1>3, <1>4, <1>6, <2>3, <4>1
    <3>2. CASE ~c.space
      <4>1. c.code32 = c.space
        BY <2>3, <3>2 DEF TextStateAssumption
      <4>2. Written(new, c) = CHAR_WIDTH * a + b + 0
        BY <1>2, <1>3, <2>3, <3>2, <4>1 DEF Written
      <4> QED
        BY <1>3, <1>4, <1>6, <2>3, <4>2
    <3> QED
      BY <3>1, <3>2
  <2> QED
    BY <2>1, <2>2, <2>3
<1>8. new.matrix = h
  BY <1>1, MatrixIs
<1>9. h * (s * u) = s * (u * h) /\ u * h \in Int
  BY <1>1, <1>4, SMT
<1> QED
  BY <1>1, <1>5, <1>7, <1>8, <1>9

LEMMA ShowPlaces ==
  ASSUME TextStateAssumption, Core, adrift \in Drift, PlaceInv, NEW c \in Strings, Show(c)
  PROVE  PlaceInv'
<1>1. gfx \in GfxType /\ gfx' = [gfx EXCEPT !.cur = @ + Advance(gfx, c)]
  BY DEF Core, Types, Show
<1>2. gfx'.line = gfx.line /\ gfx'.cur = gfx.cur + Advance(gfx, c)
  BY <1>1 DEF GfxType
<1>3. CASE gfx.font \in Images
  <2>1. /\ r' = r /\ changed' = changed /\ page' = page /\ shown' = shown /\ meant' = meant
        /\ adrift' = [adrift EXCEPT !.text = TRUE]
    BY <1>3 DEF Show
  <2>2. adrift'.text /\ adrift'.line = adrift.line /\ adrift'.shown = adrift.shown
    BY <2>1, DriftType
  <2>3. Even(r)' /\ Following' /\ PlaceKept'
    BY <1>2, <2>1, <2>2 DEF PlaceInv, Even, Following, PlaceKept
  <2>4. page'.open => PenAt(page, r, adrift.line)' /\ Drawn'
    BY <2>1, <2>2 DEF PlaceInv, PenAt, XOf, YOf, Drawn, Marked
  <2> QED
    BY <2>3, <2>4 DEF PlaceInv
<1>4. CASE gfx.font \notin Images
  <2>1. PICK new, p, adv : new = PrepareTextLine[1] /\ p = PrepareTextLine[2] /\ adv = Advance(gfx, c)
    OBVIOUS
  <2>2. PICK end : end = p.pen + p.matrix * Written(new, c)
    OBVIOUS
  <2>3. /\ r' = [new EXCEPT !.tx = @ + adv, !.drawX = @ + adv]
        /\ page' = [p EXCEPT !.pen = end]
        /\ shown'.x = p.origin[1] + p.pen /\ shown'.end = p.origin[1] + end
        /\ shown'.y = p.origin[2] + p.base
        /\ meant'.x = PageX(gfx) /\ meant'.end = PageX(gfx') /\ meant'.y = PageY(gfx)
        /\ adrift' = [adrift EXCEPT !.line = Astray(p), !.shown = adrift.text \/ Astray(p)]
    BY <1>4, <2>1, <2>2 DEF Show, Write
  <2>4. /\ new \in RType /\ Current(new) /\ new.tx = r.tx /\ p \in PageType
        /\ Ready(new, p)
    BY <2>1, PrepareFacts, PreparePlaces
  <2>5. adv \in Int /\ new.matrix * Written(new, c) = new.tm.sy * adv
    BY <1>1, <2>1, <2>4, WrittenIs DEF Ready
  <2>6. /\ adrift.text \in BOOLEAN /\ Astray(p) \in BOOLEAN
        /\ adrift'.text = adrift.text /\ adrift'.line = Astray(p)
        /\ adrift'.shown = (adrift.text \/ Astray(p))
    <3>1. adrift.text \in BOOLEAN /\ adrift.line \in BOOLEAN
      BY DriftType
    <3>2. PICK x, y : x = Astray(p) /\ y = (adrift.text \/ x)
      OBVIOUS
    <3>3. x \in BOOLEAN /\ y \in BOOLEAN
      <4>1. Misjudged \in BOOLEAN
        BY DEF Misjudged
      <4> QED
        BY <3>1, <3>2, <4>1 DEF Astray
    <3>4. adrift' = [adrift EXCEPT !.line = x, !.shown = y]
      BY <2>3, <3>2
    <3>5. PICK a : a = [adrift EXCEPT !.line = x, !.shown = y]
      OBVIOUS
    <3>6. a.text = adrift.text /\ a.line = x /\ a.shown = y
      BY <3>5, Zenon DEF Drift
    <3> QED
      BY <3>1, <3>2, <3>3, <3>4, <3>5, <3>6
  <2>7. /\ r'.tx = r.tx + adv /\ r'.drawX = r.tx + adv /\ r'.ty = r.ty /\ r'.drawY = r.ty
        /\ r'.tm = new.tm /\ r'.scale = new.scale /\ r'.matrix = new.matrix
    BY <2>3, <2>4 DEF RType, Ready
  <2>8. /\ page'.pen = end /\ page'.origin = p.origin /\ page'.base = p.base
        /\ page'.matrix = p.matrix
    BY <2>3, <2>4 DEF PageType
  <2>9. PICK o, pen, x, k \in Int :
           o = p.origin[1] /\ pen = p.pen /\ x = XOf(new, r.tx) /\ k = new.tm.sy * adv
    <3>1. r.tx \in Int /\ new.tm.sy \in Int
      BY <2>4 DEF Core, Types, RType, TmType, Pos
    <3>2. XOf(new, r.tx) \in Int /\ new.tm.sy * adv \in Int
      BY <2>4, <2>5, <3>1, PlacesType
    <3>3. p.origin[1] \in Int /\ p.pen \in Int
      BY <2>4 DEF PageType
    <3> QED
      BY <3>2, <3>3
  <2>10. XOf(new, r.tx + adv) = x + k
    <3>1. PICK s, t, b \in Int : s = new.tm.sy /\ t = r.tx /\ b = new.tm.x
      <4>1. new.tm.sy \in Int /\ r.tx \in Int /\ new.tm.x \in Int
        BY <2>4 DEF Core, Types, RType, TmType, Pos
      <4> QED
        BY <4>1
    <3>2. s * (t + adv) = s * t + s * adv
      <4>1. adv \in Int
        BY <2>5
      <4> QED
        BY <4>1, Spread
    <3>3. s * t \in Int /\ s * adv \in Int
      BY <2>5, <3>1
    <3> QED
      BY <2>9, <3>1, <3>2, <3>3 DEF XOf
  <2>11. /\ p.matrix = new.matrix /\ p.origin[2] + p.base = YOf(new, r.ty)
         /\ ~Astray(p) => o + pen = x
    BY <2>4, <2>9 DEF Ready, PenAt
  <2>12. end = pen + k
    BY <2>2, <2>5, <2>9, <2>11
  <2>13. PenAt(page, r, adrift.line)'
    <3>1. XOf(r', r'.drawX) = x + k /\ YOf(r', r'.drawY) = YOf(new, r.ty)
      BY <2>7, <2>10 DEF XOf, YOf
    <3>2. /\ page'.matrix = r'.matrix /\ page'.origin[2] + page'.base = YOf(r', r'.drawY)
      BY <2>7, <2>8, <2>11, <3>1
    <3>3. ~adrift'.line => page'.origin[1] + page'.pen = XOf(r', r'.drawX)
      BY <2>6, <2>8, <2>9, <2>11, <2>12, <3>1
    <3> QED
      BY <3>2, <3>3 DEF PenAt, XOf, YOf
  <2>14. Even(r)' /\ Following'
    <3>1. Following'
      BY <1>2, <2>1, <2>6, <2>7 DEF PlaceInv, Following
    <3>2. Even(r)'
      BY <2>4, <2>7 DEF Ready, Even
    <3> QED
      BY <3>1, <3>2
  <2>15. PlaceKept'
    <3>1. SUFFICES ASSUME ~adrift'.shown
                   PROVE  shown'.x = meant'.x /\ shown'.end = meant'.end /\ shown'.y = meant'.y
      BY DEF PlaceKept
    <3>2. r.tx = gfx.cur /\ r.ty = gfx.line[2] /\ o + pen = x
      BY <2>6, <2>11, <3>1 DEF PlaceInv, Following
    <3>3. XOf(new, gfx.cur) = PageX(gfx) /\ YOf(new, gfx.line[2]) = PageY(gfx)
      BY <1>1, <2>4, PagePlace DEF Ready
    <3>4. PageX(gfx') = XOf(new, r.tx + adv)
      <4>1. PICK g, cur : g = [gfx EXCEPT !.cur = cur] /\ cur = gfx.cur + adv
        OBVIOUS
      <4>2. cur \in Int
        BY <1>1, <2>5, <4>1 DEF GfxType
      <4>3. g \in GfxType /\ g.cur = cur /\ gfx' = g
        BY <1>1, <2>1, <4>1, <4>2 DEF GfxType
      <4>4. TextTm(g) = TextTm(gfx)
        BY <1>1, <4>1 DEF GfxType, TextTm, PageScale
      <4>5. XOf(new, g.cur) = PageX(g)
        BY <2>4, <4>3, <4>4, PagePlace DEF Ready
      <4> QED
        BY <3>2, <4>1, <4>3, <4>5
    <3>5. shown'.x = o + pen /\ shown'.end = o + (pen + k)
      BY <2>3, <2>9, <2>11, <2>12
    <3>6. o + (pen + k) = x + k
      BY <2>9, <3>2
    <3> QED
      BY <2>3, <2>9, <2>10, <2>11, <3>2, <3>3, <3>4, <3>5, <3>6
  <2>16. page'.open => PenAt(page, r, adrift.line)' /\ Drawn'
    BY <2>7, <2>13 DEF Drawn
  <2> QED
    BY <2>14, <2>15, <2>16 DEF PlaceInv
<1> QED
  BY <1>3, <1>4

-----------------------------------------------------------------------------
(* The other operators.                                                    *)

\* A callback moves the renderer to where the PDF is, or leaves both alone.
LEMMA UpdatePlaces ==
  ASSUME Core, adrift \in Drift, PlaceInv, NEW g, NEW flags, Update(g, flags),
         flags \cap {"all", "pos"} # {} => g.cur = g.line[1],
         flags \cap {"all", "pos"} = {} => g.cur = gfx.cur /\ g.line = gfx.line
  PROVE  PlaceInv'
<1>1. /\ gfx' = g /\ changed' = changed \cup flags /\ page' = page /\ shown' = shown
      /\ meant' = meant
      /\ r' = IF flags \cap {"all", "pos"} # {} THEN [r EXCEPT !.tx = g.line[1], !.ty = g.line[2]] ELSE r
  BY DEF Update
<1>2. /\ r'.tm = r.tm /\ r'.scale = r.scale /\ r'.matrix = r.matrix
      /\ r'.drawX = r.drawX /\ r'.drawY = r.drawY
  BY <1>1 DEF Core, Types, RType
<1>3. /\ adrift'.line = adrift.line /\ adrift'.shown = adrift.shown
      /\ adrift'.text <=> adrift.text /\ flags \cap {"all", "pos"} = {}
  <2>1. PICK x : x = (adrift.text /\ flags \cap {"all", "pos"} = {})
    OBVIOUS
  <2>2. x \in BOOLEAN
    BY <2>1
  <2>3. adrift' = [adrift EXCEPT !.text = @ /\ flags \cap {"all", "pos"} = {}]
    BY DEF Update
  <2>4. adrift' = [adrift EXCEPT !.text = x]
    BY <2>1, <2>3 DEF Drift
  <2>5. adrift'.text = x /\ adrift'.line = adrift.line /\ adrift'.shown = adrift.shown
    BY <2>2, <2>4 DEF Drift
  <2> QED
    BY <2>1, <2>5
<1>4. Even(r)' /\ PlaceKept' /\ PenAt(page, r, adrift.line)' = PenAt(page, r, adrift.line)
  <2>1. Even(r)'
    BY <1>2 DEF PlaceInv, Even
  <2>2. PlaceKept'
    BY <1>1, <1>3 DEF PlaceInv, PlaceKept
  <2>3. PenAt(page, r, adrift.line)' = PenAt(page, r, adrift.line)
    BY <1>1, <1>2, <1>3 DEF PenAt, XOf, YOf
  <2> QED
    BY <2>1, <2>2, <2>3
<1>5. CASE flags \cap {"all", "pos"} # {}
  <2>1. r'.tx = g.line[1] /\ r'.ty = g.line[2] /\ ~adrift'.text
    BY <1>1, <1>3, <1>5 DEF Core, Types, RType
  <2>2. Marked("pos")'
    BY <1>1, <1>5 DEF Marked
  <2> QED
    BY <1>1, <1>4, <1>5, <2>1, <2>2 DEF PlaceInv, Following, Drawn
<1>6. CASE flags \cap {"all", "pos"} = {}
  <2>1. r' = r /\ g.cur = gfx.cur /\ g.line = gfx.line /\ (adrift'.text <=> adrift.text)
    BY <1>1, <1>3, <1>6
  <2>2. Marked("pos") => Marked("pos")'
    BY <1>1 DEF Marked
  <2> QED
    BY <1>1, <1>4, <2>1, <2>2 DEF PlaceInv, Following, Drawn
<1> QED
  BY <1>5, <1>6

LEMMA OperatorPlaces ==
  ASSUME TextStateAssumption, Core, adrift \in Drift, PlaceInv,
         Td \/ Tm \/ Cm \/ Tf \/ Tc \/ Tw \/ Tz \/ Ts \/ Fill \/ Clip \/ TJ \/ Save \/ Restore
  PROVE  PlaceInv'
<1>1. gfx \in GfxType /\ saved \in GfxType
  BY DEF Core, Types
\* A callback that reports no move.
<1>2. ASSUME NEW g, NEW flags, Update(g, flags), flags \cap {"all", "pos"} = {},
             g.cur = gfx.cur, g.line = gfx.line
      PROVE  PlaceInv'
  BY <1>2, UpdatePlaces
\* A callback that does.
<1>3. ASSUME NEW g, NEW flags, Update(g, flags), "pos" \in flags, g.cur = g.line[1]
      PROVE  PlaceInv'
  BY <1>3, UpdatePlaces
<1>4. CASE Td
  <2>1. PICK x, y, g : g = [gfx EXCEPT !.line = <<x, y>>, !.cur = x] /\ Update(g, {"pos"})
    <3>1. PICK m \in Moves :
            Update([gfx EXCEPT !.line = <<gfx.line[1] + m[1], gfx.line[2] + m[2]>>,
                               !.cur = gfx.line[1] + m[1]], {"pos"})
      BY <1>4 DEF Td
    <3> QED
      BY <3>1
  <2>2. g.cur = g.line[1]
    BY <1>1, <2>1 DEF GfxType
  <2> QED
    BY <1>3, <2>1, <2>2
<1>5. CASE Tm
  <2>1. PICK m, g : /\ g = [gfx EXCEPT !.tm = m, !.line = <<0, 0>>, !.cur = 0]
                    /\ Update(g, {"text_mat", "pos"})
    BY <1>5 DEF Tm
  <2>2. g.cur = g.line[1]
    BY <1>1, <2>1 DEF GfxType
  <2> QED
    BY <1>3, <2>1, <2>2
<1>6. CASE Restore
  <2>1. PICK g : /\ g = [saved EXCEPT !.tm = <<1, 0, 0>>, !.line = <<0, 0>>, !.cur = 0]
                 /\ Update(g, {"all", "text_mat", "pos"})
    BY <1>6 DEF Restore
  <2>2. g.cur = g.line[1]
    BY <1>1, <2>1 DEF GfxType
  <2> QED
    BY <1>3, <2>1, <2>2
<1>7. CASE Cm \/ Tf \/ Tc \/ Tw \/ Tz \/ Ts \/ Fill \/ Clip
  <2>1. PICK g, flags :
          /\ Update(g, flags) /\ flags \cap {"all", "pos"} = {}
          /\ g.cur = gfx.cur /\ g.line = gfx.line
    <3>1. CASE Cm
      <4>1. PICK v, g : g = [gfx EXCEPT !.ctm = v] /\ Update(g, {"ctm"})
        BY <3>1 DEF Cm
      <4> QED
        BY <1>1, <4>1 DEF GfxType
    <3>2. CASE Tf
      <4>1. PICK f, s, g : g = [gfx EXCEPT !.font = f, !.size = s] /\ Update(g, {"font"})
        BY <3>2 DEF Tf
      <4>2. g.cur = gfx.cur /\ g.line = gfx.line
        BY <1>1, <4>1 DEF GfxType
      <4>3. {"font"} \cap {"all", "pos"} = {}
        OBVIOUS
      <4> QED
        BY <4>1, <4>2, <4>3, Zenon
    <3>3. CASE Tc
      <4>1. PICK v, g : g = [gfx EXCEPT !.tc = v] /\ Update(g, {"letter_space"})
        BY <3>3 DEF Tc
      <4> QED
        BY <1>1, <4>1 DEF GfxType
    <3>4. CASE Tw
      <4>1. PICK v, g : g = [gfx EXCEPT !.tw = v] /\ Update(g, {"word_space"})
        BY <3>4 DEF Tw
      <4> QED
        BY <1>1, <4>1 DEF GfxType
    <3>5. CASE Tz
      <4>1. PICK v, g : g = [gfx EXCEPT !.h = v] /\ Update(g, {"hori_scale"})
        BY <3>5 DEF Tz
      <4> QED
        BY <1>1, <4>1 DEF GfxType
    <3>6. CASE Ts
      <4>1. PICK v, g : g = [gfx EXCEPT !.rise = v] /\ Update(g, {"rise"})
        BY <3>6 DEF Ts
      <4> QED
        BY <1>1, <4>1 DEF GfxType
    <3>7. CASE Fill
      <4>1. PICK v, g : g = [gfx EXCEPT !.fill = v] /\ Update(g, {"fill_color"})
        BY <3>7 DEF Fill
      <4> QED
        BY <1>1, <4>1 DEF GfxType
    <3>8. CASE Clip
      <4>1. PICK v, g : g = [gfx EXCEPT !.clip = v] /\ Update(g, {"clip"})
        BY <3>8 DEF Clip
      <4> QED
        BY <1>1, <4>1 DEF GfxType
    <3> QED
      BY <1>7, <3>1, <3>2, <3>3, <3>4, <3>5, <3>6, <3>7, <3>8
  <2> QED
    BY <1>2, <2>1
<1>8. CASE TJ
  <2>1. PICK d : /\ gfx' = [gfx EXCEPT !.cur = @ - d] /\ r' = [r EXCEPT !.tx = @ - d]
                 /\ changed' = changed \cup {"pos"}
                 /\ UNCHANGED <<saved, page, shown, meant, adrift>>
    BY <1>8 DEF TJ
  <2>2. gfx'.line = gfx.line /\ gfx'.cur = gfx.cur - d
    BY <1>1, <2>1 DEF GfxType
  <2>3. /\ r'.tx = r.tx - d /\ r'.ty = r.ty /\ r'.drawX = r.drawX /\ r'.drawY = r.drawY
        /\ r'.tm = r.tm /\ r'.scale = r.scale /\ r'.matrix = r.matrix
    BY <2>1 DEF Core, Types, RType
  <2>4. Even(r)' /\ Following' /\ PlaceKept'
    BY <2>1, <2>2, <2>3 DEF PlaceInv, Even, Following, PlaceKept
  <2>5. page'.open => PenAt(page, r, adrift.line)'
    BY <2>1, <2>3 DEF PlaceInv, PenAt, XOf, YOf
  <2>6. Drawn'
    BY <2>1 DEF Marked, Drawn
  <2> QED
    BY <2>4, <2>5, <2>6 DEF PlaceInv
<1>9. CASE Save
  <2>1. saved' = gfx /\ UNCHANGED <<gfx, r, changed, page, shown, meant, adrift>>
    BY <1>9 DEF Save
  <2> QED
    BY <2>1 DEF PlaceInv, Even, Following, PlaceKept, PenAt, XOf, YOf, Drawn, Marked
<1> QED
  BY <1>4, <1>5, <1>6, <1>7, <1>8, <1>9

PlaceStart == PageStart /\ adrift = NotAdrift

LEMMA PageBeginsInPlace == PlaceStart => PlaceInv
BY DEF PlaceStart, PageStart, PlaceInv, NewGfx, ResetR, EmptyPage, NotAdrift, Even, Following,
       PlaceKept, Pos

LEMMA NextPageInPlace == PlaceStart' => PlaceInv'
<1> QED
  BY PageBeginsInPlace, PTL

LEMMA NextPlaces ==
  ASSUME TextStateAssumption, IInv, PlaceInv, [Next]_vars
  PROVE  PlaceInv'
<1>1. Core /\ adrift \in Drift
  BY DEF IInv
<1>2. CASE Operator
  <2>1. CASE Td \/ Tm \/ Cm \/ Tf \/ Tc \/ Tw \/ Tz \/ Ts \/ Fill \/ Clip \/ TJ \/ Save \/ Restore
    BY <1>1, <2>1, OperatorPlaces
  <2>2. CASE \E c \in Strings : Show(c)
    BY <1>1, <2>2, ShowPlaces
  <2> QED
    BY <1>2, <2>1, <2>2 DEF Operator
<1>3. CASE NextPage
  <2>1. PlaceStart'
    BY <1>3 DEF NextPage, PlaceStart, PageStart
  <2> QED
    BY <2>1, NextPageInPlace
<1>4. CASE UNCHANGED vars
  BY <1>4 DEF vars, PlaceInv, Even, Following, PlaceKept, PenAt, XOf, YOf, Drawn, Marked
<1> QED
  BY <1>2, <1>3, <1>4 DEF Next

\* Every string starts and ends in the HTML where the PDF puts it, on its
\* baseline, unless drawString left one to the background before it and the
\* position was not taken up again, or its line had a move that changed the
\* matrix's translation under horizontal scaling.
THEOREM Placed == ASSUME TextStateAssumption PROVE Spec => []PlaceKept
<1>1. Init => PlaceInv
  BY PageBeginsInPlace DEF Init, PlaceStart, PageStart
<1>2. IInv /\ PlaceInv /\ [Next]_vars => PlaceInv'
  BY NextPlaces
<1>3. PlaceInv => PlaceKept
  BY DEF PlaceInv
<1> QED
  BY <1>1, <1>2, <1>3, Invariant, PTL DEF Spec
=============================================================================
