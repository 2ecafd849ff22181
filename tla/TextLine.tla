----------------------------- MODULE TextLine -----------------------------
(***************************************************************************)
(* One line of text: HTMLTextLine collects characters, styles and offsets  *)
(* while a page is read, may trade offsets for letter and word spacing,    *)
(* and writes them as nested spans.  A browser that reads the spans        *)
(* (external) keeps the open elements and a pen; the properties compare    *)
(* where and how it shows each character with what was appended.           *)
(*                                                                         *)
(* Lengths are integers and EPS is exact equality; the class tables of     *)
(* letter and word spacing use EPS too, so an id is its value.  The five   *)
(* ids are font, size, letter space, word space and vertical alignment:    *)
(* the two colours are dropped, which keeps the order of the others and    *)
(* the byte of the hash that each mask really covers.                      *)
(*                                                                         *)
(* optimize_text is 0 or 1, the values of the manual.  At 3 optimize calls *)
(* the empty optimize_aggressive, which hands on no line: all text of the  *)
(* page is lost, and there is nothing left to model.                       *)
(***************************************************************************)
EXTENDS Integers, Sequences, SequencesExt, FiniteSets, FiniteSetsExt

CONSTANTS
  MaxChars,      \* bound: characters in a line
  Styles,        \* text states: <<font, size, letter space, word space, vertical align>>
  Widths,        \* widths of the offsets that the renderer appends
  CoveredSets,   \* sets of indices of covered characters
  Params,        \* values of <<param.optimize_text # 0, param.space_as_offset # 0>>
  HEps, VEps,    \* param.h_eps, param.v_eps
  HashClasses    \* values of one byte of a hash (256 in the code)

PAD == 0
LETTER == 1
SPACE == 2

ASSUME TextLineAssumption ==
  /\ MaxChars \in Nat /\ Params \subseteq BOOLEAN \X BOOLEAN
  /\ HEps \in Nat /\ VEps \in Nat /\ HashClasses \in Nat \ {0}
  /\ Widths \subseteq Int

FONT == 1
SIZE == 2
LS == 3
WS == 4
VA == 5
HashIds == FONT..WS
Ids == FONT..VA

ASSUME StylesAssumption == Styles \subseteq [Ids -> Int]

VARIABLES
  phase,     \* "fill", "optimize", "prepare", "dump", "closed"
  param,     \* <<optimize_text, space_as_offset>>
  covered,   \* indices that is_char_covered answers true for
  line,      \* text, states and offsets of the line
  k,         \* the state that the loop of the phase is at
  done,      \* offsets already consumed by the loop
  newOffsets,
  stack,     \* the states whose elements are open
  dx,        \* accumulated horizontal drift
  negAt,     \* last_text_pos_with_negative_offset
  at,        \* cur_text_idx
  tables,    \* class tables of vertical_align and whitespace
  html,      \* browser: open elements, innermost last
  pen,       \* browser: <<x, y>> of the next character
  shown,     \* browser: characters shown so far
  asked,     \* the characters as they were appended
  askedPen   \* where the next appended character goes

vars == <<phase, param, covered, line, k, done, newOffsets, stack, dx, negAt,
          at, tables, html, pen, shown, asked, askedPen>>
loopVars == <<k, done, newOffsets, stack, dx, negAt, at>>
browserVars == <<html, pen, shown>>
inputVars == <<param, covered, asked, askedPen>>

Abs(n) == IF n < 0 THEN -n ELSE n

\* The sum of the integers of a sequence.
Total(w) ==
  LET upTo[n \in 0..Len(w)] == IF n = 0 THEN 0 ELSE upTo[n - 1] + w[n] IN upTo[Len(w)]

\* The j-th least element of a set of integers.
Nth(S, j) == CHOOSE i \in S : Cardinality({d \in S : d <= i}) = j

-----------------------------------------------------------------------------
(* Metrics of the fonts (external): widths are in units of the font size.  *)
LETTER_WIDTH == 4
SPACE_WIDTH == 2
EmThreshold(ids) == ids[SIZE]                  \* em_size * space_threshold

CharAdvance(c, ids) ==
  CASE c = PAD    -> 0
    [] c = LETTER -> LETTER_WIDTH * ids[SIZE] + ids[LS]
    [] c = SPACE  -> SPACE_WIDTH * ids[SIZE] + ids[LS] + ids[WS]

SingleSpaceOffset(ids) == ids[WS] + ids[LS] + SPACE_WIDTH * ids[SIZE]

(* StateManager::install: the first class not below v - eps if it is       *)
(* within eps, otherwise a new class for v.                                *)
ClassFor(table, v, eps) ==
  LET near == {c \in table : Abs(c - v) <= eps}
  IN IF near = {} THEN v ELSE Min(near)

-----------------------------------------------------------------------------
(* Filling a line.                                                         *)
AppendChar(l, c) == [l EXCEPT !.text = Append(@, c)]

\* Offsets go right after the last character that is not padding.
AppendOffset(l, w) ==
  LET real == {i \in 1..Len(l.text) : l.text[i] # PAD}
      idx == IF real = {} THEN 0 ELSE Max(real)
      last == Len(l.offsets)
  IN IF last > 0 /\ l.offsets[last].start = idx
     THEN [l EXCEPT !.offsets[last].width = @ + w]
     ELSE [l EXCEPT !.offsets = Append(@, [start |-> idx, width |-> w])]

AppendState(l, style) ==
  LET new == [start |-> Len(l.text), ids |-> [style EXCEPT ![VA] = 0], va |-> style[VA],
              mask |-> {}, hash |-> <<>>, close |-> FALSE]
      kept == IF l.states # <<>> /\ Last(l.states).start = Len(l.text)
              THEN Front(l.states) ELSE l.states
  IN [l EXCEPT !.states = Append(kept, new)]

\* drawString: an offset and a state where the renderer found a change, then
\* one character.  A space that is drawn as an offset leaves a padding.
Draw(w, style, c) ==
  LET moved == IF w = 0 THEN line ELSE AppendOffset(line, w)
      styled == IF style = <<>> THEN moved ELSE AppendState(moved, style)
      ids == Last(styled.states).ids
      y == askedPen[2] + (IF style = <<>> THEN 0 ELSE style[VA])
      x == askedPen[1] + w
      drawn == AppendChar(styled, c)
  IN /\ line' = IF c = PAD THEN AppendOffset(drawn, SingleSpaceOffset(ids)) ELSE drawn
     /\ askedPen' = <<x + CharAdvance(IF c = PAD THEN SPACE ELSE c, ids), y>>
     /\ asked' = IF c = PAD THEN asked
                 ELSE Append(asked, [x |-> x, y |-> y, font |-> ids[FONT], size |-> ids[SIZE],
                                     hidden |-> Len(line.text) \in covered])

Fill ==
  /\ phase = "fill" /\ Len(line.text) < MaxChars
  /\ \E w \in Widths \cup {0}, style \in Styles \cup {<<>>},
        c \in {LETTER, IF param[2] THEN PAD ELSE SPACE} :
       /\ line.text = <<>> => style # <<>> /\ style[VA] = 0 /\ w = 0
       /\ Draw(w, style, c)
  /\ UNCHANGED <<phase, param, covered, tables, loopVars, browserVars>>

\* HTMLTextPage::dump_text: optimize every line if asked, then prepare it.
\* What is optimized has no states behind its last character.
Used == Max({i \in 0..Len(line.states) : i = 0 \/ line.states[i].start < Len(line.text)})
EndFill ==
  /\ phase = "fill" /\ line.text # <<>>
  /\ phase' = IF param[1] THEN "optimize" ELSE "prepare"
  /\ line' = IF param[1] THEN [line EXCEPT !.states = SubSeq(@, 1, Used)] ELSE line
  /\ k' = 1
  /\ UNCHANGED <<done, newOffsets, stack, dx, negAt, at, tables, browserVars, inputVars>>

-----------------------------------------------------------------------------
(* optimize_normal, one state at a time.                                   *)
StateEnd(i) == IF i = Len(line.states) THEN Len(line.text) ELSE line.states[i + 1].start
PassedOffsets(t) ==
  Max({j \in 0..Len(line.offsets) : \A q \in 1..j : line.offsets[q].start <= t})
OffsetsBefore(i) == IF i = 1 THEN SubSeq(line.offsets, 1, PassedOffsets(line.states[1].start)) ELSE <<>>
OwnOffsets(i) ==
  SubSeq(line.offsets, PassedOffsets(line.states[i].start) + 1, PassedOffsets(StateEnd(i)))
HasSpace(i) == \E t \in line.states[i].start..(StateEnd(i) - 1) : line.text[t + 1] = SPACE

\* width_map: how often a width follows a character of the state.
WidthCount(own, count, w) ==
  Cardinality({j \in 1..Len(own) : own[j].width = w})
    + (IF w = 0 THEN count - Len(own) ELSE 0)
WidthKeys(own, count) ==
  {own[j].width : j \in 1..Len(own)} \cup (IF count > Len(own) THEN {0} ELSE {})

\* The first, hence the smallest, of the widths that occur most often.
MostUsed(own, count, keys) ==
  Min({w \in keys : \A v \in keys : WidthCount(own, count, v) <= WidthCount(own, count, w)})

\* The offset after each character, given what letter space takes over.
Respaced(own, t1, t2, diff) ==
  LET widthAt(t) == LET here == {j \in 1..Len(own) : own[j].start = t}
                    IN diff + (IF here = {} THEN 0 ELSE own[Min(here)].width)
      moved == {t \in (t1 + 1)..t2 : widthAt(t) # 0}
  IN [j \in 1..Cardinality(moved) |->
        [start |-> Nth(moved, j), width |-> widthAt(Nth(moved, j))]]

\* The letter space and the offsets of state i after its optimisation.
LetterSpaced(i) ==
  LET ids == line.states[i].ids
      own == OwnOffsets(i)
      t1 == line.states[i].start
      count == StateEnd(i) - t1
      most == MostUsed(own, count, WidthKeys(own, count))
  IN IF /\ own # <<>>
        /\ WidthCount(own, count, most) > count \div 2
        /\ ids[LS] + most > 0
     THEN [ids |-> [ids EXCEPT ![LS] = @ + most], diff |-> -most,
           offsets |-> Respaced(own, t1, StateEnd(i), -most)]
     ELSE [ids |-> ids, diff |-> 0, offsets |-> own]

\* Without a space in the text, word space is set so that one space makes the
\* most used gap, or is left free where there is no gap at all.
FreeLetterSpace == {LS}  \* mutant: letter_space_umask
FreeWordSpace == {WS}
WordSpaced(i, spaced) ==
  LET own == OwnOffsets(i)
      count == StateEnd(i) - line.states[i].start
      gaps == {w \in WidthKeys(own, count) : w + spaced.diff >= EmThreshold(spaced.ids)}
      gap == IF gaps = {} THEN 0 ELSE MostUsed(own, count, gaps) + spaced.diff
      blank == [spaced.ids EXCEPT ![WS] = 0]
  IN IF HasSpace(i) THEN [ids |-> spaced.ids, mask |-> {}]
     ELSE IF spaced.offsets # <<>>
     THEN [ids |-> [blank EXCEPT ![WS] = gap - SingleSpaceOffset(blank)], mask |-> {}]
     ELSE [ids |-> spaced.ids, mask |-> FreeWordSpace]

OptimizeState ==
  /\ phase = "optimize" /\ k <= Len(line.states)
  /\ LET spaced == LetterSpaced(k)
         final == WordSpaced(k, spaced)
     IN /\ newOffsets' = newOffsets \o OffsetsBefore(k) \o spaced.offsets
        /\ line' = [line EXCEPT !.states[k].ids = final.ids, !.states[k].mask = final.mask]
  /\ k' = k + 1
  /\ UNCHANGED <<phase, done, stack, dx, negAt, at, tables, browserVars, inputVars>>

EndOptimize ==
  /\ phase = "optimize" /\ k > Len(line.states)
  /\ phase' = "prepare"
  /\ line' = [line EXCEPT !.offsets = newOffsets]
  /\ UNCHANGED <<loopVars, tables, browserVars, inputVars>>

-----------------------------------------------------------------------------
(* prepare and dump_text.                                                  *)
Prepare ==
  /\ phase = "prepare"
  /\ phase' = "dump"
  /\ line' = [line EXCEPT !.states = [i \in 1..Len(line.states) |->
                [line.states[i] EXCEPT
                  !.hash = [j \in Ids |-> line.states[i].ids[j] % HashClasses]]]]
  /\ k' = 1
  /\ UNCHANGED <<done, newOffsets, stack, dx, negAt, at, tables, browserVars, inputVars>>

\* State::diff.  The first id is in the highest byte of the hash and the mask
\* of the first id is the lowest byte, so a mask covers the byte of another id.
Diff(s, t) ==
  LET common == Ids \ (s.mask \cup t.mask)
  IN IF \A i \in common : s.hash[VA + 1 - i] = t.hash[VA + 1 - i] THEN 0
     ELSE Cardinality({i \in common : s.ids[i] # t.ids[i]})

\* The vertical alignment of s as a child of the p-th open state.
TotalAlign(seq) == Total([i \in 1..Len(seq) |-> seq[i].va])
AlignOn(s, p) == s.va + TotalAlign(SubSeq(stack, p + 1, Len(stack)))
Cost(s, p) == Diff(s, stack[p]) + (IF AlignOn(s, p) # 0 THEN 1 ELSE 0)

\* The open states that the search reaches: it cannot leave a span that may
\* hold a negative margin, nor does it pass a parent of cost 0.
ReachedPastMargins(s) ==  \* mutant: negative offsets do not stop the search
  {p \in 1..Len(stack) : \A q \in (p + 1)..Len(stack) : Cost(s, q) # 0}
Reached(s) ==
  {p \in 1..Len(stack) : \A q \in (p + 1)..Len(stack) : stack[q].start > negAt /\ Cost(s, q) # 0}
Parent(s) ==
  LET best == {p \in Reached(s) : \A q \in Reached(s) : Cost(s, p) <= Cost(s, q)}
  IN IF best # {} /\ Cost(s, Max(best)) <= Cardinality(HashIds) THEN Max(best) ELSE Len(stack)

\* State::begin: what a child of prev takes over, and the classes it writes.
Inherited(s, prev) ==
  LET from == {i \in s.mask : i \notin prev.mask}
  IN [s EXCEPT !.ids = [i \in Ids |-> IF i \in from THEN prev.ids[i] ELSE s.ids[i]],
               !.mask = @ \ from]
WrittenByHash(s, prev) ==  \* mutant: classes are compared by their hash
  {i \in HashIds \ s.mask : i \in prev.mask \/ s.hash[i] # prev.hash[i]}
Written(s, prev) == {i \in HashIds \ s.mask : i \in prev.mask \/ s.ids[i] # prev.ids[i]}

\* An open element (external): the classes it sets, its vertical alignment, and
\* the negative margins written in it, which last until it is closed.
Element(ids, set, va) == [class |-> [i \in set |-> ids[i]], va |-> va, margin |-> 0]

\* The elements inside the p-th open state, each to be closed by its own tag.
TopElementAbove(p) == IF Len(stack) > p /\ Last(stack).close THEN {Len(stack)} ELSE {}  \* mutant
ElementsAbove(p) == {q \in (p + 1)..Len(stack) : stack[q].close}

OffsetDue == done < Len(line.offsets) /\ line.offsets[done + 1].start <= at

TotalMargin(elements) == Total([i \in 1..Len(elements) |-> elements[i].margin])

\* The browser leaves the elements inside the p-th open state, and enters
\* element if the state opens one.
Enter(p, opens, element) ==
  LET kept == SubSeq(html, 1, Len(html) - Cardinality(ElementsAbove(p)))
      y == TotalAlign(kept) + element.va
  IN /\ html' = IF opens THEN Append(kept, element) ELSE kept
     /\ pen' = <<pen[1] - TotalMargin(SubSeq(html, Len(kept) + 1, Len(html))), y>>

\* State::begin for the state s inside the p-th open one; 0 is the line itself.
Begin(s, p, va, align) ==
  LET placed == [s EXCEPT !.va = va, !.ids[VA] = align]
      new == IF p = 0 THEN placed ELSE Inherited(placed, stack[p])
      set == IF p = 0 THEN HashIds \ s.mask ELSE Written(new, stack[p])
      opens == p = 0 \/ set # {} \/ va # 0
  IN /\ stack' = Append(SubSeq(stack, 1, p), [new EXCEPT !.close = p > 0 /\ opens])
     /\ Enter(p, opens, Element(new.ids, set, IF p > 0 /\ va # 0 THEN align ELSE 0))
     /\ tables' = [tables EXCEPT !.align = @ \cup {align}]

BeginState ==
  /\ phase = "dump" /\ k <= Len(line.states) /\ at = line.states[k].start
  /\ k > 1 => ~OffsetDue
  /\ LET s == line.states[k]
         p == IF stack = <<>> THEN 0 ELSE Parent(s)
         va == IF stack = <<>> THEN s.va ELSE AlignOn(s, p)
     IN Begin(s, p, va, ClassFor(tables.align, va, VEps))
  /\ k' = k + 1
  /\ UNCHANGED <<phase, line, done, newOffsets, dx, negAt, at, shown, inputVars>>

\* The rest of the state's loop: offsets at the current character come first.
Effective == [i \in HashIds |->
  LET set == {e \in 1..Len(html) : i \in DOMAIN html[e].class}
  IN IF set = {} THEN 0 ELSE html[Max(set)].class[i]]

EmitOffset ==
  /\ phase = "dump" /\ k > 1 /\ OffsetDue
  /\ LET target == line.offsets[done + 1].width + dx
         s == Last(stack)
         space == SingleSpaceOffset(s.ids)
         asSpace == WS \notin s.mask /\ Abs(target - space) <= HEps
         class == ClassFor(tables.space, target, HEps)
     IN \/ /\ Abs(target) <= HEps
           /\ dx' = target
           /\ UNCHANGED <<negAt, tables, html, pen>>
        \/ /\ Abs(target) > HEps /\ asSpace
           /\ dx' = target - space
           /\ pen' = [pen EXCEPT ![1] = @ + CharAdvance(SPACE, Effective)]
           /\ UNCHANGED <<negAt, tables, html>>
        \/ /\ Abs(target) > HEps /\ ~asSpace
           /\ dx' = target - class
           /\ negAt' = IF class < 0 THEN at ELSE negAt
           /\ tables' = [tables EXCEPT !.space = @ \cup {class}]
           /\ html' = [html EXCEPT ![Len(html)].margin = @ + Min({class, 0})]
           /\ pen' = [pen EXCEPT ![1] = @ + class]
  /\ done' = done + 1
  /\ UNCHANGED <<phase, line, k, newOffsets, stack, at, shown, inputVars>>

\* How far the pen moves over the characters from i up to j.
Advance(i, j, ids) == Total([n \in 1..(j - i) |-> CharAdvance(line.text[i + n], ids)])

EmitText ==
  /\ phase = "dump" /\ k > 1 /\ ~OffsetDue /\ at < StateEnd(k - 1)
  /\ LET end == IF done < Len(line.offsets)
                THEN Min({StateEnd(k - 1), line.offsets[done + 1].start}) ELSE StateEnd(k - 1)
         ids == Effective
         chars == {t \in at..(end - 1) : line.text[t + 1] # PAD}
         glyph(t) == [x |-> pen[1] + Advance(at, t, ids), y |-> pen[2], font |-> ids[FONT],
                      size |-> ids[SIZE], hidden |-> t \in covered]
     IN /\ pen' = [pen EXCEPT ![1] = @ + Advance(at, end, ids)]
        /\ shown' = shown \o [j \in 1..Cardinality(chars) |-> glyph(Nth(chars, j))]
        /\ at' = end
  /\ UNCHANGED <<phase, line, k, done, newOffsets, stack, dx, negAt, tables, html, inputVars>>

\* The spans still open are closed, and then the line's own element.
Close ==
  /\ phase = "dump" /\ k > Len(line.states) /\ at = Len(line.text) /\ ~OffsetDue
  /\ phase' = "closed"
  /\ html' = SubSeq(html, 1, Len(html) - Cardinality(ElementsAbove(0)) - 1)
  /\ stack' = <<>>
  /\ UNCHANGED <<line, k, done, newOffsets, dx, negAt, at, tables, pen, shown, inputVars>>

Closed == phase = "closed" /\ UNCHANGED vars

Init ==
  /\ phase = "fill" /\ param \in Params /\ covered \in CoveredSets
  /\ line = [text |-> <<>>, states |-> <<>>, offsets |-> <<>>]
  /\ k = 1 /\ done = 0 /\ newOffsets = <<>> /\ stack = <<>> /\ dx = 0 /\ negAt = 0 /\ at = 0
  /\ tables = [align |-> {}, space |-> {}]
  /\ html = <<>> /\ pen = <<0, 0>> /\ shown = <<>>
  /\ asked = <<>> /\ askedPen = <<0, 0>>

Next ==
  \/ Fill \/ EndFill
  \/ OptimizeState \/ EndOptimize \/ Prepare
  \/ BeginState \/ EmitOffset \/ EmitText \/ Close \/ Closed

Spec == Init /\ [][Next]_vars

-----------------------------------------------------------------------------
\* The state keeps its type: the loops of the line (dump_text, optimize_normal)
\* stay inside its text, its states and its offsets, and only word space is ever
\* left free.
TypeOK ==
  /\ phase \in {"fill", "optimize", "prepare", "dump", "closed"}
  /\ line.text \in Seq({PAD, LETTER, SPACE}) /\ k \in 1..(MaxChars + 1)
  /\ at \in 0..Len(line.text) /\ done \in 0..Len(line.offsets) /\ dx \in Int
  /\ \A i \in 1..Len(line.states) : line.states[i].mask \subseteq {WS}

\* Whatever optimisation and nesting do, a character is shown within h_eps of
\* where it was appended: what rounding to a class leaves over is handed on, and
\* letter and word spacing move nothing.  Baselines are rounded once for each
\* state, and there the rest is lost: they are off by v_eps for each state.
CharsPlaced ==
  \A i \in 1..Len(shown) :
    /\ Abs(shown[i].x - asked[i].x) <= HEps
    /\ Abs(shown[i].y - asked[i].y) <= VEps * (Len(line.states) - 1)

\* Every character has the font and size of its own state, though the
\* parent is chosen by a lossy hash, and is hidden when it is covered.
CharsStyled ==
  \A i \in 1..Len(shown) :
    /\ shown[i].font = asked[i].font /\ shown[i].size = asked[i].size
    /\ shown[i].hidden = asked[i].hidden

\* A finished line has written every character and closed what it opened.
LineWhole == phase = "closed" => html = <<>> /\ Len(shown) = Len(asked)
=============================================================================
