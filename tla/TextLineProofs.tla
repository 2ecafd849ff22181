-------------------------- MODULE TextLineProofs --------------------------
(***************************************************************************)
(* For every line, every style and any way of reusing classes: each        *)
(* character is shown in the font and size of its own state and where it   *)
(* was appended, up to the tolerances, and nothing is left open when the   *)
(* line ends.                                                              *)
(*                                                                         *)
(* The argument ties three countings together.  The c-th character that    *)
(* was appended is the c-th entry of the text that is not padding          *)
(* (AskedOK), and the states cut the text into segments, each in one style *)
(* (StatesOK).  While the line is written, the number of open elements is  *)
(* that of the open states that opened one, and the font and size that the *)
(* elements up to the one of a state leave in effect are those of that     *)
(* state (Nested): so whichever parent the search chooses, what remains    *)
(* after closing is what the parent expects.                               *)
(*                                                                         *)
(* Where the characters stand (PInv) follows from an account of what is    *)
(* still owed: the pen, the rounding that is carried along (dx) and the    *)
(* offset that is due lead to the place of the next character, before and  *)
(* after every step.  So nothing is lost between two spans, and the error  *)
(* never adds up along the line.  Across the line each open state may lose *)
(* one rounding, and a state lies as far off as those it is opened in.     *)
(***************************************************************************)
EXTENDS TextLine, FiniteSetTheorems, SequenceTheorems, TLAPS

\* The types of the parts of a line.
Kinds == {PAD, LETTER, SPACE}
StyleIds == {FONT, SIZE}
Offset == [start : Nat, width : Int]
State == [start : Nat, ids : [Ids -> Int], va : Int, mask : SUBSET {WS},
          hash : {<<>>} \cup [Ids -> Int], close : {FALSE}]
Asked == [x : Int, y : Int, font : Int, size : Int, hidden : BOOLEAN]
IsSeq(s) == \E X : s \in Seq(X)

\* How many of the first t entries of a text are characters.
CharSet(text, t) == {u \in 0..(t - 1) : text[u + 1] # PAD}
Count(text, t) == Cardinality(CharSet(text, t))

LineType(l) ==
  /\ DOMAIN l = {"text", "states", "offsets"}
  /\ l.text \in Seq(Kinds) /\ l.states \in Seq(State) /\ l.offsets \in Seq(Offset)

\* The states cut the text into segments that are not empty.
StatesOK(l) ==
  /\ Len(l.text) <= MaxChars
  /\ l.states = <<>> <=> l.text = <<>>
  /\ l.states # <<>> => l.states[1].start = 0
  /\ \A i \in 1..Len(l.states) : i - 1 <= l.states[i].start /\ l.states[i].start < Len(l.text)
  /\ \A i \in 1..(Len(l.states) - 1) : l.states[i].start < l.states[i + 1].start

\* The segment of state i of a line.
EndOf(l, i) == IF i = Len(l.states) THEN Len(l.text) ELSE l.states[i + 1].start
Segment(l, i) == l.states[i].start..(EndOf(l, i) - 1)

AskedAs(a, ids, t, cov) == a.font = ids[FONT] /\ a.size = ids[SIZE] /\ a.hidden = (t \in cov)
AskedOK(l, given, cov) ==
  /\ given \in Seq(Asked) /\ Len(given) = Count(l.text, Len(l.text))
  /\ \A i \in 1..Len(l.states) : \A t \in Segment(l, i) :
       l.text[t + 1] # PAD => AskedAs(given[Count(l.text, t + 1)], l.states[i].ids, t, cov)

ShownOK == IsSeq(shown) /\ Len(shown) = Count(line.text, at) /\ CharsStyled

\* What the first m elements leave in effect of class i.
Setting(h, m, i) == {e \in 1..m : i \in DOMAIN h[e].class}
Effect(h, m, i) == IF Setting(h, m, i) = {} THEN 0 ELSE h[Max(Setting(h, m, i))].class[i]

\* An open state, and the number of elements that are open up to it.
Opened(s) ==
  /\ DOMAIN s = {"start", "ids", "va", "mask", "hash", "close"}
  /\ DOMAIN s.ids = Ids /\ \A i \in HashIds : s.ids[i] \in Int
  /\ s.mask \subseteq {WS} /\ s.close \in BOOLEAN
ClosedBy(st, p) == {q \in 1..p : st[q].close}
Height(st, p) == 1 + Cardinality(ClosedBy(st, p))

Nested(st, h) ==
  /\ IsSeq(st) /\ st # <<>> /\ IsSeq(h)
  /\ \A p \in 1..Len(st) : Opened(st[p])
  /\ ~st[1].close
  /\ Len(h) = Height(st, Len(st))
  /\ \A e \in 1..Len(h) : "class" \in DOMAIN h[e]
  /\ \A p \in 1..Len(st) : \A i \in HashIds \ st[p].mask :
       Effect(h, Height(st, p), i) = st[p].ids[i]

\* The innermost open state has the classes of s, and is free in no more of them.
DressedAs(top, s) == top.mask \subseteq s.mask /\ \A i \in HashIds \ s.mask : top.ids[i] = s.ids[i]

Fresh == done = 0 /\ stack = <<>> /\ at = 0 /\ dx = 0 /\ html = <<>> /\ shown = <<>>
Writing ==
  /\ k - 1 \in 1..Len(line.states)
  /\ line.states[k - 1].start <= at /\ at <= StateEnd(k - 1)
  /\ Nested(stack, html)
  /\ DressedAs(Last(stack), line.states[k - 1])

Phases ==
  /\ phase \in {"fill", "optimize", "prepare", "dump", "closed"}
  /\ phase = "fill" => k = 1 /\ newOffsets = <<>>
  /\ phase \in {"fill", "optimize", "prepare"} => Fresh
  /\ phase = "dump" => (k = 1 /\ Fresh) \/ Writing
  /\ phase = "closed" => html = <<>> /\ at = Len(line.text)
  /\ phase # "fill" => line.text # <<>>

IInv ==
  /\ LineType(line) /\ StatesOK(line) /\ AskedOK(line, asked, covered) /\ ShownOK /\ Phases
  /\ newOffsets \in Seq(Offset) /\ askedPen \in Int \X Int
  /\ k \in 1..(Len(line.states) + 1) /\ at \in 0..Len(line.text) /\ done \in 0..Len(line.offsets)
  /\ dx \in Int /\ DOMAIN tables = {"align", "space"} /\ tables.space \subseteq Int

-----------------------------------------------------------------------------
(* Sets of integers.                                                       *)

\* A finite set of integers that is not empty has a least element, and Min is it.
LEMMA MinOf ==
  ASSUME NEW S, IsFiniteSet(S), S \subseteq Int, S # {}
  PROVE  Min(S) \in S /\ \A m \in S : Min(S) <= m
<1> DEFINE UpTo(j) == {m \in S : m <= j}
           T == {UpTo(j) : j \in S}
<1>1. IsWellFoundedOn(StrictSubsetOrdering(S), SUBSET S)
  BY FS_StrictSubsetOrderingWellFounded, FS_FiniteSubsetsOfFinite
<1>2. T \subseteq SUBSET S /\ T # {}
  OBVIOUS
<1>3. PICK A \in T : \A B \in T : <<B, A>> \notin StrictSubsetOrdering(S)
  BY <1>1, <1>2, WFMin
<1>4. PICK j \in S : A = UpTo(j)
  OBVIOUS
<1>5. ASSUME NEW m \in S, m < j
      PROVE  FALSE
  <2>1. j <= j /\ ~(j <= m) /\ \A x \in S : x <= m => x <= j
    BY <1>5
  <2>2. UpTo(m) \subseteq A /\ j \in A /\ j \notin UpTo(m)
    BY <1>4, <2>1
  <2>3. UpTo(m) \in SUBSET S /\ A \in SUBSET S
    BY <1>4
  <2>4. <<UpTo(m), A>> \in StrictSubsetOrdering(S)
    BY <2>2, <2>3 DEF StrictSubsetOrdering
  <2>5. UpTo(m) \in T
    OBVIOUS
  <2> QED
    BY <1>3, <2>4, <2>5
<1>6. \A m \in S : j <= m
  BY <1>5
<1> QED
  BY <1>6 DEF Min

\* A set of integers within bounds has a greatest element, and Max is it.
LEMMA MaxOf ==
  ASSUME NEW a \in Int, NEW b \in Int, NEW S, S \subseteq a..b, S # {}
  PROVE  Max(S) \in S /\ \A m \in S : m <= Max(S)
<1> DEFINE T == {d \in 0..(b - a) : b - d \in S}
<1>1. T \subseteq Int /\ IsFiniteSet(T)
  <2>1. IsFiniteSet(0..(b - a)) /\ T \in SUBSET (0..(b - a))
    BY FS_Interval
  <2> QED
    BY <2>1, FS_Subset
<1>2. T # {}
  <2>1. PICK x \in S : TRUE
    OBVIOUS
  <2>2. b - x \in 0..(b - a) /\ b - (b - x) = x
    BY <2>1
  <2> QED
    BY <2>1, <2>2
<1>3. Min(T) \in T /\ \A m \in T : Min(T) <= m
  BY <1>1, <1>2, MinOf
<1> HIDE DEF T
<1>4. PICK d : d = Min(T)
  OBVIOUS
<1>5. d \in 0..(b - a) /\ b - d \in S
  BY <1>3, <1>4 DEF T
<1>6. ASSUME NEW m \in S
      PROVE  m <= b - d
  <2>1. m \in a..b
    OBVIOUS
  <2>2. b - m \in 0..(b - a) /\ b - (b - m) = m
    BY <2>1
  <2>3. b - m \in T
    BY <2>2 DEF T
  <2>4. d <= b - m
    BY <1>3, <1>4, <2>3
  <2> QED
    BY <1>5, <2>1, <2>4
<1> QED
  BY <1>5, <1>6 DEF Max

\* Counting up to each element reaches every number up to the size of the set.
LEMMA NthOf ==
  ASSUME NEW a \in Int, NEW b \in Int, NEW S, S \subseteq a..b, NEW j \in 1..Cardinality(S)
  PROVE  Nth(S, j) \in S /\ Cardinality({d \in S : d <= Nth(S, j)}) = j
<1> DEFINE C(i) == {d \in S : d <= i}
           T == {i \in S : Cardinality(C(i)) >= j}
<1>1. IsFiniteSet(S) /\ Cardinality(S) \in Nat
  BY FS_Interval, FS_Subset, FS_CardinalityType
<1>2. T # {}
  <2>1. S # {}
    BY <1>1, FS_EmptySet
  <2>2. PICK m \in S : \A d \in S : d <= m
    BY <2>1, MaxOf
  <2>3. C(m) = S
    BY <2>2
  <2> QED
    BY <1>1, <2>3
<1>3. IsFiniteSet(T) /\ T \subseteq Int
  <2>1. \A i \in T : i \in S
    OBVIOUS
  <2> HIDE DEF T
  <2>2. \A i \in S : i \in Int
    OBVIOUS
  <2>3. T \subseteq Int
    BY <2>1, <2>2, Zenon
  <2>4. T \in SUBSET S
    BY <2>1, Zenon
  <2> QED
    BY <1>1, <2>3, <2>4, FS_Subset
<1>4. PICK i \in T : \A m \in T : i <= m
  BY <1>2, <1>3, MinOf
<1>5. i \in S /\ i \in Int /\ Cardinality(C(i)) >= j
  BY <1>4
<1>6. Cardinality(C(i)) = j
  <2> DEFINE D == {d \in S : d < i}
  <2>1. IsFiniteSet(D) /\ Cardinality(D) \in Nat
    BY <1>1, FS_Subset, FS_CardinalityType
  <2>2. C(i) = D \cup {i} /\ i \notin D
    <3>1. \A d \in S : d <= i <=> d < i \/ d = i
      BY <1>5
    <3>2. ~(i < i)
      BY <1>5
    <3> QED
      BY <1>5, <3>1, <3>2
  <2>3. Cardinality(C(i)) = Cardinality(D) + 1
    BY <2>1, <2>2, FS_AddElement
  <2>4. Cardinality(D) < j
    <3>1. CASE D = {}
      BY <3>1, FS_EmptySet
    <3>2. CASE D # {}
      <4>1. D \subseteq a..b
        OBVIOUS
      <4>2. PICK m \in D : \A d \in D : d <= m
        BY <3>2, <4>1, MaxOf
      <4>3. m \in S /\ m < i /\ m \in Int
        BY <4>2
      <4>4. C(m) = D
        <5>1. \A d \in S : d <= m => d < i
          BY <1>5, <4>3
        <5> QED
          BY <4>2, <5>1
      <4>5. m \notin T
        BY <1>4, <1>5, <4>3
      <4> QED
        BY <2>1, <4>4, <4>3, <4>5
    <3> QED
      BY <3>1, <3>2
  <2> QED
    BY <1>5, <2>1, <2>3, <2>4
<1> HIDE DEF T, C
<1>7. \E n \in S : Cardinality(C(n)) = j
  BY <1>5, <1>6
<1> QED
  BY <1>7 DEF Nth, C

-----------------------------------------------------------------------------
(* Counting the characters of a text.                                      *)

\* A text has finitely many characters.
LEMMA CountType ==
  ASSUME NEW text, NEW t \in Int
  PROVE  IsFiniteSet(CharSet(text, t)) /\ Count(text, t) \in Nat
<1>1. IsFiniteSet(0..(t - 1)) /\ CharSet(text, t) \in SUBSET (0..(t - 1))
  BY FS_Interval DEF CharSet
<1> QED
  BY <1>1, FS_Subset, FS_CardinalityType DEF Count

\* No character comes before the first.
LEMMA CountZero == \A text : Count(text, 0) = 0
<1>1. \A text : CharSet(text, 0) = {}
  BY DEF CharSet
<1> QED
  BY <1>1, FS_EmptySet DEF Count

\* One more entry counts if it is a character.
LEMMA CountNext ==
  ASSUME NEW text, NEW t \in Nat
  PROVE  Count(text, t + 1) = IF text[t + 1] # PAD THEN Count(text, t) + 1 ELSE Count(text, t)
<1>1. IsFiniteSet(CharSet(text, t)) /\ Count(text, t) \in Nat
  BY CountType
<1>2. CASE text[t + 1] # PAD
  <2>1. CharSet(text, t + 1) = CharSet(text, t) \cup {t} /\ t \notin CharSet(text, t)
    BY <1>2 DEF CharSet
  <2> QED
    BY <1>1, <1>2, <2>1, FS_AddElement DEF Count
<1>3. CASE text[t + 1] = PAD
  <2>1. CharSet(text, t + 1) = CharSet(text, t)
    BY <1>3 DEF CharSet
  <2> QED
    BY <1>3, <2>1 DEF Count
<1> QED
  BY <1>2, <1>3

\* What is appended changes no earlier count.
LEMMA CountAppend ==
  ASSUME NEW text \in Seq(Kinds), NEW c \in Kinds, NEW t \in Int, t <= Len(text)
  PROVE  Count(Append(text, c), t) = Count(text, t)
<1>1. \A u \in 0..(t - 1) : Append(text, c)[u + 1] = text[u + 1]
  OBVIOUS
<1>2. CharSet(Append(text, c), t) = CharSet(text, t)
  BY <1>1 DEF CharSet
<1> QED
  BY <1>2 DEF Count

\* The characters up to j are those up to i and those from i to j.
CharsIn(text, i, j) == {t \in i..(j - 1) : text[t + 1] # PAD}
LEMMA CountSplit ==
  ASSUME NEW text, NEW i \in Nat, NEW j \in Nat, i <= j
  PROVE  /\ IsFiniteSet(CharsIn(text, i, j)) /\ Cardinality(CharsIn(text, i, j)) \in Nat
         /\ Count(text, j) = Count(text, i) + Cardinality(CharsIn(text, i, j))
<1> DEFINE D == CharsIn(text, i, j)
           A == CharSet(text, i)
<1>1. IsFiniteSet(A) /\ Count(text, i) \in Nat
  BY CountType
<1>2. IsFiniteSet(D) /\ Cardinality(D) \in Nat
  <2>1. IsFiniteSet(i..(j - 1)) /\ D \in SUBSET (i..(j - 1))
    BY FS_Interval DEF CharsIn
  <2> QED
    BY <2>1, FS_Subset, FS_CardinalityType
<1>3. CharSet(text, j) = A \cup D
  <2>1. \A u : u \in 0..(j - 1) <=> u \in 0..(i - 1) \/ u \in i..(j - 1)
    OBVIOUS
  <2> QED
    BY <2>1 DEF CharSet, CharsIn
<1>4. A \cap D = {}
  BY DEF CharSet, CharsIn
<1>5. Cardinality(A \cup D) = Cardinality(A) + Cardinality(D) - Cardinality({})
  BY <1>1, <1>2, <1>4, FS_Union
<1> QED
  BY <1>1, <1>2, <1>3, <1>5, FS_EmptySet DEF Count

\* The j-th of the characters from i to e is that many after those up to i.
LEMMA NthCharacter ==
  ASSUME NEW text, NEW i \in Nat, NEW e \in Nat, i <= e,
         NEW j \in 1..Cardinality(CharsIn(text, i, e))
  PROVE  LET t == Nth(CharsIn(text, i, e), j)
         IN t \in i..(e - 1) /\ text[t + 1] # PAD /\ Count(text, t + 1) = Count(text, i) + j
<1> DEFINE D == CharsIn(text, i, e)
<1>1. PICK t : t = Nth(D, j)
  OBVIOUS
<1>2. D \subseteq i..(e - 1)
  BY DEF CharsIn
<1>3. t \in D /\ Cardinality({d \in D : d <= t}) = j
  BY <1>1, <1>2, NthOf
<1>4. t \in i..(e - 1) /\ text[t + 1] # PAD
  BY <1>3 DEF CharsIn
<1>5. {d \in D : d <= t} = CharsIn(text, i, t + 1)
  BY <1>4 DEF CharsIn
<1>6. Count(text, t + 1) = Count(text, i) + j
  <2>1. t + 1 \in Nat /\ i <= t + 1
    BY <1>4
  <2>2. Count(text, t + 1) = Count(text, i) + Cardinality(CharsIn(text, i, t + 1))
    BY <2>1, CountSplit
  <2> QED
    BY <1>3, <1>5, <2>2
<1> QED
  BY <1>1, <1>4, <1>6

-----------------------------------------------------------------------------
(* Open states and open elements.                                          *)

\* The innermost element that sets a class.
LEMMA SettingMax ==
  ASSUME NEW h, NEW m \in Nat, NEW i, Setting(h, m, i) # {}
  PROVE  /\ Max(Setting(h, m, i)) \in 1..m
         /\ Max(Setting(h, m, i)) \in Setting(h, m, i)
         /\ \A e \in Setting(h, m, i) : e <= Max(Setting(h, m, i))
<1>1. Setting(h, m, i) \subseteq 1..m
  BY DEF Setting
<1>2. /\ Max(Setting(h, m, i)) \in Setting(h, m, i)
      /\ \A e \in Setting(h, m, i) : e <= Max(Setting(h, m, i))
  BY <1>1, MaxOf
<1> QED
  BY <1>1, <1>2

\* What is in effect depends on the classes of the elements only.
SameClasses(g, h, m) == \A e \in 1..m : g[e].class = h[e].class
LEMMA EffectSame ==
  ASSUME NEW g, NEW h, NEW m \in Nat, NEW i, SameClasses(g, h, m)
  PROVE  Effect(g, m, i) = Effect(h, m, i)
<1>1. Setting(g, m, i) = Setting(h, m, i)
  BY DEF Setting, SameClasses
<1>2. CASE Setting(h, m, i) = {}
  BY <1>1, <1>2 DEF Effect
<1>3. CASE Setting(h, m, i) # {}
  <2>1. PICK e : e = Max(Setting(h, m, i))
    OBVIOUS
  <2>2. e \in 1..m
    BY <1>3, <2>1, SettingMax
  <2>3. g[e].class = h[e].class
    BY <2>2 DEF SameClasses
  <2> QED
    BY <1>1, <1>3, <2>1, <2>3 DEF Effect
<1> QED
  BY <1>2, <1>3

\* The innermost element decides if it sets the class.
LEMMA EffectNext ==
  ASSUME NEW h, NEW m \in Nat, NEW i
  PROVE  Effect(h, m + 1, i) =
           IF i \in DOMAIN h[m + 1].class THEN h[m + 1].class[i] ELSE Effect(h, m, i)
<1>1. CASE i \in DOMAIN h[m + 1].class
  <2>1. m + 1 \in Setting(h, m + 1, i)
    BY <1>1 DEF Setting
  <2>2. Max(Setting(h, m + 1, i)) \in 1..(m + 1) /\ m + 1 <= Max(Setting(h, m + 1, i))
    BY <2>1, SettingMax
  <2>3. Max(Setting(h, m + 1, i)) = m + 1
    BY <2>2
  <2> QED
    BY <1>1, <2>1, <2>3 DEF Effect
<1>2. CASE i \notin DOMAIN h[m + 1].class
  <2>1. Setting(h, m + 1, i) = Setting(h, m, i)
    BY <1>2 DEF Setting
  <2> QED
    BY <1>2, <2>1 DEF Effect
<1> QED
  BY <1>1, <1>2

\* At least the element of the line itself is open.
LEMMA HeightType ==
  ASSUME NEW st, NEW p \in Nat
  PROVE  IsFiniteSet(ClosedBy(st, p)) /\ Height(st, p) \in Nat /\ 1 <= Height(st, p)
<1>1. IsFiniteSet(1..p) /\ ClosedBy(st, p) \in SUBSET (1..p)
  BY FS_Interval DEF ClosedBy
<1>2. IsFiniteSet(ClosedBy(st, p)) /\ Cardinality(ClosedBy(st, p)) \in Nat
  BY <1>1, FS_Subset, FS_CardinalityType
<1> QED
  BY <1>2 DEF Height

\* One more open state is one more element if it opened one.
LEMMA HeightNext ==
  ASSUME NEW st, NEW p \in Nat
  PROVE  Height(st, p + 1) = IF st[p + 1].close THEN Height(st, p) + 1 ELSE Height(st, p)
<1>1. IsFiniteSet(ClosedBy(st, p)) /\ Height(st, p) \in Nat
  BY HeightType
<1>2. CASE st[p + 1].close
  <2>1. ClosedBy(st, p + 1) = ClosedBy(st, p) \cup {p + 1} /\ p + 1 \notin ClosedBy(st, p)
    BY <1>2 DEF ClosedBy
  <2>2. Cardinality(ClosedBy(st, p + 1)) = Cardinality(ClosedBy(st, p)) + 1
    BY <1>1, <2>1, FS_AddElement
  <2>3. Cardinality(ClosedBy(st, p)) \in Nat
    BY <1>1, FS_CardinalityType
  <2> QED
    BY <1>2, <2>2, <2>3 DEF Height
<1>3. CASE ~st[p + 1].close
  <2>1. ClosedBy(st, p + 1) = ClosedBy(st, p)
    BY <1>3 DEF ClosedBy
  <2> QED
    BY <1>3, <2>1 DEF Height
<1> QED
  BY <1>2, <1>3

SameClosed(s, t, p) == \A q \in 1..p : s[q].close = t[q].close
LEMMA HeightSame ==
  ASSUME NEW s, NEW t, NEW p \in Nat, SameClosed(s, t, p)
  PROVE  Height(s, p) = Height(t, p)
<1>1. ClosedBy(s, p) = ClosedBy(t, p)
  BY DEF ClosedBy, SameClosed
<1> QED
  BY <1>1 DEF Height

\* The elements of all open states are those up to the p-th and those above it.
ClosedAbove(st, p, n) == {q \in (p + 1)..n : st[q].close}
LEMMA HeightSplit ==
  ASSUME NEW st, NEW p \in Nat, NEW n \in Nat, p <= n
  PROVE  /\ Cardinality(ClosedAbove(st, p, n)) \in Nat
         /\ Height(st, n) = Height(st, p) + Cardinality(ClosedAbove(st, p, n))
<1> DEFINE A == ClosedBy(st, p)
           D == ClosedAbove(st, p, n)
<1>1. IsFiniteSet(A) /\ Cardinality(A) \in Nat
  BY HeightType, FS_CardinalityType
<1>2. IsFiniteSet(D) /\ Cardinality(D) \in Nat
  <2>1. IsFiniteSet((p + 1)..n) /\ D \in SUBSET ((p + 1)..n)
    BY FS_Interval DEF ClosedAbove
  <2> QED
    BY <2>1, FS_Subset, FS_CardinalityType
<1>3. ClosedBy(st, n) = A \cup D
  <2>1. \A u : u \in 1..n <=> u \in 1..p \/ u \in (p + 1)..n
    OBVIOUS
  <2> QED
    BY <2>1 DEF ClosedBy, ClosedAbove
<1>4. A \cap D = {}
  BY DEF ClosedBy, ClosedAbove
<1>5. Cardinality(A \cup D) = Cardinality(A) + Cardinality(D) - Cardinality({})
  BY <1>1, <1>2, <1>4, FS_Union
<1> QED
  BY <1>1, <1>2, <1>3, <1>5, FS_EmptySet DEF Height

\* Sequences whatever their elements.
LEMMA IsSeqFacts ==
  ASSUME NEW s, IsSeq(s)
  PROVE  Len(s) \in Nat /\ DOMAIN s = 1..Len(s) /\ (s # <<>> => Len(s) > 0 /\ Last(s) = s[Len(s)])
<1>1. PICK X : s \in Seq(X)
  BY DEF IsSeq
<1> QED
  BY <1>1 DEF Last

\* Appending, for sequences of known elements.
LEMMA AppendFacts ==
  ASSUME NEW S, NEW s \in Seq(S), NEW x \in S
  PROVE  /\ Append(s, x) \in Seq(S) /\ Len(Append(s, x)) = Len(s) + 1
         /\ Append(s, x)[Len(s) + 1] = x /\ \A j \in 1..Len(s) : Append(s, x)[j] = s[j]
  OBVIOUS

\* Appending keeps what is there.
LEMMA IsSeqAppend ==
  ASSUME NEW s, IsSeq(s), NEW x
  PROVE  /\ IsSeq(Append(s, x)) /\ Append(s, x) # <<>> /\ Len(Append(s, x)) = Len(s) + 1
         /\ Append(s, x)[Len(s) + 1] = x
         /\ \A j \in 1..Len(s) : Append(s, x)[j] = s[j]
<1>1. PICK X : s \in Seq(X)
  BY DEF IsSeq
<1>2. s \in Seq(X \cup {x}) /\ x \in X \cup {x}
  BY <1>1, SeqMonotonic
<1>3. Append(s, x) \in Seq(X \cup {x})
  BY <1>2
<1> QED
  BY <1>2, <1>3 DEF IsSeq

\* A prefix keeps what is there.
LEMMA IsSeqPrefix ==
  ASSUME NEW s, IsSeq(s), NEW p \in 0..Len(s)
  PROVE  /\ IsSeq(SubSeq(s, 1, p)) /\ Len(SubSeq(s, 1, p)) = p
         /\ \A j \in 1..p : SubSeq(s, 1, p)[j] = s[j]
<1>1. PICK X : s \in Seq(X)
  BY DEF IsSeq
<1>2. SubSeq(s, 1, p) \in Seq(X)
  BY <1>1
<1> QED
  BY <1>1, <1>2 DEF IsSeq

\* Leaving the elements inside the p-th open state leaves the state's own.
LEMMA NestedCut ==
  ASSUME NEW st, NEW h, Nested(st, h), NEW p \in 1..Len(st)
  PROVE  Nested(SubSeq(st, 1, p), SubSeq(h, 1, Len(h) - Cardinality(ClosedAbove(st, p, Len(st)))))
<1> DEFINE n == Len(h) - Cardinality(ClosedAbove(st, p, Len(st)))
           s == SubSeq(st, 1, p)
           g == SubSeq(h, 1, n)
<1>1. IsSeq(st) /\ IsSeq(h) /\ Len(st) \in Nat /\ Len(h) \in Nat /\ p \in Nat /\ p <= Len(st)
  BY IsSeqFacts DEF Nested
<1>2. n = Height(st, p) /\ n \in 0..Len(h)
  BY <1>1, HeightSplit, HeightType DEF Nested
<1>3. /\ IsSeq(s) /\ Len(s) = p /\ \A j \in 1..p : s[j] = st[j]
      /\ IsSeq(g) /\ Len(g) = n /\ \A j \in 1..n : g[j] = h[j]
  BY <1>1, <1>2, IsSeqPrefix
<1> HIDE DEF n, s, g
<1>4. s # <<>> /\ (\A q \in 1..Len(s) : Opened(s[q])) /\ ~s[1].close
  BY <1>1, <1>3 DEF Nested
<1>5. ASSUME NEW q \in 1..p
      PROVE  Height(s, q) = Height(st, q) /\ Height(s, q) \in 0..n
  <2>1. SameClosed(s, st, q) /\ q \in Nat /\ q <= p
    BY <1>3 DEF SameClosed
  <2>2. Height(s, q) = Height(st, q)
    BY <2>1, HeightSame
  <2> QED
    BY <1>1, <1>2, <2>1, <2>2, HeightSplit, HeightType
<1>6. Len(g) = Height(s, Len(s)) /\ \A e \in 1..Len(g) : "class" \in DOMAIN g[e]
  BY <1>2, <1>3, <1>5 DEF Nested
<1>7. ASSUME NEW q \in 1..Len(s), NEW i \in HashIds \ s[q].mask
      PROVE  Effect(g, Height(s, q), i) = s[q].ids[i]
  <2>1. Height(s, q) \in Nat /\ SameClasses(g, h, Height(s, q)) /\ q \in 1..Len(st)
    BY <1>1, <1>2, <1>3, <1>5 DEF SameClasses
  <2>2. Effect(g, Height(s, q), i) = Effect(h, Height(s, q), i)
    BY <2>1, EffectSame
  <2> QED
    BY <1>3, <1>5, <2>1, <2>2 DEF Nested
<1>8. Nested(s, g)
  BY <1>3, <1>4, <1>6, <1>7 DEF Nested
<1> QED
  BY <1>8 DEF n, s, g

\* A state that opens an element adds what differs from its parent.
LEMMA NestedPush ==
  ASSUME NEW st, NEW h, Nested(st, h), NEW s, NEW e,
         Opened(s), s.close, "class" \in DOMAIN e,
         \A i \in HashIds \ s.mask :
           IF i \in DOMAIN e.class THEN s.ids[i] = e.class[i]
           ELSE i \notin Last(st).mask /\ s.ids[i] = Last(st).ids[i]
  PROVE  Nested(Append(st, s), Append(h, e))
<1> DEFINE n == Len(st)
           m == Len(h)
           t == Append(st, s)
           g == Append(h, e)
<1>1. IsSeq(st) /\ IsSeq(h) /\ n \in Nat /\ m \in Nat /\ n > 0 /\ Last(st) = st[n]
  BY IsSeqFacts DEF Nested
<1>2. /\ IsSeq(t) /\ t # <<>> /\ Len(t) = n + 1 /\ t[n + 1] = s /\ \A q \in 1..n : t[q] = st[q]
      /\ IsSeq(g) /\ Len(g) = m + 1 /\ g[m + 1] = e /\ \A j \in 1..m : g[j] = h[j]
  BY <1>1, IsSeqAppend
<1> HIDE DEF n, m, t, g
<1>3. m = Height(st, n)
  BY DEF Nested, n, m
<1>4. ASSUME NEW q \in 1..n
      PROVE  Height(t, q) = Height(st, q) /\ Height(t, q) \in 0..m
  <2>1. SameClosed(t, st, q) /\ q \in Nat /\ q <= n
    BY <1>1, <1>2 DEF SameClosed
  <2>2. Height(t, q) = Height(st, q)
    BY <2>1, HeightSame
  <2>3. Height(st, n) = Height(st, q) + Cardinality(ClosedAbove(st, q, n))
        /\ Cardinality(ClosedAbove(st, q, n)) \in Nat
    BY <1>1, <2>1, HeightSplit
  <2>4. Height(st, q) \in Nat
    BY <2>1, HeightType
  <2> QED
    BY <1>1, <1>3, <2>2, <2>3, <2>4
<1>5. n \in 1..n
  BY <1>1
<1>6. Height(t, n + 1) = m + 1
  BY <1>1, <1>2, <1>3, <1>4, <1>5, HeightNext
<1>7. /\ \A q \in 1..Len(t) : Opened(t[q])
      /\ ~t[1].close
      /\ \A j \in 1..Len(g) : "class" \in DOMAIN g[j]
  BY <1>1, <1>2 DEF Nested, n, m
<1>8. ASSUME NEW q \in 1..n, NEW i \in HashIds \ t[q].mask
      PROVE  Effect(g, Height(t, q), i) = t[q].ids[i]
  <2>1. Height(t, q) \in Nat /\ SameClasses(g, h, Height(t, q)) /\ q \in 1..Len(st)
    BY <1>1, <1>2, <1>4 DEF SameClasses, n
  <2>2. Effect(g, Height(t, q), i) = Effect(h, Height(t, q), i)
    BY <2>1, EffectSame
  <2>3. Effect(h, Height(st, q), i) = st[q].ids[i]
    BY <1>2, <2>1 DEF Nested
  <2> QED
    BY <1>2, <1>4, <2>2, <2>3
<1>9. ASSUME NEW i \in HashIds \ t[n + 1].mask
      PROVE  Effect(g, Height(t, n + 1), i) = t[n + 1].ids[i]
  <2>1. m \in Nat /\ g[m + 1] = e
    BY <1>1, <1>2
  <2>2. Effect(g, m + 1, i) = IF i \in DOMAIN e.class THEN e.class[i] ELSE Effect(g, m, i)
    BY <2>1, EffectNext
  <2>3. i \notin st[n].mask => Effect(g, m, i) = st[n].ids[i]
    BY <1>2, <1>3, <1>4, <1>5, <1>8
  <2> QED
    BY <1>1, <1>2, <1>6, <2>2, <2>3
<1>10. \A q \in 1..Len(t) : q \in 1..n \/ q = n + 1
  BY <1>1, <1>2
<1>11. Nested(t, g)
  BY <1>2, <1>6, <1>7, <1>8, <1>9, <1>10 DEF Nested
<1> QED
  BY <1>11 DEF t, g

\* A state in the style of its parent opens none.
LEMMA NestedStay ==
  ASSUME NEW st, NEW h, Nested(st, h), NEW s,
         Opened(s), ~s.close,
         \A i \in HashIds \ s.mask : i \notin Last(st).mask /\ s.ids[i] = Last(st).ids[i]
  PROVE  Nested(Append(st, s), h)
<1> DEFINE n == Len(st)
           t == Append(st, s)
<1>1. IsSeq(st) /\ n \in Nat /\ n > 0 /\ Last(st) = st[n]
  BY IsSeqFacts DEF Nested
<1>2. IsSeq(t) /\ t # <<>> /\ Len(t) = n + 1 /\ t[n + 1] = s /\ \A q \in 1..n : t[q] = st[q]
  BY <1>1, IsSeqAppend
<1> HIDE DEF n, t
<1>3. ASSUME NEW q \in 1..n
      PROVE  Height(t, q) = Height(st, q)
  <2>1. SameClosed(t, st, q) /\ q \in Nat
    BY <1>1, <1>2 DEF SameClosed
  <2> QED
    BY <2>1, HeightSame
<1>4. n \in 1..n
  BY <1>1
<1>5. Height(t, n + 1) = Height(st, n)
  BY <1>1, <1>2, <1>3, <1>4, HeightNext
<1>6. (\A q \in 1..Len(t) : Opened(t[q])) /\ ~t[1].close
  BY <1>1, <1>2 DEF Nested, n
<1>7. ASSUME NEW q \in 1..n, NEW i \in HashIds \ t[q].mask
      PROVE  Effect(h, Height(t, q), i) = t[q].ids[i]
  BY <1>2, <1>3 DEF Nested, n
<1>8. \A i \in HashIds \ t[n + 1].mask : Effect(h, Height(t, n + 1), i) = t[n + 1].ids[i]
  BY <1>1, <1>2, <1>3, <1>4, <1>5, <1>7
<1>9. \A q \in 1..Len(t) : q \in 1..n \/ q = n + 1
  BY <1>1, <1>2
<1>10. IsSeq(h) /\ Len(h) = Height(t, Len(t)) /\ \A e \in 1..Len(h) : "class" \in DOMAIN h[e]
  BY <1>2, <1>5 DEF Nested, n
<1>11. Nested(t, h)
  BY <1>2, <1>6, <1>7, <1>8, <1>9, <1>10 DEF Nested
<1> QED
  BY <1>11 DEF t

\* The line's own element sets every class of the first state.
LEMMA NestedFirst ==
  ASSUME NEW s, NEW e, Opened(s), ~s.close, "class" \in DOMAIN e,
         \A i \in HashIds \ s.mask : i \in DOMAIN e.class /\ e.class[i] = s.ids[i]
  PROVE  Nested(<<s>>, <<e>>)
<1> DEFINE t == <<s>>
           h == <<e>>
<1>1. t \in Seq({s}) /\ h \in Seq({e}) /\ t # <<>> /\ Len(t) = 1 /\ Len(h) = 1
      /\ t[1] = s /\ h[1] = e
  OBVIOUS
<1> HIDE DEF t, h
<1>2. IsSeq(t) /\ IsSeq(h)
  BY <1>1 DEF IsSeq
<1>3. Height(t, 1) = 1
  <2>1. ClosedBy(t, 1) = {}
    BY <1>1 DEF ClosedBy
  <2> QED
    BY <2>1, FS_EmptySet DEF Height
<1>4. ASSUME NEW i \in HashIds \ s.mask
      PROVE  Effect(h, 1, i) = s.ids[i]
  <2>1. Effect(h, 0 + 1, i) = IF i \in DOMAIN h[0 + 1].class THEN h[0 + 1].class[i] ELSE Effect(h, 0, i)
    BY EffectNext
  <2>2. 0 + 1 = 1
    OBVIOUS
  <2> QED
    BY <1>1, <2>1, <2>2
<1>5. \A q \in 1..Len(t) : q = 1
  BY <1>1
<1>6. \A q \in 1..Len(h) : q = 1
  BY <1>1
<1>7. Nested(t, h)
  BY <1>1, <1>2, <1>3, <1>4, <1>5, <1>6 DEF Nested
<1> QED
  BY <1>7 DEF t, h

-----------------------------------------------------------------------------
(* Filling a line.                                                         *)

\* A character of the text has its place among the characters.
LEMMA CountPlace ==
  ASSUME NEW text, NEW n \in Nat, NEW t \in 0..(n - 1), text[t + 1] # PAD
  PROVE  Count(text, t + 1) \in 1..Count(text, n)
<1>1. t \in Nat /\ t + 1 \in Nat /\ t + 1 <= n
  OBVIOUS
<1>2. Count(text, t) \in Nat /\ Count(text, t + 1) = Count(text, t) + 1
  BY <1>1, CountType, CountNext
<1>3. Count(text, n) = Count(text, t + 1) + Cardinality(CharsIn(text, t + 1, n))
      /\ Cardinality(CharsIn(text, t + 1, n)) \in Nat
  BY <1>1, CountSplit
<1> QED
  BY <1>2, <1>3

\* The fields of a state.
LEMMA StateFields ==
  ASSUME NEW s \in State
  PROVE  /\ s.start \in Nat /\ s.ids \in [Ids -> Int] /\ s.va \in Int /\ s.mask \subseteq {WS}
         /\ s.close = FALSE /\ DOMAIN s = {"start", "ids", "va", "mask", "hash", "close"}
  BY DEF State

\* append_offset changes neither the text nor the states.
LEMMA AppendOffsetFacts ==
  ASSUME NEW l, LineType(l), NEW w \in Int
  PROVE  LET m == AppendOffset(l, w)
         IN LineType(m) /\ m.text = l.text /\ m.states = l.states
<1> DEFINE real == {i \in 1..Len(l.text) : l.text[i] # PAD}
           last == Len(l.offsets)
<1>1. Len(l.text) \in Nat /\ last \in Nat /\ l.offsets \in Seq(Offset)
  BY DEF LineType
<1>2. PICK idx : idx = IF real = {} THEN 0 ELSE Max(real)
  OBVIOUS
<1>3. idx \in Nat
  <2>1. CASE real = {}
    BY <1>2, <2>1
  <2>2. CASE real # {}
    <3>1. real \subseteq 1..Len(l.text)
      OBVIOUS
    <3> HIDE DEF real
    <3>2. 1 \in Int /\ Len(l.text) \in Int
      BY <1>1
    <3>3. Max(real) \in real
      BY <2>2, <3>1, <3>2, MaxOf, Zenon
    <3>4. idx \in 1..Len(l.text)
      BY <1>2, <2>2, <3>1, <3>3
    <3> QED
      BY <3>4
  <2> QED
    BY <2>1, <2>2
<1>4. CASE last > 0 /\ l.offsets[last].start = idx
  <2> DEFINE o == [l.offsets[last] EXCEPT !.width = @ + w]
             m == [l EXCEPT !.offsets = [l.offsets EXCEPT ![last] = o]]
  <2>1. l.offsets[last] \in Offset
    BY <1>1, <1>4
  <2>2. o \in Offset
    BY <2>1 DEF Offset
  <2>3. [l.offsets EXCEPT ![last] = o] \in Seq(Offset)
    BY <1>1, <1>4, <2>2
  <2>4. AppendOffset(l, w) = m
    BY <1>2, <1>4 DEF AppendOffset
  <2> HIDE DEF o
  <2>5. LineType(m) /\ m.text = l.text /\ m.states = l.states
    BY <2>3 DEF LineType
  <2> QED
    BY <2>4, <2>5
<1>5. CASE ~(last > 0 /\ l.offsets[last].start = idx)
  <2> DEFINE o == [start |-> idx, width |-> w]
             m == [l EXCEPT !.offsets = Append(l.offsets, o)]
  <2>1. o \in Offset
    BY <1>3 DEF Offset
  <2>2. Append(l.offsets, o) \in Seq(Offset)
    BY <1>1, <2>1
  <2>3. AppendOffset(l, w) = m
    BY <1>2, <1>5 DEF AppendOffset
  <2> HIDE DEF o
  <2>4. LineType(m) /\ m.text = l.text /\ m.states = l.states
    BY <2>2 DEF LineType
  <2> QED
    BY <2>3, <2>4
<1> QED
  BY <1>4, <1>5

\* append_state: no state starts behind the last character, so none is replaced.
LEMMA AppendStateFacts ==
  ASSUME NEW l, LineType(l), StatesOK(l), NEW style \in Styles
  PROVE  LET m == AppendState(l, style)
         IN /\ LineType(m) /\ m.text = l.text /\ m.offsets = l.offsets
            /\ \E s \in State : /\ s.start = Len(l.text) /\ m.states = Append(l.states, s)
                                /\ s.va = style[VA] /\ s.mask = {}
<1> DEFINE s == [start |-> Len(l.text), ids |-> [style EXCEPT ![VA] = 0], va |-> style[VA],
                 mask |-> {}, hash |-> <<>>, close |-> FALSE]
           m == [l EXCEPT !.states = Append(l.states, s)]
<1>1. l.states \in Seq(State) /\ l.text \in Seq(Kinds) /\ Len(l.text) \in Nat
  BY DEF LineType
<1>2. style \in [Ids -> Int] /\ VA \in Ids
  BY StylesAssumption DEF Ids, FONT, VA
<1>3. [style EXCEPT ![VA] = 0] \in [Ids -> Int] /\ style[VA] \in Int
  BY <1>2
<1>4. s \in State
  BY <1>1, <1>3 DEF State
<1>5. ~(l.states # <<>> /\ Last(l.states).start = Len(l.text))
  <2> SUFFICES ASSUME l.states # <<>>
               PROVE  Last(l.states).start # Len(l.text)
    OBVIOUS
  <2>1. Len(l.states) \in 1..Len(l.states)
    BY <1>1
  <2>2. l.states[Len(l.states)].start < Len(l.text) /\ l.states[Len(l.states)] \in State
    BY <1>1, <2>1 DEF StatesOK
  <2>3. l.states[Len(l.states)].start \in Nat
    BY <2>2 DEF State
  <2> QED
    BY <1>1, <2>2, <2>3 DEF Last
<1>6. AppendState(l, style) = m
  BY <1>5 DEF AppendState
<1> HIDE DEF s
<1>7. Append(l.states, s) \in Seq(State)
  BY <1>1, <1>4
<1>8. LineType(m) /\ m.text = l.text /\ m.offsets = l.offsets /\ m.states = Append(l.states, s)
  BY <1>7 DEF LineType
<1>9. s.start = Len(l.text) /\ s.va = style[VA] /\ s.mask = {}
  BY DEF s
<1> QED
  BY <1>4, <1>6, <1>8, <1>9

\* The line d is l with one more entry c, perhaps in a new state.
Drawn(l, d, c) ==
  /\ d.text = Append(l.text, c)
  /\ \/ l.states # <<>> /\ d.states = l.states
     \/ \E s \in State : s.start = Len(l.text) /\ d.states = Append(l.states, s)

\* Its earlier states are those of l, and its last one holds the new entry.
LEMMA DrawnSegments ==
  ASSUME NEW l, LineType(l), StatesOK(l), NEW d, LineType(d), NEW c \in Kinds, Drawn(l, d, c),
         Len(l.text) < MaxChars
  PROVE  /\ StatesOK(d)
         /\ Len(d.states) > 0
         /\ \A i \in 1..Len(d.states) : \A t \in Segment(d, i) :
              \/ i = Len(d.states) /\ t = Len(l.text)
              \/ /\ i \in 1..Len(l.states) /\ d.states[i] = l.states[i]
                 /\ t \in Segment(l, i) /\ t \in 0..(Len(l.text) - 1)
<1>1. /\ l.states \in Seq(State) /\ l.text \in Seq(Kinds)
      /\ d.states \in Seq(State) /\ d.text \in Seq(Kinds)
      /\ d.text = Append(l.text, c) /\ Len(d.text) = Len(l.text) + 1 /\ Len(l.text) \in Nat
      /\ MaxChars \in Nat
  BY TextLineAssumption DEF LineType, Drawn
<1>2. \A i \in 1..Len(l.states) : l.states[i].start \in Nat
  <2>1. \A i \in 1..Len(l.states) : l.states[i] \in State
    BY <1>1
  <2> QED
    BY <2>1, StateFields
<1>3. CASE l.states # <<>> /\ d.states = l.states
  <2>1. StatesOK(d) /\ Len(d.states) > 0
    BY <1>1, <1>2, <1>3 DEF StatesOK
  <2>2. ASSUME NEW i \in 1..Len(d.states), NEW t \in Segment(d, i)
        PROVE  \/ i = Len(d.states) /\ t = Len(l.text)
               \/ /\ i \in 1..Len(l.states) /\ d.states[i] = l.states[i]
                  /\ t \in Segment(l, i) /\ t \in 0..(Len(l.text) - 1)
    <3>1. CASE i = Len(d.states)
      BY <1>1, <1>2, <1>3, <3>1 DEF Segment, EndOf
    <3>2. CASE i # Len(d.states)
      <4>1. i + 1 \in 1..Len(l.states)
        BY <1>1, <1>3, <3>2
      <4>2. l.states[i + 1].start < Len(l.text) /\ l.states[i + 1].start \in Nat
        BY <1>2, <4>1 DEF StatesOK
      <4>3. i \in 1..Len(l.states) /\ i # Len(l.states) /\ l.states[i].start \in Nat
        BY <1>2, <1>3, <3>2
      <4>4. Segment(d, i) = Segment(l, i) /\ Segment(l, i) = l.states[i].start..(l.states[i + 1].start - 1)
        BY <1>3, <4>3 DEF Segment, EndOf
      <4>5. t \in l.states[i].start..(l.states[i + 1].start - 1) /\ Len(l.text) \in Nat
        BY <1>1, <4>4
      <4>6. t \in 0..(Len(l.text) - 1)
        BY <4>2, <4>3, <4>5
      <4> QED
        BY <1>3, <4>3, <4>4, <4>6
    <3> QED
      BY <3>1, <3>2
  <2> QED
    BY <2>1, <2>2
<1>4. ASSUME NEW s \in State, s.start = Len(l.text), d.states = Append(l.states, s)
      PROVE  /\ StatesOK(d)
             /\ Len(d.states) > 0
             /\ \A i \in 1..Len(d.states) : \A t \in Segment(d, i) :
                  \/ i = Len(d.states) /\ t = Len(l.text)
                  \/ /\ i \in 1..Len(l.states) /\ d.states[i] = l.states[i]
                     /\ t \in Segment(l, i) /\ t \in 0..(Len(l.text) - 1)
  <2> DEFINE n == Len(l.states)
  <2>1. /\ n \in Nat /\ Len(d.states) = n + 1 /\ d.states[n + 1] = s
        /\ \A i \in 1..n : d.states[i] = l.states[i]
    BY <1>1, <1>4
  <2>2. n <= Len(l.text)
    <3>1. CASE n = 0
      BY <1>1, <3>1
    <3>2. CASE n > 0
      <4>1. n \in 1..n
        BY <2>1, <3>2
      <4>2. n - 1 <= l.states[n].start /\ l.states[n].start < Len(l.text)
        BY <4>1 DEF StatesOK
      <4>3. l.states[n].start \in Nat /\ Len(l.text) \in Nat
        BY <1>1, <1>2, <4>1
      <4> HIDE DEF n
      <4> QED
        BY <2>1, <4>2, <4>3
    <3> QED
      BY <2>1, <3>1, <3>2
  <2> HIDE DEF n
  <2>3. \A i \in 1..n : /\ i - 1 <= l.states[i].start /\ l.states[i].start < Len(l.text)
                        /\ i < n => l.states[i].start < l.states[i + 1].start
    BY <2>1 DEF StatesOK, n
  <2>4. StatesOK(d)
    <3>1. d.states # <<>> /\ d.text # <<>> /\ Len(d.text) <= MaxChars
      <4>1. Len(d.states) > 0 /\ Len(d.text) > 0
        BY <1>1, <2>1
      <4>2. d.states # <<>> /\ d.text # <<>>
        BY <4>1
      <4> QED
        BY <1>1, <4>2
    <3>2. d.states[1].start = 0
      <4>1. CASE n = 0
        <5>1. l.text = <<>>
          BY <1>1, <4>1 DEF StatesOK, n
        <5> QED
          BY <1>4, <2>1, <4>1, <5>1
      <4>2. CASE n > 0
        <5>1. l.states[1].start = 0 /\ 1 \in 1..n
          BY <1>1, <2>1, <4>2 DEF StatesOK, n
        <5> QED
          BY <2>1, <5>1
      <4> QED
        BY <2>1, <4>1, <4>2
    <3>3. ASSUME NEW i \in 1..Len(d.states)
          PROVE  i - 1 <= d.states[i].start /\ d.states[i].start < Len(d.text)
      <4>1. CASE i \in 1..n
        <5>1. d.states[i] = l.states[i] /\ l.states[i].start \in Nat
          BY <1>2, <2>1, <4>1 DEF n
        <5> QED
          BY <1>1, <2>3, <4>1, <5>1
      <4>2. CASE i = n + 1
        BY <1>1, <1>4, <2>1, <2>2, <4>2
      <4> QED
        BY <2>1, <4>1, <4>2
    <3>4. ASSUME NEW i \in 1..(Len(d.states) - 1)
          PROVE  d.states[i].start < d.states[i + 1].start
      <4>1. i \in 1..n /\ d.states[i] = l.states[i]
        BY <2>1
      <4>2. CASE i < n
        <5>1. d.states[i + 1] = l.states[i + 1]
          BY <2>1, <4>1, <4>2
        <5> QED
          BY <2>3, <4>1, <4>2, <5>1
      <4>3. CASE i = n
        BY <1>4, <2>1, <2>3, <4>1, <4>3
      <4> QED
        BY <2>1, <4>1, <4>2, <4>3
    <3> QED
      BY <3>1, <3>2, <3>3, <3>4 DEF StatesOK
  <2>5. ASSUME NEW i \in 1..Len(d.states), NEW t \in Segment(d, i)
        PROVE  \/ i = Len(d.states) /\ t = Len(l.text)
               \/ /\ i \in 1..n /\ d.states[i] = l.states[i]
                  /\ t \in Segment(l, i) /\ t \in 0..(Len(l.text) - 1)
    <3>1. CASE i = n + 1
      BY <1>1, <1>4, <2>1, <3>1 DEF Segment, EndOf
    <3>2. CASE i \in 1..n
      <4>1. EndOf(d, i) = EndOf(l, i)
        <5>1. CASE i = n
          <6>1. EndOf(d, i) = d.states[n + 1].start
            BY <2>1, <5>1 DEF EndOf
          <6>2. EndOf(l, i) = Len(l.text)
            BY <5>1 DEF EndOf, n
          <6> QED
            BY <1>4, <2>1, <6>1, <6>2
        <5>2. CASE i < n
          <6>1. i + 1 \in 1..n /\ i # n /\ i # Len(d.states)
            BY <2>1, <3>2, <5>2
          <6>2. d.states[i + 1] = l.states[i + 1]
            BY <2>1, <6>1
          <6> QED
            BY <6>1, <6>2 DEF EndOf, n
        <5> QED
          BY <2>1, <3>2, <5>1, <5>2
      <4>2. EndOf(l, i) <= Len(l.text) /\ EndOf(l, i) \in Nat
        <5>1. CASE i = n
          BY <1>1, <5>1 DEF EndOf, n
        <5>2. CASE i < n
          <6>1. i + 1 \in 1..n
            BY <2>1, <3>2, <5>2
          <6>2. l.states[i + 1].start \in Nat /\ l.states[i + 1].start < Len(l.text)
            BY <1>2, <2>3, <6>1 DEF n
          <6> QED
            BY <1>1, <5>2, <6>2 DEF EndOf, n
        <5> QED
          BY <2>1, <3>2, <5>1, <5>2
      <4>3. d.states[i] = l.states[i] /\ l.states[i].start \in Nat
        BY <1>2, <2>1, <3>2 DEF n
      <4> QED
        BY <1>1, <3>2, <4>1, <4>2, <4>3 DEF Segment
    <3> QED
      BY <2>1, <3>1, <3>2
  <2> QED
    BY <2>1, <2>4, <2>5 DEF n
<1> QED
  BY <1>3, <1>4 DEF Drawn

\* The new character is asked for in the style of the state that holds it.
LEMMA DrawnAsked ==
  ASSUME NEW l, LineType(l), StatesOK(l), NEW d, LineType(d), NEW c \in Kinds, Drawn(l, d, c),
         Len(l.text) < MaxChars, NEW given, NEW cov, AskedOK(l, given, cov), NEW a \in Asked,
         AskedAs(a, Last(d.states).ids, Len(l.text), cov)
  PROVE  AskedOK(d, IF c = PAD THEN given ELSE Append(given, a), cov)
<1> DEFINE n == Len(l.text)
           bs == IF c = PAD THEN given ELSE Append(given, a)
<1>1. /\ l.text \in Seq(Kinds) /\ d.text = Append(l.text, c) /\ d.states \in Seq(State)
      /\ n \in Nat /\ Len(d.text) = n + 1 /\ d.text[n + 1] = c
      /\ \A t \in 0..(n - 1) : d.text[t + 1] = l.text[t + 1]
  BY DEF LineType, Drawn
<1>2. given \in Seq(Asked) /\ Len(given) = Count(l.text, n)
  BY DEF AskedOK
<1> HIDE DEF n
<1>3. \A t \in 0..n : Count(d.text, t) = Count(l.text, t)
  BY <1>1, CountAppend DEF n
<1>4. Count(d.text, n + 1) = IF c # PAD THEN Len(given) + 1 ELSE Len(given)
  <2>1. Count(d.text, n) = Len(given)
    BY <1>1, <1>2, <1>3
  <2> QED
    BY <1>1, <2>1, CountNext
<1>5. /\ Append(given, a) \in Seq(Asked) /\ Len(Append(given, a)) = Len(given) + 1
      /\ Append(given, a)[Len(given) + 1] = a /\ \A j \in 1..Len(given) : Append(given, a)[j] = given[j]
  BY <1>2, AppendFacts
<1>6. (c = PAD => bs = given) /\ (c # PAD => bs = Append(given, a))
  OBVIOUS
<1> HIDE DEF bs
<1>7. /\ bs \in Seq(Asked) /\ Len(bs) = Count(d.text, Len(d.text))
      /\ \A j \in 1..Len(given) : bs[j] = given[j]
      /\ c # PAD => bs[Len(given) + 1] = a
  <2>1. CASE c = PAD
    BY <1>1, <1>2, <1>4, <1>6, <2>1
  <2>2. CASE c # PAD
    BY <1>1, <1>4, <1>5, <1>6, <2>2
  <2> QED
    BY <2>1, <2>2
<1>8. ASSUME NEW i \in 1..Len(d.states), NEW t \in Segment(d, i), d.text[t + 1] # PAD
      PROVE  AskedAs(bs[Count(d.text, t + 1)], d.states[i].ids, t, cov)
  <2>1. CASE i = Len(d.states) /\ t = n
    <3>1. c # PAD /\ bs[Count(d.text, t + 1)] = a
      BY <1>1, <1>4, <1>7, <1>8, <2>1
    <3>2. Last(d.states).ids = d.states[i].ids
      BY <2>1 DEF Last
    <3> QED
      BY <2>1, <3>1, <3>2 DEF n
  <2>2. CASE /\ i \in 1..Len(l.states) /\ d.states[i] = l.states[i]
             /\ t \in Segment(l, i) /\ t \in 0..(n - 1)
    <3>1. l.text[t + 1] # PAD
      BY <1>1, <1>8, <2>2
    <3>2. Count(l.text, t + 1) \in 1..Len(given)
      BY <1>1, <1>2, <2>2, <3>1, CountPlace
    <3>3. Count(d.text, t + 1) = Count(l.text, t + 1)
      BY <1>1, <1>3, <2>2
    <3>4. AskedAs(given[Count(l.text, t + 1)], l.states[i].ids, t, cov)
      BY <2>2, <3>1 DEF AskedOK
    <3> QED
      BY <1>7, <2>2, <3>2, <3>3, <3>4
  <2> QED
    BY <2>1, <2>2, DrawnSegments DEF n
<1>9. AskedOK(d, bs, cov)
  BY <1>7, <1>8 DEF AskedOK
<1> QED
  BY <1>9 DEF bs

\* Widths are integers.
LEMMA AdvanceType ==
  ASSUME NEW ids \in [Ids -> Int], NEW c \in {LETTER, SPACE}
  PROVE  CharAdvance(c, ids) \in Int /\ SingleSpaceOffset(ids) \in Int
<1>1. /\ ids[SIZE] \in Int /\ ids[LS] \in Int /\ ids[WS] \in Int
  BY DEF Ids, FONT, SIZE, LS, WS, VA
<1>2. LETTER_WIDTH * ids[SIZE] \in Int /\ SPACE_WIDTH * ids[SIZE] \in Int
  BY <1>1 DEF LETTER_WIDTH, SPACE_WIDTH
<1>3. CASE c = LETTER
  <2>1. CharAdvance(c, ids) = LETTER_WIDTH * ids[SIZE] + ids[LS]
    BY <1>3 DEF CharAdvance, PAD, LETTER, SPACE
  <2> QED
    BY <1>1, <1>2, <2>1 DEF SingleSpaceOffset
<1>4. CASE c = SPACE
  <2>1. CharAdvance(c, ids) = SPACE_WIDTH * ids[SIZE] + ids[LS] + ids[WS]
    BY <1>4 DEF CharAdvance, PAD, LETTER, SPACE
  <2> QED
    BY <1>1, <1>2, <2>1 DEF SingleSpaceOffset
<1> QED
  BY <1>3, <1>4

\* drawString keeps the types, the segments and the places of the characters.
LEMMA DrawKeeps ==
  ASSUME LineType(line), StatesOK(line), AskedOK(line, asked, covered), askedPen \in Int \X Int,
         Len(line.text) < MaxChars,
         NEW w \in Widths \cup {0}, NEW style \in Styles \cup {<<>>}, NEW c \in Kinds,
         line.text = <<>> => style # <<>>, Draw(w, style, c)
  PROVE  /\ LineType(line') /\ StatesOK(line') /\ AskedOK(line', asked', covered)
         /\ askedPen' \in Int \X Int
         /\ Drawn(line, line', c)
<1>1. PICK moved : moved = IF w = 0 THEN line ELSE AppendOffset(line, w)
  OBVIOUS
<1>2. LineType(moved) /\ moved.text = line.text /\ moved.states = line.states
  <2>1. w \in Int
    BY TextLineAssumption
  <2> QED
    BY <1>1, <2>1, AppendOffsetFacts
<1>3. StatesOK(moved)
  BY <1>2 DEF StatesOK
<1>4. PICK styled : styled = IF style = <<>> THEN moved ELSE AppendState(moved, style)
  OBVIOUS
<1>5. /\ LineType(styled) /\ styled.text = line.text
      /\ \/ line.states # <<>> /\ styled.states = line.states
         \/ \E s \in State : s.start = Len(line.text) /\ styled.states = Append(line.states, s)
  <2>1. CASE style = <<>>
    BY <1>2, <1>4, <2>1 DEF StatesOK
  <2>2. CASE style # <<>>
    <3>1. style \in Styles
      BY <2>2
    <3> QED
      BY <1>2, <1>3, <1>4, <2>2, <3>1, AppendStateFacts
  <2> QED
    BY <2>1, <2>2
<1>6. styled.states \in Seq(State) /\ styled.states # <<>> /\ line.states \in Seq(State)
  <2>1. styled.states \in Seq(State) /\ line.states \in Seq(State)
    BY <1>5 DEF LineType
  <2>2. \A s : Append(line.states, s) # <<>>
    BY <2>1
  <2> QED
    BY <1>5, <2>1, <2>2
<1>7. PICK ids : ids = Last(styled.states).ids
  OBVIOUS
<1>8. ids \in [Ids -> Int]
  <2>1. Len(styled.states) \in 1..Len(styled.states)
    BY <1>6
  <2>2. styled.states[Len(styled.states)] \in State
    BY <1>6, <2>1
  <2> QED
    BY <1>7, <2>2, StateFields DEF Last
<1>9. PICK drawn : drawn = AppendChar(styled, c)
  OBVIOUS
<1>10. /\ LineType(drawn) /\ drawn.text = Append(line.text, c) /\ drawn.states = styled.states
  <2>1. Append(styled.text, c) \in Seq(Kinds)
    BY <1>5 DEF LineType
  <2> QED
    BY <1>5, <1>9, <2>1 DEF LineType, AppendChar
<1>11. line' = IF c = PAD THEN AppendOffset(drawn, SingleSpaceOffset(ids)) ELSE drawn
  BY <1>1, <1>4, <1>7, <1>9 DEF Draw
<1>12. /\ LineType(line') /\ line'.text = drawn.text /\ line'.states = drawn.states
  <2>1. SPACE \in {LETTER, SPACE}
    OBVIOUS
  <2>2. SingleSpaceOffset(ids) \in Int
    BY <1>8, <2>1, AdvanceType
  <2> QED
    BY <1>10, <1>11, <2>2, AppendOffsetFacts
<1>13. Drawn(line, line', c)
  BY <1>5, <1>10, <1>12 DEF Drawn
<1>14. StatesOK(line')
  BY <1>12, <1>13, DrawnSegments
<1>15. PICK x, y : /\ x = askedPen[1] + w
                   /\ y = askedPen[2] + (IF style = <<>> THEN 0 ELSE style[VA])
  OBVIOUS
<1>16. x \in Int /\ y \in Int
  <2>1. askedPen[1] \in Int /\ askedPen[2] \in Int /\ w \in Int
    BY TextLineAssumption
  <2>2. style # <<>> => style[VA] \in Int
    <3>1. style # <<>> => style \in [Ids -> Int] /\ VA \in Ids
      BY StylesAssumption DEF Ids, FONT, VA
    <3> QED
      BY <3>1
  <2> QED
    BY <1>15, <2>1, <2>2
<1>17. askedPen' = <<x + CharAdvance(IF c = PAD THEN SPACE ELSE c, ids), y>>
  BY <1>1, <1>4, <1>7, <1>15 DEF Draw
<1>18. askedPen' \in Int \X Int
  <2>1. (IF c = PAD THEN SPACE ELSE c) \in {LETTER, SPACE}
    BY DEF Kinds
  <2>2. CharAdvance(IF c = PAD THEN SPACE ELSE c, ids) \in Int
    BY <1>8, <2>1, AdvanceType
  <2> QED
    BY <1>16, <1>17, <2>2
<1> DEFINE a == [x |-> x, y |-> y, font |-> ids[FONT], size |-> ids[SIZE],
                 hidden |-> Len(line.text) \in covered]
<1>19. asked' = IF c = PAD THEN asked ELSE Append(asked, a)
  BY <1>1, <1>4, <1>7, <1>15 DEF Draw
<1>20. a \in Asked
  <2>1. ids[FONT] \in Int /\ ids[SIZE] \in Int
    BY <1>8 DEF Ids, FONT, SIZE, VA
  <2>2. (Len(line.text) \in covered) \in BOOLEAN
    OBVIOUS
  <2> QED
    BY <1>16, <2>1, <2>2 DEF Asked
<1>21. AskedAs(a, Last(line'.states).ids, Len(line.text), covered)
  BY <1>7, <1>10, <1>12 DEF AskedAs
<1> HIDE DEF a
<1>22. AskedOK(line', asked', covered)
  BY <1>12, <1>13, <1>19, <1>20, <1>21, DrawnAsked
<1> QED
  BY <1>12, <1>13, <1>14, <1>18, <1>22

-----------------------------------------------------------------------------
(* Optimizing a line.                                                      *)

\* The offsets that a loop has passed are a prefix of them.
LEMMA PassedType ==
  ASSUME LineType(line), NEW t
  PROVE  PassedOffsets(t) \in 0..Len(line.offsets)
<1> DEFINE S == {j \in 0..Len(line.offsets) : \A q \in 1..j : line.offsets[q].start <= t}
<1>1. Len(line.offsets) \in Int /\ 0 \in Int /\ 0 \in 0..Len(line.offsets)
  BY DEF LineType
<1>2. 0 \in S /\ S \subseteq 0..Len(line.offsets)
  BY <1>1
<1>3. PassedOffsets(t) = Max(S)
  BY DEF PassedOffsets
<1> HIDE DEF S
<1>4. Max(S) \in S
  BY <1>1, <1>2, MaxOf, Zenon
<1> QED
  BY <1>2, <1>3, <1>4

\* What an iterator over the offsets passes is a sequence of offsets.
LEMMA OwnType ==
  ASSUME LineType(line), NEW i
  PROVE  OwnOffsets(i) \in Seq(Offset) /\ OffsetsBefore(i) \in Seq(Offset)
<1>1. line.offsets \in Seq(Offset)
  BY DEF LineType
<1>2. \A a \in 1..(Len(line.offsets) + 1), b \in 0..Len(line.offsets) :
        SubSeq(line.offsets, a, b) \in Seq(Offset)
  BY <1>1
<1>3. PICK a, b, c : /\ a = PassedOffsets(line.states[i].start) /\ b = PassedOffsets(StateEnd(i))
                     /\ c = PassedOffsets(line.states[1].start)
  OBVIOUS
<1>4. a \in 0..Len(line.offsets) /\ b \in 0..Len(line.offsets) /\ c \in 0..Len(line.offsets)
  BY <1>3, PassedType
<1>5. a + 1 \in 1..(Len(line.offsets) + 1) /\ 1 \in 1..(Len(line.offsets) + 1)
  BY <1>1, <1>4
<1>6. OwnOffsets(i) \in Seq(Offset)
  BY <1>2, <1>3, <1>4, <1>5 DEF OwnOffsets
<1>7. SubSeq(line.offsets, 1, c) \in Seq(Offset) /\ <<>> \in Seq(Offset)
  BY <1>2, <1>4, <1>5
<1>8. OffsetsBefore(i) \in Seq(Offset)
  BY <1>3, <1>7 DEF OffsetsBefore
<1> QED
  BY <1>6, <1>8

\* The fields of an offset.
LEMMA OffsetFields == \A o \in Offset : o.start \in Nat /\ o.width \in Int
  BY DEF Offset

\* How often a width is used lies in a range of integers.
LEMMA WidthCountType ==
  ASSUME NEW own \in Seq(Offset), NEW count \in Int
  PROVE  \E a, b \in Int : \A w : WidthCount(own, count, w) \in a..b
<1> DEFINE n == Len(own)
           J(w) == {j \in 1..n : own[j].width = w}
<1>1. n \in Nat
  OBVIOUS
<1> HIDE DEF n
<1>2. IsFiniteSet(1..n) /\ Cardinality(1..n) = n
  BY <1>1, FS_Interval
<1>3. \A w : J(w) \in SUBSET (1..n)
  OBVIOUS
<1>4. \A w : WidthCount(own, count, w) = Cardinality(J(w)) + (IF w = 0 THEN count - n ELSE 0)
  BY DEF WidthCount, n
<1> HIDE DEF J
<1>5. \A w : Cardinality(J(w)) \in 0..n
  <2> TAKE w
  <2>1. J(w) \in SUBSET (1..n)
    BY <1>3
  <2>2. IsFiniteSet(J(w)) /\ Cardinality(J(w)) <= n
    BY <1>2, <2>1, FS_Subset
  <2>3. Cardinality(J(w)) \in Nat
    BY <2>2, FS_CardinalityType
  <2> QED
    BY <1>1, <2>2, <2>3
<1>6. CASE count >= n
  <2>1. \A w : WidthCount(own, count, w) \in 0..count
    BY <1>1, <1>4, <1>5, <1>6
  <2> QED
    BY <2>1
<1>7. CASE count < n
  <2>1. \A w : WidthCount(own, count, w) \in (count - n)..n
    BY <1>1, <1>4, <1>5, <1>7
  <2>2. count - n \in Int /\ n \in Int
    BY <1>1
  <2> QED
    BY <2>1, <2>2, Zenon
<1> QED
  BY <1>1, <1>6, <1>7

\* There is a width that is used most, and the smallest of those is taken.
LEMMA MostUsedType ==
  ASSUME NEW own \in Seq(Offset), NEW count \in Int, NEW keys, IsFiniteSet(keys),
         keys \subseteq Int, keys # {}
  PROVE  MostUsed(own, count, keys) \in keys
<1> DEFINE C == {WidthCount(own, count, w) : w \in keys}
           best == {w \in keys : \A v \in keys : WidthCount(own, count, v) <= WidthCount(own, count, w)}
<1>1. PICK a \in Int, b \in Int : \A w : WidthCount(own, count, w) \in a..b
  BY WidthCountType
<1>2. C \subseteq a..b /\ C # {}
  BY <1>1
<1>3. PICK m \in C : \A c \in C : c <= m
  <2> HIDE DEF C
  <2> QED
    BY <1>2, MaxOf
<1>4. PICK w \in keys : m = WidthCount(own, count, w)
  BY <1>3
<1>5. \A v \in keys : WidthCount(own, count, v) <= WidthCount(own, count, w)
  BY <1>3, <1>4
<1>6. best # {} /\ best \in SUBSET keys
  BY <1>5
<1>7. MostUsed(own, count, keys) = Min(best)
  BY DEF MostUsed
<1> HIDE DEF best
<1>8. IsFiniteSet(best) /\ best \subseteq Int
  BY <1>6, FS_Subset
<1>9. Min(best) \in best
  BY <1>6, <1>8, MinOf
<1> QED
  BY <1>6, <1>7, <1>9

\* The widths among which the most used one is chosen are finitely many.
LEMMA WidthKeysType ==
  ASSUME NEW own \in Seq(Offset), NEW count \in Int
  PROVE  /\ IsFiniteSet(WidthKeys(own, count)) /\ WidthKeys(own, count) \subseteq Int
         /\ own # <<>> => WidthKeys(own, count) # {}
<1> DEFINE n == Len(own)
           W == {own[j].width : j \in 1..n}
           f == [j \in 1..n |-> own[j].width]
<1>1. n \in Nat /\ \A j \in 1..n : own[j].width \in Int
  BY OffsetFields
<1>2. W \subseteq Int
  BY <1>1
<1>3. f \in Surjection(1..n, W)
  BY DEF Surjection
<1>4. IsFiniteSet(1..n)
  BY <1>1, FS_Interval
<1>5. IsFiniteSet(W)
  <2> HIDE DEF W, f, n
  <2> QED
    BY <1>3, <1>4, FS_Surjection
<1>6. IsFiniteSet(W \cup {0})
  BY <1>5, FS_AddElement
<1>7. WidthKeys(own, count) = W \/ WidthKeys(own, count) = W \cup {0}
  BY DEF WidthKeys
<1>8. own # <<>> => W # {}
  <2> SUFFICES ASSUME own # <<>> PROVE W # {}
    OBVIOUS
  <2>1. 1 \in 1..n
    OBVIOUS
  <2>2. own[1].width \in W
    BY <2>1
  <2> QED
    BY <2>2
<1> HIDE DEF W
<1>9. W \cup {0} \subseteq Int /\ W \cup {0} # {}
  BY <1>2
<1>10. CASE WidthKeys(own, count) = W
  BY <1>2, <1>5, <1>8, <1>10, Zenon
<1>11. CASE WidthKeys(own, count) = W \cup {0}
  BY <1>6, <1>9, <1>11, Zenon
<1> QED
  BY <1>7, <1>10, <1>11, Zenon

\* The offsets after letter space has changed are offsets.
LEMMA RespacedType ==
  ASSUME NEW own \in Seq(Offset), NEW t1 \in Nat, NEW t2 \in Int, NEW diff \in Int
  PROVE  Respaced(own, t1, t2, diff) \in Seq(Offset)
<1> DEFINE here(t) == {j \in 1..Len(own) : own[j].start = t}
           widthAt(t) == diff + (IF here(t) = {} THEN 0 ELSE own[Min(here(t))].width)
           moved == {t \in (t1 + 1)..t2 : widthAt(t) # 0}
           o(j) == [start |-> Nth(moved, j), width |-> widthAt(Nth(moved, j))]
<1>1. \A t : widthAt(t) \in Int
  <2> TAKE t
  <2>1. CASE here(t) = {}
    BY <2>1
  <2>2. CASE here(t) # {}
    <3>1. here(t) \in SUBSET (1..Len(own)) /\ here(t) \subseteq Int
      OBVIOUS
    <3>2. IsFiniteSet(1..Len(own))
      BY FS_Interval
    <3>3. IsFiniteSet(here(t))
      <4> HIDE DEF here
      <4> QED
        BY <3>1, <3>2, FS_Subset
    <3>4. Min(here(t)) \in here(t)
      <4> HIDE DEF here
      <4> QED
        BY <2>2, <3>1, <3>3, MinOf
    <3>5. Min(here(t)) \in 1..Len(own)
      <4> HIDE DEF here
      <4> QED
        BY <3>1, <3>4
    <3>6. own[Min(here(t))].width \in Int
      <4> HIDE DEF here
      <4> QED
        BY <3>5, OffsetFields
    <3> HIDE DEF here
    <3> QED
      BY <2>2, <3>6
  <2> QED
    BY <2>1, <2>2
<1>2. moved \subseteq (t1 + 1)..t2
  OBVIOUS
<1>3. Respaced(own, t1, t2, diff) = [j \in 1..Cardinality(moved) |-> o(j)]
  BY DEF Respaced
<1> HIDE DEF widthAt, here
<1>4. IsFiniteSet(moved) /\ Cardinality(moved) \in Nat
  <2>1. IsFiniteSet((t1 + 1)..t2) /\ moved \in SUBSET ((t1 + 1)..t2)
    BY FS_Interval
  <2> HIDE DEF moved
  <2> QED
    BY <2>1, FS_Subset, FS_CardinalityType
<1> HIDE DEF moved
<1>5. \A j \in 1..Cardinality(moved) : Nth(moved, j) \in (t1 + 1)..t2
  <2>1. t1 + 1 \in Int /\ t2 \in Int
    OBVIOUS
  <2> QED
    BY <1>2, <2>1, NthOf
<1>6. \A j \in 1..Cardinality(moved) : Nth(moved, j) \in Nat
  BY <1>5
<1>7. \A j \in 1..Cardinality(moved) : o(j) \in Offset
  BY <1>1, <1>6 DEF Offset
<1> QED
  BY <1>3, <1>4, <1>7

\* The ids x are the ids y but for letter and word space.
SameStyle(x, y) == x \in [Ids -> Int] /\ \A i \in StyleIds : x[i] = y[i]

LEMMA EndOfType ==
  ASSUME NEW l, LineType(l), StatesOK(l), NEW i \in 1..Len(l.states)
  PROVE  /\ EndOf(l, i) \in Nat /\ l.states[i].start \in Nat
         /\ l.states[i].start < EndOf(l, i) /\ EndOf(l, i) <= Len(l.text)
<1>1. /\ Len(l.states) \in Nat /\ Len(l.text) \in Nat
      /\ \A q \in 1..Len(l.states) : l.states[q] \in State
  BY DEF LineType
<1>2. \A q \in 1..Len(l.states) : l.states[q].start \in Nat /\ l.states[q].start < Len(l.text)
  BY <1>1, StateFields DEF StatesOK
<1>3. CASE i = Len(l.states)
  BY <1>1, <1>2, <1>3 DEF EndOf
<1>4. CASE i # Len(l.states)
  <2>1. i \in 1..(Len(l.states) - 1) /\ i + 1 \in 1..Len(l.states)
    BY <1>1, <1>4
  <2>2. l.states[i].start < l.states[i + 1].start
    BY <2>1 DEF StatesOK
  <2>3. EndOf(l, i) = l.states[i + 1].start
    BY <1>4 DEF EndOf
  <2> QED
    BY <1>1, <1>2, <2>1, <2>2, <2>3
<1> QED
  BY <1>3, <1>4

\* Letter space changes neither font nor size.
LEMMA LetterSpacedType ==
  ASSUME LineType(line), StatesOK(line), NEW i \in 1..Len(line.states)
  PROVE  /\ SameStyle(LetterSpaced(i).ids, line.states[i].ids)
         /\ LetterSpaced(i).diff \in Int /\ LetterSpaced(i).offsets \in Seq(Offset)
<1>1. PICK ids, own, t1, t2, count :
        /\ ids = line.states[i].ids /\ own = OwnOffsets(i) /\ t1 = line.states[i].start
        /\ t2 = StateEnd(i) /\ count = t2 - t1
  OBVIOUS
<1>2. t1 \in Nat /\ t2 \in Nat /\ count \in Int
  BY <1>1, EndOfType DEF EndOf, StateEnd
<1>3. ids \in [Ids -> Int]
  <2>1. line.states[i] \in State
    BY DEF LineType
  <2> QED
    BY <1>1, <2>1, StateFields
<1>4. own \in Seq(Offset)
  BY <1>1, OwnType
<1>5. PICK most : most = MostUsed(own, count, WidthKeys(own, count))
  OBVIOUS
<1>6. own # <<>> => most \in Int
  <2>1. own # <<>> => most \in WidthKeys(own, count)
    BY <1>2, <1>4, <1>5, WidthKeysType, MostUsedType
  <2> QED
    BY <1>2, <1>4, <2>1, WidthKeysType
<1>7. PICK cond \in BOOLEAN :
        cond <=> own # <<>> /\ WidthCount(own, count, most) > count \div 2 /\ ids[LS] + most > 0
  OBVIOUS
<1>8. LetterSpaced(i) =
        IF cond THEN [ids |-> [ids EXCEPT ![LS] = @ + most], diff |-> -most,
                      offsets |-> Respaced(own, t1, t2, -most)]
        ELSE [ids |-> ids, diff |-> 0, offsets |-> own]
  BY <1>1, <1>5, <1>7 DEF LetterSpaced
<1>9. CASE cond
  <2>1. most \in Int /\ -most \in Int
    BY <1>6, <1>7, <1>9
  <2>2. Respaced(own, t1, t2, -most) \in Seq(Offset)
    BY <1>2, <1>4, <2>1, RespacedType
  <2>3. /\ LetterSpaced(i).ids = [ids EXCEPT ![LS] = ids[LS] + most] /\ LetterSpaced(i).diff = -most
        /\ LetterSpaced(i).offsets = Respaced(own, t1, t2, -most)
    BY <1>8, <1>9
  <2>4. LS \in Ids /\ LS \notin StyleIds /\ StyleIds \subseteq Ids
    BY DEF Ids, FONT, SIZE, LS, VA, StyleIds
  <2>5. SameStyle([ids EXCEPT ![LS] = ids[LS] + most], ids)
    BY <1>3, <2>1, <2>4 DEF SameStyle
  <2> QED
    BY <1>1, <2>1, <2>2, <2>3, <2>5
<1>10. CASE ~cond
  <2>1. LetterSpaced(i).ids = ids /\ LetterSpaced(i).diff = 0 /\ LetterSpaced(i).offsets = own
    BY <1>8, <1>10
  <2> QED
    BY <1>1, <1>3, <1>4, <2>1 DEF SameStyle
<1> QED
  BY <1>9, <1>10

\* Word space changes neither font nor size, and leaves only itself free.
LEMMA WordSpacedType ==
  ASSUME LineType(line), StatesOK(line), NEW i \in 1..Len(line.states)
  PROVE  LET final == WordSpaced(i, LetterSpaced(i))
         IN SameStyle(final.ids, line.states[i].ids) /\ final.mask \subseteq {WS}
<1>1. PICK ids, diff, offs :
        /\ ids = LetterSpaced(i).ids /\ diff = LetterSpaced(i).diff
        /\ offs = LetterSpaced(i).offsets
  OBVIOUS
<1>2. SameStyle(ids, line.states[i].ids) /\ diff \in Int
  BY <1>1, LetterSpacedType
<1>3. PICK own, count : own = OwnOffsets(i) /\ count = StateEnd(i) - line.states[i].start
  OBVIOUS
<1>4. own \in Seq(Offset) /\ count \in Int
  BY <1>3, OwnType, EndOfType DEF EndOf, StateEnd
<1>5. PICK gaps : gaps = {w \in WidthKeys(own, count) : w + diff >= EmThreshold(ids)}
  OBVIOUS
<1>6. PICK gap : gap = IF gaps = {} THEN 0 ELSE MostUsed(own, count, gaps) + diff
  OBVIOUS
<1>7. gap \in Int
  <2>1. gaps \in SUBSET WidthKeys(own, count)
    BY <1>5
  <2>2. IsFiniteSet(gaps) /\ gaps \subseteq Int
    BY <1>4, <2>1, WidthKeysType, FS_Subset
  <2>3. gaps # {} => MostUsed(own, count, gaps) \in Int
    BY <1>4, <2>2, MostUsedType
  <2> QED
    BY <1>2, <1>6, <2>3
<1>8. PICK blank : blank = [ids EXCEPT ![WS] = 0]
  OBVIOUS
<1>9. WS \in Ids /\ WS \notin StyleIds /\ StyleIds \subseteq Ids
  BY DEF Ids, FONT, SIZE, WS, VA, StyleIds
<1>10. blank \in [Ids -> Int] /\ \A j \in StyleIds : blank[j] = ids[j]
  BY <1>2, <1>8, <1>9 DEF SameStyle
<1>11. SingleSpaceOffset(blank) \in Int
  BY <1>10, AdvanceType
<1>12. PICK spaced : spaced = [blank EXCEPT ![WS] = gap - SingleSpaceOffset(blank)]
  OBVIOUS
<1>13. SameStyle(spaced, line.states[i].ids)
  <2>1. gap - SingleSpaceOffset(blank) \in Int
    BY <1>7, <1>11
  <2>2. spaced \in [Ids -> Int] /\ \A j \in StyleIds : spaced[j] = blank[j]
    BY <1>9, <1>10, <1>12, <2>1
  <2> QED
    BY <1>2, <1>10, <2>2 DEF SameStyle
<1>14. WordSpaced(i, LetterSpaced(i)) =
         IF HasSpace(i) THEN [ids |-> ids, mask |-> {}]
         ELSE IF offs # <<>> THEN [ids |-> spaced, mask |-> {}]
         ELSE [ids |-> ids, mask |-> {WS}]
  BY <1>1, <1>3, <1>5, <1>6, <1>8, <1>12 DEF WordSpaced, FreeWordSpace
<1>15. PICK final : final = WordSpaced(i, LetterSpaced(i))
  OBVIOUS
<1>16. (final.ids = ids \/ final.ids = spaced) /\ (final.mask = {} \/ final.mask = {WS})
  <2>1. CASE HasSpace(i)
    BY <1>14, <1>15, <2>1
  <2>2. CASE ~HasSpace(i) /\ offs # <<>>
    BY <1>14, <1>15, <2>2
  <2>3. CASE ~HasSpace(i) /\ offs = <<>>
    BY <1>14, <1>15, <2>3
  <2> QED
    BY <2>1, <2>2, <2>3
<1>17. final.mask \subseteq {WS}
  BY <1>16
<1> QED
  BY <1>2, <1>13, <1>15, <1>16, <1>17

\* A line whose states differ only in what does not concern style and segments.
Restyled(l, d) ==
  /\ d.text = l.text /\ Len(d.states) = Len(l.states)
  /\ \A i \in 1..Len(l.states) :
       /\ d.states[i].start = l.states[i].start
       /\ \A j \in StyleIds : d.states[i].ids[j] = l.states[i].ids[j]

\* A line whose states keep their starts, fonts and sizes keeps its segments.
LEMMA RestyledKeeps ==
  ASSUME NEW l, LineType(l), NEW d, LineType(d), Restyled(l, d)
  PROVE  /\ StatesOK(l) => StatesOK(d)
         /\ \A given, cov : AskedOK(l, given, cov) => AskedOK(d, given, cov)
<1>1. /\ Len(l.states) \in Nat /\ Len(d.states) = Len(l.states) /\ d.text = l.text
      /\ \A i \in 1..Len(l.states) : d.states[i].start = l.states[i].start
      /\ l.states \in Seq(State) /\ d.states \in Seq(State)
  BY DEF LineType, Restyled
<1>2. d.states = <<>> <=> l.states = <<>>
  BY <1>1
<1>3. StatesOK(l) => StatesOK(d)
  <2> SUFFICES ASSUME StatesOK(l) PROVE StatesOK(d)
    OBVIOUS
  <2>1. d.states # <<>> => d.states[1].start = 0
    <3>1. l.states # <<>> => 1 \in 1..Len(l.states)
      BY <1>1
    <3> QED
      BY <1>1, <1>2, <3>1 DEF StatesOK
  <2>2. \A i \in 1..Len(d.states) : i - 1 <= d.states[i].start /\ d.states[i].start < Len(d.text)
    BY <1>1 DEF StatesOK
  <2>3. ASSUME NEW i \in 1..(Len(d.states) - 1)
        PROVE  d.states[i].start < d.states[i + 1].start
    <3>1. i \in 1..Len(l.states) /\ i + 1 \in 1..Len(l.states) /\ i \in 1..(Len(l.states) - 1)
      BY <1>1
    <3> QED
      BY <1>1, <3>1 DEF StatesOK
  <2> QED
    BY <1>1, <1>2, <2>1, <2>2, <2>3 DEF StatesOK
<1>4. ASSUME NEW given, NEW cov, AskedOK(l, given, cov)
      PROVE  AskedOK(d, given, cov)
  <2>1. given \in Seq(Asked) /\ Len(given) = Count(d.text, Len(d.text))
    BY <1>1, <1>4 DEF AskedOK
  <2>2. ASSUME NEW i \in 1..Len(d.states), NEW t \in Segment(d, i), d.text[t + 1] # PAD
        PROVE  AskedAs(given[Count(d.text, t + 1)], d.states[i].ids, t, cov)
    <3>1. i \in 1..Len(l.states) /\ (i # Len(l.states) => i + 1 \in 1..Len(l.states))
      BY <1>1
    <3>2. Segment(d, i) = Segment(l, i)
      BY <1>1, <3>1 DEF Segment, EndOf
    <3>3. AskedAs(given[Count(l.text, t + 1)], l.states[i].ids, t, cov)
      BY <1>1, <1>4, <2>2, <3>1, <3>2 DEF AskedOK
    <3>4. d.states[i].ids[FONT] = l.states[i].ids[FONT] /\ d.states[i].ids[SIZE] = l.states[i].ids[SIZE]
      BY <3>1 DEF Restyled, StyleIds
    <3> QED
      BY <1>1, <3>3, <3>4 DEF AskedAs
  <2> QED
    BY <2>1, <2>2 DEF AskedOK
<1> QED
  BY <1>3, <1>4

-----------------------------------------------------------------------------
(* The steps before the line is written.                                   *)

\* An empty line.
LEMMA InitInv == ASSUME Init PROVE IInv
<1>1. /\ phase = "fill" /\ line = [text |-> <<>>, states |-> <<>>, offsets |-> <<>>]
      /\ k = 1 /\ done = 0 /\ newOffsets = <<>> /\ stack = <<>> /\ dx = 0 /\ at = 0
      /\ tables = [align |-> {}, space |-> {}]
      /\ html = <<>> /\ shown = <<>> /\ asked = <<>> /\ askedPen = <<0, 0>>
  BY DEF Init
<1>2. LineType(line)
  BY <1>1 DEF LineType
<1>3. line.text = <<>> /\ line.states = <<>> /\ line.offsets = <<>> /\ tables.space = {}
      /\ DOMAIN tables = {"align", "space"}
  BY <1>1
<1>4. StatesOK(line)
  BY <1>3, TextLineAssumption DEF StatesOK
<1>5. Count(line.text, 0) = 0
  BY CountZero
<1>6. AskedOK(line, asked, covered)
  BY <1>1, <1>3, <1>5 DEF AskedOK
<1>7. ShownOK
  <2>1. shown \in Seq({})
    BY <1>1
  <2> QED
    BY <1>1, <1>5, <2>1 DEF ShownOK, IsSeq, CharsStyled
<1>8. Phases
  BY <1>1 DEF Phases, Fresh
<1> QED
  BY <1>1, <1>2, <1>3, <1>4, <1>6, <1>7, <1>8 DEF IInv

\* Before the line is written nothing is shown, and nothing is open.
LEMMA FreshKeeps ==
  ASSUME IInv, Fresh, UNCHANGED <<done, stack, at, dx, html, shown, tables>>,
         LineType(line'), StatesOK(line'), AskedOK(line', asked', covered'),
         askedPen' \in Int \X Int, newOffsets' \in Seq(Offset),
         k' \in 1..(Len(line'.states) + 1),
         phase' \in {"fill", "optimize", "prepare"} \/ (phase' = "dump" /\ k' = 1),
         phase' = "fill" => k' = 1 /\ newOffsets' = <<>>,
         phase' # "fill" => line'.text # <<>>
  PROVE  IInv'
<1>1. /\ done' = 0 /\ stack' = <<>> /\ at' = 0 /\ dx' = 0 /\ html' = <<>> /\ shown' = <<>>
      /\ DOMAIN tables' = {"align", "space"} /\ tables'.space \subseteq Int
  BY DEF Fresh, IInv
<1>2. Fresh'
  BY <1>1 DEF Fresh
<1>3. ShownOK'
  <2>1. shown' \in Seq({})
    BY <1>1
  <2>2. Count(line'.text, 0) = 0
    BY CountZero
  <2> QED
    BY <1>1, <2>1, <2>2 DEF ShownOK, IsSeq, CharsStyled
<1>4. Phases'
  <2>1. phase' \in {"fill", "optimize", "prepare", "dump"}
    OBVIOUS
  <2> QED
    BY <1>2, <2>1 DEF Phases
<1>5. at' \in 0..Len(line'.text) /\ done' \in 0..Len(line'.offsets)
  BY <1>1 DEF LineType
<1> QED
  BY <1>1, <1>3, <1>4, <1>5 DEF IInv

\* drawString.
LEMMA FillStep == ASSUME IInv, Fill PROVE IInv'
<1>1. PICK w \in Widths \cup {0}, style \in Styles \cup {<<>>},
           c \in {LETTER, IF param[2] THEN PAD ELSE SPACE} :
        /\ line.text = <<>> => style # <<>> /\ style[VA] = 0 /\ w = 0
        /\ Draw(w, style, c)
  BY DEF Fill
<1>2. c \in Kinds
  BY DEF Kinds
<1>3. /\ LineType(line) /\ StatesOK(line) /\ AskedOK(line, asked, covered)
      /\ askedPen \in Int \X Int /\ Len(line.text) < MaxChars
  BY DEF IInv, Fill
<1>4. /\ LineType(line') /\ StatesOK(line') /\ AskedOK(line', asked', covered)
      /\ askedPen' \in Int \X Int
  BY <1>1, <1>2, <1>3, DrawKeeps
<1>5. /\ phase = "fill" /\ phase' = phase /\ covered' = covered /\ k' = k /\ newOffsets' = newOffsets
      /\ UNCHANGED <<done, stack, at, dx, html, shown, tables>>
  BY DEF Fill, loopVars, browserVars
<1>6. Fresh /\ k = 1 /\ newOffsets = <<>> /\ newOffsets \in Seq(Offset)
  BY <1>5 DEF IInv, Phases
<1>7. k' \in 1..(Len(line'.states) + 1)
  BY <1>4, <1>5, <1>6 DEF LineType
<1> QED
  BY <1>4, <1>5, <1>6, <1>7, FreshKeeps

\* No state starts behind the last character, so none is dropped.
LEMMA AllUsed ==
  ASSUME LineType(line), StatesOK(line)
  PROVE  Used = Len(line.states)
<1> DEFINE n == Len(line.states)
           S == {i \in 0..n : i = 0 \/ line.states[i].start < Len(line.text)}
<1>1. n \in Nat
  BY DEF LineType
<1>2. n \in S /\ S \subseteq 0..n
  <2>1. n = 0 \/ n \in 1..n
    BY <1>1
  <2> QED
    BY <1>1, <2>1 DEF StatesOK
<1>3. Used = Max(S)
  BY DEF Used
<1> HIDE DEF S, n
<1>4. n \in Int /\ 0 \in Int
  BY <1>1
<1>5. Max(S) \in S /\ \A m \in S : m <= Max(S)
  BY <1>2, <1>4, MaxOf
<1>6. Max(S) \in 0..n /\ n <= Max(S)
  BY <1>2, <1>5
<1> QED
  BY <1>1, <1>3, <1>6 DEF n

\* The end of the page, and dropping the states that no character uses.
LEMMA EndFillStep == ASSUME IInv, EndFill PROVE IInv'
<1>1. /\ phase = "fill" /\ line.text # <<>> /\ phase' \in {"optimize", "prepare"} /\ k' = 1
      /\ UNCHANGED <<done, newOffsets, stack, at, dx, html, shown, tables, covered, asked, askedPen>>
  BY DEF EndFill, browserVars, inputVars
<1>2. /\ Fresh /\ LineType(line) /\ StatesOK(line) /\ AskedOK(line, asked, covered)
      /\ askedPen \in Int \X Int /\ newOffsets \in Seq(Offset)
  BY <1>1 DEF IInv, Phases
<1>3. LineType(line') /\ line'.text = line.text /\ line'.states = line.states
  <2>1. line.states \in Seq(State) /\ DOMAIN line = {"text", "states", "offsets"}
    BY <1>2 DEF LineType
  <2>2. SubSeq(line.states, 1, Used) = line.states
    BY <1>2, <2>1, AllUsed
  <2>3. line' = [line EXCEPT !.states = line.states] \/ line' = line
    BY <2>2 DEF EndFill
  <2> QED
    BY <1>2, <2>1, <2>3 DEF LineType
<1>4. Restyled(line, line')
  BY <1>3 DEF Restyled
<1>5. StatesOK(line') /\ AskedOK(line', asked', covered')
  BY <1>1, <1>2, <1>3, <1>4, RestyledKeeps
<1>6. k' \in 1..(Len(line'.states) + 1)
  BY <1>1, <1>3 DEF LineType
<1> QED
  BY <1>1, <1>2, <1>3, <1>5, <1>6, FreshKeeps

\* optimize_normal restyles one state, and its offsets are offsets again.
LEMMA OptimizeStep == ASSUME IInv, OptimizeState PROVE IInv'
<1>1. /\ phase = "optimize" /\ phase' = phase /\ k' = k + 1 /\ k <= Len(line.states)
      /\ UNCHANGED <<done, stack, at, dx, html, shown, tables, covered, asked, askedPen>>
  BY DEF OptimizeState, browserVars, inputVars
<1>2. /\ Fresh /\ LineType(line) /\ StatesOK(line) /\ AskedOK(line, asked, covered)
      /\ askedPen \in Int \X Int /\ newOffsets \in Seq(Offset) /\ line.text # <<>>
  BY <1>1 DEF IInv, Phases
<1>3. k \in 1..Len(line.states) /\ line.states \in Seq(State) /\ line.states[k] \in State
  <2>1. k \in 1..Len(line.states) /\ line.states \in Seq(State)
    BY <1>1, <1>2 DEF IInv, LineType
  <2> QED
    BY <2>1
<1>4. PICK spaced, final : spaced = LetterSpaced(k) /\ final = WordSpaced(k, spaced)
  OBVIOUS
<1>5. SameStyle(final.ids, line.states[k].ids) /\ final.mask \subseteq {WS}
  BY <1>2, <1>3, <1>4, WordSpacedType
<1> DEFINE s == [line.states[k] EXCEPT !.ids = final.ids, !.mask = final.mask]
           states == [line.states EXCEPT ![k] = s]
<1>6. line' = [line EXCEPT !.states = states]
  BY <1>4 DEF OptimizeState
<1>7. /\ s \in State /\ s.start = line.states[k].start
      /\ \A j \in StyleIds : s.ids[j] = line.states[k].ids[j]
  BY <1>3, <1>5 DEF State, SameStyle
<1> HIDE DEF s
<1>8. /\ states \in Seq(State) /\ Len(states) = Len(line.states) /\ states[k] = s
      /\ \A i \in 1..Len(line.states) : i # k => states[i] = line.states[i]
  BY <1>3, <1>7
<1> HIDE DEF states
<1>9. LineType(line') /\ line'.text = line.text /\ line'.states = states
  BY <1>2, <1>6, <1>8 DEF LineType
<1>10. Restyled(line, line')
  BY <1>7, <1>8, <1>9 DEF Restyled
<1>11. StatesOK(line') /\ AskedOK(line', asked', covered')
  BY <1>1, <1>2, <1>9, <1>10, RestyledKeeps
<1>12. newOffsets' \in Seq(Offset)
  <2>1. newOffsets' = newOffsets \o OffsetsBefore(k) \o spaced.offsets
    BY <1>4 DEF OptimizeState
  <2>2. OffsetsBefore(k) \in Seq(Offset) /\ spaced.offsets \in Seq(Offset)
    BY <1>2, <1>3, <1>4, OwnType, LetterSpacedType
  <2> QED
    BY <1>2, <2>1, <2>2
<1>13. k' \in 1..(Len(line'.states) + 1)
  BY <1>1, <1>3, <1>8, <1>9
<1> QED
  BY <1>1, <1>2, <1>9, <1>11, <1>12, <1>13, FreshKeeps

\* The new offsets take the place of the old ones.
LEMMA EndOptimizeStep == ASSUME IInv, EndOptimize PROVE IInv'
<1>1. /\ phase = "optimize" /\ phase' = "prepare" /\ line' = [line EXCEPT !.offsets = newOffsets]
      /\ UNCHANGED <<done, stack, at, dx, html, shown, tables, covered, asked, askedPen, k, newOffsets>>
  BY DEF EndOptimize, browserVars, inputVars, loopVars
<1>2. /\ Fresh /\ LineType(line) /\ StatesOK(line) /\ AskedOK(line, asked, covered)
      /\ askedPen \in Int \X Int /\ newOffsets \in Seq(Offset) /\ line.text # <<>>
      /\ k \in 1..(Len(line.states) + 1)
  BY <1>1 DEF IInv, Phases
<1>3. LineType(line') /\ line'.text = line.text /\ line'.states = line.states
  BY <1>1, <1>2 DEF LineType
<1>4. Restyled(line, line')
  BY <1>3 DEF Restyled
<1>5. StatesOK(line') /\ AskedOK(line', asked', covered')
  BY <1>1, <1>2, <1>3, <1>4, RestyledKeeps
<1> QED
  BY <1>1, <1>2, <1>3, <1>5, FreshKeeps

\* prepare adds the hashes.
LEMMA PrepareStep == ASSUME IInv, Prepare PROVE IInv'
<1>1. /\ phase = "prepare" /\ phase' = "dump" /\ k' = 1
      /\ UNCHANGED <<done, stack, at, dx, html, shown, tables, covered, asked, askedPen, newOffsets>>
  BY DEF Prepare, browserVars, inputVars
<1>2. /\ Fresh /\ LineType(line) /\ StatesOK(line) /\ AskedOK(line, asked, covered)
      /\ askedPen \in Int \X Int /\ newOffsets \in Seq(Offset) /\ line.text # <<>>
  BY <1>1 DEF IInv, Phases
<1> DEFINE hash(i) == [j \in Ids |-> line.states[i].ids[j] % HashClasses]
           s(i) == [line.states[i] EXCEPT !.hash = hash(i)]
           states == [i \in 1..Len(line.states) |-> s(i)]
<1>3. line' = [line EXCEPT !.states = states]
  BY DEF Prepare
<1>4. line.states \in Seq(State) /\ Len(line.states) \in Nat
  BY <1>2 DEF LineType
<1>5. ASSUME NEW i \in 1..Len(line.states)
      PROVE  s(i) \in State /\ s(i).start = line.states[i].start /\ s(i).ids = line.states[i].ids
  <2>1. line.states[i] \in State
    BY <1>4
  <2>2. line.states[i].ids \in [Ids -> Int]
    BY <2>1, StateFields
  <2>3. hash(i) \in [Ids -> Int]
    BY <2>2, TextLineAssumption
  <2> HIDE DEF hash
  <2> QED
    BY <2>1, <2>3 DEF State
<1> HIDE DEF s
<1>6. states \in Seq(State) /\ Len(states) = Len(line.states)
      /\ \A i \in 1..Len(line.states) : states[i] = s(i)
  BY <1>4, <1>5
<1> HIDE DEF states
<1>7. LineType(line') /\ line'.text = line.text /\ line'.states = states
  BY <1>2, <1>3, <1>6 DEF LineType
<1>8. Restyled(line, line')
  BY <1>5, <1>6, <1>7 DEF Restyled
<1>9. StatesOK(line') /\ AskedOK(line', asked', covered')
  BY <1>1, <1>2, <1>7, <1>8, RestyledKeeps
<1>10. k' \in 1..(Len(line'.states) + 1)
  BY <1>1, <1>4, <1>6, <1>7
<1> QED
  BY <1>1, <1>2, <1>7, <1>9, <1>10, FreshKeeps

-----------------------------------------------------------------------------
(* A state begins.                                                         *)

\* The fields of an open state, and what begin changes in it.
StateFieldNames == {"start", "ids", "va", "mask", "hash", "close"}
Placed(s, va, align) == [s EXCEPT !.va = va, !.ids[VA] = align]
WithClose(s, c) == [s EXCEPT !.close = c]

\* A state that is placed under its parent keeps all but its alignment.
LEMMA PlacedFacts ==
  ASSUME NEW s \in State, NEW va, NEW align
  PROVE  LET t == Placed(s, va, align)
         IN /\ DOMAIN t = StateFieldNames /\ DOMAIN t.ids = Ids /\ t.mask \subseteq {WS}
            /\ t.mask = s.mask
            /\ \A i \in HashIds : t.ids[i] = s.ids[i] /\ t.ids[i] \in Int
<1>1. /\ DOMAIN s = StateFieldNames /\ s.ids \in [Ids -> Int] /\ s.mask \subseteq {WS}
  BY StateFields DEF StateFieldNames
<1>2. \A i \in HashIds : i \in Ids /\ i # VA
  BY DEF HashIds, Ids, FONT, WS, VA
<1>3. PICK t : t = Placed(s, va, align)
  OBVIOUS
<1>4. /\ DOMAIN t = DOMAIN s /\ t.ids = [s.ids EXCEPT ![VA] = align] /\ t.mask = s.mask
  BY <1>1, <1>3 DEF Placed, StateFieldNames
<1> QED
  BY <1>1, <1>2, <1>3, <1>4

\* Whether a state opens an element is noted in it, and nothing else changes.
LEMMA WithCloseFacts ==
  ASSUME NEW t, DOMAIN t = StateFieldNames, DOMAIN t.ids = Ids, t.mask \subseteq {WS},
         \A i \in HashIds : t.ids[i] \in Int, NEW c \in BOOLEAN
  PROVE  /\ Opened(WithClose(t, c)) /\ WithClose(t, c).close = c /\ WithClose(t, c).ids = t.ids
         /\ WithClose(t, c).mask = t.mask
<1>1. PICK u : u = WithClose(t, c)
  OBVIOUS
<1>2. DOMAIN u = StateFieldNames /\ u.ids = t.ids /\ u.mask = t.mask /\ u.close = c
  BY <1>1 DEF WithClose, StateFieldNames
<1> QED
  BY <1>1, <1>2 DEF Opened, StateFieldNames

\* A child takes over the classes it leaves free, unless they are free in its parent.
LEMMA InheritedFacts ==
  ASSUME NEW s \in State, NEW va, NEW align, NEW prev, Opened(prev)
  PROVE  LET t == Inherited(Placed(s, va, align), prev)
         IN /\ DOMAIN t = StateFieldNames /\ DOMAIN t.ids = Ids /\ t.mask \subseteq {WS}
            /\ \A i \in HashIds : t.ids[i] \in Int
            /\ DressedAs(t, s)
<1>1. PICK r : r = Placed(s, va, align)
  OBVIOUS
<1>2. /\ DOMAIN r = StateFieldNames /\ DOMAIN r.ids = Ids /\ r.mask \subseteq {WS} /\ r.mask = s.mask
      /\ \A i \in HashIds : r.ids[i] = s.ids[i] /\ r.ids[i] \in Int
  BY <1>1, PlacedFacts
<1>3. PICK from : from = {i \in r.mask : i \notin prev.mask}
  OBVIOUS
<1>4. PICK ids : ids = [i \in Ids |-> IF i \in from THEN prev.ids[i] ELSE r.ids[i]]
  OBVIOUS
<1>5. PICK t : t = [r EXCEPT !.ids = ids, !.mask = @ \ from]
  OBVIOUS
<1>6. t = Inherited(Placed(s, va, align), prev)
  BY <1>1, <1>3, <1>4, <1>5 DEF Inherited
<1>7. DOMAIN t = StateFieldNames /\ t.ids = ids /\ t.mask = r.mask \ from
  BY <1>2, <1>5 DEF StateFieldNames
<1>8. \A i \in HashIds : i \in Ids
  BY DEF HashIds, Ids, FONT, WS, VA
<1>9. \A i \in HashIds : ids[i] \in Int
  BY <1>2, <1>4, <1>8 DEF Opened
<1>10. \A i \in HashIds \ s.mask : ids[i] = s.ids[i]
  BY <1>2, <1>3, <1>4, <1>8
<1>11. DressedAs(t, s)
  BY <1>2, <1>7, <1>10 DEF DressedAs
<1> QED
  BY <1>2, <1>4, <1>6, <1>7, <1>9, <1>11

\* The parent is one of the open states.
LEMMA ParentType ==
  ASSUME NEW s, IsSeq(stack), stack # <<>>
  PROVE  Parent(s) \in 1..Len(stack)
<1> DEFINE best == {p \in Reached(s) : \A q \in Reached(s) : Cost(s, p) <= Cost(s, q)}
<1>1. Len(stack) \in Nat /\ Len(stack) \in 1..Len(stack)
  BY IsSeqFacts
<1>2. best \subseteq 1..Len(stack)
  BY DEF Reached
<1>3. Parent(s) = Len(stack) \/ (best # {} /\ Parent(s) = Max(best))
  BY DEF Parent
<1> HIDE DEF best
<1>4. CASE Parent(s) = Len(stack)
  BY <1>1, <1>4
<1>5. CASE best # {} /\ Parent(s) = Max(best)
  <2>1. 1 \in Int /\ Len(stack) \in Int
    BY <1>1
  <2>2. Max(best) \in best
    BY <1>2, <1>5, <2>1, MaxOf, Zenon
  <2> QED
    BY <1>2, <1>5, <2>2
<1> QED
  BY <1>3, <1>4, <1>5

\* An element sets the classes it is given to their ids.
LEMMA ElementFacts ==
  ASSUME NEW ids, NEW set, NEW va
  PROVE  /\ "class" \in DOMAIN Element(ids, set, va)
         /\ DOMAIN Element(ids, set, va).class = set
         /\ \A i \in set : Element(ids, set, va).class[i] = ids[i]
  BY DEF Element

\* The first state opens the line's own element.
LEMMA BeginFirst ==
  ASSUME stack = <<>>, html = <<>>, NEW s \in State, NEW va, NEW align, Begin(s, 0, va, align)
  PROVE  Nested(stack', html') /\ DressedAs(Last(stack'), s)
<1>1. PICK t, set, e : /\ t = Placed(s, va, align) /\ set = HashIds \ s.mask
                       /\ e = Element(t.ids, set, 0)
  OBVIOUS
<1>2. /\ DOMAIN t = StateFieldNames /\ DOMAIN t.ids = Ids /\ t.mask \subseteq {WS} /\ t.mask = s.mask
      /\ \A i \in HashIds : t.ids[i] = s.ids[i] /\ t.ids[i] \in Int
  BY <1>1, PlacedFacts
<1>3. PICK u : u = WithClose(t, FALSE)
  OBVIOUS
<1>4. Opened(u) /\ ~u.close /\ u.ids = t.ids /\ u.mask = s.mask
  BY <1>2, <1>3, WithCloseFacts
<1>5. ElementsAbove(0) = {}
  BY DEF ElementsAbove
<1>6. stack' = <<u>>
  <2>1. ~(0 > 0)
    OBVIOUS
  <2>2. stack' = Append(SubSeq(stack, 1, 0), u)
    BY <1>1, <1>3, <2>1 DEF Begin, Placed, WithClose
  <2>3. SubSeq(stack, 1, 0) = <<>> /\ Append(<<>>, u) = <<u>>
    OBVIOUS
  <2> QED
    BY <2>2, <2>3, Zenon
<1>7. html' = <<e>>
  <2>1. Cardinality(ElementsAbove(0)) = 0
    BY <1>5, FS_EmptySet
  <2>2. ~(0 > 0)
    OBVIOUS
  <2>3. html' = Append(SubSeq(html, 1, Len(html) - Cardinality(ElementsAbove(0))), e)
    BY <1>1, <2>2 DEF Begin, Enter, Placed
  <2>4. Len(html) - 0 = 0 /\ SubSeq(html, 1, 0) = <<>> /\ Append(<<>>, e) = <<e>>
    OBVIOUS
  <2> QED
    BY <2>1, <2>3, <2>4, Zenon
<1>8. /\ "class" \in DOMAIN e
      /\ \A i \in HashIds \ u.mask : i \in DOMAIN e.class /\ e.class[i] = u.ids[i]
  BY <1>1, <1>4, ElementFacts
<1>9. Nested(stack', html')
  BY <1>4, <1>6, <1>7, <1>8, NestedFirst
<1>10. Last(stack') = u
  BY <1>6 DEF Last
<1> QED
  BY <1>2, <1>4, <1>9, <1>10 DEF DressedAs

\* Any other state leaves the elements inside its parent, and opens one for the
\* classes that differ: the others are those of the parent.
LEMMA BeginNext ==
  ASSUME Nested(stack, html), NEW s \in State, NEW p \in 1..Len(stack), NEW va, NEW align,
         Begin(s, p, va, align)
  PROVE  Nested(stack', html') /\ DressedAs(Last(stack'), s)
<1>1. IsSeq(stack) /\ Len(stack) \in Nat /\ p \in Nat /\ p # 0 /\ p > 0
  BY IsSeqFacts DEF Nested
<1>2. PICK prev, t, set : /\ prev = stack[p] /\ t = Inherited(Placed(s, va, align), prev)
                          /\ set = Written(t, prev)
  OBVIOUS
<1>3. Opened(prev)
  BY <1>2 DEF Nested
<1>4. /\ DOMAIN t = StateFieldNames /\ DOMAIN t.ids = Ids /\ t.mask \subseteq {WS}
      /\ \A i \in HashIds : t.ids[i] \in Int
      /\ DressedAs(t, s)
  BY <1>2, <1>3, InheritedFacts
<1>5. PICK opens \in BOOLEAN : opens <=> set # {} \/ va # 0
  OBVIOUS
<1>6. PICK u : u = WithClose(t, opens)
  OBVIOUS
<1>7. Opened(u) /\ u.close = opens /\ u.ids = t.ids /\ u.mask = t.mask
  BY <1>4, <1>6, WithCloseFacts
<1>8. PICK st, h : /\ st = SubSeq(stack, 1, p)
                   /\ h = SubSeq(html, 1, Len(html) - Cardinality(ElementsAbove(p)))
  OBVIOUS
<1>9. Nested(st, h)
  <2>1. ElementsAbove(p) = ClosedAbove(stack, p, Len(stack))
    BY DEF ElementsAbove, ClosedAbove
  <2> QED
    BY <1>8, <2>1, NestedCut
<1>10. Last(st) = prev
  <2>1. Len(st) = p /\ st[p] = stack[p]
    BY <1>1, <1>8, IsSeqPrefix
  <2> QED
    BY <1>2, <2>1 DEF Last
<1>11. PICK e : e = Element(t.ids, set, IF va # 0 THEN align ELSE 0)
  OBVIOUS
<1>12. stack' = Append(st, u)
  BY <1>1, <1>2, <1>5, <1>6, <1>8 DEF Begin, Placed, WithClose
<1>13. html' = IF opens THEN Append(h, e) ELSE h
  BY <1>1, <1>2, <1>5, <1>8, <1>11 DEF Begin, Enter, Placed
<1>14. \A i \in HashIds \ u.mask : i \notin set => i \notin prev.mask /\ u.ids[i] = prev.ids[i]
  BY <1>2, <1>7 DEF Written
<1>15. Nested(stack', html')
  <2>1. CASE opens
    <3>1. /\ "class" \in DOMAIN e
          /\ \A i \in HashIds \ u.mask :
               IF i \in DOMAIN e.class THEN u.ids[i] = e.class[i]
               ELSE i \notin Last(st).mask /\ u.ids[i] = Last(st).ids[i]
      BY <1>7, <1>10, <1>11, <1>14, ElementFacts
    <3>2. Nested(Append(st, u), Append(h, e))
      BY <1>7, <1>9, <2>1, <3>1, NestedPush
    <3> QED
      BY <1>12, <1>13, <2>1, <3>2
  <2>2. CASE ~opens
    <3>1. \A i \in HashIds \ u.mask : i \notin Last(st).mask /\ u.ids[i] = Last(st).ids[i]
      BY <1>5, <1>10, <1>14, <2>2
    <3>2. Nested(Append(st, u), h)
      BY <1>7, <1>9, <2>2, <3>1, NestedStay
    <3> QED
      BY <1>12, <1>13, <2>2, <3>2
  <2> QED
    BY <2>1, <2>2
<1>16. Last(stack') = u
  <2>1. IsSeq(st)
    BY <1>9 DEF Nested
  <2>2. Len(Append(st, u)) = Len(st) + 1 /\ Append(st, u)[Len(st) + 1] = u
    BY <2>1, IsSeqAppend
  <2> QED
    BY <1>12, <2>2 DEF Last
<1> QED
  BY <1>4, <1>7, <1>15, <1>16 DEF DressedAs

\* What a step that writes leaves alone.
LineUnchanged == UNCHANGED <<line, newOffsets, covered, asked, askedPen>>

\* What remains to be shown for a step of the writing loop.
LEMMA WritingKeeps ==
  ASSUME IInv, phase = "dump", LineUnchanged, phase' = phase, Writing', ShownOK',
         k' \in 1..(Len(line.states) + 1), at' \in 0..Len(line.text),
         done' \in 0..Len(line.offsets), dx' \in Int,
         DOMAIN tables' = {"align", "space"}, tables'.space \subseteq Int
  PROVE  IInv'
<1>1. /\ line' = line /\ newOffsets' = newOffsets /\ covered' = covered /\ asked' = asked
      /\ askedPen' = askedPen
  BY DEF LineUnchanged
<1>2. Phases'
  BY <1>1 DEF Phases, IInv
<1>3. AskedOK(line, asked, covered)' /\ LineType(line)' /\ StatesOK(line)'
  BY <1>1 DEF IInv, AskedOK, AskedAs, Segment, EndOf, LineType, StatesOK
<1> QED
  BY <1>1, <1>2, <1>3 DEF IInv

\* Where a state ends is the end of its segment.
LEMMA StateEndIs == \A i \in 1..Len(line.states) : StateEnd(i) = EndOf(line, i)
  BY DEF StateEnd, EndOf

\* A step that shows nothing.
LEMMA ShownKept ==
  ASSUME ShownOK, UNCHANGED <<line, at, shown, asked>>
  PROVE  ShownOK'
<1>1. Len(shown') = Count(line'.text, at') /\ IsSeq(shown')
  BY DEF ShownOK
<1>2. CharsStyled'
  BY DEF ShownOK, CharsStyled
<1> QED
  BY <1>1, <1>2 DEF ShownOK

\* State::begin inside whichever parent is chosen.
LEMMA BeginStateStep == ASSUME IInv, BeginState PROVE IInv'
<1>1. /\ phase = "dump" /\ phase' = phase /\ k <= Len(line.states) /\ at = line.states[k].start
      /\ k' = k + 1 /\ LineUnchanged
      /\ UNCHANGED <<done, dx, at, shown, line, asked>>
  BY DEF BeginState, inputVars, LineUnchanged
<1>2. PICK s, p, va, align :
        /\ s = line.states[k] /\ p = IF stack = <<>> THEN 0 ELSE Parent(s)
        /\ Begin(s, p, va, align)
  BY DEF BeginState
<1>3. LineType(line) /\ StatesOK(line) /\ k \in 1..Len(line.states) /\ k \in Nat
  BY <1>1 DEF IInv
<1>4. s \in State
  BY <1>2, <1>3 DEF LineType
<1>5. Nested(stack', html') /\ DressedAs(Last(stack'), s)
  <2>1. CASE Fresh
    <3>1. stack = <<>> /\ html = <<>>
      BY <2>1 DEF Fresh
    <3> QED
      BY <1>2, <1>4, <3>1, BeginFirst
  <2>2. CASE Writing
    <3>1. Nested(stack, html)
      BY <2>2 DEF Writing
    <3>2. IsSeq(stack) /\ stack # <<>>
      BY <3>1 DEF Nested
    <3>3. p \in 1..Len(stack)
      BY <1>2, <3>2, ParentType
    <3> QED
      BY <1>2, <1>4, <3>1, <3>3, BeginNext
  <2> QED
    BY <1>1, <2>1, <2>2 DEF IInv, Phases
<1>6. Writing'
  <2>1. line' = line /\ at' = at /\ k' - 1 = k
    BY <1>1, <1>3
  <2>2. line.states[k].start <= at /\ at <= EndOf(line, k)
    BY <1>1, <1>3, EndOfType
  <2>3. StateEnd(k - 1)' = EndOf(line, k)
    BY <2>1 DEF StateEnd, EndOf
  <2> QED
    BY <1>2, <1>3, <1>5, <2>1, <2>2, <2>3 DEF Writing
<1>7. ShownOK'
  BY <1>1, ShownKept DEF IInv
<1>8. tables'.space = tables.space /\ DOMAIN tables' = {"align", "space"}
  <2>1. tables' = [tables EXCEPT !.align = @ \cup {align}]
    BY <1>2 DEF Begin
  <2>2. DOMAIN tables = {"align", "space"}
    BY DEF IInv
  <2> QED
    BY <2>1, <2>2
<1>9. k' \in 1..(Len(line.states) + 1)
  BY <1>1, <1>3
<1>10. /\ at' \in 0..Len(line.text) /\ done' \in 0..Len(line.offsets) /\ dx' \in Int
       /\ DOMAIN tables' = {"align", "space"} /\ tables'.space \subseteq Int
  BY <1>1, <1>8 DEF IInv
<1> QED
  BY <1>1, <1>6, <1>7, <1>9, <1>10, WritingKeeps

-----------------------------------------------------------------------------
(* What a state holds is written.                                          *)

\* The width of a space is an integer.
LEMMA SpaceType ==
  ASSUME NEW ids, \A i \in HashIds : ids[i] \in Int
  PROVE  SingleSpaceOffset(ids) \in Int
<1>1. ids[SIZE] \in Int /\ ids[LS] \in Int /\ ids[WS] \in Int
  BY DEF HashIds, FONT, SIZE, LS, WS
<1>2. SPACE_WIDTH * ids[SIZE] \in Int
  BY <1>1 DEF SPACE_WIDTH
<1> QED
  BY <1>1, <1>2 DEF SingleSpaceOffset

\* A class is an integer within eps of the value, new or not.
LEMMA ClassForType ==
  ASSUME NEW table, table \subseteq Int, NEW v \in Int, NEW eps \in Nat
  PROVE  ClassFor(table, v, eps) \in Int /\ Abs(ClassFor(table, v, eps) - v) <= eps
<1> DEFINE near == {c \in table : Abs(c - v) <= eps}
<1>1. near \in SUBSET ((v - eps)..(v + eps)) /\ near \subseteq Int
  <2>1. ASSUME NEW c \in near PROVE c \in (v - eps)..(v + eps) /\ c \in Int
    <3>1. c \in table /\ Abs(c - v) <= eps
      OBVIOUS
    <3>2. c \in Int
      BY <3>1
    <3> HIDE DEF near
    <3> QED
      BY <3>1, <3>2 DEF Abs
  <2> HIDE DEF near
  <2>2. near \subseteq (v - eps)..(v + eps) /\ near \subseteq Int
    BY <2>1, Zenon
  <2> QED
    BY <2>2, Zenon
<1>2. ClassFor(table, v, eps) = IF near = {} THEN v ELSE Min(near)
  BY DEF ClassFor
<1>3. \A c \in near : Abs(c - v) <= eps
  OBVIOUS
<1> HIDE DEF near
<1>4. IsFiniteSet(near)
  <2>1. v - eps \in Int /\ v + eps \in Int
    OBVIOUS
  <2>2. IsFiniteSet((v - eps)..(v + eps))
    BY <2>1, FS_Interval
  <2> QED
    BY <1>1, <2>2, FS_Subset
<1>5. CASE near = {}
  BY <1>2, <1>5 DEF Abs
<1>6. CASE near # {}
  <2>1. Min(near) \in near
    BY <1>1, <1>4, <1>6, MinOf
  <2> QED
    BY <1>1, <1>2, <1>3, <1>6, <2>1
<1> QED
  BY <1>5, <1>6

\* A margin changes no class.
LEMMA NestedSame ==
  ASSUME NEW st, NEW h, Nested(st, h), NEW g, IsSeq(g), Len(g) = Len(h), SameClasses(g, h, Len(h)),
         \A e \in 1..Len(g) : "class" \in DOMAIN g[e]
  PROVE  Nested(st, g)
<1>1. IsSeq(st) /\ Len(st) \in Nat /\ Len(h) = Height(st, Len(st)) /\ Len(h) \in Nat
  BY IsSeqFacts DEF Nested
<1>2. ASSUME NEW p \in 1..Len(st), NEW i \in HashIds \ st[p].mask
      PROVE  Effect(g, Height(st, p), i) = st[p].ids[i]
  <2>1. p \in Nat /\ p <= Len(st)
    BY <1>1
  <2>2. Height(st, p) \in Nat /\ Height(st, p) <= Len(h)
    BY <1>1, <2>1, HeightSplit, HeightType
  <2>3. SameClasses(g, h, Height(st, p))
    BY <1>1, <2>2 DEF SameClasses
  <2>4. Effect(g, Height(st, p), i) = Effect(h, Height(st, p), i)
    BY <2>2, <2>3, EffectSame
  <2> QED
    BY <2>4 DEF Nested
<1> QED
  BY <1>2 DEF Nested

\* A margin leaves the classes of the elements as they are.
LEMMA MarginNested ==
  ASSUME Nested(stack, html), NEW m, html' = [html EXCEPT ![Len(html)].margin = m]
  PROVE  Nested(stack, html')
<1>1. PICK X : html \in Seq(X)
  BY DEF Nested, IsSeq
<1>2. PICK n, e : n = Len(html) /\ e = [html[n] EXCEPT !.margin = m]
  OBVIOUS
<1>3. html' = [html EXCEPT ![n] = e]
  BY <1>2
<1>4. n \in Nat /\ n \in 1..n
  <2>1. n = Height(stack, Len(stack)) /\ Len(stack) \in Nat
    BY <1>2, IsSeqFacts DEF Nested
  <2>2. n \in Nat /\ 1 <= n
    BY <2>1, HeightType
  <2> QED
    BY <2>2
<1>5. "class" \in DOMAIN e /\ e.class = html[n].class
  <2>1. "class" \in DOMAIN html[n]
    BY <1>2, <1>4 DEF Nested
  <2> QED
    BY <1>2, <2>1
<1>6. html \in Seq(X \cup {e})
  BY <1>1, SeqMonotonic
<1>7. html' \in Seq(X \cup {e}) /\ Len(html') = n /\ html'[n] = e
      /\ \A j \in 1..n : j # n => html'[j] = html[j]
  BY <1>2, <1>3, <1>4, <1>6
<1>8. IsSeq(html')
  BY <1>7 DEF IsSeq
<1>9. SameClasses(html', html, n) /\ \A j \in 1..n : "class" \in DOMAIN html'[j]
  BY <1>2, <1>5, <1>7 DEF Nested, SameClasses
<1>10. /\ Len(html') = Len(html) /\ SameClasses(html', html, Len(html))
       /\ \A j \in 1..Len(html') : "class" \in DOMAIN html'[j]
  BY <1>2, <1>7, <1>9
<1> QED
  BY <1>8, <1>10, NestedSame

\* While k > 1, a line is being written.
LEMMA AtWork ==
  ASSUME IInv, phase = "dump", k > 1
  PROVE  Writing /\ ShownOK /\ LineType(line) /\ StatesOK(line) /\ AskedOK(line, asked, covered)
<1>1. ~(k = 1)
  BY DEF IInv
<1> QED
  BY <1>1 DEF IInv, Phases

\* Whichever way an offset is written, no class of an open element changes.
LEMMA EmitOffsetStep == ASSUME IInv, EmitOffset PROVE IInv'
<1>1. /\ phase = "dump" /\ phase' = phase /\ k > 1 /\ OffsetDue /\ done' = done + 1
      /\ LineUnchanged /\ UNCHANGED <<k, stack, at, shown, line, asked>>
  BY DEF EmitOffset, inputVars, LineUnchanged
<1>2. Writing /\ ShownOK /\ LineType(line)
  BY <1>1, AtWork
<1>3. done \in 0..Len(line.offsets) /\ done < Len(line.offsets) /\ line.offsets \in Seq(Offset)
  BY <1>1, <1>2 DEF IInv, LineType, OffsetDue
<1>4. done' \in 0..Len(line.offsets) /\ done + 1 \in 1..Len(line.offsets)
  BY <1>1, <1>3
<1>5. PICK target, s, space, class :
        /\ target = line.offsets[done + 1].width + dx /\ s = Last(stack)
        /\ space = SingleSpaceOffset(s.ids) /\ class = ClassFor(tables.space, target, HEps)
  OBVIOUS
<1>6. target \in Int
  <2>1. line.offsets[done + 1] \in Offset
    BY <1>3, <1>4
  <2>2. line.offsets[done + 1].width \in Int /\ dx \in Int
    BY <2>1, OffsetFields DEF IInv
  <2> QED
    BY <1>5, <2>2
<1>7. space \in Int
  <2>1. IsSeq(stack) /\ stack # <<>>
    BY <1>2 DEF Writing, Nested
  <2>2. s = stack[Len(stack)] /\ Len(stack) \in 1..Len(stack)
    BY <1>5, <2>1, IsSeqFacts
  <2>3. Opened(s)
    BY <1>2, <2>2 DEF Writing, Nested
  <2> QED
    BY <1>5, <2>3, SpaceType DEF Opened
<1>8. class \in Int
  BY <1>5, <1>6, ClassForType, TextLineAssumption DEF IInv
<1>9. \/ /\ dx' = target
         /\ UNCHANGED <<tables, html>>
      \/ /\ dx' = target - space
         /\ UNCHANGED <<tables, html>>
      \/ /\ dx' = target - class
         /\ tables' = [tables EXCEPT !.space = @ \cup {class}]
         /\ html' = [html EXCEPT ![Len(html)].margin = @ + Min({class, 0})]
  BY <1>5 DEF EmitOffset
<1>10. dx' \in Int
  BY <1>6, <1>7, <1>8, <1>9
<1>11. DOMAIN tables' = {"align", "space"} /\ tables'.space \subseteq Int
  BY <1>8, <1>9 DEF IInv
<1>12. Nested(stack, html')
  <2>1. Nested(stack, html)
    BY <1>2 DEF Writing
  <2>2. CASE html' = html
    BY <2>1, <2>2
  <2>3. CASE html' = [html EXCEPT ![Len(html)].margin = @ + Min({class, 0})]
    <3>1. PICK m : m = html[Len(html)].margin + Min({class, 0})
      OBVIOUS
    <3>2. html' = [html EXCEPT ![Len(html)].margin = m]
      BY <2>3, <3>1
    <3> QED
      BY <2>1, <3>2, MarginNested
  <2> QED
    BY <1>9, <2>2, <2>3
<1>13. Writing'
  BY <1>1, <1>2, <1>12 DEF Writing, StateEnd
<1>14. ShownOK'
  BY <1>1, <1>2, ShownKept
<1>15. k' \in 1..(Len(line.states) + 1) /\ at' \in 0..Len(line.text)
  BY <1>1 DEF IInv
<1> QED
  BY <1>1, <1>4, <1>10, <1>11, <1>13, <1>14, <1>15, WritingKeeps

\* What the browser applies is what all open elements leave in effect.
LEMMA EffectiveIs ==
  ASSUME NEW i \in HashIds
  PROVE  Effective[i] = Effect(html, Len(html), i)
  BY DEF Effective, Effect, Setting

\* What it applies is what the innermost open state holds.
LEMMA EffectiveTop ==
  ASSUME Nested(stack, html), NEW i \in HashIds \ Last(stack).mask
  PROVE  Effective[i] = Last(stack).ids[i]
<1>1. IsSeq(stack) /\ stack # <<>> /\ Len(html) = Height(stack, Len(stack))
  BY DEF Nested
<1>2. Len(stack) \in 1..Len(stack) /\ Last(stack) = stack[Len(stack)]
  BY <1>1, IsSeqFacts
<1>3. Effect(html, Len(html), i) = Last(stack).ids[i]
  BY <1>1, <1>2 DEF Nested
<1> QED
  BY <1>3, EffectiveIs

\* A concatenation keeps what is there.
LEMMA IsSeqConcat ==
  ASSUME NEW s, NEW t, IsSeq(s), IsSeq(t)
  PROVE  /\ IsSeq(s \o t) /\ Len(s \o t) = Len(s) + Len(t)
         /\ \A i \in 1..Len(s) : (s \o t)[i] = s[i]
         /\ \A i \in 1..Len(t) : (s \o t)[Len(s) + i] = t[i]
<1>1. PICK X, Y : s \in Seq(X) /\ t \in Seq(Y)
  BY DEF IsSeq
<1>2. s \in Seq(X \cup Y) /\ t \in Seq(X \cup Y)
  BY <1>1, SeqMonotonic
<1>3. s \o t \in Seq(X \cup Y)
  BY <1>2
<1> QED
  BY <1>2, <1>3 DEF IsSeq

\* A function on 1..n is a sequence of length n.
LEMMA IsSeqFunction ==
  ASSUME NEW n \in Nat, NEW f, DOMAIN f = 1..n, f = [j \in 1..n |-> f[j]]
  PROVE  IsSeq(f) /\ Len(f) = n
<1>1. f \in [1..n -> {f[j] : j \in 1..n}]
  OBVIOUS
<1>2. f \in Seq({f[j] : j \in 1..n})
  BY <1>1
<1>3. IsSeq(f)
  BY <1>2 DEF IsSeq
<1>4. Len(f) \in Nat /\ DOMAIN f = 1..Len(f)
  BY <1>2, LenProperties
<1>5. Len(f) = n
  <2>1. Len(f) > n => Len(f) \in 1..Len(f) /\ Len(f) \notin 1..n
    BY <1>4
  <2>2. Len(f) < n => n \in 1..n /\ n \notin 1..Len(f)
    BY <1>4
  <2> QED
    BY <1>4, <2>1, <2>2
<1> QED
  BY <1>3, <1>5

\* Text is written up to the next offset or the end of the state.
TextEnd == IF done < Len(line.offsets)
           THEN Min({StateEnd(k - 1), line.offsets[done + 1].start}) ELSE StateEnd(k - 1)
LEMMA TextEndIs ==
  ASSUME LineType(line), StatesOK(line), k - 1 \in 1..Len(line.states), at \in Nat,
         at < StateEnd(k - 1), ~OffsetDue, done \in Nat
  PROVE  /\ TextEnd \in Nat /\ at < TextEnd /\ TextEnd <= StateEnd(k - 1)
         /\ done < Len(line.offsets) => TextEnd <= line.offsets[done + 1].start
<1>1. StateEnd(k - 1) \in Nat
  BY StateEndIs, EndOfType
<1>2. CASE done < Len(line.offsets)
  <2>1. line.offsets \in Seq(Offset) /\ done + 1 \in 1..Len(line.offsets)
    BY <1>2 DEF LineType
  <2>2. line.offsets[done + 1] \in Offset
    BY <2>1
  <2>3. PICK a, b : a = StateEnd(k - 1) /\ b = line.offsets[done + 1].start
    OBVIOUS
  <2>4. b \in Nat /\ at < b /\ a \in Nat /\ at < a
    BY <1>1, <1>2, <2>2, <2>3, OffsetFields DEF OffsetDue
  <2>5. {a, b} = {a} \cup {b} /\ {a, b} \subseteq Int /\ {a, b} # {} /\ a \in {a, b} /\ b \in {a, b}
    BY <2>4
  <2>6. IsFiniteSet({a} \cup {b})
    BY FS_Singleton, FS_AddElement
  <2>7. Min({a, b}) \in {a, b} /\ Min({a, b}) <= a /\ Min({a, b}) <= b
    <3>1. IsFiniteSet({a, b})
      BY <2>5, <2>6
    <3> QED
      BY <2>5, <3>1, MinOf
  <2>8. TextEnd = Min({a, b})
    BY <1>2, <2>3 DEF TextEnd
  <2> QED
    BY <2>3, <2>4, <2>7, <2>8
<1>3. CASE ~(done < Len(line.offsets))
  BY <1>1, <1>3 DEF TextEnd
<1> QED
  BY <1>2, <1>3

\* The i-th character shown is the one after t, at this place of the line and in
\* what the browser applies.
ShownAt(i, t) ==
  /\ t \in at..(TextEnd - 1) /\ line.text[t + 1] # PAD /\ Count(line.text, t + 1) = i
  /\ shown'[i].x = pen[1] + Advance(at, t, Effective) /\ shown'[i].y = pen[2]
  /\ shown'[i].font = Effective[FONT] /\ shown'[i].size = Effective[SIZE]
  /\ shown'[i].hidden = (t \in covered)
OldOrNew(i) == (i \in 1..Len(shown) /\ shown'[i] = shown[i]) \/ \E t : ShownAt(i, t)

\* What EmitText adds to the shown characters.
LEMMA TextShown ==
  ASSUME IInv, EmitText
  PROVE  /\ IsSeq(shown') /\ Len(shown') = Count(line.text, TextEnd)
         /\ \A i \in 1..Len(shown') : OldOrNew(i)
<1>1. phase = "dump" /\ k > 1 /\ ~OffsetDue /\ at < StateEnd(k - 1)
  BY DEF EmitText
<1>2. Writing /\ ShownOK /\ LineType(line) /\ StatesOK(line)
  BY <1>1, AtWork
<1>3. k - 1 \in 1..Len(line.states) /\ at \in Nat /\ done \in Nat
  BY <1>2 DEF IInv, Writing, LineType
<1>4. PICK end : end = TextEnd
  OBVIOUS
<1>5. end \in Nat /\ at <= end
  <2>1. end \in Nat /\ at < end
    BY <1>1, <1>2, <1>3, <1>4, TextEndIs
  <2> QED
    BY <1>3, <2>1
<1>6. PICK ids, chars : ids = Effective /\ chars = CharsIn(line.text, at, end)
  OBVIOUS
<1> DEFINE glyph(t) == [x |-> pen[1] + Advance(at, t, ids), y |-> pen[2], font |-> ids[FONT],
                        size |-> ids[SIZE], hidden |-> t \in covered]
           more == [j \in 1..Cardinality(chars) |-> glyph(Nth(chars, j))]
<1>7. shown' = shown \o more
  BY <1>4, <1>6 DEF EmitText, TextEnd, CharsIn
<1>8. Cardinality(chars) \in Nat /\ Count(line.text, end) = Count(line.text, at) + Cardinality(chars)
  BY <1>3, <1>5, <1>6, CountSplit
<1>9. \A t : /\ glyph(t).x = pen[1] + Advance(at, t, ids) /\ glyph(t).y = pen[2]
             /\ glyph(t).font = ids[FONT] /\ glyph(t).size = ids[SIZE]
             /\ glyph(t).hidden = (t \in covered)
  OBVIOUS
<1> HIDE DEF glyph
<1>10. IsSeq(more) /\ Len(more) = Cardinality(chars)
       /\ \A j \in 1..Cardinality(chars) : more[j] = glyph(Nth(chars, j))
  <2>1. DOMAIN more = 1..Cardinality(chars) /\ more = [j \in 1..Cardinality(chars) |-> more[j]]
    OBVIOUS
  <2>2. \A j \in 1..Cardinality(chars) : more[j] = glyph(Nth(chars, j))
    OBVIOUS
  <2> HIDE DEF more
  <2>3. IsSeq(more) /\ Len(more) = Cardinality(chars)
    BY <1>8, <2>1, IsSeqFunction
  <2> QED
    BY <2>2, <2>3
<1> HIDE DEF more
<1>11. IsSeq(shown) /\ Len(shown) \in Nat /\ Len(shown) = Count(line.text, at)
  <2>1. IsSeq(shown)
    BY <1>2 DEF ShownOK
  <2> QED
    BY <1>2, <2>1, IsSeqFacts DEF ShownOK
<1>12. /\ IsSeq(shown') /\ Len(shown') = Len(shown) + Cardinality(chars)
       /\ \A i \in 1..Len(shown) : shown'[i] = shown[i]
       /\ \A j \in 1..Cardinality(chars) : shown'[Len(shown) + j] = glyph(Nth(chars, j))
  <2>1. /\ IsSeq(shown \o more) /\ Len(shown \o more) = Len(shown) + Len(more)
        /\ \A i \in 1..Len(shown) : (shown \o more)[i] = shown[i]
        /\ \A i \in 1..Len(more) : (shown \o more)[Len(shown) + i] = more[i]
    <3>1. IsSeq(shown) /\ IsSeq(more)
      BY <1>10, <1>11
    <3> QED
      BY <3>1, IsSeqConcat
  <2>2. Len(shown \o more) = Len(shown) + Cardinality(chars)
    BY <1>10, <2>1
  <2>3. \A j \in 1..Cardinality(chars) : (shown \o more)[Len(shown) + j] = glyph(Nth(chars, j))
    BY <1>10, <2>1
  <2> QED
    BY <1>7, <2>1, <2>2, <2>3, Zenon
<1>13. ASSUME NEW i \in 1..Len(shown') PROVE OldOrNew(i)
  <2>1. CASE i \in 1..Len(shown)
    BY <1>12, <2>1 DEF OldOrNew
  <2>2. CASE i \notin 1..Len(shown)
    <3>1. PICK j \in 1..Cardinality(chars) : i = Len(shown) + j
      <4>1. i - Len(shown) \in 1..Cardinality(chars) /\ i = Len(shown) + (i - Len(shown))
        BY <1>8, <1>11, <1>12, <2>2
      <4> QED
        BY <4>1
    <3>2. PICK t : t = Nth(chars, j)
      OBVIOUS
    <3>3. t \in at..(end - 1) /\ line.text[t + 1] # PAD /\ Count(line.text, t + 1) = Count(line.text, at) + j
      BY <1>3, <1>5, <1>6, <3>2, NthCharacter
    <3>4. shown'[i] = glyph(t)
      BY <1>12, <3>1, <3>2
    <3>5. ShownAt(i, t)
      BY <1>4, <1>6, <1>9, <1>11, <3>1, <3>3, <3>4 DEF ShownAt
    <3> QED
      BY <3>5 DEF OldOrNew
  <2> QED
    BY <2>1, <2>2
<1>14. Len(shown') = Count(line.text, TextEnd)
  BY <1>4, <1>8, <1>11, <1>12
<1> QED
  BY <1>12, <1>13, <1>14

\* Characters are shown as the state they belong to asks.
LEMMA EmitTextStep == ASSUME IInv, EmitText PROVE IInv'
<1>1. /\ phase = "dump" /\ phase' = phase /\ k > 1 /\ ~OffsetDue /\ at < StateEnd(k - 1)
      /\ LineUnchanged /\ UNCHANGED <<k, stack, html, done, dx, tables, line, asked, covered>>
  BY DEF EmitText, inputVars, LineUnchanged
<1>2. Writing /\ ShownOK /\ LineType(line) /\ StatesOK(line) /\ AskedOK(line, asked, covered)
  BY <1>1, AtWork
<1>3. /\ k - 1 \in 1..Len(line.states) /\ at \in Nat /\ done \in Nat
      /\ line.states[k - 1].start <= at
  BY <1>2 DEF IInv, Writing, LineType
<1>4. PICK end : end = TextEnd
  OBVIOUS
<1>5. end \in Nat /\ at < end /\ end <= StateEnd(k - 1)
  BY <1>1, <1>2, <1>3, <1>4, TextEndIs
<1>6. at' = end
  BY <1>4 DEF EmitText, TextEnd
<1>7. StateEnd(k - 1) = EndOf(line, k - 1) /\ EndOf(line, k - 1) \in Nat
      /\ EndOf(line, k - 1) <= Len(line.text) /\ line.states[k - 1].start \in Nat /\ Len(line.text) \in Nat
  BY <1>2, <1>3, EndOfType, StateEndIs DEF LineType
<1>8. \A i \in StyleIds : Effective[i] = line.states[k - 1].ids[i]
  <2> TAKE i \in StyleIds
  <2>1. line.states[k - 1] \in State
    BY <1>2, <1>3 DEF LineType
  <2>2. i \in HashIds \ line.states[k - 1].mask
    <3>1. i \in HashIds /\ i # WS
      BY DEF HashIds, StyleIds, FONT, SIZE, WS
    <3> QED
      BY <2>1, <3>1, StateFields
  <2>3. i \in HashIds \ Last(stack).mask /\ Last(stack).ids[i] = line.states[k - 1].ids[i]
    BY <1>2, <2>2 DEF Writing, DressedAs
  <2> QED
    BY <1>2, <2>3, EffectiveTop DEF Writing
<1>9. IsSeq(shown') /\ Len(shown') = Count(line.text, end) /\ \A i \in 1..Len(shown') : OldOrNew(i)
  BY <1>4, TextShown
<1>10. CharsStyled'
  <2>1. ASSUME NEW i \in 1..Len(shown')
        PROVE  /\ shown'[i].font = asked[i].font /\ shown'[i].size = asked[i].size
               /\ shown'[i].hidden = asked[i].hidden
    <3>1. CASE i \in 1..Len(shown) /\ shown'[i] = shown[i]
      BY <1>2, <3>1 DEF ShownOK, CharsStyled
    <3>2. CASE \E t : ShownAt(i, t)
      <4>1. PICK t : ShownAt(i, t)
        BY <3>2
      <4>2. /\ t \in at..(end - 1) /\ line.text[t + 1] # PAD /\ Count(line.text, t + 1) = i
            /\ shown'[i].font = Effective[FONT] /\ shown'[i].size = Effective[SIZE]
            /\ shown'[i].hidden = (t \in covered)
        BY <1>4, <4>1 DEF ShownAt
      <4>3. t \in Segment(line, k - 1)
        BY <1>3, <1>5, <1>7, <4>2 DEF Segment
      <4>4. AskedAs(asked[i], line.states[k - 1].ids, t, covered)
        BY <1>2, <1>3, <4>2, <4>3 DEF AskedOK
      <4>5. Effective[FONT] = line.states[k - 1].ids[FONT] /\ Effective[SIZE] = line.states[k - 1].ids[SIZE]
        BY <1>8 DEF StyleIds
      <4> QED
        BY <4>2, <4>4, <4>5 DEF AskedAs
    <3> QED
      BY <1>9, <3>1, <3>2 DEF OldOrNew
  <2> QED
    BY <1>1, <2>1 DEF CharsStyled
<1>11. ShownOK'
  <2>1. Count(line.text, at)' = Count(line.text, end)
    BY <1>1, <1>6
  <2> QED
    BY <1>9, <1>10, <2>1 DEF ShownOK
<1>12. Writing'
  <2>1. line.states[k - 1].start <= end
    BY <1>3, <1>5, <1>7
  <2> QED
    BY <1>1, <1>2, <1>5, <1>6, <2>1 DEF Writing, StateEnd
<1>13. at' \in 0..Len(line.text)
  BY <1>5, <1>6, <1>7
<1>14. /\ k' \in 1..(Len(line.states) + 1) /\ done' \in 0..Len(line.offsets) /\ dx' \in Int
       /\ DOMAIN tables' = {"align", "space"} /\ tables'.space \subseteq Int
  BY <1>1 DEF IInv
<1> QED
  BY <1>1, <1>11, <1>12, <1>13, <1>14, WritingKeeps

\* Closing the spans and the line's own element leaves nothing open.
LEMMA CloseStep == ASSUME IInv, Close PROVE IInv'
<1>1. /\ phase = "dump" /\ phase' = "closed" /\ k > Len(line.states) /\ at = Len(line.text)
      /\ html' = SubSeq(html, 1, Len(html) - Cardinality(ElementsAbove(0)) - 1)
      /\ UNCHANGED <<line, k, done, newOffsets, dx, at, tables, shown, covered, asked, askedPen>>
  BY DEF Close, inputVars
<1>2. k > 1
  <2>1. line.text # <<>> /\ k \in Nat /\ line.states \in Seq(State)
    BY <1>1 DEF IInv, Phases, LineType
  <2>2. line.states # <<>>
    BY <2>1 DEF IInv, StatesOK
  <2>3. Len(line.states) \in Nat /\ Len(line.states) > 0
    BY <2>1, <2>2
  <2> QED
    BY <1>1, <2>1, <2>3
<1>3. Nested(stack, html)
  BY <1>1, <1>2, AtWork DEF Writing
<1>4. html' = <<>>
  <2>1. IsSeq(html) /\ Len(stack) \in Nat /\ Len(html) = 1 + Cardinality(ClosedBy(stack, Len(stack)))
    BY <1>3, IsSeqFacts DEF Nested, Height
  <2>2. ElementsAbove(0) = ClosedBy(stack, Len(stack))
    BY DEF ElementsAbove, ClosedBy
  <2>3. Cardinality(ClosedBy(stack, Len(stack))) \in Nat
    BY <2>1, HeightType, FS_CardinalityType
  <2>4. Len(html) - Cardinality(ElementsAbove(0)) - 1 = 0
    BY <2>1, <2>2, <2>3
  <2>5. PICK X : html \in Seq(X)
    BY <2>1 DEF IsSeq
  <2>6. SubSeq(html, 1, 0) = <<>>
    BY <2>5
  <2> QED
    BY <1>1, <2>4, <2>6
<1>5. ShownOK'
  BY <1>1, ShownKept DEF IInv
<1>6. Phases'
  BY <1>1, <1>4 DEF IInv, Phases
<1>7. AskedOK(line, asked, covered)' /\ LineType(line)' /\ StatesOK(line)'
  BY <1>1 DEF IInv, AskedOK, AskedAs, Segment, EndOf, LineType, StatesOK
<1> QED
  BY <1>1, <1>5, <1>6, <1>7 DEF IInv

\* A closed line stays as it is.
LEMMA StayStep == ASSUME IInv, UNCHANGED vars PROVE IInv'
<1>1. /\ UNCHANGED <<phase, covered, line, k, done, newOffsets, stack, dx, at, tables, html>>
      /\ UNCHANGED <<shown, asked, askedPen>>
  BY DEF vars
<1>2. ShownOK'
  BY <1>1, ShownKept DEF IInv
<1>3. Nested(stack, html) <=> Nested(stack', html')
  BY <1>1
<1>4. Phases'
  BY <1>1, <1>3 DEF IInv, Phases, Fresh, Writing, StateEnd
<1>5. AskedOK(line, asked, covered)' /\ LineType(line)' /\ StatesOK(line)'
  BY <1>1 DEF IInv, AskedOK, AskedAs, Segment, EndOf, LineType, StatesOK
<1> QED
  BY <1>1, <1>2, <1>4, <1>5 DEF IInv

-----------------------------------------------------------------------------
(* Places: where each character goes, and where the line is on the way.    *)

\* The offsets are the gaps that V leaves from a to b, each at its place, in order.
Gapped(os, V, a, b) ==
  /\ \A i, j \in 1..Len(os) : i < j => os[i].start < os[j].start
  /\ \A j \in 1..Len(os) : os[j].start \in a..b /\ os[j].width = V[os[j].start]
  /\ \A t \in a..b : V[t] = 0 \/ \E j \in 1..Len(os) : os[j].start = t

\* P is where each character of the line goes: after the ones before it and the gaps V.
Path(l, P, V) ==
  /\ P \in [0..Len(l.text) -> Int] /\ V \in [0..Len(l.text) -> Int] /\ P[0] = V[0]
  /\ \A i \in 1..Len(l.states) : \A t \in Segment(l, i) :
       P[t + 1] = P[t] + CharAdvance(l.text[t + 1], l.states[i].ids) + V[t + 1]

\* Y is the baseline of each state.
Baselines(l, Y) ==
  /\ Y \in [1..Len(l.states) -> Int]
  /\ l.states # <<>> => Y[1] = 0 /\ l.states[1].va = 0
  /\ \A i \in 1..(Len(l.states) - 1) : Y[i + 1] = Y[i] + l.states[i + 1].va

\* The characters were appended there.
AskedThere(a, x, y) == a.x = x /\ a.y = y
AskedAt(l, given, P, Y) ==
  \A i \in 1..Len(l.states) : \A t \in Segment(l, i) :
    l.text[t + 1] # PAD => AskedThere(given[Count(l.text, t + 1)], P[t], Y[i])

\* A state that leaves word space free has no space.
FreeOK(l) ==
  \A i \in 1..Len(l.states) : WS \in l.states[i].mask => \A t \in Segment(l, i) : l.text[t + 1] # SPACE

\* Padding is there only under space_as_offset, and the pass is run only when asked.
ParamOK ==
  /\ param \in BOOLEAN \X BOOLEAN /\ ~(param[1] /\ param[2])
  /\ ~param[2] => \A t \in 1..Len(line.text) : line.text[t] # PAD
  /\ phase = "optimize" => param[1]

\* Every offset follows a character, or is the first thing in the line.
Follows(l) == \A j \in 1..Len(l.offsets) : l.offsets[j].start = 0 \/ l.text[l.offsets[j].start] # PAD

\* While a line is filled, the pen is where its last state leads, and nothing is free.
FillingOK(P, Y) ==
  /\ askedPen[1] = P[Len(line.text)]
  /\ askedPen[2] = IF line.states = <<>> THEN 0 ELSE Y[Len(line.states)]
  /\ Follows(line) /\ \A i \in 1..Len(line.states) : line.states[i].mask = {}

\* U are the gaps that the line has, V the ones that it gets.
Settled == IF k = 1 THEN -1 ELSE StateEnd(k - 1)
GapsOK(U, V) ==
  /\ U \in [0..Len(line.text) -> Int] /\ Gapped(line.offsets, U, 0, Len(line.text))
  /\ phase # "optimize" => V = U
  /\ phase = "optimize" =>
       /\ Gapped(newOffsets, V, 0, Settled)
       /\ \A t \in (Settled + 1)..Len(line.text) : V[t] = U[t]

\* The pen, the drift and the offset that is due lead to where the next character goes.
Due == IF OffsetDue THEN line.offsets[done + 1].width ELSE 0
ReadOK == \A j \in 1..Len(line.offsets) :
  /\ j <= done => line.offsets[j].start <= at
  /\ j > done => at <= line.offsets[j].start
PenOK(P) == pen[1] + dx + Due = P[at] /\ Abs(dx) <= HEps

\* The fields of an element.
ElementOK(e) == DOMAIN e = {"class", "va", "margin"} /\ e.va \in Int /\ e.margin \in Int
\* A margin is in an element that the search does not leave.
MarginsOK(st, h, neg) ==
  \A p \in 1..Len(st) : (\A q \in (p + 1)..Len(st) : st[q].start > neg) =>
     \A e \in (Height(st, p) + 1)..Len(h) : h[e].margin = 0
\* The elements and the states that are open.
OpenOK ==
  /\ \A e \in 1..Len(html) : ElementOK(html[e])
  /\ \A p \in 1..Len(stack) : stack[p].start \in Nat /\ stack[p].start <= at /\ stack[p].va \in Int
  /\ Len(stack) <= k - 1

\* A are the baselines of the open states, B those of the open elements.
Sums(s, A) == /\ A \in [0..Len(s) -> Int] /\ A[0] = 0
              /\ \A p \in 1..Len(s) : A[p] = A[p - 1] + s[p].va
Near(st, A, B) == \A p \in 1..Len(st) : Abs(B[Height(st, p)] - A[p]) <= VEps * (p - 1)
AlignedOK(A, B, Y) ==
  /\ Sums(stack, A) /\ Sums(html, B)
  /\ A[Len(stack)] = Y[k - 1] /\ pen[2] = B[Len(html)]
  /\ Near(stack, A, B)

Aligned(Y) == \E A, B : AlignedOK(A, B, Y)

\* Where the line is on the way, if P, V, U and Y are its places, gaps and baselines.
Placing(P, V, U, Y) ==
  /\ Path(line, P, V) /\ Baselines(line, Y) /\ AskedAt(line, asked, P, Y) /\ GapsOK(U, V)
  /\ FreeOK(line) /\ ParamOK /\ pen \in Int \X Int
  /\ phase = "fill" => FillingOK(P, Y)
  /\ phase # "dump" \/ k = 1 => pen = <<0, 0>>
  /\ phase = "dump" => ReadOK /\ PenOK(P)
  /\ phase = "dump" /\ k > 1 => OpenOK /\ MarginsOK(stack, html, negAt) /\ Aligned(Y)

\* The inductive invariant of CharsPlaced, beside IInv.
PInv ==
  /\ CharsPlaced /\ tables.align \subseteq Int
  /\ phase # "closed" => \E P, V, U, Y : Placing(P, V, U, Y)

-----------------------------------------------------------------------------
(* Sums.                                                                   *)

\* Induction up to n: what holds of 0 and of every successor holds of all.
LEMMA InductTo ==
  ASSUME NEW n \in Nat, NEW S, 0 \in S, \A m \in 1..n : m - 1 \in S => m \in S
  PROVE  \A m \in 0..n : m \in S
<1> DEFINE T == {m \in 0..n : m \notin S}
<1> SUFFICES ASSUME T # {} PROVE FALSE
  OBVIOUS
<1>1. IsFiniteSet(T) /\ T \subseteq Int
  <2>1. IsFiniteSet(0..n) /\ T \in SUBSET (0..n)
    BY FS_Interval
  <2> QED
    BY <2>1, FS_Subset
<1>2. PICK m \in T : \A j \in T : m <= j
  <2> HIDE DEF T
  <2> QED
    BY <1>1, MinOf
<1>3. m \in 1..n /\ m - 1 \in 0..n /\ m - 1 \notin T
  BY <1>2
<1> QED
  BY <1>2, <1>3

\* The sum of a sequence is what any running sum of it gains.
Running(w, n, F) ==
  /\ IsSeq(w) /\ Len(w) = n /\ \A i \in 0..n : F[i] \in Int
  /\ \A i \in 1..n : w[i] \in Int /\ F[i] = F[i - 1] + w[i]
LEMMA TotalIs ==
  ASSUME NEW n \in Nat, NEW w, NEW F, Running(w, n, F)
  PROVE  Total(w) = F[n] - F[0]
<1> USE DEF Running
<1> DEFINE Runs(g) == g = [m \in 0..n |-> IF m = 0 THEN 0 ELSE g[m - 1] + w[m]]
           G == [m \in 0..n |-> F[m] - F[0]]
<1>1. Runs(G)
  <2>1. \A m \in 0..n : m # 0 => m - 1 \in 0..n /\ m \in 1..n
    OBVIOUS
  <2>2. \A m \in 1..n : F[m] - F[0] = (F[m - 1] - F[0]) + w[m]
    BY <2>1
  <2> QED
    BY <2>1, <2>2
<1>2. \E g : Runs(g) /\ Total(w) = g[n]
  BY <1>1 DEF Total
<1>3. PICK g : Runs(g) /\ Total(w) = g[n]
  BY <1>2
<1>4. \A m \in 0..n : g[m] = IF m = 0 THEN 0 ELSE g[m - 1] + w[m]
  BY <1>3
<1>5. g[0] = 0 /\ \A m \in 1..n : g[m] = g[m - 1] + w[m]
  BY <1>4
<1> DEFINE S == {m \in 0..n : g[m] = F[m] - F[0]}
<1>6. \A m \in 0..n : m \in S
  <2>1. 0 \in S /\ \A m \in 1..n : m - 1 \in 0..n /\ m \in 0..n
    BY <1>5
  <2>2. \A m \in 1..n : m - 1 \in S => m \in S
    BY <1>5, <2>1
  <2> HIDE DEF S
  <2> QED
    BY <2>1, <2>2, InductTo
<1> QED
  BY <1>3, <1>6

LEMMA SubSeqFacts ==
  ASSUME NEW X, NEW s \in Seq(X), NEW a \in 0..Len(s), NEW b \in a..Len(s)
  PROVE  /\ SubSeq(s, a + 1, b) \in Seq(X) /\ Len(SubSeq(s, a + 1, b)) = b - a
         /\ \A j \in 1..(b - a) : SubSeq(s, a + 1, b)[j] = s[a + j]
  OBVIOUS

\* A part of a sequence keeps what is there.
LEMMA IsSeqPart ==
  ASSUME NEW s, IsSeq(s), NEW a \in 0..Len(s), NEW b \in a..Len(s)
  PROVE  /\ IsSeq(SubSeq(s, a + 1, b)) /\ Len(SubSeq(s, a + 1, b)) = b - a
         /\ \A j \in 1..(b - a) : SubSeq(s, a + 1, b)[j] = s[a + j]
<1>1. PICK X : s \in Seq(X)
  BY DEF IsSeq
<1> QED
  BY <1>1, SubSeqFacts DEF IsSeq

\* The alignments of a part of a sequence add up to what its running sum gains there.
IntegerAlign(s) == \A p \in 1..Len(s) : s[p].va \in Int
LEMMA TotalAlignIs ==
  ASSUME NEW s, IsSeq(s), NEW A, Sums(s, A), IntegerAlign(s),
         NEW a \in 0..Len(s), NEW b \in a..Len(s)
  PROVE  TotalAlign(SubSeq(s, a + 1, b)) = A[b] - A[a]
<1> DEFINE n == b - a
           t == SubSeq(s, a + 1, b)
           w == [i \in 1..Len(t) |-> t[i].va]
           F == [i \in 0..n |-> A[a + i]]
<1>1. Len(s) \in Nat /\ n \in Nat
  BY IsSeqFacts
<1>2. IsSeq(t) /\ Len(t) = n /\ \A j \in 1..n : t[j] = s[a + j]
  BY IsSeqPart
<1> HIDE DEF t
<1>3. DOMAIN w = 1..n /\ w = [j \in 1..n |-> w[j]] /\ \A j \in 1..n : w[j] = s[a + j].va
  BY <1>2
<1>4. TotalAlign(t) = Total(w)
  BY DEF TotalAlign
<1> HIDE DEF w
<1>5. \A i \in 0..n : F[i] \in Int /\ F[i] = A[a + i]
  <2>1. \A i \in 0..n : a + i \in 0..Len(s)
    BY <1>1
  <2>2. A \in [0..Len(s) -> Int]
    BY DEF Sums
  <2> QED
    BY <2>1, <2>2
<1>6. \A i \in 1..n : w[i] \in Int /\ F[i] = F[i - 1] + w[i]
  <2> TAKE i \in 1..n
  <2>1. a + i \in 1..Len(s) /\ i - 1 \in 0..n /\ i \in 0..n /\ a + (i - 1) = (a + i) - 1
    BY <1>1
  <2>2. A[a + i] = A[(a + i) - 1] + s[a + i].va
    BY <2>1 DEF Sums
  <2>3. s[a + i].va \in Int
    BY <2>1 DEF IntegerAlign
  <2> QED
    BY <1>3, <1>5, <2>1, <2>2, <2>3
<1>7. F[n] = A[b] /\ F[0] = A[a]
  BY <1>1
<1> HIDE DEF F, n
<1>8. IsSeq(w) /\ Len(w) = n
  BY <1>1, <1>3, IsSeqFunction
<1>9. Total(w) = F[n] - F[0]
  <2>1. Running(w, n, F)
    BY <1>5, <1>6, <1>8 DEF Running
  <2> QED
    BY <1>1, <2>1, TotalIs
<1> QED
  BY <1>4, <1>7, <1>9 DEF t

\* Elements without margins have none together.
LEMMA TotalMarginZero ==
  ASSUME NEW s, IsSeq(s), NEW a \in 0..Len(s), \A j \in (a + 1)..Len(s) : s[j].margin = 0
  PROVE  TotalMargin(SubSeq(s, a + 1, Len(s))) = 0
<1> DEFINE n == Len(s) - a
           t == SubSeq(s, a + 1, Len(s))
           w == [i \in 1..Len(t) |-> t[i].margin]
           F == [i \in 0..n |-> 0]
<1>1. Len(s) \in Nat /\ n \in Nat /\ Len(s) \in a..Len(s)
  BY IsSeqFacts
<1>2. IsSeq(t) /\ Len(t) = n /\ \A j \in 1..n : t[j] = s[a + j]
  BY <1>1, IsSeqPart
<1> HIDE DEF t
<1>3. DOMAIN w = 1..n /\ w = [j \in 1..n |-> w[j]] /\ \A j \in 1..n : w[j] = s[a + j].margin
  BY <1>2
<1>4. TotalMargin(t) = Total(w)
  BY DEF TotalMargin
<1>5. \A j \in 1..n : a + j \in (a + 1)..Len(s)
  BY <1>1
<1> HIDE DEF w
<1>6. \A j \in 1..n : w[j] = 0
  BY <1>3, <1>5
<1> HIDE DEF n
<1>7. IsSeq(w) /\ Len(w) = n
  BY <1>1, <1>3, IsSeqFunction
<1>8. (\A i \in 0..n : F[i] = 0) /\ 0 \in 0..n /\ n \in 0..n /\ \A i \in 1..n : i \in 0..n /\ i - 1 \in 0..n
  BY <1>1
<1> HIDE DEF F
<1>9. /\ \A i \in 0..n : F[i] \in Int
      /\ \A i \in 1..n : w[i] \in Int /\ F[i] = F[i - 1] + w[i]
  BY <1>6, <1>8
<1>10. Total(w) = F[n] - F[0]
  <2>1. Running(w, n, F)
    BY <1>7, <1>9 DEF Running
  <2> QED
    BY <1>1, <2>1, TotalIs
<1> QED
  BY <1>4, <1>8, <1>10 DEF t

\* The pen moves over characters that have no gap between them as their places do.
Leading(text, P, i, j, ids) ==
  /\ \A t \in i..j : P[t] \in Int
  /\ \A t \in i..(j - 1) : /\ CharAdvance(text[t + 1], ids) \in Int
                           /\ P[t + 1] = P[t] + CharAdvance(text[t + 1], ids)
LEMMA AdvanceIs ==
  ASSUME NEW i \in Nat, NEW j \in Nat, i <= j, NEW ids, NEW P, Leading(line.text, P, i, j, ids)
  PROVE  Advance(i, j, ids) = P[j] - P[i]
<1>1. /\ \A t \in i..j : P[t] \in Int
      /\ \A t \in i..(j - 1) : /\ CharAdvance(line.text[t + 1], ids) \in Int
                               /\ P[t + 1] = P[t] + CharAdvance(line.text[t + 1], ids)
  BY DEF Leading
<1> DEFINE n == j - i
           w == [m \in 1..n |-> CharAdvance(line.text[i + m], ids)]
           F == [m \in 0..n |-> P[i + m]]
<1>2. n \in Nat
  OBVIOUS
<1>3. Advance(i, j, ids) = Total(w)
  BY DEF Advance
<1>4. DOMAIN w = 1..n /\ w = [m \in 1..n |-> w[m]]
      /\ \A m \in 1..n : w[m] = CharAdvance(line.text[i + m], ids)
  OBVIOUS
<1> HIDE DEF w
<1>5. IsSeq(w) /\ Len(w) = n
  BY <1>2, <1>4, IsSeqFunction
<1>6. \A m \in 0..n : F[m] \in Int /\ F[m] = P[i + m]
  BY <1>1
<1>7. \A m \in 1..n : w[m] \in Int /\ F[m] = F[m - 1] + w[m]
  <2> TAKE m \in 1..n
  <2>1. i + (m - 1) \in i..(j - 1) /\ (i + (m - 1)) + 1 = i + m /\ m - 1 \in 0..n /\ m \in 0..n
    OBVIOUS
  <2>2. /\ CharAdvance(line.text[i + m], ids) \in Int
        /\ P[i + m] = P[i + (m - 1)] + CharAdvance(line.text[i + m], ids)
    BY <1>1, <2>1
  <2> QED
    BY <1>4, <1>6, <2>1, <2>2
<1>8. F[n] = P[j] /\ F[0] = P[i]
  OBVIOUS
<1> HIDE DEF F, n
<1>9. Total(w) = F[n] - F[0]
  <2>1. Running(w, n, F)
    BY <1>5, <1>6, <1>7 DEF Running
  <2> QED
    BY <1>2, <2>1, TotalIs
<1> QED
  BY <1>3, <1>8, <1>9

-----------------------------------------------------------------------------
(* Offsets and gaps.                                                       *)

\* Gapped, written out.
LEMMA GappedFields ==
  ASSUME NEW os, NEW V, NEW a, NEW b, Gapped(os, V, a, b)
  PROVE  /\ \A i, j \in 1..Len(os) : i < j => os[i].start < os[j].start
         /\ \A j \in 1..Len(os) : os[j].start \in a..b /\ os[j].width = V[os[j].start]
         /\ \A t \in a..b : V[t] = 0 \/ \E j \in 1..Len(os) : os[j].start = t
  BY DEF Gapped

\* The offsets that a loop has passed are those up to where it is.
LEMMA PassedIs ==
  ASSUME LineType(line), NEW U, NEW a \in Int, NEW b \in Int, Gapped(line.offsets, U, a, b), NEW t \in Int
  PROVE  /\ PassedOffsets(t) \in 0..Len(line.offsets)
         /\ \A j \in 1..Len(line.offsets) : line.offsets[j].start <= t <=> j <= PassedOffsets(t)
<1> DEFINE n == Len(line.offsets)
           S == {j \in 0..n : \A q \in 1..j : line.offsets[q].start <= t}
<1>1. n \in Int /\ 0 \in Int /\ 0 \in 0..n
  BY DEF LineType
<1>2. 0 \in S /\ S \subseteq 0..n
  BY <1>1
<1>3. PassedOffsets(t) = Max(S)
  BY DEF PassedOffsets
<1>4. \A j \in S : \A q \in 1..j : line.offsets[q].start <= t
  OBVIOUS
<1>5. \A j \in 1..n : line.offsets[j].start <= t => j \in S
  <2> SUFFICES ASSUME NEW j \in 1..n, line.offsets[j].start <= t, NEW q \in 1..j
               PROVE  line.offsets[q].start <= t
    BY <1>1
  <2>1. q \in 1..n /\ (q = j \/ q < j)
    BY <1>1
  <2>2. line.offsets[q].start \in a..b /\ line.offsets[j].start \in a..b
    BY <2>1, GappedFields
  <2>3. q < j => line.offsets[q].start < line.offsets[j].start
    BY <2>1, GappedFields
  <2> QED
    BY <2>1, <2>2, <2>3
<1> HIDE DEF S
<1>6. Max(S) \in S /\ \A m \in S : m <= Max(S)
  BY <1>1, <1>2, MaxOf
<1>7. Max(S) \in 0..n
  BY <1>2, <1>6
<1>8. ASSUME NEW j \in 1..n
      PROVE  line.offsets[j].start <= t <=> j <= Max(S)
  <2>1. j <= Max(S) => j \in 1..Max(S)
    BY <1>1, <1>7
  <2> QED
    BY <1>4, <1>5, <1>6, <2>1
<1> QED
  BY <1>3, <1>7, <1>8

\* Those between two places are the gaps there.
LEMMA GappedSlice ==
  ASSUME LineType(line), NEW U, NEW a \in Int, NEW b \in Int, Gapped(line.offsets, U, a, b),
         NEW s \in Int, NEW t \in Int, a <= s + 1, s <= t, t <= b
  PROVE  Gapped(SubSeq(line.offsets, PassedOffsets(s) + 1, PassedOffsets(t)), U, s + 1, t)
<1> DEFINE n == Len(line.offsets)
<1>1. PICK os, c, d : os = line.offsets /\ c = PassedOffsets(s) /\ d = PassedOffsets(t)
  OBVIOUS
<1>2. os \in Seq(Offset) /\ n \in Nat /\ n = Len(os)
  BY <1>1 DEF LineType
<1>3. /\ c \in 0..n /\ d \in 0..n
      /\ \A j \in 1..n : (os[j].start <= s <=> j <= c) /\ (os[j].start <= t <=> j <= d)
  BY <1>1, PassedIs
<1>4. /\ \A i, j \in 1..n : i < j => os[i].start < os[j].start
      /\ \A j \in 1..n : os[j].start \in a..b /\ os[j].width = U[os[j].start]
      /\ \A x \in a..b : U[x] = 0 \/ \E j \in 1..n : os[j].start = x
  <2>1. Gapped(os, U, a, b)
    BY <1>1
  <2> QED
    BY <1>2, <2>1 DEF Gapped
<1>5. c <= d
  <2> SUFFICES ASSUME c > d PROVE FALSE
    BY <1>3
  <2>1. c \in 1..n
    BY <1>3
  <2>2. os[c].start <= s /\ ~(os[c].start <= t) /\ os[c].start \in Int
    BY <1>3, <1>4, <2>1
  <2> QED
    BY <2>2
<1> HIDE DEF n
<1>6. PICK m : m = SubSeq(os, c + 1, d)
  OBVIOUS
<1>7. Len(m) = d - c /\ \A j \in 1..(d - c) : m[j] = os[c + j]
  <2>1. c \in 0..Len(os) /\ d \in c..Len(os)
    BY <1>2, <1>3, <1>5
  <2> QED
    BY <1>2, <1>6, <2>1, SubSeqFacts
<1>8. \A j \in 1..(d - c) : c + j \in 1..n /\ ~(c + j <= c) /\ c + j <= d
  BY <1>2, <1>3
<1>9. \A i, j \in 1..Len(m) : i < j => m[i].start < m[j].start
  <2> TAKE i, j \in 1..Len(m)
  <2>1. i \in 1..(d - c) /\ j \in 1..(d - c)
    BY <1>7
  <2>2. c + i \in 1..n /\ c + j \in 1..n
    BY <1>8, <2>1
  <2>3. c \in Int /\ i \in Int /\ j \in Int
    BY <1>2, <1>3, <2>1
  <2>4. i < j => c + i < c + j
    BY <2>3
  <2> QED
    BY <1>4, <1>7, <2>1, <2>2, <2>4
<1>10. \A j \in 1..Len(m) : m[j].start \in (s + 1)..t /\ m[j].width = U[m[j].start]
  <2> TAKE j \in 1..Len(m)
  <2>1. c + j \in 1..n /\ m[j] = os[c + j] /\ ~(c + j <= c) /\ c + j <= d
    BY <1>7, <1>8
  <2>2. os[c + j].start \in a..b /\ os[c + j].width = U[os[c + j].start]
    BY <1>4, <2>1
  <2>3. ~(os[c + j].start <= s) /\ os[c + j].start <= t
    BY <1>3, <2>1
  <2> QED
    BY <2>1, <2>2, <2>3
<1>11. ASSUME NEW x \in (s + 1)..t, U[x] # 0
       PROVE  \E j \in 1..Len(m) : m[j].start = x
  <2>1. PICK j \in 1..n : os[j].start = x
    BY <1>4, <1>11
  <2>2. ~(j <= c) /\ j <= d
    BY <1>3, <2>1
  <2>3. j - c \in 1..(d - c) /\ c + (j - c) = j
    BY <1>2, <1>3, <2>2
  <2>4. m[j - c].start = x
    BY <1>7, <2>1, <2>3
  <2> QED
    BY <1>7, <2>3, <2>4
<1> QED
  BY <1>1, <1>6, <1>9, <1>10, <1>11 DEF Gapped

\* Only the gaps from a to b matter.
LEMMA GappedSame ==
  ASSUME NEW os, NEW V, NEW W, NEW a \in Int, NEW b \in Int, Gapped(os, V, a, b),
         \A t \in a..b : W[t] = V[t]
  PROVE  Gapped(os, W, a, b)
  BY DEF Gapped

\* The gaps up to b and those behind it are the gaps up to c.
LEMMA GappedConcat ==
  ASSUME NEW x \in Seq(Offset), NEW y \in Seq(Offset), NEW V, NEW a \in Int, NEW b \in Int, NEW c \in Int,
         Gapped(x, V, a, b), Gapped(y, V, b + 1, c), a <= b + 1, b <= c
  PROVE  Gapped(x \o y, V, a, c)
<1>1. PICK z, n, m : z = x \o y /\ n = Len(x) /\ m = Len(y)
  OBVIOUS
<1>2. /\ n \in Nat /\ m \in Nat /\ Len(z) = n + m
      /\ \A i \in 1..n : z[i] = x[i]
      /\ \A i \in 1..m : z[n + i] = y[i]
  BY <1>1
<1>3. \A i \in 1..Len(z) : i \in 1..n \/ (i - n \in 1..m /\ i = n + (i - n))
  BY <1>2
<1>4. /\ \A i, j \in 1..n : i < j => x[i].start < x[j].start
      /\ \A j \in 1..n : x[j].start \in a..b /\ x[j].width = V[x[j].start]
      /\ \A t \in a..b : V[t] = 0 \/ \E j \in 1..n : x[j].start = t
  BY <1>1 DEF Gapped
<1>5. /\ \A i, j \in 1..m : i < j => y[i].start < y[j].start
      /\ \A j \in 1..m : y[j].start \in (b + 1)..c /\ y[j].width = V[y[j].start]
      /\ \A t \in (b + 1)..c : V[t] = 0 \/ \E j \in 1..m : y[j].start = t
  BY <1>1 DEF Gapped
<1>6. \A i, j \in 1..Len(z) : i < j => z[i].start < z[j].start
  <2> SUFFICES ASSUME NEW i \in 1..Len(z), NEW j \in 1..Len(z), i < j PROVE z[i].start < z[j].start
    OBVIOUS
  <2>1. CASE i \in 1..n /\ j \in 1..n
    BY <1>2, <1>4, <2>1
  <2>2. CASE i \in 1..n /\ j \notin 1..n
    <3>1. z[i] = x[i] /\ j - n \in 1..m /\ z[j] = y[j - n]
      BY <1>2, <1>3, <2>2
    <3>2. x[i].start \in a..b
      BY <1>4, <2>2
    <3>3. y[j - n].start \in (b + 1)..c
      BY <1>5, <3>1
    <3>4. PICK s \in a..b, t \in (b + 1)..c : s = z[i].start /\ t = z[j].start
      BY <3>1, <3>2, <3>3
    <3>5. s < t
      OBVIOUS
    <3> QED
      BY <3>4, <3>5
  <2>3. CASE i \notin 1..n /\ j \in 1..n
    BY <1>2, <2>3
  <2>4. CASE i \notin 1..n /\ j \notin 1..n
    <3>1. i - n \in 1..m /\ z[i] = y[i - n] /\ j - n \in 1..m /\ z[j] = y[j - n] /\ i - n < j - n
      BY <1>2, <1>3, <2>4
    <3> QED
      BY <1>5, <3>1
  <2> QED
    BY <2>1, <2>2, <2>3, <2>4
<1>7. ASSUME NEW j \in 1..Len(z) PROVE z[j].start \in a..c /\ z[j].width = V[z[j].start]
  <2>1. CASE j \in 1..n
    <3>1. x[j].start \in a..b /\ x[j].width = V[x[j].start] /\ z[j] = x[j]
      BY <1>2, <1>4, <2>1
    <3> QED
      BY <3>1
  <2>2. CASE j \notin 1..n
    <3>1. j - n \in 1..m /\ z[j] = y[j - n]
      BY <1>2, <1>3, <2>2
    <3>2. y[j - n].start \in (b + 1)..c /\ y[j - n].width = V[y[j - n].start]
      BY <1>5, <3>1
    <3> QED
      BY <3>1, <3>2
  <2> QED
    BY <2>1, <2>2
<1>8. ASSUME NEW t \in a..c, V[t] # 0 PROVE \E j \in 1..Len(z) : z[j].start = t
  <2>1. CASE t \in a..b
    <3>1. PICK j \in 1..n : x[j].start = t
      BY <1>4, <1>8, <2>1
    <3>2. j \in 1..Len(z) /\ z[j].start = t
      BY <1>2, <3>1
    <3> QED
      BY <3>2
  <2>2. CASE t \notin a..b
    <3>1. t \in (b + 1)..c
      BY <2>2
    <3>2. PICK j \in 1..m : y[j].start = t
      BY <1>5, <1>8, <3>1
    <3>3. n + j \in 1..Len(z) /\ z[n + j].start = t
      BY <1>2, <3>2
    <3> QED
      BY <3>3
  <2> QED
    BY <2>1, <2>2
<1> QED
  BY <1>1, <1>6, <1>7, <1>8 DEF Gapped

\* Counting through a set goes upwards and meets every element.
AllCounted(S) == \A t \in S : \E j \in 1..Cardinality(S) : Nth(S, j) = t
LEMMA NthOrder ==
  ASSUME NEW a \in Int, NEW b \in Int, NEW S, S \subseteq a..b
  PROVE  /\ Cardinality(S) \in Nat
         /\ \A i, j \in 1..Cardinality(S) : i < j => Nth(S, i) < Nth(S, j)
         /\ AllCounted(S)
<1> DEFINE C(x) == {d \in S : d <= x}
<1>1. IsFiniteSet(S) /\ Cardinality(S) \in Nat
  BY FS_Interval, FS_Subset, FS_CardinalityType
<1>2. \A x : IsFiniteSet(C(x)) /\ Cardinality(C(x)) \in Nat /\ Cardinality(C(x)) <= Cardinality(S)
  <2> TAKE x
  <2>1. C(x) \in SUBSET S
    OBVIOUS
  <2> HIDE DEF C
  <2> QED
    BY <1>1, <2>1, FS_Subset, FS_CardinalityType
<1>3. \A x, y \in S : x <= y => C(x) \subseteq C(y)
  <2> SUFFICES ASSUME NEW x \in S, NEW y \in S, x <= y, NEW d \in S, d <= x PROVE d <= y
    OBVIOUS
  <2>1. d \in Int /\ x \in Int /\ y \in Int
    OBVIOUS
  <2> QED
    BY <2>1
<1>4. \A x \in S : x \in Int /\ x \in C(x)
  OBVIOUS
<1>5. \A x, y \in S : x < y => y \notin C(x)
  OBVIOUS
<1>6. \A j \in 1..Cardinality(S) : Nth(S, j) \in S /\ Cardinality(C(Nth(S, j))) = j
  BY NthOf
<1> HIDE DEF C
<1>7. \A x, y \in S : x <= y => Cardinality(C(x)) <= Cardinality(C(y))
  BY <1>2, <1>3, FS_Subset
<1>8. \A x, y \in S : Cardinality(C(x)) = Cardinality(C(y)) => x = y
  <2> SUFFICES ASSUME NEW x \in S, NEW y \in S, x < y, Cardinality(C(x)) = Cardinality(C(y)) PROVE FALSE
    <3>1. \A x, y \in S : x < y \/ y < x \/ x = y
      BY <1>4
    <3> QED
      BY <3>1, Zenon
  <2>1. C(x) \in SUBSET C(y)
    BY <1>3, <1>4
  <2>2. C(x) = C(y)
    BY <1>2, <2>1, FS_Subset
  <2> QED
    BY <1>4, <1>5, <2>2
<1>9. ASSUME NEW i \in 1..Cardinality(S), NEW j \in 1..Cardinality(S), i < j
      PROVE  Nth(S, i) < Nth(S, j)
  <2>1. PICK x, y : x = Nth(S, i) /\ y = Nth(S, j)
    OBVIOUS
  <2>2. x \in S /\ y \in S /\ Cardinality(C(x)) = i /\ Cardinality(C(y)) = j
    BY <1>6, <2>1
  <2>3. y <= x => j <= i
    BY <1>7, <2>2
  <2> QED
    BY <1>4, <1>9, <2>1, <2>2, <2>3
<1>10. ASSUME NEW t \in S
       PROVE  \E j \in 1..Cardinality(S) : Nth(S, j) = t
  <2>1. C(t) # {}
    BY <1>4
  <2>2. Cardinality(C(t)) # 0
    BY <1>2, <2>1, FS_EmptySet
  <2>3. Cardinality(C(t)) \in 1..Cardinality(S)
    BY <1>1, <1>2, <2>2
  <2>4. Nth(S, Cardinality(C(t))) = t
    BY <1>6, <1>8, <2>3
  <2> QED
    BY <2>3, <2>4
<1> QED
  BY <1>1, <1>9, <1>10 DEF AllCounted

\* What letter space leaves over is the gaps reduced by what it takes.
LEMMA RespacedGapped ==
  ASSUME NEW own \in Seq(Offset), NEW t1 \in Nat, NEW t2 \in Int, NEW diff \in Int,
         NEW U, Gapped(own, U, t1 + 1, t2), NEW W,
         \A t \in (t1 + 1)..t2 : U[t] \in Int /\ W[t] = U[t] + diff
  PROVE  Gapped(Respaced(own, t1, t2, diff), W, t1 + 1, t2)
<1> DEFINE here(t) == {j \in 1..Len(own) : own[j].start = t}
           widthAt(t) == diff + (IF here(t) = {} THEN 0 ELSE own[Min(here(t))].width)
           moved == {t \in (t1 + 1)..t2 : widthAt(t) # 0}
           new == [j \in 1..Cardinality(moved) |->
                     [start |-> Nth(moved, j), width |-> widthAt(Nth(moved, j))]]
<1>1. \A t \in (t1 + 1)..t2 : widthAt(t) = W[t]
  <2> TAKE t \in (t1 + 1)..t2
  <2>1. PICK h : h = here(t)
    OBVIOUS
  <2>2. h \subseteq Int /\ IsFiniteSet(h) /\ \A j \in h : j \in 1..Len(own) /\ own[j].start = t
    <3>1. h \in SUBSET (1..Len(own)) /\ h \subseteq Int /\ \A j \in h : j \in 1..Len(own) /\ own[j].start = t
      BY <2>1
    <3>2. IsFiniteSet(1..Len(own))
      BY FS_Interval
    <3> QED
      BY <3>1, <3>2, FS_Subset
  <2>3. CASE h = {}
    <3>1. U[t] = 0
      BY <2>1, <2>3 DEF Gapped
    <3> QED
      BY <2>1, <2>3, <3>1
  <2>4. CASE h # {}
    <3>1. Min(h) \in h
      BY <2>2, <2>4, MinOf
    <3>2. own[Min(h)].width = U[t]
      BY <2>2, <3>1 DEF Gapped
    <3> QED
      BY <2>1, <2>4, <3>2
  <2> QED
    BY <2>3, <2>4
<1>2. Respaced(own, t1, t2, diff) = new
  BY DEF Respaced
<1>3. moved \subseteq (t1 + 1)..t2
  OBVIOUS
<1>4. \A t \in (t1 + 1)..t2 : t \in moved <=> W[t] # 0
  BY <1>1
<1> HIDE DEF here, widthAt, moved
<1>5. t1 + 1 \in Int
  OBVIOUS
<1>6. /\ Cardinality(moved) \in Nat
      /\ \A i, j \in 1..Cardinality(moved) : i < j => Nth(moved, i) < Nth(moved, j)
      /\ \A t \in moved : \E j \in 1..Cardinality(moved) : Nth(moved, j) = t
  <2>1. PICK lo \in Int, hi \in Int : lo = t1 + 1 /\ hi = t2
    BY <1>5
  <2>2. moved \subseteq lo..hi
    BY <1>3, <2>1
  <2>3. Cardinality(moved) \in Nat
    BY <2>2, NthOrder
  <2>4. \A i, j \in 1..Cardinality(moved) : i < j => Nth(moved, i) < Nth(moved, j)
    BY <2>2, NthOrder
  <2>5. AllCounted(moved)
    BY <2>2, NthOrder
  <2> QED
    BY <2>3, <2>4, <2>5 DEF AllCounted
<1>7. \A j \in 1..Cardinality(moved) : Nth(moved, j) \in moved
  BY <1>3, <1>5, NthOf
<1>8. /\ DOMAIN new = 1..Cardinality(moved) /\ new = [j \in 1..Cardinality(moved) |-> new[j]]
      /\ \A j \in 1..Cardinality(moved) :
           new[j].start = Nth(moved, j) /\ new[j].width = widthAt(Nth(moved, j))
  OBVIOUS
<1> HIDE DEF new
<1>9. Len(new) = Cardinality(moved)
  BY <1>6, <1>8, IsSeqFunction
<1>10. \A i, j \in 1..Len(new) : i < j => new[i].start < new[j].start
  BY <1>6, <1>8, <1>9
<1>11. \A j \in 1..Len(new) : new[j].start \in (t1 + 1)..t2 /\ new[j].width = W[new[j].start]
  BY <1>1, <1>3, <1>7, <1>8, <1>9
<1>12. \A t \in (t1 + 1)..t2 : W[t] = 0 \/ \E j \in 1..Len(new) : new[j].start = t
  BY <1>4, <1>6, <1>8, <1>9
<1> QED
  BY <1>2, <1>10, <1>11, <1>12 DEF Gapped

-----------------------------------------------------------------------------
(* Where the characters of a line that is filled go.                       *)

\* What a line that is filled has come to.
Filled(l, given, P, U, Y) ==
  /\ Path(l, P, U) /\ Baselines(l, Y) /\ AskedAt(l, given, P, Y)
  /\ Gapped(l.offsets, U, 0, Len(l.text)) /\ Follows(l)

\* The line m is l with w more after its last character, the one at i.
LastChar(text, i) ==
  /\ i \in 0..Len(text) /\ (i = 0 \/ text[i] # PAD)
  /\ \A j \in 1..Len(text) : j > i => text[j] = PAD
Moved(l, m, i, w) ==
  \/ /\ l.offsets # <<>> /\ l.offsets[Len(l.offsets)].start = i /\ Len(m.offsets) = Len(l.offsets)
     /\ \A j \in 1..(Len(l.offsets) - 1) : m.offsets[j] = l.offsets[j]
     /\ m.offsets[Len(l.offsets)] = [start |-> i, width |-> l.offsets[Len(l.offsets)].width + w]
  \/ /\ l.offsets # <<>> => l.offsets[Len(l.offsets)].start # i
     /\ m.offsets = Append(l.offsets, [start |-> i, width |-> w])

\* append_offset moves what follows the last character of the line.
LEMMA AppendOffsetIs ==
  ASSUME NEW l, LineType(l), NEW w \in Int
  PROVE  \E i : LastChar(l.text, i) /\ Moved(l, AppendOffset(l, w), i, w)
<1> DEFINE real == {i \in 1..Len(l.text) : l.text[i] # PAD}
           last == Len(l.offsets)
<1>1. Len(l.text) \in Nat /\ last \in Nat /\ l.offsets \in Seq(Offset)
  BY DEF LineType
<1>2. PICK idx : idx = IF real = {} THEN 0 ELSE Max(real)
  OBVIOUS
<1>3. LastChar(l.text, idx)
  <2>1. CASE real = {}
    BY <1>1, <1>2, <2>1 DEF LastChar
  <2>2. CASE real # {}
    <3>1. real \subseteq 1..Len(l.text) /\ \A i \in 1..Len(l.text) : l.text[i] # PAD <=> i \in real
      OBVIOUS
    <3> HIDE DEF real
    <3>2. 1 \in Int /\ Len(l.text) \in Int
      BY <1>1
    <3>3. Max(real) \in real /\ \A m \in real : m <= Max(real)
      BY <2>2, <3>1, <3>2, MaxOf
    <3>4. idx \in 1..Len(l.text) /\ idx \in real /\ \A m \in real : m <= idx
      BY <1>2, <2>2, <3>1, <3>3
    <3>5. \A j \in 1..Len(l.text) : j > idx => j \notin real
      BY <1>1, <3>4
    <3> QED
      BY <1>1, <3>1, <3>4, <3>5 DEF LastChar
  <2> QED
    BY <2>1, <2>2
<1>4. Moved(l, AppendOffset(l, w), idx, w)
  <2>1. CASE last > 0 /\ l.offsets[last].start = idx
    <3> DEFINE o == [l.offsets[last] EXCEPT !.width = @ + w]
               os == [l.offsets EXCEPT ![last] = o]
    <3>1. last \in 1..last /\ l.offsets[last] \in Offset
      BY <1>1, <2>1
    <3>2. o = [start |-> idx, width |-> l.offsets[last].width + w] /\ o \in Offset
      BY <2>1, <3>1 DEF Offset
    <3>3. AppendOffset(l, w) = [l EXCEPT !.offsets = os]
      BY <1>2, <2>1 DEF AppendOffset
    <3> HIDE DEF o
    <3>4. Len(os) = last /\ os[last] = o /\ \A j \in 1..(last - 1) : os[j] = l.offsets[j]
      BY <1>1, <3>1, <3>2
    <3> HIDE DEF os
    <3>5. AppendOffset(l, w).offsets = os
      BY <3>3 DEF LineType
    <3>6. l.offsets # <<>>
      BY <1>1, <2>1
    <3> QED
      BY <2>1, <3>2, <3>4, <3>5, <3>6 DEF Moved
  <2>2. CASE ~(last > 0 /\ l.offsets[last].start = idx)
    <3>1. AppendOffset(l, w) = [l EXCEPT !.offsets = Append(l.offsets, [start |-> idx, width |-> w])]
      BY <1>2, <2>2 DEF AppendOffset
    <3>2. AppendOffset(l, w).offsets = Append(l.offsets, [start |-> idx, width |-> w])
      BY <3>1 DEF LineType
    <3>3. l.offsets # <<>> => last > 0
      BY <1>1
    <3> QED
      BY <2>2, <3>2, <3>3 DEF Moved
  <2> QED
    BY <2>1, <2>2
<1> QED
  BY <1>3, <1>4

\* The gap after the last character grows by what is appended there.
LEMMA MovedGapped ==
  ASSUME NEW l, LineType(l), NEW m, LineType(m), NEW i, NEW w \in Int, NEW U, Follows(l),
         U \in [0..Len(l.text) -> Int],
         Gapped(l.offsets, U, 0, Len(l.text)), LastChar(l.text, i), Moved(l, m, i, w), m.text = l.text
  PROVE  Follows(m) /\ Gapped(m.offsets, [U EXCEPT ![i] = @ + w], 0, Len(m.text))
<1> DEFINE n == Len(l.offsets)
           W == [U EXCEPT ![i] = @ + w]
<1>1. PICK os, new, len : os = l.offsets /\ new = m.offsets /\ len = Len(l.text)
  OBVIOUS
<1>2. os \in Seq(Offset) /\ new \in Seq(Offset) /\ n \in Nat /\ n = Len(os) /\ len \in Nat
      /\ i \in 0..len
  BY <1>1 DEF LineType, LastChar
<1>3. /\ \A j \in 0..len : W[j] = IF j = i THEN U[i] + w ELSE U[j]
      /\ \A j \in 0..len : U[j] \in Int
  BY <1>1, <1>2
<1> HIDE DEF W
<1>4. /\ \A j, q \in 1..n : j < q => os[j].start < os[q].start
      /\ \A j \in 1..n : os[j].start \in 0..len /\ os[j].width = U[os[j].start]
      /\ \A t \in 0..len : U[t] = 0 \/ \E j \in 1..n : os[j].start = t
  BY <1>1 DEF Gapped
<1>5. \A j \in 1..n : os[j].start <= i
  <2> TAKE j \in 1..n
  <2>1. os[j].start = 0 \/ (os[j].start \in 1..len /\ l.text[os[j].start] # PAD)
    BY <1>1, <1>2, <1>4 DEF Follows
  <2> QED
    BY <1>1, <1>2, <2>1 DEF LastChar
<1>6. \A j \in 1..n : os[j].start = i => j = n
  <2> SUFFICES ASSUME NEW j \in 1..n, os[j].start = i, j # n PROVE FALSE
    OBVIOUS
  <2>1. n \in 1..n /\ j < n
    BY <1>2
  <2>2. os[j].start < os[n].start /\ os[n].start <= i /\ os[n].start \in Int
    BY <1>4, <1>5, <2>1
  <2> QED
    BY <1>2, <2>2
<1>7. i = 0 \/ m.text[i] # PAD
  BY DEF LastChar
<1>8. CASE /\ n > 0 /\ os[n].start = i /\ Len(new) = n
           /\ \A j \in 1..(n - 1) : new[j] = os[j]
           /\ new[n] = [start |-> i, width |-> os[n].width + w]
  <2>1. n \in 1..n /\ new[n].start = i /\ new[n].width = W[i]
    BY <1>2, <1>3, <1>4, <1>8
  <2>2. \A j \in 1..n : new[j].start = os[j].start
    BY <1>2, <1>8, <2>1
  <2>3. \A j \in 1..n : new[j].width = W[new[j].start]
    <3> TAKE j \in 1..n
    <3>1. CASE j = n
      BY <2>1, <3>1
    <3>2. CASE j # n
      <4>1. j \in 1..(n - 1) /\ os[j].start # i
        BY <1>2, <1>6, <3>2
      <4>2. new[j].start = os[j].start /\ new[j].width = U[os[j].start] /\ os[j].start \in 0..len
        BY <1>4, <1>8, <4>1
      <4> QED
        BY <1>3, <4>1, <4>2
    <3> QED
      BY <3>1, <3>2
  <2>4. \A t \in 0..len : W[t] = 0 \/ \E j \in 1..n : new[j].start = t
    <3> SUFFICES ASSUME NEW t \in 0..len, W[t] # 0 PROVE \E j \in 1..n : new[j].start = t
      OBVIOUS
    <3>1. CASE t = i
      BY <2>1, <3>1
    <3>2. CASE t # i
      <4>1. PICK j \in 1..n : os[j].start = t
        BY <1>3, <1>4, <3>2
      <4> QED
        BY <2>2, <4>1
    <3> QED
      BY <3>1, <3>2
  <2>5. Gapped(new, W, 0, len)
    BY <1>4, <1>8, <2>2, <2>3, <2>4 DEF Gapped
  <2>6. Follows(m)
    BY <1>1, <1>8, <2>2 DEF Follows
  <2> QED
    BY <1>1, <2>5, <2>6 DEF W
<1>9. CASE /\ n > 0 => os[n].start # i
           /\ new = Append(os, [start |-> i, width |-> w])
  <2>1. /\ Len(new) = n + 1 /\ new[n + 1].start = i /\ new[n + 1].width = w
        /\ \A j \in 1..n : new[j] = os[j]
    BY <1>2, <1>9
  <2>2. \A j \in 1..n : os[j].start # i /\ os[j].start < i
    <3> TAKE j \in 1..n
    <3>1. os[j].start # i
      BY <1>2, <1>6, <1>9
    <3>2. os[j].start \in Int /\ os[j].start <= i /\ i \in Int
      BY <1>2, <1>4, <1>5
    <3> QED
      BY <3>1, <3>2
  <2>3. U[i] = 0 /\ W[i] = w
    <3>1. U[i] = 0 \/ \E j \in 1..n : os[j].start = i
      BY <1>2, <1>4
    <3>2. U[i] = 0
      BY <2>2, <3>1
    <3>3. W[i] = 0 + w
      BY <1>2, <1>3, <3>2
    <3> QED
      BY <3>2, <3>3
  <2>4. \A j \in 1..(n + 1) : j \in 1..n \/ j = n + 1
    BY <1>2
  <2>5. \A j, q \in 1..(n + 1) : j < q => new[j].start < new[q].start
    <3> SUFFICES ASSUME NEW j \in 1..(n + 1), NEW q \in 1..(n + 1), j < q
                 PROVE  new[j].start < new[q].start
      OBVIOUS
    <3>1. j \in 1..n /\ new[j].start = os[j].start
      BY <1>2, <2>1
    <3>2. CASE q \in 1..n
      BY <1>4, <2>1, <3>1, <3>2
    <3>3. CASE q = n + 1
      BY <2>1, <2>2, <3>1, <3>3
    <3> QED
      BY <2>4, <3>2, <3>3
  <2>6. \A j \in 1..(n + 1) : new[j].start \in 0..len /\ new[j].width = W[new[j].start]
    <3> TAKE j \in 1..(n + 1)
    <3>1. CASE j \in 1..n
      <4>1. new[j] = os[j] /\ os[j].start \in 0..len /\ os[j].width = U[os[j].start] /\ os[j].start # i
        BY <1>4, <2>1, <2>2, <3>1
      <4> QED
        BY <1>3, <4>1
    <3>2. CASE j = n + 1
      BY <1>2, <2>1, <2>3, <3>2
    <3> QED
      BY <2>4, <3>1, <3>2
  <2>7. \A t \in 0..len : W[t] = 0 \/ \E j \in 1..(n + 1) : new[j].start = t
    <3> SUFFICES ASSUME NEW t \in 0..len, W[t] # 0 PROVE \E j \in 1..(n + 1) : new[j].start = t
      OBVIOUS
    <3>1. CASE t = i
      <4>1. n + 1 \in 1..(n + 1)
        BY <1>2
      <4> QED
        BY <2>1, <3>1, <4>1
    <3>2. CASE t # i
      <4>1. PICK j \in 1..n : os[j].start = t
        BY <1>3, <1>4, <3>2
      <4>2. j \in 1..(n + 1) /\ new[j].start = t
        BY <1>2, <2>1, <4>1
      <4> QED
        BY <4>2
    <3> QED
      BY <3>1, <3>2
  <2>8. Gapped(new, W, 0, len)
    BY <2>1, <2>5, <2>6, <2>7 DEF Gapped
  <2>9. Follows(m)
    BY <1>1, <1>7, <2>1, <2>4 DEF Follows
  <2> QED
    BY <1>1, <2>8, <2>9 DEF W
<1> QED
  BY <1>1, <1>2, <1>8, <1>9 DEF Moved

\* Padding has no width, and the width of anything else is an integer.
LEMMA KindAdvance ==
  ASSUME NEW ids \in [Ids -> Int], NEW c \in Kinds
  PROVE  CharAdvance(c, ids) \in Int /\ CharAdvance(PAD, ids) = 0
<1>1. CharAdvance(PAD, ids) = 0
  BY DEF CharAdvance, PAD, LETTER, SPACE
<1>2. c = PAD \/ c \in {LETTER, SPACE}
  BY DEF Kinds
<1> QED
  BY <1>1, <1>2, AdvanceType

\* What a segment holds is in the text.
LEMMA SegmentFacts ==
  ASSUME NEW l, LineType(l), StatesOK(l), NEW i \in 1..Len(l.states), NEW t \in Segment(l, i)
  PROVE  /\ t \in 0..(Len(l.text) - 1) /\ t \in Nat /\ t \in 0..Len(l.text) /\ t + 1 \in 1..Len(l.text)
         /\ l.text[t + 1] \in Kinds /\ l.states[i] \in State
         /\ CharAdvance(l.text[t + 1], l.states[i].ids) \in Int
<1>1. /\ l.states[i].start \in Nat /\ EndOf(l, i) \in Nat /\ EndOf(l, i) <= Len(l.text)
      /\ Len(l.text) \in Nat /\ l.text \in Seq(Kinds) /\ l.states[i] \in State
  BY EndOfType DEF LineType
<1>2. t \in 0..(Len(l.text) - 1) /\ t \in Nat /\ t \in 0..Len(l.text) /\ t + 1 \in 1..Len(l.text)
  BY <1>1 DEF Segment
<1>3. l.text[t + 1] \in Kinds
  BY <1>1, <1>2
<1>4. l.states[i].ids \in [Ids -> Int]
  BY <1>1, StateFields
<1> QED
  BY <1>1, <1>2, <1>3, <1>4, KindAdvance

\* An offset moves what comes after the last character, and no character.
LEMMA FilledOffset ==
  ASSUME NEW l, LineType(l), StatesOK(l), NEW given, NEW P, NEW U, NEW Y, Filled(l, given, P, U, Y),
         NEW w \in Int
  PROVE  \E P1, U1 : /\ Filled(AppendOffset(l, w), given, P1, U1, Y)
                     /\ P1[Len(l.text)] = P[Len(l.text)] + w
<1>1. PICK m : m = AppendOffset(l, w)
  OBVIOUS
<1>2. LineType(m) /\ m.text = l.text /\ m.states = l.states
  BY <1>1, AppendOffsetFacts
<1>3. PICK i : LastChar(l.text, i) /\ Moved(l, m, i, w)
  BY <1>1, AppendOffsetIs
<1>4. PICK len : len = Len(l.text)
  OBVIOUS
<1>5. len \in Nat /\ i \in 0..len
  BY <1>3, <1>4 DEF LineType, LastChar
<1>6. /\ P \in [0..len -> Int] /\ U \in [0..len -> Int] /\ P[0] = U[0]
      /\ \A q \in 1..Len(l.states) : \A t \in Segment(l, q) :
           P[t + 1] = P[t] + CharAdvance(l.text[t + 1], l.states[q].ids) + U[t + 1]
  BY <1>4 DEF Filled, Path
<1> DEFINE P1 == [u \in 0..len |-> IF u >= i THEN P[u] + w ELSE P[u]]
           U1 == [U EXCEPT ![i] = @ + w]
<1>7. /\ P1 \in [0..len -> Int]
      /\ \A u \in 0..len : P1[u] = IF u >= i THEN P[u] + w ELSE P[u]
  BY <1>5, <1>6
<1>8. /\ U1 \in [0..len -> Int]
      /\ \A u \in 0..len : U1[u] = IF u = i THEN U[u] + w ELSE U[u]
  BY <1>5, <1>6
<1>9. Follows(m) /\ Gapped(m.offsets, U1, 0, Len(m.text))
  BY <1>2, <1>3, <1>4, <1>6, MovedGapped DEF Filled
<1> HIDE DEF P1, U1
<1>10. Path(m, P1, U1)
  <2>1. P1[0] = U1[0]
    <3>1. 0 \in 0..len /\ (0 >= i <=> i = 0)
      BY <1>5
    <3>2. P1[0] = (IF i = 0 THEN P[0] + w ELSE P[0]) /\ U1[0] = IF i = 0 THEN U[0] + w ELSE U[0]
      BY <1>7, <1>8, <3>1
    <3> QED
      BY <1>6, <3>2
  <2>2. ASSUME NEW q \in 1..Len(l.states), NEW t \in Segment(l, q)
        PROVE  P1[t + 1] = P1[t] + CharAdvance(l.text[t + 1], l.states[q].ids) + U1[t + 1]
    <3>1. PICK a : a = CharAdvance(l.text[t + 1], l.states[q].ids)
      OBVIOUS
    <3>2. a \in Int /\ t \in Nat /\ t \in 0..len /\ t + 1 \in 0..len
      BY <1>4, <1>5, <3>1, SegmentFacts
    <3>3. P[t + 1] = P[t] + a + U[t + 1] /\ P[t] \in Int /\ P[t + 1] \in Int /\ U[t + 1] \in Int
      BY <1>6, <3>1, <3>2
    <3>4. /\ P1[t + 1] = IF t + 1 >= i THEN P[t + 1] + w ELSE P[t + 1]
          /\ P1[t] = IF t >= i THEN P[t] + w ELSE P[t]
          /\ U1[t + 1] = IF t + 1 = i THEN U[t + 1] + w ELSE U[t + 1]
      BY <1>7, <1>8, <3>2
    <3>5. P1[t + 1] = P1[t] + a + U1[t + 1]
      BY <1>5, <3>2, <3>3, <3>4
    <3> QED
      BY <3>1, <3>5
  <2> QED
    BY <1>2, <1>4, <1>7, <1>8, <2>1, <2>2 DEF Path, Segment, EndOf
<1>11. AskedAt(m, given, P1, Y)
  <2>1. ASSUME NEW q \in 1..Len(l.states), NEW t \in Segment(l, q), l.text[t + 1] # PAD
        PROVE  AskedThere(given[Count(l.text, t + 1)], P1[t], Y[q])
    <3>1. t \in 0..len /\ t + 1 \in 1..len
      BY <1>4, SegmentFacts
    <3>2. ~(t + 1 > i)
      BY <1>3, <1>4, <2>1, <3>1 DEF LastChar
    <3>3. P1[t] = P[t]
      BY <1>5, <1>7, <3>1, <3>2
    <3> QED
      BY <2>1, <3>3 DEF Filled, AskedAt
  <2> QED
    BY <1>2, <2>1 DEF AskedAt, Segment, EndOf
<1>12. Baselines(m, Y)
  BY <1>2 DEF Filled, Baselines
<1>13. P1[len] = P[len] + w
  BY <1>5, <1>7
<1> QED
  BY <1>1, <1>4, <1>9, <1>10, <1>11, <1>12, <1>13 DEF Filled

\* The baseline y of the last state of d, where d is l with one more entry.
LastBaseline(l, d, Y, y) ==
  \/ l.states # <<>> /\ d.states = l.states /\ y = Y[Len(l.states)]
  \/ \E s \in State :
       /\ s.start = Len(l.text) /\ d.states = Append(l.states, s)
       /\ IF l.states = <<>> THEN y = 0 /\ s.va = 0 ELSE y = Y[Len(l.states)] + s.va

\* A state more, or none, leaves the baselines of the others.
LEMMA BaselinesNext ==
  ASSUME NEW l, LineType(l), NEW d, LineType(d), NEW Y, Baselines(l, Y), NEW y \in Int,
         LastBaseline(l, d, Y, y)
  PROVE  \E Y1 : /\ Baselines(d, Y1) /\ Y1[Len(d.states)] = y
                 /\ \A i \in 1..Len(l.states) : Y1[i] = Y[i]
<1> DEFINE n == Len(l.states)
<1>1. n \in Nat /\ l.states \in Seq(State)
  BY DEF LineType
<1>2. CASE l.states # <<>> /\ d.states = l.states /\ y = Y[n]
  <2>1. Baselines(d, Y) /\ Y[Len(d.states)] = y /\ \A i \in 1..n : Y[i] = Y[i]
    BY <1>2 DEF Baselines
  <2> QED
    BY <2>1
<1>3. ASSUME NEW s \in State, d.states = Append(l.states, s),
             IF l.states = <<>> THEN y = 0 /\ s.va = 0 ELSE y = Y[n] + s.va
      PROVE  \E Y1 : /\ Baselines(d, Y1) /\ Y1[Len(d.states)] = y
                     /\ \A i \in 1..n : Y1[i] = Y[i]
  <2>1. /\ Len(d.states) = n + 1 /\ d.states[n + 1] = s
        /\ \A i \in 1..n : d.states[i] = l.states[i]
    BY <1>1, <1>3, AppendFacts
  <2>2. l.states = <<>> <=> n = 0
    BY <1>1
  <2>3. /\ Y \in [1..n -> Int] /\ (n # 0 => Y[1] = 0 /\ l.states[1].va = 0)
        /\ \A i \in 1..(n - 1) : Y[i + 1] = Y[i] + l.states[i + 1].va
    BY <2>2 DEF Baselines
  <2>4. n = 0 => y = 0 /\ s.va = 0
    BY <1>3, <2>2
  <2>5. n # 0 => y = Y[n] + s.va
    BY <1>3, <2>2
  <2> HIDE DEF n
  <2> DEFINE Y1 == [i \in 1..(n + 1) |-> IF i \in 1..n THEN Y[i] ELSE y]
  <2>6. /\ Y1 \in [1..(n + 1) -> Int] /\ Y1[n + 1] = y
        /\ \A i \in 1..n : Y1[i] = Y[i]
    BY <1>1, <2>3
  <2> HIDE DEF Y1
  <2>7. Y1[1] = 0 /\ d.states[1].va = 0
    <3>1. CASE n = 0
      BY <2>1, <2>4, <2>6, <3>1
    <3>2. CASE n # 0
      <4>1. 1 \in 1..n
        BY <1>1, <3>2
      <4> QED
        BY <2>1, <2>3, <2>6, <3>2, <4>1
    <3> QED
      BY <3>1, <3>2
  <2>8. ASSUME NEW i \in 1..n
        PROVE  Y1[i + 1] = Y1[i] + d.states[i + 1].va
    <3>1. CASE i = n
      <4>1. n # 0 /\ n \in 1..n
        BY <1>1, <3>1
      <4> QED
        BY <2>1, <2>5, <2>6, <3>1, <4>1
    <3>2. CASE i # n
      <4>1. i \in 1..(n - 1) /\ i + 1 \in 1..n
        BY <1>1, <3>2
      <4> QED
        BY <2>1, <2>3, <2>6, <4>1
    <3> QED
      BY <3>1, <3>2
  <2>9. Baselines(d, Y1)
    BY <1>1, <2>1, <2>6, <2>7, <2>8 DEF Baselines
  <2> QED
    BY <2>1, <2>6, <2>9 DEF n
<1> QED
  BY <1>2, <1>3 DEF LastBaseline

\* A character goes where the pen is, and moves it by its width.
FilledTo(d, given, y, x) ==
  \E P, U, Y : Filled(d, given, P, U, Y) /\ Y[Len(d.states)] = y /\ P[Len(d.text)] = x
LEMMA FilledChar ==
  ASSUME NEW l, LineType(l), StatesOK(l), NEW d, LineType(d), NEW c \in Kinds,
         Len(l.text) < MaxChars, d.text = Append(l.text, c), d.offsets = l.offsets,
         NEW given \in Seq(Asked), Len(given) = Count(l.text, Len(l.text)),
         NEW P, NEW U, NEW Y, Filled(l, given, P, U, Y),
         NEW y, y \in Int, LastBaseline(l, d, Y, y), NEW a, AskedThere(a, P[Len(l.text)], y),
         NEW more, c = PAD => more = given, c # PAD => more = Append(given, a)
  PROVE  FilledTo(d, more, y, P[Len(l.text)] + CharAdvance(c, Last(d.states).ids))
<1>1. PICK n : n = Len(l.text)
  OBVIOUS
<1>2. /\ l.text \in Seq(Kinds) /\ n \in Nat /\ Len(d.text) = n + 1 /\ d.text[n + 1] = c
      /\ \A t \in 1..n : d.text[t] = l.text[t]
  <2>1. l.text \in Seq(Kinds)
    BY DEF LineType
  <2> QED
    BY <1>1, <2>1, AppendFacts
<1>3. Drawn(l, d, c)
  BY DEF Drawn, LastBaseline
<1>4. /\ StatesOK(d) /\ Len(d.states) \in 1..Len(d.states) /\ Len(d.states) \in Nat
      /\ \A i \in 1..Len(d.states) : \A t \in Segment(d, i) :
           \/ i = Len(d.states) /\ t = n
           \/ /\ i \in 1..Len(l.states) /\ d.states[i] = l.states[i]
              /\ t \in Segment(l, i) /\ t \in 0..(n - 1)
  <2>1. Len(d.states) \in Nat
    BY DEF LineType
  <2> QED
    BY <1>1, <1>3, <2>1, DrawnSegments
<1>5. PICK Y1 : /\ Baselines(d, Y1) /\ Y1[Len(d.states)] = y
                /\ \A i \in 1..Len(l.states) : Y1[i] = Y[i]
  BY BaselinesNext DEF Filled
<1>6. /\ P \in [0..n -> Int] /\ U \in [0..n -> Int] /\ P[0] = U[0]
      /\ \A q \in 1..Len(l.states) : \A t \in Segment(l, q) :
           P[t + 1] = P[t] + CharAdvance(l.text[t + 1], l.states[q].ids) + U[t + 1]
  BY <1>1 DEF Filled, Path
<1>7. PICK adv : adv = CharAdvance(c, Last(d.states).ids)
  OBVIOUS
<1>8. adv \in Int
  <2>1. d.states[Len(d.states)] \in State
    BY <1>4 DEF LineType
  <2> QED
    BY <1>7, <2>1, StateFields, KindAdvance DEF Last
<1> DEFINE P1 == [u \in 0..(n + 1) |-> IF u \in 0..n THEN P[u] ELSE P[n] + adv]
           U1 == [u \in 0..(n + 1) |-> IF u \in 0..n THEN U[u] ELSE 0]
<1>9. /\ P1 \in [0..(n + 1) -> Int] /\ P1[n + 1] = P[n] + adv
      /\ \A u \in 0..n : P1[u] = P[u]
  <2>1. n \in 0..n /\ n + 1 \in 0..(n + 1) /\ n + 1 \notin 0..n /\ \A u \in 0..n : u \in 0..(n + 1)
    BY <1>2
  <2>2. P[n] \in Int
    BY <1>6, <2>1
  <2> QED
    BY <1>6, <1>8, <2>1, <2>2
<1>10. /\ U1 \in [0..(n + 1) -> Int] /\ U1[n + 1] = 0
       /\ \A u \in 0..n : U1[u] = U[u]
  BY <1>2, <1>6
<1> HIDE DEF P1, U1
<1>11. Path(d, P1, U1)
  <2>1. P1[0] = U1[0]
    BY <1>2, <1>6, <1>9, <1>10
  <2>2. ASSUME NEW i \in 1..Len(d.states), NEW t \in Segment(d, i)
        PROVE  P1[t + 1] = P1[t] + CharAdvance(d.text[t + 1], d.states[i].ids) + U1[t + 1]
    <3>1. CASE i = Len(d.states) /\ t = n
      <4>1. CharAdvance(d.text[t + 1], d.states[i].ids) = adv
        BY <1>2, <1>7, <3>1 DEF Last
      <4>2. P1[n] = P[n] /\ P[n] \in Int
        BY <1>2, <1>6, <1>9
      <4> QED
        BY <1>8, <1>9, <1>10, <3>1, <4>1, <4>2
    <3>2. CASE /\ i \in 1..Len(l.states) /\ d.states[i] = l.states[i]
               /\ t \in Segment(l, i) /\ t \in 0..(n - 1)
      <4>1. t \in 0..n /\ t + 1 \in 0..n /\ t + 1 \in 1..n
        <5>1. n \in Nat
          BY <1>2
        <5>2. t \in 0..(n - 1)
          BY <3>2
        <5> QED
          BY <5>1, <5>2
      <4>2. P[t + 1] = P[t] + CharAdvance(l.text[t + 1], l.states[i].ids) + U[t + 1]
        BY <1>6, <3>2
      <4> QED
        BY <1>2, <1>9, <1>10, <3>2, <4>1, <4>2
    <3> QED
      BY <1>4, <3>1, <3>2
  <2> QED
    BY <1>2, <1>9, <1>10, <2>1, <2>2 DEF Path
<1>12. AskedAt(d, more, P1, Y1)
  <2>1. /\ \A t \in 0..n : Count(d.text, t) = Count(l.text, t)
        /\ Count(d.text, n + 1) = IF c # PAD THEN Len(given) + 1 ELSE Len(given)
    <3>1. \A t \in 0..n : Count(d.text, t) = Count(l.text, t)
      BY <1>1, <1>2, CountAppend
    <3>2. Count(d.text, n) = Len(given) /\ n \in 0..n
      BY <1>1, <1>2, <3>1
    <3> QED
      BY <1>2, <3>1, <3>2, CountNext
  <2>2. /\ Append(given, a)[Len(given) + 1] = a
        /\ \A j \in 1..Len(given) : Append(given, a)[j] = given[j]
    <3>1. IsSeq(given)
      BY DEF IsSeq
    <3> QED
      BY <3>1, IsSeqAppend
  <2>3. ASSUME NEW i \in 1..Len(d.states), NEW t \in Segment(d, i), d.text[t + 1] # PAD
        PROVE  AskedThere(more[Count(d.text, t + 1)], P1[t], Y1[i])
    <3>1. CASE i = Len(d.states) /\ t = n
      <4>1. c # PAD
        BY <1>2, <2>3, <3>1
      <4>2. more[Count(d.text, n + 1)] = a
        BY <2>1, <2>2, <4>1
      <4>3. P1[n] = P[n]
        BY <1>2, <1>9
      <4> QED
        BY <1>1, <1>5, <3>1, <4>2, <4>3
    <3>2. CASE /\ i \in 1..Len(l.states) /\ d.states[i] = l.states[i]
               /\ t \in Segment(l, i) /\ t \in 0..(n - 1)
      <4>1. t \in 0..n /\ t + 1 \in 0..n /\ t + 1 \in 1..n
        <5>1. n \in Nat
          BY <1>2
        <5>2. t \in 0..(n - 1)
          BY <3>2
        <5> QED
          BY <5>1, <5>2
      <4>2. l.text[t + 1] # PAD
        BY <1>2, <2>3, <4>1
      <4>3. Count(l.text, t + 1) \in 1..Len(given) /\ Count(d.text, t + 1) = Count(l.text, t + 1)
        BY <1>1, <1>2, <2>1, <3>2, <4>1, <4>2, CountPlace
      <4>4. AskedThere(given[Count(l.text, t + 1)], P[t], Y[i])
        BY <3>2, <4>2 DEF Filled, AskedAt
      <4>5. more[Count(d.text, t + 1)] = given[Count(l.text, t + 1)]
        BY <2>2, <4>3
      <4> QED
        BY <1>5, <1>9, <3>2, <4>1, <4>4, <4>5
    <3> QED
      BY <1>4, <3>1, <3>2
  <2> QED
    BY <2>3 DEF AskedAt
<1>13. Gapped(d.offsets, U1, 0, Len(d.text)) /\ Follows(d)
  <2>1. PICK os : os = l.offsets
    OBVIOUS
  <2>2. /\ \A i, j \in 1..Len(os) : i < j => os[i].start < os[j].start
        /\ \A j \in 1..Len(os) : os[j].start \in 0..n /\ os[j].width = U[os[j].start]
        /\ \A t \in 0..n : U[t] = 0 \/ \E j \in 1..Len(os) : os[j].start = t
        /\ \A j \in 1..Len(os) : os[j].start = 0 \/ l.text[os[j].start] # PAD
    BY <1>1, <2>1 DEF Filled, Gapped, Follows
  <2>3. \A t \in 0..(n + 1) : t \in 0..n \/ t = n + 1
    BY <1>2
  <2>4. \A t \in 0..n : t \in 0..(n + 1) /\ (t = 0 \/ t \in 1..n)
    BY <1>2
  <2>5. \A j \in 1..Len(os) : os[j].start \in 0..(n + 1) /\ os[j].width = U1[os[j].start]
    BY <1>10, <2>2, <2>4
  <2>6. \A t \in 0..(n + 1) : U1[t] = 0 \/ \E j \in 1..Len(os) : os[j].start = t
    BY <1>10, <2>2, <2>3
  <2>7. \A j \in 1..Len(os) : os[j].start = 0 \/ d.text[os[j].start] # PAD
    BY <1>2, <2>2, <2>4
  <2> QED
    BY <1>2, <2>1, <2>2, <2>5, <2>6, <2>7 DEF Gapped, Follows
<1> QED
  BY <1>1, <1>2, <1>5, <1>7, <1>9, <1>11, <1>12, <1>13 DEF Filled, FilledTo

\* drawString puts the character where the pen is, and leaves the pen behind it.
LEMMA DrawPlaces ==
  ASSUME LineType(line), StatesOK(line), AskedOK(line, asked, covered), askedPen \in Int \X Int,
         Len(line.text) < MaxChars,
         NEW w \in Widths \cup {0}, NEW style \in Styles \cup {<<>>}, NEW c \in Kinds,
         line.text = <<>> => style # <<>> /\ style[VA] = 0, Draw(w, style, c),
         NEW P, NEW U, NEW Y, Filled(line, asked, P, U, Y), FillingOK(P, Y)
  PROVE  \E P1, U1, Y1 : Filled(line', asked', P1, U1, Y1) /\ FillingOK(P1, Y1)'
<1>1. PICK moved : moved = IF w = 0 THEN line ELSE AppendOffset(line, w)
  OBVIOUS
<1>2. PICK n : n = Len(line.text)
  OBVIOUS
<1>3. w \in Int
  BY TextLineAssumption
<1>4. LineType(moved) /\ moved.text = line.text /\ moved.states = line.states
  BY <1>1, <1>3, AppendOffsetFacts
<1>5. StatesOK(moved)
  BY <1>4 DEF StatesOK
<1>6. PICK P1, U1 : Filled(moved, asked, P1, U1, Y) /\ P1[n] = askedPen[1] + w
  <2>1. P[n] = askedPen[1] /\ askedPen[1] \in Int
    BY <1>2 DEF FillingOK
  <2>2. CASE w = 0
    <3>1. Filled(moved, asked, P, U, Y) /\ P[n] = askedPen[1] + w
      BY <1>1, <2>1, <2>2
    <3> QED
      BY <3>1
  <2>3. CASE w # 0
    <3>1. moved = AppendOffset(line, w)
      BY <1>1, <2>3
    <3> QED
      BY <1>2, <1>3, <2>1, <3>1, FilledOffset
  <2> QED
    BY <2>2, <2>3
<1>7. PICK styled : styled = IF style = <<>> THEN moved ELSE AppendState(moved, style)
  OBVIOUS
<1>8. PICK y : y = askedPen[2] + (IF style = <<>> THEN 0 ELSE style[VA])
  OBVIOUS
<1>9. /\ y \in Int /\ askedPen[2] \in Int
      /\ style # <<>> => style[VA] \in Int
      /\ askedPen[2] = IF line.states = <<>> THEN 0 ELSE Y[Len(line.states)]
  <2>1. style # <<>> => style \in [Ids -> Int] /\ VA \in Ids
    BY StylesAssumption DEF Ids, FONT, VA
  <2>2. askedPen[2] \in Int
    OBVIOUS
  <2> QED
    BY <1>8, <2>1, <2>2 DEF FillingOK
<1>10. /\ LineType(styled) /\ styled.text = line.text /\ styled.offsets = moved.offsets
       /\ LastBaseline(moved, styled, Y, y)
       /\ \A i \in 1..Len(styled.states) : styled.states[i].mask = {}
  <2>1. CASE style = <<>>
    <3>1. styled = moved
      BY <1>7, <2>1
    <3>2. moved.states # <<>> /\ y = Y[Len(moved.states)]
      <4>1. line.states # <<>>
        BY <2>1 DEF StatesOK
      <4> QED
        BY <1>4, <1>8, <1>9, <2>1, <4>1
    <3>3. \A i \in 1..Len(styled.states) : styled.states[i].mask = {}
      BY <1>4, <3>1 DEF FillingOK
    <3> QED
      BY <1>4, <3>1, <3>2, <3>3 DEF LastBaseline
  <2>2. CASE style # <<>>
    <3>1. style \in Styles /\ styled = AppendState(moved, style)
      BY <1>7, <2>2
    <3>2. /\ LineType(styled) /\ styled.text = line.text /\ styled.offsets = moved.offsets
          /\ \E s \in State : /\ s.start = Len(moved.text) /\ styled.states = Append(moved.states, s)
                              /\ s.va = style[VA] /\ s.mask = {}
      BY <1>4, <1>5, <3>1, AppendStateFacts
    <3>3. PICK s \in State : /\ s.start = Len(moved.text) /\ styled.states = Append(moved.states, s)
                             /\ s.va = style[VA] /\ s.mask = {}
      BY <3>2
    <3>4. IF moved.states = <<>> THEN y = 0 /\ s.va = 0 ELSE y = Y[Len(moved.states)] + s.va
      <4>1. CASE line.states = <<>>
        <5>1. style[VA] = 0
          BY <4>1 DEF StatesOK
        <5> QED
          BY <1>4, <1>8, <1>9, <2>2, <3>3, <4>1, <5>1
      <4>2. CASE line.states # <<>>
        BY <1>4, <1>8, <1>9, <2>2, <3>3, <4>2
      <4> QED
        BY <4>1, <4>2
    <3>5. moved.states \in Seq(State) /\ Len(moved.states) \in Nat
      BY <1>4 DEF LineType
    <3>6. \A i \in 1..Len(styled.states) : styled.states[i].mask = {}
      <4>1. /\ Len(styled.states) = Len(moved.states) + 1
            /\ styled.states[Len(moved.states) + 1] = s
            /\ \A i \in 1..Len(moved.states) : styled.states[i] = moved.states[i]
        BY <3>3, <3>5, AppendFacts
      <4>2. \A i \in 1..Len(moved.states) : moved.states[i].mask = {}
        BY <1>4 DEF FillingOK
      <4>3. \A i \in 1..Len(styled.states) : i \in 1..Len(moved.states) \/ i = Len(moved.states) + 1
        BY <3>5, <4>1
      <4> QED
        BY <3>3, <4>1, <4>2, <4>3
    <3> QED
      BY <3>2, <3>3, <3>4, <3>6 DEF LastBaseline
  <2> QED
    BY <2>1, <2>2
<1>11. PICK ids : ids = Last(styled.states).ids
  OBVIOUS
<1>12. PICK drawn : drawn = AppendChar(styled, c)
  OBVIOUS
<1>13. /\ LineType(drawn) /\ drawn.text = Append(moved.text, c) /\ drawn.states = styled.states
       /\ drawn.offsets = moved.offsets
  <2>1. Append(styled.text, c) \in Seq(Kinds)
    BY <1>10 DEF LineType
  <2> QED
    BY <1>4, <1>10, <1>12, <2>1 DEF LineType, AppendChar
<1>14. LastBaseline(moved, drawn, Y, y)
  BY <1>10, <1>13 DEF LastBaseline
<1>15. PICK x : x = askedPen[1] + w
  OBVIOUS
<1> DEFINE a == [x |-> x, y |-> y, font |-> ids[FONT], size |-> ids[SIZE],
                 hidden |-> Len(line.text) \in covered]
<1>16. /\ line' = IF c = PAD THEN AppendOffset(drawn, SingleSpaceOffset(ids)) ELSE drawn
       /\ asked' = IF c = PAD THEN asked ELSE Append(asked, a)
       /\ askedPen' = <<x + CharAdvance(IF c = PAD THEN SPACE ELSE c, ids), y>>
  BY <1>1, <1>7, <1>8, <1>11, <1>12, <1>15 DEF Draw
<1>17. AskedThere(a, P1[n], y)
  BY <1>6, <1>15 DEF AskedThere
<1> HIDE DEF a
<1>18. PICK P2, U2, Y2 :
         /\ Filled(drawn, asked', P2, U2, Y2) /\ Y2[Len(drawn.states)] = y
         /\ P2[Len(drawn.text)] = P1[n] + CharAdvance(c, ids)
  <2>1. asked \in Seq(Asked) /\ Len(asked) = Count(moved.text, Len(moved.text))
    BY <1>4 DEF AskedOK
  <2>2. Len(moved.text) < MaxChars /\ AskedThere(a, P1[Len(moved.text)], y)
    BY <1>2, <1>4, <1>17
  <2>3. y \in Int
    BY <1>9
  <2>4. PICK more : more = asked'
    OBVIOUS
  <2>5. (c = PAD => more = asked) /\ (c # PAD => more = Append(asked, a))
    BY <1>16, <2>4
  <2>6. FilledTo(drawn, more, y, P1[Len(moved.text)] + CharAdvance(c, Last(drawn.states).ids))
    BY <1>4, <1>5, <1>6, <1>13, <1>14, <2>1, <2>2, <2>3, <2>5, FilledChar
  <2>7. P1[Len(moved.text)] = P1[n] /\ Last(drawn.states).ids = ids
    BY <1>2, <1>4, <1>11, <1>13
  <2> QED
    BY <2>4, <2>6, <2>7 DEF FilledTo
<1>19. StatesOK(drawn) /\ Len(drawn.states) > 0
  <2>1. Drawn(moved, drawn, c)
    BY <1>13, <1>14 DEF Drawn, LastBaseline
  <2> QED
    BY <1>4, <1>5, <1>13, <2>1, DrawnSegments
<1>20. ids \in [Ids -> Int]
  <2>1. Len(drawn.states) \in 1..Len(drawn.states) /\ drawn.states \in Seq(State)
    BY <1>13, <1>19 DEF LineType
  <2>2. drawn.states[Len(drawn.states)] \in State
    BY <2>1
  <2> QED
    BY <1>11, <1>13, <2>2, StateFields DEF Last
<1>21. drawn.states # <<>>
  BY <1>13, <1>19 DEF LineType
<1>22. P1[n] \in Int
  BY <1>3, <1>6
<1>23. CASE c # PAD
  <2>1. line' = drawn /\ askedPen' = <<x + CharAdvance(c, ids), y>>
    BY <1>16, <1>23
  <2>2. FillingOK(P2, Y2)'
    <3>1. Follows(drawn)
      BY <1>18 DEF Filled
    <3> QED
      BY <1>6, <1>10, <1>13, <1>15, <1>18, <1>21, <2>1, <3>1 DEF FillingOK
  <2> QED
    BY <1>18, <2>1, <2>2
<1>24. CASE c = PAD
  <2>1. PICK sp : sp = SingleSpaceOffset(ids)
    OBVIOUS
  <2>2. /\ sp \in Int /\ CharAdvance(c, ids) = 0 /\ CharAdvance(SPACE, ids) = sp
    <3>1. SPACE \in {LETTER, SPACE}
      OBVIOUS
    <3>2. sp \in Int /\ CharAdvance(c, ids) = 0
      BY <1>20, <1>24, <2>1, <3>1, AdvanceType, KindAdvance
    <3>3. CharAdvance(SPACE, ids) = SPACE_WIDTH * ids[SIZE] + ids[LS] + ids[WS]
      BY DEF CharAdvance, PAD, LETTER, SPACE
    <3>4. ids[SIZE] \in Int /\ ids[LS] \in Int /\ ids[WS] \in Int
      BY <1>20 DEF Ids, FONT, SIZE, LS, WS, VA
    <3>5. SPACE_WIDTH * ids[SIZE] \in Int
      BY <3>4 DEF SPACE_WIDTH
    <3> QED
      BY <2>1, <3>2, <3>3, <3>4, <3>5 DEF SingleSpaceOffset
  <2>3. line' = AppendOffset(drawn, sp) /\ askedPen' = <<x + sp, y>>
    BY <1>16, <1>24, <2>1, <2>2
  <2>4. PICK P3, U3 : /\ Filled(line', asked', P3, U3, Y2)
                      /\ P3[Len(drawn.text)] = P2[Len(drawn.text)] + sp
    <3>1. LineType(drawn) /\ StatesOK(drawn) /\ Filled(drawn, asked', P2, U2, Y2) /\ sp \in Int
      BY <1>13, <1>18, <1>19, <2>2
    <3>2. \E P3, U3 : /\ Filled(AppendOffset(drawn, sp), asked', P3, U3, Y2)
                      /\ P3[Len(drawn.text)] = P2[Len(drawn.text)] + sp
      BY <3>1, FilledOffset
    <3> QED
      BY <2>3, <3>2
  <2>5. line'.text = drawn.text /\ line'.states = drawn.states
    BY <1>13, <2>2, <2>3, AppendOffsetFacts
  <2>6. FillingOK(P3, Y2)'
    <3>1. Follows(line')
      BY <2>4 DEF Filled
    <3>2. askedPen'[1] = P3[Len(line'.text)]
      BY <1>6, <1>15, <1>18, <1>22, <2>2, <2>3, <2>4, <2>5
    <3>3. askedPen'[2] = Y2[Len(line'.states)] /\ line'.states # <<>>
      BY <1>18, <1>21, <2>3, <2>5
    <3>4. \A i \in 1..Len(line'.states) : line'.states[i].mask = {}
      BY <1>10, <1>13, <2>5
    <3> QED
      BY <3>1, <3>2, <3>3, <3>4 DEF FillingOK
  <2> QED
    BY <2>4, <2>6
<1> QED
  BY <1>23, <1>24

-----------------------------------------------------------------------------
(* The steps before the line is written.                                   *)

\* drawString.
LEMMA FillPlaces == ASSUME IInv, IInv', PInv, Fill PROVE PInv'
<1>1. PICK w \in Widths \cup {0}, style \in Styles \cup {<<>>},
           c \in {LETTER, IF param[2] THEN PAD ELSE SPACE} :
        /\ line.text = <<>> => style # <<>> /\ style[VA] = 0 /\ w = 0
        /\ Draw(w, style, c)
  BY DEF Fill
<1>2. c \in Kinds
  BY DEF Kinds
<1>3. /\ LineType(line) /\ StatesOK(line) /\ AskedOK(line, asked, covered)
      /\ askedPen \in Int \X Int /\ Len(line.text) < MaxChars
  BY DEF IInv, Fill
<1>4. /\ phase = "fill" /\ phase' = phase /\ param' = param
      /\ UNCHANGED <<tables, pen, shown>>
  BY DEF Fill, loopVars, browserVars
<1>5. PICK P, V, U, Y : Placing(P, V, U, Y)
  BY <1>4 DEF PInv
<1>6. V = U /\ FillingOK(P, Y) /\ ParamOK /\ pen = <<0, 0>>
  BY <1>4, <1>5 DEF Placing, GapsOK
<1>7. Filled(line, asked, P, U, Y)
  <2>1. /\ Path(line, P, U) /\ Baselines(line, Y) /\ AskedAt(line, asked, P, Y)
        /\ Gapped(line.offsets, U, 0, Len(line.text))
    BY <1>5, <1>6 DEF Placing, GapsOK
  <2> QED
    BY <1>6, <2>1 DEF Filled, FillingOK
<1>8. Drawn(line, line', c)
  <2>1. line.text = <<>> => style # <<>>
    BY <1>1
  <2> QED
    BY <1>1, <1>2, <1>3, <2>1, DrawKeeps
<1>9. PICK P1, U1, Y1 : Filled(line', asked', P1, U1, Y1) /\ FillingOK(P1, Y1)'
  <2>1. line.text = <<>> => style # <<>> /\ style[VA] = 0
    BY <1>1
  <2> QED
    BY <1>1, <1>2, <1>3, <1>6, <1>7, <2>1, DrawPlaces
<1>10. ParamOK'
  <2>1. ~param[2] => c # PAD
    BY DEF PAD, LETTER, SPACE
  <2>2. /\ line'.text = Append(line.text, c) /\ line.text \in Seq(Kinds)
    BY <1>3, <1>8 DEF LineType, Drawn
  <2>3. /\ Len(line'.text) = Len(line.text) + 1 /\ line'.text[Len(line.text) + 1] = c
        /\ \A t \in 1..Len(line.text) : line'.text[t] = line.text[t]
    BY <2>2, AppendFacts
  <2>4. \A t \in 1..Len(line'.text) : t \in 1..Len(line.text) \/ t = Len(line.text) + 1
    BY <2>2, <2>3
  <2> QED
    BY <1>4, <1>6, <2>1, <2>3, <2>4 DEF ParamOK
<1>11. Path(line', P1, U1) /\ Baselines(line', Y1) /\ AskedAt(line', asked', P1, Y1)
  BY <1>9 DEF Filled
<1>12. GapsOK(U1, U1)'
  BY <1>4, <1>9 DEF Filled, Path, GapsOK
<1>13. FreeOK(line')
  BY <1>9 DEF FillingOK, FreeOK
<1>14. Placing(P1, U1, U1, Y1)'
  BY <1>4, <1>6, <1>9, <1>10, <1>11, <1>12, <1>13 DEF Placing
<1>15. CharsPlaced'
  <2>1. shown' = <<>>
    BY <1>4 DEF IInv, Phases, Fresh
  <2> QED
    BY <2>1 DEF CharsPlaced
<1> QED
  BY <1>4, <1>14, <1>15 DEF PInv

\* What the places depend on.
Alike(l, d) ==
  /\ d.text = l.text /\ Len(d.states) = Len(l.states)
  /\ \A i \in 1..Len(l.states) :
       /\ d.states[i].start = l.states[i].start /\ d.states[i].ids = l.states[i].ids
       /\ d.states[i].va = l.states[i].va /\ d.states[i].mask = l.states[i].mask

\* Lines that are alike have the same places.
LEMMA AlikeKeeps ==
  ASSUME NEW l, LineType(l), NEW d, LineType(d), Alike(l, d)
  PROVE  /\ \A P, V : Path(l, P, V) => Path(d, P, V)
         /\ \A Y : Baselines(l, Y) => Baselines(d, Y)
         /\ \A given, P, Y : AskedAt(l, given, P, Y) => AskedAt(d, given, P, Y)
         /\ FreeOK(l) => FreeOK(d)
         /\ \A i \in 1..Len(l.states) : EndOf(d, i) = EndOf(l, i) /\ Segment(d, i) = Segment(l, i)
<1>1. /\ Len(l.states) \in Nat /\ Len(d.states) = Len(l.states) /\ d.text = l.text
      /\ l.states = <<>> <=> d.states = <<>>
  <2>1. l.states \in Seq(State) /\ d.states \in Seq(State)
    BY DEF LineType
  <2> QED
    BY <2>1 DEF Alike
<1>2. \A i \in 1..Len(l.states) :
        /\ d.states[i].start = l.states[i].start /\ d.states[i].ids = l.states[i].ids
        /\ d.states[i].va = l.states[i].va /\ d.states[i].mask = l.states[i].mask
  BY DEF Alike
<1>3. \A i \in 1..Len(l.states) : EndOf(d, i) = EndOf(l, i) /\ Segment(d, i) = Segment(l, i)
  <2> TAKE i \in 1..Len(l.states)
  <2>1. i = Len(l.states) \/ i + 1 \in 1..Len(l.states)
    BY <1>1
  <2> QED
    BY <1>1, <1>2, <2>1 DEF EndOf, Segment
<1>4. \A P, V : Path(l, P, V) => Path(d, P, V)
  BY <1>1, <1>2, <1>3 DEF Path
<1>5. \A Y : Baselines(l, Y) => Baselines(d, Y)
  <2>1. l.states # <<>> => 1 \in 1..Len(l.states)
    <3>1. l.states \in Seq(State)
      BY DEF LineType
    <3> QED
      BY <3>1
  <2>2. \A i \in 1..(Len(l.states) - 1) : i + 1 \in 1..Len(l.states)
    BY <1>1
  <2> QED
    BY <1>1, <1>2, <2>1, <2>2 DEF Baselines
<1>6. \A given, P, Y : AskedAt(l, given, P, Y) => AskedAt(d, given, P, Y)
  BY <1>1, <1>3 DEF AskedAt
<1>7. FreeOK(l) => FreeOK(d)
  BY <1>1, <1>2, <1>3 DEF FreeOK
<1> QED
  BY <1>3, <1>4, <1>5, <1>6, <1>7

\* The end of the page.
LEMMA EndFillPlaces == ASSUME IInv, IInv', PInv, EndFill PROVE PInv'
<1>1. /\ phase = "fill" /\ k' = 1 /\ param' = param
      /\ \/ phase' = "optimize" /\ param[1]
         \/ phase' = "prepare"
      /\ UNCHANGED <<newOffsets, shown, tables, asked, pen>>
  BY DEF EndFill, browserVars, inputVars
<1>2. /\ LineType(line) /\ StatesOK(line) /\ LineType(line') /\ newOffsets = <<>> /\ shown = <<>>
      /\ k = 1
  BY <1>1 DEF IInv, Phases, Fresh
<1>3. line'.text = line.text /\ line'.states = line.states /\ line'.offsets = line.offsets
  <2>1. line.states \in Seq(State) /\ DOMAIN line = {"text", "states", "offsets"}
    BY <1>2 DEF LineType
  <2>2. SubSeq(line.states, 1, Used) = line.states
    BY <1>2, <2>1, AllUsed
  <2>3. line' = [line EXCEPT !.states = line.states] \/ line' = line
    BY <2>2 DEF EndFill
  <2> QED
    BY <2>1, <2>3
<1>4. Alike(line, line')
  BY <1>3 DEF Alike
<1>5. PICK P, V, U, Y : Placing(P, V, U, Y)
  BY <1>1 DEF PInv
<1>6. Path(line', P, V) /\ Baselines(line', Y) /\ AskedAt(line', asked', P, Y) /\ FreeOK(line')
  BY <1>1, <1>2, <1>4, <1>5, AlikeKeeps DEF Placing
<1>7. GapsOK(U, V)'
  <2>1. /\ U \in [0..Len(line.text) -> Int] /\ Gapped(line.offsets, U, 0, Len(line.text)) /\ V = U
    BY <1>1, <1>5 DEF Placing, GapsOK
  <2>2. Settled' = -1
    BY <1>1 DEF Settled
  <2>3. Gapped(newOffsets', V, 0, -1)
    BY <1>1, <1>2 DEF Gapped
  <2> QED
    BY <1>3, <2>1, <2>2, <2>3 DEF GapsOK
<1>8. ParamOK'
  BY <1>1, <1>3, <1>5 DEF Placing, ParamOK
<1>9. pen' = <<0, 0>> /\ tables'.align \subseteq Int
  BY <1>1, <1>5 DEF Placing, PInv
<1>10. Placing(P, V, U, Y)'
  BY <1>1, <1>6, <1>7, <1>8, <1>9 DEF Placing
<1>11. CharsPlaced'
  BY <1>1, <1>2 DEF CharsPlaced
<1> QED
  BY <1>1, <1>9, <1>10, <1>11 DEF PInv

\* The offsets os are the gaps U from a to b once each is wider by diff.
Widened(os, U, diff, a, b) == \A W : (\A t \in a..b : W[t] = U[t] + diff) => Gapped(os, W, a, b)

\* Letter space takes over the same width from the gap after each character.
LEMMA LetterSpacedGaps ==
  ASSUME LineType(line), StatesOK(line), NEW i \in 1..Len(line.states),
         NEW U, U \in [0..Len(line.text) -> Int], Gapped(line.offsets, U, 0, Len(line.text))
  PROVE  /\ LetterSpaced(i).ids =
              [line.states[i].ids EXCEPT ![LS] = line.states[i].ids[LS] - LetterSpaced(i).diff]
         /\ Widened(LetterSpaced(i).offsets, U, LetterSpaced(i).diff, line.states[i].start + 1,
                    EndOf(line, i))
<1>1. PICK ids, t1, t2, diff, own, count :
        /\ ids = line.states[i].ids /\ t1 = line.states[i].start /\ t2 = EndOf(line, i)
        /\ diff = LetterSpaced(i).diff /\ own = OwnOffsets(i) /\ count = t2 - t1
  OBVIOUS
<1>2. t1 \in Nat /\ t2 \in Nat /\ t1 < t2 /\ t2 <= Len(line.text) /\ count \in Int
      /\ Len(line.text) \in Nat
  <2>1. Len(line.text) \in Nat
    BY DEF LineType
  <2>2. t1 \in Nat /\ t2 \in Nat /\ t1 < t2 /\ t2 <= Len(line.text)
    BY <1>1, EndOfType
  <2> QED
    BY <1>1, <2>1, <2>2
<1>3. ids \in [Ids -> Int] /\ LS \in Ids
  <2>1. line.states[i] \in State
    BY DEF LineType
  <2>2. ids \in [Ids -> Int]
    BY <1>1, <2>1, StateFields
  <2> QED
    BY <2>2 DEF Ids, FONT, LS, VA
<1>4. own \in Seq(Offset)
  BY <1>1, OwnType
<1>5. Gapped(own, U, t1 + 1, t2)
  <2>1. own = SubSeq(line.offsets, PassedOffsets(t1) + 1, PassedOffsets(t2))
    BY <1>1, StateEndIs DEF OwnOffsets
  <2>2. PICK a \in Int, b \in Int, s \in Int, e \in Int :
          a = 0 /\ b = Len(line.text) /\ s = t1 /\ e = t2
    BY <1>2
  <2>3. a <= s + 1 /\ s <= e /\ e <= b /\ Gapped(line.offsets, U, a, b)
    BY <1>2, <2>2
  <2>4. Gapped(SubSeq(line.offsets, PassedOffsets(s) + 1, PassedOffsets(e)), U, s + 1, e)
    BY <2>3, GappedSlice
  <2> QED
    BY <2>1, <2>2, <2>4
<1>6. \A t \in (t1 + 1)..t2 : U[t] \in Int
  BY <1>2
<1>7. PICK most : most = MostUsed(own, count, WidthKeys(own, count))
  OBVIOUS
<1>8. own # <<>> => most \in Int
  <2>1. own # <<>> => most \in WidthKeys(own, count)
    BY <1>2, <1>4, <1>7, WidthKeysType, MostUsedType
  <2> QED
    BY <1>2, <1>4, <2>1, WidthKeysType
<1>9. PICK cond \in BOOLEAN :
        cond <=> own # <<>> /\ WidthCount(own, count, most) > count \div 2 /\ ids[LS] + most > 0
  OBVIOUS
<1>10. LetterSpaced(i) =
        IF cond THEN [ids |-> [ids EXCEPT ![LS] = @ + most], diff |-> -most,
                      offsets |-> Respaced(own, t1, t2, -most)]
        ELSE [ids |-> ids, diff |-> 0, offsets |-> own]
  BY <1>1, <1>7, <1>9, StateEndIs DEF LetterSpaced
<1>11. CASE cond
  <2>1. most \in Int /\ -most \in Int
    BY <1>8, <1>9, <1>11
  <2>2. /\ LetterSpaced(i).ids = [ids EXCEPT ![LS] = ids[LS] + most] /\ diff = -most
        /\ LetterSpaced(i).offsets = Respaced(own, t1, t2, -most)
    BY <1>1, <1>10, <1>11
  <2>3. ids[LS] + most = ids[LS] - diff
    BY <1>3, <2>1, <2>2
  <2>4. ASSUME NEW W, \A t \in (t1 + 1)..t2 : W[t] = U[t] + diff
        PROVE  Gapped(Respaced(own, t1, t2, diff), W, t1 + 1, t2)
    <3>1. \A t \in (t1 + 1)..t2 : U[t] \in Int /\ W[t] = U[t] + diff
      BY <1>6, <2>4
    <3>2. t1 \in Nat /\ t2 \in Int /\ diff \in Int
      BY <1>2, <2>1, <2>2
    <3> QED
      BY <1>4, <1>5, <3>1, <3>2, RespacedGapped
  <2>5. diff = -most
    BY <2>2
  <2> QED
    BY <1>1, <2>2, <2>3, <2>4, <2>5 DEF Widened
<1>12. CASE ~cond
  <2>1. LetterSpaced(i).ids = ids /\ diff = 0 /\ LetterSpaced(i).offsets = own
    BY <1>1, <1>10, <1>12
  <2>2. [ids EXCEPT ![LS] = ids[LS] - diff] = ids
    <3>1. ids[LS] - diff = ids[LS]
      BY <1>3, <2>1
    <3> QED
      BY <1>3, <3>1
  <2>3. ASSUME NEW W, \A t \in (t1 + 1)..t2 : W[t] = U[t] + diff
        PROVE  Gapped(own, W, t1 + 1, t2)
    <3>1. \A t \in (t1 + 1)..t2 : W[t] = U[t]
      BY <1>6, <2>1, <2>3
    <3>2. PICK a \in Int, b \in Int : a = t1 + 1 /\ b = t2
      BY <1>2
    <3> QED
      BY <1>5, <3>1, <3>2, GappedSame
  <2> QED
    BY <1>1, <2>1, <2>2, <2>3 DEF Widened
<1> QED
  BY <1>1, <1>11, <1>12

\* Word space is only changed or left free where there is no space.
LEMMA WordSpacedIds ==
  ASSUME NEW i, NEW spaced, spaced.ids \in [Ids -> Int]
  PROVE  /\ \A j \in {FONT, SIZE, LS} : WordSpaced(i, spaced).ids[j] = spaced.ids[j]
         /\ HasSpace(i) => WordSpaced(i, spaced).ids = spaced.ids /\ WordSpaced(i, spaced).mask = {}
<1>1. PICK ids, gap : /\ ids = [[spaced.ids EXCEPT ![WS] = 0] EXCEPT ![WS] = gap]
                      /\ WordSpaced(i, spaced) =
                           IF HasSpace(i) THEN [ids |-> spaced.ids, mask |-> {}]
                           ELSE IF spaced.offsets # <<>> THEN [ids |-> ids, mask |-> {}]
                           ELSE [ids |-> spaced.ids, mask |-> FreeWordSpace]
  BY DEF WordSpaced
<1>2. \A j \in {FONT, SIZE, LS} : j \in Ids /\ j # WS
  BY DEF Ids, FONT, SIZE, LS, WS, VA
<1>3. \A j \in {FONT, SIZE, LS} : ids[j] = spaced.ids[j]
  BY <1>1, <1>2
<1>4. PICK final : final = WordSpaced(i, spaced)
  OBVIOUS
<1>5. CASE HasSpace(i)
  <2>1. final.ids = spaced.ids /\ final.mask = {}
    BY <1>1, <1>4, <1>5
  <2> QED
    BY <1>4, <2>1
<1>6. CASE ~HasSpace(i)
  <2>1. final.ids = spaced.ids \/ final.ids = ids
    BY <1>1, <1>4, <1>6
  <2> QED
    BY <1>3, <1>4, <1>6, <2>1
<1> QED
  BY <1>5, <1>6

\* The states follow one another.
LEMMA StatesFollow ==
  ASSUME NEW l, LineType(l), StatesOK(l), NEW i \in 1..Len(l.states), NEW j \in 1..Len(l.states), i < j
  PROVE  EndOf(l, i) <= l.states[j].start
<1> DEFINE n == Len(l.states)
           S == {d \in 0..(n - i - 1) : EndOf(l, i) <= l.states[i + 1 + d].start}
<1>1. n \in Nat /\ n - i - 1 \in Nat
  BY DEF LineType
<1>2. \A q \in 1..n : l.states[q].start \in Nat
  BY EndOfType
<1>3. \A q \in 1..(n - 1) : l.states[q].start < l.states[q + 1].start
  BY DEF StatesOK
<1>4. EndOf(l, i) \in Nat
  BY EndOfType
<1>5. 0 \in S
  <2>1. EndOf(l, i) = l.states[i + 1].start
    BY DEF EndOf
  <2> QED
    BY <1>1, <1>4, <2>1
<1>6. ASSUME NEW m \in 1..(n - i - 1), m - 1 \in S PROVE m \in S
  <2>1. /\ i + m \in 1..(n - 1) /\ i + m \in 1..n /\ i + m + 1 \in 1..n
        /\ i + 1 + (m - 1) = i + m /\ i + 1 + m = i + m + 1
    BY <1>1
  <2>2. EndOf(l, i) <= l.states[i + m].start
    BY <1>6, <2>1
  <2>3. l.states[i + m].start < l.states[i + m + 1].start
    BY <1>3, <2>1
  <2>4. EndOf(l, i) <= l.states[i + m + 1].start
    BY <1>2, <1>4, <2>1, <2>2, <2>3
  <2> QED
    BY <2>1, <2>4
<1> HIDE DEF S
<1>7. \A m \in 0..(n - i - 1) : m \in S
  BY <1>1, <1>5, <1>6, InductTo
<1>8. j - i - 1 \in 0..(n - i - 1) /\ i + 1 + (j - i - 1) = j
  BY <1>1
<1>9. j - i - 1 \in S
  BY <1>7, <1>8
<1> QED
  BY <1>8, <1>9 DEF S

\* Lines whose states start alike have the same segments.
LEMMA SameSegments ==
  ASSUME NEW l, LineType(l), NEW d, d.text = l.text, Len(d.states) = Len(l.states),
         \A i \in 1..Len(l.states) : d.states[i].start = l.states[i].start
  PROVE  \A i \in 1..Len(l.states) : EndOf(d, i) = EndOf(l, i) /\ Segment(d, i) = Segment(l, i)
<1> TAKE i \in 1..Len(l.states)
<1>1. Len(l.states) \in Nat
  BY DEF LineType
<1>2. i = Len(l.states) \/ i + 1 \in 1..Len(l.states)
  BY <1>1
<1> QED
  BY <1>2 DEF EndOf, Segment

\* The offsets before the first state come with it.
LEMMA BeforeGapped ==
  ASSUME IInv, k \in 1..Len(line.states), NEW U, Gapped(line.offsets, U, 0, Len(line.text)),
         NEW V, Gapped(newOffsets, V, 0, Settled), \A t \in (Settled + 1)..Len(line.text) : V[t] = U[t]
  PROVE  /\ newOffsets \o OffsetsBefore(k) \in Seq(Offset)
         /\ Gapped(newOffsets \o OffsetsBefore(k), V, 0, line.states[k].start)
         /\ Settled <= line.states[k].start /\ Settled \in Int
<1>1. /\ LineType(line) /\ StatesOK(line) /\ newOffsets \in Seq(Offset) /\ Len(line.text) \in Nat
  BY DEF IInv, LineType
<1>2. PICK x, y, t1, m : /\ x = newOffsets /\ y = OffsetsBefore(k) /\ t1 = line.states[k].start
                         /\ m = Len(line.text)
  OBVIOUS
<1>3. y \in Seq(Offset) /\ t1 \in Nat /\ t1 < m /\ m \in Nat
  <2>1. t1 \in Nat /\ t1 < EndOf(line, k) /\ EndOf(line, k) <= m /\ EndOf(line, k) \in Nat
    BY <1>1, <1>2, EndOfType
  <2>2. y \in Seq(Offset)
    BY <1>1, <1>2, OwnType
  <2> QED
    BY <1>1, <1>2, <2>1, <2>2
<1>4. PICK s : s = Settled
  OBVIOUS
<1>5. CASE k = 1
  <2>1. t1 = 0 /\ s = -1 /\ s \in Int
    BY <1>1, <1>2, <1>4, <1>5 DEF StatesOK, Settled
  <2>2. PassedOffsets(s) = 0
    <3>1. PICK q, e : q = PassedOffsets(s) /\ e = s /\ e = -1
      BY <2>1
    <3>2. /\ q \in 0..Len(line.offsets)
          /\ \A j \in 1..Len(line.offsets) : line.offsets[j].start <= e <=> j <= q
      <4>1. PICK a \in Int, b \in Int : a = 0 /\ b = Len(line.text)
        BY <1>1
      <4>2. Gapped(line.offsets, U, a, b) /\ e \in Int
        BY <3>1, <4>1
      <4> QED
        BY <1>1, <3>1, <4>2, PassedIs
    <3>3. Len(line.offsets) \in Nat /\ \A j \in 1..Len(line.offsets) : line.offsets[j].start \in Nat
      <4>1. line.offsets \in Seq(Offset)
        BY <1>1 DEF LineType
      <4>2. \A j \in 1..Len(line.offsets) : line.offsets[j] \in Offset
        BY <4>1
      <4> QED
        BY <4>1, <4>2, OffsetFields
    <3>4. q # 0 => 1 \in 1..Len(line.offsets) /\ 1 <= q
      BY <3>2, <3>3
    <3>5. q # 0 => line.offsets[1].start <= e /\ line.offsets[1].start \in Nat
      BY <3>2, <3>3, <3>4
    <3>6. PICK b : b = line.offsets[1].start
      OBVIOUS
    <3>7. q # 0 => b <= -1 /\ b \in Nat
      BY <3>1, <3>5, <3>6
    <3>8. q = 0
      BY <3>7
    <3> QED
      BY <3>1, <3>8
  <2>3. y = SubSeq(line.offsets, PassedOffsets(s) + 1, PassedOffsets(t1))
    <3>1. OffsetsBefore(1) = SubSeq(line.offsets, 1, PassedOffsets(line.states[1].start))
      BY DEF OffsetsBefore
    <3>2. y = OffsetsBefore(1) /\ t1 = line.states[1].start
      BY <1>2, <1>5
    <3>3. PassedOffsets(s) + 1 = 1
      BY <2>2
    <3> QED
      BY <3>1, <3>2, <3>3
  <2>4. PICK a \in Int, b \in Int, e \in Int : a = 0 /\ b = m /\ e = t1
    BY <1>3
  <2>5. Gapped(SubSeq(line.offsets, PassedOffsets(s) + 1, PassedOffsets(e)), U, s + 1, e)
    <3>1. a <= s + 1 /\ s <= e /\ e <= b /\ Gapped(line.offsets, U, a, b)
      BY <1>2, <1>3, <2>1, <2>4
    <3> QED
      BY <1>1, <2>1, <3>1, GappedSlice
  <2>6. Gapped(y, U, a, e)
    BY <2>1, <2>3, <2>4, <2>5
  <2>7. \A t \in a..e : V[t] = U[t]
    BY <1>2, <1>3, <1>4, <2>1, <2>4
  <2>8. Gapped(y, V, s + 1, e)
    <3>1. Gapped(y, V, a, e)
      BY <2>6, <2>7, GappedSame
    <3> QED
      BY <2>1, <2>4, <3>1
  <2>9. Gapped(x \o y, V, a, e)
    <3>1. Gapped(x, V, a, s) /\ a <= s + 1 /\ s <= e /\ x \in Seq(Offset)
      BY <1>1, <1>2, <1>3, <1>4, <2>1, <2>4
    <3> QED
      BY <1>3, <2>1, <2>8, <3>1, GappedConcat
  <2> QED
    BY <1>1, <1>2, <1>3, <1>4, <2>1, <2>4, <2>9
<1>6. CASE k # 1
  <2>1. y = <<>>
    BY <1>2, <1>6 DEF OffsetsBefore
  <2>2. Settled = t1
    <3>1. k - 1 # Len(line.states) /\ k - 1 + 1 = k
      OBVIOUS
    <3> QED
      BY <1>2, <1>6, <3>1 DEF Settled, StateEnd
  <2>3. x \o y = x
    BY <1>1, <1>2, <2>1
  <2> QED
    BY <1>1, <1>2, <1>3, <2>2, <2>3
<1> QED
  BY <1>5, <1>6

\* The line d is l with a letter space that is smaller by diff in state i.
Respelled(l, d, i, diff) ==
  /\ d.text = l.text /\ Len(d.states) = Len(l.states)
  /\ \A q \in 1..Len(l.states) : /\ d.states[q].start = l.states[q].start
                                 /\ q # i => d.states[q].ids = l.states[q].ids
  /\ d.states[i].ids[SIZE] = l.states[i].ids[SIZE]
  /\ d.states[i].ids[LS] = l.states[i].ids[LS] - diff
  /\ \A t \in Segment(l, i) :
       /\ l.text[t + 1] # PAD
       /\ l.text[t + 1] = SPACE => d.states[i].ids[WS] = l.states[i].ids[WS]

\* Trading gaps for letter and word space leaves every place as it is.
LEMMA RespacedPath ==
  ASSUME LineType(line), StatesOK(line), NEW i \in 1..Len(line.states),
         NEW diff \in Int, NEW d, Respelled(line, d, i, diff),
         NEW P, NEW V, Path(line, P, V), NEW W, W \in [0..Len(line.text) -> Int],
         \A t \in 0..Len(line.text) :
           W[t] = IF t \in (line.states[i].start + 1)..EndOf(line, i) THEN V[t] + diff ELSE V[t]
  PROVE  Path(d, P, W)
<1> USE DEF Respelled
<1>1. PICK t1, t2, n : t1 = line.states[i].start /\ t2 = EndOf(line, i) /\ n = Len(line.text)
  OBVIOUS
<1>2. t1 \in Nat /\ t2 \in Nat /\ t1 < t2 /\ t2 <= n /\ n \in Nat
  <2>1. n \in Nat
    BY <1>1 DEF LineType
  <2> QED
    BY <1>1, <2>1, EndOfType
<1>3. \A q \in 1..Len(line.states) : Segment(d, q) = Segment(line, q)
  BY SameSegments
<1>4. \A t \in 0..n : W[t] = IF t \in (t1 + 1)..t2 THEN V[t] + diff ELSE V[t]
  BY <1>1
<1>5. /\ P \in [0..n -> Int] /\ V \in [0..n -> Int] /\ P[0] = V[0]
      /\ \A q \in 1..Len(line.states) : \A t \in Segment(line, q) :
           P[t + 1] = P[t] + CharAdvance(line.text[t + 1], line.states[q].ids) + V[t + 1]
  BY <1>1 DEF Path
<1>6. P[0] = W[0]
  BY <1>2, <1>4, <1>5
<1>7. ASSUME NEW q \in 1..Len(line.states), NEW t \in Segment(line, q)
      PROVE  P[t + 1] = P[t] + CharAdvance(line.text[t + 1], d.states[q].ids) + W[t + 1]
  <2>1. t \in Nat /\ t + 1 \in 0..n /\ t \in 0..n
    <3>1. t \in Nat /\ t + 1 \in 1..n
      BY <1>1, SegmentFacts
    <3> QED
      BY <1>2, <3>1
  <2>2. CASE q # i
    <3>1. t + 1 \notin (t1 + 1)..t2
      <4>1. line.states[q].start <= t /\ t < EndOf(line, q)
            /\ line.states[q].start \in Nat /\ EndOf(line, q) \in Nat
        <5>1. line.states[q].start \in Nat /\ EndOf(line, q) \in Nat
          BY EndOfType
        <5>2. t \in line.states[q].start..(EndOf(line, q) - 1)
          BY DEF Segment
        <5> QED
          BY <5>1, <5>2
      <4>2. CASE q < i
        <5>1. EndOf(line, q) <= t1
          BY <1>1, <4>2, StatesFollow
        <5> QED
          BY <1>2, <2>1, <4>1, <5>1
      <4>3. CASE q > i
        <5>1. t2 <= line.states[q].start
          BY <1>1, <4>3, StatesFollow
        <5> QED
          BY <1>2, <2>1, <4>1, <5>1
      <4> QED
        BY <2>2, <4>2, <4>3
    <3>2. W[t + 1] = V[t + 1]
      BY <1>4, <2>1, <3>1
    <3> QED
      BY <1>5, <2>2, <3>2
  <2>3. CASE q = i
    <3>1. t + 1 \in (t1 + 1)..t2
      BY <1>1, <1>2, <2>1, <2>3 DEF Segment
    <3>2. W[t + 1] = V[t + 1] + diff
      BY <1>4, <2>1, <3>1
    <3>3. PICK c, old, new : c = line.text[t + 1] /\ old = line.states[i].ids /\ new = d.states[i].ids
      OBVIOUS
    <3>4. c \in {LETTER, SPACE} /\ (c = SPACE => new[WS] = old[WS])
      <4>1. c \in Kinds /\ c # PAD
        BY <2>3, <3>3, SegmentFacts
      <4> QED
        BY <2>3, <3>3, <4>1 DEF Kinds
    <3>5. /\ old \in [Ids -> Int] /\ new[SIZE] = old[SIZE] /\ new[LS] = old[LS] - diff
      <4>1. line.states[i] \in State
        BY DEF LineType
      <4> QED
        BY <3>3, <4>1, StateFields
    <3>6. old[SIZE] \in Int /\ old[LS] \in Int /\ old[WS] \in Int
      BY <3>5 DEF Ids, FONT, SIZE, LS, WS, VA
    <3>7. CharAdvance(c, new) = CharAdvance(c, old) - diff /\ CharAdvance(c, old) \in Int
      <4>1. LETTER_WIDTH * old[SIZE] \in Int /\ SPACE_WIDTH * old[SIZE] \in Int
        BY <3>6 DEF LETTER_WIDTH, SPACE_WIDTH
      <4>2. CASE c = LETTER
        <5>1. /\ CharAdvance(c, old) = LETTER_WIDTH * old[SIZE] + old[LS]
              /\ CharAdvance(c, new) = LETTER_WIDTH * new[SIZE] + new[LS]
          BY <4>2 DEF CharAdvance, PAD, LETTER, SPACE
        <5> QED
          BY <3>5, <3>6, <4>1, <5>1
      <4>3. CASE c = SPACE
        <5>1. /\ CharAdvance(c, old) = SPACE_WIDTH * old[SIZE] + old[LS] + old[WS]
              /\ CharAdvance(c, new) = SPACE_WIDTH * new[SIZE] + new[LS] + new[WS]
          BY <4>3 DEF CharAdvance, PAD, LETTER, SPACE
        <5>2. PICK b \in Int : b = SPACE_WIDTH * old[SIZE]
          BY <4>1
        <5>3. /\ CharAdvance(c, old) = b + old[LS] + old[WS]
              /\ CharAdvance(c, new) = b + (old[LS] - diff) + old[WS]
          BY <3>4, <3>5, <4>3, <5>1, <5>2
        <5>4. /\ b + old[LS] + old[WS] \in Int
              /\ b + (old[LS] - diff) + old[WS] = (b + old[LS] + old[WS]) - diff
          <6>1. \A v, x, y \in Int : /\ v + x + y \in Int
                                     /\ v + (x - diff) + y = (v + x + y) - diff
            OBVIOUS
          <6> QED
            BY <3>6, <5>2, <6>1
        <5> QED
          BY <5>3, <5>4
      <4> QED
        BY <3>4, <4>2, <4>3
    <3>8. /\ P[t + 1] = P[t] + CharAdvance(c, old) + V[t + 1]
          /\ P[t] \in Int /\ V[t + 1] \in Int
      BY <1>5, <2>1, <2>3, <3>3
    <3> QED
      BY <2>3, <3>2, <3>3, <3>7, <3>8
  <2> QED
    BY <2>2, <2>3
<1> QED
  BY <1>1, <1>3, <1>5, <1>6, <1>7 DEF Path

\* optimize_normal: what letter space takes over, the gaps lose.
LEMMA OptimizePlaces == ASSUME IInv, IInv', PInv, OptimizeState PROVE PInv'
<1>1. /\ phase = "optimize" /\ phase' = phase /\ k' = k + 1 /\ k <= Len(line.states) /\ param' = param
      /\ UNCHANGED <<shown, tables, asked, pen>>
  BY DEF OptimizeState, browserVars, inputVars
<1>2. /\ LineType(line) /\ StatesOK(line) /\ LineType(line') /\ shown = <<>>
      /\ k \in 1..Len(line.states) /\ line.states \in Seq(State) /\ newOffsets \in Seq(Offset)
  <2>1. LineType(line) /\ k \in 1..Len(line.states)
    BY <1>1 DEF IInv
  <2> QED
    BY <1>1, <2>1 DEF IInv, Phases, Fresh, LineType
<1>3. PICK P, V, U, Y : Placing(P, V, U, Y)
  BY <1>1 DEF PInv
<1>4. PICK spaced, final : spaced = LetterSpaced(k) /\ final = WordSpaced(k, spaced)
  OBVIOUS
<1> DEFINE s == [line.states[k] EXCEPT !.ids = final.ids, !.mask = final.mask]
<1>5. line' = [line EXCEPT !.states = [line.states EXCEPT ![k] = s]]
  BY <1>4 DEF OptimizeState
<1>6. /\ s.start = line.states[k].start /\ s.ids = final.ids /\ s.va = line.states[k].va
      /\ s.mask = final.mask
  <2>1. line.states[k] \in State
    BY <1>2
  <2> QED
    BY <2>1 DEF State
<1> HIDE DEF s
<1>7. /\ line'.text = line.text /\ line'.offsets = line.offsets
      /\ Len(line'.states) = Len(line.states) /\ line'.states[k] = s
      /\ \A i \in 1..Len(line.states) : i # k => line'.states[i] = line.states[i]
  <2>1. PICK states : states = [line.states EXCEPT ![k] = s]
    OBVIOUS
  <2>2. line' = [line EXCEPT !.states = states]
    BY <1>5, <2>1
  <2>3. line'.text = line.text /\ line'.offsets = line.offsets /\ line'.states = states
    BY <1>2, <2>2 DEF LineType
  <2>4. /\ Len(states) = Len(line.states) /\ states[k] = s
        /\ \A i \in 1..Len(line.states) : i # k => states[i] = line.states[i]
    BY <1>2, <2>1
  <2> QED
    BY <2>3, <2>4
<1>8. \A i \in 1..Len(line.states) :
        /\ line'.states[i].start = line.states[i].start /\ line'.states[i].va = line.states[i].va
        /\ i # k => line'.states[i] = line.states[i]
  BY <1>6, <1>7
<1>9. \A i \in 1..Len(line.states) : EndOf(line', i) = EndOf(line, i) /\ Segment(line', i) = Segment(line, i)
  BY <1>2, <1>7, <1>8, SameSegments
<1>10. PICK n, t1, t2, ids, diff :
         /\ n = Len(line.text) /\ t1 = line.states[k].start /\ t2 = EndOf(line, k)
         /\ ids = line.states[k].ids /\ diff = spaced.diff
  OBVIOUS
<1>11. n \in Nat /\ t1 \in Nat /\ t2 \in Nat /\ t1 < t2 /\ t2 <= n /\ t2 = StateEnd(k)
  <2>1. n \in Nat /\ t2 = StateEnd(k)
    BY <1>2, <1>10, StateEndIs DEF LineType
  <2>2. t1 \in Nat /\ t2 \in Nat /\ t1 < t2 /\ t2 <= n
    BY <1>2, <1>10, EndOfType
  <2> QED
    BY <2>1, <2>2
<1>12. ids \in [Ids -> Int] /\ diff \in Int /\ spaced.ids \in [Ids -> Int] /\ spaced.offsets \in Seq(Offset)
  <2>1. line.states[k] \in State
    BY <1>2
  <2>2. ids \in [Ids -> Int]
    BY <1>10, <2>1, StateFields
  <2>3. SameStyle(spaced.ids, ids) /\ diff \in Int /\ spaced.offsets \in Seq(Offset)
    BY <1>2, <1>4, <1>10, LetterSpacedType
  <2> QED
    BY <2>2, <2>3 DEF SameStyle
<1>13. /\ U \in [0..n -> Int] /\ Gapped(line.offsets, U, 0, n)
       /\ Gapped(newOffsets, V, 0, Settled) /\ \A t \in (Settled + 1)..n : V[t] = U[t]
       /\ V \in [0..n -> Int]
  BY <1>1, <1>3, <1>10 DEF Placing, GapsOK, Path
<1>14. /\ spaced.ids = [ids EXCEPT ![LS] = ids[LS] - diff]
       /\ Widened(spaced.offsets, U, diff, t1 + 1, t2)
  <2>1. U \in [0..Len(line.text) -> Int] /\ Gapped(line.offsets, U, 0, Len(line.text))
    BY <1>10, <1>13
  <2>2. /\ LetterSpaced(k).ids =
             [line.states[k].ids EXCEPT ![LS] = line.states[k].ids[LS] - LetterSpaced(k).diff]
        /\ Widened(LetterSpaced(k).offsets, U, LetterSpaced(k).diff, line.states[k].start + 1,
                   EndOf(line, k))
    BY <1>2, <2>1, LetterSpacedGaps
  <2> QED
    BY <1>4, <1>10, <2>2
<1>15. /\ \A j \in {FONT, SIZE, LS} : final.ids[j] = spaced.ids[j]
       /\ HasSpace(k) => final.ids = spaced.ids /\ final.mask = {}
  BY <1>4, <1>12, WordSpacedIds
<1>16. \A t \in Segment(line, k) : line.text[t + 1] = SPACE => HasSpace(k)
  BY <1>10, <1>11 DEF HasSpace, Segment
<1> DEFINE W == [t \in 0..n |-> IF t \in (t1 + 1)..t2 THEN V[t] + diff ELSE V[t]]
<1>17. /\ W \in [0..n -> Int]
       /\ \A t \in 0..n : W[t] = IF t \in (t1 + 1)..t2 THEN V[t] + diff ELSE V[t]
  BY <1>12, <1>13
<1> HIDE DEF W
<1>18. Path(line', P, W)
  <2>1. s.ids[SIZE] = ids[SIZE] /\ s.ids[LS] = ids[LS] - diff
    <3>1. SIZE \in Ids /\ LS \in Ids /\ SIZE # LS /\ SIZE \in {FONT, SIZE, LS} /\ LS \in {FONT, SIZE, LS}
      BY DEF Ids, FONT, SIZE, LS, VA
    <3> QED
      BY <1>6, <1>12, <1>14, <1>15, <3>1
  <2>2. \A t \in Segment(line, k) : line.text[t + 1] = SPACE => s.ids[WS] = ids[WS]
    <3>1. WS \in Ids /\ WS # LS
      BY DEF Ids, FONT, LS, WS, VA
    <3>2. spaced.ids[WS] = ids[WS]
      BY <1>12, <1>14, <3>1
    <3> QED
      BY <1>6, <1>15, <1>16, <3>2
  <2>3. \A t \in Segment(line, k) : line.text[t + 1] # PAD
    <3>1. ParamOK
      BY <1>3 DEF Placing
    <3>2. \A t \in 1..Len(line.text) : line.text[t] # PAD
      BY <1>1, <3>1 DEF ParamOK
    <3> QED
      BY <1>2, <3>2, SegmentFacts
  <2>4. Path(line, P, V)
    BY <1>3 DEF Placing
  <2>5. Respelled(line, line', k, diff)
    BY <1>7, <1>8, <1>10, <2>1, <2>2, <2>3 DEF Respelled
  <2>6. W \in [0..Len(line.text) -> Int] /\ diff \in Int
    BY <1>10, <1>12, <1>17
  <2>7. \A t \in 0..Len(line.text) :
          W[t] = IF t \in (line.states[k].start + 1)..EndOf(line, k) THEN V[t] + diff ELSE V[t]
    BY <1>10, <1>17
  <2> QED
    BY <1>2, <2>4, <2>5, <2>6, <2>7, RespacedPath
<1>19. GapsOK(U, W)'
  <2>1. Settled' = t2
    <3>1. k' # 1 /\ k' - 1 = k /\ k \in 1..Len(line.states)
      BY <1>1, <1>2
    <3>2. EndOf(line', k) = t2
      BY <1>9, <1>10, <3>1
    <3> QED
      BY <3>1, <3>2 DEF Settled, StateEnd, EndOf
  <2>2. PICK st \in Int : st = Settled
    <3>1. Settled \in Int
      BY <1>2, <1>10, <1>13, BeforeGapped
    <3> QED
      BY <3>1
  <2>3. /\ newOffsets \o OffsetsBefore(k) \in Seq(Offset)
        /\ Gapped(newOffsets \o OffsetsBefore(k), V, 0, t1) /\ st <= t1
    BY <1>2, <1>10, <1>13, <2>2, BeforeGapped
  <2>4. Gapped(spaced.offsets, W, t1 + 1, t2)
    <3>1. \A t \in (t1 + 1)..t2 : W[t] = U[t] + diff
      <4>1. \A t \in (t1 + 1)..t2 : t \in 0..n /\ t \in (st + 1)..n
        BY <1>11, <2>3
      <4> QED
        BY <1>13, <1>17, <2>2, <4>1
    <3> QED
      BY <1>14, <3>1 DEF Widened
  <2>5. PICK x, y, a, b, c :
          /\ x = newOffsets \o OffsetsBefore(k) /\ y = spaced.offsets
          /\ a = 0 /\ b = t1 /\ c = t2
    OBVIOUS
  <2>6. Gapped(x, W, a, b) /\ a \in Int /\ b \in Int /\ c \in Int
    <3>1. \A t \in a..b : W[t] = V[t]
      BY <1>11, <1>17, <2>5
    <3>2. Gapped(x, V, a, b) /\ a \in Int /\ b \in Int /\ c \in Int
      BY <1>11, <2>3, <2>5
    <3> QED
      BY <3>1, <3>2, GappedSame
  <2>7. Gapped(x \o y, W, a, c)
    <3>1. x \in Seq(Offset) /\ y \in Seq(Offset) /\ Gapped(y, W, b + 1, c) /\ a <= b + 1 /\ b <= c
      BY <1>11, <1>12, <2>3, <2>4, <2>5
    <3> QED
      BY <2>6, <3>1, GappedConcat
  <2>8. newOffsets' = x \o y
    BY <1>4, <2>5 DEF OptimizeState
  <2>9. \A t \in (t2 + 1)..n : W[t] = U[t]
    <3>1. \A t \in (t2 + 1)..n : t \in 0..n /\ t \notin (t1 + 1)..t2 /\ t \in (st + 1)..n
      BY <1>11, <2>3
    <3> QED
      BY <1>13, <1>17, <2>2, <3>1
  <2> QED
    BY <1>1, <1>7, <1>10, <1>13, <2>1, <2>5, <2>7, <2>8, <2>9 DEF GapsOK
<1>20. Baselines(line', Y)
  <2>1. Baselines(line, Y) /\ Len(line.states) \in Nat /\ line'.states \in Seq(State)
    BY <1>2, <1>3 DEF Placing, LineType
  <2>2. \A i \in 1..(Len(line.states) - 1) : i + 1 \in 1..Len(line.states)
    BY <2>1
  <2>3. 1 \in 1..Len(line.states) /\ line.states # <<>>
    BY <1>2, <2>1
  <2> QED
    BY <1>7, <1>8, <2>1, <2>2, <2>3 DEF Baselines
<1>21. AskedAt(line', asked', P, Y)
  <2>1. AskedAt(line, asked, P, Y)
    BY <1>3 DEF Placing
  <2> QED
    BY <1>1, <1>7, <1>9, <2>1 DEF AskedAt
<1>22. FreeOK(line')
  <2>1. FreeOK(line)
    BY <1>3 DEF Placing
  <2>2. ASSUME NEW i \in 1..Len(line.states), WS \in line'.states[i].mask, NEW t \in Segment(line, i)
        PROVE  line.text[t + 1] # SPACE
    <3>1. CASE i = k
      <4>1. ~HasSpace(k)
        BY <1>6, <1>7, <1>15, <2>2, <3>1
      <4> QED
        BY <1>16, <2>2, <3>1, <4>1
    <3>2. CASE i # k
      BY <1>8, <2>1, <2>2, <3>2 DEF FreeOK
    <3> QED
      BY <3>1, <3>2
  <2> QED
    BY <1>7, <1>9, <2>2 DEF FreeOK
<1>23. ParamOK'
  BY <1>1, <1>3, <1>7 DEF Placing, ParamOK
<1>24. pen' = <<0, 0>> /\ tables'.align \subseteq Int
  BY <1>1, <1>3 DEF Placing, PInv
<1>25. Placing(P, W, U, Y)'
  BY <1>1, <1>18, <1>19, <1>20, <1>21, <1>22, <1>23, <1>24 DEF Placing
<1>26. CharsPlaced'
  BY <1>1, <1>2 DEF CharsPlaced
<1> QED
  BY <1>1, <1>24, <1>25, <1>26 DEF PInv

\* Then the new offsets are the gaps of the line.
LEMMA EndOptimizePlaces == ASSUME IInv, IInv', PInv, EndOptimize PROVE PInv'
<1>1. /\ phase = "optimize" /\ phase' = "prepare" /\ k > Len(line.states)
      /\ line' = [line EXCEPT !.offsets = newOffsets]
      /\ UNCHANGED <<param, shown, tables, asked, pen>>
  BY DEF EndOptimize, browserVars, inputVars, loopVars
<1>2. /\ LineType(line) /\ StatesOK(line) /\ LineType(line') /\ shown = <<>> /\ line.text # <<>>
      /\ k \in 1..(Len(line.states) + 1)
  BY <1>1 DEF IInv, Phases, Fresh
<1>3. line'.text = line.text /\ line'.states = line.states /\ line'.offsets = newOffsets
  BY <1>1, <1>2 DEF LineType
<1>4. Alike(line, line')
  BY <1>3 DEF Alike
<1>5. PICK P, V, U, Y : Placing(P, V, U, Y)
  BY <1>1 DEF PInv
<1>6. Path(line', P, V) /\ Baselines(line', Y) /\ AskedAt(line', asked', P, Y) /\ FreeOK(line')
  BY <1>1, <1>2, <1>4, <1>5, AlikeKeeps DEF Placing
<1>7. GapsOK(V, V)'
  <2>1. Gapped(newOffsets, V, 0, Settled) /\ V \in [0..Len(line.text) -> Int]
    BY <1>1, <1>5 DEF Placing, GapsOK, Path
  <2>2. Settled = Len(line.text)
    <3>1. Len(line.states) \in Nat /\ line.states # <<>> /\ line.states \in Seq(State)
      BY <1>2 DEF LineType, StatesOK
    <3>2. Len(line.states) # 0
      BY <3>1
    <3>3. k # 1 /\ k - 1 = Len(line.states)
      BY <1>1, <1>2, <3>1, <3>2
    <3> QED
      BY <3>3 DEF Settled, StateEnd
  <2> QED
    BY <1>1, <1>3, <2>1, <2>2 DEF GapsOK
<1>8. ParamOK'
  BY <1>1, <1>3, <1>5 DEF Placing, ParamOK
<1>9. pen' = <<0, 0>> /\ tables'.align \subseteq Int
  BY <1>1, <1>5 DEF Placing, PInv
<1>10. Placing(P, V, V, Y)'
  BY <1>1, <1>6, <1>7, <1>8, <1>9 DEF Placing
<1>11. CharsPlaced'
  BY <1>1, <1>2 DEF CharsPlaced
<1> QED
  BY <1>1, <1>9, <1>10, <1>11 DEF PInv

\* The offset after the d-th is due at t if it is there or before.
DueAt(os, d, t) == IF d < Len(os) /\ os[d + 1].start <= t THEN os[d + 1].width ELSE 0

\* What is due where the loop arrives is the gap there, when the offsets before are done.
LEMMA DueArrived ==
  ASSUME NEW os, os \in Seq(Offset), NEW U, NEW n \in Nat, U \in [0..n -> Int], Gapped(os, U, 0, n),
         NEW d \in 0..Len(os), NEW t \in 0..n, \A j \in 1..Len(os) : j <= d => os[j].start < t,
         \A j \in 1..Len(os) : j > d => t <= os[j].start
  PROVE  DueAt(os, d, t) = U[t]
<1>1. /\ \A i, j \in 1..Len(os) : i < j => os[i].start < os[j].start
      /\ \A j \in 1..Len(os) : os[j].start \in 0..n /\ os[j].width = U[os[j].start]
      /\ U[t] = 0 \/ \E j \in 1..Len(os) : os[j].start = t
  BY DEF Gapped
<1>2. CASE d < Len(os) /\ os[d + 1].start <= t
  <2>1. d + 1 \in 1..Len(os) /\ d + 1 > d
    BY <1>2
  <2>2. os[d + 1].start \in 0..n /\ os[d + 1].width = U[os[d + 1].start] /\ t <= os[d + 1].start
    BY <1>1, <2>1
  <2>3. os[d + 1].start = t
    BY <1>2, <2>2
  <2> QED
    BY <1>2, <2>2, <2>3 DEF DueAt
<1>3. CASE ~(d < Len(os) /\ os[d + 1].start <= t)
  <2>1. ASSUME NEW j \in 1..Len(os), os[j].start = t PROVE FALSE
    <3>1. ~(j <= d)
      BY <2>1
    <3>2. d < Len(os) /\ d + 1 \in 1..Len(os) /\ (d + 1 = j \/ d + 1 < j)
      BY <3>1
    <3>3. os[d + 1].start \in Int /\ (d + 1 < j => os[d + 1].start < os[j].start)
      BY <1>1, <3>2
    <3> QED
      BY <1>3, <2>1, <3>2, <3>3
  <2>2. U[t] = 0
    BY <1>1, <2>1
  <2> QED
    BY <1>3, <2>2 DEF DueAt
<1> QED
  BY <1>2, <1>3

\* prepare: the first character goes where the first gap leaves it.
LEMMA PreparePlaces == ASSUME IInv, IInv', PInv, Prepare PROVE PInv'
<1>1. /\ phase = "prepare" /\ phase' = "dump" /\ k' = 1
      /\ UNCHANGED <<param, shown, tables, asked, pen, done, at, dx>>
  BY DEF Prepare, browserVars, inputVars
<1>2. /\ LineType(line) /\ LineType(line') /\ shown = <<>> /\ done = 0 /\ at = 0 /\ dx = 0
      /\ line.states \in Seq(State) /\ line.offsets \in Seq(Offset) /\ Len(line.text) \in Nat
  BY <1>1 DEF IInv, Phases, Fresh, LineType
<1> DEFINE hash(i) == [j \in Ids |-> line.states[i].ids[j] % HashClasses]
           s(i) == [line.states[i] EXCEPT !.hash = hash(i)]
           states == [i \in 1..Len(line.states) |-> s(i)]
<1>3. line' = [line EXCEPT !.states = states]
  BY DEF Prepare
<1>4. \A i \in 1..Len(line.states) :
        /\ s(i).start = line.states[i].start /\ s(i).ids = line.states[i].ids
        /\ s(i).va = line.states[i].va /\ s(i).mask = line.states[i].mask
  <2> TAKE i \in 1..Len(line.states)
  <2>1. line.states[i] \in State
    BY <1>2
  <2> HIDE DEF hash
  <2> QED
    BY <2>1 DEF State
<1> HIDE DEF s
<1>5. Len(states) = Len(line.states) /\ \A i \in 1..Len(line.states) : states[i] = s(i)
  BY <1>2
<1> HIDE DEF states
<1>6. line'.text = line.text /\ line'.states = states /\ line'.offsets = line.offsets
  BY <1>2, <1>3 DEF LineType
<1>7. Alike(line, line')
  BY <1>4, <1>5, <1>6 DEF Alike
<1>8. PICK P, V, U, Y : Placing(P, V, U, Y)
  BY <1>1 DEF PInv
<1>9. Path(line', P, V) /\ Baselines(line', Y) /\ AskedAt(line', asked', P, Y) /\ FreeOK(line')
  BY <1>1, <1>2, <1>7, <1>8, AlikeKeeps DEF Placing
<1>10. /\ U \in [0..Len(line.text) -> Int] /\ Gapped(line.offsets, U, 0, Len(line.text)) /\ V = U
       /\ P[0] = V[0]
  BY <1>1, <1>8 DEF Placing, GapsOK, Path
<1>11. GapsOK(U, V)'
  BY <1>1, <1>6, <1>10 DEF GapsOK
<1>12. \A j \in 1..Len(line.offsets) : ~(j <= 0) /\ 0 <= line.offsets[j].start
  <2> TAKE j \in 1..Len(line.offsets)
  <2>1. line.offsets[j] \in Offset
    BY <1>2
  <2> QED
    BY <2>1, OffsetFields
<1>13. ReadOK'
  BY <1>1, <1>2, <1>6, <1>12 DEF ReadOK
<1>14. pen = <<0, 0>>
  BY <1>1, <1>8 DEF Placing
<1>15. PenOK(P)'
  <2>1. DueAt(line.offsets, 0, 0) = U[0]
    BY <1>2, <1>10, <1>12, DueArrived
  <2>2. Due' = DueAt(line.offsets, 0, 0)
    BY <1>1, <1>2, <1>6 DEF Due, OffsetDue, DueAt
  <2>3. U[0] \in Int
    BY <1>2, <1>10
  <2>4. HEps \in Nat /\ Abs(0) <= HEps
    BY TextLineAssumption DEF Abs
  <2> QED
    BY <1>1, <1>2, <1>10, <1>14, <2>1, <2>2, <2>3, <2>4 DEF PenOK
<1>16. ParamOK'
  BY <1>1, <1>6, <1>8 DEF Placing, ParamOK
<1>17. Placing(P, V, U, Y)'
  BY <1>1, <1>9, <1>11, <1>13, <1>14, <1>15, <1>16 DEF Placing
<1>18. CharsPlaced' /\ tables'.align \subseteq Int
  BY <1>1, <1>2 DEF CharsPlaced, PInv
<1> QED
  BY <1>17, <1>18 DEF PInv

-----------------------------------------------------------------------------
(* Where the characters are written.                                       *)

\* What remains to be shown for a step of the writing loop.
LEMMA WritingPlaces ==
  ASSUME NEW P, NEW V, NEW U, NEW Y, Placing(P, V, U, Y), phase = "dump", phase' = phase,
         LineUnchanged, param' = param, k' # 1, ReadOK', PenOK(P)', OpenOK',
         MarginsOK(stack', html', negAt'), Aligned(Y)', pen' \in Int \X Int,
         tables'.align \subseteq Int, CharsPlaced'
  PROVE  PInv'
<1>1. line' = line /\ asked' = asked /\ newOffsets' = newOffsets
  BY DEF LineUnchanged
<1>2. Path(line', P, V) /\ Baselines(line', Y) /\ AskedAt(line', asked', P, Y) /\ FreeOK(line')
  BY <1>1 DEF Placing
<1>3. GapsOK(U, V)' /\ ParamOK'
  BY <1>1 DEF Placing, GapsOK, ParamOK
<1>4. Placing(P, V, U, Y)'
  BY <1>2, <1>3 DEF Placing
<1> QED
  BY <1>4 DEF PInv

\* The baselines stay when no element and no open state changes its own.
LEMMA AlignedKept ==
  ASSUME NEW Y, Aligned(Y), stack' = stack, k' = k, pen'[2] = pen[2], Len(html') = Len(html),
         \A e \in 1..Len(html) : html'[e].va = html[e].va
  PROVE  Aligned(Y)'
<1>1. PICK A, B : AlignedOK(A, B, Y)
  BY DEF Aligned
<1>2. Sums(stack', A) /\ Sums(html', B)
  BY <1>1 DEF AlignedOK, Sums
<1>3. Near(stack', A, B)
  BY <1>1 DEF AlignedOK
<1>4. AlignedOK(A, B, Y)'
  BY <1>1, <1>2, <1>3 DEF AlignedOK
<1> QED
  BY <1>4 DEF Aligned

\* A margin is written in the innermost element, and changes nothing else.
WithMargin(h, m) == [h EXCEPT ![Len(h)].margin = m]
ElementsOK(h) == \A e \in 1..Len(h) : ElementOK(h[e])
MarginOnly(h, m, g) ==
  /\ IsSeq(g) /\ Len(g) = Len(h)
  /\ \A e \in 1..Len(h) : ElementOK(g[e])
  /\ \A e \in 1..Len(h) : g[e].va = h[e].va
  /\ \A e \in 1..Len(h) : g[e].margin = IF e = Len(h) THEN m ELSE h[e].margin
\* A margin written in the innermost element, and nothing else.
LEMMA MarginFacts ==
  ASSUME NEW h, IsSeq(h), h # <<>>, ElementsOK(h), NEW m \in Int
  PROVE  MarginOnly(h, m, WithMargin(h, m))
<1>1. PICK g : g = WithMargin(h, m)
  OBVIOUS
<1>2. PICK X : h \in Seq(X)
  BY DEF IsSeq
<1>3. PICK n : n = Len(h)
  OBVIOUS
<1>4. n \in Nat /\ n \in 1..n
  BY <1>2, <1>3
<1>5. PICK e : e = [h[n] EXCEPT !.margin = m]
  OBVIOUS
<1>6. g = [h EXCEPT ![n] = e]
  BY <1>1, <1>3, <1>5 DEF WithMargin
<1>7. DOMAIN h[n] = {"class", "va", "margin"} /\ h[n].va \in Int
  BY <1>3, <1>4 DEF ElementOK, ElementsOK
<1>8. ElementOK(e) /\ e.va = h[n].va /\ e.margin = m
  BY <1>5, <1>7 DEF ElementOK
<1>9. h \in Seq(X \cup {e})
  BY <1>2, SeqMonotonic
<1>10. g \in Seq(X \cup {e}) /\ Len(g) = n /\ g[n] = e /\ \A j \in 1..n : j # n => g[j] = h[j]
  BY <1>3, <1>4, <1>6, <1>9
<1>11. IsSeq(g)
  BY <1>10 DEF IsSeq
<1>12. \A j \in 1..n : ElementOK(h[j])
  BY <1>3 DEF ElementsOK
<1> QED
  BY <1>1, <1>3, <1>8, <1>10, <1>11, <1>12 DEF MarginOnly

\* The smaller of an integer and 0.
LEMMA MinZero ==
  ASSUME NEW c \in Int
  PROVE  Min({c, 0}) \in Int /\ (c >= 0 => Min({c, 0}) = 0)
<1>1. {c, 0} = {c} \cup {0} /\ {c, 0} \subseteq Int /\ {c, 0} # {} /\ c \in {c, 0} /\ 0 \in {c, 0}
  OBVIOUS
<1>2. IsFiniteSet({c} \cup {0})
  BY FS_Singleton, FS_AddElement
<1>3. Min({c, 0}) \in {c, 0} /\ Min({c, 0}) <= c /\ Min({c, 0}) <= 0
  <2>1. IsFiniteSet({c, 0})
    BY <1>1, <1>2
  <2> QED
    BY <1>1, <2>1, MinOf
<1> QED
  BY <1>3

\* An offset is done, and no other one is due there.
LEMMA OffsetDone ==
  ASSUME LineType(line), at \in Nat, done \in Nat, OffsetDue, ReadOK,
         \A i, j \in 1..Len(line.offsets) : i < j => line.offsets[i].start < line.offsets[j].start,
         line' = line, at' = at, done' = done + 1
  PROVE  ReadOK' /\ Due = line.offsets[done + 1].width /\ Due' = 0
<1>1. /\ line.offsets \in Seq(Offset) /\ Len(line.offsets) \in Nat
      /\ done + 1 \in 1..Len(line.offsets) /\ line.offsets[done + 1].start <= at
  BY DEF LineType, OffsetDue
<1>2. \A j \in 1..Len(line.offsets) : line.offsets[j].start \in Nat
  BY <1>1, OffsetFields
<1>3. line.offsets[done + 1].start = at
  <2>1. done + 1 > done
    OBVIOUS
  <2>2. at <= line.offsets[done + 1].start
    BY <1>1, <2>1 DEF ReadOK
  <2> QED
    BY <1>1, <1>2, <2>2
<1>4. ReadOK'
  <2>1. ASSUME NEW j \in 1..Len(line.offsets)
        PROVE  /\ j <= done + 1 => line.offsets[j].start <= at
               /\ j > done + 1 => at <= line.offsets[j].start
    <3>1. /\ j <= done => line.offsets[j].start <= at
          /\ j > done => at <= line.offsets[j].start
      BY DEF ReadOK
    <3> QED
      BY <1>1, <3>1
  <2> QED
    BY <2>1 DEF ReadOK
<1>5. Due' = 0
  <2>1. ~(done + 1 < Len(line.offsets) /\ line.offsets[done + 1 + 1].start <= at)
    <3>1. ASSUME done + 1 < Len(line.offsets) PROVE at < line.offsets[done + 1 + 1].start
      <4>1. done + 1 + 1 \in 1..Len(line.offsets) /\ done + 1 < done + 1 + 1
        BY <1>1, <3>1
      <4> QED
        BY <1>1, <1>3, <4>1
    <3>2. done + 1 < Len(line.offsets) => line.offsets[done + 1 + 1].start \in Nat
      BY <1>1, <1>2
    <3> QED
      BY <3>1, <3>2
  <2>2. OffsetDue' <=> (done + 1 < Len(line.offsets) /\ line.offsets[done + 1 + 1].start <= at)
    BY DEF OffsetDue
  <2> QED
    BY <2>1, <2>2 DEF Due
<1>6. Due = line.offsets[done + 1].width
  BY DEF Due
<1> QED
  BY <1>4, <1>5, <1>6

\* What the browser adds for a space is what the innermost open state counts for one.
LEMMA SpaceTop ==
  ASSUME Nested(stack, html), WS \notin Last(stack).mask
  PROVE  CharAdvance(SPACE, Effective) = SingleSpaceOffset(Last(stack).ids)
<1>1. IsSeq(stack) /\ stack # <<>>
  BY DEF Nested
<1>2. Len(stack) \in 1..Len(stack) /\ Last(stack) = stack[Len(stack)]
  BY <1>1, IsSeqFacts
<1>3. Opened(Last(stack))
  BY <1>2 DEF Nested
<1>4. Last(stack).mask = {}
  BY <1>3 DEF Opened
<1>5. SIZE \in HashIds /\ LS \in HashIds /\ WS \in HashIds
  BY DEF HashIds, FONT, SIZE, LS, WS
<1>6. \A i \in HashIds : i \in HashIds \ Last(stack).mask
  BY <1>4
<1>7. /\ Effective[SIZE] = Last(stack).ids[SIZE] /\ Effective[LS] = Last(stack).ids[LS]
      /\ Effective[WS] = Last(stack).ids[WS]
  BY <1>5, <1>6, EffectiveTop
<1>8. /\ Last(stack).ids[SIZE] \in Int /\ Last(stack).ids[LS] \in Int /\ Last(stack).ids[WS] \in Int
  BY <1>3, <1>5 DEF Opened
<1>9. PICK a, b, c : a = Last(stack).ids[SIZE] /\ b = Last(stack).ids[LS] /\ c = Last(stack).ids[WS]
  OBVIOUS
<1>10. CharAdvance(SPACE, Effective) = SPACE_WIDTH * a + b + c
  BY <1>7, <1>9 DEF CharAdvance, PAD, LETTER, SPACE
<1>11. SingleSpaceOffset(Last(stack).ids) = c + b + SPACE_WIDTH * a
  BY <1>9 DEF SingleSpaceOffset
<1>12. SPACE_WIDTH * a \in Int /\ b \in Int /\ c \in Int
  BY <1>8, <1>9 DEF SPACE_WIDTH
<1> HIDE DEF SPACE_WIDTH
<1> QED
  BY <1>10, <1>11, <1>12

\* A negative margin is written in the innermost element, which the search will not
\* leave for any state that opened it or lies inside.
MarginsKept(st, h, g, neg) ==
  /\ Len(g) = Len(h) /\ \A e \in 1..Len(h) : ElementOK(g[e]) /\ g[e].va = h[e].va
  /\ MarginsOK(st, g, neg)
LEMMA MarginWritten ==
  ASSUME Nested(stack, html), OpenOK, at \in Nat, MarginsOK(stack, html, negAt), NEW c \in Int,
         NEW m, m = html[Len(html)].margin + Min({c, 0}), NEW h, h = WithMargin(html, m)
  PROVE  MarginsKept(stack, html, h, IF c < 0 THEN at ELSE negAt)
<1>1. PICK neg : neg = IF c < 0 THEN at ELSE negAt
  OBVIOUS
<1>2. /\ \A e \in 1..Len(html) : ElementOK(html[e])
      /\ \A p \in 1..Len(stack) : stack[p].start \in Nat /\ stack[p].start <= at
  BY DEF OpenOK
<1>3. /\ IsSeq(html) /\ Len(html) \in Nat /\ IsSeq(stack) /\ Len(stack) \in Nat
      /\ Len(html) = Height(stack, Len(stack))
  BY IsSeqFacts DEF Nested
<1>4. Len(html) \in 1..Len(html) /\ html # <<>>
  <2>1. 1 <= Len(html)
    BY <1>3, HeightType
  <2>2. Len(<<>>) = 0
    OBVIOUS
  <2> QED
    BY <1>3, <2>1, <2>2
<1>5. PICK a \in Int : a = html[Len(html)].margin
  BY <1>4, <1>2 DEF ElementOK
<1>6. m \in Int /\ (c >= 0 => m = a)
  BY <1>5, MinZero
<1>7. /\ IsSeq(h) /\ Len(h) = Len(html) /\ \A e \in 1..Len(html) : ElementOK(h[e])
      /\ \A e \in 1..Len(html) : h[e].va = html[e].va
      /\ \A e \in 1..Len(html) : h[e].margin = IF e = Len(html) THEN m ELSE html[e].margin
  <2>1. MarginOnly(html, m, h)
    <3>1. ElementsOK(html)
      BY <1>2 DEF ElementsOK
    <3> QED
      BY <1>3, <1>4, <1>6, <3>1, MarginFacts
  <2> QED
    BY <2>1 DEF MarginOnly
<1>8. MarginsOK(stack, h, neg)
  <2>1. CASE c >= 0
    <3>1. m = a /\ neg = negAt
      BY <1>1, <1>6, <2>1
    <3>2. \A e \in 1..Len(html) : h[e].margin = html[e].margin
      BY <1>5, <1>7, <3>1
    <3>3. ASSUME NEW p \in 1..Len(stack), NEW e \in (Height(stack, p) + 1)..Len(html)
          PROVE  e \in 1..Len(html)
      <4>1. Height(stack, p) \in Nat /\ p \in Nat
        BY <1>3, HeightType
      <4> QED
        BY <4>1
    <3> QED
      BY <1>7, <3>1, <3>2, <3>3 DEF MarginsOK
  <2>2. CASE c < 0
    <3>1. neg = at
      BY <1>1, <2>2
    <3>2. ASSUME NEW p \in 1..Len(stack), \A q \in (p + 1)..Len(stack) : stack[q].start > neg
          PROVE  p = Len(stack)
      <4>1. p # Len(stack) => p + 1 \in (p + 1)..Len(stack) /\ p + 1 \in 1..Len(stack)
        BY <1>3
      <4> QED
        BY <1>2, <3>1, <3>2, <4>1
    <3>3. \A e \in (Height(stack, Len(stack)) + 1)..Len(h) : FALSE
      BY <1>3, <1>7
    <3> QED
      BY <3>2, <3>3 DEF MarginsOK
  <2> QED
    BY <2>1, <2>2
<1> QED
  BY <1>1, <1>7, <1>8 DEF MarginsKept

\* An offset leaves the next character where it goes, and hands on what is left over.
LEMMA EmitOffsetPlaces == ASSUME IInv, IInv', PInv, EmitOffset PROVE PInv'
<1>1. /\ phase = "dump" /\ phase' = phase /\ k > 1 /\ k' = k /\ OffsetDue /\ done' = done + 1
      /\ LineUnchanged /\ param' = param /\ stack' = stack /\ at' = at /\ shown' = shown
      /\ line' = line /\ asked' = asked
  BY DEF EmitOffset, inputVars, LineUnchanged
<1>2. /\ LineType(line) /\ Nested(stack, html) /\ k \in Int /\ at \in Nat /\ done \in Nat /\ dx \in Int
      /\ tables.space \subseteq Int /\ line.offsets \in Seq(Offset) /\ done + 1 \in 1..Len(line.offsets)
      /\ at \in 0..Len(line.text) /\ DOMAIN tables = {"align", "space"}
  <2>1. LineType(line) /\ Writing
    BY <1>1, AtWork
  <2>2. done \in 0..Len(line.offsets) /\ done < Len(line.offsets) /\ line.offsets \in Seq(Offset)
    BY <1>1, <2>1 DEF IInv, LineType, OffsetDue
  <2>3. /\ Nested(stack, html) /\ k \in Int /\ at \in Nat /\ dx \in Int
        /\ tables.space \subseteq Int /\ at \in 0..Len(line.text) /\ DOMAIN tables = {"align", "space"}
    BY <2>1 DEF IInv, Writing
  <2>4. done \in Nat /\ done + 1 \in 1..Len(line.offsets)
    BY <2>2
  <2> QED
    BY <2>1, <2>2, <2>3, <2>4
<1>3. PICK P, V, U, Y : Placing(P, V, U, Y)
  BY <1>1 DEF PInv
<1>4. /\ ReadOK /\ PenOK(P) /\ OpenOK /\ MarginsOK(stack, html, negAt) /\ Aligned(Y)
      /\ pen \in Int \X Int /\ tables.align \subseteq Int /\ CharsPlaced
  BY <1>1, <1>3 DEF Placing, PInv
<1>5. \A i, j \in 1..Len(line.offsets) : i < j => line.offsets[i].start < line.offsets[j].start
  BY <1>3 DEF Placing, GapsOK, Gapped
<1>6. ReadOK' /\ Due = line.offsets[done + 1].width /\ Due' = 0
  BY <1>1, <1>2, <1>4, <1>5, OffsetDone
<1>7. PICK w : w = line.offsets[done + 1].width
  OBVIOUS
<1>8. PICK target, s, space, class :
        /\ target = w + dx /\ s = Last(stack)
        /\ space = SingleSpaceOffset(s.ids) /\ class = ClassFor(tables.space, target, HEps)
  OBVIOUS
<1>9. w \in Int /\ target \in Int
  <2>1. line.offsets[done + 1] \in Offset
    BY <1>2
  <2> QED
    BY <1>2, <1>7, <1>8, <2>1, OffsetFields
<1>10. HEps \in Nat /\ class \in Int /\ Abs(class - target) <= HEps
  BY <1>2, <1>8, <1>9, ClassForType, TextLineAssumption
<1>11. PICK m : m = html[Len(html)].margin + Min({class, 0})
  OBVIOUS
<1>12. \/ /\ Abs(target) <= HEps
          /\ dx' = target
          /\ UNCHANGED <<negAt, tables, html, pen>>
       \/ /\ WS \notin s.mask /\ Abs(target - space) <= HEps
          /\ dx' = target - space
          /\ pen' = [pen EXCEPT ![1] = @ + CharAdvance(SPACE, Effective)]
          /\ UNCHANGED <<negAt, tables, html>>
       \/ /\ dx' = target - class
          /\ negAt' = IF class < 0 THEN at ELSE negAt
          /\ tables' = [tables EXCEPT !.space = @ \cup {class}]
          /\ html' = WithMargin(html, m)
          /\ pen' = [pen EXCEPT ![1] = @ + class]
  BY <1>7, <1>8, <1>11 DEF EmitOffset, WithMargin
<1>13. PICK a, b \in Int : pen = <<a, b>>
  BY <1>4
<1>14. a + target = P[at]
  BY <1>2, <1>4, <1>6, <1>7, <1>8, <1>9, <1>13 DEF PenOK
<1>15. tables'.align \subseteq Int
  <2>1. tables' = tables \/ tables' = [tables EXCEPT !.space = @ \cup {class}]
    BY <1>12
  <2> QED
    BY <1>2, <1>4, <2>1
<1>16. \A e \in 1..Len(html) : ElementOK(html[e])
  BY <1>4 DEF OpenOK
<1>17. MarginsKept(stack, html, html', negAt')
  <2>1. CASE html' = html /\ negAt' = negAt
    BY <1>4, <1>16, <2>1 DEF MarginsKept
  <2>2. CASE html' = WithMargin(html, m) /\ negAt' = IF class < 0 THEN at ELSE negAt
    <3>1. PICK h : h = WithMargin(html, m)
      OBVIOUS
    <3>2. MarginsKept(stack, html, h, IF class < 0 THEN at ELSE negAt)
      BY <1>2, <1>4, <1>10, <1>11, <3>1, MarginWritten
    <3> QED
      BY <2>2, <3>1, <3>2
  <2> QED
    BY <1>12, <2>1, <2>2
<1>18. ASSUME NEW n \in Int, pen' = <<a + n, b>>, dx' = target - n, Abs(target - n) <= HEps
       PROVE  PenOK(P)' /\ pen' \in Int \X Int /\ pen'[2] = pen[2]
  <2>1. pen'[1] = a + n /\ pen'[2] = b
    BY <1>18
  <2>2. pen'[1] + dx' + Due' = P[at'] /\ Abs(dx') <= HEps
    BY <1>1, <1>6, <1>9, <1>14, <1>18, <2>1
  <2> QED
    BY <1>13, <1>18, <2>1, <2>2 DEF PenOK
<1>19. PenOK(P)' /\ pen' \in Int \X Int /\ pen'[2] = pen[2]
  <2>1. CASE Abs(target) <= HEps /\ dx' = target /\ pen' = pen
    <3>1. pen' = <<a + 0, b>> /\ target - 0 = target /\ 0 \in Int
      BY <1>9, <1>13, <2>1
    <3> QED
      BY <1>18, <2>1, <3>1
  <2>2. CASE /\ WS \notin s.mask /\ Abs(target - space) <= HEps /\ dx' = target - space
             /\ pen' = [pen EXCEPT ![1] = @ + CharAdvance(SPACE, Effective)]
    <3>1. CharAdvance(SPACE, Effective) = space
      BY <1>2, <1>8, <2>2, SpaceTop
    <3>2. space \in Int
      <4>1. IsSeq(stack) /\ stack # <<>>
        BY <1>2 DEF Nested
      <4>2. s = stack[Len(stack)] /\ Len(stack) \in 1..Len(stack)
        BY <1>8, <4>1, IsSeqFacts
      <4>3. Opened(s)
        BY <1>2, <4>2 DEF Nested
      <4> QED
        BY <1>8, <4>3, SpaceType DEF Opened
    <3>3. pen' = <<a + space, b>>
      BY <1>13, <2>2, <3>1, <3>2
    <3> QED
      BY <1>18, <2>2, <3>2, <3>3
  <2>3. CASE dx' = target - class /\ pen' = [pen EXCEPT ![1] = @ + class]
    <3>1. pen' = <<a + class, b>>
      BY <1>10, <1>13, <2>3
    <3>2. Abs(target - class) <= HEps
      BY <1>9, <1>10 DEF Abs
    <3> QED
      BY <1>10, <1>18, <2>3, <3>1, <3>2
  <2> QED
    BY <1>12, <2>1, <2>2, <2>3
<1>20. OpenOK'
  BY <1>1, <1>4, <1>17 DEF OpenOK, MarginsKept
<1>21. Aligned(Y)'
  BY <1>1, <1>4, <1>17, <1>19, AlignedKept DEF MarginsKept
<1>22. CharsPlaced'
  BY <1>1, <1>4 DEF CharsPlaced
<1>23. k' # 1 /\ MarginsOK(stack', html', negAt')
  BY <1>1, <1>2, <1>17 DEF MarginsKept
<1> QED
  BY <1>1, <1>3, <1>6, <1>15, <1>19, <1>20, <1>21, <1>22, <1>23, WritingPlaces

\* A state that begins keeps where it starts, and takes the alignment it is given.
Starts(u, s, va) == DOMAIN u = StateFieldNames /\ u.start = s.start /\ u.va = va
LEMMA BeginFields ==
  ASSUME NEW s \in State, NEW va, NEW align, NEW prev, NEW c \in BOOLEAN
  PROVE  /\ Starts(WithClose(Placed(s, va, align), c), s, va)
         /\ Starts(WithClose(Inherited(Placed(s, va, align), prev), c), s, va)
         /\ WithClose(Placed(s, va, align), c).close = c
         /\ WithClose(Inherited(Placed(s, va, align), prev), c).close = c
<1>1. DOMAIN s = StateFieldNames
  BY StateFields DEF StateFieldNames
<1>2. PICK t : t = Placed(s, va, align)
  OBVIOUS
<1>3. Starts(t, s, va)
  BY <1>1, <1>2 DEF Placed, Starts, StateFieldNames
<1>4. \A r : Starts(r, s, va) => Starts(WithClose(r, c), s, va) /\ WithClose(r, c).close = c
  BY DEF WithClose, Starts, StateFieldNames
<1>5. \A r : Starts(r, s, va) => Starts(Inherited(r, prev), s, va)
  <2> SUFFICES ASSUME NEW r, Starts(r, s, va) PROVE Starts(Inherited(r, prev), s, va)
    OBVIOUS
  <2>1. PICK from : from = {i \in r.mask : i \notin prev.mask}
    OBVIOUS
  <2>2. PICK ids : ids = [i \in Ids |-> IF i \in from THEN prev.ids[i] ELSE r.ids[i]]
    OBVIOUS
  <2>3. PICK i : i = [r EXCEPT !.ids = ids, !.mask = @ \ from]
    OBVIOUS
  <2>4. i = Inherited(r, prev)
    BY <2>1, <2>2, <2>3 DEF Inherited
  <2>5. Starts(i, s, va)
    BY <2>3 DEF Starts, StateFieldNames
  <2> QED
    BY <2>4, <2>5
<1> QED
  BY <1>2, <1>3, <1>4, <1>5

\* The search leaves no span that may hold a negative margin.
LEMMA ParentReached ==
  ASSUME NEW s, IsSeq(stack), stack # <<>>
  PROVE  \A q \in (Parent(s) + 1)..Len(stack) : stack[q].start > negAt
<1> DEFINE best == {p \in Reached(s) : \A q \in Reached(s) : Cost(s, p) <= Cost(s, q)}
<1>1. Len(stack) \in Nat /\ Len(stack) \in 1..Len(stack)
  BY IsSeqFacts
<1>2. best \subseteq 1..Len(stack) /\ best \subseteq Reached(s)
  BY DEF Reached
<1>3. Parent(s) = Len(stack) \/ (best # {} /\ Parent(s) = Max(best))
  BY DEF Parent
<1> HIDE DEF best
<1>4. CASE Parent(s) = Len(stack)
  BY <1>1, <1>4
<1>5. CASE best # {} /\ Parent(s) = Max(best)
  <2>1. 1 \in Int /\ Len(stack) \in Int
    BY <1>1
  <2>2. Max(best) \in best
    BY <1>2, <1>5, <2>1, MaxOf, Zenon
  <2>3. Parent(s) \in Reached(s)
    BY <1>2, <1>5, <2>2
  <2> QED
    BY <2>3 DEF Reached
<1> QED
  BY <1>3, <1>4, <1>5

\* The state u is entered inside the p-th open one, with the element e if it opens one.
Entered(st, h, p, u, e, opens, t, g) ==
  LET n == Height(st, p)
  IN /\ IsSeq(t) /\ Len(t) = p + 1 /\ t[p + 1] = u /\ \A q \in 1..p : t[q] = st[q]
     /\ IsSeq(g) /\ Len(g) = IF opens THEN n + 1 ELSE n
     /\ \A j \in 1..n : g[j] = h[j]
     /\ opens => g[n + 1] = e
     /\ n \in 1..Len(h) /\ Height(t, p + 1) = Len(g)
     /\ \A q \in 1..p : Height(t, q) = Height(st, q) /\ Height(st, q) \in 1..n

\* One element more, if there is one.
Grown(s, e, opens) == IF opens THEN Append(s, e) ELSE s
LEMMA GrownFacts ==
  ASSUME NEW s, IsSeq(s), NEW e, NEW opens \in BOOLEAN, NEW g, g = Grown(s, e, opens)
  PROVE  /\ IsSeq(g) /\ Len(g) = IF opens THEN Len(s) + 1 ELSE Len(s)
         /\ \A j \in 1..Len(s) : g[j] = s[j]
         /\ opens => g[Len(s) + 1] = e
<1>1. /\ IsSeq(Append(s, e)) /\ Len(Append(s, e)) = Len(s) + 1
      /\ Append(s, e)[Len(s) + 1] = e /\ \A j \in 1..Len(s) : Append(s, e)[j] = s[j]
  BY IsSeqAppend
<1>2. CASE opens
  BY <1>1, <1>2 DEF Grown
<1>3. CASE ~opens
  BY <1>3 DEF Grown
<1> QED
  BY <1>2, <1>3

\* What is left when the elements inside the p-th open state are.
Kept(st, h, p) == SubSeq(h, 1, Len(h) - Cardinality(ClosedAbove(st, p, Len(st))))
LEMMA KeptIs ==
  ASSUME NEW st, NEW h, Nested(st, h), NEW p \in 1..Len(st)
  PROVE  /\ IsSeq(Kept(st, h, p)) /\ Len(Kept(st, h, p)) = Height(st, p)
         /\ \A j \in 1..Height(st, p) : Kept(st, h, p)[j] = h[j]
         /\ Height(st, p) \in 1..Len(h) /\ Height(st, p) \in Nat
         /\ Kept(st, h, p) = SubSeq(h, 1, Height(st, p))
<1>1. IsSeq(st) /\ IsSeq(h) /\ Len(st) \in Nat /\ Len(h) \in Nat /\ p \in Nat /\ p <= Len(st)
  BY IsSeqFacts DEF Nested
<1>2. PICK n, c : n = Height(st, p) /\ c = Cardinality(ClosedAbove(st, p, Len(st)))
  OBVIOUS
<1>3. n = Len(h) - c /\ n \in Nat /\ n \in 1..Len(h) /\ n \in 0..Len(h)
  <2>1. Height(st, Len(st)) = Height(st, p) + c /\ c \in Nat
    BY <1>1, <1>2, HeightSplit
  <2>2. Height(st, p) \in Nat /\ 1 <= Height(st, p)
    BY <1>1, HeightType
  <2>3. Len(h) = Height(st, Len(st))
    BY DEF Nested
  <2> QED
    BY <1>1, <1>2, <2>1, <2>2, <2>3
<1>4. Kept(st, h, p) = SubSeq(h, 1, n)
  BY <1>2, <1>3 DEF Kept
<1>5. IsSeq(SubSeq(h, 1, n)) /\ Len(SubSeq(h, 1, n)) = n /\ \A j \in 1..n : SubSeq(h, 1, n)[j] = h[j]
  BY <1>1, <1>3, IsSeqPrefix
<1> QED
  BY <1>2, <1>3, <1>4, <1>5

\* So it is when the elements inside a parent are closed and the child is appended.
LEMMA EnteredIs ==
  ASSUME NEW st, NEW h, Nested(st, h), NEW p \in 1..Len(st), NEW u, NEW e, NEW opens \in BOOLEAN,
         u.close = opens
  PROVE  Entered(st, h, p, u, e, opens, Append(SubSeq(st, 1, p), u), Grown(Kept(st, h, p), e, opens))
<1>1. IsSeq(st) /\ Len(st) \in Nat /\ p \in Nat /\ p <= Len(st) /\ p \in 0..Len(st)
  BY IsSeqFacts DEF Nested
<1>2. PICK n : n = Height(st, p)
  OBVIOUS
<1>3. PICK r, kept : r = SubSeq(st, 1, p) /\ kept = Kept(st, h, p)
  OBVIOUS
<1>4. IsSeq(r) /\ Len(r) = p /\ \A q \in 1..p : r[q] = st[q]
  BY <1>1, <1>3, IsSeqPrefix
<1>5. /\ IsSeq(kept) /\ Len(kept) = n /\ \A j \in 1..n : kept[j] = h[j]
      /\ n \in 1..Len(h) /\ n \in Nat
  BY <1>2, <1>3, KeptIs
<1>6. PICK t, g : t = Append(r, u) /\ g = Grown(kept, e, opens)
  OBVIOUS
<1>7. IsSeq(t) /\ Len(t) = p + 1 /\ t[p + 1] = u /\ \A q \in 1..p : t[q] = st[q]
  BY <1>4, <1>6, IsSeqAppend
<1>8. /\ IsSeq(g) /\ Len(g) = IF opens THEN n + 1 ELSE n
      /\ \A j \in 1..n : g[j] = h[j]
      /\ opens => g[n + 1] = e
  <2>1. /\ IsSeq(g) /\ Len(g) = IF opens THEN Len(kept) + 1 ELSE Len(kept)
        /\ \A j \in 1..Len(kept) : g[j] = kept[j]
        /\ opens => g[Len(kept) + 1] = e
    BY <1>5, <1>6, GrownFacts
  <2> QED
    BY <1>5, <2>1
<1>9. ASSUME NEW q \in 1..p
      PROVE  Height(t, q) = Height(st, q) /\ Height(st, q) \in 1..n
  <2>1. SameClosed(t, st, q) /\ q \in Nat /\ q <= p
    BY <1>1, <1>7 DEF SameClosed
  <2>2. Height(t, q) = Height(st, q)
    BY <2>1, HeightSame
  <2>3. Height(st, q) \in Nat /\ 1 <= Height(st, q) /\ Height(st, q) <= n
    <3>1. /\ Height(st, p) = Height(st, q) + Cardinality(ClosedAbove(st, q, p))
          /\ Cardinality(ClosedAbove(st, q, p)) \in Nat
      BY <1>1, <2>1, HeightSplit
    <3>2. Height(st, q) \in Nat /\ 1 <= Height(st, q)
      BY <2>1, HeightType
    <3> QED
      BY <1>2, <3>1, <3>2
  <2> QED
    BY <1>5, <2>2, <2>3
<1>10. Height(t, p + 1) = Len(g)
  <2>1. Height(t, p + 1) = IF t[p + 1].close THEN Height(t, p) + 1 ELSE Height(t, p)
    BY <1>1, HeightNext
  <2>2. Height(t, p) = n
    <3>1. p \in 1..p
      BY <1>1
    <3> QED
      BY <1>2, <1>9, <3>1
  <2> QED
    BY <1>7, <1>8, <2>1, <2>2
<1>11. Entered(st, h, p, u, e, opens, t, g)
  BY <1>2, <1>5, <1>7, <1>8, <1>9, <1>10 DEF Entered
<1> QED
  BY <1>3, <1>6, <1>11

\* What may hold a margin is below a state that the search did not leave.
LEMMA EnteredMargins ==
  ASSUME NEW st, NEW h, NEW p \in 1..Len(st), Len(st) \in Nat, NEW u, NEW e, NEW opens \in BOOLEAN,
         NEW t, NEW g, Entered(st, h, p, u, e, opens, t, g), Len(h) \in Nat, NEW neg,
         MarginsOK(st, h, neg), \A q \in (p + 1)..Len(st) : st[q].start > neg, opens => e.margin = 0
  PROVE  MarginsOK(t, g, neg)
<1>1. PICK n : n = Height(st, p)
  OBVIOUS
<1>2. /\ Len(t) = p + 1 /\ \A q \in 1..p : t[q] = st[q]
      /\ Len(g) = IF opens THEN n + 1 ELSE n
      /\ \A j \in 1..n : g[j] = h[j]
      /\ opens => g[n + 1] = e
      /\ n \in 1..Len(h) /\ Height(t, p + 1) = Len(g)
      /\ \A q \in 1..p : Height(t, q) = Height(st, q) /\ Height(st, q) \in 1..n
  BY <1>1 DEF Entered
<1>3. ASSUME NEW q \in 1..Len(t), \A r \in (q + 1)..Len(t) : t[r].start > neg,
             NEW j \in (Height(t, q) + 1)..Len(g)
      PROVE  g[j].margin = 0
  <2>1. CASE q = p + 1
    <3>1. Height(t, q) = Len(g) /\ Len(g) \in Nat
      BY <1>2, <2>1
    <3> QED
      BY <1>3, <3>1
  <2>2. CASE q \in 1..p
    <3>1. Height(t, q) = Height(st, q) /\ Height(st, q) \in 1..n /\ q \in 1..Len(st)
      BY <1>2, <2>2
    <3>2. \A r \in (q + 1)..Len(st) : st[r].start > neg
      <4> TAKE r \in (q + 1)..Len(st)
      <4>1. CASE r \in (p + 1)..Len(st)
        BY <4>1
      <4>2. CASE r \in (q + 1)..p
        <5>1. r \in 1..p /\ r \in (q + 1)..Len(t)
          BY <1>2, <2>2, <4>2
        <5>2. t[r].start > neg /\ t[r] = st[r]
          BY <1>2, <1>3, <5>1
        <5> QED
          BY <5>2
      <4> QED
        BY <4>1, <4>2
    <3>3. \A i \in (Height(st, q) + 1)..Len(h) : h[i].margin = 0
      BY <3>1, <3>2 DEF MarginsOK
    <3>4. CASE j \in 1..n
      <4>1. j \in (Height(st, q) + 1)..Len(h)
        BY <1>2, <1>3, <3>1, <3>4
      <4> QED
        BY <1>2, <3>3, <3>4, <4>1
    <3>5. CASE j \notin 1..n
      <4>1. opens /\ j = n + 1
        BY <1>2, <1>3, <3>1, <3>5
      <4> QED
        BY <1>2, <4>1
    <3> QED
      BY <3>4, <3>5
  <2> QED
    BY <1>2, <2>1, <2>2
<1> QED
  BY <1>3 DEF MarginsOK

\* The baseline of the parent, plus how far the child is off it, rounded once.
Leads(t, g, a, b) ==
  \E A, B : Sums(t, A) /\ Sums(g, B) /\ Near(t, A, B) /\ A[Len(t)] = a /\ B[Len(g)] = b
LEMMA EnteredAligned ==
  ASSUME NEW st, NEW h, NEW p \in 1..Len(st), Len(st) \in Nat, NEW u, NEW e, NEW opens \in BOOLEAN,
         NEW t, NEW g, Entered(st, h, p, u, e, opens, t, g), Len(h) \in Nat,
         NEW A, NEW B, Sums(st, A), Sums(h, B), Near(st, A, B), NEW va \in Int, NEW ev \in Int,
         u.va = va, opens => e.va = ev, ~opens => ev = 0, Abs(ev - va) <= VEps
  PROVE  Leads(t, g, A[p] + va, B[Height(st, p)] + ev)
<1>1. PICK n : n = Height(st, p)
  OBVIOUS
<1>2. /\ Len(t) = p + 1 /\ t[p + 1] = u /\ \A q \in 1..p : t[q] = st[q]
      /\ Len(g) = IF opens THEN n + 1 ELSE n
      /\ \A j \in 1..n : g[j] = h[j]
      /\ opens => g[n + 1] = e
      /\ n \in 1..Len(h) /\ Height(t, p + 1) = Len(g)
      /\ \A q \in 1..p : Height(t, q) = Height(st, q) /\ Height(st, q) \in 1..n
  BY <1>1 DEF Entered
<1>3. /\ A \in [0..Len(st) -> Int] /\ A[0] = 0 /\ \A q \in 1..Len(st) : A[q] = A[q - 1] + st[q].va
      /\ B \in [0..Len(h) -> Int] /\ B[0] = 0 /\ \A j \in 1..Len(h) : B[j] = B[j - 1] + h[j].va
  BY DEF Sums
<1>4. PICK a, b, m : a = A[p] + va /\ b = B[n] + ev /\ m = Len(g)
  OBVIOUS
<1>5. a \in Int /\ b \in Int /\ A[p] \in Int /\ B[n] \in Int /\ n \in Nat /\ m \in Nat
  <2>1. p \in 0..Len(st) /\ n \in 0..Len(h) /\ n \in Nat
    BY <1>2
  <2>2. A[p] \in Int /\ B[n] \in Int
    BY <1>3, <2>1
  <2>3. m = n + 1 \/ m = n
    BY <1>2, <1>4
  <2> QED
    BY <1>4, <2>1, <2>2, <2>3
<1>6. PICK C : C = [q \in 0..(p + 1) |-> IF q = p + 1 THEN a ELSE A[q]]
  OBVIOUS
<1>7. PICK D : D = [j \in 0..m |-> IF j = n + 1 THEN b ELSE B[j]]
  OBVIOUS
<1>8. C \in [0..(p + 1) -> Int] /\ C[p + 1] = a /\ \A q \in 0..p : C[q] = A[q]
  <2>1. \A q \in 0..p : q \in 0..Len(st) /\ q \in 0..(p + 1) /\ q # p + 1 /\ A[q] \in Int
    BY <1>3
  <2>2. \A q \in 0..(p + 1) : q = p + 1 \/ q \in 0..p
    OBVIOUS
  <2>3. p + 1 \in 0..(p + 1)
    OBVIOUS
  <2> QED
    BY <1>5, <1>6, <2>1, <2>2, <2>3
<1>9. D \in [0..m -> Int] /\ D[m] = b /\ \A j \in 0..n : D[j] = B[j]
  <2>1. D \in [0..m -> Int] /\ \A j \in 0..n : D[j] = B[j]
    <3>1. \A j \in 0..n : j \in 0..Len(h) /\ j \in 0..m /\ j # n + 1 /\ B[j] \in Int
      <4>1. n <= m /\ n <= Len(h)
        BY <1>2, <1>4, <1>5
      <4>2. \A j \in 0..n : j \in 0..Len(h) /\ j \in 0..m /\ j # n + 1
        BY <1>5, <4>1
      <4> QED
        BY <1>3, <4>2
    <3>2. \A j \in 0..m : j = n + 1 \/ j \in 0..n
      BY <1>2, <1>4, <1>5
    <3> QED
      BY <1>5, <1>7, <3>1, <3>2
  <2>2. D[m] = b
    <3>1. CASE opens
      BY <1>2, <1>4, <1>5, <1>7, <3>1
    <3>2. CASE ~opens
      <4>1. m = n /\ b = B[n] /\ m \in 0..m /\ m # n + 1
        BY <1>2, <1>4, <1>5, <3>2
      <4> QED
        BY <1>7, <4>1
    <3> QED
      BY <3>1, <3>2
  <2> QED
    BY <2>1, <2>2
<1>10. Sums(t, C)
  <2>1. \A q \in 1..(p + 1) : C[q] = C[q - 1] + t[q].va
    <3> TAKE q \in 1..(p + 1)
    <3>1. CASE q = p + 1
      <4>1. q - 1 = p /\ p \in 0..p
        BY <3>1
      <4> QED
        BY <1>2, <1>4, <1>8, <3>1, <4>1
    <3>2. CASE q \in 1..p
      <4>1. q - 1 \in 0..p /\ q \in 0..p /\ q \in 1..Len(st)
        BY <3>2
      <4> QED
        BY <1>2, <1>3, <1>8, <3>2, <4>1
    <3> QED
      BY <3>1, <3>2
  <2>2. 0 \in 0..p
    OBVIOUS
  <2> QED
    BY <1>2, <1>3, <1>8, <2>1, <2>2 DEF Sums
<1>11. Sums(g, D)
  <2>1. \A j \in 1..m : D[j] = D[j - 1] + g[j].va
    <3> TAKE j \in 1..m
    <3>1. CASE j \in 1..n
      <4>1. j - 1 \in 0..n /\ j \in 0..n /\ j \in 1..Len(h)
        BY <1>2, <1>5, <3>1
      <4> QED
        BY <1>2, <1>3, <1>9, <3>1, <4>1
    <3>2. CASE j \notin 1..n
      <4>1. opens /\ j = n + 1 /\ j = m /\ j - 1 = n /\ n \in 0..n
        BY <1>2, <1>4, <1>5, <3>2
      <4>2. g[j].va = ev
        BY <1>2, <4>1
      <4> QED
        BY <1>4, <1>9, <4>1, <4>2
    <3> QED
      BY <3>1, <3>2
  <2>2. 0 \in 0..n
    BY <1>5
  <2> QED
    BY <1>3, <1>4, <1>9, <2>1, <2>2 DEF Sums
<1>12. Near(t, C, D)
  <2>1. \A q \in 1..(p + 1) : Abs(D[Height(t, q)] - C[q]) <= VEps * (q - 1)
    <3> TAKE q \in 1..(p + 1)
    <3>1. CASE q \in 1..p
      <4>1. Height(t, q) = Height(st, q) /\ Height(st, q) \in 1..n /\ q \in 1..Len(st)
        BY <1>2, <3>1
      <4>2. Height(st, q) \in 0..n /\ q \in 0..p
        BY <1>5, <3>1, <4>1
      <4>3. D[Height(t, q)] = B[Height(st, q)] /\ C[q] = A[q]
        BY <1>8, <1>9, <4>1, <4>2
      <4>4. Abs(B[Height(st, q)] - A[q]) <= VEps * (q - 1)
        BY <4>1 DEF Near
      <4> QED
        BY <4>3, <4>4
    <3>2. CASE q = p + 1
      <4>1. D[Height(t, q)] = b /\ C[q] = a
        BY <1>2, <1>4, <1>8, <1>9, <3>2
      <4>2. Abs(B[n] - A[p]) <= VEps * (p - 1)
        BY <1>1 DEF Near
      <4>3. VEps * (p - 1) + VEps = VEps * p /\ VEps * (p - 1) \in Int /\ VEps * p \in Int
            /\ q - 1 = p
        <5>1. VEps \in Int /\ p \in Int
          BY TextLineAssumption
        <5> QED
          BY <3>2, <5>1
      <4>4. PICK x, y : x = VEps * (p - 1) /\ y = VEps * p
        OBVIOUS
      <4>5. x + VEps = y /\ x \in Int /\ y \in Int /\ VEps \in Int /\ Abs(B[n] - A[p]) <= x
        BY <4>2, <4>3, <4>4, TextLineAssumption
      <4>6. Abs(b - a) <= y
        <5>1. PICK i, c : i = A[p] /\ c = B[n]
          OBVIOUS
        <5>2. i \in Int /\ c \in Int /\ a = i + va /\ b = c + ev /\ Abs(c - i) <= x
          BY <1>4, <1>5, <4>5, <5>1
        <5> QED
          BY <4>5, <5>2 DEF Abs
      <4> QED
        BY <4>1, <4>3, <4>4, <4>6
    <3> QED
      BY <3>1, <3>2
  <2> QED
    BY <1>2, <2>1 DEF Near
<1> QED
  BY <1>1, <1>2, <1>4, <1>8, <1>9, <1>10, <1>11, <1>12 DEF Leads

\* An element as it is when it has just been opened.
ElementIs(e, va) == ElementOK(e) /\ e.va = va /\ e.margin = 0
LEMMA ElementStarts == \A ids, set : \A va \in Int : ElementIs(Element(ids, set, va), va)
  BY DEF Element, ElementIs, ElementOK

\* What a state that begins leaves: the pen where it was, on the line of the state.
Begun(Y, opened) ==
  /\ OpenOK' /\ MarginsOK(stack', html', negAt') /\ Aligned(Y)'
  /\ pen' \in Int \X Int /\ pen'[1] = pen[1] /\ opened \in Int

\* A state that is not the first begins under the parent that the search chose.
LEMMA BeginNextPlaces ==
  ASSUME Nested(stack, html), OpenOK, MarginsOK(stack, html, negAt), NEW Y, Aligned(Y),
         pen \in Int \X Int, tables.align \subseteq Int, k \in Nat, NEW s \in State, s.start = at,
         Y[k] = Y[k - 1] + s.va, NEW p, p = Parent(s), NEW va, va = AlignOn(s, p),
         NEW align, align = ClassFor(tables.align, va, VEps), Begin(s, p, va, align),
         k' = k + 1, at' = at, negAt' = negAt
  PROVE  Begun(Y, align)
<1>1. /\ IsSeq(stack) /\ stack # <<>> /\ Len(stack) \in Nat /\ IsSeq(html) /\ Len(html) \in Nat
      /\ Len(html) = Height(stack, Len(stack))
  BY IsSeqFacts DEF Nested
<1>2. p \in 1..Len(stack) /\ p \in Nat /\ p > 0 /\ p # 0 /\ p \in 0..Len(stack)
  <2>1. p \in 1..Len(stack)
    BY <1>1, ParentType
  <2> QED
    BY <1>1, <2>1
<1>3. PICK A, B : AlignedOK(A, B, Y)
  BY DEF Aligned
<1>4. /\ Sums(stack, A) /\ Sums(html, B) /\ Near(stack, A, B) /\ A[Len(stack)] = Y[k - 1]
      /\ A \in [0..Len(stack) -> Int] /\ B \in [0..Len(html) -> Int] /\ B[0] = 0
  BY <1>3 DEF AlignedOK, Sums
<1>5. /\ \A q \in 1..Len(stack) : stack[q].start \in Nat /\ stack[q].start <= at /\ stack[q].va \in Int
      /\ \A j \in 1..Len(html) : html[j].va \in Int /\ ElementOK(html[j])
      /\ Len(stack) <= k - 1
  BY DEF OpenOK, ElementOK
<1>6. s.va \in Int /\ s.start \in Nat
  BY StateFields
<1>7. va = s.va + (A[Len(stack)] - A[p]) /\ va \in Int /\ A[p] \in Int /\ A[Len(stack)] \in Int
  <2>1. A[p] \in Int /\ A[Len(stack)] \in Int
    <3>1. Len(stack) \in 0..Len(stack)
      BY <1>1
    <3> QED
      BY <1>2, <1>4, <3>1
  <2>2. Len(stack) \in p..Len(stack)
    BY <1>1, <1>2
  <2>3. TotalAlign(SubSeq(stack, p + 1, Len(stack))) = A[Len(stack)] - A[p]
    <3>1. IntegerAlign(stack)
      BY <1>5 DEF IntegerAlign
    <3> QED
      BY <1>1, <1>2, <1>4, <2>2, <3>1, TotalAlignIs
  <2> QED
    BY <1>6, <2>1, <2>3 DEF AlignOn
<1>8. align \in Int /\ Abs(align - va) <= VEps /\ VEps \in Nat
  BY <1>7, ClassForType, TextLineAssumption
<1>9. PICK ev : ev = IF va # 0 THEN align ELSE 0
  OBVIOUS
<1>10. ev \in Int /\ Abs(ev - va) <= VEps /\ (va = 0 => ev = 0)
  <2>1. Abs(0 - 0) <= VEps
    BY <1>8 DEF Abs
  <2> QED
    BY <1>7, <1>8, <1>9, <2>1
<1>11. PICK prev, t, set : /\ prev = stack[p] /\ t = Inherited(Placed(s, va, align), prev)
                           /\ set = Written(t, prev)
  OBVIOUS
<1>12. PICK opens \in BOOLEAN : opens <=> set # {} \/ va # 0
  OBVIOUS
<1>13. PICK u, e : u = WithClose(t, opens) /\ e = Element(t.ids, set, ev)
  OBVIOUS
<1>14. Starts(u, s, va) /\ u.close = opens
  BY <1>11, <1>13, BeginFields
<1>15. ElementIs(e, ev)
  BY <1>10, <1>13, ElementStarts
<1>16. PICK kept : kept = Kept(stack, html, p)
  OBVIOUS
<1>17. SubSeq(html, 1, Len(html) - Cardinality(ElementsAbove(p))) = kept
  BY <1>16 DEF Kept, ElementsAbove, ClosedAbove
<1>18. stack' = Append(SubSeq(stack, 1, p), u)
  BY <1>2, <1>11, <1>12, <1>13 DEF Begin, Placed, WithClose
<1>19. PICK gone : gone = SubSeq(html, Len(kept) + 1, Len(html))
  OBVIOUS
<1>20. /\ html' = Grown(kept, e, opens)
       /\ pen' = <<pen[1] - TotalMargin(gone), TotalAlign(kept) + e.va>>
  <2>1. Enter(p, opens, e)
    <3>1. Enter(p, p = 0 \/ set # {} \/ va # 0, e)
      BY <1>2, <1>9, <1>11, <1>13 DEF Begin, Placed
    <3> QED
      BY <1>2, <1>12, <3>1 DEF Enter
  <2> QED
    BY <1>17, <1>19, <2>1 DEF Enter, Grown
<1>21. PICK n : n = Height(stack, p)
  OBVIOUS
<1>22. /\ kept = SubSeq(html, 1, n) /\ Len(kept) = n /\ n \in 1..Len(html) /\ n \in Nat
  BY <1>2, <1>16, <1>21, KeptIs
<1>23. Entered(stack, html, p, u, e, opens, stack', html')
  BY <1>2, <1>14, <1>16, <1>18, <1>20, EnteredIs
<1>24. \A q \in (p + 1)..Len(stack) : stack[q].start > negAt
  BY <1>1, ParentReached
<1>25. MarginsOK(stack', html', negAt')
  <2>1. opens => e.margin = 0
    BY <1>15 DEF ElementIs
  <2>2. MarginsOK(stack', html', negAt)
    BY <1>1, <1>2, <1>23, <1>24, <2>1, EnteredMargins
  <2> QED
    BY <2>2
<1>26. TotalMargin(gone) = 0
  <2>1. \A j \in (n + 1)..Len(html) : html[j].margin = 0
    BY <1>2, <1>21, <1>24 DEF MarginsOK
  <2>2. n \in 0..Len(html)
    BY <1>22
  <2> QED
    BY <1>1, <1>19, <1>22, <2>1, <2>2, TotalMarginZero
<1>27. TotalAlign(kept) = B[n] /\ B[n] \in Int
  <2>1. 0 \in 0..Len(html) /\ n \in 0..Len(html) /\ 0 + 1 = 1
    BY <1>22
  <2>2. TotalAlign(SubSeq(html, 0 + 1, n)) = B[n] - B[0]
    <3>1. IntegerAlign(html)
      BY <1>5 DEF IntegerAlign
    <3> QED
      BY <1>1, <1>4, <1>22, <2>1, <3>1, TotalAlignIs
  <2>3. B[n] \in Int /\ B[n] - B[0] = B[n]
    <3>1. B[n] \in Int
      BY <1>4, <2>1
    <3> QED
      BY <1>4, <3>1
  <2>4. kept = SubSeq(html, 0 + 1, n)
    BY <1>22, <2>1
  <2> QED
    BY <2>2, <2>3, <2>4
<1>28. pen' = <<pen[1], B[n] + ev>> /\ pen' \in Int \X Int /\ pen'[1] = pen[1] /\ pen'[2] = B[n] + ev
  BY <1>10, <1>15, <1>20, <1>26, <1>27 DEF ElementIs
<1>29. Aligned(Y)'
  <2>1. Leads(stack', html', A[p] + va, B[n] + ev)
    <3>1. u.va = va
      BY <1>14 DEF Starts
    <3>2. (opens => e.va = ev) /\ (~opens => ev = 0)
      BY <1>10, <1>12, <1>15 DEF ElementIs
    <3> QED
      BY <1>1, <1>2, <1>4, <1>7, <1>10, <1>21, <1>23, <3>1, <3>2, EnteredAligned
  <2>2. PICK C, D : /\ Sums(stack', C) /\ Sums(html', D) /\ Near(stack', C, D)
                    /\ C[Len(stack')] = A[p] + va /\ D[Len(html')] = B[n] + ev
    BY <2>1 DEF Leads
  <2>3. A[p] + va = Y[k] /\ k' - 1 = k
    BY <1>4, <1>6, <1>7
  <2>4. AlignedOK(C, D, Y)'
    BY <1>28, <2>2, <2>3 DEF AlignedOK
  <2> QED
    BY <2>4 DEF Aligned
<1>30. OpenOK'
  <2>1. /\ Len(stack') = p + 1 /\ stack'[p + 1] = u /\ \A q \in 1..p : stack'[q] = stack[q]
        /\ Len(html') = IF opens THEN n + 1 ELSE n
        /\ \A j \in 1..n : html'[j] = html[j]
        /\ opens => html'[n + 1] = e
    BY <1>21, <1>23 DEF Entered
  <2>2. \A j \in 1..Len(html') : ElementOK(html'[j])
    <3> TAKE j \in 1..Len(html')
    <3>1. j \in 1..n \/ (opens /\ j = n + 1)
      BY <1>22, <2>1
    <3>2. j \in 1..n => j \in 1..Len(html)
      BY <1>1, <1>22
    <3> QED
      BY <1>5, <1>15, <2>1, <3>1, <3>2 DEF ElementIs
  <2>3. \A q \in 1..Len(stack') : stack'[q].start \in Nat /\ stack'[q].start <= at /\ stack'[q].va \in Int
    <3> TAKE q \in 1..Len(stack')
    <3>1. CASE q \in 1..p
      <4>1. q \in 1..Len(stack)
        BY <1>1, <1>2, <3>1
      <4> QED
        BY <1>5, <2>1, <3>1, <4>1
    <3>2. CASE q = p + 1
      BY <1>6, <1>7, <1>14, <2>1, <3>2 DEF Starts
    <3> QED
      BY <1>2, <2>1, <3>1, <3>2
  <2>4. Len(stack') <= k' - 1
    BY <1>1, <1>2, <1>5, <2>1
  <2> QED
    BY <2>2, <2>3, <2>4 DEF OpenOK
<1> QED
  BY <1>8, <1>25, <1>28, <1>29, <1>30 DEF Begun

\* The first state opens the line's own element, at its baseline.
LEMMA BeginFirstPlaces ==
  ASSUME stack = <<>>, html = <<>>, NEW Y, pen = <<0, 0>>, tables.align \subseteq Int, k = 1,
         NEW s \in State, s.start = at, s.va = 0, Y[1] = 0,
         NEW align, align = ClassFor(tables.align, 0, VEps), Begin(s, 0, 0, align),
         k' = 2, at' = at
  PROVE  Begun(Y, align)
<1>1. PICK t, set : t = Placed(s, 0, align) /\ set = HashIds \ s.mask
  OBVIOUS
<1>2. PICK u, e : u = WithClose(t, FALSE) /\ e = Element(t.ids, set, 0)
  OBVIOUS
<1>3. Starts(u, s, 0) /\ ~u.close
  <2>1. u.close = FALSE /\ Starts(u, s, 0)
    BY <1>1, <1>2, BeginFields
  <2> QED
    BY <2>1
<1>4. ElementIs(e, 0)
  BY <1>2, ElementStarts
<1>5. align \in Int
  BY ClassForType, TextLineAssumption
<1>6. ElementsAbove(0) = {} /\ Cardinality(ElementsAbove(0)) = 0
  <2>1. ElementsAbove(0) = {}
    BY DEF ElementsAbove
  <2> QED
    BY <2>1, FS_EmptySet
<1>7. stack' = <<u>>
  <2>1. ~(0 > 0)
    OBVIOUS
  <2>2. stack' = Append(SubSeq(stack, 1, 0), u)
    BY <1>1, <1>2, <2>1 DEF Begin, Placed, WithClose
  <2>3. SubSeq(stack, 1, 0) = <<>> /\ Append(<<>>, u) = <<u>>
    OBVIOUS
  <2> QED
    BY <2>2, <2>3, Zenon
<1>8. html' = <<e>> /\ pen' = <<pen[1] - TotalMargin(<<>>), TotalAlign(<<>>) + e.va>>
  <2>1. ~(0 > 0) /\ Len(html) - 0 = 0
    OBVIOUS
  <2>2. Enter(0, TRUE, e)
    BY <1>1, <1>2, <2>1 DEF Begin, Placed
  <2>3. SubSeq(html, 1, 0) = <<>> /\ SubSeq(html, 0 + 1, Len(html)) = <<>> /\ Len(<<>>) = 0
        /\ Append(<<>>, e) = <<e>>
    OBVIOUS
  <2> QED
    BY <1>6, <2>1, <2>2, <2>3, Zenon DEF Enter
<1>9. TotalMargin(<<>>) = 0 /\ TotalAlign(<<>>) = 0
  <2>1. IsSeq(<<>>) /\ Len(<<>>) = 0 /\ 0 \in 0..0
    BY DEF IsSeq
  <2>2. SubSeq(<<>>, 0 + 1, 0) = <<>>
    OBVIOUS
  <2>3. TotalMargin(SubSeq(<<>>, 0 + 1, Len(<<>>))) = 0
    <3>1. \A j \in (0 + 1)..Len(<<>>) : <<>>[j].margin = 0
      BY <2>1
    <3> QED
      BY <2>1, <3>1, TotalMarginZero
  <2>4. TotalAlign(SubSeq(<<>>, 0 + 1, 0)) = 0
    <3>1. PICK A : A = [i \in 0..0 |-> 0]
      OBVIOUS
    <3>2. Sums(<<>>, A) /\ A[0] = 0
      BY <2>1, <3>1 DEF Sums
    <3>3. IntegerAlign(<<>>)
      BY <2>1 DEF IntegerAlign
    <3>4. TotalAlign(SubSeq(<<>>, 0 + 1, 0)) = A[0] - A[0]
      BY <2>1, <3>2, <3>3, TotalAlignIs
    <3> QED
      BY <3>2, <3>4
  <2> QED
    BY <2>1, <2>2, <2>3, <2>4
<1>10. pen' = <<0, 0>> /\ pen' \in Int \X Int /\ pen'[1] = pen[1] /\ pen'[2] = 0
  BY <1>4, <1>8, <1>9 DEF ElementIs
<1>11. PICK st, h : st = <<u>> /\ h = <<e>>
  OBVIOUS
<1>12. Len(st) = 1 /\ st[1] = u /\ Len(h) = 1 /\ h[1] = e
  BY <1>11
<1>13. Height(st, 1) = 1
  <2>1. ClosedBy(st, 1) = {}
    <3>1. \A q \in 1..1 : ~st[q].close
      BY <1>3, <1>12
    <3> QED
      BY <3>1 DEF ClosedBy
  <2>2. Cardinality(ClosedBy(st, 1)) = 0
    BY <2>1, FS_EmptySet, Zenon
  <2>3. Height(st, 1) = 1 + Cardinality(ClosedBy(st, 1))
    BY DEF Height
  <2> QED
    BY <2>2, <2>3
<1>14. MarginsOK(stack', html', negAt')
  <2>1. \A p \in 1..Len(st) : \A j \in (Height(st, p) + 1)..Len(h) : FALSE
    BY <1>12, <1>13
  <2> QED
    BY <1>7, <1>8, <1>11, <2>1 DEF MarginsOK
<1>15. OpenOK'
  <2>1. u.start = at /\ u.va = 0 /\ at \in Nat
    BY <1>3, StateFields DEF Starts
  <2>2. ElementOK(e)
    BY <1>4 DEF ElementIs
  <2> QED
    BY <1>7, <1>8, <1>11, <1>12, <2>1, <2>2 DEF OpenOK
<1>16. Aligned(Y)'
  <2>1. PICK A : A = [i \in 0..1 |-> 0]
    OBVIOUS
  <2>2. Sums(st, A) /\ Sums(h, A)
    BY <1>3, <1>4, <1>12, <2>1 DEF Sums, Starts, ElementIs
  <2>3. Near(st, A, A)
    <3>1. \A p \in 1..Len(st) : p = 1
      BY <1>12
    <3>2. Abs(A[1] - A[1]) <= VEps * (1 - 1)
      BY <2>1, TextLineAssumption DEF Abs
    <3> QED
      BY <1>13, <3>1, <3>2 DEF Near
  <2>4. A[Len(st)] = 0 /\ A[Len(h)] = 0 /\ k' - 1 = 1
    BY <1>12, <2>1
  <2>5. AlignedOK(A, A, Y)'
    BY <1>7, <1>8, <1>10, <1>11, <2>2, <2>3, <2>4 DEF AlignedOK
  <2> QED
    BY <2>5 DEF Aligned
<1> QED
  BY <1>5, <1>10, <1>14, <1>15, <1>16 DEF Begun

\* A state begins where the last one ended, on its own baseline.
LEMMA BeginStatePlaces == ASSUME IInv, IInv', PInv, BeginState PROVE PInv'
<1>1. /\ phase = "dump" /\ phase' = phase /\ k <= Len(line.states) /\ at = line.states[k].start
      /\ k' = k + 1 /\ LineUnchanged /\ param' = param
      /\ UNCHANGED <<done, dx, negAt, at, shown, line, asked>>
  BY DEF BeginState, inputVars, LineUnchanged
<1>2. LineType(line) /\ k \in 1..Len(line.states) /\ k \in Nat /\ at \in 0..Len(line.text)
      /\ Len(line.states) \in Nat
  BY <1>1 DEF IInv, LineType
<1>3. PICK s : s = line.states[k]
  OBVIOUS
<1>4. s \in State /\ s.start = at
  BY <1>1, <1>2, <1>3 DEF LineType
<1>5. PICK P, V, U, Y : Placing(P, V, U, Y)
  BY <1>1 DEF PInv
<1>6. /\ ReadOK /\ PenOK(P) /\ pen \in Int \X Int /\ tables.align \subseteq Int /\ CharsPlaced
      /\ k > 1 => OpenOK /\ MarginsOK(stack, html, negAt) /\ Aligned(Y)
      /\ k = 1 => pen = <<0, 0>>
  BY <1>1, <1>5 DEF Placing, PInv
<1>7. PICK p, va, align :
        /\ p = IF stack = <<>> THEN 0 ELSE Parent(s)
        /\ va = IF stack = <<>> THEN s.va ELSE AlignOn(s, p)
        /\ align = ClassFor(tables.align, va, VEps)
        /\ Begin(s, p, va, align)
  BY <1>3 DEF BeginState
<1>8. Begun(Y, align)
  <2>1. CASE k = 1 /\ Fresh
    <3>1. stack = <<>> /\ html = <<>>
      BY <2>1 DEF Fresh
    <3>2. s.va = 0 /\ Y[1] = 0
      <4>1. line.states # <<>>
        BY <1>2
      <4> QED
        BY <1>3, <1>5, <2>1, <4>1 DEF Placing, Baselines
    <3>3. p = 0 /\ va = 0 /\ k' = 2
      BY <1>1, <1>7, <2>1, <3>1, <3>2
    <3> QED
      BY <1>1, <1>4, <1>6, <1>7, <2>1, <3>1, <3>2, <3>3, BeginFirstPlaces
  <2>2. CASE Writing
    <3>1. Nested(stack, html) /\ stack # <<>>
      BY <2>2 DEF Writing, Nested
    <3>2. k > 1 /\ k - 1 \in 1..(Len(line.states) - 1) /\ k - 1 + 1 = k
      BY <1>2, <2>2 DEF Writing
    <3>3. Y[k] = Y[k - 1] + s.va
      <4>1. Y[k - 1 + 1] = Y[k - 1] + line.states[k - 1 + 1].va
        BY <1>5, <3>2 DEF Placing, Baselines
      <4> QED
        BY <1>3, <3>2, <4>1
    <3>4. OpenOK /\ MarginsOK(stack, html, negAt) /\ Aligned(Y)
      BY <1>6, <3>2
    <3>5. p = Parent(s) /\ va = AlignOn(s, p)
      BY <1>7, <3>1
    <3> QED
      BY <1>1, <1>2, <1>4, <1>6, <1>7, <3>1, <3>3, <3>4, <3>5, BeginNextPlaces
  <2> QED
    BY <1>1, <2>1, <2>2 DEF IInv, Phases
<1>9. tables'.align \subseteq Int
  <2>1. tables' = [tables EXCEPT !.align = @ \cup {align}] /\ align \in Int
    BY <1>7, <1>8 DEF Begin, Begun
  <2>2. DOMAIN tables = {"align", "space"}
    BY DEF IInv
  <2> QED
    BY <1>6, <2>1, <2>2
<1>10. ReadOK'
  BY <1>1, <1>6 DEF ReadOK
<1>11. PenOK(P)'
  <2>1. Due' = Due
    BY <1>1 DEF Due, OffsetDue
  <2> QED
    BY <1>1, <1>6, <1>8, <2>1 DEF PenOK, Begun
<1>12. CharsPlaced'
  BY <1>1, <1>6 DEF CharsPlaced
<1>13. k' # 1
  BY <1>1, <1>2
<1>14. OpenOK' /\ MarginsOK(stack', html', negAt') /\ Aligned(Y)' /\ pen' \in Int \X Int
  BY <1>8 DEF Begun
<1> QED
  BY <1>1, <1>5, <1>9, <1>10, <1>11, <1>12, <1>13, <1>14, WritingPlaces

\* What the browser advances for a character is what was counted for it.
LEMMA AdvanceTop ==
  ASSUME NEW s \in State, Nested(stack, html), DressedAs(Last(stack), s), NEW c \in Kinds,
         WS \in s.mask => c # SPACE
  PROVE  CharAdvance(c, Effective) = CharAdvance(c, s.ids)
<1>1. \A i \in HashIds \ s.mask : Effective[i] = s.ids[i]
  <2> TAKE i \in HashIds \ s.mask
  <2>1. i \in HashIds \ Last(stack).mask /\ Last(stack).ids[i] = s.ids[i]
    BY DEF DressedAs
  <2> QED
    BY <2>1, EffectiveTop
<1>2. s.mask \subseteq {WS}
  BY StateFields
<1>3. /\ SIZE \in HashIds /\ LS \in HashIds /\ WS \in HashIds /\ SIZE # WS /\ LS # WS
  BY DEF HashIds, FONT, SIZE, LS, WS
<1>4. Effective[SIZE] = s.ids[SIZE] /\ Effective[LS] = s.ids[LS]
  BY <1>1, <1>2, <1>3
<1>5. c = SPACE => Effective[WS] = s.ids[WS]
  BY <1>1, <1>3
<1>6. c \in {PAD, LETTER, SPACE}
  BY DEF Kinds
<1> QED
  BY <1>4, <1>5, <1>6 DEF CharAdvance, PAD, LETTER, SPACE

\* There is no gap between where the loop is and the offset that it has not read yet.
Between(os, d, a, e) ==
  /\ \A j \in 1..Len(os) : j <= d => os[j].start <= a
  /\ d < Len(os) => e <= os[d + 1].start
LEMMA NoGap ==
  ASSUME NEW os, os \in Seq(Offset), NEW U, NEW n \in Nat, Gapped(os, U, 0, n), NEW d \in 0..Len(os),
         NEW a \in Nat, NEW e \in Nat, e <= n, Between(os, d, a, e), NEW t \in Nat, a < t, t < e
  PROVE  U[t] = 0
<1>1. /\ \A i, j \in 1..Len(os) : i < j => os[i].start < os[j].start
      /\ \A j \in 1..Len(os) : os[j].start \in 0..n
  BY DEF Gapped
<1>2. t \in 0..n
  OBVIOUS
<1>3. U[t] = 0 \/ \E j \in 1..Len(os) : os[j].start = t
  BY <1>2 DEF Gapped
<1>4. ASSUME NEW j \in 1..Len(os), os[j].start = t PROVE FALSE
  <2>1. ~(j <= d)
    BY <1>4 DEF Between
  <2>2. d < Len(os) /\ d + 1 \in 1..Len(os) /\ (d + 1 = j \/ d + 1 < j)
    BY <2>1
  <2>3. os[d + 1].start \in Int /\ (d + 1 < j => os[d + 1].start < os[j].start)
    BY <1>1, <2>2
  <2>4. e <= os[d + 1].start
    BY <2>2 DEF Between
  <2> QED
    BY <1>4, <2>2, <2>3, <2>4
<1> QED
  BY <1>3, <1>4

\* The offsets before a point are read when the loop gets there.
LEMMA TextRead ==
  ASSUME LineType(line), ReadOK, at \in Nat, done \in Nat, NEW e \in Nat, at < e,
         \A i, j \in 1..Len(line.offsets) : i < j => line.offsets[i].start < line.offsets[j].start,
         done < Len(line.offsets) => e <= line.offsets[done + 1].start
  PROVE  \A j \in 1..Len(line.offsets) : /\ j <= done => line.offsets[j].start < e
                                         /\ j > done => e <= line.offsets[j].start
<1>1. line.offsets \in Seq(Offset) /\ Len(line.offsets) \in Nat
  BY DEF LineType
<1>2. \A j \in 1..Len(line.offsets) : line.offsets[j].start \in Nat
  BY <1>1, OffsetFields
<1> TAKE j \in 1..Len(line.offsets)
<1>3. CASE j <= done
  <2>1. line.offsets[j].start <= at
    BY <1>3 DEF ReadOK
  <2> QED
    BY <1>2, <1>3, <2>1
<1>4. CASE j > done
  <2>1. done < Len(line.offsets) /\ done + 1 \in 1..Len(line.offsets) /\ (done + 1 = j \/ done + 1 < j)
    BY <1>1, <1>4
  <2>2. done + 1 < j => line.offsets[done + 1].start < line.offsets[j].start
    BY <2>1
  <2> QED
    BY <1>2, <1>4, <2>1, <2>2
<1> QED
  BY <1>1, <1>3, <1>4

\* The pen is on the line of the state, off by v_eps for each state that is open.
LEMMA PenLine ==
  ASSUME NEW Y, Aligned(Y), Nested(stack, html), Len(stack) \in Nat, stack # <<>>, NEW n \in Nat,
         Len(stack) <= n, \A p \in 1..Len(stack) : stack[p].va \in Int
  PROVE  Abs(pen[2] - Y[k - 1]) <= VEps * (n - 1)
<1>1. PICK A, B : AlignedOK(A, B, Y)
  BY DEF Aligned
<1>2. PICK m : m = Len(stack)
  OBVIOUS
<1>3. m \in Nat /\ m \in 1..m /\ m <= n /\ Len(html) = Height(stack, m)
  <2>1. IsSeq(stack)
    BY DEF Nested
  <2>2. Len(stack) > 0
    BY <2>1, IsSeqFacts
  <2> QED
    BY <1>2, <2>2 DEF Nested
<1>4. A[m] = Y[k - 1] /\ pen[2] = B[Len(html)]
  BY <1>1, <1>2 DEF AlignedOK
<1>5. Abs(B[Height(stack, m)] - A[m]) <= VEps * (m - 1)
  BY <1>1, <1>2, <1>3 DEF AlignedOK, Near
<1>6. VEps * (m - 1) <= VEps * (n - 1) /\ VEps * (m - 1) \in Int /\ VEps * (n - 1) \in Int
  <2>1. PICK x : x = n - m
    OBVIOUS
  <2>2. x \in Nat /\ VEps \in Nat
    BY <1>3, <2>1, TextLineAssumption
  <2>3. VEps * x \in Nat
    BY <2>2
  <2>4. VEps * (m - 1) + VEps * x = VEps * (n - 1) /\ VEps * (m - 1) \in Int /\ VEps * (n - 1) \in Int
    BY <1>3, <2>1, <2>2
  <2> QED
    BY <2>3, <2>4
<1>7. /\ Sums(stack, A) /\ Sums(html, B) /\ Len(html) \in Nat
  <2>1. IsSeq(html)
    BY DEF Nested
  <2> QED
    BY <1>1, <2>1, IsSeqFacts DEF AlignedOK
<1>8. A[m] \in Int /\ B[Len(html)] \in Int
  <2>1. m \in 0..Len(stack) /\ Len(html) \in 0..Len(html)
    BY <1>2, <1>3, <1>7
  <2> QED
    BY <1>7, <2>1 DEF Sums
<1>9. Abs(pen[2] - Y[k - 1]) <= VEps * (m - 1) /\ pen[2] \in Int /\ Y[k - 1] \in Int
  BY <1>3, <1>4, <1>5, <1>8
<1>10. PICK x, y, z : x = VEps * (m - 1) /\ y = VEps * (n - 1) /\ z = pen[2] - Y[k - 1]
  OBVIOUS
<1>11. x \in Int /\ y \in Int /\ x <= y /\ z \in Int /\ Abs(z) <= x
  BY <1>6, <1>9, <1>10
<1>12. Abs(z) <= y
  BY <1>11 DEF Abs
<1> QED
  BY <1>10, <1>12

\* Each character is written where it goes, within what is still to be made up for.
LEMMA EmitTextPlaces == ASSUME IInv, IInv', PInv, EmitText PROVE PInv'
<1>1. /\ phase = "dump" /\ phase' = phase /\ k > 1 /\ k' = k /\ ~OffsetDue /\ at < StateEnd(k - 1)
      /\ LineUnchanged /\ param' = param
      /\ UNCHANGED <<stack, html, done, dx, negAt, tables, line, asked>>
  BY DEF EmitText, inputVars, LineUnchanged
<1>2. Writing /\ ShownOK /\ LineType(line) /\ StatesOK(line) /\ AskedOK(line, asked, covered)
  BY <1>1, AtWork
<1>3. /\ k - 1 \in 1..Len(line.states) /\ k \in Int /\ at \in Nat /\ done \in Nat /\ dx \in Int
      /\ line.states[k - 1].start <= at /\ Nested(stack, html) /\ at \in 0..Len(line.text)
      /\ done \in 0..Len(line.offsets) /\ Len(line.text) \in Nat /\ line.offsets \in Seq(Offset)
  BY <1>2 DEF IInv, Writing, LineType
<1>4. PICK P, V, U, Y : Placing(P, V, U, Y)
  BY <1>1 DEF PInv
<1>5. /\ ReadOK /\ PenOK(P) /\ OpenOK /\ MarginsOK(stack, html, negAt) /\ Aligned(Y)
      /\ pen \in Int \X Int /\ tables.align \subseteq Int /\ CharsPlaced
  BY <1>1, <1>4 DEF Placing, PInv
<1>6. /\ Path(line, P, V) /\ FreeOK(line) /\ AskedAt(line, asked, P, Y) /\ V = U
      /\ Gapped(line.offsets, V, 0, Len(line.text)) /\ V \in [0..Len(line.text) -> Int]
      /\ P \in [0..Len(line.text) -> Int]
  BY <1>1, <1>4 DEF Placing, GapsOK, Path
<1>7. \A i, j \in 1..Len(line.offsets) : i < j => line.offsets[i].start < line.offsets[j].start
  BY <1>6 DEF Gapped
<1>8. PICK end, ids, s : end = TextEnd /\ ids = Effective /\ s = line.states[k - 1]
  OBVIOUS
<1>9. /\ end \in Nat /\ at < end /\ end <= StateEnd(k - 1)
      /\ done < Len(line.offsets) => end <= line.offsets[done + 1].start
  BY <1>1, <1>2, <1>3, <1>8, TextEndIs
<1>10. StateEnd(k - 1) = EndOf(line, k - 1) /\ EndOf(line, k - 1) \in Nat
       /\ EndOf(line, k - 1) <= Len(line.text) /\ s.start \in Nat
  BY <1>2, <1>3, <1>8, EndOfType, StateEndIs
<1>11. end <= Len(line.text) /\ end \in 0..Len(line.text) /\ at \in 0..Len(line.text)
  BY <1>3, <1>9, <1>10
<1>12. at' = end /\ pen' = [pen EXCEPT ![1] = @ + Advance(at, end, ids)]
  BY <1>8 DEF EmitText, TextEnd
<1>13. \A t \in at..(end - 1) : t \in Segment(line, k - 1)
  BY <1>3, <1>8, <1>9, <1>10 DEF Segment
<1>14. \A t \in at..(end - 1) :
         /\ CharAdvance(line.text[t + 1], ids) \in Int
         /\ P[t + 1] = P[t] + CharAdvance(line.text[t + 1], ids) + V[t + 1]
  <2> TAKE t \in at..(end - 1)
  <2>1. t \in Segment(line, k - 1)
    BY <1>13
  <2>2. /\ line.text[t + 1] \in Kinds /\ s \in State
        /\ CharAdvance(line.text[t + 1], s.ids) \in Int
    BY <1>2, <1>3, <1>8, <2>1, SegmentFacts
  <2>3. WS \in s.mask => line.text[t + 1] # SPACE
    BY <1>3, <1>6, <1>8, <2>1 DEF FreeOK
  <2>4. DressedAs(Last(stack), s)
    BY <1>2, <1>8 DEF Writing
  <2>5. CharAdvance(line.text[t + 1], ids) = CharAdvance(line.text[t + 1], s.ids)
    BY <1>3, <1>8, <2>2, <2>3, <2>4, AdvanceTop
  <2>6. P[t + 1] = P[t] + CharAdvance(line.text[t + 1], s.ids) + V[t + 1]
    BY <1>3, <1>6, <1>8, <2>1 DEF Path
  <2> QED
    BY <2>2, <2>5, <2>6
<1>15. \A t \in Nat : at < t /\ t < end => V[t] = 0
  <2> SUFFICES ASSUME NEW t \in Nat, at < t, t < end PROVE V[t] = 0
    OBVIOUS
  <2>1. Between(line.offsets, done, at, end)
    BY <1>5, <1>9 DEF ReadOK, Between
  <2> QED
    BY <1>3, <1>6, <1>9, <1>11, <2>1, NoGap
<1>16. \A t \in at..end : P[t] \in Int /\ V[t] \in Int
  <2>1. \A t \in at..end : t \in 0..Len(line.text)
    BY <1>3, <1>9, <1>11
  <2> QED
    BY <1>6, <2>1
<1>17. ASSUME NEW t \in at..(end - 1)
       PROVE  Advance(at, t, ids) = P[t] - P[at]
  <2>1. t \in Nat /\ at <= t
    BY <1>3
  <2>2. \A u \in at..t : P[u] \in Int
    BY <1>3, <1>9, <1>16
  <2>3. \A u \in at..(t - 1) : /\ CharAdvance(line.text[u + 1], ids) \in Int
                               /\ P[u + 1] = P[u] + CharAdvance(line.text[u + 1], ids)
    <3> TAKE u \in at..(t - 1)
    <3>1. u \in at..(end - 1) /\ u + 1 \in Nat /\ at < u + 1 /\ u + 1 < end /\ u \in at..end
      BY <1>3, <1>9
    <3>2. V[u + 1] = 0
      BY <1>15, <3>1
    <3> QED
      BY <1>14, <1>16, <3>1, <3>2
  <2>4. Leading(line.text, P, at, t, ids)
    BY <2>2, <2>3 DEF Leading
  <2> QED
    BY <1>3, <2>1, <2>4, AdvanceIs
<1>18. Advance(at, end, ids) = P[end] - V[end] - P[at] /\ P[end] \in Int /\ V[end] \in Int /\ P[at] \in Int
  <2>1. PICK Q : Q = [t \in at..end |-> IF t = end THEN P[end] - V[end] ELSE P[t]]
    OBVIOUS
  <2>2. at \in at..end /\ end \in at..end /\ at # end
    BY <1>3, <1>9
  <2>3. P[end] \in Int /\ V[end] \in Int /\ P[at] \in Int
    BY <1>16, <2>2
  <2>4. Q[at] = P[at] /\ Q[end] = P[end] - V[end]
    BY <2>1, <2>2
  <2>5. \A t \in at..end : Q[t] \in Int
    BY <1>16, <2>1, <2>3
  <2>6. \A t \in at..(end - 1) : /\ CharAdvance(line.text[t + 1], ids) \in Int
                                 /\ Q[t + 1] = Q[t] + CharAdvance(line.text[t + 1], ids)
    <3> TAKE t \in at..(end - 1)
    <3>1. t \in at..end /\ t + 1 \in at..end /\ t # end /\ t + 1 \in Nat
      BY <1>3, <1>9
    <3>2. CharAdvance(line.text[t + 1], ids) \in Int
          /\ P[t + 1] = P[t] + CharAdvance(line.text[t + 1], ids) + V[t + 1]
      BY <1>14
    <3>3. Q[t] = P[t] /\ Q[t + 1] = IF t + 1 = end THEN P[end] - V[end] ELSE P[t + 1]
      BY <2>1, <3>1
    <3>4. P[t] \in Int /\ P[t + 1] \in Int /\ V[t + 1] \in Int
      BY <1>16, <3>1
    <3>5. CASE t + 1 = end
      <4>1. Q[t + 1] = P[t + 1] - V[t + 1]
        BY <3>3, <3>5
      <4> QED
        BY <3>2, <3>3, <3>4, <4>1
    <3>6. CASE t + 1 # end
      <4>1. V[t + 1] = 0
        <5>1. at < t + 1 /\ t + 1 < end
          BY <1>3, <1>9, <3>6
        <5> QED
          BY <1>15, <3>1, <5>1
      <4> QED
        BY <3>2, <3>3, <3>4, <3>6, <4>1
    <3> QED
      BY <3>5, <3>6
  <2>7. at <= end
    BY <1>3, <1>9
  <2>8. Advance(at, end, ids) = Q[end] - Q[at]
    <3>1. Leading(line.text, Q, at, end, ids)
      BY <2>5, <2>6 DEF Leading
    <3> QED
      BY <1>3, <1>9, <2>7, <3>1, AdvanceIs
  <2> QED
    BY <2>3, <2>4, <2>8
<1>19. PICK a, b \in Int : pen = <<a, b>>
  BY <1>5
<1>20. a + dx = P[at] /\ Abs(dx) <= HEps
  <2>1. Due = 0
    BY <1>1 DEF Due
  <2> QED
    BY <1>3, <1>5, <1>19, <2>1 DEF PenOK
<1>21. pen' = <<P[end] - V[end] - dx, b>> /\ pen' \in Int \X Int
  <2>1. a + (P[end] - V[end] - P[at]) = P[end] - V[end] - dx
    BY <1>3, <1>18, <1>19, <1>20
  <2>2. pen' = <<a + (P[end] - V[end] - P[at]), b>>
    BY <1>12, <1>18, <1>19
  <2>3. pen' = <<P[end] - V[end] - dx, b>>
    BY <2>1, <2>2
  <2>4. P[end] - V[end] - dx \in Int
    BY <1>3, <1>18
  <2> QED
    BY <1>19, <2>3, <2>4
<1>22. \A j \in 1..Len(line.offsets) : /\ j <= done => line.offsets[j].start < end
                                       /\ j > done => end <= line.offsets[j].start
  BY <1>2, <1>3, <1>5, <1>7, <1>9, TextRead
<1>23. ReadOK'
  <2>1. \A j \in 1..Len(line.offsets) : line.offsets[j].start \in Int
    <3>1. \A j \in 1..Len(line.offsets) : line.offsets[j] \in Offset
      BY <1>3
    <3> QED
      BY <3>1, OffsetFields
  <2> QED
    BY <1>1, <1>9, <1>12, <1>22, <2>1 DEF ReadOK
<1>24. PenOK(P)'
  <2>1. DueAt(line.offsets, done, end) = V[end]
    <3>1. /\ \A j \in 1..Len(line.offsets) : j <= done => line.offsets[j].start < end
          /\ \A j \in 1..Len(line.offsets) : j > done => end <= line.offsets[j].start
      BY <1>22
    <3> QED
      BY <1>3, <1>6, <1>11, <3>1, DueArrived
  <2>2. Due' = V[end]
    BY <1>1, <1>12, <2>1 DEF Due, OffsetDue, DueAt
  <2>3. pen'[1] = P[end] - V[end] - dx
    BY <1>21
  <2>4. pen'[1] + dx + V[end] = P[end]
    BY <1>3, <1>18, <2>3
  <2> QED
    BY <1>1, <1>12, <1>20, <2>2, <2>4 DEF PenOK
<1>25. IsSeq(stack) /\ stack # <<>> /\ Len(stack) \in Nat
  BY <1>3, IsSeqFacts DEF Nested
<1>26. Abs(pen[2] - Y[k - 1]) <= VEps * (Len(line.states) - 1)
  <2>1. /\ \A q \in 1..Len(stack) : stack[q].va \in Int
        /\ Len(stack) <= k - 1
    BY <1>5 DEF OpenOK
  <2>2. Len(line.states) \in Nat /\ Len(stack) <= Len(line.states)
    BY <1>2, <1>3, <1>25, <2>1 DEF LineType
  <2> QED
    BY <1>3, <1>5, <1>25, <2>1, <2>2, PenLine
<1>27. CharsPlaced'
  <2>1. ASSUME NEW i \in 1..Len(shown')
        PROVE  /\ Abs(shown'[i].x - asked[i].x) <= HEps
               /\ Abs(shown'[i].y - asked[i].y) <= VEps * (Len(line.states) - 1)
    <3>1. OldOrNew(i)
      BY TextShown
    <3>2. CASE i \in 1..Len(shown) /\ shown'[i] = shown[i]
      BY <1>5, <3>2 DEF CharsPlaced
    <3>3. CASE \E t : ShownAt(i, t)
      <4>1. PICK t : ShownAt(i, t)
        BY <3>3
      <4>2. /\ t \in at..(end - 1) /\ line.text[t + 1] # PAD /\ Count(line.text, t + 1) = i
            /\ shown'[i].x = pen[1] + Advance(at, t, ids) /\ shown'[i].y = pen[2]
        BY <1>8, <4>1 DEF ShownAt
      <4>3. asked[i].x = P[t] /\ asked[i].y = Y[k - 1]
        <5>1. t \in Segment(line, k - 1)
          BY <1>13, <4>2
        <5>2. AskedThere(asked[Count(line.text, t + 1)], P[t], Y[k - 1])
          BY <1>3, <1>6, <4>2, <5>1 DEF AskedAt
        <5> QED
          BY <4>2, <5>2 DEF AskedThere
      <4>4. shown'[i].x - asked[i].x = -dx
        <5>1. Advance(at, t, ids) = P[t] - P[at]
          BY <1>17, <4>2
        <5>2. P[t] \in Int
          <6>1. t \in at..end
            BY <1>3, <1>9, <4>2
          <6> QED
            BY <1>16, <6>1
        <5>3. shown'[i].x = a + (P[t] - P[at])
          BY <1>19, <4>2, <5>1
        <5> QED
          BY <1>3, <1>18, <1>19, <1>20, <4>3, <5>2, <5>3
      <4>5. Abs(-dx) <= HEps
        BY <1>3, <1>20 DEF Abs
      <4>6. shown'[i].y - asked[i].y = pen[2] - Y[k - 1]
        BY <4>2, <4>3
      <4> QED
        BY <1>26, <4>4, <4>5, <4>6
    <3> QED
      BY <3>1, <3>2, <3>3 DEF OldOrNew
  <2> QED
    BY <1>1, <2>1 DEF CharsPlaced
<1>28. OpenOK'
  <2>1. \A q \in 1..Len(stack) : stack[q].start \in Nat /\ stack[q].start <= at
    BY <1>5 DEF OpenOK
  <2>2. \A q \in 1..Len(stack) : stack[q].start <= end
    BY <1>3, <1>9, <2>1
  <2> QED
    BY <1>1, <1>5, <1>12, <2>2 DEF OpenOK
<1>29. pen'[2] = pen[2]
  BY <1>19, <1>21
<1>30. Aligned(Y)'
  BY <1>1, <1>5, <1>29, AlignedKept
<1>31. k' # 1 /\ MarginsOK(stack', html', negAt') /\ tables'.align \subseteq Int
  BY <1>1, <1>3, <1>5
<1> QED
  BY <1>1, <1>4, <1>21, <1>23, <1>24, <1>27, <1>28, <1>30, <1>31, WritingPlaces

\* A finished line has its characters where they are.
LEMMA ClosePlaces == ASSUME PInv, Close PROVE PInv'
<1>1. phase' = "closed" /\ UNCHANGED <<line, shown, asked, tables>>
  BY DEF Close, inputVars
<1> QED
  BY <1>1 DEF PInv, CharsPlaced

\* Nothing changes.
LEMMA StayPlaces == ASSUME PInv, UNCHANGED vars PROVE PInv'
<1>1. /\ UNCHANGED <<phase, param, line, k, done, newOffsets, stack, dx, negAt, at, tables, html>>
      /\ UNCHANGED <<pen, shown, asked, askedPen>>
  BY DEF vars
<1>2. CharsPlaced' /\ tables'.align \subseteq Int
  BY <1>1 DEF PInv, CharsPlaced
<1>3. ASSUME NEW P, NEW V, NEW U, NEW Y, Placing(P, V, U, Y) PROVE Placing(P, V, U, Y)'
  <2>1. GapsOK(U, V)' /\ ParamOK'
    BY <1>1, <1>3 DEF Placing, GapsOK, ParamOK, Settled, StateEnd
  <2>2. phase' = "fill" => FillingOK(P, Y)'
    BY <1>1, <1>3 DEF Placing, FillingOK
  <2>3. phase' = "dump" => ReadOK' /\ PenOK(P)'
    BY <1>1, <1>3 DEF Placing, ReadOK, PenOK, Due, OffsetDue
  <2>4. phase' = "dump" /\ k' > 1 => OpenOK' /\ MarginsOK(stack', html', negAt') /\ Aligned(Y)'
    <3>1. OpenOK => OpenOK'
      BY <1>1 DEF OpenOK
    <3>2. Aligned(Y) => Aligned(Y)'
      BY <1>1 DEF Aligned, AlignedOK
    <3> QED
      BY <1>1, <1>3, <3>1, <3>2 DEF Placing
  <2> QED
    BY <1>1, <1>3, <2>1, <2>2, <2>3, <2>4 DEF Placing
<1> QED
  BY <1>1, <1>2, <1>3 DEF PInv

\* A line that is empty has no places.
LEMMA InitPlaces ==
  ASSUME \A p \in Params : ~(p[1] /\ p[2]), Init
  PROVE  PInv
<1>1. /\ phase = "fill" /\ line = [text |-> <<>>, states |-> <<>>, offsets |-> <<>>]
      /\ k = 1 /\ tables = [align |-> {}, space |-> {}] /\ param \in Params
      /\ pen = <<0, 0>> /\ shown = <<>> /\ askedPen = <<0, 0>>
  BY DEF Init
<1>2. /\ line.text = <<>> /\ line.states = <<>> /\ line.offsets = <<>> /\ tables.align = {}
  BY <1>1
<1>3. Len(line.text) = 0 /\ Len(line.states) = 0 /\ Len(line.offsets) = 0 /\ Len(shown) = 0
  BY <1>1, <1>2
<1>4. (\A i \in 1..Len(line.states) : FALSE) /\ (\A j \in 1..Len(line.offsets) : FALSE)
      /\ (\A t \in 1..Len(line.text) : FALSE) /\ (\A i \in 1..Len(shown) : FALSE)
  BY <1>3
<1>5. PICK P : P = [t \in 0..0 |-> 0]
  OBVIOUS
<1>6. P \in [0..Len(line.text) -> Int] /\ P[0] = 0
  BY <1>3, <1>5
<1>7. Path(line, P, P)
  BY <1>4, <1>6 DEF Path
<1>8. Baselines(line, <<>>)
  <2>1. \A i \in 1..(0 - 1) : FALSE
    OBVIOUS
  <2>2. <<>> \in [1..0 -> Int]
    OBVIOUS
  <2> QED
    BY <1>2, <1>3, <2>1, <2>2 DEF Baselines
<1>9. AskedAt(line, asked, P, <<>>) /\ FreeOK(line)
  BY <1>4 DEF AskedAt, FreeOK
<1>10. GapsOK(P, P)
  <2>1. \A t \in 0..Len(line.text) : P[t] = 0
    BY <1>3, <1>6
  <2> QED
    BY <1>1, <1>4, <1>6, <2>1 DEF GapsOK, Gapped
<1>11. ParamOK
  <2>1. param \in BOOLEAN \X BOOLEAN
    BY <1>1, TextLineAssumption
  <2>2. ~(param[1] /\ param[2])
    BY <1>1
  <2> QED
    BY <1>1, <1>4, <2>1, <2>2 DEF ParamOK
<1>12. FillingOK(P, <<>>)
  <2>1. askedPen[1] = P[Len(line.text)] /\ askedPen[2] = 0
    BY <1>1, <1>3, <1>6
  <2> QED
    BY <1>2, <1>4, <2>1 DEF FillingOK, Follows
<1>13. Placing(P, P, P, <<>>)
  BY <1>1, <1>7, <1>8, <1>9, <1>10, <1>11, <1>12 DEF Placing
<1>14. CharsPlaced
  BY <1>4 DEF CharsPlaced
<1> QED
  BY <1>2, <1>13, <1>14 DEF PInv

-----------------------------------------------------------------------------
(* What holds of every line.                                               *)

\* The three countings agree in every state: what is open matches the states
\* it was opened for, and what is shown is the part of the text already read.
THEOREM Invariant == Spec => []IInv
<1>1. Init => IInv
  BY InitInv
<1>2. IInv /\ [Next]_vars => IInv'
  <2> SUFFICES ASSUME IInv, [Next]_vars PROVE IInv'
    OBVIOUS
  <2>1. CASE Fill
    BY <2>1, FillStep
  <2>2. CASE EndFill
    BY <2>2, EndFillStep
  <2>3. CASE OptimizeState
    BY <2>3, OptimizeStep
  <2>4. CASE EndOptimize
    BY <2>4, EndOptimizeStep
  <2>5. CASE Prepare
    BY <2>5, PrepareStep
  <2>6. CASE BeginState
    BY <2>6, BeginStateStep
  <2>7. CASE EmitOffset
    BY <2>7, EmitOffsetStep
  <2>8. CASE EmitText
    BY <2>8, EmitTextStep
  <2>9. CASE Close
    BY <2>9, CloseStep
  <2>10. CASE Closed \/ UNCHANGED vars
    BY <2>10, StayStep DEF Closed
  <2> QED
    BY <2>1, <2>2, <2>3, <2>4, <2>5, <2>6, <2>7, <2>8, <2>9, <2>10 DEF Next
<1> QED
  BY <1>1, <1>2, PTL DEF Spec

\* The loops of dump_text and optimize_normal stay inside the text, the states
\* and the offsets of the line, and only word space is ever left free.
THEOREM TypeCorrect == Spec => []TypeOK
<1>1. ASSUME IInv PROVE TypeOK
  <2>1. line.text \in Seq(Kinds) /\ line.states \in Seq(State) /\ Len(line.text) \in Nat
        /\ Len(line.states) \in Nat
    BY <1>1 DEF IInv, LineType
  <2>2. Len(line.states) <= MaxChars
    <3>1. CASE Len(line.states) = 0
      BY <3>1, TextLineAssumption
    <3>2. CASE Len(line.states) # 0
      <4>1. Len(line.states) \in 1..Len(line.states)
        BY <2>1, <3>2
      <4>2. line.states[Len(line.states)] \in State
        BY <2>1, <4>1
      <4>3. line.states[Len(line.states)].start \in Nat
        BY <4>2 DEF State
      <4>4. /\ Len(line.states) - 1 <= line.states[Len(line.states)].start
            /\ line.states[Len(line.states)].start < Len(line.text) /\ Len(line.text) <= MaxChars
        BY <1>1, <4>1 DEF IInv, StatesOK
      <4> QED
        BY <2>1, <4>3, <4>4, TextLineAssumption
    <3> QED
      BY <3>1, <3>2
  <2>3. k \in 1..(MaxChars + 1)
    BY <1>1, <2>1, <2>2, TextLineAssumption DEF IInv
  <2>4. ASSUME NEW i \in 1..Len(line.states) PROVE line.states[i].mask \subseteq {WS}
    <3>1. line.states[i] \in State
      BY <2>1
    <3> QED
      BY <3>1 DEF State
  <2> QED
    BY <1>1, <2>1, <2>3, <2>4 DEF IInv, Phases, TypeOK, Kinds
<1> QED
  BY <1>1, Invariant, PTL

\* Every character is shown in the font and size of its own state, and hidden
\* exactly when it is covered, whatever parent the lossy hash chooses.
THEOREM StyledAsAppended == Spec => []CharsStyled
<1>1. IInv => CharsStyled
  BY DEF IInv, ShownOK
<1> QED
  BY <1>1, Invariant, PTL

\* When dump_text returns, every character has been written and every element
\* it opened is closed.
THEOREM WrittenWhole == Spec => []LineWhole
<1>1. ASSUME IInv PROVE LineWhole
  <2>1. phase = "closed" => html = <<>> /\ at = Len(line.text)
    BY <1>1 DEF IInv, Phases
  <2>2. Len(shown) = Count(line.text, at) /\ Len(asked) = Count(line.text, Len(line.text))
    BY <1>1 DEF IInv, ShownOK, AskedOK
  <2> QED
    BY <2>1, <2>2 DEF LineWhole
<1> QED
  BY <1>1, Invariant, PTL

\* However a line is optimized and its states are nested, each character is shown
\* within h_eps of where it was appended and within v_eps for each state of its
\* baseline, for every line and every way of reusing classes, as long as
\* optimize_text and space_as_offset are not both set.
THEOREM PlacedAsAppended ==
  ASSUME \A p \in Params : ~(p[1] /\ p[2])
  PROVE  Spec => []CharsPlaced
<1>1. Init => PInv
  BY InitPlaces
<1>2. IInv /\ IInv' /\ PInv /\ [Next]_vars => PInv'
  <2> SUFFICES ASSUME IInv, IInv', PInv, [Next]_vars PROVE PInv'
    OBVIOUS
  <2>1. CASE Fill
    BY <2>1, FillPlaces
  <2>2. CASE EndFill
    BY <2>2, EndFillPlaces
  <2>3. CASE OptimizeState
    BY <2>3, OptimizePlaces
  <2>4. CASE EndOptimize
    BY <2>4, EndOptimizePlaces
  <2>5. CASE Prepare
    BY <2>5, PreparePlaces
  <2>6. CASE BeginState
    BY <2>6, BeginStatePlaces
  <2>7. CASE EmitOffset
    BY <2>7, EmitOffsetPlaces
  <2>8. CASE EmitText
    BY <2>8, EmitTextPlaces
  <2>9. CASE Close
    BY <2>9, ClosePlaces
  <2>10. CASE Closed \/ UNCHANGED vars
    BY <2>10, StayPlaces DEF Closed
  <2> QED
    BY <2>1, <2>2, <2>3, <2>4, <2>5, <2>6, <2>7, <2>8, <2>9, <2>10 DEF Next
<1>3. PInv => CharsPlaced
  BY DEF PInv
<1> QED
  BY <1>1, <1>2, <1>3, Invariant, PTL DEF Spec
=============================================================================
