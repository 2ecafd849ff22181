# A formal model of PDFprocessor

PDFprocessor turns PDF files into text in two stages. `src/pdf2htmlEX` (C++, over
Poppler) converts a PDF into HTML whose text layer lies over an image of everything
that is not text, and ships a JavaScript viewer for the result. The Java program under
`src/src/main/java` drives that conversion, parses the HTML, removes duplicated text,
brings the texts of each page into reading order with an external cluster program, and
writes text files. This directory holds TLA+ specifications of the parts of the system
where the order of events, the agreement between components, or failures decide whether
the result is right; TLC configurations that check them on small instances; and TLAPS
proofs of the main safety properties for all values of the constants.

`PROJECT.json` is the index: which definition models which lines, which configuration
checks which property, which deliberately wrong variant of a definition each property
detects, and which hazard each property is about.

Paths below are relative to `src/pdf2htmlEX/src/` (C++), `src/src/main/java/` (Java), or
are `src/pdf2htmlEX/share/pdf2htmlEX.js.in` (the viewer).

## 1. Inventory

| Component | State | Operations | Hard about it |
|---|---|---|---|
| Covered text detector (`CoveredTextDetector.cc`, `util/math.cc`) | boxes of the page's characters, a flag "covered" for each | `reset`, `add_char_bbox`, `add_char_bbox_clipped`, `add_non_char_bbox` | a recursion on the data; each covered character becomes a graphic in the middle of the drawing order |
| Two-pass page rendering (`HTMLRenderer/general.cc`, `text.cc`, `DrawingTracer.cc`, `BackgroundRenderer/*`, `HTMLTextPage.cc`) | detector, text lines, a character count for each background renderer | `startPage`, `drawString`, graphics callbacks, `endPage`, `render_page`, `drawChar`, `dump_text` | two interpretations of one page agree only by counting; settings combine; an SVG background may be thrown away and redone |
| CSS class tables (`StateManager.h`) | map from values to class ids | `install`, `dump_css` | values within a tolerance share a class; names are written while the table grows |
| Text lines and spans (`HTMLTextLine.cc`, `HTMLState.h`) | offsets, states, a stack of open spans | `append_*`, `optimize_*`, `dump_text`, `State::begin` | rounding drift of offsets; choice of the span to nest in |
| Text state tracking (`HTMLRenderer/state.cc`) | current font, matrix, position, change flags | `update*`, `check_state_change`, `prepare_text_line` | which flag forces a new line, a new state, or an offset |
| Page output and temporary files (`general.cc`, `TmpFiles.cc`) | open streams, list of files, sizes | `process`, `pre_process`, `post_process`, `embed_file` | size limit, split pages, clean-up after failure |
| Fonts, forms, links, outline (`font.cc`, `form.cc`, `link.cc`, `outline.cc`, `Preprocessor.cc`, `util/ffw.c`) | tables of used codes and fonts | conversion through FontForge | external libraries |
| Command line and utilities | none that lasts | parsing, encoding, formatting | - |
| Browser viewer | pages (loaded, shown, scale), one semaphore for each page being loaded, requests, timers | `load_page`, `render`, `schedule_render`, `rescale`, `scroll_to`, `navigate_to_dest` | asynchronous answers, timers, and a reader who does not wait |
| HTML to text (`htmlParser/*`) | texts of a page, output files | `DomParser`, `sortTextAndRemoveDuplicateContent`, `HtmlToTextProcessor`, `ContentFileWriter`, `FolderWalker` | a comparison that is not an order; unchecked exceptions in a batch that is simply run again |
| Cluster analysis (`clusterAnalysis/*`) | cluster tree, groups | `readGTRFile`, `parseGTR`, `serializePageUsingHierarchical` | the tree comes from an external program that may fail and leave an old file |
| PDF conversion driver (`pdf2htmlConvertor/*`, `Utils/FileFilter.java`) | a child process and two pipes | `runSystemCommand` | waiting before reading |
| XML parser and sentence aligner (`xmlParser/*`, `sentenceAligner/*`) | page files written and read back | `SentenceAligner`, `ParseOutputFile` | the reader must find exactly what the writer wrote |
| Font converters (`fontConverter/*`) | none | table-driven replacement | cutting long texts into chunks |
| `htmlParserGandhi`, `tokeniser`, FontForge and other vendored code | - | - | older variant, script, third party |

How they interact: Poppler calls `HTMLRenderer` for each page; its `drawString` and
graphics callbacks feed the `DrawingTracer`, which calls the detector; `endPage` runs a
background renderer, which asks the detector for verdicts by counting characters, and
then has `HTMLTextPage` dump the lines, which ask by position; class names come from the
state managers and are defined at the end by `dump_css`. The viewer reads the result in
a browser. The Java program starts pdf2htmlEX and the cluster program as child
processes, and exchanges files with both.

What makes each component correct:

- detector: between two reports no text lies under anything the background paints later;
  nothing is moved to the background without need; the recursion ends;
- rendering: each character is visible in exactly one layer, on every page;
- class tables: a name written once keeps one meaning, close to the value asked for;
- viewer: no page fetched twice, one zoom, and in the end the visible pages are shown;
- HTML to text: no text lost or repeated but for duplicates, in reading order; output
  files never mix runs and a run leaves no gap;
- driver: a command returns with all its output;
- text state: each string has in the HTML the place, style and clip region it has in the
  PDF, however many changes were reported, merged or not reported before it;
- lines and spans: whatever is optimised and however spans nest, each character is shown
  in its own style, within the tolerance of its place;
- page output: nothing the output refers to is missing, and nothing temporary is left.

The hazards of the code - where each of these could go wrong in a way a test would
hardly reach - are listed at their lines in `PROJECT.json`.

## 2. Modules

| Module | Models | Extends / instantiates |
|---|---|---|
| `BBox` | `bbox_intersect` | - |
| `PaintLayers` | abstract page: a background under a text layer | `BBox` |
| `CoveredTextDetector` | the detector, recursion unfolded | `BBox`, instantiates `PaintLayers` |
| `TextVisibility` | the two passes over a page | instantiates `CoveredTextDetector` |
| `StateManager` | `StateManager<double>::install` | - |
| `Viewer` | the viewer's event handlers | - |
| `PageText` | comparison, sort, duplicates, cluster tree | - |
| `HtmlToText` | the batch over a folder | `PageText` |
| `SystemCommand` | `runSystemCommand` and its child | - |
| `TextState` | `state.cc`, `drawString`, the lines and clips of a page | - |
| `TextLine` | one `HTMLTextLine`, from its first character to its closed element | - |
| `PageOutput` | the files of one conversion | - |
| `MC...` | constants for TLC | the module they are named after |
| `...Proofs` | theorems (those about `SystemCommand` stand in `HtmlToTextProofs`) | the module they are named after |

### CoveredTextDetector

`char_bboxes` and `chars_covered` are the fields of the class. `hidden` and `graphics`
remember what the code forgets: which characters the clip path removed altogether, and
which boxes were reported and when. `calls` is the stack of activations of
`add_non_char_bbox`, each with its box, its index and its loop variable; `Skip`,
`CoverAndRecurse` and `Return` are one step of the loop. A report is accepted only with
an empty stack, as the code runs in one thread.

`PaintLayers` is what the detector promises: characters may be moved to the background
in any order, but only if something painted later overlaps them, and the next item is
accepted when no move is needed. `ImplementsPaintLayers` states that the detector
implements it; the variables have the same names, so the mapping is the identity and
`calls` is hidden.

### TextVisibility

One page after another (`startPage`, `endPage`, `ClosePage`). In the HTML pass the page
is chosen item by item: text, a space that becomes an offset, text with a clipping render
mode, text of a font that is shown as an image, graphics - each with a box and a place in
the clip path. `DrawText` does what `drawString` does: the line gets the item, the tracer
reports it. In the background pass `Paint` gives the same items to the renderer, whose
`drawn_char_count` is the index it passes to `is_char_covered`; in fallback mode and for a
proof (`--proof`) it paints every character and counts none. `FallBack` is the SVG
thrown away for its node count and painted again as a bitmap. `dump_text` finds the
verdicts by `first_char_index` plus position. Nothing in the model identifies a character
across the passes, exactly as in the code: the correspondence is what is checked.

### StateManager

`value_map` is the map; `lower_bound(v - eps)` is the least key not below its argument,
and only that key is compared. `emitted` remembers the names handed out with the values
they were asked for. Values are integers: rounding is outside the model.

### Viewer

A step is one run of the event loop. `loaded`, `shown` and `cur_scale` are the fields of
`Page`; `pages_loading` holds the semaphores; `requests` the XHRs in flight with the
callbacks they carry; `prefetches` and `render_timer` the timers. The layout is
abstracted to the page at the top of the container and to how many pages around it are
nearly visible at a zoom (`Reach`). A zoom keeps the point under the wheel in place, so
another page near it may come to the top. A zoom of 1 is the original scale of a page; a
page that has not arrived has the zoom of its frame. The reader scrolls, turns pages, zooms and follows
links at any moment; answers arrive in any order, as errors, or never.

### PageText and HtmlToText

`compareTo` compares y, then x, with coordinates up to 6 apart equal, so it is not
transitive; `Sorted` is therefore the algorithm of `Collections.sort` for short lists,
binary insertion, and not just "a sorted permutation". `removeDuplicates` is the loop of
`Page.java` with its two indices as a recursive function, and `Without` takes out what it
marked. `Subtrees` is `recurseTree`:
what each subtree adds to the groups, and the points it hands to its parent; the
empty sequence stands for null. `HtmlToText` is the batch: `Open` (parse, then empty the
output), `PreparePage`, `Cluster`, `Serialize`, `WritePage`, `Close`, for each page of
each file. An output that cannot be opened is passed over without a word
(`ContentFileWriter.java:34-40`): the writer stays null, `writer` is `FALSE`, nothing of the
file is written, and the file is in `unopened`; the old output stays, or is empty if the
failure came after the file was truncated. `PrintWriter` drops the exceptions of writing:
any pieces of what it was given may then be in the file, closed or not (`Damaged`,
`damaged`). `Abort` is an exception nobody catches: the writer is not closed, and any
prefix of what it was given may be on disk. It happens when a file cannot be read
(`OpenFails`, before its output is touched), when a text lacks a class (`PrepareFails`),
when the tree is missing, empty or refers to texts the page does not have (`Serialize`),
or when the process is killed (`Kill`). A folder is checked together with the layout of
its first page (`FirstLayouts`); the other pages choose from fewer (`Layouts`). `ClusterFails` is the
cluster program failing:
its exit code is ignored, and the tree found on disk is any an earlier run may have left,
or none. `Rerun` starts the program again over the same folders. Pages count as on disk
when any part of them is.

### SystemCommand

`Exec`, `WaitFor`, `ReadLines` and `Return` are the lines of `runSystemCommand`; the
child, its two streams and the pipes of limited capacity are external.

### TextState

Three views of the text are kept side by side. `gfx` is the state of the PDF (external):
the operators `Td`, `Tm`, `cm`, `Tf`, `q`, `Q` and so on change it, and Poppler calls the
matching `update*`. `r` is what the renderer remembers, brought up to date only when the
next string is drawn; `changed` are its `*_changed` flags. `page` is what has been
written: the lines, the clip regions with the line each starts at, and the `pen`, which is
where a reader of the HTML has got to. `Show` is `drawString`: `Compared` and
`CheckStateChange` are the comparison in its order, with the three outcomes (nothing, a
new state, a new line) and the merging of a move into an offset; `PrepareTextLine` acts
on it, `DrawnAlong` moves the position. `Restore` is `Q`, which Poppler reports as
"everything changed"; `NextPage` ends a page and resets as `startPage` does. `shown` and
`meant` are the last string as the HTML has it and as the PDF has it; the properties
compare the two. `adrift` remembers what the code forgets: that a string was left to the
background since the last positioning (`text`), and whether the open line is off because it
began after one, or because an offset was appended for a text matrix with another
translation under horizontal scaling (`line`, `Misjudged`). `Fallback` is `--fallback`, under
which colours are not compared and text stays transparent (`Colour`).

### TextLine

A line goes through the phases of its life: `Fill` (`append_offset`, `append_state`,
`append_unicodes` or `append_padding_char`, as `drawString` calls them), `OptimizeState`
(`optimize_normal`, for `optimize_text` 1, one state at a time; `PassedOffsets` is where its iterators over
the
offsets stand), `Prepare` (hashes and class ids), then
`dump_text` as `BeginState` (the parent is chosen and the span begins), `EmitOffset` and
`EmitText`, and `Close`. `line` holds the
text, the states and the offsets; `stack` the states whose spans are open; `dx` what
rounding has left over; `negAt` the place of the last negative margin. `tables` are the
class tables of vertical alignment and white space, which grow by the rule that
`StateManager` checks. The browser is external: `html` is its stack of elements and `pen`
its position, from which `shown` is collected; `asked` is what the filling asked for.
`hash()` is modelled as lossy: `HashClasses` ids are told apart, the rest collide.

### PageOutput

A file is `<<directory, kind, number>>`; `disk` is the set that exists, `tmp_files` the
set `TmpFiles` has registered, `refCount` the counts of dumped bitmaps, `refs` which
output refers to which file. The program starts in `main` with the temporary directory
made: `Refuse` is a document given up before there is a renderer
(`pdf2htmlEX.cc:386, 408, 414`), `Process` the construction of the renderer, from where on
destructors clean up. `pre_process`, `StartPage`, `install_font`, `BeginEndPage`,
`RenderSvg`, `RenderBitmap`, `EndPages` (all pages, or the size limit) and `post_process`
follow `HTMLRenderer::process`. `RenderSvg` has three ends: an error, an SVG with too many
nodes (registered as temporary, and `RenderBitmap` follows), and an SVG that is kept and
counts its bitmaps once for each time the page draws them (`bitmaps_in_current_page` is a
vector, `draws` how often it lists each). Dumping a bitmap may fail without notice
(`lost`): the SVG refers to it all the same, and later pages do not try again.
`post_process` also copies the program's own CSS, JavaScript and images beside the main
file unless they are embedded (`DataFiles`). `Throw` may follow at each step in which the code throws;
`CleanUp`
is the destructors in the order of the members: bitmaps with no count are registered,
then everything registered is removed. `FontAborts` is the `exit` of the font library. The
SVGs of Type 3 glyphs (`font.cc:234-235`) are one file with the raw font, as they are
registered and written with it; the files that only `--debug` writes are left out.

## 3. Runs

| Run | Instance | Shows |
|---|---|---|
| `state_manager` | values 0..7, tolerance 2 | every order of installations keeps classes separated, numbered without gaps, and faithful to the names already written |
| `covered_text_detector` | 4 characters, 1 graphic, 3 boxes in a chain | no text under anything painted later; the recursion descends and returns; `PaintLayers` is implemented |
| `text_visibility` | 2 pages of 3 items, 2 boxes, all settings that change the path | each character is in exactly one layer; text hides nothing drawn over it |
| `clipping_text` | the same with text that clips | a statement of the documentation that does not hold (section 6) |
| `viewer` | 3 pages, 2 zooms, 2 reader actions, 1 failure | no page fetched twice, one zoom, and the view settles |
| `viewer_exact` | 3 pages, 1 action | a comment in the viewer that does not hold |
| `html_to_text` | 2 files of up to 2 pages, 3 runs; the first page of up to 3 texts on 5 places, all cluster trees | an output file holds one run's pages, in order unless its writer failed; no gap but where an output fails; what sorting, duplicate removal and clustering keep, in which order |
| `system_command` | pipes of 2, up to 3 units on each stream | the command returns, with all its output, exactly if each stream fits |
| `text_state` | 2 pages of up to 5 operators | each string is shown how and inside which clip region the PDF has it, and where, unless it is adrift |
| `text_in_place` (violation) | 1 page of up to 5 operators | under horizontal scaling the offset for a translated text matrix is too short |
| `text_line` | 4 characters, 3 styles, 2 offsets, 3 settings | nested spans show each character where and how it was appended |
| `page_output` | 3 pages, 2 bitmaps drawn up to twice a page, 1 font, 128 settings | nothing referred to was cleaned away; nothing temporary remains, wherever the program throws once there is a renderer |

Why the bounds are enough to show the interesting cases:

- detector: a chain of two coverings needs three boxes, and a fourth character puts one
  before and one between; a graphic at each position starts it. The three boxes include
  one given by opposite corners, and two that do not overlap each other. The theorems
  remove the bounds;
- visibility: a shift of the count by one shows on the next character of the page; a
  count or verdict not reset shows on the second page; three items give a character, one
  that covers it, and one that is classified differently;
- class tables: three classes fit into 0..7 with a tolerance of two, with values that
  are near two of them;
- viewer: with three pages and a reach of one or two there are pages above and below,
  and all, some or none are nearly visible; two actions race each other and an answer;
- order within a page: the five places hold two texts in a row that are apart, one between them
  near to both (which breaks transitivity), one near to neither, and one below; three
  texts give every shape of nested and mixed joins;
- batch: two files and three runs let a run abort over a complete file, an incomplete
  one, or before either;
- text state: a wrong comparison needs a string, one or two changes (one of them undone or
  unreported) and a second string; with five operators there is room for `q` and `Q`
  around one of them, and the second page starts from what the first left. The moves
  include one along the line, one that shifts the baseline, one far away and one back;
  the matrices one that scales and one that translates. A string left to the background
  may do its harm later than that - in a line opened while the position is lost, after the
  text is positioned again -, which the theorem `Placed` covers;
- lines: two states and the one they return to exercise the search for a parent; the
  fonts 1 and 3 have one hash; offsets of -3 and 4 are rounded to a class with a rest
  of either sign, and a negative one sets `negAt`; a fourth character comes after all
  that. Both tolerances are 1, so that the least rest that must be handed on occurs;
- page output: a bitmap shared by two pages of which one throws its SVG away, and a page
  after it; two drawings on a page tell a count of drawings from one of pages. The settings that embed the
  CSS, the outline and the fonts only choose a
  directory for files that never meet, and are chosen together.

Deadlock checking is off where the system really stops: the batch when all runs are
used, the viewer when nothing is left to do, the pages when all are drawn, the text state
when its operators are used up, and the child process when it is stuck - which is the
point of that model. A finished line and a finished conversion take a step that changes
nothing, so that being stuck before the end would be reported.

### Fairness

`CoveredTextDetector` assumes that a call that was made runs (`WF` on the loop steps): it
is sequential code. `Viewer` assumes that the browser fires its timers and events and
that a request ends in some way; it does not assume that answers are good or that the
reader stops by himself (the bound on actions does that). `SystemCommand` assumes that
both processes are scheduled, not that the command is ever started.

## 4. Proofs

All theorems hold for every value of the constants under the named assumptions of the
modules, which only say that bounds and tolerances are naturals and values integers; the
set of boxes is not restricted at all. What a theorem assumes beyond them - no text that
clips, no horizontal scaling, not both of two settings - stands in its statement and below.

- `StateManagerProofs`: the types, separation, dense numbering and faithfulness form the
  inductive invariant together. The key lemma, `CandidateComplete`, shows that the one
  key `lower_bound` returns is within the tolerance whenever any key is; it rests on the
  fact that a finite set of integers has a least element. `ClassesAreStable` is the
  action property that no installation redefines a class.
- `CoveredTextDetectorProofs`: `NothingPaintedOverText` is not inductive, since it says
  nothing while a call is in progress. `IInv` adds `Pending` - a character that still lies
  under a background item is ahead of a call working for exactly that item - and
  `CallsOK`, which bounds indices and ties each call to such an item. From it follow the
  theorems about paint order, depth of recursion, and `Refinement`, that each step of the
  detector is a step of `PaintLayers` or a stutter.
- `TextVisibilityProofs`: a character has three numbers - its place among those the
  detector was told of, its place in the lines of the text layer, and the count of the
  background renderer. `IInv` states each as a function of the page: `TraceNo(n)` and
  `PaintNo(n)` count the items before `n` that the first and the second pass count.
  `Reported` ties the detector's flags, boxes and graphics to `TraceNo`, `LinesOK` ties
  each line's first index to it, and `LayersOK` says which items each layer holds, as far
  as the pass has got. The two counts differ exactly in text that clips, so `CharsOnce`
  and `OrderKept` assume that no such text occurs: with it both properties fail, as the
  run `clipping_text` shows for what the comment in the code promises. What holds with any
  text is `OnceBeforeClipping` and `OrderBeforeClipping`: up to the first text that clips
  the layers agree. `NothingPaintedOverText` of the detector gives the paint order; the
  module instantiates `CoveredTextDetectorProofs` and cites its invariant, and
  `DetectorRefinement` that the detector driven by the passes implements `PaintLayers`.
- `ViewerProofs`: `LoadedOnce` with the types of the three variables it speaks of is
  inductive; `ReaderTyped` adds those of the reader's position and the links for `TypeOK`. `LoadPages`
  covers all callers of `load_page`, `AnswerTaken` all answers.
  `ScaleUniform` needs only that an arriving page is rescaled before the step ends.
- `TextStateProofs`: the properties compare what was last shown with what was meant; to
  keep them, the renderer's copy must be known between strings. `Core` says: each part of
  the copy that is not marked is the PDF's (`MarksComplete`); the scaled font size is the
  font size times the matrix (`SizeScaled`); an open line has the style of the copy
  (`LineStyle`); without a line the clip region is the reset one and everything is marked
  (`NoLine`); and each line is governed by its own clip region, the last that starts at
  or before it (`ClipsOK`, `Governs`). `CallbackKeeps` covers all that Poppler reports;
  `PrepareFacts` says what `check_state_change` and `prepare_text_line` establish, on
  each of their paths, and `ShowKeeps` draws the conclusion. `Placed` states
  `PlaceKept`. On top of `Core`, `PlaceInv`
  says that the matrix stretches text upwards by the scale and along the line by the scale
  times the horizontal scaling (`Even`), so that every
  quotient in the comparison is exact (`ShiftIs`) unless the line is adrift; that the
  reader's pen is where the
  renderer has drawn up to (`PenAt`); and that the renderer's position is the PDF's unless
  a string was left to the background (`Following`). `CheckPlaces` names the three
  outcomes of a check - the line goes on, moves by an offset, or a new one is needed -,
  `PreparePlaces` carries the pen along each, and `WrittenIs` says that a character moves
  it as far as the PDF moves, whatever the word space applies to.
- `PageOutputProofs`: `Types` bounds the count of a bitmap by the drawings that the pages
  before can have had. `Opened` says which files exist while they are needed, a dumped
  bitmap being there unless its dump failed; `Files` accounts for each file on disk - it is
  registered, a part of the output, referred to, or a dumped bitmap that clean-up will
  register if nothing counts it; `RefsKept` says that what is referred to is never
  registered, and exists if it was ever written; `TmpOnly` that nothing but temporary files
  and SVGs thrown away are registered. `StepKeeps` reduces each step to what it adds; the
  last removal then follows from the three together.
- `HtmlToTextProofs`: `TypeOK` says that the buffer holds exactly the pages before the
  one at hand; with `OutputOfOneRun`, `NoGaps`, and what holds of the file at work (`Walking`: it is neither
  complete nor damaged, or has no writer and counts as unopened), it is inductive. `WrittenNext` and
  `WrittenFlushed` are the facts
  on sequences: what writing a page adds, and what a prefix of it is.
- `HtmlToTextProofs` also has `WholePages`, for pages of any length and every
  tree. A recursive definition is reasoned about by the least element of a set of
  numbers: `Recursion` (with `Steps` and `Descent`) says that it defines something,
  `InductFrom` what holds of all its values. `Lists(s, S)` - s has each element of S once -
  is kept by every operation: `SortedLists`, whatever the comparison answers, `WithoutLists`,
  `FlattenLists`, `SerializeLists`. For the tree, `Standing` is what has no parent after
  its first joins: each join takes two of them and leaves one more (`StandingNext`), so in
  the end only the root stands (`RootStands`), and a tree that can be read has no more
  leaves than the page has texts (`LeavesRead`). What stands shares out the texts of the
  leaves among them (`Shares`, `SubtreesHeld`): at the root one subtree has them all, as
  groups, or, when every join is close, as the points nobody uses (`ClosedPoints`).
  `Arranged`, the inductive invariant, says what the steps before `Serialize` leave.
- `OnlyDuplicatesDropped`, in the same module, is about the order and the duplicates.
  Binary search always finds a place, and among sorted texts the one after those the new
  text does not precede (`PlaceFound`). Where the comparison is an order of the texts
  (`Ordering`), sorting therefore leaves them in it (`InitialRunOrdered`,
  `InsertedOrdered`, `SortedLists`), and on a well spaced page it is one
  (`SpacedOrdering`). The removal marks all texts that duplicate their neighbour, and only
  ones that duplicate an earlier text (`DuplicatesMarked`); so from a text that is dropped
  a chain of duplicates goes back, at the latest to the first text, which stays
  (`ChainKept`), and of an ordered page no two that stay are duplicates (`LeftDistinct`).
  That positions are pairs of integers is an assumption of `HtmlToText`.
- `GroupsStandInOrder` is about the final order. Induction over the joins shows that each
  group is one text or the texts of a closed node, and that each closed node lies within
  one group (`MergedParts`, `ParseGathers`); two texts therefore belong together exactly
  if they are in the same group. The groups are written as blocks (`Blocks`,
  `FlattenBlocks`), so the texts of one stand together whatever their places are
  (`SerializeSettles`). On a well spaced page the comparison is a strict order of the
  texts that stay (`PreparedStrict`), hence also of the index nodes, which compare like
  the first texts they stand for (`BeforePlaces`); sorting a group twice leaves its first
  text where it is (`SameFirst`), and so the groups come in the order of their first texts
  (`SerializeGroups`). Off such pages only the first half is claimed, and only it holds.
- `HtmlToTextProofs` ends with the commands the program runs; it extends `SystemCommand`
  too, whose names begin with `Command` for that reason (`CommandTypeCorrect`,
  `CommandOnlyWhatFits`, `CommandWholeOutput`): conservation of output, and the order of
  ending, waiting and reading.
- `TextLineProofs`: every character is shown in the font and size of its own state
  (`StyledAsAppended`), and a finished line is whole (`WrittenWhole`), for every line, style
  and setting, and however many ids the hash confuses; and where it was appended, up to the
  tolerances (`PlacedAsAppended`). The invariant of the first two has three parts. The
  states cut the text into segments that are not empty (`StatesOK`), and the c-th character
  that was appended is the c-th entry of the text that is not padding, in the style of its
  segment (`AskedOK`): `DrawnSegments` and `DrawnAsked` for a character more,
  `RestyledKeeps` for the optimisation, which changes neither font nor size
  (`LetterSpacedType`, `WordSpacedType`). While the line is written, `Nested` says that the
  number of open elements is one more than that of the open states that opened one
  (`Height`), and that what the elements up to the one of a state leave in effect are the
  state's font and size. So whichever open state the search chooses, what remains after
  closing is what it expects (`NestedCut`), a child that opens an element sets each class
  in which it differs (`NestedPush`), and one that opens none differs in none
  (`NestedStay`). Letter and word spacing, margins and positions play no part in it. The text
  written at once is numbered by the least entries of a set of places (`Nth`,
  `NthCharacter`), which is why `TextLine` says it that way. That styles are integers is an
  assumption of `TextLine`.

  `PlacedAsAppended` needs an account of what is still owed (`PInv`). It says that there are
  places, gaps and baselines (`Path`, `Gapped`, `Baselines`) at which the characters were
  appended (`AskedAt`), and relates each phase to them. While the line is filled, the pen
  of the caller is at the last place (`FillingOK`); an offset moves only what follows the
  last character (`MovedGapped`). The optimisation changes letter and word space and the
  offsets of a state together, so that the places stay: a letter space smaller by some
  amount makes every gap of the segment larger by it (`Respelled`, and likewise for the
  spaces). While the line is written, the pen, what rounding left over (`dx`) and the offset
  that is due lead to the place of the next character (`PenOK`), so `dx` is all the error
  there is, and it is within `h_eps`. A negative margin moves an element and not a
  character: it must not be closed again, which is what the search for a parent stops at
  (`MarginsOK`). Baselines are a second account: those of the open elements are off those of
  the states by at most `v_eps` for each state they are nested in (`Near`). Sums are
  reasoned about without induction over data: a sum is what any running sum gains
  (`TotalIs`), by the least counterexample among the finitely many prefixes (`InductTo`),
  and that is why `TextLine` sums by a recursive function (`Total`). The theorem has one
  hypothesis, that no parameter sets `optimize_text` and `space_as_offset` both (section
  5); each alone, and neither, is covered.

Only model-checked:

- all liveness (`CallsReturn`, `Settles`, `FitsReturns`), which is out of the prover's
  reach.

## 5. Known limits of the models

- Coordinates are integers. The comparisons of rounded doubles in `StateManager.h` and
  `Text.java`, the comparisons up to `EPS` of `state.cc`, and `tm_transform_bbox`, are not
  covered. The tolerance of a class table can be missed by a rounding.
- `TextState` has matrices that scale and translate, with positive factors. Rotation,
  mirroring and negative font sizes are left out. Nothing constrains the runs: `PlaceKept`
  names the text it does not speak of, which is the text of a line in which a move changed
  the translation of the matrix under horizontal scaling (`Misjudged`, and the run
  `text_in_place`), and the next item.
- Text in fonts that are drawn as images does not move `cur_tx` (`text.cc:37-46`), so
  that text directly after it, without a new position, is misplaced; if a line begins
  there, what is written in that line stays off until the next one begins. `adrift` marks
  both, and `PlaceKept` does not speak of such text (section 6).
- In `TextLine`, `optimize_text` is 0 or 1, the values of the manual (`pdf2htmlEX.1.in:246`). The
  code also knows 3, for which `optimize_aggressive` is empty (`HTMLTextLine.cc:541-558`): it
  hands on no line, so all text of the page is lost. And `space_as_offset` and `optimize_text` are not set
  together: with both, a
  padding character takes part in the optimisation of spaces, although `HTMLTextLine.h:82-83`
  says it is ignored. Both are 0 unless they are asked for (`pdf2htmlEX.cc:181` and `183`),
  and `PlacedAsAppended` names the restriction. The vertical offset is rounded once for
  each state and the rest is lost, so `CharsPlaced` allows `v_eps` for each state, where the
  manual speaks of one "maximum tolerable vertical offset". The byte layout of `hash()` is
  abstracted to a collision, as only the choice of a parent depends on it.
- The branch of `HTMLTextPage::clip` that replaces a region no line has used is never
  taken, as a line follows each region; the model has it all the same.
- In `PageOutput` the size limit may end any page but the first. It never applies in the
  code with `--clean-tmp 0`, as nothing is registered then, which the manual
  (`pdf2htmlEX.1.in:154-158`) does not say; `get_total_size` (`TmpFiles.cc:51`) uses the
  result of a `stat` it does not check. A bitmap whose stream cannot be read or whose file
  cannot be opened (`CairoBackgroundRenderer.cc:300-302`) is referred to but never written:
  `RefsExist` excepts exactly those images. Writing other files does not fail half-way.
- A document that main refuses - the output directory cannot be made, it is broken, or may
  not be copied (`pdf2htmlEX.cc:386, 408, 414`) - leaves the temporary directory made at
  line 374 behind, as no renderer exists that would remove it. `OnlyOutputRemains` speaks of
  conversions that had a renderer.
- `FontAborts` ends the process in `util/ffw.c:39`, and the temporary directory stays
  behind, whatever `--clean-tmp` says. `OnlyOutputRemains` does not speak of it.
- `Viewer` has the page at the top and a place in it, not pixels: after a zoom any page near
  enough may be at the top.
- Whether an output could be opened or written is not told by the program, so `NoGaps`
  says only that no file is passed over for any other reason, and `OutputOfOneRun` that
  even a damaged file has pieces of one run.
- The second pass is given the same items as the first. Annotations, which the passes
  treat differently, depend on Poppler.
- The exception the JDK may throw for an inconsistent comparison needs 32 texts; it is
  an `Abort` like any other. `Sorted` is what the JDK does with up to 31 texts (an
  insertion sort); for longer pages, which it merges from such pieces, the theorems speak
  of the insertion sort.
- The cluster program is any tree over the texts. That a page whose joins are all close
  comes out empty is part of `PageWhole`; whether the program can produce such a tree
  depends on how it scales distances.
- `TextTest.java` expects `compareTo` to tell texts 3 apart from each other; with the
  tolerance of 6 they are equal. The model follows the code.
- `isMixedLanguage` (two output files for each input) is not modelled: the program's
  configuration switches it off.

## 6. Disagreements between code and documentation

Three have a run that finds them, and are quoted in `PROJECT.json`:

- `clipping_text`: text with a clipping render mode is drawn as an image and not counted
  by the background renderer, but is reported to the detector; from there on the two
  passes of the page disagree by one, and covered text can be lost from both layers.
- `viewer_exact`: the callback that should scroll to the exact position is dropped when
  the page is already on its way.
- `text_in_place`: the offset that is "to cancel the effect" of a changed text matrix
  (`state.cc:329`) is divided by the horizontal scaling even where the translation of the
  matrix changed, which is not scaled: the text after it falls short. With neither
  horizontal scaling nor text left to the background the run finds no such text.

Others follow from the text of the code, and have no run:

- A Type 3 string is said to have a block of its own, "such that it won't affect other
  text" (`state.cc:213-214`); but `drawString` leaves it out before it compares anything,
  its width is never added to the position, and the text that follows is shown where the
  string began. A line begun then stays displaced, as its start is taken from Poppler
  (`state.cc:508`) and its drawn position is not. `adrift` is exactly this.
- With `--process-nontext 0` covered text is made transparent and drawn nowhere
  (`HTMLRenderer/general.cc:224`; `TextVisibility` has the setting, and `EachCharOnce`
  speaks only of pages with a background; of the others `CoveredTextMoves` fails as it does
  of clipping text).
- Text of vertical and Type 3 fonts is said to cover like any graphic, but is never
  reported (`HTMLRenderer/text.cc:37`).
- A page that is already there stops the chain of prefetches
  (`pdf2htmlEX.js.in:375`), where line 59 promises a number of pages.
- The exit of the font library, and a document that is refused, contradict the manual's
  `--clean-tmp` (`pdf2htmlEX.1.in:293`).

## 7. Not modelled, and plan

Not modelled, and not to be:

- FontForge under `pdf2htmlEX/fontforge-pdf2htmlEX`, and the other vendored libraries.
  They are third-party code, and by far the larger part of the repository's lines: what
  is the project's own comes to some fifteen thousand. What the project's code relies on
  - that a font is converted, or the process ends - is an external action of `PageOutput`.
- Parsing of arguments, encodings, and formatting of CSS: sequential, and without state
  that outlives a call.
- `htmlParserGandhi` is an older copy of `htmlParser` with the same structure; the
  tokeniser is a script around a third-party program.

In this order, next:

1. `Matrix`: `tm_transform_bbox` on bounded inputs against its corners; the tables for
   matrices, colours and background sizes.
2. `XmlPages`: what `SentenceAligner` writes and `ParseOutputFile` reads back; `Chunker`:
   `DV_To_Unicode`'s cutting of text at spaces; the k-means path of `PageCluster`, which
   no run of the program reaches.
