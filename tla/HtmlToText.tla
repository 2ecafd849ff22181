----------------------------- MODULE HtmlToText -----------------------------
(***************************************************************************)
(* HtmlToTextProcessor: every HTML file of a folder becomes a text file.   *)
(*                                                                         *)
(* Each page is sorted and freed of duplicates, its features are written   *)
(* for the external cluster program, and the tree that program leaves on   *)
(* disk puts the texts in their final order.  Only an output that cannot   *)
(* be opened or written goes unnoticed; any other exception ends the run   *)
(* and leaves of the open file whatever its writer had flushed.  The       *)
(* program is then run again on the same folders.                          *)
(***************************************************************************)
EXTENDS PageText, FiniteSets

CONSTANTS Files,         (* the folder's HTML files, by their place in the walk *)
          MaxPages,      (* bound: pages of a file *)
          FirstLayouts,  (* bound: layouts of the first page that is ever read, *)
          Layouts,       (* and of the others: a pair <<x, y>> for each text *)
          OldTexts,      (* bound: leaves of a tree left by an earlier run *)
          MaxRuns        (* bound: times the program is started *)

ASSUME FilesAssumption == Files \in Nat
ASSUME BoundsAssumption == {MaxPages, OldTexts, MaxRuns} \subseteq Nat
ASSUME LayoutsAssumption == FirstLayouts \cup Layouts \subseteq Seq(Int \X Int)

VARIABLES
  stage,     (* what the run does next; "done" and "aborted" have ended it *)
  run,       (* counts the runs *)
  file,      (* the file at hand *)
  length,    (* its pages *)
  writer,    (* whether its output could be opened *)
  page,      (* the page at hand *)
  original,  (* its texts as parsed *)
  content,   (* its texts as far as processed *)
  gtr,       (* the tree read for it *)
  fresh,     (* whether the tree was made for this page *)
  buffer,    (* the pages given to the file's writer, as <<run, page>> *)
  out,       (* the pages in each output file on disk *)
  pages,     (* pages each file had when its output was last emptied *)
  complete,  (* the files closed and written out since then *)
  damaged,   (* the files whose writer has failed since then *)
  unopened   (* the files of this run whose output could not be opened *)

input == <<file, length>>
document == <<original, content, gtr, fresh>>
disk == <<out, pages, complete, damaged>>
vars == <<stage, run, input, writer, page, document, buffer, disk, unopened>>

Stages == {"walk", "open", "prepared", "tree", "serialized", "done", "aborted"}

Texts(positions) ==
  [i \in DOMAIN positions |-> [id |-> i, x |-> positions[i][1], y |-> positions[i][2]]]

PageInputs == IF <<run, file, page>> = <<1, 1, 1>> THEN FirstLayouts ELSE Layouts

-----------------------------------------------------------------------------
\* The trees the cluster program can write for n texts: each join takes two of the
\* leaves and nodes that have no parent yet.

Leaf(i) == [leaf |-> TRUE, index |-> i]
Node(h) == [leaf |-> FALSE, index |-> h]

Orphans(tree, n) ==
  ({Leaf(i) : i \in 0 .. n - 1} \cup {Node(h) : h \in DOMAIN tree})
    \ UNION {{tree[h].left, tree[h].right} : h \in DOMAIN tree}

Grown(tree, n) ==
  LET free == Orphans(tree, n)
      joins == [left : free, right : free, close : BOOLEAN]
  IN  {Append(tree, j) : j \in {k \in joins : k.left # k.right}}

Trees(n) ==
  LET size[k \in 0 .. n] ==
        IF k = 0 THEN {<<>>} ELSE UNION {Grown(t, n) : t \in size[k - 1]}
  IN  IF n = 0 THEN {} ELSE size[n - 1]

Readable(tree, texts) ==
  /\ tree # <<>>
  /\ \A h \in DOMAIN tree : \A c \in {tree[h].left, tree[h].right} :
       c.leaf => c.index < Len(texts)

-----------------------------------------------------------------------------

NoDocument == original' = <<>> /\ content' = <<>> /\ gtr' = <<>> /\ fresh' = TRUE

Init ==
  /\ stage = "walk" /\ run = 1 /\ file = 1 /\ length = 0 /\ page = 1
  /\ original = <<>> /\ content = <<>> /\ gtr = <<>> /\ fresh = TRUE
  /\ writer = FALSE /\ buffer = <<>>
  /\ pages = [f \in 1 .. Files |-> 0]
  /\ out = [f \in 1 .. Files |-> <<>>]
  /\ complete = {} /\ damaged = {} /\ unopened = {}

-----------------------------------------------------------------------------
\* ContentFileWriter: the output is opened, and so emptied, twice.  Its exceptions are
\* caught: without a writer, nothing is written and the run goes on.

(* A plausible slip: honouring the append mode, the writer keeps what is there. *)
EmptiedNot(n) ==
  /\ buffer' = out[file]
  /\ pages' = [pages EXCEPT ![file] = n]
  /\ complete' = complete \ {file}
  /\ damaged' = damaged \ {file}
  /\ UNCHANGED out

Emptied(n) ==
  /\ buffer' = <<>>
  /\ out' = [out EXCEPT ![file] = <<>>]
  /\ pages' = [pages EXCEPT ![file] = n]
  /\ complete' = complete \ {file}
  /\ damaged' = damaged \ {file}

OpenWriter(n) ==
  \/ Emptied(n) /\ writer' = TRUE /\ UNCHANGED unopened
  \/ /\ Emptied(n) \/ UNCHANGED <<buffer, disk>>
     /\ unopened' = unopened \cup {file}
     /\ UNCHANGED writer

\* What a writer that fails leaves of n pages: PrintWriter drops the exception and
\* the pieces that were not written, and may write others again.
Pieces(n) == UNION {[1 .. m -> {run} \X (1 .. n)] : m \in 0 .. n}

Damaged ==
  /\ \E pieces \in Pieces(page - 1) : out' = [out EXCEPT ![file] = pieces]
  /\ damaged' = damaged \cup {file}

-----------------------------------------------------------------------------

(* A plausible slip: the page numbers go on from the file before. *)
OpenKeepingPage(n) ==
  /\ stage = "walk" /\ file <= Files
  /\ stage' = "open" /\ length' = n
  /\ OpenWriter(n)
  /\ UNCHANGED <<run, file, page, document>>

\* The file is parsed as a whole and its output opened.
Open(n) ==
  /\ stage = "walk" /\ file <= Files
  /\ stage' = "open" /\ length' = n /\ page' = 1
  /\ OpenWriter(n)
  /\ UNCHANGED <<run, file, document>>

(* A plausible slip: a failure skips the file and the walk goes on. *)
AbortAndGoOn ==
  /\ stage' = "walk" /\ file' = file + 1
  /\ IF writer
     THEN \/ \E flushed \in Prefixes(buffer) :
               out' = [out EXCEPT ![file] = flushed] /\ UNCHANGED damaged
          \/ Damaged
     ELSE UNCHANGED <<out, damaged>>
  /\ writer' = FALSE /\ buffer' = <<>>
  /\ NoDocument
  /\ UNCHANGED <<run, length, page, pages, complete, unopened>>

\* An exception nobody catches.  The writer is not closed: some of it is on disk.
Abort ==
  /\ stage' = "aborted"
  /\ IF writer
     THEN \/ \E flushed \in Prefixes(buffer) :
               out' = [out EXCEPT ![file] = flushed] /\ UNCHANGED damaged
          \/ Damaged
     ELSE UNCHANGED <<out, damaged>>
  /\ writer' = FALSE /\ buffer' = <<>>
  /\ NoDocument
  /\ UNCHANGED <<run, input, page, pages, complete, unopened>>

\* An unreadable file leaves no list of pages, which is found out before its output
\* is opened.
OpenFails ==
  /\ stage = "walk" /\ file <= Files
  /\ Abort

prepared(texts) == removeDuplicates(Sorted(texts))

\* The next page is sorted, freed of duplicates, and its features are written.
PreparePage(positions) ==
  /\ stage = "open" /\ page <= length
  /\ stage' = "prepared"
  /\ original' = Texts(positions)
  /\ content' = prepared(original')
  /\ UNCHANGED <<run, input, writer, page, gtr, fresh, buffer, disk, unopened>>

\* A text that lacks one of its classes has no features.
PrepareFails ==
  /\ stage = "open" /\ page <= length
  /\ Abort

\* The cluster program works from two texts up.
Cluster(tree) ==
  /\ stage = "prepared" /\ Len(content) > 1
  /\ stage' = "tree"
  /\ gtr' = tree /\ fresh' = TRUE
  /\ UNCHANGED <<run, input, writer, page, original, content, buffer, disk, unopened>>

\* Its failure goes unnoticed: the tree of an earlier run is read, or none.
ClusterFails(tree) ==
  /\ stage = "prepared"
  /\ stage' = "tree"
  /\ gtr' = tree /\ fresh' = FALSE
  /\ UNCHANGED <<run, input, writer, page, original, content, buffer, disk, unopened>>

\* The texts are put in the order of the tree, which may have no root or refer to
\* texts the page does not have.
Serialize ==
  /\ stage = "tree"
  /\ IF Readable(gtr, content)
     THEN /\ content' = serialize(parseGTR(gtr, content))
          /\ stage' = "serialized"
          /\ UNCHANGED <<run, input, writer, page, original, gtr, fresh, buffer, disk, unopened>>
     ELSE Abort

WritePage ==
  /\ stage = "serialized"
  /\ stage' = "open"
  /\ buffer' = IF writer THEN Append(buffer, <<run, page>>) ELSE buffer
  /\ page' = page + 1
  /\ NoDocument
  /\ UNCHANGED <<run, input, writer, disk, unopened>>

Close ==
  /\ stage = "open" /\ page > length
  /\ stage' = "walk" /\ file' = file + 1
  /\ \/ /\ writer
        /\ out' = [out EXCEPT ![file] = buffer]
        /\ complete' = complete \cup {file}
        /\ UNCHANGED damaged
     \/ writer /\ Damaged /\ UNCHANGED complete
     \/ ~writer /\ UNCHANGED <<out, complete, damaged>>
  /\ writer' = FALSE /\ buffer' = <<>>
  /\ UNCHANGED <<run, length, page, document, pages, unopened>>

Finish ==
  /\ stage = "walk" /\ file > Files
  /\ stage' = "done"
  /\ UNCHANGED <<run, input, writer, page, document, buffer, disk, unopened>>

\* The process is killed.
Kill ==
  /\ stage \notin {"done", "aborted"}
  /\ Abort

Rerun ==
  /\ stage \in {"done", "aborted"} /\ run < MaxRuns
  /\ stage' = "walk" /\ run' = run + 1 /\ file' = 1
  /\ unopened' = {}
  /\ UNCHANGED <<length, writer, page, document, buffer, disk>>

Next ==
  \/ \E n \in 0 .. MaxPages : Open(n)
  \/ OpenFails
  \/ \E positions \in PageInputs : PreparePage(positions)
  \/ PrepareFails
  \/ \E tree \in Trees(Len(content)) : Cluster(tree)
  \/ \E n \in 1 .. OldTexts : \E tree \in Trees(n) : ClusterFails(tree)
  \/ Serialize \/ WritePage \/ Close \/ Finish \/ Kill \/ Rerun

Spec == Init /\ [][Next]_vars

-----------------------------------------------------------------------------

Written(r, n) == [k \in 1 .. n |-> <<r, k>>]

\* The state keeps its type: inside a file the writer was given its pages up to the
\* one at hand (HtmlToTextProcessor.parseInputFileIntoOutputText).
TypeOK ==
  /\ stage \in Stages
  /\ run \in Nat \ {0} /\ page \in Nat \ {0} /\ length \in Nat
  /\ file \in 1 .. Files + 1
  /\ pages \in [1 .. Files -> Nat]
  /\ complete \cup damaged \cup unopened \subseteq 1 .. Files
  /\ writer \in BOOLEAN /\ fresh \in BOOLEAN
  /\ DOMAIN out = 1 .. Files
  /\ stage \in {"open", "prepared", "tree", "serialized"} =>
       /\ file <= Files /\ page <= length + 1
       /\ IF writer THEN buffer = Written(run, page - 1) /\ pages[file] = length
                    ELSE buffer = <<>>
  /\ stage \in {"prepared", "tree", "serialized"} => page <= length
  /\ stage \in {"walk", "done", "aborted"} => ~writer /\ buffer = <<>>

\* Whatever runs were aborted and outputs could not be opened or written, an output
\* file holds pages of one run; unless its writer failed they are the first ones in
\* their order, and all of them if it was closed (ContentFileWriter: the file is
\* emptied when opened, and written out at the latest when closed).
OutputOfOneRun ==
  \A f \in 1 .. Files : \E r \in 1 .. run :
    /\ \A k \in DOMAIN out[f] : out[f][k] \in {r} \X (1 .. pages[f])
    /\ f \notin damaged =>
         \E n \in 0 .. pages[f] :
           /\ out[f] = Written(r, n)
           /\ f \in complete => n = pages[f]

\* A run leaves no gap but where the output fails: of every file that it has passed
\* all pages, and nothing of an earlier run, are in the output, unless that could not
\* be opened or written (FolderWalker.recurseDirectory: nothing else skips a file).
NoGaps ==
  \A f \in 1 .. file - 1 :
    f \in unopened \cup damaged \/ out[f] = Written(run, pages[f])

-----------------------------------------------------------------------------

\* The texts reached from one of a page by steps between duplicates.
ChainedTo(texts, t) ==
  LET steps[k \in 0 .. Len(texts)] ==
        IF k = 0 THEN {t}
        ELSE {s \in ToSet(texts) : \E r \in steps[k - 1] : Duplicate(r, s)}
  IN  steps[Len(texts)]

Near(a, b) == Sign(a - b) = 0
\* On a page whose coordinates are either the same or well apart the comparison is an
\* order.
WellSpaced(texts) ==
  \A r, s, t \in ToSet(texts) :
    /\ Near(r.x, s.x) /\ Near(s.x, t.x) => Near(r.x, t.x)
    /\ Near(r.y, s.y) /\ Near(s.y, t.y) => Near(r.y, t.y)

InReadingOrder(texts) ==
  \A i, j \in DOMAIN texts : i < j => ~Before(texts[j], texts[i])

\* Every text dropped as a duplicate is linked to one that stays by a chain of
\* duplicates; on a well spaced page exactly one of each class stays, in reading
\* order (Page.sortTextAndRemoveDuplicateContent; off such pages the walk over texts
\* already marked drops ones that duplicate nothing that stays).
DuplicatesDropped ==
  stage = "prepared" =>
    /\ \A t \in ToSet(original) : ChainedTo(original, t) \cap ToSet(content) # {}
    /\ WellSpaced(original) =>
         /\ InReadingOrder(content)
         /\ \A i, j \in DOMAIN content : i # j => ~Duplicate(content[i], content[j])

Leaves(tree) ==
  LET leaves[h \in DOMAIN tree] ==
        UNION {IF c.leaf THEN {c.index} ELSE leaves[c.index] :
                 c \in {tree[h].left, tree[h].right}}
  IN  leaves

\* Two texts belong together if some subtree with only close joins has both.
Closed(tree) ==
  LET closed[h \in DOMAIN tree] ==
        /\ tree[h].close
        /\ \A c \in {tree[h].left, tree[h].right} : ~c.leaf => closed[c.index]
  IN  closed

\* Rearranging loses and repeats no text of the page - unless the whole page is one
\* close group, which is dropped whole; with a tree of an earlier run texts may be
\* missing, but none comes twice or from elsewhere (parseGTR and
\* serializePageUsingHierarchical).
PageWhole ==
  stage = "serialized" =>
    LET kept == ToSet(prepared(original))
    IN  /\ Cardinality(ToSet(content)) = Len(content)
        /\ ToSet(content) \subseteq kept
        /\ fresh => ToSet(content) = IF Closed(gtr)[Len(gtr)] THEN {} ELSE kept

\* The texts of a close group stand next to each other; on a well spaced page each
\* group is in reading order, and the groups are in that of their first texts
\* (PageCluster.calculatePrimaryNodesAsIndexNodes and the sorts around it).
GroupsInOrder ==
  stage = "serialized" /\ fresh =>
    LET kept == prepared(original)
        together(s, t) ==
          \/ s = t
          \/ \E h \in DOMAIN gtr :
               /\ Closed(gtr)[h]
               /\ {s, t} \subseteq {kept[i + 1] : i \in Leaves(gtr)[h]}
        first(i) == i = 1 \/ ~together(content[i - 1], content[i])
    IN  /\ \A i, j, k \in DOMAIN content :
             i < j /\ j < k /\ together(content[i], content[k]) => together(content[i], content[j])
        /\ WellSpaced(original) =>
             \A i, j \in DOMAIN content :
               /\ i < j
               /\ together(content[i], content[j]) \/ (first(i) /\ first(j))
               => Before(content[i], content[j])
=============================================================================
