----------------------------- MODULE PageOutput -----------------------------
(***************************************************************************)
(* The files of one conversion: which are written where, which are only    *)
(* temporary, which the output refers to, and what is left of them however *)
(* the program ends.  HTMLRenderer::process opens the CSS, outline and     *)
(* pages files, converts page after page and builds the main file; a page  *)
(* installs the fonts it meets and gets a background image, which for an   *)
(* SVG may refer to bitmaps kept in files of their own and shared between  *)
(* pages, and may be thrown away again for a bitmap.  An exception runs    *)
(* the destructors; a failure inside the font library calls exit, and main *)
(* gives some documents up before there is a renderer to destroy.          *)
(*                                                                         *)
(* A file is <<directory, kind, number>>.  What the files contain is left  *)
(* out, except for the references from one to another; so are their sizes, *)
(* so that the limit on temporary files may stop any page but the first.   *)
(* Writing a bitmap may fail, which nothing notices.                       *)
(***************************************************************************)
EXTENDS Integers, Sequences

CONSTANTS
  MaxPage,  \* bound: pages to convert, numbered from 1
  MaxDraws, \* bound: times that a page draws an image
  Bitmaps,  \* JPEG images of the PDF that can be dumped
  Fonts,    \* embedded fonts of the PDF
  Params    \* settings that the program may be called with

Settings ==
  [clean : BOOLEAN,                       \* clean_tmp
   css : BOOLEAN, outline : BOOLEAN, image : BOOLEAN, font : BOOLEAN,
   javascript : BOOLEAN,                  \* embed_*
   bitmap : BOOLEAN,                      \* svg_embed_bitmap
   process_outline : BOOLEAN, split_pages : BOOLEAN, process_nontext : BOOLEAN,
   svg : BOOLEAN,                         \* bg_format is svg
   node_limit : BOOLEAN,                  \* svg_node_count_limit >= 0
   size_limit : BOOLEAN]                  \* tmp_file_size_limit # -1

ASSUME PageOutputAssumption ==
  MaxPage \in Nat \ {0} /\ MaxDraws \in Nat /\ Params \subseteq Settings

VARIABLES
  param, phase,
  page,       \* the page at work
  disk,       \* the files that exist
  tmpDir,     \* the temporary directory exists
  tmp_files,  \* TmpFiles: the files registered
  refCount,   \* bitmaps_ref_count; -1 for a bitmap that was never used
  lost,       \* bitmaps whose dump was never written
  installed,  \* fonts in font_info_map
  refs        \* <<file, file>>: the first refers to the second

bitmaps == <<refCount, lost>>
vars == <<param, phase, page, disk, tmpDir, tmp_files, bitmaps, installed, refs>>

Ends == {"refused", "done", "failed", "aborted"}
Phases == Ends \cup {"main", "pre", "pages", "text", "background", "fallback", "post", "end",
                     "throwing"}

Dir(embed) == IF embed THEN "tmp" ELSE "dest"
MainFile == <<"dest", "main", 0>>
CssFile == <<Dir(param.css), "css", 0>>
OutlineFile == <<Dir(param.outline), "outline", 0>>
PagesFile == <<"tmp", "pages", 0>>
PageFile == <<"dest", "page", page>>
SvgFile == <<Dir(param.image), "svg", page>>
ImageFile == <<Dir(param.image), "image", page>>
BitmapFile(b) == <<"dest", "bitmap", b>>
\* The font as the PDF has it; for a Type 3 font also the SVGs of its glyphs, which are
\* registered and written with it.
RawFont(f) == <<"tmp", "raw font", f>>
TmpFont(n) == <<"tmp", "font", n>>
FontFile(f) == <<Dir(param.font), "web font", f>>
\* The files of the manifest that are not embedded.
DataFiles ==
  {<<"dest", kind, 0>> : kind \in (IF param.css THEN {} ELSE {"data css"})
                                  \cup (IF param.javascript THEN {} ELSE {"data js"})
                                  \cup (IF param.image THEN {} ELSE {"data image"})}

\* Where a reference ends up that is written to f_curpage or to f_css.
CurPage == IF param.split_pages THEN PageFile ELSE MainFile
Css == IF param.css THEN MainFile ELSE CssFile

-----------------------------------------------------------------------------
(* TmpFiles.  A file is registered before it is written.                   *)
AddAlways(files) == tmp_files \cup files  \* mutant: clean_tmp is not asked
Add(files) == IF param.clean THEN tmp_files \cup files ELSE tmp_files

InTmp(files) == {f \in files : f[1] = "tmp"}
Write(files, registered) ==
  /\ disk' = disk \cup files
  /\ tmp_files' = Add(InTmp(registered))

\* ~CairoBackgroundRenderer registers the bitmaps that only discarded SVGs use.
NoneUnused == {}  \* mutant: the renderer is destroyed after the temporary files
Unused == {BitmapFile(b) : b \in {c \in Bitmaps : refCount[c] = 0}}

\* The background renderers are destroyed before TmpFiles, which removes the
\* registered files and then the directory, if nothing is left in it.
CleanUp ==
  /\ phase \in {"end", "throwing"}
  /\ phase' = IF phase = "end" THEN "done" ELSE "failed"
  /\ tmp_files' = Add(Unused)
  /\ disk' = IF param.clean THEN disk \ tmp_files' ELSE disk
  /\ tmpDir' = (~param.clean \/ InTmp(disk') # {})
  /\ UNCHANGED <<param, page, bitmaps, installed, refs>>

\* Every step may throw instead, before it has written anything.
Throw ==
  /\ phase \in {"pre", "pages", "text", "background", "fallback", "post"}
  /\ phase' = "throwing"
  /\ UNCHANGED <<param, page, disk, tmpDir, tmp_files, bitmaps, installed, refs>>

-----------------------------------------------------------------------------
\* main makes the temporary directory first.  It gives up when the directory of the
\* output cannot be made, the document is broken or copying it is not allowed: with
\* no renderer yet, nothing is cleaned up.
Refuse ==
  /\ phase = "main"
  /\ phase' = "refused"
  /\ UNCHANGED <<param, page, disk, tmpDir, tmp_files, bitmaps, installed, refs>>

Process ==
  /\ phase = "main"
  /\ phase' = "pre"
  /\ UNCHANGED <<param, page, disk, tmpDir, tmp_files, bitmaps, installed, refs>>
PreFiles == IF param.process_outline THEN <<CssFile, OutlineFile, PagesFile>>
            ELSE <<CssFile, PagesFile>>

\* The files are opened one after the other, and one may fail to open.
pre_process ==
  /\ phase = "pre"
  /\ \/ \E n \in 1..Len(PreFiles) :
          /\ Write({PreFiles[i] : i \in 1..(n - 1)}, {PreFiles[i] : i \in 1..n})
          /\ phase' = "throwing"
     \/ /\ Write({PreFiles[i] : i \in 1..Len(PreFiles)}, {PreFiles[i] : i \in 1..Len(PreFiles)})
        /\ phase' = "pages"
  /\ UNCHANGED <<param, page, tmpDir, bitmaps, installed, refs>>

\* The loop of process: the limit is compared before each page with the size
\* of the files registered, which is none without clean_tmp.
StopEarly == param.size_limit /\ page > 1 /\ tmp_files # {}

StartPage ==
  /\ phase = "pages" /\ page <= MaxPage
  /\ phase' = "text"
  /\ Write(IF param.split_pages THEN {PageFile} ELSE {}, {})
  /\ UNCHANGED <<param, page, tmpDir, bitmaps, installed, refs>>

EndPages ==
  /\ phase = "pages" /\ (page > MaxPage \/ StopEarly)
  /\ phase' = "post"
  /\ UNCHANGED <<param, page, disk, tmpDir, tmp_files, bitmaps, installed, refs>>

-----------------------------------------------------------------------------
(* install_font, for the first string in a font.                           *)
FontFiles(f) == {RawFont(f), TmpFont(1), FontFile(f)}

\* The font is saved, hinted into a second file or not, and saved again in the
\* format of the output.  A font that is not in the PDF has no file.
EmbedFont(f) ==
  /\ \/ \E hinted \in BOOLEAN :
          Write(FontFiles(f) \cup (IF hinted THEN {TmpFont(2)} ELSE {}),
                FontFiles(f) \cup {TmpFont(2)})
        /\ refs' = refs \cup (IF param.font THEN {} ELSE {<<Css, FontFile(f)>>})
     \/ UNCHANGED <<disk, tmp_files, refs>>
  /\ UNCHANGED phase

\* ffw_load_font and ffw_save call exit: no destructor of the renderer runs.
FontAborts(f) ==
  /\ \E saved \in BOOLEAN :
       Write({RawFont(f)} \cup (IF saved THEN {TmpFont(1)} ELSE {}), FontFiles(f) \cup {TmpFont(2)})
  /\ phase' = "aborted"
  /\ UNCHANGED refs

install_font ==
  /\ phase = "text"
  /\ \E f \in Fonts \ installed :
       /\ installed' = installed \cup {f}
       /\ EmbedFont(f) \/ FontAborts(f)
  /\ UNCHANGED <<param, page, tmpDir, bitmaps>>

-----------------------------------------------------------------------------
(* endPage: a frame for the page, its background, and the page is done.    *)
BeginEndPage ==
  /\ phase = "text"
  /\ phase' = IF param.process_nontext THEN "background" ELSE "pages"
  /\ page' = IF param.process_nontext THEN page ELSE page + 1
  /\ refs' = refs \cup (IF param.split_pages THEN {<<MainFile, PageFile>>} ELSE {})
  /\ UNCHANGED <<param, disk, tmpDir, tmp_files, bitmaps, installed>>

\* bitmaps_in_current_page lists an image each time that it is drawn, unless
\* bitmaps are embedded: how often, for each image.
Drawings == [Bitmaps -> IF param.bitmap THEN {0} ELSE 0..MaxDraws]
Used(draws) == {b \in Bitmaps : draws[b] > 0}

\* setMimeData: the first use of a bitmap starts its count and dumps it.
First(draws) == {b \in Used(draws) : refCount[b] = -1}
Dumped(draws) == [b \in Bitmaps |-> IF b \in First(draws) THEN 0 ELSE refCount[b]]

\* The SVG is kept, so that its bitmaps are counted, once for each drawing.
CountedWhenDumped(draws) ==  \* mutant: a bitmap is counted by the page that dumps it
  [b \in Bitmaps |-> IF b \in First(draws) THEN draws[b] ELSE refCount[b]]
Counted(draws) == [b \in Bitmaps |-> Dumped(draws)[b] + draws[b]]

PageDone ==
  /\ phase' = "pages" /\ page' = page + 1

\* The data of an image may be out of reach, or its file fail to open: the image is
\* then not dumped, now or later, and all else goes on as if it were.
Dump(draws) ==
  \E failed \in SUBSET First(draws) :
    /\ lost' = lost \cup failed
    /\ disk' = disk \cup {BitmapFile(b) : b \in First(draws) \ failed} \cup {SvgFile}

\* CairoBackgroundRenderer::render_page and embed_image.
RenderSvg ==
  /\ phase = "background" /\ param.svg
  /\ \E draws \in Drawings :
       /\ Dump(draws)
       /\ \/ /\ phase' = "throwing"          \* an error of Cairo, or no SVG to embed
             /\ tmp_files' = Add(InTmp({SvgFile}))
             /\ refCount' = Dumped(draws)
             /\ UNCHANGED <<page, refs>>
          \/ /\ param.node_limit             \* too many nodes
             /\ phase' = "fallback"
             /\ tmp_files' = Add({SvgFile})
             /\ refCount' = Dumped(draws)
             /\ UNCHANGED <<page, refs>>
          \/ /\ PageDone
             /\ tmp_files' = Add(InTmp({SvgFile}))
             /\ refCount' = Counted(draws)
             /\ refs' = refs \cup {<<SvgFile, BitmapFile(b)>> : b \in Used(draws)}
                             \cup (IF param.image THEN {} ELSE {<<CurPage, SvgFile>>})
  /\ UNCHANGED <<param, tmpDir, installed>>

\* SplashBackgroundRenderer: an image, unless nothing was drawn; writing it may fail.
RenderBitmap ==
  /\ phase = "fallback" \/ (phase = "background" /\ ~param.svg)
  /\ \/ /\ Write({ImageFile}, {ImageFile})
        /\ refs' = refs \cup (IF param.image THEN {} ELSE {<<CurPage, ImageFile>>})
        /\ PageDone
     \/ Write({ImageFile}, {ImageFile}) /\ phase' = "throwing" /\ UNCHANGED <<page, refs>>
     \/ PageDone /\ UNCHANGED <<disk, tmp_files, refs>>
  /\ UNCHANGED <<param, tmpDir, bitmaps, installed>>

\* The main file is built as the manifest says; what is not embedded is linked, and
\* the program's own files are copied beside it (embed_file).
post_process ==
  /\ phase = "post"
  /\ \/ /\ phase' = "end"
        /\ disk' = disk \cup {MainFile} \cup DataFiles
        /\ refs' = refs \cup {<<MainFile, f>> : f \in DataFiles}
                        \cup (IF param.css THEN {} ELSE {<<MainFile, CssFile>>})
     \/ /\ phase' = "throwing"               \* the manifest or a file it names
        /\ \E copied \in SUBSET DataFiles : disk' = disk \cup {MainFile} \cup copied
        /\ UNCHANGED refs
  /\ UNCHANGED <<param, page, tmpDir, tmp_files, bitmaps, installed>>

Ended == phase \in Ends /\ UNCHANGED vars

\* check_param: an SVG in a data URI cannot load bitmaps.
CheckParam(p) == IF p.image /\ p.svg THEN [p EXCEPT !.bitmap = TRUE] ELSE p

Init ==
  /\ \E p \in Params : param = CheckParam(p)
  /\ phase = "main" /\ page = 1
  /\ disk = {} /\ tmpDir = TRUE /\ tmp_files = {}
  /\ refCount = [b \in Bitmaps |-> -1] /\ lost = {}
  /\ installed = {} /\ refs = {}

Next ==
  \/ Refuse \/ Process \/ pre_process \/ StartPage \/ EndPages
  \/ install_font \/ BeginEndPage \/ RenderSvg \/ RenderBitmap
  \/ post_process \/ Throw \/ CleanUp \/ Ended

Spec == Init /\ [][Next]_vars

-----------------------------------------------------------------------------
\* The state keeps its type: a bitmap has a count from its first use on, of no more
\* drawings than the pages had, and without clean_tmp no file is registered
\* (TmpFiles::add).
TypeOK ==
  /\ param \in Settings /\ phase \in Phases
  /\ page \in 1..(MaxPage + 1) /\ tmpDir \in BOOLEAN
  /\ refCount \in [Bitmaps -> -1..(MaxDraws * MaxPage)]
  /\ lost \subseteq {b \in Bitmaps : refCount[b] # -1}
  /\ installed \subseteq Fonts
  /\ ~param.clean => tmp_files = {}

\* Nothing is cleaned away that a page, the CSS or an SVG of a finished run still
\* needs, in whatever order pages shared bitmaps and discarded their SVGs: what the
\* output refers to exists, but for images whose dump failed (setMimeData does not
\* notice, and the SVG refers to them all the same).
RefsExist ==
  phase = "done" =>
    \A r \in refs : {r[1], r[2]} \subseteq disk \cup {BitmapFile(b) : b \in lost}

\* After a run that was finished or ended by an exception once there was a
\* renderer, the temporary directory is gone and no dumped bitmap is left that no
\* page uses; after a finished one every file is the output's or referred to
\* (~HTMLRenderer; a document that main refuses leaves the directory behind).
OnlyOutputRemains ==
  phase \in {"done", "failed"} /\ param.clean =>
    /\ ~tmpDir
    /\ \A f \in disk :
         \/ f[2] \in {"main", "css", "outline", "page"}
         \/ phase = "failed" /\ f[2] # "bitmap"
         \/ \E r \in refs : r[2] = f
=============================================================================
