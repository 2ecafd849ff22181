-------------------------- MODULE PageOutputProofs --------------------------
(***************************************************************************)
(* For any number of pages, fonts, bitmaps and settings: nothing that the  *)
(* finished output refers to was removed, and only the output remains.     *)
(*                                                                         *)
(* While the program runs, every file is accounted for: what is referred   *)
(* to exists if it was ever written, is not in the temporary directory and *)
(* is not registered; what is registered is temporary or the SVG of        *)
(* a page that fell back; and what is neither registered nor referred to   *)
(* is a part of the output or a bitmap that is counted as unused.  When    *)
(* the destructors run, the two properties follow from that.               *)
(***************************************************************************)
EXTENDS PageOutput, TLAPS

Working == {"pages", "text", "background", "fallback", "post", "end"}
Output == {"main", "css", "outline", "page"}

Types ==
  /\ param \in Settings /\ phase \in Phases
  /\ page \in 1..(MaxPage + 1) /\ tmpDir \in BOOLEAN
  /\ refCount \in [Bitmaps -> Int]
  /\ \A b \in Bitmaps : refCount[b] >= -1 /\ refCount[b] <= MaxDraws * (page - 1)
  /\ lost \subseteq Bitmaps /\ \A b \in lost : refCount[b] # -1
  /\ installed \subseteq Fonts
  /\ ~param.clean => tmp_files = {}
  /\ param.image /\ param.svg => param.bitmap
  /\ phase \in {"text", "background", "fallback"} => page <= MaxPage

\* The files that are opened or dumped once are there while they are needed, but
\* for bitmaps whose dump failed.
Opened ==
  /\ phase \in Working => CssFile \in disk
  /\ param.split_pages /\ phase \in {"text", "background", "fallback"} => PageFile \in disk
  /\ phase = "end" => MainFile \in disk
  /\ \A b \in Bitmaps : refCount[b] # -1 => BitmapFile(b) \in disk \/ b \in lost

Lost(x) == \E b \in lost : x = BitmapFile(b)

\* A file that is referred to, or refers to another, is there to stay, if it was
\* ever written.
Kept(x) ==
  \/ x = MainFile
  \/ /\ x \in disk \/ Lost(x)
     /\ x[1] = "dest" /\ x \notin tmp_files
     /\ x[2] = "svg" => x[3] \in 1..(page - 1)
     /\ x[2] = "bitmap" => \E b \in Bitmaps : x = BitmapFile(b) /\ refCount[b] > 0
RefsKept == \A r \in refs : Kept(r[1]) /\ Kept(r[2])

\* Outside the temporary directory only SVGs of pages that fell back are
\* registered.
Registered(f) ==
  \/ f[1] = "tmp"
  \/ /\ f[1] = "dest" /\ f[2] = "svg" /\ f[3] \in 1..page
     /\ f[3] = page => phase \in {"fallback", "throwing"}
TmpOnly == \A f \in tmp_files : Registered(f)

Referred(f) == \E r \in refs : r[2] = f
Accounted(f) ==
  /\ f[1] = "tmp" => f \in tmp_files
  /\ f[2] = "bitmap" =>
       \E b \in Bitmaps :
         f = BitmapFile(b) /\ refCount[b] >= 0 /\ (refCount[b] > 0 => Referred(f))
  /\ phase # "throwing" => f \in tmp_files \/ f[2] \in Output \cup {"bitmap"} \/ Referred(f)
Files == param.clean => \A f \in disk : Accounted(f)

Live == phase \notin Ends => Opened /\ RefsKept /\ TmpOnly /\ Files
IInv == Types /\ Live /\ RefsExist /\ OnlyOutputRemains

-----------------------------------------------------------------------------
(* Steps of the working program.                                           *)

\* What a step adds is all that has to be looked at.
LEMMA StepKeeps ==
  ASSUME Types, RefsKept, TmpOnly, Files, param' = param,
         disk \subseteq disk', lost \subseteq lost', tmp_files \subseteq tmp_files',
         refs \subseteq refs',
         page' \in Int, page <= page',
         \A b \in Bitmaps : refCount'[b] \in Int /\ refCount[b] <= refCount'[b],
         \A b \in Bitmaps : refCount'[b] > 0 => refCount[b] > 0 \/ Referred(BitmapFile(b))',
         \A f \in tmp_files' : \/ f \in tmp_files \/ f[1] = "tmp"
                               \/ /\ f[1] = "dest" /\ f[2] = "svg" /\ f[3] = page
                                  /\ page' = page /\ phase' \in {"fallback", "throwing"},
         phase \in {"fallback", "throwing"} =>
           page < page' \/ phase' \in {"fallback", "throwing"},
         phase = "throwing" => phase' = "throwing",
         \A r \in refs' : r \in refs \/ (Kept(r[1])' /\ Kept(r[2])'),
         param.clean => \A f \in disk' : f \in disk \/ Accounted(f)'
  PROVE  RefsKept' /\ TmpOnly' /\ Files'
<1>1. page \in Nat \ {0} /\ \A b \in Bitmaps : refCount[b] \in Int
  BY DEF Types
<1>2. ASSUME NEW x, Kept(x) PROVE Kept(x)'
  <2>1. CASE x = MainFile
    BY <2>1 DEF Kept, MainFile
  <2>2. CASE x # MainFile
    <3>1. /\ x \in disk \/ Lost(x)
          /\ x[1] = "dest" /\ x \notin tmp_files
          /\ x[2] = "svg" => x[3] \in 1..(page - 1)
          /\ x[2] = "bitmap" => \E b \in Bitmaps : x = BitmapFile(b) /\ refCount[b] > 0
      BY <1>2, <2>2 DEF Kept
    <3>2. x \in disk' \/ Lost(x)'
      BY <3>1 DEF Lost, BitmapFile
    <3>3. x \notin tmp_files'
      BY <1>1, <3>1
    <3>4. x[2] = "bitmap" => \E b \in Bitmaps : x = BitmapFile(b) /\ refCount'[b] > 0
      BY <1>1, <3>1
    <3>5. x[2] = "svg" => x[3] \in 1..(page' - 1)
      <4>1. SUFFICES ASSUME x[2] = "svg" PROVE x[3] \in 1..(page' - 1)
        OBVIOUS
      <4>. QED BY <1>1, <3>1, <4>1
    <3>. QED BY <3>1, <3>2, <3>4, <3>5, <3>3 DEF Kept, BitmapFile
  <2>. QED BY <2>1, <2>2
<1>3. RefsKept'
  BY <1>2 DEF RefsKept
<1>4. TmpOnly'
  <2>1. SUFFICES ASSUME NEW f \in tmp_files' PROVE Registered(f)'
    BY DEF TmpOnly
  <2>2. CASE f \in tmp_files
    BY <1>1, <2>2 DEF TmpOnly, Registered
  <2>3. CASE f \notin tmp_files
    BY <1>1, <2>1, <2>3 DEF Registered
  <2>. QED BY <2>2, <2>3
<1>5. ASSUME param.clean, NEW f \in disk, Accounted(f) PROVE Accounted(f)'
  <2>1. Referred(f) => Referred(f)'
    BY DEF Referred
  <2>2. f[1] = "tmp" => f \in tmp_files'
    BY <1>5 DEF Accounted
  <2>3. ASSUME f[2] = "bitmap"
        PROVE  \E b \in Bitmaps :
                 f = BitmapFile(b) /\ refCount'[b] >= 0 /\ (refCount'[b] > 0 => Referred(f)')
    <3>1. PICK b \in Bitmaps :
            f = BitmapFile(b) /\ refCount[b] >= 0 /\ (refCount[b] > 0 => Referred(f))
      BY <1>5, <2>3 DEF Accounted
    <3>2. refCount'[b] >= 0
      BY <1>1, <3>1
    <3>3. refCount'[b] > 0 => Referred(f)'
      BY <2>1, <3>1
    <3>. QED BY <3>1, <3>2, <3>3
  <2>4. phase' # "throwing" =>
          f \in tmp_files' \/ f[2] \in Output \cup {"bitmap"} \/ Referred(f)'
    BY <1>5, <2>1 DEF Accounted
  <2>. QED BY <2>2, <2>3, <2>4 DEF Accounted, BitmapFile
<1>6. Files'
  <2>1. ASSUME param.clean, NEW f \in disk' PROVE Accounted(f)'
    BY <1>5, <2>1 DEF Files
  <2>. QED BY <2>1 DEF Files
<1>. QED BY <1>3, <1>4, <1>6

\* A step that adds nothing but files that are registered, or a part of the
\* output.
LEMMA AddFacts ==
  ASSUME Types, NEW F
  PROVE  /\ tmp_files \subseteq Add(F)
         /\ \A f \in Add(F) : f \in tmp_files \/ f \in F
         /\ param.clean => F \subseteq Add(F)
         /\ ~param.clean => Add(F) = {}
BY Zenon DEF Add, Types

LEMMA WriteKeeps ==
  ASSUME Types, Live, phase \notin Ends, NEW F, NEW R, Write(F, R),
         UNCHANGED <<param, bitmaps>>, refs \subseteq refs',
         page' \in Int, page <= page',
         phase = "fallback" => page < page' \/ phase' = "throwing",
         phase # "throwing",
         \A f \in F : f[1] = "tmp" => f \in R,
         \A f \in F : /\ f[2] # "bitmap"
                      /\ \/ f \in R /\ f[1] = "tmp"
                         \/ f[2] \in Output \/ Referred(f)'
                         \/ phase' = "throwing",
         \A r \in refs' : r \in refs \/ (Kept(r[1])' /\ Kept(r[2])')
  PROVE  RefsKept' /\ TmpOnly' /\ Files' /\ (~param'.clean => tmp_files' = {})
<1>1. RefsKept /\ TmpOnly /\ Files
  BY DEF Live
<1>2. /\ disk' = disk \cup F /\ tmp_files' = Add(InTmp(R))
      /\ param' = param /\ refCount' = refCount /\ lost' = lost
  BY DEF Write, bitmaps
<1>3. /\ tmp_files \subseteq tmp_files'
      /\ \A f \in tmp_files' : f \in tmp_files \/ f \in InTmp(R)
      /\ param.clean => InTmp(R) \subseteq tmp_files'
      /\ ~param.clean => tmp_files' = {}
  BY <1>2, AddFacts
<1>4. \A f \in tmp_files' : f \in tmp_files \/ f[1] = "tmp"
  BY <1>3 DEF InTmp
<1>5. param.clean => \A f \in F : Accounted(f)'
  <2>1. SUFFICES ASSUME param.clean, NEW f \in F PROVE Accounted(f)'
    OBVIOUS
  <2>2. f[1] = "tmp" => f \in tmp_files'
    BY <1>3, <2>1 DEF InTmp
  <2>3. f \in tmp_files' \/ f[2] \in Output \/ Referred(f)' \/ phase' = "throwing"
    BY <1>3, <2>1 DEF InTmp
  <2>. QED BY <2>2, <2>3 DEF Accounted
<1>6. page \in Int /\ \A b \in Bitmaps : refCount[b] \in Int
  BY DEF Types
<1>7. phase \in {"fallback", "throwing"} => page < page' \/ phase' \in {"fallback", "throwing"}
  OBVIOUS
<1>8. /\ disk \subseteq disk'
      /\ \A b \in Bitmaps : refCount'[b] \in Int /\ refCount[b] <= refCount'[b]
      /\ \A b \in Bitmaps : refCount'[b] > 0 => refCount[b] > 0
      /\ param.clean => \A f \in disk' : f \in disk \/ Accounted(f)'
  BY <1>2, <1>5, <1>6
<1>9. RefsKept' /\ TmpOnly' /\ Files'
  BY <1>1, <1>2, <1>3, <1>4, <1>7, <1>8, StepKeeps
<1>. QED BY <1>2, <1>3, <1>9

LEMMA PreFilesFacts ==
  /\ \A i \in 1..Len(PreFiles) : PreFiles[i] \in {CssFile, OutlineFile, PagesFile}
  /\ \E i \in 1..Len(PreFiles) : PreFiles[i] = CssFile
  /\ Len(PreFiles) \in Nat
<1>1. PICK c, o, g : c = CssFile /\ o = OutlineFile /\ g = PagesFile
  OBVIOUS
<1>2. PreFiles = IF param.process_outline THEN <<c, o, g>> ELSE <<c, g>>
  BY <1>1 DEF PreFiles
<1>3. CASE param.process_outline
  <2>1. PreFiles = <<c, o, g>>
    BY <1>2, <1>3
  <2>2. Len(PreFiles) = 3 /\ PreFiles[1] = c /\ PreFiles[2] = o /\ PreFiles[3] = g
    BY <2>1
  <2>3. \A i \in 1..3 : i = 1 \/ i = 2 \/ i = 3
    OBVIOUS
  <2>4. 1 \in 1..3
    OBVIOUS
  <2>. QED BY <1>1, <2>2, <2>3, <2>4
<1>4. CASE ~param.process_outline
  <2>1. PreFiles = <<c, g>>
    BY <1>2, <1>4
  <2>2. Len(PreFiles) = 2 /\ PreFiles[1] = c /\ PreFiles[2] = g
    BY <2>1
  <2>3. \A i \in 1..2 : i = 1 \/ i = 2
    OBVIOUS
  <2>4. 1 \in 1..2
    OBVIOUS
  <2>. QED BY <1>1, <2>2, <2>3, <2>4
<1>. QED BY <1>3, <1>4

Good == Types /\ Live /\ phase \notin {"done", "failed"}

LEMMA Scaled ==
  ASSUME NEW m \in Nat, NEW i \in Int, NEW j \in Int, i <= j
  PROVE  m * (i - 1) <= m * (j - 1)
<1>1. PICK d \in Nat : j = i + d
  <2>1. j - i \in Nat /\ j = i + (j - i)
    OBVIOUS
  <2>. QED BY <2>1
<1>2. (i - 1) + d = j - 1
  BY <1>1
<1>3. m * ((i - 1) + d) = m * (i - 1) + m * d
  OBVIOUS
<1>4. m * d \in Nat /\ m * (i - 1) \in Int
  OBVIOUS
<1>. QED BY <1>2, <1>3, <1>4

\* What a step that leaves the bitmaps alone has to show of them.
LEMMA Counts ==
  ASSUME Types, page' \in Int, page <= page', UNCHANGED bitmaps
  PROVE  /\ refCount' \in [Bitmaps -> Int]
         /\ \A b \in Bitmaps : refCount'[b] >= -1 /\ refCount'[b] <= MaxDraws * (page' - 1)
         /\ lost' \subseteq Bitmaps /\ \A b \in lost' : refCount'[b] # -1
<1>1. page \in Int /\ MaxDraws \in Nat
  BY PageOutputAssumption DEF Types
<1>2. PICK q \in Int : q = page' /\ page <= q
  OBVIOUS
<1>3. MaxDraws * (page - 1) <= MaxDraws * (q - 1)
  BY <1>1, <1>2, Scaled
<1>4. MaxDraws * (page - 1) \in Int /\ MaxDraws * (q - 1) \in Int
  BY <1>1, <1>2
<1>5. ASSUME NEW b \in Bitmaps PROVE refCount[b] <= MaxDraws * (page' - 1)
  <2>1. refCount[b] \in Int /\ refCount[b] <= MaxDraws * (page - 1)
    BY DEF Types
  <2>. QED BY <1>2, <1>3, <1>4, <2>1
<1>. QED BY <1>5 DEF Types, bitmaps

LEMMA PreProcessKeeps == ASSUME Types, Live, pre_process PROVE Good'
<1>1. PICK F, R :
        /\ Write(F, R) /\ F \subseteq R
        /\ \A f \in R : f \in {CssFile, OutlineFile, PagesFile}
        /\ phase' = "throwing" \/ (phase' = "pages" /\ CssFile \in F)
  <2>1. CASE \E n \in 1..Len(PreFiles) :
               /\ Write({PreFiles[i] : i \in 1..(n - 1)}, {PreFiles[i] : i \in 1..n})
               /\ phase' = "throwing"
    <3>1. PICK n \in 1..Len(PreFiles) :
            /\ Write({PreFiles[i] : i \in 1..(n - 1)}, {PreFiles[i] : i \in 1..n})
            /\ phase' = "throwing"
      BY <2>1
    <3>2. 1..(n - 1) \subseteq 1..n /\ 1..n \subseteq 1..Len(PreFiles)
      BY PreFilesFacts
    <3>. QED BY <3>1, <3>2, PreFilesFacts
  <2>2. CASE /\ Write({PreFiles[i] : i \in 1..Len(PreFiles)}, {PreFiles[i] : i \in 1..Len(PreFiles)})
             /\ phase' = "pages"
    <3>1. CssFile \in {PreFiles[i] : i \in 1..Len(PreFiles)}
      BY PreFilesFacts
    <3>. QED BY <2>2, <3>1, PreFilesFacts
  <2>. QED BY <2>1, <2>2 DEF pre_process
<1>2. /\ phase = "pre" /\ phase \notin Ends /\ UNCHANGED <<param, page, bitmaps>> /\ refs' = refs
      /\ tmpDir' = tmpDir /\ installed' = installed
  BY DEF pre_process, Ends
<1>3. page \in Int
  BY DEF Types
<1>4. \A f \in F : /\ f[1] = "tmp" => f \in R
                   /\ f[2] # "bitmap"
                   /\ (f \in R /\ f[1] = "tmp") \/ f[2] \in Output
  BY <1>1 DEF CssFile, OutlineFile, PagesFile, Output
<1>5. RefsKept' /\ TmpOnly' /\ Files' /\ (~param'.clean => tmp_files' = {})
  <2>1. page' \in Int /\ page <= page' /\ phase # "fallback" /\ phase # "throwing"
    BY <1>2, <1>3
  <2>. QED BY <1>1, <1>2, <1>4, <2>1, WriteKeeps
<1>6. Opened'
  <2>1. Opened
    BY <1>2 DEF Live
  <2>. QED BY <1>1, <1>2, <2>1 DEF Opened, BitmapFile, Working, Write, CssFile, Dir, bitmaps
<1>7. Types'
  BY <1>1, <1>2, <1>5 DEF Types, Phases, bitmaps
<1>. QED BY <1>1, <1>5, <1>6, <1>7 DEF Good, Live

LEMMA LoopKeeps ==
  ASSUME Types, Live, StartPage \/ EndPages \/ Throw \/ Process PROVE Good'
<1>1. page \in 1..(MaxPage + 1) /\ page \in Int
  BY DEF Types
<1>2. CASE StartPage
  <2>1. PICK F : Write(F, {}) /\ F = IF param.split_pages THEN {PageFile} ELSE {}
    BY <1>2 DEF StartPage
  <2>2. /\ phase = "pages" /\ phase' = "text" /\ UNCHANGED <<param, page, bitmaps>>
        /\ refs' = refs /\ tmpDir' = tmpDir /\ installed' = installed /\ page <= MaxPage
    BY <1>2 DEF StartPage
  <2>3. \A f \in F : f[1] # "tmp" /\ f[2] # "bitmap" /\ f[2] \in Output
    BY <2>1 DEF PageFile, Output
  <2>4. RefsKept' /\ TmpOnly' /\ Files' /\ (~param'.clean => tmp_files' = {})
    <3>1. /\ page' \in Int /\ page <= page' /\ phase # "fallback" /\ phase # "throwing"
          /\ phase \notin Ends
      BY <1>1, <2>2 DEF Ends
    <3>. QED BY <2>1, <2>2, <2>3, <3>1, WriteKeeps
  <2>5. Opened
    BY <2>2 DEF Live, Ends
  <2>6. Opened'
    BY <2>1, <2>2, <2>5 DEF Opened, BitmapFile, Working, Write, CssFile, PageFile, Dir, bitmaps
  <2>7. Types'
    BY <2>2, <2>4 DEF Types, Phases, bitmaps
  <2>. QED BY <2>2, <2>4, <2>6, <2>7 DEF Good, Live
<1>3. CASE EndPages \/ Throw \/ Process
  <2>1. /\ UNCHANGED <<param, page, disk, tmpDir, tmp_files, refCount, lost, installed, refs>>
        /\ phase \in {"main", "pre", "pages", "text", "background", "fallback", "post"}
        /\ \/ phase' = "throwing"
           \/ phase = "pages" /\ phase' = "post"
           \/ phase = "main" /\ phase' = "pre"
    BY <1>3 DEF EndPages, Throw, Process, bitmaps
  <2>2. Opened /\ RefsKept /\ TmpOnly /\ Files /\ phase \notin Ends
    BY <2>1 DEF Live, Ends
  <2>3. Types'
    BY <2>1 DEF Types, Phases
  <2>4. Opened'
    BY <2>1, <2>2 DEF Opened, BitmapFile, Working, CssFile, Dir
  <2>5. RefsKept' /\ TmpOnly' /\ Files'
    <3>1. RefsKept'
      BY <2>1, <2>2 DEF RefsKept, Kept, Lost, MainFile, BitmapFile
    <3>2. TmpOnly'
      BY <2>1, <2>2 DEF TmpOnly, Registered
    <3>3. ASSUME param.clean, NEW f \in disk PROVE Accounted(f)'
      <4>1. Accounted(f)
        BY <2>2, <3>3 DEF Files
      <4>. QED BY <2>1, <4>1 DEF Accounted, Referred, BitmapFile
    <3>4. Files'
      BY <2>1, <3>3 DEF Files
    <3>. QED BY <3>1, <3>2, <3>4
  <2>. QED BY <2>1, <2>3, <2>4, <2>5 DEF Good, Live
<1>. QED BY <1>2, <1>3

\* The page or the main file, where a reference is written, are there to stay.
LEMMA OpenedKept ==
  ASSUME Types, Opened, TmpOnly
  PROVE  /\ phase \in Working => Kept(Css)
         /\ phase \in {"text", "background", "fallback"} => Kept(CurPage)
         /\ param.split_pages /\ phase \in {"text", "background", "fallback"} => Kept(PageFile)
<1>1. ASSUME phase \in Working PROVE Kept(Css)
  <2>1. CASE param.css
    BY <2>1 DEF Css, Kept
  <2>2. CASE ~param.css
    <3>1. Css = <<"dest", "css", 0>> /\ Css \in disk
      BY <1>1, <2>2 DEF Css, CssFile, Dir, Opened
    <3>2. Css \notin tmp_files
      BY <3>1 DEF TmpOnly, Registered
    <3>. QED BY <3>1, <3>2 DEF Kept
  <2>. QED BY <2>1, <2>2
<1>2. ASSUME param.split_pages, phase \in {"text", "background", "fallback"}
      PROVE  Kept(PageFile)
  <2>1. PageFile = <<"dest", "page", page>> /\ PageFile \in disk
    BY <1>2 DEF PageFile, Opened
  <2>2. PageFile \notin tmp_files
    BY <2>1 DEF TmpOnly, Registered
  <2>. QED BY <2>1, <2>2 DEF Kept
<1>3. ~param.split_pages => Kept(CurPage)
  BY DEF CurPage, Kept
<1>. QED BY <1>1, <1>2, <1>3 DEF CurPage

LEMMA InstallKeeps == ASSUME Types, Live, install_font PROVE Good'
<1>1. PICK f \in Fonts \ installed :
        installed' = installed \cup {f} /\ (EmbedFont(f) \/ FontAborts(f))
  BY DEF install_font
<1>2. /\ phase = "text" /\ UNCHANGED <<param, page, tmpDir, bitmaps, refCount, lost>>
      /\ phase \notin Ends /\ page \in Int
  BY DEF install_font, Ends, Types, bitmaps
<1>3. Opened /\ RefsKept /\ TmpOnly /\ Files
  BY <1>2 DEF Live
<1>4. installed' \subseteq Fonts
  BY <1>1 DEF Types
<1>5. CASE FontAborts(f)
  <2>1. phase' = "aborted" /\ \E F : tmp_files' = Add(F)
    BY <1>5 DEF FontAborts, Write
  <2>2. ~param.clean => tmp_files' = {}
    BY <2>1, AddFacts
  <2>3. Types'
    BY <1>2, <1>4, <2>1, <2>2 DEF Types, Phases, Ends
  <2>. QED BY <2>1, <2>3 DEF Good, Live, Ends
<1>6. CASE /\ phase' = phase /\ UNCHANGED <<disk, tmp_files, refs>>
  <2>1. Types'
    BY <1>2, <1>4, <1>6 DEF Types
  <2>2. Opened'
    BY <1>2, <1>3, <1>6 DEF Opened, BitmapFile, Working, CssFile, PageFile, Dir
  <2>3. RefsKept'
    BY <1>2, <1>3, <1>6 DEF RefsKept, Kept, Lost, MainFile, BitmapFile
  <2>4. TmpOnly'
    BY <1>2, <1>3, <1>6 DEF TmpOnly, Registered
  <2>5. Files'
    BY <1>2, <1>3, <1>6 DEF Files, Accounted, Referred, BitmapFile
  <2>. QED BY <1>2, <1>6, <2>1, <2>2, <2>3, <2>4, <2>5 DEF Good, Live
<1>7. CASE /\ phase' = phase
           /\ \E hinted \in BOOLEAN :
                Write(FontFiles(f) \cup (IF hinted THEN {TmpFont(2)} ELSE {}),
                      FontFiles(f) \cup {TmpFont(2)})
           /\ refs' = refs \cup (IF param.font THEN {} ELSE {<<Css, FontFile(f)>>})
  <2>1. PICK F, R :
          /\ Write(F, R) /\ F \subseteq R /\ FontFiles(f) \subseteq F
          /\ R = FontFiles(f) \cup {TmpFont(2)}
    BY <1>7
  <2>2. ASSUME NEW g \in R
        PROVE  (g[1] = "tmp" \/ (g = FontFile(f) /\ ~param.font)) /\ g[2] # "bitmap"
    <3>1. g = RawFont(f) \/ g = TmpFont(1) \/ g = TmpFont(2) \/ g = FontFile(f)
      <4>1. g \in FontFiles(f) \cup {TmpFont(2)}
        BY <2>1, <2>2
      <4>. QED BY <4>1, Zenon DEF FontFiles
    <3>2. CASE g = RawFont(f) \/ g = TmpFont(1) \/ g = TmpFont(2)
      <4>1. RawFont(f)[1] = "tmp" /\ RawFont(f)[2] = "raw font"
        BY DEF RawFont
      <4>2. \A n : TmpFont(n)[1] = "tmp" /\ TmpFont(n)[2] = "font"
        BY DEF TmpFont
      <4>. QED BY <3>2, <4>1, <4>2
    <3>3. CASE g = FontFile(f)
      BY <3>3 DEF FontFile, Dir
    <3>. QED BY <3>1, <3>2, <3>3
  <2>3. FontFile(f) \in F
    BY <2>1 DEF FontFiles
  <2>4. ~param.font => Referred(FontFile(f))'
    <3>1. ASSUME ~param.font PROVE \E q \in refs' : q[2] = FontFile(f)
      <4>1. PICK q : q = <<Css, FontFile(f)>>
        OBVIOUS
      <4>2. q \in refs' /\ q[2] = FontFile(f)
        BY <1>7, <3>1, <4>1
      <4>. QED BY <4>2
    <3>. QED BY <1>2, <3>1 DEF Referred, FontFile
  <2>5. \A g \in F : g[1] = "tmp" \/ Referred(g)'
    <3>1. SUFFICES ASSUME NEW g \in F, g[1] # "tmp" PROVE Referred(g)'
      OBVIOUS
    <3>2. g = FontFile(f) /\ ~param.font /\ FontFile(f)' = FontFile(f)
      BY <1>2, <2>1, <2>2, <3>1 DEF FontFile
    <3>. QED BY <2>4, <3>2 DEF Referred
  <2>6. ~param.font => Kept(Css)' /\ Kept(FontFile(f))'
    <3>1. SUFFICES ASSUME ~param.font PROVE Kept(Css)' /\ Kept(FontFile(f))'
      OBVIOUS
    <3>2. disk' = disk \cup F /\ tmp_files' = Add(InTmp(R))
      BY <2>1 DEF Write
    <3>3. \A g \in tmp_files' : g \in tmp_files \/ g[1] = "tmp"
      BY <3>2, AddFacts DEF InTmp
    <3>4. PICK w : w = FontFile(f)
      OBVIOUS
    <3>5. w[1] = "dest" /\ w[2] = "web font" /\ w \in F
      BY <2>3, <3>1, <3>4 DEF FontFile, Dir
    <3>6. w \notin tmp_files' /\ w \in disk'
      BY <1>3, <3>2, <3>3, <3>5 DEF TmpOnly, Registered
    <3>7. Kept(w)'
      BY <3>5, <3>6 DEF Kept
    <3>8. FontFile(f)' = w
      BY <1>2, <3>4 DEF FontFile
    <3>9. Kept(FontFile(f))'
      BY <3>7, <3>8 DEF Kept
    <3>10. Css = MainFile \/ (Css = <<"dest", "css", 0>> /\ Css \in disk)
      BY <1>2, <1>3 DEF Css, CssFile, Dir, Opened, Working
    <3>11. Css' = Css
      BY <1>2 DEF Css, CssFile, MainFile, Dir
    <3>12. Css # MainFile => Css \notin tmp_files'
      BY <1>3, <3>3, <3>10 DEF TmpOnly, Registered
    <3>13. Kept(Css)'
      BY <3>2, <3>10, <3>11, <3>12 DEF Kept, MainFile
    <3>. QED BY <3>13, <3>9
  <2>7. \A q \in refs' : q \in refs \/ (Kept(q[1])' /\ Kept(q[2])')
    <3>1. SUFFICES ASSUME NEW q \in refs', q \notin refs PROVE Kept(q[1])' /\ Kept(q[2])'
      OBVIOUS
    <3>2. ~param.font /\ q = <<Css, FontFile(f)>>
      BY <1>7, <3>1
    <3>3. Css' = Css /\ FontFile(f)' = FontFile(f)
      BY <1>2 DEF Css, CssFile, MainFile, Dir, FontFile
    <3>. QED BY <2>6, <3>2, <3>3 DEF Kept
  <2>8. RefsKept' /\ TmpOnly' /\ Files' /\ (~param'.clean => tmp_files' = {})
    <3>1. /\ refs \subseteq refs' /\ page' \in Int /\ page <= page' /\ phase # "fallback"
          /\ phase # "throwing"
      BY <1>2, <1>7
    <3>2. \A g \in F : /\ g[1] = "tmp" => g \in R
                       /\ g[2] # "bitmap"
                       /\ (g \in R /\ g[1] = "tmp") \/ g[2] \in Output \/ Referred(g)'
      BY <2>1, <2>2, <2>5
    <3>. QED BY <1>2, <2>1, <2>7, <3>1, <3>2, WriteKeeps
  <2>9. Types'
    BY <1>2, <1>4, <1>7, <2>8 DEF Types
  <2>10. Opened'
    BY <1>2, <1>3, <1>7, <2>1 DEF Opened, BitmapFile, Working, CssFile, PageFile, Dir, Write
  <2>. QED BY <1>2, <1>7, <2>8, <2>9, <2>10 DEF Good, Live
<1>. QED BY <1>1, <1>5, <1>6, <1>7 DEF EmbedFont

LEMMA EndPageKeeps == ASSUME Types, Live, BeginEndPage PROVE Good'
<1>1. /\ phase = "text" /\ UNCHANGED <<param, disk, tmpDir, tmp_files, bitmaps, installed>>
      /\ refCount' = refCount /\ lost' = lost
      /\ page' = IF param.process_nontext THEN page ELSE page + 1
      /\ phase' = IF param.process_nontext THEN "background" ELSE "pages"
      /\ refs' = refs \cup (IF param.split_pages THEN {<<MainFile, PageFile>>} ELSE {})
  BY DEF BeginEndPage, bitmaps
<1>2. /\ Opened /\ RefsKept /\ TmpOnly /\ Files /\ phase \notin Ends
  BY <1>1 DEF Live, Ends
<1>3. page \in 1..MaxPage /\ MaxPage \in Int
  BY <1>1, PageOutputAssumption DEF Types
<1>4. /\ page' \in Int /\ page <= page' /\ page' \in 1..(MaxPage + 1)
      /\ \A b \in Bitmaps : refCount[b] \in Int
  BY <1>1, <1>3 DEF Types
<1>5. \A q \in refs' : q \in refs \/ (Kept(q[1])' /\ Kept(q[2])')
  <2>1. SUFFICES ASSUME NEW q \in refs', q \notin refs PROVE Kept(q[1])' /\ Kept(q[2])'
    OBVIOUS
  <2>2. PICK w : w = PageFile
    OBVIOUS
  <2>3. q = <<MainFile, w>> /\ param.split_pages
    BY <1>1, <2>1, <2>2
  <2>4. w \in disk /\ w[1] = "dest" /\ w[2] = "page"
    BY <1>1, <1>2, <2>2, <2>3 DEF Opened, PageFile
  <2>5. w \notin tmp_files
    BY <1>2, <2>4 DEF TmpOnly, Registered
  <2>6. Kept(w)' /\ Kept(MainFile)'
    BY <1>1, <2>4, <2>5 DEF Kept, MainFile
  <2>. QED BY <2>3, <2>6 DEF Kept, MainFile
<1>6. RefsKept' /\ TmpOnly' /\ Files'
  BY <1>1, <1>2, <1>4, <1>5, StepKeeps
<1>7. Opened'
  BY <1>1, <1>2 DEF Opened, BitmapFile, Working, CssFile, PageFile, Dir
<1>8. Types'
  BY <1>1, <1>3, <1>4, Counts DEF Types, Phases
<1>. QED BY <1>1, <1>6, <1>7, <1>8 DEF Good, Live

LEMMA RenderBitmapKeeps == ASSUME Types, Live, RenderBitmap PROVE Good'
<1>1. /\ phase \in {"fallback", "background"}
      /\ UNCHANGED <<param, tmpDir, bitmaps, refCount, lost, installed>>
      /\ \/ /\ Write({ImageFile}, {ImageFile}) /\ phase' = "pages" /\ page' = page + 1
            /\ refs' = refs \cup (IF param.image THEN {} ELSE {<<CurPage, ImageFile>>})
         \/ /\ Write({ImageFile}, {ImageFile}) /\ phase' = "throwing" /\ page' = page
            /\ refs' = refs
         \/ /\ UNCHANGED <<disk, tmp_files, refs>> /\ phase' = "pages" /\ page' = page + 1
  BY DEF RenderBitmap, PageDone, bitmaps
<1>2. /\ Opened /\ RefsKept /\ TmpOnly /\ Files /\ phase \notin Ends
  BY <1>1 DEF Live, Ends
<1>3. page \in 1..MaxPage /\ MaxPage \in Int
  BY <1>1, PageOutputAssumption DEF Types
<1>4. /\ (page' \in Int /\ page < page') \/ phase' = "throwing"
      /\ page <= page' /\ page' \in 1..(MaxPage + 1)
      /\ \A b \in Bitmaps : refCount[b] \in Int
  BY <1>1, <1>3 DEF Types
<1>5. CASE UNCHANGED <<disk, tmp_files, refs>> /\ phase' = "pages" /\ page' = page + 1
  <2>1. RefsKept' /\ TmpOnly' /\ Files'
    BY <1>1, <1>2, <1>4, <1>5, StepKeeps
  <2>2. Opened'
    BY <1>1, <1>2, <1>5 DEF Opened, BitmapFile, Working, CssFile, Dir
  <2>3. Types'
    BY <1>1, <1>3, <1>4, <1>5, Counts DEF Types, Phases
  <2>. QED BY <1>1, <1>5, <2>1, <2>2, <2>3 DEF Good, Live
<1>6. CASE /\ Write({ImageFile}, {ImageFile}) /\ phase' = "throwing" /\ page' = page
           /\ refs' = refs
  <2>1. PICK w : w = ImageFile
    OBVIOUS
  <2>2. w[1] = Dir(param.image) /\ w[2] = "image"
    BY <2>1 DEF ImageFile
  <2>3. disk' = disk \cup {w}
    BY <1>6, <2>1 DEF Write
  <2>4. RefsKept' /\ TmpOnly' /\ Files' /\ (~param'.clean => tmp_files' = {})
    <3>1. /\ refs \subseteq refs' /\ \A q \in refs' : q \in refs
          /\ phase # "throwing" /\ Write({w}, {w})
      BY <1>1, <1>6, <2>1
    <3>2. \A g \in {w} : /\ g[2] # "bitmap"
                         /\ g[1] = "tmp" => g \in {w}
      BY <2>2
    <3>. QED BY <1>1, <1>2, <1>4, <1>6, <3>1, <3>2, WriteKeeps
  <2>5. Opened'
    BY <1>1, <1>2, <1>6, <2>3 DEF Opened, BitmapFile, Working, CssFile, Dir
  <2>6. Types'
    BY <1>1, <1>3, <1>4, <1>6, <2>4, Counts DEF Types, Phases
  <2>. QED BY <1>6, <2>4, <2>5, <2>6 DEF Good, Live
<1>7. CASE /\ Write({ImageFile}, {ImageFile}) /\ phase' = "pages" /\ page' = page + 1
           /\ refs' = refs \cup (IF param.image THEN {} ELSE {<<CurPage, ImageFile>>})
  <2>1. PICK w, c : w = ImageFile /\ c = CurPage
    OBVIOUS
  <2>2. w[1] = Dir(param.image) /\ w[2] = "image"
    BY <2>1 DEF ImageFile
  <2>3. disk' = disk \cup {w} /\ tmp_files' = Add(InTmp({w}))
    BY <1>7, <2>1 DEF Write
  <2>4. \A g \in tmp_files' : g \in tmp_files \/ (g = w /\ g[1] = "tmp")
    BY <2>3, AddFacts DEF InTmp
  <2>5. \A q \in refs' : q \in refs \/ (q = <<c, w>> /\ ~param.image)
    BY <1>7, <2>1
  <2>6. ~param.image => w \notin tmp_files'
    BY <1>2, <2>2, <2>4 DEF TmpOnly, Registered, Dir
  <2>7. ~param.image => Kept(w)'
    BY <2>2, <2>3, <2>6 DEF Kept, Dir
  <2>8. Kept(c)'
    <3>1. c = MainFile \/ (c \in disk /\ c[1] = "dest" /\ c[2] = "page")
      BY <1>1, <1>2, <2>1 DEF Opened, CurPage, PageFile
    <3>2. c # MainFile => c \notin tmp_files'
      BY <1>2, <2>2, <2>4, <3>1 DEF TmpOnly, Registered
    <3>. QED BY <2>3, <3>1, <3>2 DEF Kept, MainFile
  <2>9. \A q \in refs' : q \in refs \/ (Kept(q[1])' /\ Kept(q[2])')
    BY <2>5, <2>7, <2>8 DEF Kept
  <2>10. w[1] # "tmp" => Referred(w)'
    <3>1. SUFFICES ASSUME w[1] # "tmp" PROVE \E q \in refs' : q[2] = w
      BY DEF Referred
    <3>2. PICK q : q = <<c, w>>
      OBVIOUS
    <3>3. ~param.image
      BY <2>2, <3>1 DEF Dir
    <3>4. q \in refs' /\ q[2] = w
      BY <1>7, <2>1, <3>2, <3>3
    <3>. QED BY <3>4
  <2>11. RefsKept' /\ TmpOnly' /\ Files' /\ (~param'.clean => tmp_files' = {})
    <3>1. refs \subseteq refs' /\ phase # "throwing" /\ Write({w}, {w})
      BY <1>1, <1>7, <2>1
    <3>2. \A g \in {w} : /\ g[2] # "bitmap"
                         /\ (g \in {w} /\ g[1] = "tmp") \/ g[2] \in Output \/ Referred(g)'
      BY <2>2, <2>10
    <3>3. page < page'
      BY <1>3, <1>7
    <3>. QED BY <1>1, <1>2, <1>4, <2>9, <3>1, <3>2, <3>3, WriteKeeps
  <2>12. Opened'
    BY <1>1, <1>2, <1>7, <2>3 DEF Opened, BitmapFile, Working, CssFile, Dir
  <2>13. Types'
    BY <1>1, <1>3, <1>4, <1>7, <2>11, Counts DEF Types, Phases
  <2>. QED BY <1>7, <2>11, <2>12, <2>13 DEF Good, Live
<1>. QED BY <1>1, <1>5, <1>7, <1>6

LEMMA PostKeeps == ASSUME Types, Live, post_process PROVE Good'
<1>1. /\ phase = "post" /\ disk \cup {MainFile} \subseteq disk'
      /\ \A f \in disk' : f \in disk \/ f = MainFile \/ f \in DataFiles
      /\ UNCHANGED <<param, page, tmpDir, tmp_files, bitmaps, refCount, lost, installed>>
      /\ \/ /\ phase' = "end" /\ DataFiles \subseteq disk'
            /\ refs' = refs \cup {<<MainFile, f>> : f \in DataFiles}
                            \cup (IF param.css THEN {} ELSE {<<MainFile, CssFile>>})
         \/ phase' = "throwing" /\ refs' = refs
  <2>1. CASE /\ phase' = "end"
             /\ disk' = disk \cup {MainFile} \cup DataFiles
             /\ refs' = refs \cup {<<MainFile, f>> : f \in DataFiles}
                             \cup (IF param.css THEN {} ELSE {<<MainFile, CssFile>>})
    BY <2>1 DEF post_process, bitmaps
  <2>2. CASE /\ phase' = "throwing"
             /\ \E copied \in SUBSET DataFiles : disk' = disk \cup {MainFile} \cup copied
             /\ UNCHANGED refs
    BY <2>2 DEF post_process, bitmaps
  <2>. QED BY <2>1, <2>2 DEF post_process
<1>2. /\ Opened /\ RefsKept /\ TmpOnly /\ Files /\ phase \notin Ends
  BY <1>1 DEF Live, Ends
<1>3. page \in Int /\ page' \in Int /\ page <= page' /\ \A b \in Bitmaps : refCount[b] \in Int
  BY <1>1 DEF Types
<1>4. \A f \in DataFiles : f[1] = "dest" /\ f[2] \notin {"svg", "bitmap"}
  <2>1. SUFFICES ASSUME NEW f \in DataFiles PROVE f[1] = "dest" /\ f[2] \notin {"svg", "bitmap"}
    OBVIOUS
  <2>2. PICK k \in {"data css", "data js", "data image"} : f = <<"dest", k, 0>>
    BY DEF DataFiles
  <2>. QED BY <2>2
<1>5. \A f \in DataFiles : f \notin tmp_files
  BY <1>2, <1>4 DEF TmpOnly, Registered
<1>6. \A q \in refs' : q \in refs \/ (Kept(q[1])' /\ Kept(q[2])')
  <2>1. SUFFICES ASSUME NEW q \in refs', q \notin refs PROVE Kept(q[1])' /\ Kept(q[2])'
    OBVIOUS
  <2>2. PICK w : w = CssFile
    OBVIOUS
  <2>3. CASE q = <<MainFile, w>> /\ ~param.css
    <3>1. w \in disk /\ w[1] = "dest" /\ w[2] = "css"
      BY <1>1, <1>2, <2>2, <2>3 DEF Opened, BitmapFile, Working, CssFile, Dir
    <3>2. w \notin tmp_files
      BY <1>2, <3>1 DEF TmpOnly, Registered
    <3>3. Kept(w)' /\ Kept(MainFile)'
      BY <1>1, <3>1, <3>2 DEF Kept, MainFile
    <3>. QED BY <2>3, <3>3 DEF Kept, MainFile
  <2>4. CASE phase' = "end" /\ \E f \in DataFiles : q = <<MainFile, f>>
    <3>1. PICK f \in DataFiles : q = <<MainFile, f>>
      BY <2>4
    <3>2. f \in disk' /\ f \notin tmp_files'
      BY <1>1, <1>5, <2>4
    <3>3. Kept(f)' /\ Kept(MainFile)'
      BY <1>4, <3>2 DEF Kept, MainFile
    <3>. QED BY <3>1, <3>3 DEF Kept, MainFile
  <2>. QED BY <1>1, <2>1, <2>2, <2>3, <2>4
<1>7. Accounted(MainFile)'
  BY DEF Accounted, MainFile, Output
<1>8. ASSUME NEW f \in DataFiles, f \in disk' PROVE Accounted(f)'
  <2>1. phase' = "throwing" \/ Referred(f)'
    <3>1. SUFFICES ASSUME phase' = "end" PROVE \E q \in refs' : q[2] = f
      BY <1>1 DEF Referred
    <3>2. PICK q : q = <<MainFile, f>>
      OBVIOUS
    <3>3. q \in refs' /\ q[2] = f
      BY <1>1, <3>1, <3>2
    <3>. QED BY <3>3
  <2>. QED BY <1>4, <2>1 DEF Accounted
<1>9. RefsKept' /\ TmpOnly' /\ Files'
  <2>1. /\ disk \subseteq disk' /\ refs \subseteq refs' /\ tmp_files \subseteq tmp_files'
        /\ \A f \in tmp_files' : f \in tmp_files
        /\ \A b \in Bitmaps : refCount'[b] \in Int /\ refCount[b] <= refCount'[b]
        /\ \A b \in Bitmaps : refCount'[b] > 0 => refCount[b] > 0
        /\ phase \notin {"fallback", "throwing"}
    BY <1>1, <1>3
  <2>2. \A f \in disk' : f \in disk \/ Accounted(f)'
    BY <1>1, <1>7, <1>8 DEF MainFile, Accounted
  <2>. QED BY <1>1, <1>2, <1>3, <1>6, <2>1, <2>2, StepKeeps
<1>10. Opened'
  BY <1>1, <1>2 DEF Opened, BitmapFile, Working, CssFile, MainFile, Dir
<1>11. Types'
  BY <1>1 DEF Types, Phases
<1>. QED BY <1>1, <1>9, <1>10, <1>11 DEF Good, Live

\* The files that a page with an SVG adds, whatever becomes of the SVG.
SvgDrawn(draws, failed) ==
  /\ phase = "background" /\ param.svg
  /\ draws \in Drawings /\ failed \subseteq First(draws)
  /\ lost' = lost \cup failed
  /\ disk' = disk \cup {BitmapFile(b) : b \in First(draws) \ failed} \cup {SvgFile}
  /\ UNCHANGED <<param, tmpDir, installed>>

LEMMA SvgFacts ==
  ASSUME Types, Live, NEW draws, NEW failed, SvgDrawn(draws, failed),
         NEW used, used = Used(draws), NEW w, w = SvgFile
  PROVE  /\ Opened /\ RefsKept /\ TmpOnly /\ Files /\ phase = "background"
         /\ phase \notin Ends
         /\ page \in 1..MaxPage /\ MaxPage \in Int
         /\ used \subseteq Bitmaps /\ (param.image => used = {})
         /\ \A b \in Bitmaps : draws[b] \in 0..MaxDraws /\ (b \in used <=> draws[b] > 0)
         /\ lost \subseteq lost' /\ lost' \subseteq Bitmaps
         /\ \A b \in lost' : b \in lost \/ (b \in used /\ refCount[b] = -1)
         /\ w[1] = Dir(param.image) /\ w[2] = "svg" /\ w[3] = page /\ w' = w
         /\ disk \subseteq disk' /\ w \in disk'
         /\ \A f \in disk' : \/ f \in disk \/ f = w
                             \/ \E b \in used : f = BitmapFile(b) /\ refCount[b] = -1
         /\ \A b \in used : BitmapFile(b) \in disk' \/ b \in lost'
         /\ \A b \in Bitmaps : refCount[b] \in Int /\ refCount[b] >= -1
<1>1. phase = "background" /\ phase \notin Ends
  BY DEF SvgDrawn, Ends
<1>2. Opened /\ RefsKept /\ TmpOnly /\ Files
  BY <1>1 DEF Live
<1>3. /\ page \in 1..MaxPage /\ MaxPage \in Int
      /\ \A b \in Bitmaps : refCount[b] \in Int /\ refCount[b] >= -1
  BY <1>1, PageOutputAssumption DEF Types
<1>4. /\ used \subseteq Bitmaps
      /\ \A b \in Bitmaps : draws[b] \in 0..MaxDraws /\ (b \in used <=> draws[b] > 0)
  <2>1. \A b \in Bitmaps : draws[b] \in 0..MaxDraws
    BY PageOutputAssumption DEF SvgDrawn, Drawings
  <2>. QED BY <2>1 DEF Used
<1>5. param.image => used = {}
  <2>1. SUFFICES ASSUME param.image PROVE \A b \in Bitmaps : ~(draws[b] > 0)
    BY DEF Used
  <2>2. \A b \in Bitmaps : draws[b] = 0
    BY <2>1 DEF SvgDrawn, Types, Drawings
  <2>. QED BY <2>2
<1>6. \A b : b \in First(draws) <=> b \in used /\ refCount[b] = -1
  BY DEF First
<1>7. /\ lost \subseteq lost' /\ lost' \subseteq Bitmaps
       /\ \A b \in lost' : b \in lost \/ (b \in used /\ refCount[b] = -1)
  BY <1>4, <1>6 DEF SvgDrawn, Types
<1>8. w[1] = Dir(param.image) /\ w[2] = "svg" /\ w[3] = page
  BY DEF SvgFile
<1>9. disk' = disk \cup {BitmapFile(b) : b \in First(draws) \ failed} \cup {w}
  BY DEF SvgDrawn
<1>10. /\ disk \subseteq disk' /\ w \in disk'
      /\ \A f \in disk' : \/ f \in disk \/ f = w
                          \/ \E b \in used : f = BitmapFile(b) /\ refCount[b] = -1
  BY <1>6, <1>9
<1>11. ASSUME NEW b \in used PROVE BitmapFile(b) \in disk' \/ b \in lost'
  <2>1. CASE refCount[b] = -1
    <3>1. b \in First(draws)
      BY <1>6, <2>1
    <3>2. b \notin failed => b \in First(draws) \ failed
      BY <3>1
    <3>3. b \notin failed => BitmapFile(b) \in disk'
      BY <1>9, <3>2
    <3>4. b \in failed => b \in lost'
      BY Zenon DEF SvgDrawn
    <3>. QED BY <3>3, <3>4
  <2>2. CASE refCount[b] # -1
    BY <1>2, <1>4, <1>7, <1>10, <2>2 DEF Opened
  <2>. QED BY <2>1, <2>2
<1>12. w' = w
  BY <1>1 DEF SvgDrawn
<1>. QED BY <1>1, <1>2, <1>3, <1>4, <1>5, <1>7, <1>8, <1>10, <1>11, <1>12

\* The SVG is not kept: the bitmaps it dumped are counted as unused.
LEMMA SvgDropped ==
  ASSUME Types, Live, NEW draws, NEW failed, SvgDrawn(draws, failed), page' = page,
         refs' = refs, refCount' = Dumped(draws),
         \/ phase' = "throwing" /\ tmp_files' = Add(InTmp({SvgFile}))
         \/ phase' = "fallback" /\ tmp_files' = Add({SvgFile})
  PROVE  Good'
<1>1. PICK w, used : w = SvgFile /\ used = Used(draws)
  OBVIOUS
<1>2. /\ Opened /\ RefsKept /\ TmpOnly /\ Files /\ phase = "background"
      /\ phase \notin Ends
      /\ page \in 1..MaxPage /\ MaxPage \in Int
      /\ used \subseteq Bitmaps /\ (param.image => used = {})
      /\ w[1] = Dir(param.image) /\ w[2] = "svg" /\ w[3] = page
      /\ lost \subseteq lost' /\ lost' \subseteq Bitmaps
      /\ \A b \in lost' : b \in lost \/ (b \in used /\ refCount[b] = -1)
      /\ disk \subseteq disk' /\ w \in disk'
      /\ \A f \in disk' : \/ f \in disk \/ f = w
                          \/ \E b \in used : f = BitmapFile(b) /\ refCount[b] = -1
      /\ \A b \in used : BitmapFile(b) \in disk' \/ b \in lost'
      /\ \A b \in Bitmaps : refCount[b] \in Int /\ refCount[b] >= -1
  BY <1>1, SvgFacts
<1>3. /\ refCount' \in [Bitmaps -> Int]
      /\ \A b \in Bitmaps :
           /\ refCount[b] <= refCount'[b] /\ refCount'[b] >= -1
           /\ refCount'[b] = refCount[b] \/ refCount'[b] = 0
           /\ refCount'[b] > 0 => refCount[b] > 0
           /\ b \in used /\ refCount[b] = -1 => refCount'[b] = 0
           /\ refCount[b] # -1 => refCount'[b] # -1
           /\ refCount'[b] # -1 => refCount[b] # -1 \/ b \in used
  <2>1. \A b \in Bitmaps :
          refCount'[b] = IF b \in used /\ refCount[b] = -1 THEN 0 ELSE refCount[b]
    BY <1>1 DEF Dumped, First
  <2>2. \A b \in Bitmaps : refCount'[b] \in Int
    BY <1>2, <2>1
  <2>3. refCount' \in [Bitmaps -> Int]
    <3>1. refCount' = [b \in Bitmaps |-> refCount'[b]]
      BY DEF Dumped
    <3>. QED BY <2>2, <3>1
  <2>. QED BY <1>2, <2>1, <2>3
<1>4. /\ tmp_files \subseteq tmp_files'
      /\ \A f \in tmp_files' : \/ f \in tmp_files \/ f[1] = "tmp"
                               \/ f = w /\ phase' = "fallback"
      /\ ~param.clean => tmp_files' = {}
      /\ param.clean /\ (w[1] = "tmp" \/ phase' = "fallback") => w \in tmp_files'
  <2>1. CASE phase' = "throwing" /\ tmp_files' = Add(InTmp({w}))
    <3>1. \A f : f \in InTmp({w}) <=> f = w /\ f[1] = "tmp"
      BY DEF InTmp
    <3>2. /\ tmp_files \subseteq tmp_files'
          /\ \A f \in tmp_files' : f \in tmp_files \/ f \in InTmp({w})
          /\ param.clean => InTmp({w}) \subseteq tmp_files'
          /\ ~param.clean => tmp_files' = {}
      BY <2>1, AddFacts
    <3>. QED BY <2>1, <3>1, <3>2
  <2>2. CASE phase' = "fallback" /\ tmp_files' = Add({w})
    BY <2>2, AddFacts
  <2>. QED BY <1>1, <2>1, <2>2
<1>5. w[1] = "tmp" \/ w[1] = "dest"
  BY <1>2 DEF Dir
<1>6. param.clean => Accounted(w)'
  <2>1. phase' = "throwing" \/ phase' = "fallback"
    OBVIOUS
  <2>. QED BY <1>2, <1>4, <2>1 DEF Accounted
<1>7. ASSUME NEW b \in used, refCount[b] = -1 PROVE Accounted(BitmapFile(b))'
  <2>1. PICK f : f = BitmapFile(b)
    OBVIOUS
  <2>2. f[1] = "dest" /\ f[2] = "bitmap"
    BY <2>1 DEF BitmapFile
  <2>3. b \in Bitmaps /\ refCount'[b] = 0
    BY <1>2, <1>3, <1>7
  <2>4. Accounted(f)'
    BY <2>1, <2>2, <2>3 DEF Accounted, BitmapFile
  <2>. QED BY <2>1, <2>4 DEF Accounted, BitmapFile
<1>8. RefsKept' /\ TmpOnly' /\ Files'
  <2>1. /\ page' \in Int /\ page <= page' /\ param' = param /\ phase \notin {"fallback", "throwing"}
        /\ \A b \in Bitmaps : refCount'[b] \in Int /\ refCount[b] <= refCount'[b]
        /\ \A b \in Bitmaps : refCount'[b] > 0 => refCount[b] > 0
    BY <1>2, <1>3 DEF SvgDrawn
  <2>2. \A f \in tmp_files' : \/ f \in tmp_files \/ f[1] = "tmp"
                              \/ /\ f[1] = "dest" /\ f[2] = "svg" /\ f[3] = page
                                 /\ page' = page /\ phase' \in {"fallback", "throwing"}
    BY <1>2, <1>4, <1>5
  <2>3. param.clean => \A f \in disk' : f \in disk \/ Accounted(f)'
    BY <1>2, <1>6, <1>7 DEF Accounted, BitmapFile
  <2>. QED BY <1>2, <1>4, <2>1, <2>2, <2>3, StepKeeps
<1>9. Opened'
  BY <1>2, <1>3 DEF Opened, BitmapFile, Working, CssFile, PageFile, MainFile, Dir, SvgDrawn
<1>10. \A b \in Bitmaps : refCount'[b] <= MaxDraws * (page' - 1)
  <2>1. MaxDraws * (page - 1) \in Nat
    BY <1>2, PageOutputAssumption
  <2>2. \A b \in Bitmaps : refCount[b] <= MaxDraws * (page - 1)
    BY DEF Types
  <2>. QED BY <1>2, <1>3, <2>1, <2>2
<1>11. \A b \in lost' : refCount'[b] # -1
  BY <1>2, <1>3 DEF Types
<1>12. Types'
  BY <1>2, <1>3, <1>4, <1>10, <1>11 DEF Types, Phases, SvgDrawn
<1>. QED BY <1>8, <1>9, <1>12 DEF Good, Live

\* The SVG is kept: its bitmaps are counted, and it refers to them.
LEMMA SvgKept ==
  ASSUME Types, Live, NEW draws, NEW failed, SvgDrawn(draws, failed), PageDone,
         refCount' = Counted(draws), tmp_files' = Add(InTmp({SvgFile})),
         refs' = refs \cup {<<SvgFile, BitmapFile(b)>> : b \in Used(draws)}
                      \cup (IF param.image THEN {} ELSE {<<CurPage, SvgFile>>})
  PROVE  Good'
<1>1. PICK w, p, used : w = SvgFile /\ p = CurPage /\ used = Used(draws)
  OBVIOUS
<1>2. /\ Opened /\ RefsKept /\ TmpOnly /\ Files /\ phase = "background"
      /\ phase \notin Ends
      /\ page \in 1..MaxPage /\ MaxPage \in Int
      /\ used \subseteq Bitmaps /\ (param.image => used = {})
      /\ \A b \in Bitmaps : draws[b] \in 0..MaxDraws /\ (b \in used <=> draws[b] > 0)
      /\ lost \subseteq lost' /\ lost' \subseteq Bitmaps
      /\ \A b \in lost' : b \in lost \/ (b \in used /\ refCount[b] = -1)
      /\ w[1] = Dir(param.image) /\ w[2] = "svg" /\ w[3] = page
      /\ disk \subseteq disk' /\ w \in disk'
      /\ \A f \in disk' : \/ f \in disk \/ f = w
                          \/ \E b \in used : f = BitmapFile(b) /\ refCount[b] = -1
      /\ \A b \in used : BitmapFile(b) \in disk' \/ b \in lost'
      /\ \A b \in Bitmaps : refCount[b] \in Int /\ refCount[b] >= -1
  BY <1>1, SvgFacts
<1>3. page' = page + 1 /\ phase' = "pages" /\ page' \in 1..(MaxPage + 1)
  BY <1>2 DEF PageDone
<1>4. MaxDraws \in Nat /\ MaxDraws * (page - 1) \in Nat
       /\ MaxDraws * (page' - 1) = MaxDraws * (page - 1) + MaxDraws
  <2>1. MaxDraws \in Nat /\ page \in Nat \ {0}
    BY <1>2, PageOutputAssumption
  <2>2. MaxDraws * (page - 1) \in Nat
    BY <2>1
  <2>3. MaxDraws * ((page - 1) + 1) = MaxDraws * (page - 1) + MaxDraws
    BY <2>1
  <2>. QED BY <1>3, <2>1, <2>2, <2>3
<1>5. /\ refCount' \in [Bitmaps -> Int]
      /\ \A b \in Bitmaps :
           /\ refCount[b] <= refCount'[b] /\ refCount'[b] >= -1
           /\ refCount'[b] <= MaxDraws * (page' - 1)
           /\ refCount'[b] > 0 => refCount[b] > 0 \/ b \in used
           /\ b \in used => refCount'[b] > 0
           /\ refCount[b] # -1 => refCount'[b] # -1
           /\ refCount'[b] # -1 => refCount[b] # -1 \/ b \in used
  <2>1. \A b \in Bitmaps :
          refCount'[b] = IF b \notin used THEN refCount[b]
                         ELSE IF refCount[b] = -1 THEN draws[b] ELSE refCount[b] + draws[b]
    BY <1>1, <1>2 DEF Dumped, Counted, First
  <2>2. \A b \in Bitmaps : refCount[b] <= MaxDraws * (page - 1)
    BY DEF Types
  <2>3. \A b \in Bitmaps : refCount'[b] \in Int
    BY <1>2, <2>1
  <2>4. refCount' \in [Bitmaps -> Int]
    <3>1. refCount' = [b \in Bitmaps |-> refCount'[b]]
      BY DEF Counted
    <3>. QED BY <2>3, <3>1
  <2>5. \A b \in Bitmaps : refCount'[b] <= MaxDraws * (page - 1) + MaxDraws
    BY <1>2, <1>4, <2>1, <2>2
  <2>. QED BY <1>2, <1>4, <2>1, <2>4, <2>5
<1>6. /\ tmp_files \subseteq tmp_files'
      /\ \A f \in tmp_files' : f \in tmp_files \/ (f = w /\ f[1] = "tmp")
      /\ ~param.clean => tmp_files' = {}
      /\ param.clean /\ w[1] = "tmp" => w \in tmp_files'
  <2>1. \A f : f \in InTmp({w}) <=> f = w /\ f[1] = "tmp"
    BY DEF InTmp
  <2>2. tmp_files' = Add(InTmp({w}))
    BY <1>1
  <2>. QED BY <2>1, <2>2, AddFacts
<1>7. \A q \in refs' : \/ q \in refs
                       \/ q = <<p, w>> /\ ~param.image
                       \/ \E b \in used : q = <<w, BitmapFile(b)>>
  BY <1>1
<1>8. ~param.image => w \notin tmp_files'
  <2>1. SUFFICES ASSUME ~param.image, w \in tmp_files' PROVE FALSE
    OBVIOUS
  <2>2. w[1] = "dest" /\ w \in tmp_files
    BY <1>2, <1>6, <2>1 DEF Dir
  <2>. QED BY <1>2, <2>2 DEF TmpOnly, Registered
<1>9. ~param.image => Kept(w)'
  <2>1. page \in 1..(page' - 1)
    BY <1>2, <1>3
  <2>. QED BY <1>2, <1>8, <2>1 DEF Kept, Dir
<1>10. Kept(p)'
  <2>1. p = MainFile \/ (p \in disk /\ p[1] = "dest" /\ p[2] = "page")
    BY <1>1, <1>2 DEF Opened, CurPage, PageFile
  <2>2. p # MainFile => p \notin tmp_files'
    BY <1>2, <1>6, <2>1 DEF TmpOnly, Registered
  <2>. QED BY <1>2, <2>1, <2>2 DEF Kept, MainFile
<1>11. ASSUME NEW b \in used, NEW f, f = BitmapFile(b) PROVE Kept(f)'
  <2>1. f[1] = "dest" /\ f[2] = "bitmap" /\ (f \in disk' \/ Lost(f)')
    BY <1>2, <1>11 DEF BitmapFile, Lost
  <2>2. f \notin tmp_files'
    BY <1>2, <1>6, <2>1 DEF TmpOnly, Registered
  <2>3. b \in Bitmaps /\ refCount'[b] > 0
    BY <1>2, <1>5
  <2>. QED BY <1>11, <2>1, <2>2, <2>3 DEF Kept, BitmapFile
<1>12. \A q \in refs' : q \in refs \/ (Kept(q[1])' /\ Kept(q[2])')
  <2>1. SUFFICES ASSUME NEW q \in refs', q \notin refs PROVE Kept(q[1])' /\ Kept(q[2])'
    OBVIOUS
  <2>2. CASE q = <<p, w>> /\ ~param.image
    BY <1>9, <1>10, <2>2 DEF Kept
  <2>3. CASE \E b \in used : q = <<w, BitmapFile(b)>>
    <3>1. PICK b \in used : q = <<w, BitmapFile(b)>>
      BY <2>3
    <3>2. ~param.image
      BY <1>2, <3>1
    <3>3. PICK g : g = BitmapFile(b)
      OBVIOUS
    <3>4. Kept(g)' /\ Kept(w)'
      BY <1>9, <1>11, <3>2, <3>3
    <3>. QED BY <3>1, <3>3, <3>4 DEF Kept
  <2>. QED BY <1>7, <2>1, <2>2, <2>3
<1>13. ASSUME NEW b \in used, NEW f, f = BitmapFile(b) PROVE Referred(f)'
  <2>1. PICK q : q = <<w, f>>
    OBVIOUS
  <2>2. q \in refs' /\ q[2] = f
    BY <1>1, <1>13, <2>1
  <2>. QED BY <2>2 DEF Referred
<1>14. param.clean => Accounted(w)'
  <2>1. w[1] = "tmp" \/ ~param.image
    BY <1>2 DEF Dir
  <2>2. ~param.image => Referred(w)'
    <3>1. SUFFICES ASSUME ~param.image PROVE \E q \in refs' : q[2] = w
      BY DEF Referred
    <3>2. PICK q : q = <<p, w>>
      OBVIOUS
    <3>3. q \in refs' /\ q[2] = w
      BY <1>1, <3>1, <3>2
    <3>. QED BY <3>3
  <2>. QED BY <1>2, <1>6, <2>1, <2>2 DEF Accounted
<1>15. ASSUME NEW b \in used, NEW f, f = BitmapFile(b) PROVE Accounted(f)'
  <2>1. f[1] = "dest" /\ f[2] = "bitmap" /\ Referred(f)'
    BY <1>13, <1>15 DEF BitmapFile
  <2>2. b \in Bitmaps /\ refCount'[b] \in Int /\ refCount'[b] > 0
    BY <1>2, <1>5
  <2>3. refCount'[b] >= 0
    BY <2>2
  <2>. QED BY <1>15, <2>1, <2>2, <2>3 DEF Accounted, BitmapFile
<1>16. RefsKept' /\ TmpOnly' /\ Files'
  <2>1. /\ page' \in Int /\ page <= page' /\ page < page' /\ param' = param
        /\ refs \subseteq refs' /\ phase \notin {"fallback", "throwing"}
        /\ \A b \in Bitmaps : refCount'[b] \in Int /\ refCount[b] <= refCount'[b]
    BY <1>2, <1>3, <1>5 DEF SvgDrawn
  <2>2. \A b \in Bitmaps : refCount'[b] > 0 => refCount[b] > 0 \/ Referred(BitmapFile(b))'
    <3>1. SUFFICES ASSUME NEW b \in Bitmaps, refCount'[b] > 0, ~(refCount[b] > 0)
                   PROVE  Referred(BitmapFile(b))'
      OBVIOUS
    <3>2. PICK f : f = BitmapFile(b)
      OBVIOUS
    <3>3. Referred(f)'
      BY <1>5, <1>13, <3>1, <3>2
    <3>. QED BY <3>2, <3>3 DEF Referred, BitmapFile
  <2>3. \A f \in tmp_files' : f \in tmp_files \/ f[1] = "tmp"
    BY <1>6
  <2>4. param.clean => \A f \in disk' : f \in disk \/ Accounted(f)'
    BY <1>2, <1>14, <1>15 DEF Accounted
  <2>. QED BY <1>2, <1>6, <1>12, <2>1, <2>2, <2>3, <2>4, StepKeeps
<1>17. Opened'
  BY <1>2, <1>3, <1>5 DEF Opened, BitmapFile, Working, CssFile, Dir, SvgDrawn
<1>18. \A b \in lost' : refCount'[b] # -1
  <2>1. \A b \in used : refCount'[b] # -1
    BY <1>2, <1>5
  <2>. QED BY <1>2, <1>5, <2>1 DEF Types
<1>19. Types'
  BY <1>2, <1>3, <1>5, <1>6, <1>18 DEF Types, Phases, SvgDrawn
<1>. QED BY <1>3, <1>16, <1>17, <1>19 DEF Good, Live

LEMMA RenderSvgKeeps == ASSUME Types, Live, RenderSvg PROVE Good'
<1>1. PICK draws, failed :
        /\ SvgDrawn(draws, failed)
        /\ \/ /\ phase' = "throwing" /\ tmp_files' = Add(InTmp({SvgFile}))
              /\ refCount' = Dumped(draws) /\ page' = page /\ refs' = refs
           \/ /\ phase' = "fallback" /\ tmp_files' = Add({SvgFile})
              /\ refCount' = Dumped(draws) /\ page' = page /\ refs' = refs
           \/ /\ PageDone /\ tmp_files' = Add(InTmp({SvgFile})) /\ refCount' = Counted(draws)
              /\ refs' = refs \cup {<<SvgFile, BitmapFile(b)>> : b \in Used(draws)}
                              \cup (IF param.image THEN {} ELSE {<<CurPage, SvgFile>>})
  BY DEF RenderSvg, Dump, SvgDrawn
<1>. QED BY <1>1, SvgDropped, SvgKept

-----------------------------------------------------------------------------
(* The end, and the theorems.                                              *)
LEMMA CleanUpKeeps == ASSUME Types, Live, CleanUp PROVE IInv'
<1>1. /\ phase \in {"end", "throwing"} /\ phase' \in {"done", "failed"}
      /\ phase' = "done" => phase = "end"
      /\ tmp_files' = Add(Unused)
      /\ disk' = (IF param.clean THEN disk \ tmp_files' ELSE disk)
      /\ tmpDir' = (~param.clean \/ InTmp(disk') # {})
      /\ UNCHANGED <<param, page, bitmaps, refCount, lost, installed, refs>>
  BY DEF CleanUp, bitmaps
<1>2. /\ Opened /\ RefsKept /\ TmpOnly /\ Files
  BY <1>1 DEF Live, Ends
<1>3. /\ tmp_files \subseteq tmp_files'
      /\ \A f \in tmp_files' : f \in tmp_files \/ f \in Unused
      /\ param.clean => Unused \subseteq tmp_files'
      /\ ~param.clean => tmp_files' = {}
  BY <1>1, AddFacts
<1>4. tmpDir' \in BOOLEAN
  BY <1>1
<1>5. Types'
  BY <1>1, <1>3, <1>4 DEF Types, Phases, Ends
<1>6. Live'
  BY <1>1 DEF Live, Ends
<1>7. \A f : f \in Unused <=> \E b \in Bitmaps : f = BitmapFile(b) /\ refCount[b] = 0
  BY DEF Unused
<1>8. \A b, c : BitmapFile(b) = BitmapFile(c) => b = c
  BY DEF BitmapFile
<1>9. \A b : BitmapFile(b)[1] = "dest" /\ BitmapFile(b)[2] = "bitmap"
  BY DEF BitmapFile
<1>10. MainFile[2] = "main" /\ MainFile[1] = "dest"
  BY DEF MainFile
<1>11. ASSUME phase = "end", NEW x, Kept(x) PROVE x \in disk' \/ Lost(x)'
  <2>1. x \in disk \/ Lost(x)'
    BY <1>1, <1>2, <1>11 DEF Kept, Lost, BitmapFile, Opened
  <2>2. x \notin tmp_files
    BY <1>2, <1>10, <1>11 DEF Kept, TmpOnly, Registered
  <2>3. x \notin Unused
    <3>1. SUFFICES ASSUME NEW b \in Bitmaps, x = BitmapFile(b), refCount[b] = 0 PROVE FALSE
      BY <1>7
    <3>2. x[2] = "bitmap" /\ x # MainFile
      BY <1>9, <1>10, <3>1
    <3>3. PICK c \in Bitmaps : x = BitmapFile(c) /\ refCount[c] > 0
      BY <1>11, <3>2 DEF Kept
    <3>4. b = c
      BY <1>8, <3>1, <3>3
    <3>. QED BY <3>1, <3>3, <3>4
  <2>. QED BY <1>1, <1>3, <2>1, <2>2, <2>3
<1>12. RefsExist'
  <2>1. SUFFICES ASSUME phase' = "done", NEW q \in refs',
                        NEW x \in {q[1], q[2]}
                 PROVE  x \in disk' \/ Lost(x)'
    BY DEF RefsExist, Lost
  <2>2. Kept(q[1]) /\ Kept(q[2]) /\ phase = "end"
    BY <1>1, <1>2, <2>1 DEF RefsKept
  <2>. QED BY <1>11, <2>1, <2>2
<1>13. OnlyOutputRemains'
  <2>1. SUFFICES ASSUME param.clean
        PROVE  /\ ~tmpDir'
               /\ \A f \in disk' :
                    \/ f[2] \in {"main", "css", "outline", "page"}
                    \/ phase' = "failed" /\ f[2] # "bitmap"
                    \/ \E q \in refs' : q[2] = f
    BY <1>1 DEF OnlyOutputRemains
  <2>2. \A f \in disk' : f \in disk /\ f \notin tmp_files /\ f \notin Unused /\ Accounted(f)
    BY <1>1, <1>2, <1>3, <2>1 DEF Files
  <2>3. InTmp(disk') = {}
    BY <2>2 DEF InTmp, Accounted
  <2>4. ~tmpDir'
    BY <1>1, <2>1, <2>3
  <2>5. ASSUME NEW f \in disk'
        PROVE  \/ f[2] \in {"main", "css", "outline", "page"}
               \/ phase' = "failed" /\ f[2] # "bitmap"
               \/ \E q \in refs' : q[2] = f
    <3>1. CASE f[2] = "bitmap"
      <4>1. PICK b \in Bitmaps :
              f = BitmapFile(b) /\ refCount[b] >= 0 /\ (refCount[b] > 0 => Referred(f))
        BY <2>2, <2>5, <3>1 DEF Accounted
      <4>2. refCount[b] # 0 /\ refCount[b] \in Int
        BY <1>7, <2>2, <2>5, <4>1 DEF Types
      <4>3. Referred(f)
        BY <4>1, <4>2
      <4>. QED BY <1>1, <4>3 DEF Referred
    <3>2. CASE f[2] # "bitmap" /\ phase = "throwing"
      BY <1>1, <3>2 DEF CleanUp
    <3>3. CASE f[2] # "bitmap" /\ phase # "throwing"
      BY <1>1, <2>2, <2>5, <3>3 DEF Accounted, Output, Referred
    <3>. QED BY <3>1, <3>2, <3>3
  <2>. QED BY <2>4, <2>5
<1>. QED BY <1>5, <1>6, <1>12, <1>13 DEF IInv

LEMMA InitInv == Init => IInv
<1>1. SUFFICES ASSUME Init PROVE IInv
  OBVIOUS
<1>2. param \in Settings /\ (param.image /\ param.svg => param.bitmap)
  <2>1. PICK p \in Params : param = CheckParam(p)
    BY <1>1 DEF Init
  <2>2. p \in Settings
    BY PageOutputAssumption
  <2>3. CASE p.image /\ p.svg
    <3>1. param = [p EXCEPT !.bitmap = TRUE]
      BY <2>1, <2>3 DEF CheckParam
    <3>. QED BY <2>2, <3>1 DEF Settings
  <2>4. CASE ~(p.image /\ p.svg)
    BY <2>1, <2>2, <2>4 DEF CheckParam
  <2>. QED BY <2>3, <2>4
<1>3. 1 \in 1..(MaxPage + 1)
  BY PageOutputAssumption
<1>4. MaxDraws * (1 - 1) = 0
  BY PageOutputAssumption
<1>5. Types
  BY <1>1, <1>2, <1>3, <1>4 DEF Init, Types, Phases
<1>6. Live
  BY <1>1 DEF Init, Live, Opened, Working, RefsKept, TmpOnly, Files
<1>7. RefsExist /\ OnlyOutputRemains
  BY <1>1 DEF Init, RefsExist, OnlyOutputRemains
<1>. QED BY <1>5, <1>6, <1>7 DEF IInv

LEMMA NextInv == IInv /\ [Next]_vars => IInv'
<1>1. SUFFICES ASSUME IInv, [Next]_vars PROVE IInv'
  OBVIOUS
<1>2. Types /\ Live
  BY <1>1 DEF IInv
<1>3. CASE CleanUp
  BY <1>2, <1>3, CleanUpKeeps
<1>4. CASE Ended \/ UNCHANGED vars
  BY <1>1, <1>4 DEF Ended, vars, bitmaps, IInv, Types, Live, Opened, RefsKept, TmpOnly, Files,
     Kept, Lost, Registered, Accounted, Referred, RefsExist, OnlyOutputRemains, MainFile,
     CssFile, PageFile, BitmapFile, Dir
<1>5. CASE Refuse
  <2>1. Types'
    BY <1>2, <1>5 DEF Refuse, bitmaps, Types, Phases, Ends
  <2>2. phase' = "refused"
    BY <1>5 DEF Refuse
  <2>. QED BY <2>1, <2>2 DEF IInv, Live, Ends, RefsExist, OnlyOutputRemains
<1>6. CASE ~(CleanUp \/ Refuse \/ Ended \/ UNCHANGED vars)
  <2>1. Good'
    BY <1>1, <1>2, <1>6, PreProcessKeeps, LoopKeeps, InstallKeeps, EndPageKeeps, RenderSvgKeeps,
       RenderBitmapKeeps, PostKeeps DEF Next
  <2>. QED BY <2>1 DEF Good, IInv, RefsExist, OnlyOutputRemains
<1>. QED BY <1>3, <1>4, <1>6, <1>5

\* The state keeps its type, whatever the settings: a bitmap has a count from its
\* first use on, of no more drawings than the pages had, and without clean_tmp no
\* file is registered.
THEOREM TypeCorrect == Spec => []TypeOK
<1>1. IInv => TypeOK
  <2>1. SUFFICES ASSUME Types PROVE TypeOK
    BY DEF IInv
  <2>2. /\ page \in Int /\ MaxPage + 1 \in Int /\ page <= MaxPage + 1
        /\ (MaxPage + 1) - 1 = MaxPage /\ MaxDraws \in Nat
    BY <2>1, PageOutputAssumption DEF Types
  <2>3. MaxDraws * (page - 1) <= MaxDraws * MaxPage
    <3>1. MaxDraws * (page - 1) <= MaxDraws * ((MaxPage + 1) - 1)
      BY <2>2, Scaled
    <3>. QED BY <2>2, <3>1
  <2>4. MaxDraws * (page - 1) \in Int /\ MaxDraws * MaxPage \in Int
    BY <2>2, PageOutputAssumption
  <2>5. \A b \in Bitmaps :
          refCount[b] \in Int /\ -1 <= refCount[b] /\ refCount[b] <= MaxDraws * MaxPage
    BY <2>1, <2>3, <2>4 DEF Types
  <2>6. MaxDraws * MaxPage \in Int
    BY PageOutputAssumption
  <2>7. refCount \in [Bitmaps -> -1..(MaxDraws * MaxPage)]
    BY <2>1, <2>5, <2>6 DEF Types
  <2>. QED BY <2>1, <2>7 DEF Types, TypeOK
<1>. QED BY <1>1, InitInv, NextInv, PTL DEF Spec

\* Nothing that the output of a finished run refers to is missing, but for images
\* whose dump failed.
THEOREM NothingMissing == Spec => []RefsExist
<1>1. IInv => RefsExist
  BY DEF IInv
<1>. QED BY <1>1, InitInv, NextInv, PTL DEF Spec

\* Once there is a renderer, no end of the run but an exit inside the font library
\* leaves a temporary file or a bitmap without a page.
THEOREM NothingLeft == Spec => []OnlyOutputRemains
<1>1. IInv => OnlyOutputRemains
  BY DEF IInv
<1>. QED BY <1>1, InitInv, NextInv, PTL DEF Spec
=============================================================================
