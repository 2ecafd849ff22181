---------------------------- MODULE ViewerProofs ----------------------------
(***************************************************************************)
(* The viewer never fetches a page twice at a time, nor one that is there, *)
(* and shows all pages at one zoom: for every document and every schedule  *)
(* of the browser.                                                         *)
(***************************************************************************)
EXTENDS Viewer, SequenceTheorems, TLAPS

Callbacks == {"none", "exact"}

\* What the argument needs of the state's type.
Typed ==
  /\ loaded \in [Pages -> BOOLEAN]
  /\ pages_loading \in [Pages -> BOOLEAN]
  /\ requests \in [Pages -> Seq(Callbacks)]

IInv == Typed /\ LoadedOnce

-----------------------------------------------------------------------------

\* Loading any set of pages adds a request exactly for those that are neither there
\* nor on their way, and takes their semaphores.
LEMMA LoadPages ==
  ASSUME IInv, UNCHANGED loaded,
         NEW idxs, NEW preload, NEW callback \in Callbacks, NEW timers,
         load_pages(idxs, preload, callback, timers)
  PROVE  IInv'
<1> DEFINE ids == Loadable(idxs)
<1>1. /\ pages_loading' = [i \in Pages |-> i \in ids \/ pages_loading[i]]
      /\ requests' = [i \in Pages |-> IF i \in ids THEN Append(requests[i], callback)
                                                   ELSE requests[i]]
  BY DEF load_pages
<1>2. \A i \in ids : i \in Pages /\ ~loaded[i] /\ ~pages_loading[i]
  BY DEF Loadable
<1>3. \A i \in Pages : requests[i] \in Seq(Callbacks)
  BY DEF IInv, Typed
<1>4. \A i \in ids : Len(requests[i]) = 0 /\ requests[i] = <<>>
  <2> SUFFICES ASSUME NEW i \in ids PROVE Len(requests[i]) = 0 /\ requests[i] = <<>>
    OBVIOUS
  <2>1. requests[i] = <<>>
    BY <1>2 DEF IInv, LoadedOnce
  <2> QED BY <2>1
<1> HIDE DEF ids
<1>5. Typed'
  <2>1. \A i \in Pages : Append(requests[i], callback) \in Seq(Callbacks)
    BY <1>3, AppendProperties
  <2>2. requests' \in [Pages -> Seq(Callbacks)]
    BY <1>1, <1>3, <2>1
  <2>3. pages_loading' \in [Pages -> BOOLEAN]
    BY <1>1, Zenon
  <2> QED BY <2>2, <2>3 DEF IInv, Typed
<1>6. LoadedOnce'
  <2> SUFFICES ASSUME NEW i \in Pages
               PROVE  /\ Len(requests'[i]) <= 1
                      /\ requests'[i] # <<>> => pages_loading'[i] /\ ~loaded'[i]
    BY DEF LoadedOnce
  <2>1. CASE i \in ids
    <3>1. requests'[i] = Append(requests[i], callback) /\ pages_loading'[i]
      BY <1>1, <2>1
    <3>2. Len(Append(requests[i], callback)) = 1
      BY <1>3, <1>4, <2>1, AppendProperties
    <3> QED BY <1>2, <2>1, <3>1, <3>2
  <2>2. CASE i \notin ids
    <3>1. requests'[i] = requests[i]
      BY <1>1, <2>2
    <3>2. pages_loading[i] => pages_loading'[i]
      BY <1>1, Zenon
    <3> QED BY <3>1, <3>2 DEF IInv, LoadedOnce
  <2> QED BY <2>1, <2>2
<1> QED BY <1>5, <1>6 DEF IInv

\* An answer takes the only request of its page away.
LEMMA AnswerTaken ==
  ASSUME IInv, NEW idx \in Pages, NEW k, k \in DOMAIN requests[idx], Answered(idx, k)
  PROVE  /\ requests' \in [Pages -> Seq(Callbacks)]
         /\ requests'[idx] = <<>>
         /\ \A i \in Pages : i # idx => requests'[i] = requests[i]
<1>1. requests[idx] \in Seq(Callbacks) /\ Len(requests[idx]) <= 1
  BY DEF IInv, Typed, LoadedOnce
<1>2. k = 1 /\ Len(requests[idx]) = 1
  <2>1. k \in 1 .. Len(requests[idx]) /\ Len(requests[idx]) \in Nat
    BY <1>1, LenProperties
  <2>2. ASSUME NEW n \in Nat, n <= 1, NEW j \in 1 .. n PROVE j = 1 /\ n = 1
    BY <2>2
  <2>3. Len(requests[idx]) <= 1
    BY <1>1
  <2> HIDE <1>1
  <2> QED BY <2>1, <2>2, <2>3, Zenon
<1>3. SubSeq(requests[idx], 1, k - 1) \o SubSeq(requests[idx], k + 1, Len(requests[idx])) = <<>>
  BY <1>1, <1>2
<1>4. requests' = [requests EXCEPT ![idx] = <<>>]
  BY <1>3 DEF Answered
<1>5. <<>> \in Seq(Callbacks)
  OBVIOUS
<1> QED BY <1>4, <1>5 DEF IInv, Typed
-----------------------------------------------------------------------------

LEMMA InitInv == ASSUME Init PROVE IInv
<1>1. PICK there \in BOOLEAN :
        /\ loaded = [i \in Pages |-> there]
        /\ pages_loading = [i \in Pages |-> ~there /\ i \in Pages \cap 0 .. Reach[1]]
        /\ requests = [i \in Pages |-> IF ~there /\ i \in Pages \cap 0 .. Reach[1]
                                       THEN <<"none">> ELSE <<>>]
  BY DEF Init
<1>2. <<"none">> \in Seq(Callbacks) /\ <<>> \in Seq(Callbacks)
  BY DEF Callbacks
<1>3. loaded \in [Pages -> BOOLEAN] /\ pages_loading \in [Pages -> BOOLEAN]
  BY <1>1, Zenon
<1>4. requests \in [Pages -> Seq(Callbacks)]
  BY <1>1, <1>2
<1>5. LoadedOnce
  <2> SUFFICES ASSUME NEW i \in Pages
               PROVE  /\ Len(requests[i]) <= 1
                      /\ requests[i] # <<>> => pages_loading[i] /\ ~loaded[i]
    BY DEF LoadedOnce
  <2>1. Len(requests[i]) <= 1 /\ (requests[i] # <<>> => ~there /\ i \in Pages \cap 0 .. Reach[1])
    BY <1>1
  <2>2. ~there /\ i \in Pages \cap 0 .. Reach[1] => pages_loading[i] /\ ~loaded[i]
    BY <1>1, Zenon
  <2> QED BY <2>1, <2>2
<1> QED BY <1>3, <1>4, <1>5 DEF IInv, Typed

LEMMA StepInv == ASSUME IInv, [Next]_vars PROVE IInv'
<1>1. ASSUME UNCHANGED <<loaded, pages_loading, requests>> PROVE IInv'
  BY <1>1 DEF IInv, Typed, LoadedOnce
<1>2. ASSUME NEW page \in Pages, ReaderScrolls(page) PROVE IInv'
  BY <1>1, <1>2 DEF ReaderScrolls, pageVars, loadVars
<1>3. ASSUME NEW step \in {-1, 1}, ReaderTurnsPage(step) PROVE IInv'
  BY <1>1, <1>3 DEF ReaderTurnsPage, pageVars, loadVars
<1>4. ASSUME NEW new_scale \in Scales, ReaderZooms(new_scale) PROVE IInv'
  BY <1>1, <1>4 DEF ReaderZooms, loadVars
<1>5. ASSUME NEW page \in Pages, NEW zoom \in Scales, NEW fromLink \in BOOLEAN,
             navigate_to_dest(page, zoom, fromLink)
      PROVE  IInv'
  <2>1. CASE loaded[page]
    BY <1>1, <1>5, <2>1 DEF navigate_to_dest, loadVars
  <2>2. CASE ~loaded[page]
    <3>1. load_pages({page}, preload_pages, "exact", prefetches) /\ UNCHANGED loaded
      BY <1>5, <2>2 DEF navigate_to_dest
    <3> QED BY <3>1, LoadPages DEF Callbacks
  <2> QED BY <2>1, <2>2
<1>6. CASE ScrollHandler
  BY <1>1, <1>6 DEF ScrollHandler, pageVars, loadVars
<1>7. CASE RenderTimeout
  <2>1. load_pages(NearlyVisible, preload_pages, "none", prefetches) /\ UNCHANGED loaded
    BY <1>7 DEF RenderTimeout, render
  <2> QED BY <2>1, LoadPages DEF Callbacks
<1>8. CASE PrefetchTimeout
  <2>1. PICK timer : load_pages({timer[1]}, timer[2], "none", prefetches (-) SetToBag({timer}))
                     /\ UNCHANGED loaded
    BY <1>8 DEF PrefetchTimeout, pageVars
  <2> QED BY <2>1, LoadPages DEF Callbacks
<1>9. ASSUME NEW idx \in Pages, NEW k \in DOMAIN requests[idx], OnLoad(idx, k) PROVE IInv'
  <2>1. /\ Answered(idx, k)
        /\ loaded' = [loaded EXCEPT ![idx] = TRUE]
        /\ pages_loading' = [pages_loading EXCEPT ![idx] = FALSE]
    BY <1>9 DEF OnLoad
  <2>2. /\ requests' \in [Pages -> Seq(Callbacks)] /\ requests'[idx] = <<>>
        /\ \A i \in Pages : i # idx => requests'[i] = requests[i]
    BY <2>1, AnswerTaken
  <2>3. Typed'
    BY <2>1, <2>2 DEF IInv, Typed
  <2>4. LoadedOnce'
    BY <2>1, <2>2 DEF IInv, Typed, LoadedOnce
  <2> QED BY <2>3, <2>4 DEF IInv
<1>10. ASSUME NEW idx \in Pages, NEW k \in DOMAIN requests[idx], OnFailure(idx, k) PROVE IInv'
  <2>1. /\ Answered(idx, k) /\ loaded' = loaded
        /\ pages_loading' \in {pages_loading, [pages_loading EXCEPT ![idx] = FALSE]}
    BY <1>10 DEF OnFailure, pageVars
  <2>2. /\ requests' \in [Pages -> Seq(Callbacks)] /\ requests'[idx] = <<>>
        /\ \A i \in Pages : i # idx => requests'[i] = requests[i]
    BY <2>1, AnswerTaken
  <2>3. pages_loading' \in [Pages -> BOOLEAN]
    BY <2>1 DEF IInv, Typed
  <2>4. \A i \in Pages : i # idx => pages_loading'[i] = pages_loading[i]
    BY <2>1 DEF IInv, Typed
  <2>5. Typed'
    BY <2>1, <2>2, <2>3 DEF IInv, Typed
  <2>6. LoadedOnce'
    BY <2>1, <2>2, <2>4 DEF IInv, LoadedOnce
  <2> QED BY <2>5, <2>6 DEF IInv
<1>11. CASE UNCHANGED vars
  BY <1>1, <1>11 DEF vars, pageVars, loadVars
<1> QED
  BY <1>2, <1>3, <1>4, <1>5, <1>6, <1>7, <1>8, <1>9, <1>10, <1>11 DEF Next, Answer

\* A page is fetched by one request at a time, and never again once it is there
\* (Viewer.load_page and its semaphores).
THEOREM FetchedOnce == Spec => []LoadedOnce
<1>1. IInv => LoadedOnce
  BY DEF IInv
<1> QED BY <1>1, InitInv, StepInv, PTL DEF Spec

-----------------------------------------------------------------------------

\* Every page has the viewer's zoom (Viewer.rescale, Viewer.load_page's onload).
THEOREM OneZoom == Spec => []ScaleUniform
<1> DEFINE Inv == ScaleUniform /\ cur_scale \in [Pages -> Scales]
<1>1. ASSUME Init PROVE Inv
  <2>1. cur_scale = [i \in Pages |-> 1] /\ scale = 1
    BY <1>1 DEF Init
  <2> QED BY <2>1, ConstantsAssumption DEF ScaleUniform
<1>2. ASSUME Inv, [Next]_vars PROVE Inv'
  <2>1. ASSUME UNCHANGED <<cur_scale, scale>> PROVE Inv'
    BY <1>2, <2>1 DEF ScaleUniform
  <2>2. ASSUME NEW new_scale \in Scales, rescale(new_scale) PROVE Inv'
    BY <2>2 DEF rescale, ScaleUniform
  <2>3. ASSUME NEW idx \in Pages, NEW k \in DOMAIN requests[idx], OnLoad(idx, k) PROVE Inv'
    <3>1. cur_scale' = [cur_scale EXCEPT ![idx] = scale] /\ scale' = scale
      BY <2>3 DEF OnLoad
    <3>2. scale \in Scales
      BY <1>2, <2>3 DEF ScaleUniform
    <3> QED BY <1>2, <3>1, <3>2 DEF ScaleUniform
  <2>4. ASSUME NEW idx \in Pages, NEW k \in DOMAIN requests[idx], OnFailure(idx, k) PROVE Inv'
    BY <2>1, <2>4 DEF OnFailure, pageVars, viewVars
  <2>5. ASSUME NEW page \in Pages, ReaderScrolls(page) PROVE Inv'
    BY <2>1, <2>5 DEF ReaderScrolls, pageVars
  <2>6. ASSUME NEW step \in {-1, 1}, ReaderTurnsPage(step) PROVE Inv'
    BY <2>1, <2>6 DEF ReaderTurnsPage, pageVars
  <2>7. CASE ScrollHandler
    BY <2>1, <2>7 DEF ScrollHandler, pageVars
  <2>8. CASE RenderTimeout
    BY <2>1, <2>8 DEF RenderTimeout
  <2>9. CASE PrefetchTimeout
    BY <2>1, <2>9 DEF PrefetchTimeout, pageVars, viewVars
  <2>10. CASE UNCHANGED vars
    BY <2>1, <2>10 DEF vars, pageVars, viewVars
  <2>11. ASSUME NEW new_scale \in Scales, ReaderZooms(new_scale) PROVE Inv'
    BY <2>2, <2>11 DEF ReaderZooms
  <2>12. ASSUME NEW page \in Pages, NEW zoom \in Scales, NEW fromLink \in BOOLEAN,
                navigate_to_dest(page, zoom, fromLink)
         PROVE  Inv'
    BY <2>2, <2>12 DEF navigate_to_dest
  <2> QED
    BY <1>2, <2>3, <2>4, <2>5, <2>6, <2>7, <2>8, <2>9, <2>10, <2>11, <2>12 DEF Next, Answer
<1>3. Inv => ScaleUniform
  OBVIOUS
<1> QED BY <1>1, <1>2, <1>3, PTL DEF Spec
-----------------------------------------------------------------------------

\* The rest of the state's type.
ReaderTyped ==
  /\ shown \in [Pages -> BOOLEAN]
  /\ cur_scale \in [Pages -> Scales]
  /\ render_timer \in BOOLEAN
  /\ scroll_event \in BOOLEAN
  /\ view \in [page : Pages, place : Places]
  /\ cur_page_idx \in Pages
  /\ scale \in Scales
  /\ failed \subseteq Pages
  /\ dest \in [page : Pages, place : Places] \cup {NoDest}
  /\ events \in Nat
  /\ failures \in Nat

\* scroll_to moves to a page that exists, or not at all.
LEMMA ScrollTyped ==
  ASSUME ReaderTyped, NEW page, NEW place \in Places,
         scroll_to(page, place) \/ (page \in Pages /\ Moves(page, place))
                                \/ UNCHANGED <<view, scroll_event>>
  PROVE  view' \in [page : Pages, place : Places] /\ scroll_event' \in BOOLEAN
<1>1. CASE page \in Pages /\ Moves(page, place)
  BY <1>1 DEF Moves
<1>2. CASE UNCHANGED <<view, scroll_event>>
  BY <1>2 DEF ReaderTyped
<1> QED BY <1>1, <1>2 DEF scroll_to

LEMMA InitReaderTyped == ASSUME Init PROVE ReaderTyped
<1>1. PICK there \in BOOLEAN : shown = [i \in Pages |-> there /\ i \in Pages \cap 0 .. Reach[1]]
  BY DEF Init
<1>2. shown \in [Pages -> BOOLEAN]
  BY <1>1, Zenon
<1>3. 0 \in Pages
  BY ConstantsAssumption DEF Pages
<1>4. /\ cur_scale = [i \in Pages |-> 1] /\ scale = 1
      /\ render_timer = FALSE /\ scroll_event = FALSE
      /\ view = [page |-> 0, place |-> "start"] /\ cur_page_idx = 0
      /\ failed = {} /\ dest = NoDest /\ events = 0 /\ failures = 0
  BY DEF Init
<1>5. cur_scale \in [Pages -> Scales] /\ scale \in Scales
  BY <1>4, ConstantsAssumption
<1> QED BY <1>2, <1>3, <1>4, <1>5 DEF ReaderTyped, Places

LEMMA StepReaderTyped == ASSUME IInv, ReaderTyped, [Next]_vars PROVE ReaderTyped'
<1> USE DEF ReaderTyped
<1>1. ASSUME NEW page \in Pages, ReaderScrolls(page) PROVE ReaderTyped'
  <2>1. Moves(page, "start") /\ dest' = NoDest /\ events' = events + 1
    BY <1>1 DEF ReaderScrolls, ReaderActs
  <2>2. UNCHANGED <<shown, cur_scale, render_timer, cur_page_idx, scale, failed, failures>>
    BY <1>1 DEF ReaderScrolls, pageVars
  <2> QED BY <2>1, <2>2 DEF Moves, Places
<1>2. ASSUME NEW step \in {-1, 1}, ReaderTurnsPage(step) PROVE ReaderTyped'
  <2>1. view' \in [page : Pages, place : Places] /\ scroll_event' \in BOOLEAN
    <3>1. scroll_to(cur_page_idx + step, "start") /\ "start" \in Places
      BY <1>2 DEF ReaderTurnsPage, Places
    <3> QED BY <3>1, ScrollTyped
  <2>2. dest' = NoDest /\ events' = events + 1
    BY <1>2 DEF ReaderTurnsPage, ReaderActs
  <2>3. UNCHANGED <<shown, cur_scale, render_timer, cur_page_idx, scale, failed, failures>>
    BY <1>2 DEF ReaderTurnsPage, pageVars
  <2> QED BY <2>1, <2>2, <2>3
<1>3. ASSUME NEW new_scale \in Scales, rescale(new_scale)
      PROVE  scale' \in Scales /\ cur_scale' \in [Pages -> Scales] /\ render_timer' \in BOOLEAN
  BY <1>3 DEF rescale
<1>4. ASSUME NEW new_scale \in Scales, ReaderZooms(new_scale) PROVE ReaderTyped'
  <2>1. rescale(new_scale) /\ dest' = NoDest /\ events' = events + 1
    BY <1>4 DEF ReaderZooms, ReaderActs
  <2>2. view' \in [page : Pages, place : Places] /\ scroll_event' \in BOOLEAN
    <3>1. CASE \E page \in Pages : Moves(page, "start")
      BY <3>1 DEF Moves, Places
    <3>2. CASE scroll_event' \in {scroll_event, TRUE} /\ UNCHANGED view
      BY <3>2
    <3> QED BY <1>4, <3>1, <3>2 DEF ReaderZooms, NearlyVisibleAt
  <2>3. UNCHANGED <<shown, cur_page_idx, failed, failures>>
    BY <1>4 DEF ReaderZooms
  <2> QED BY <1>3, <2>1, <2>2, <2>3
<1>5. ASSUME NEW page \in Pages, NEW zoom \in Scales, NEW fromLink \in BOOLEAN,
             navigate_to_dest(page, zoom, fromLink)
      PROVE  ReaderTyped'
  <2>1. /\ rescale(zoom) /\ events' = events + 1
        /\ dest' = [page |-> page, place |-> "exact"]
        /\ scroll_to(page, "exact") \/ scroll_to(page, "start")
    BY <1>5 DEF navigate_to_dest, ReaderActs
  <2>2. UNCHANGED <<shown, cur_page_idx, failed, failures>>
    BY <1>5 DEF navigate_to_dest
  <2>3. view' \in [page : Pages, place : Places] /\ scroll_event' \in BOOLEAN
    BY <2>1, ScrollTyped DEF Places
  <2>4. dest' \in [page : Pages, place : Places]
    BY <2>1 DEF Places
  <2> QED BY <1>3, <2>1, <2>2, <2>3, <2>4
<1>6. CASE ScrollHandler
  BY <1>6 DEF ScrollHandler, pageVars
<1>7. CASE RenderTimeout
  <2>1. shown' = [i \in Pages |-> loaded[i] /\ i \in NearlyVisible]
    BY <1>7 DEF RenderTimeout, render
  <2>2. shown' \in [Pages -> BOOLEAN]
    BY <2>1, Zenon
  <2> QED BY <1>7, <2>2 DEF RenderTimeout
<1>8. CASE PrefetchTimeout
  BY <1>8 DEF PrefetchTimeout, pageVars, viewVars
<1>9. ASSUME NEW idx \in Pages, NEW k \in DOMAIN requests[idx], OnLoad(idx, k)
      PROVE  ReaderTyped'
  <2>1. /\ shown' = [shown EXCEPT ![idx] = FALSE]
        /\ cur_scale' = [cur_scale EXCEPT ![idx] = scale]
        /\ render_timer' = TRUE /\ failed' = failed \ {idx}
        /\ scroll_to(idx, "exact") \/ UNCHANGED <<view, scroll_event>>
        /\ UNCHANGED <<cur_page_idx, scale, dest, events, failures>>
    BY <1>9 DEF OnLoad
  <2>2. view' \in [page : Pages, place : Places] /\ scroll_event' \in BOOLEAN
    BY <2>1, ScrollTyped DEF Places
  <2> QED BY <2>1, <2>2
<1>10. ASSUME NEW idx \in Pages, NEW k \in DOMAIN requests[idx], OnFailure(idx, k)
       PROVE  ReaderTyped'
  <2>1. /\ failures' = failures + 1 /\ failed' = failed \cup {idx}
        /\ UNCHANGED <<pageVars, viewVars, dest, events>>
    BY <1>10 DEF OnFailure
  <2> QED BY <2>1 DEF pageVars, viewVars
<1>11. CASE UNCHANGED vars
  BY <1>11 DEF vars, pageVars, viewVars
<1> QED
  BY <1>1, <1>2, <1>4, <1>5, <1>6, <1>7, <1>8, <1>9, <1>10, <1>11 DEF Next, Answer

\* The state keeps its type: the page at the top, the current page and a link's
\* destination are pages of the document, also after a step past either end of it
\* (Viewer.scroll_to), and each page's requests, flags and zoom stay its own.
THEOREM TypeCorrect == Spec => []TypeOK
<1> DEFINE Inv == IInv /\ ReaderTyped
<1>1. Init => Inv
  BY InitInv, InitReaderTyped
<1>2. Inv /\ [Next]_vars => Inv'
  BY StepInv, StepReaderTyped
<1>3. Inv => TypeOK
  BY DEF IInv, Typed, ReaderTyped, TypeOK, Callbacks
<1> QED BY <1>1, <1>2, <1>3, PTL DEF Spec
=============================================================================
