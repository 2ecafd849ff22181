------------------------------- MODULE Viewer -------------------------------
(***************************************************************************)
(* The viewer in the browser: it fetches the pages that come near the      *)
(* visible part of the document and shows those, while the reader scrolls, *)
(* zooms and follows links, and answers arrive late, in any order, as      *)
(* errors, or not at all.                                                  *)
(*                                                                         *)
(* A step is one run of the browser's event loop: a handler runs to its    *)
(* end.  The layout is abstracted to what the handlers read from it: the   *)
(* page at the top of the container, and how many pages around it are      *)
(* nearly visible at a zoom.                                               *)
(***************************************************************************)
EXTENDS Integers, Sequences, Bags

CONSTANTS PageCount,     (* the number of pages                               *)
          Scales,        (* the zooms; 1 is the initial one                   *)
          Reach,         (* how many pages above and below the one at the top *)
                         (* are nearly visible, at each zoom                  *)
          preload_pages, (* configuration                                     *)
          MaxEvents,     (* bound: what the reader does                       *)
          MaxFailures    (* bound: requests that fail                         *)

ASSUME ConstantsAssumption ==
  /\ PageCount \in Nat /\ PageCount >= 2
  /\ 1 \in Scales /\ Scales \subseteq Nat \ {0}
  /\ Reach \in [Scales -> Nat]
  /\ preload_pages \in Nat
  /\ MaxEvents \in Nat /\ MaxFailures \in Nat

VARIABLES loaded, shown, cur_scale,  \* of each Page object
          pages_loading,   \* the semaphores, indexed by page
          requests,        \* of each page: the callbacks of its requests in flight
          prefetches,      \* bag of timers <<idx, pages_to_preload>>
          render_timer,    \* a rendering is scheduled
          scroll_event,    \* the container has moved and its handler has yet to run
          view,            \* what is at the top of the container: page and place in it
          cur_page_idx,
          scale,
          failed,          \* history: the pages whose last request failed
          dest,            \* history: the destination the reader has asked for last
          events, failures

pageVars == <<loaded, shown, cur_scale>>
loadVars == <<pages_loading, requests, prefetches>>
viewVars == <<render_timer, scroll_event, view, cur_page_idx, scale>>
vars == <<pageVars, loadVars, viewVars, failed, dest, events, failures>>

Pages == 0 .. PageCount - 1
Places == {"start", "exact"}
NoDest == [page |-> -1, place |-> "start"]

\* Within one height of the container above or below it.
NearlyVisibleAt(zoom) == Pages \cap (view.page - Reach[zoom] .. view.page + Reach[zoom])
NearlyVisible == NearlyVisibleAt(scale)

-----------------------------------------------------------------------------
\* load_page(idx, pages_to_preload, callback) for every idx in a set at once: pages
\* that do not exist, are loaded or are already loading are left alone, and then
\* neither the callback nor the prefetch happens.

Loadable(idxs) == {i \in idxs \cap Pages : ~loaded[i] /\ ~pages_loading[i]}

(* A plausible slip in load_page: the semaphore is not set. *)

load_pages_without_semaphore(idxs, pages_to_preload, callback, timers) ==
  LET ids == Loadable(idxs)
      next == IF pages_to_preload - 1 > 0
              THEN SetToBag({<<i + 1, pages_to_preload - 1>> : i \in ids}) ELSE EmptyBag
  IN  /\ requests' = [i \in Pages |-> IF i \in ids THEN Append(requests[i], callback)
                                                   ELSE requests[i]]
      /\ prefetches' = timers (+) next
      /\ UNCHANGED pages_loading

load_pages(idxs, pages_to_preload, callback, timers) ==
  LET ids == Loadable(idxs)
      next == IF pages_to_preload - 1 > 0
              THEN SetToBag({<<i + 1, pages_to_preload - 1>> : i \in ids}) ELSE EmptyBag
  IN  /\ pages_loading' = [i \in Pages |-> i \in ids \/ pages_loading[i]]
      /\ requests' = [i \in Pages |-> IF i \in ids THEN Append(requests[i], callback)
                                                   ELSE requests[i]]
      /\ prefetches' = timers (+) next

\* Nearly visible pages are shown, or loaded; the others are hidden.
render ==
  /\ shown' = [i \in Pages |-> loaded[i] /\ i \in NearlyVisible]
  /\ load_pages(NearlyVisible, preload_pages, "none", prefetches)

-----------------------------------------------------------------------------

\* init_after_loading_content renders; with split_pages no page is there yet.  The zoom
\* of a page is 1 at its original scale, and is that of its frame until it is there.
Init ==
  \E there \in BOOLEAN :
    LET near == Pages \cap 0 .. Reach[1] IN
    /\ loaded = [i \in Pages |-> there]
    /\ shown = [i \in Pages |-> there /\ i \in near]
    /\ cur_scale = [i \in Pages |-> 1]
    /\ pages_loading = [i \in Pages |-> ~there /\ i \in near]
    /\ requests = [i \in Pages |-> IF ~there /\ i \in near THEN <<"none">> ELSE <<>>]
    /\ prefetches = IF ~there /\ preload_pages > 1
                    THEN SetToBag({<<i + 1, preload_pages - 1>> : i \in near}) ELSE EmptyBag
    /\ render_timer = FALSE
    /\ scroll_event = FALSE
    /\ view = [page |-> 0, place |-> "start"]
    /\ cur_page_idx = 0
    /\ scale = 1
    /\ failed = {}
    /\ dest = NoDest
    /\ events = 0
    /\ failures = 0

\* The container moves.
Moves(page, place) ==
  /\ view' = [page |-> page, place |-> place]
  /\ scroll_event' = TRUE

(* A plausible slip: the page is not checked to exist. *)

scroll_to_unchecked(page, place) == Moves(page, place)

\* The browser reports the move later; a page that does not exist is ignored.
scroll_to(page, place) ==
  IF page \in Pages THEN Moves(page, place) ELSE UNCHANGED <<view, scroll_event>>

ReaderActs == events < MaxEvents /\ events' = events + 1

ReaderScrolls(page) ==
  /\ ReaderActs
  /\ Moves(page, "start")
  /\ dest' = NoDest
  /\ UNCHANGED <<pageVars, loadVars, render_timer, cur_page_idx, scale, failed, failures>>

\* Alt with page up or page down.
ReaderTurnsPage(step) ==
  /\ ReaderActs
  /\ scroll_to(cur_page_idx + step, "start")
  /\ dest' = NoDest
  /\ UNCHANGED <<pageVars, loadVars, render_timer, cur_page_idx, scale, failed, failures>>

\* update_page_idx, which finds the page at the top and of those below it the one
\* that shows most, and schedule_render(true).
ScrollHandler ==
  /\ scroll_event
  /\ scroll_event' = FALSE
  /\ cur_page_idx' \in Pages \cap {view.page, view.page + 1}
  /\ render_timer' = TRUE
  /\ UNCHANGED <<pageVars, loadVars, view, scale, failed, dest, events, failures>>

RenderTimeout ==
  /\ render_timer
  /\ render_timer' = FALSE
  /\ render
  /\ UNCHANGED <<loaded, cur_scale, scroll_event, view, cur_page_idx, scale, failed,
                 dest, events, failures>>

PrefetchTimeout ==
  \E timer \in BagToSet(prefetches) :
    /\ load_pages({timer[1]}, timer[2], "none", prefetches (-) SetToBag({timer}))
    /\ UNCHANGED <<pageVars, viewVars, failed, dest, events, failures>>

\* Every page frame is stretched.
rescale(new_scale) ==
  /\ scale' = new_scale
  /\ cur_scale' = [i \in Pages |-> new_scale]
  /\ render_timer' = TRUE

\* The point under the wheel is kept, which may bring another page near it to the
\* top.  A zoom of 0 means 1.
ReaderZooms(new_scale) ==
  /\ ReaderActs
  /\ rescale(new_scale)
  /\ \/ \E page \in NearlyVisibleAt(scale) \cup NearlyVisibleAt(new_scale) :
          Moves(page, "start")
     \/ scroll_event' \in {scroll_event, TRUE} /\ UNCHANGED view
  /\ dest' = NoDest
  /\ UNCHANGED <<loaded, shown, loadVars, cur_page_idx, failed, failures>>

\* A link inside a page, or the outline, a bookmark or the back button.  The latter
\* read the transform of the current page, and fail when it is not loaded.
navigate_to_dest(page, zoom, fromLink) ==
  /\ ReaderActs
  /\ IF fromLink THEN \E i \in Pages : shown[i] ELSE loaded[cur_page_idx]
  /\ rescale(zoom)
  /\ IF loaded[page]
     THEN scroll_to(page, "exact") /\ UNCHANGED loadVars
     ELSE scroll_to(page, "start") /\ load_pages({page}, preload_pages, "exact", prefetches)
  /\ dest' = [page |-> page, place |-> "exact"]
  /\ UNCHANGED <<loaded, shown, cur_page_idx, failed, failures>>

-----------------------------------------------------------------------------
\* The answer to the k-th request of a page.

Answered(idx, k) ==
  requests' = [requests EXCEPT ![idx] =
                 SubSeq(@, 1, k - 1) \o SubSeq(@, k + 1, Len(@))]

(* Plausible slips in onload: the new page keeps its original scale; no rendering. *)

OnLoadUnscaled(idx, k) ==
  /\ Answered(idx, k)
  /\ loaded' = [loaded EXCEPT ![idx] = TRUE]
  /\ shown' = [shown EXCEPT ![idx] = FALSE]
  /\ cur_scale' = [cur_scale EXCEPT ![idx] = 1]
  /\ render_timer' = TRUE
  /\ IF requests[idx][k] = "exact" THEN scroll_to(idx, "exact")
                                   ELSE UNCHANGED <<view, scroll_event>>
  /\ pages_loading' = [pages_loading EXCEPT ![idx] = FALSE]
  /\ failed' = failed \ {idx}
  /\ UNCHANGED <<prefetches, cur_page_idx, scale, dest, events, failures>>

OnLoadUnrendered(idx, k) ==
  /\ Answered(idx, k)
  /\ loaded' = [loaded EXCEPT ![idx] = TRUE]
  /\ shown' = [shown EXCEPT ![idx] = FALSE]
  /\ cur_scale' = [cur_scale EXCEPT ![idx] = scale]
  /\ IF requests[idx][k] = "exact" THEN scroll_to(idx, "exact")
                                   ELSE UNCHANGED <<view, scroll_event>>
  /\ pages_loading' = [pages_loading EXCEPT ![idx] = FALSE]
  /\ failed' = failed \ {idx}
  /\ UNCHANGED <<render_timer, prefetches, cur_page_idx, scale, dest, events, failures>>

\* The page replaces its frame, hidden and at the current zoom.
OnLoad(idx, k) ==
  /\ Answered(idx, k)
  /\ loaded' = [loaded EXCEPT ![idx] = TRUE]
  /\ shown' = [shown EXCEPT ![idx] = FALSE]
  /\ cur_scale' = [cur_scale EXCEPT ![idx] = scale]
  /\ render_timer' = TRUE
  /\ IF requests[idx][k] = "exact" THEN scroll_to(idx, "exact")
                                   ELSE UNCHANGED <<view, scroll_event>>
  /\ pages_loading' = [pages_loading EXCEPT ![idx] = FALSE]
  /\ failed' = failed \ {idx}
  /\ UNCHANGED <<prefetches, cur_page_idx, scale, dest, events, failures>>

\* An error status resets the semaphore.  Without an answer onload never runs, and
\* with an answer that holds no page it throws: both leave the semaphore set.
OnFailure(idx, k) ==
  /\ failures < MaxFailures
  /\ failures' = failures + 1
  /\ Answered(idx, k)
  /\ pages_loading' \in {pages_loading, [pages_loading EXCEPT ![idx] = FALSE]}
  /\ failed' = failed \cup {idx}
  /\ UNCHANGED <<pageVars, prefetches, viewVars, dest, events>>

Answer ==
  \E idx \in Pages : \E k \in DOMAIN requests[idx] : OnLoad(idx, k) \/ OnFailure(idx, k)

Next ==
  \/ \E page \in Pages : ReaderScrolls(page)
  \/ \E step \in {-1, 1} : ReaderTurnsPage(step)
  \/ \E new_scale \in Scales : ReaderZooms(new_scale)
  \/ \E page \in Pages, zoom \in Scales, fromLink \in BOOLEAN :
       navigate_to_dest(page, zoom, fromLink)
  \/ ScrollHandler
  \/ RenderTimeout
  \/ PrefetchTimeout
  \/ Answer

Spec == Init /\ [][Next]_vars

\* The browser fires its timers and events, and a request ends one way or another.
FairSpec ==
  /\ Spec
  /\ WF_vars(ScrollHandler) /\ WF_vars(RenderTimeout) /\ WF_vars(PrefetchTimeout)
  /\ WF_vars(Answer)

-----------------------------------------------------------------------------

\* The state keeps its type: the reader and the viewer never point at a page that
\* does not exist (Viewer.scroll_to, Viewer.update_page_idx).
TypeOK ==
  /\ loaded \in [Pages -> BOOLEAN]
  /\ shown \in [Pages -> BOOLEAN]
  /\ cur_scale \in [Pages -> Scales]
  /\ pages_loading \in [Pages -> BOOLEAN]
  /\ requests \in [Pages -> Seq({"none", "exact"})]
  /\ render_timer \in BOOLEAN
  /\ scroll_event \in BOOLEAN
  /\ view \in [page : Pages, place : Places]
  /\ cur_page_idx \in Pages
  /\ scale \in Scales
  /\ failed \subseteq Pages
  /\ dest \in [page : Pages, place : Places] \cup {NoDest}
  /\ events \in Nat
  /\ failures \in Nat

\* A page is fetched by one request at a time, and not again once it is there: no
\* answer ever replaces content the reader is looking at.
LoadedOnce ==
  \A i \in Pages : /\ Len(requests[i]) <= 1
                   /\ requests[i] # <<>> => pages_loading[i] /\ ~loaded[i]

\* Every page has the viewer's zoom, whenever it arrived.
ScaleUniform == \A i \in Pages : cur_scale[i] = scale

\* When the reader stops, the pages shown come to be exactly the nearly visible
\* ones, but for those whose request failed.
Settles ==
  <>[](\A i \in Pages : /\ shown[i] => i \in NearlyVisible
                        /\ i \in NearlyVisible => shown[i] \/ i \in failed)

\* "Scroll to the exact position once loaded."
ExactOnceLoaded == dest # NoDest /\ loaded[dest.page] => view = dest
=============================================================================
