-------------------------------- MODULE Finder --------------------------------
(***************************************************************************)
(* The sidebar and the search box of the page (static/app.js), composed    *)
(* with the node details: the debounced search with its three sources      *)
(* (what the page holds, /api/search or /api/replay/search, and            *)
(* /api/search/payload), the choice of a result, which may have to expand  *)
(* a subnet and wait for the host to come into view, the submenus, and the *)
(* list and the detail window of the streams.                              *)
(***************************************************************************)
EXTENDS Details, Sequences

CONSTANTS
    Query,          \* texts that are typed
    MaxRuns,        \* bound: searches performed
    MaxTries,       \* how often a wait for a hidden host looks again (20 in the code)
    Protocol,       \* protocol filters of the stream list
    Stream          \* streams that can be opened

ASSUME FinderAssumption == MaxRuns \in Nat /\ MaxTries \in Nat /\ None \notin Stream

VARIABLES
    input,      \* the text of the box, None when empty
    timer,      \* the query the debounce timer will search for, None if unset
    runs,       \* the searches performed: query, replay, and what their results hold
    serverId,   \* the search serverSearchId belongs to
    payloadId,  \* the search payloadSearchId belongs to
    popup,      \* the results shown: the search and what was displayed of it; None
    calls,      \* fetches of the search box under way
    replay,     \* replayMode.active
    waits,      \* waits for hosts in expanded subnets: host, tries
    menus,      \* submenus shown
    lit,        \* their buttons with class active
    streams,    \* the list: None, "loading", or the protocol it was loaded for
    window,     \* the stream detail window: open, data, title, tab, content
    streamCalls \* fetches of the list and of the window under way

svars == <<input, timer, runs, serverId, payloadId, popup, calls, replay, waits>>
mvars == <<menus, lit, streams, window, streamCalls>>
vars == <<dvars, svars, mvars>>

-----------------------------------------------------------------------------
(* The search box.                                                         *)

Type(q) ==
    /\ Act /\ input' = q /\ timer' = q
    /\ UNCHANGED <<runs, serverId, payloadId, popup, calls, replay, waits>>

Erase ==                        \* the last character deleted by hand
    /\ Act /\ input # None
    /\ input' = None /\ timer' = None /\ popup' = None
    /\ UNCHANGED <<runs, serverId, payloadId, calls, replay, waits>>

(* The clear button, Esc or a click outside leave the debounce timer set. *)
ClearSearch ==
    /\ Act /\ (input # None \/ popup # None)
    /\ input' = None /\ popup' = None
    /\ UNCHANGED <<timer, runs, serverId, payloadId, calls, replay, waits>>

Displayed(run, parts) == [run |-> run, parts |-> parts]

Call(kind, run, host) == [kind |-> kind, run |-> run, host |-> host]

(* performSearch: what the page holds is shown at once. *)
PerformSearch(q) ==
    LET r == Len(runs) + 1 IN
    /\ runs' = Append(runs, [query |-> q, replay |-> replay, parts |-> {"local"}])
    /\ popup' = Displayed(r, {"local"})
    /\ serverId' = r
    /\ payloadId' = IF replay THEN payloadId ELSE r
    /\ calls' = calls \cup (IF replay THEN {Call("replay", r, None)}
                            ELSE {Call(k, r, None) : k \in {"server", "payload"}})

TimerFires ==
    /\ Event /\ timer # None /\ Len(runs) < MaxRuns
    /\ timer' = None /\ PerformSearch(timer)
    /\ UNCHANGED <<input, replay, waits>>

NewestServer(c) == c.kind = "payload" \/ c.run = serverId   \* payload answers unguarded
Newest(c) == c.run = (IF c.kind = "payload" THEN payloadId ELSE serverId)

(* An answer that is still wanted and found something joins the results of
   its search, and they are shown again. *)
SearchAnswered(c, found) ==
    /\ Event /\ c \in calls /\ c.kind \in {"server", "replay", "payload"}
    /\ calls' = calls \ {c}
    /\ IF found /\ Newest(c)
       THEN LET all == runs[c.run].parts \cup {c.kind} IN
            /\ runs' = [runs EXCEPT ![c.run].parts = all]
            /\ popup' = Displayed(c.run, all)
       ELSE UNCHANGED <<runs, popup>>
    /\ UNCHANGED <<input, timer, serverId, payloadId, replay, waits>>

SwitchReplay ==                 \* enterReplayMode, exitReplayMode
    /\ Act /\ replay' = ~replay
    /\ UNCHANGED <<input, timer, runs, serverId, payloadId, popup, calls, waits>>

-----------------------------------------------------------------------------
(* A result is chosen.                                                     *)

(* focusOnNode: select the host and show it in half a second, or expand its
   subnets and wait for it. *)
FocusOn(n) ==
    IF n \in InView THEN later' = later \cup {n} /\ UNCHANGED waits
    ELSE waits' = waits \cup {[host |-> n, tries |-> 0]} /\ UNCHANGED later

Cleared == input' = None /\ popup' = None

ChoosePayload(n) ==
    /\ Act /\ popup # None /\ "payload" \in popup.parts
    /\ FocusOn(n) /\ Cleared
    /\ UNCHANGED <<timer, runs, serverId, payloadId, calls, replay>>

(* A host asks for its newest packet first, a result in the file for the
   packets of its offset. *)
Choose(n) ==
    /\ Act /\ popup # None
    /\ \/ /\ ("server" \in popup.parts \/ births[n] > 0)
          /\ calls' = calls \cup {Call("recent", 0, n)}
       \/ /\ "replay" \in popup.parts /\ replay
          /\ calls' = calls \cup {Call("jump", 0, None)}
    /\ UNCHANGED <<input, timer, runs, serverId, payloadId, popup, replay, waits, later>>

ChoiceReturns(c) ==             \* answered or failed
    /\ Event /\ c \in calls /\ c.kind \in {"recent", "jump"}
    /\ calls' = calls \ {c} /\ Cleared
    /\ IF c.kind = "recent" THEN FocusOn(c.host) ELSE UNCHANGED <<later, waits>>
    /\ UNCHANGED <<timer, runs, serverId, payloadId, replay>>

Retried(w) == IF w.tries < MaxTries THEN {[w EXCEPT !.tries = @ + 1]} ELSE {}

(* Every 250 ms: focus when the expanded view has brought the host. *)
WaitTick(w) ==
    /\ Event /\ w \in waits
    /\ IF w.host \in InView
       THEN waits' = waits \ {w} /\ later' = later \cup {w.host} /\ Cleared
       ELSE /\ waits' = (waits \ {w}) \cup Retried(w)
            /\ UNCHANGED <<input, popup, later>>
    /\ UNCHANGED <<timer, runs, serverId, payloadId, calls, replay>>

-----------------------------------------------------------------------------
(* Submenus. The streams menu loads its list when it opens.                *)

Menu == {"streams", "settings"}

ListCall(p) == [kind |-> "list", proto |-> p, id |-> None]
DetailCall(i) == [kind |-> "detail", proto |-> None, id |-> i]

(* toggleSubmenu: close the others, flip the button and the menu. *)
Toggled(m) == lit' = {m} \ lit /\ menus' = {m} \ menus

Loads(p) == streams' = "loading" /\ streamCalls' = streamCalls \cup {ListCall(p)}

ToggleMenu(m) ==
    /\ Act /\ Toggled(m)
    /\ IF m = "streams" /\ m \notin menus
       THEN \E p \in Protocol : Loads(p)
       ELSE UNCHANGED <<streams, streamCalls>>
    /\ UNCHANGED window

(* A click outside the sidebar, except while the stream window is open. *)
ClickOutside ==
    /\ Act /\ menus # {} /\ ~window.open
    /\ menus' = {} /\ lit' = {}
    /\ UNCHANGED <<streams, window, streamCalls>>

-----------------------------------------------------------------------------
(* Streams.                                                                *)

SetStreamFilter(p) ==           \* the filter or the refresh button
    /\ Act /\ "streams" \in menus /\ Loads(p)
    /\ UNCHANGED <<menus, lit, window>>

ListAnswered(c, ok) ==
    /\ Event /\ c \in streamCalls /\ c.kind = "list"
    /\ streamCalls' = streamCalls \ {c}
    /\ streams' = IF ok THEN c.proto ELSE None
    /\ UNCHANGED <<menus, lit, window>>

OpenStream(i) ==                \* an item of the list
    /\ Act /\ streams \in Protocol /\ "streams" \in menus
    /\ streamCalls' = streamCalls \cup {DetailCall(i)}
    /\ UNCHANGED <<menus, lit, streams, window>>

OpenTagged(i) ==                \* a stream tag of the search
    /\ Act /\ popup # None /\ "payload" \in popup.parts
    /\ streamCalls' = streamCalls \cup {DetailCall(i)} /\ Cleared
    /\ UNCHANGED <<timer, runs, serverId, payloadId, calls, replay, waits, menus, lit, streams,
                   window>>

Content(data, tab) == [data |-> data, tab |-> tab]

StreamOpenedOnTab(i) ==             \* without the reset to the decoded tab
    [open |-> TRUE, data |-> i, title |-> i, tab |-> window.tab, content |-> Content(i, "decoded")]
StreamOpened(i) == [open |-> TRUE, data |-> i, title |-> i, tab |-> "decoded",
                    content |-> Content(i, "decoded")]

StreamArrives(c, ok) ==
    /\ Event /\ c \in streamCalls /\ c.kind = "detail"
    /\ streamCalls' = streamCalls \ {c}
    /\ window' = IF ok THEN StreamOpened(c.id) ELSE window
    /\ UNCHANGED <<menus, lit, streams>>

SwitchTab(tab) ==
    /\ Act /\ window.open /\ tab # window.tab
    /\ window' = [window EXCEPT !.tab = tab,
                     !.content = IF window.data = None THEN @ ELSE Content(window.data, tab)]
    /\ UNCHANGED <<menus, lit, streams, streamCalls>>

CloseStream ==
    /\ Act /\ window.open
    /\ window' = [window EXCEPT !.open = FALSE, !.data = None]
    /\ UNCHANGED <<menus, lit, streams, streamCalls>>

-----------------------------------------------------------------------------
Init ==
    /\ DetailsInit
    /\ input = None /\ timer = None /\ runs = <<>> /\ serverId = 0 /\ payloadId = 0
    /\ popup = None /\ calls = {} /\ replay = FALSE /\ waits = {}
    /\ menus = {} /\ lit = {} /\ streams = None /\ streamCalls = {}
    /\ window = [open |-> FALSE, data |-> None, title |-> None, tab |-> "decoded",
                 content |-> None]

NotLater == <<meta, births, joined, pending, fetches, panel, detailsId, micro, hover, tip,
              sight, want>>

SearchNext ==
    \/ /\ UNCHANGED later
       /\ \/ \E q \in Query : Type(q)
          \/ Erase \/ ClearSearch \/ TimerFires \/ SwitchReplay
          \/ \E c \in calls, found \in BOOLEAN : SearchAnswered(c, found)
    \/ \E n \in Host : ChoosePayload(n) \/ Choose(n)
    \/ \E c \in calls : ChoiceReturns(c)
    \/ \E w \in waits : WaitTick(w)

MenuNext ==
    \/ \E m \in Menu : ToggleMenu(m)
    \/ ClickOutside \/ CloseStream
    \/ \E p \in Protocol : SetStreamFilter(p)
    \/ \E i \in Stream : OpenStream(i)
    \/ \E tab \in {"decoded", "packets"} : SwitchTab(tab)
    \/ \E c \in streamCalls, ok \in BOOLEAN : ListAnswered(c, ok) \/ StreamArrives(c, ok)

Next ==
    \/ DetailsNext /\ UNCHANGED <<svars, mvars>>
    \/ SearchNext /\ UNCHANGED <<NotLater, mvars>>
    \/ MenuNext /\ UNCHANGED <<NotLater, later, svars>>
    \/ (\E i \in Stream : OpenTagged(i)) /\ UNCHANGED <<NotLater, later>>

Spec == Init /\ [][Next]_vars

-----------------------------------------------------------------------------
(* Every variable has its type. *)
TypeOK ==
    /\ DetailsTypeOK
    /\ {input, timer} \subseteq Query \cup {None}
    /\ Len(runs) <= MaxRuns
    /\ \A r \in DOMAIN runs : runs[r] \in [query : Query, replay : BOOLEAN,
                   parts : SUBSET {"local", "server", "replay", "payload"}]
    /\ {serverId, payloadId} \subseteq 0 .. Len(runs)
    /\ popup # None => popup.run \in DOMAIN runs
    /\ \A c \in calls : c.run \in 0 .. Len(runs)
    /\ replay \in BOOLEAN /\ waits \subseteq [host : Host, tries : 0 .. MaxTries]
    /\ menus \subseteq Menu /\ lit \subseteq Menu
    /\ streams \in Protocol \cup {None, "loading"}

(* An answer that arrives late never puts the results of an earlier search
   over those of a newer one of the same mode. (Across a switch it can: a
   search of the file does not outdate the payload search of the capture.) *)
NewestSearchShown ==
    popup # None => \A r \in popup.run + 1 .. Len(runs) : runs[r].replay /\ ~runs[popup.run].replay

(* The three sources answer in any order and each shows the whole list again:
   what the popup shows is everything that has arrived for its search. *)
ShownIsMerged == popup # None => popup.parts = runs[popup.run].parts

(* Two streams opened in a row, a tab chosen, the window closed and opened:
   the content under the title is of that stream and of the lit tab. *)
StreamUnderItsTitle ==
    window.open => window.data = window.title /\ window.content = Content(window.title, window.tab)

(* The buttons and the submenus are switched apart, by clicks on them and
   outside: at most one submenu is open, and its button is the one lit. *)
MenusAgree == lit = menus /\ Cardinality(menus) <= 1

(* What the app shows of a node follows the user: the panel names what they
   asked for last, and what is dimmed is what their focus leaves out
   (showNodeDetails, applyFocusDim). *)
ViewFollowsUser == PanelFollowsUser /\ DimmedByFocus

(* A fetch under way is known as such, and what it brings reaches the panel
   of its node (fetchNodeDetail). *)
DetailsArrive == DetailReachesPanel /\ PendingIsInFlight

(* The popup shows the newest search, with all that has arrived for it
   (performSearch). *)
PopupIsCurrent == NewestSearchShown /\ ShownIsMerged

(* Windows and menus agree with themselves (switchStreamTab, setupMenus), and
   every variable has its type. *)
WindowsAgree == TypeOK /\ StreamUnderItsTitle /\ MenusAgree
=============================================================================
