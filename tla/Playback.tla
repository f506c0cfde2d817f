------------------------------ MODULE Playback ------------------------------
(***************************************************************************)
(* The browser's session (static/app.js): its WebSocket with the reconnect *)
(* loop, the controls it keeps in step with the server, the replay of a    *)
(* pcap file, which takes the place of the live stream, and the timeline   *)
(* over a stored capture, which is one more control of the live stream.    *)
(*                                                                         *)
(* JavaScript runs one callback at a time, so a callback is one action,    *)
(* and an `await' ends it: the answer is an action of its own, which finds *)
(* whatever state the callbacks in between have left.  A timer that may    *)
(* or may not have run out is a free choice of the callback that asks.     *)
(*                                                                         *)
(* Every array and every answer is abstracted to what tells two of them    *)
(* apart: a replay answer to its file and offset, the picture to the set   *)
(* of answers and live frames drawn since it was last cleared.             *)
(***************************************************************************)
EXTENDS Integers, Sequences, FiniteSets, SequencesExt

CONSTANTS
    Controls,       \* sequence: the controls ws.onopen sends, in its order
    Deferred,       \* the controls among them whose change is sent later
    Files,          \* pcap files of /api/pcaps
    Missing,        \* a file that is listed and then deleted
    Duration,       \* the offset at which every file ends
    Captures,       \* captures of the history list
    Bounds,         \* Bounds[c]: first and last scrub position of capture c
    MaxSockets,     \* bound: WebSocket objects that exist at a time
    MaxEvents,      \* bound: acts of the user and faults of the network
    None

ASSUME PlaybackAssumption ==
    /\ Controls \in Seq(ToSet(Controls)) /\ "time" \notin ToSet(Controls)
    /\ Deferred \subseteq ToSet(Controls)
    /\ Duration \in Nat /\ MaxSockets \in Nat \ {0} /\ MaxEvents \in Nat
    /\ \A c \in Captures : /\ Bounds[c][1] \in Nat
                           /\ Bounds[c][2] \in Nat
                           /\ Bounds[c][1] < Bounds[c][2]
    /\ None \notin Files \cup Captures
    /\ Missing \notin Files /\ Missing # None

VARIABLES
    sock,       \* WebSocket objects: their state and what is under way to the server
    ws,         \* the global `ws', 0 for null
    retries,    \* reconnect timers that have not fired
    knows,      \* what the server holds for the client behind each socket
    ui,         \* the page's own filters, layout and aggregation
    replay,     \* replayMode, replayRequestSeq and replayFetchTimer
    entering,   \* enterReplayMode calls that await the file list
    loads,      \* replay requests under way
    held,       \* a live delta waits for the throttle of updateGraph
    drawn,      \* what updateGraph has drawn since the graph was last cleared
    missed,     \* the newest replay request failed (history)
    line,       \* the timeline object
    opening,    \* enterTimeline calls that await the capture's overview
    events      \* acts and faults so far

vars == <<sock, ws, retries, knows, ui, replay, entering, loads, held, drawn, missed,
          line, opening, events>>

Sockets == 1 .. MaxSockets
Offsets == 0 .. Duration
Live     == [file |-> None, upto |-> 0]            \* a mark of `drawn'
Off      == [id |-> None, t |-> 0]                 \* no timeline position
NoSocket == [state |-> "none", up |-> <<>>]
Defaults == [ui |-> [c \in ToSet(Controls) |-> 0], time |-> Off]

-----------------------------------------------------------------------------
(* Helpers.  sendControl drops what it is given unless `ws' is open.       *)

IsOpen(n) == n # 0 /\ sock[n].state = "open"

Control(c)   == [kind |-> c, value |-> ui[c]]
Position(l)  == [kind |-> "time", value |-> IF l.id = None THEN Off ELSE [id |-> l.id, t |-> l.t]]

SendControl(msg) ==
    sock' = IF IsOpen(ws) THEN [sock EXCEPT ![ws].up = Append(@, msg)] ELSE sock

\* connectWebSocket: nothing in replay mode, else a new socket that takes
\* the place of whatever `ws' held.
Connect(active, socks) ==
    IF active
    THEN UNCHANGED ws /\ sock' = socks
    ELSE \E n \in Sockets :
            /\ socks[n].state = "none"
            /\ \A k \in 1 .. n - 1 : socks[k].state # "none"
            /\ ws' = n
            /\ sock' = [socks EXCEPT ![n] = [state |-> "connecting", up |-> <<>>]]

Act  == events < MaxEvents /\ events' = events + 1
Calm == UNCHANGED events

Init ==
    /\ sock = [n \in Sockets |-> IF n = 1 THEN [NoSocket EXCEPT !.state = "connecting"]
                                          ELSE NoSocket]
    /\ ws = 1
    /\ retries = 0
    /\ knows = [n \in Sockets |-> Defaults]
    /\ ui = [c \in ToSet(Controls) |-> 0]
    /\ replay = [active |-> FALSE, file |-> None, offset |-> 0, seq |-> 0, timer |-> FALSE]
    /\ entering = {}
    /\ loads = {}
    /\ held = FALSE
    /\ drawn = {}
    /\ missed = FALSE
    /\ line = [active |-> FALSE, id |-> None, t |-> 0, playing |-> FALSE,
               timer |-> FALSE, band |-> {}]
    /\ opening = {}
    /\ events = 0

-----------------------------------------------------------------------------
(* The socket.                                                             *)

\* Mutant: the timeline position is not restored on a reconnect.
OpenedOutOfTimeline(n) ==
    /\ sock[n].state = "connecting"
    /\ LET now == [sock EXCEPT ![n].state = "open"]
       IN sock' = IF ws # 0 /\ now[ws].state = "open"
                  THEN [now EXCEPT ![ws].up = @ \o [i \in 1 .. Len(Controls) |-> Control(Controls[i])]]
                  ELSE now
    /\ knows' = [knows EXCEPT ![n] = Defaults]
    /\ Calm
    /\ UNCHANGED <<held, ws, retries, ui, replay, entering, loads, drawn, missed, line, opening>>

\* ws.onopen: resend every control, and the timeline position when in one.
\* It sends through `ws', which may be another socket than the one opened.
\* The server starts every client from its defaults.
Opened(n) ==
    /\ sock[n].state = "connecting"
    /\ LET resend == [i \in 1 .. Len(Controls) |-> Control(Controls[i])]
                     \o IF line.active THEN <<Position(line)>> ELSE <<>>
           now    == [sock EXCEPT ![n].state = "open"]
       IN sock' = IF ws # 0 /\ now[ws].state = "open"
                  THEN [now EXCEPT ![ws].up = @ \o resend]
                  ELSE now
    /\ knows' = [knows EXCEPT ![n] = Defaults]
    /\ line' = IF line.active THEN [line EXCEPT !.timer = FALSE] ELSE line
    /\ Calm
    /\ UNCHANGED <<held, ws, retries, ui, replay, entering, loads, drawn, missed, opening>>

\* Mutant: a reconnect is left to the caller.
ClosedForGood(n) ==
    /\ sock' = [sock EXCEPT ![n] = NoSocket]
    /\ ws' = IF ws = n THEN 0 ELSE ws
    /\ UNCHANGED <<held, retries, knows, ui, replay, entering, loads, drawn, missed, line, opening>>

\* ws.onclose: try again in three seconds, unless in replay mode.
Closed(n) ==
    /\ sock' = [sock EXCEPT ![n] = NoSocket]
    /\ ws' = IF ws = n THEN 0 ELSE ws
    /\ retries' = IF replay.active THEN retries ELSE retries + 1
    /\ UNCHANGED <<held, knows, ui, replay, entering, loads, drawn, missed, line, opening>>

\* The close handshake that enterReplayMode began comes to its end.
CloseEnds(n) == sock[n].state = "closing" /\ Calm /\ Closed(n)

\* The server restarts, or the network fails.
Drop(n) == sock[n].state \in {"connecting", "open"} /\ Act /\ Closed(n)

\* The three-second timer.
Retry ==
    /\ retries > 0
    /\ retries' = retries - 1
    /\ Connect(replay.active, sock)
    /\ Calm
    /\ UNCHANGED <<held, knows, ui, replay, entering, loads, drawn, missed, line, opening>>

\* The server takes the next control message of a client (applyControl).
ServerTakes(n) ==
    /\ sock[n].state = "open" /\ sock[n].up # <<>>
    /\ LET m == Head(sock[n].up) IN
       knows' = IF m.kind = "time" THEN [knows EXCEPT ![n].time = m.value]
                                   ELSE [knows EXCEPT ![n].ui[m.kind] = m.value]
    /\ sock' = [sock EXCEPT ![n].up = Tail(@)]
    /\ Calm
    /\ UNCHANGED <<held, ws, retries, ui, replay, entering, loads, drawn, missed, line, opening>>

\* ws.onmessage: a complete picture replaces what is drawn and cancels the
\* delta that waits, a delta is added or made to wait (throttledUpdateGraph).
\* Nothing asks whether the page is in replay mode.
LiveFrame(n) ==
    /\ sock[n].state = "open"
    /\ \/ drawn' = {Live} /\ held' = FALSE
       \/ drawn' = drawn \cup {Live} /\ UNCHANGED held
       \/ UNCHANGED drawn /\ held' = TRUE
    /\ Calm
    /\ UNCHANGED <<sock, ws, retries, knows, ui, replay, entering, loads, missed, line, opening>>

\* The throttle's timer draws the delta that waits, whatever came in between.
HeldFrame ==
    /\ held
    /\ held' = FALSE
    /\ drawn' = drawn \cup {Live}
    /\ Calm
    /\ UNCHANGED <<sock, ws, retries, knows, ui, replay, entering, loads, missed, line, opening>>

-----------------------------------------------------------------------------
(* Filters, layout and aggregation.                                        *)

\* The user changes a control: the page's own copy first, then the server's.
SetControl(c) ==
    /\ Act
    /\ ui' = [ui EXCEPT ![c] = 1 - @]
    /\ SendControl([kind |-> c, value |-> ui'[c]])
    /\ UNCHANGED <<held, ws, retries, knows, replay, entering, loads, drawn, missed, line, opening>>

\* The camera crosses a zoom band (reportZoomBand): sent by a timer of 280 ms.
CrossZoomBand(c) ==
    /\ Act
    /\ ui' = [ui EXCEPT ![c] = 1 - @]
    /\ line' = [line EXCEPT !.band = @ \cup {c}]
    /\ UNCHANGED <<held, sock, ws, retries, knows, replay, entering, loads, drawn, missed, opening>>

BandTimer(c) ==
    /\ c \in line.band
    /\ line' = [line EXCEPT !.band = @ \ {c}]
    /\ SendControl(Control(c))
    /\ Calm
    /\ UNCHANGED <<held, ws, retries, knows, ui, replay, entering, loads, drawn, missed, opening>>

-----------------------------------------------------------------------------
(* Replay.                                                                 *)

\* loadReplayDataAtOffset: a request that carries the next sequence number.
Load(r) ==
    /\ replay' = [r EXCEPT !.seq = @ + 1]
    /\ loads' = loads \cup {[seq |-> r.seq + 1, file |-> r.file, upto |-> r.offset]}
    /\ missed' = FALSE

\* enterReplayMode, up to its first await: the socket is closed at once.
EnterReplay(f) ==
    /\ Act
    /\ f \notin entering
    /\ entering' = entering \cup {f}
    /\ sock' = IF ws # 0 THEN [sock EXCEPT ![ws].state = "closing"] ELSE sock
    /\ ws' = 0
    /\ UNCHANGED <<held, retries, knows, ui, replay, loads, drawn, missed, line, opening>>

\* The file list arrives and has the file: the graph is cleared and the end
\* of the capture is asked for.
ReplayFound(f) ==
    /\ f \in entering \ {Missing}
    /\ entering' = entering \ {f}
    /\ drawn' = {}
    /\ Load([replay EXCEPT !.active = TRUE, !.file = f, !.offset = Duration])
    /\ Calm
    /\ UNCHANGED <<held, sock, ws, retries, knows, ui, line, opening>>

\* The file list arrives without the file: an early return.
ReplayNotFound(f) ==
    /\ f \in entering \cap {Missing}
    /\ entering' = entering \ {f}
    /\ Calm
    /\ UNCHANGED <<held, sock, ws, retries, knows, ui, replay, loads, drawn, missed, line, opening>>

\* exitReplayMode: clear, and connect again.
ExitReplay(socks) ==
    /\ replay' = [replay EXCEPT !.active = FALSE, !.file = None]
    /\ drawn' = {}
    /\ Connect(FALSE, socks)
    /\ UNCHANGED <<held, retries, knows, ui, loads, missed, line, opening>>

ReturnToLive == replay.active /\ Act /\ ExitReplay(sock) /\ UNCHANGED entering

\* The file list cannot be fetched: the catch of enterReplayMode.
ReplayFails(f) ==
    /\ f \in entering
    /\ entering' = entering \ {f}
    /\ Act
    /\ ExitReplay(sock)

\* Mutant: no trailing call, the throttle only drops.
ScrubWithoutTrailer(o) ==
    /\ replay.active /\ Act
    /\ o # replay.offset
    /\ \/ Load([replay EXCEPT !.offset = o, !.timer = FALSE])
       \/ /\ replay' = [replay EXCEPT !.offset = o]
          /\ UNCHANGED <<loads, missed>>
    /\ UNCHANGED <<held, sock, ws, retries, knows, ui, entering, drawn, line, opening>>

\* The slider moves (throttleReplayFetch): a request at once, which cancels a
\* waiting one, when the last is 100 ms old, else one timer for the rest.
Scrub(o) ==
    /\ replay.active /\ Act
    /\ o # replay.offset
    /\ \/ Load([replay EXCEPT !.offset = o, !.timer = FALSE])
       \/ /\ replay' = [replay EXCEPT !.offset = o, !.timer = TRUE]
          /\ UNCHANGED <<loads, missed>>
    /\ UNCHANGED <<held, sock, ws, retries, knows, ui, entering, drawn, line, opening>>

\* A replay search result is clicked: its offset is asked for without throttle.
JumpTo(o) ==
    /\ replay.active /\ Act
    /\ o # replay.offset
    /\ Load([replay EXCEPT !.offset = o])
    /\ UNCHANGED <<held, sock, ws, retries, knows, ui, entering, drawn, line, opening>>

\* The throttle's timer asks for the offset of the moment it fires.
ScrubTimer ==
    /\ replay.timer
    /\ IF replay.active THEN Load([replay EXCEPT !.timer = FALSE])
       ELSE replay' = [replay EXCEPT !.timer = FALSE] /\ UNCHANGED <<loads, missed>>
    /\ Calm
    /\ UNCHANGED <<held, sock, ws, retries, knows, ui, entering, drawn, line, opening>>

\* Mutant: no sequence guard.
LoadAnsweredAnyway(l) ==
    /\ l \in loads
    /\ loads' = loads \ {l}
    /\ drawn' = drawn \cup {[file |-> l.file, upto |-> l.upto]}
    /\ Calm
    /\ UNCHANGED <<held, sock, ws, retries, knows, ui, replay, entering, missed, line, opening>>

\* An answer of a superseded request is dropped.  The others are drawn over
\* what is there: the server marks them isFull but not fullDone, and only
\* fullDone removes what a picture no longer lists.
LoadAnswered(l) ==
    /\ l \in loads
    /\ loads' = loads \ {l}
    /\ drawn' = IF l.seq = replay.seq
                THEN drawn \cup {[file |-> l.file, upto |-> l.upto]}
                ELSE drawn
    /\ Calm
    /\ UNCHANGED <<held, sock, ws, retries, knows, ui, replay, entering, missed, line, opening>>

LoadFails(l) ==
    /\ l \in loads /\ Act
    /\ loads' = loads \ {l}
    /\ missed' = (missed \/ l.seq = replay.seq)
    /\ UNCHANGED <<held, sock, ws, retries, knows, ui, replay, entering, drawn, line, opening>>

-----------------------------------------------------------------------------
(* The timeline of a stored capture.                                       *)

\* sendTimelinePosition: at once when asked to or when the last is 150 ms
\* old, else by a timer that reads the position when it fires.  Either way
\* the timer that was waiting is cancelled.
SendPosition(l, immediate) ==
    \/ line' = [l EXCEPT !.timer = FALSE] /\ SendControl(Position(l))
    \/ ~immediate /\ line' = [l EXCEPT !.timer = TRUE] /\ UNCHANGED sock

TimelineUnchanged ==
    UNCHANGED <<held, ws, retries, knows, ui, replay, entering, loads, drawn, missed>>

PositionTimer ==
    /\ line.timer
    /\ SendPosition(line, TRUE)
    /\ Calm /\ TimelineUnchanged /\ UNCHANGED opening

\* A capture of the history list is clicked: enterTimeline, up to its await.
OpenCapture(c) ==
    /\ Act
    /\ opening' = opening \cup {c}
    /\ TimelineUnchanged /\ UNCHANGED <<sock, line>>

\* Its overview arrives (or not, or empty): the position is the end.
CaptureOpened(c) ==
    /\ c \in opening
    /\ opening' = opening \ {c}
    /\ \/ SendPosition([line EXCEPT !.active = TRUE, !.id = c, !.t = Bounds[c][2],
                                    !.playing = FALSE], TRUE)
       \/ UNCHANGED <<line, sock>>
    /\ Calm /\ TimelineUnchanged

\* exitTimeline leaves the position's timer alone; the timer will send the
\* captureId that is set here.
ExitTimeline ==
    /\ line.active /\ Act
    /\ line' = [line EXCEPT !.active = FALSE, !.playing = FALSE, !.id = None]
    /\ SendControl(Position(line'))
    /\ TimelineUnchanged /\ UNCHANGED opening

MoveSlider(t) ==
    /\ line.active /\ Act
    /\ t \in Bounds[line.id][1] .. Bounds[line.id][2]
    /\ SendPosition([line EXCEPT !.t = t, !.playing = FALSE], FALSE)
    /\ TimelineUnchanged /\ UNCHANGED opening

TogglePlay ==
    /\ line.active /\ Act
    /\ line' = IF line.playing THEN [line EXCEPT !.playing = FALSE]
               ELSE [line EXCEPT !.playing = TRUE,
                                 !.t = IF @ >= Bounds[line.id][2] THEN Bounds[line.id][1] ELSE @]
    /\ TimelineUnchanged /\ UNCHANGED <<sock, opening>>

\* One tick of the play interval; the last one stops it.
PlayTick ==
    /\ line.playing
    /\ LET last == Bounds[line.id][2]
           t    == IF line.t + 1 > last THEN last ELSE line.t + 1
       IN SendPosition([line EXCEPT !.t = t, !.playing = t < last], FALSE)
    /\ Calm /\ TimelineUnchanged /\ UNCHANGED opening

-----------------------------------------------------------------------------
Next ==
    \/ \E n \in Sockets : \/ Opened(n) \/ CloseEnds(n) \/ Drop(n)
                          \/ ServerTakes(n) \/ LiveFrame(n)
    \/ Retry \/ HeldFrame
    \/ \E c \in ToSet(Controls) : SetControl(c)
    \/ \E c \in Deferred : CrossZoomBand(c) \/ BandTimer(c)
    \/ \E f \in Files \cup {Missing} : \/ EnterReplay(f) \/ ReplayFound(f)
                                       \/ ReplayNotFound(f) \/ ReplayFails(f)
    \/ ReturnToLive
    \/ \E o \in Offsets : Scrub(o) \/ JumpTo(o)
    \/ ScrubTimer
    \/ \E l \in loads : LoadAnswered(l) \/ LoadFails(l)
    \/ \E c \in Captures : OpenCapture(c) \/ CaptureOpened(c)
    \/ \E c \in Captures : \E t \in Bounds[c][1] .. Bounds[c][2] : MoveSlider(t)
    \/ ExitTimeline \/ TogglePlay \/ PlayTick \/ PositionTimer

Spec == Init /\ [][Next]_vars

\* Timers fire, a closing socket ends its handshake, and a server that is
\* asked often enough accepts: what ends a connection is counted in MaxEvents.
Fairness ==
    /\ WF_vars(Retry)
    /\ \A n \in Sockets : /\ WF_vars(Opened(n))
                          /\ WF_vars(CloseEnds(n))

FairSpec == Spec /\ Fairness

-----------------------------------------------------------------------------
(* Properties.                                                             *)

TypeOK ==
    /\ \A n \in Sockets :
          /\ sock[n].state \in {"none", "connecting", "open", "closing"}
          /\ \A i \in 1 .. Len(sock[n].up) :
                LET m == sock[n].up[i] IN
                IF m.kind = "time" THEN m.value \in [id : Captures \cup {None}, t : Nat]
                                   ELSE m.kind \in ToSet(Controls) /\ m.value \in {0, 1}
    /\ ws \in 0 .. MaxSockets
    /\ retries \in Nat
    /\ ui \in [ToSet(Controls) -> {0, 1}]
    /\ replay \in [active : BOOLEAN, file : Files \cup {None}, offset : Offsets,
                   seq : Nat, timer : BOOLEAN]
    /\ entering \subseteq Files \cup {Missing}
    /\ loads \subseteq [seq : 1 .. replay.seq, file : Files, upto : Offsets]
    /\ drawn \subseteq [file : Files, upto : Offsets] \cup {Live}
    /\ missed \in BOOLEAN /\ held \in BOOLEAN
    /\ line \in [active : BOOLEAN, id : Captures \cup {None}, t : Nat, playing : BOOLEAN,
                 timer : BOOLEAN, band : SUBSET Deferred]
    /\ opening \subseteq Captures
    /\ events \in 0 .. MaxEvents

\* What app.js:2384-2397 resends on connect and the throttles of
\* sendTimelinePosition and reportZoomBand send late add up: when the current
\* socket is open, nothing is under way and no timer is waiting, the server
\* holds the page's own controls and its timeline position, whatever was
\* changed, played, left or lost while the socket was down.  (The rewind of
\* toggleTimelinePlay at the end is sent by the first tick, and a pause before
\* it leaves the server at the end.)
ServerFollowsPage ==
    (IsOpen(ws) /\ sock[ws].up = <<>> /\ ~line.timer)
        => /\ \A c \in ToSet(Controls) \ line.band : knows[ws].ui[c] = ui[c]
           /\ IF line.active
              THEN \/ knows[ws].time = [id |-> line.id, t |-> line.t]
                   \/ /\ line.t = Bounds[line.id][1]
                      /\ knows[ws].time = [id |-> line.id, t |-> Bounds[line.id][2]]
              ELSE knows[ws].time.id = None

\* Every position under way lies within the capture it names
\* (enterTimeline replaces capture, bounds and position in one callback).
PositionsExist ==
    \A n \in Sockets : \A i \in 1 .. Len(sock[n].up) :
        LET m == sock[n].up[i] IN
        m.kind = "time" /\ m.value.id # None
            => m.value.t \in Bounds[m.value.id][1] .. Bounds[m.value.id][2]

Settled == replay.active /\ loads = {} /\ ~replay.timer /\ ~missed

\* The throttle and the sequence guard of the slider (app.js:4571-4575: "a
\* trailing call so the view always settles on the final slider position"):
\* once nothing is under way, the picture of the current file at the current
\* offset has been drawn, whichever answers came late or were superseded
\* (unless a live frame of a socket that is still open came in between).
ScrubSettles ==
    Settled /\ Live \notin drawn
        => [file |-> replay.file, upto |-> replay.offset] \in drawn

\* What is drawn in replay belongs to one file: entering and leaving clear the
\* graph, and the sequence guard drops what was asked of the file before
\* (app.js:237: "a slow earlier response must never overwrite a newer view").
OneFileDrawn ==
    replay.active => \A m \in drawn : m.file \in {None, replay.file}

\* The picture in replay is that of the offset: nothing is drawn that the
\* file shows only later (app.js:2893: "isFull replaces the whole graph").
ReplayShowsOffset ==
    Settled => \A m \in drawn : m.file = replay.file => m.upto <= replay.offset

\* Outside replay the page always comes back to an open socket: after a lost
\* connection, a replay left or a replay that could not be entered
\* (the reconnect timer of ws.onclose and exitReplayMode).
LiveComesBack == []<>(replay.active \/ entering # {} \/ IsOpen(ws))

(* The server plays what the page shows, at a position that exists
   (sendTimelinePosition, the open handler of the socket); every variable has
   its type. *)
PositionsAgree == TypeOK /\ ServerFollowsPage /\ PositionsExist
=============================================================================
