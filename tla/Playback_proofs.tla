--------------------------- MODULE Playback_proofs ---------------------------
(***************************************************************************)
(* Proofs about Playback, for any controls, files, captures, sockets and   *)
(* any number of requests, answers, failures and lost connections.  What   *)
(* is drawn in replay is related to the requests under way by their        *)
(* sequence numbers:                                                       *)
(*                                                                         *)
(*   Numbered   no request has a number not given yet, and the newest one  *)
(*              is of the file in replay and, unless a timer is to ask     *)
(*              again, of its offset                                       *)
(*   Covered    the present offset is drawn, or the newest request is      *)
(*              still under way to bring it                                *)
(*                                                                         *)
(* What the server holds is related to the page through the messages under *)
(* way:                                                                    *)
(*                                                                         *)
(*   Foretold   on the page's open socket, what the server holds once it   *)
(*              has taken them all is what the page shows, but for a       *)
(*              control or a position a timer is still to send             *)
(***************************************************************************)
EXTENDS Playback, SequenceTheorems, TLAPS

Shaped == /\ replay = [active |-> replay.active, file |-> replay.file,
                       offset |-> replay.offset, seq |-> replay.seq, timer |-> replay.timer]
          /\ replay.seq \in Nat

Numbered ==
    \A l \in loads :
        /\ l.seq \in Nat /\ l.seq <= replay.seq
        /\ (l.seq = replay.seq /\ replay.active) =>
              /\ l.file = replay.file
              /\ ~replay.timer => l.upto = replay.offset

Covered ==
    (replay.active /\ ~replay.timer /\ ~missed /\ Live \notin drawn) =>
        \/ [file |-> replay.file, upto |-> replay.offset] \in drawn
        \/ \E l \in loads : l.seq = replay.seq

ReplayInv == Shaped /\ Numbered /\ Covered /\ OneFileDrawn

rstate == <<replay, loads, drawn, missed>>

-----------------------------------------------------------------------------
\* loadReplayDataAtOffset: the request it adds is the newest.
LEMMA LoadKeeps ==
    ASSUME ReplayInv, NEW r, Load(r), r.active,
           r = [active |-> r.active, file |-> r.file, offset |-> r.offset, seq |-> r.seq,
                timer |-> r.timer],
           r.seq = replay.seq,
           drawn' = {} \/ (drawn' = drawn /\ replay.active /\ r.file = replay.file)
    PROVE  ReplayInv'
<1> DEFINE new == [seq |-> r.seq + 1, file |-> r.file, upto |-> r.offset]
<1>1. /\ replay' = [r EXCEPT !.seq = r.seq + 1]
      /\ loads' = loads \cup {new} /\ missed' = FALSE
  BY DEF Load
<1>2. /\ Shaped' /\ replay'.active /\ replay'.file = r.file /\ replay'.offset = r.offset
      /\ replay'.seq = replay.seq + 1 /\ replay.seq \in Nat
  BY <1>1 DEF ReplayInv, Shaped
<1>3. new.seq = replay'.seq /\ new.file = replay'.file /\ new.upto = replay'.offset
  BY <1>2
<1> HIDE DEF new
<1>4. Numbered'
  <2> SUFFICES ASSUME NEW l \in loads'
               PROVE  /\ l.seq \in Nat /\ l.seq <= replay'.seq
                      /\ l.seq = replay'.seq => l.file = replay'.file /\ l.upto = replay'.offset
    BY DEF Numbered
  <2>1. CASE l = new
    BY <1>2, <1>3, <2>1
  <2>2. CASE l \in loads
    BY <1>2, <2>2 DEF ReplayInv, Numbered
  <2> QED
    BY <1>1, <2>1, <2>2
<1>5. Covered'
  BY <1>1, <1>3 DEF Covered
<1>6. OneFileDrawn'
  BY <1>2 DEF ReplayInv, OneFileDrawn
<1> QED
  BY <1>2, <1>4, <1>5, <1>6 DEF ReplayInv

\* The page leaves replay: nothing is claimed of what is drawn until it enters again.
LEMMA InactiveKeeps ==
    ASSUME ReplayInv, UNCHANGED loads, replay'.active = FALSE, replay'.seq = replay.seq, Shaped'
    PROVE  ReplayInv'
  BY DEF ReplayInv, Shaped, Numbered, Covered, OneFileDrawn

LEMMA ExitKeeps ==
    ASSUME ReplayInv, NEW socks, ExitReplay(socks)
    PROVE  ReplayInv'
<1>1. replay' = [replay EXCEPT !.active = FALSE, !.file = None] /\ loads' = loads
  BY DEF ExitReplay
<1>2. Shaped' /\ replay'.active = FALSE /\ replay'.seq = replay.seq
  BY <1>1 DEF ReplayInv, Shaped
<1> QED
  BY <1>1, <1>2, InactiveKeeps

\* A live frame adds the mark of the live stream, or keeps only that.
LEMMA LiveKeeps ==
    ASSUME ReplayInv, UNCHANGED <<replay, loads, missed>>,
           drawn' \in {drawn, drawn \cup {Live}, {Live}}
    PROVE  ReplayInv'
<1>1. Live.file = None
  BY DEF Live
<1>2. Covered'
  BY DEF ReplayInv, Covered
<1>3. OneFileDrawn'
  BY <1>1 DEF ReplayInv, OneFileDrawn
<1> QED
  BY <1>2, <1>3 DEF ReplayInv, Shaped, Numbered

\* The sequence guard: only an answer to the newest request is drawn.
LEMMA AnswerKeeps ==
    ASSUME ReplayInv, NEW l \in loads, LoadAnswered(l)
    PROVE  ReplayInv'
<1> DEFINE mark == [file |-> l.file, upto |-> l.upto]
<1>1. /\ UNCHANGED <<replay, missed>> /\ loads' = loads \ {l}
      /\ drawn' = IF l.seq = replay.seq THEN drawn \cup {mark} ELSE drawn
  BY DEF LoadAnswered
<1>2. Shaped' /\ Numbered'
  BY <1>1 DEF ReplayInv, Shaped, Numbered
<1>3. CASE l.seq # replay.seq
  BY <1>1, <1>2, <1>3 DEF ReplayInv, Covered, OneFileDrawn
<1>4. CASE l.seq = replay.seq
  <2>1. drawn' = drawn \cup {mark} /\ mark.file = l.file
    BY <1>1, <1>4
  <2>2. replay.active => l.file = replay.file /\ (~replay.timer => l.upto = replay.offset)
    BY <1>4 DEF ReplayInv, Numbered
  <2>3. OneFileDrawn'
    BY <1>1, <2>1, <2>2 DEF ReplayInv, OneFileDrawn
  <2>4. Covered'
    BY <1>1, <2>1, <2>2 DEF Covered
  <2> QED
    BY <1>2, <2>3, <2>4 DEF ReplayInv
<1> QED
  BY <1>3, <1>4

LEMMA FailureKeeps ==
    ASSUME ReplayInv, NEW l \in loads, LoadFails(l)
    PROVE  ReplayInv'
<1>1. /\ UNCHANGED <<replay, drawn>> /\ loads' = loads \ {l}
      /\ missed' = (missed \/ l.seq = replay.seq)
  BY DEF LoadFails
<1>2. Shaped' /\ Numbered' /\ OneFileDrawn'
  BY <1>1 DEF ReplayInv, Shaped, Numbered, OneFileDrawn
<1>3. Covered'
  BY <1>1 DEF ReplayInv, Covered
<1> QED
  BY <1>2, <1>3 DEF ReplayInv

\* The slider.
LEMMA ScrubKeeps ==
    ASSUME ReplayInv, NEW o, Scrub(o)
    PROVE  ReplayInv'
<1>1. replay.active /\ UNCHANGED drawn
  BY DEF Scrub
<1>2. CASE Load([replay EXCEPT !.offset = o, !.timer = FALSE])
  <2> DEFINE r == [replay EXCEPT !.offset = o, !.timer = FALSE]
  <2>0. r = [replay EXCEPT !.offset = o, !.timer = FALSE]
    OBVIOUS
  <2> HIDE DEF r
  <2>1. /\ r = [active |-> r.active, file |-> r.file, offset |-> r.offset, seq |-> r.seq,
                timer |-> r.timer]
        /\ r.active = replay.active /\ r.file = replay.file /\ r.seq = replay.seq
    BY <2>0 DEF ReplayInv, Shaped
  <2> QED
    BY <1>1, <1>2, <2>0, <2>1, LoadKeeps
<1>3. CASE /\ replay' = [replay EXCEPT !.offset = o, !.timer = TRUE]
           /\ UNCHANGED <<loads, missed>>
  <2>1. /\ Shaped' /\ replay'.active = replay.active /\ replay'.file = replay.file
        /\ replay'.seq = replay.seq /\ replay'.timer = TRUE
    BY <1>3 DEF ReplayInv, Shaped
  <2> QED
    BY <1>1, <1>3, <2>1 DEF ReplayInv, Numbered, Covered, OneFileDrawn
<1> QED
  BY <1>2, <1>3 DEF Scrub

LEMMA JumpKeeps ==
    ASSUME ReplayInv, NEW o, JumpTo(o)
    PROVE  ReplayInv'
<1> DEFINE r == [replay EXCEPT !.offset = o]
<1>1. replay.active /\ UNCHANGED drawn /\ Load(r) /\ r = [replay EXCEPT !.offset = o]
  BY DEF JumpTo
<1> HIDE DEF r
<1>2. /\ r = [active |-> r.active, file |-> r.file, offset |-> r.offset, seq |-> r.seq,
              timer |-> r.timer]
      /\ r.active = replay.active /\ r.file = replay.file /\ r.seq = replay.seq
  BY <1>1 DEF ReplayInv, Shaped
<1> QED
  BY <1>1, <1>2, LoadKeeps

\* The throttle's timer asks for the offset of the moment, or finds replay left.
LEMMA TimerKeeps ==
    ASSUME ReplayInv, ScrubTimer
    PROVE  ReplayInv'
<1> DEFINE r == [replay EXCEPT !.timer = FALSE]
<1>1. /\ UNCHANGED drawn /\ r = [replay EXCEPT !.timer = FALSE]
      /\ IF replay.active THEN Load(r) ELSE replay' = r /\ UNCHANGED <<loads, missed>>
  BY DEF ScrubTimer
<1> HIDE DEF r
<1>2. /\ r = [active |-> r.active, file |-> r.file, offset |-> r.offset, seq |-> r.seq,
              timer |-> r.timer]
      /\ r.active = replay.active /\ r.file = replay.file /\ r.seq = replay.seq
  BY <1>1 DEF ReplayInv, Shaped
<1>3. CASE replay.active
  BY <1>1, <1>2, <1>3, LoadKeeps
<1>4. CASE ~replay.active
  BY <1>1, <1>2, <1>4 DEF ReplayInv, Shaped, Numbered, Covered, OneFileDrawn
<1> QED
  BY <1>3, <1>4

\* enterReplayMode clears the graph and asks for the end of the file.
LEMMA FoundKeeps ==
    ASSUME ReplayInv, NEW f, ReplayFound(f)
    PROVE  ReplayInv'
<1> DEFINE r == [replay EXCEPT !.active = TRUE, !.file = f, !.offset = Duration]
<1>1. /\ drawn' = {} /\ Load(r)
      /\ r = [replay EXCEPT !.active = TRUE, !.file = f, !.offset = Duration]
  BY DEF ReplayFound
<1> HIDE DEF r
<1>2. /\ r = [active |-> r.active, file |-> r.file, offset |-> r.offset, seq |-> r.seq,
              timer |-> r.timer]
      /\ r.active = TRUE /\ r.seq = replay.seq
  BY <1>1 DEF ReplayInv, Shaped
<1> QED
  BY <1>1, <1>2, LoadKeeps

LEMMA ReplayFrame == ReplayInv /\ UNCHANGED rstate => ReplayInv'
  BY DEF rstate, ReplayInv, Shaped, Numbered, Covered, OneFileDrawn

-----------------------------------------------------------------------------
LEMMA NextReplay == ReplayInv /\ [Next]_vars => ReplayInv'
<1> SUFFICES ASSUME ReplayInv, [Next]_vars
             PROVE  ReplayInv'
  OBVIOUS
<1>1. ASSUME NEW n \in Sockets, Opened(n) \/ CloseEnds(n) \/ Drop(n) \/ ServerTakes(n)
      PROVE  ReplayInv'
  BY <1>1, ReplayFrame DEF Opened, CloseEnds, Drop, Closed, ServerTakes, rstate
<1>2. ASSUME NEW n \in Sockets, LiveFrame(n) PROVE ReplayInv'
  BY <1>2, LiveKeeps DEF LiveFrame
<1>3. ASSUME HeldFrame PROVE ReplayInv'
  BY <1>3, LiveKeeps DEF HeldFrame
<1>4. ASSUME Retry PROVE ReplayInv'
  BY <1>4, ReplayFrame DEF Retry, rstate
<1>5. ASSUME NEW c, SetControl(c) \/ CrossZoomBand(c) \/ BandTimer(c) PROVE ReplayInv'
  BY <1>5, ReplayFrame DEF SetControl, CrossZoomBand, BandTimer, rstate
<1>6. ASSUME NEW f, EnterReplay(f) \/ ReplayNotFound(f) PROVE ReplayInv'
  BY <1>6, ReplayFrame DEF EnterReplay, ReplayNotFound, rstate
<1>7. ASSUME NEW f, ReplayFails(f) PROVE ReplayInv'
  BY <1>7, ExitKeeps DEF ReplayFails
<1>8. ASSUME ReturnToLive PROVE ReplayInv'
  BY <1>8, ExitKeeps DEF ReturnToLive
<1>9. ASSUME NEW c, OpenCapture(c) \/ CaptureOpened(c) \/ \E t : MoveSlider(t)
      PROVE  ReplayInv'
  BY <1>9, ReplayFrame DEF OpenCapture, CaptureOpened, MoveSlider, TimelineUnchanged, rstate
<1>10. ASSUME ExitTimeline \/ TogglePlay \/ PlayTick \/ PositionTimer PROVE ReplayInv'
  BY <1>10, ReplayFrame
  DEF ExitTimeline, TogglePlay, PlayTick, PositionTimer, TimelineUnchanged, rstate
<1>11. ASSUME UNCHANGED vars PROVE ReplayInv'
  BY <1>11, ReplayFrame DEF vars, rstate
<1> QED
  BY <1>1, <1>2, <1>3, <1>4, <1>5, <1>6, <1>7, <1>8, <1>9, <1>10, <1>11, FoundKeeps,
     ScrubKeeps, JumpKeeps, TimerKeeps, AnswerKeeps, FailureKeeps
  DEF Next

\* The invariant of the replay requests and what they have drawn.
THEOREM ReplayInvariant == Spec => []ReplayInv
<1>1. Init => ReplayInv
  BY DEF Init, ReplayInv, Shaped, Numbered, Covered, OneFileDrawn
<1> QED
  BY <1>1, NextReplay, PTL DEF Spec

\* What is drawn in replay is of one file, whatever late answers come of the
\* file before: enterReplayMode, exitReplayMode and replayRequestSeq.
THEOREM AlwaysOneFile == Spec => []OneFileDrawn
<1>1. ReplayInv => OneFileDrawn
  BY DEF ReplayInv
<1> QED
  BY <1>1, ReplayInvariant, PTL

\* Once nothing is under way the present offset has been drawn: the throttle of
\* the slider, its trailing call and the sequence guard lose no last position.
THEOREM ScrubAlwaysSettles == Spec => []ScrubSettles
<1>1. ReplayInv => ScrubSettles
  BY DEF ReplayInv, Covered, ScrubSettles, Settled
<1> QED
  BY <1>1, ReplayInvariant, PTL

-----------------------------------------------------------------------------
(* The controls and the timeline position: what the server will hold.      *)

Positions == {p \in [id : Captures \cup {None}, t : Nat] :
                p.id # None => p.t \in Bounds[p.id][1] .. Bounds[p.id][2]}

Msgs == [kind : ToSet(Controls), value : {0, 1}] \cup [kind : {"time"}, value : Positions]

\* What the server holds of kind k once it has taken all of up is in V; now is what it
\* holds now.
WillHold(up, k, now, V) ==
    \/ now \in V /\ \A i \in 1 .. Len(up) : up[i].kind # k
    \/ \E i \in 1 .. Len(up) :
          /\ up[i].kind = k
          /\ \A j \in i .. Len(up) : up[j].kind = k => up[j].value \in V

SocketsShaped ==
    /\ sock \in [Sockets -> [state : {"none", "connecting", "open", "closing"}, up : Seq(Msgs)]]
    /\ \A n \in Sockets : sock[n].state = "connecting" => sock[n].up = <<>>
    /\ ws \in 0 .. MaxSockets
    /\ knows \in [Sockets -> [ui : [ToSet(Controls) -> {0, 1}], time : Positions]]

Placed(l) ==
    /\ l \in [active : BOOLEAN, id : Captures \cup {None}, t : Nat, playing : BOOLEAN,
              timer : BOOLEAN, band : SUBSET Deferred]
    /\ l.active => /\ l.id \in Captures
                   /\ l.t \in Bounds[l.id][1] .. Bounds[l.id][2]
    /\ ~l.active => l.id = None /\ ~l.playing

PageShaped ==
    /\ ui \in [ToSet(Controls) -> {0, 1}]
    /\ Placed(line)
    /\ opening \subseteq Captures

\* The positions the server may hold: the page's, the end of the capture when a play has
\* just gone back to its start, or the live graph.
Shown(l) == IF l.active
            THEN {p \in Positions : /\ p.id = l.id
                                    /\ \/ p.t = l.t
                                       \/ l.t = Bounds[l.id][1] /\ p.t = Bounds[l.id][2]}
            ELSE {p \in Positions : p.id = None}

\* What is under way on the page's open socket ends in the page's controls and position.
Foretold ==
    IsOpen(ws) =>
        /\ \A c \in ToSet(Controls) \ line.band :
              WillHold(sock[ws].up, c, knows[ws].ui[c], {ui[c]})
        /\ ~line.timer => WillHold(sock[ws].up, "time", knows[ws].time, Shown(line))

PositionInv == SocketsShaped /\ PageShaped /\ Foretold

-----------------------------------------------------------------------------
\* A message joins what is under way: it decides its own kind.
LEMMA SendForetells ==
    ASSUME NEW up \in Seq(Msgs), NEW m \in Msgs, NEW k, NEW now, NEW V,
           IF m.kind = k THEN m.value \in V ELSE WillHold(up, k, now, V)
    PROVE  WillHold(Append(up, m), k, now, V)
<1> DEFINE new == Append(up, m)
<1>1. /\ Len(up) \in Nat /\ Len(new) = Len(up) + 1
      /\ new[Len(up) + 1] = m /\ \A i \in 1 .. Len(up) : new[i] = up[i]
  OBVIOUS
<1> HIDE DEF new
<1>2. CASE m.kind = k
  <2>1. /\ new[Len(up) + 1].kind = k
        /\ \A j \in (Len(up) + 1) .. Len(new) : new[j].kind = k => new[j].value \in V
    BY <1>1, <1>2
  <2> QED
    BY <1>1, <2>1 DEF WillHold, new
<1>3. CASE m.kind # k /\ now \in V /\ \A i \in 1 .. Len(up) : up[i].kind # k
  BY <1>1, <1>3 DEF WillHold, new
<1>4. ASSUME m.kind # k, NEW i \in 1 .. Len(up), up[i].kind = k,
             \A j \in i .. Len(up) : up[j].kind = k => up[j].value \in V
      PROVE  WillHold(Append(up, m), k, now, V)
  <2>1. \A j \in i .. Len(new) : new[j].kind = k => new[j].value \in V
    BY <1>1, <1>4
  <2>2. new[i].kind = k /\ i \in 1 .. Len(new)
    BY <1>1, <1>4
  <2> QED
    BY <2>1, <2>2 DEF WillHold, new
<1> QED
  BY <1>2, <1>3, <1>4 DEF WillHold

\* The server takes the next message.
LEMMA TakeForetells ==
    ASSUME NEW up \in Seq(Msgs), up # <<>>, NEW k, NEW now, NEW V, WillHold(up, k, now, V)
    PROVE  WillHold(Tail(up), k, IF Head(up).kind = k THEN Head(up).value ELSE now, V)
<1> DEFINE rest == Tail(up)
           then == IF Head(up).kind = k THEN Head(up).value ELSE now
<1>1. /\ Len(up) \in Nat \ {0} /\ Len(rest) = Len(up) - 1 /\ Head(up) = up[1]
      /\ \A i \in 1 .. Len(rest) : rest[i] = up[i + 1]
  OBVIOUS
<1> HIDE DEF rest
<1>2. CASE now \in V /\ \A i \in 1 .. Len(up) : up[i].kind # k
  BY <1>1, <1>2 DEF WillHold, rest
<1>3. ASSUME NEW i \in 1 .. Len(up), up[i].kind = k,
             \A j \in i .. Len(up) : up[j].kind = k => up[j].value \in V
      PROVE  WillHold(rest, k, then, V)
  <2>1. CASE i > 1
    <3>1. i - 1 \in 1 .. Len(rest) /\ rest[i - 1].kind = k
      BY <1>1, <1>3, <2>1
    <3>2. \A j \in (i - 1) .. Len(rest) : rest[j].kind = k => rest[j].value \in V
      BY <1>1, <1>3, <2>1
    <3> QED
      BY <3>1, <3>2 DEF WillHold
  <2>2. CASE i = 1
    <3>1. then \in V
      BY <1>1, <1>3, <2>2
    <3>2. \A j \in 1 .. Len(rest) : rest[j].kind = k => rest[j].value \in V
      BY <1>1, <1>3, <2>2
    <3> HIDE DEF then
    <3>3. CASE \E j \in 1 .. Len(rest) : rest[j].kind = k
      BY <1>1, <3>2, <3>3 DEF WillHold
    <3>4. CASE \A j \in 1 .. Len(rest) : rest[j].kind # k
      BY <3>1, <3>4 DEF WillHold
    <3> QED
      BY <3>3, <3>4
  <2> QED
    BY <2>1, <2>2
<1> QED
  BY <1>2, <1>3 DEF WillHold, rest

\* What ends in V ends in any set that holds it.
LEMMA ForetoldMore ==
    ASSUME NEW up, NEW k, NEW now, NEW V, NEW W, V \subseteq W, WillHold(up, k, now, V)
    PROVE  WillHold(up, k, now, W)
  BY DEF WillHold

\* What ws.onopen sends brings every control.
LEMMA ResendForetells ==
    ASSUME NEW up \in Seq(Msgs), PlaybackAssumption, PageShaped,
           NEW s \in Seq(Msgs),
           s = [i \in 1 .. Len(Controls) |-> Control(Controls[i])],
           NEW now
    PROVE  /\ \A c \in ToSet(Controls) : WillHold(up \o s, c, now, {ui[c]})
           /\ \A V : WillHold(up, "time", now, V) => WillHold(up \o s, "time", now, V)
<1> DEFINE all == up \o s
<1>1. /\ Len(up) \in Nat /\ Len(Controls) \in Nat /\ Len(s) = Len(Controls)
      /\ Len(all) = Len(up) + Len(s)
      /\ \A i \in 1 .. Len(up) : all[i] = up[i]
      /\ \A i \in Len(up) + 1 .. Len(up) + Len(s) : all[i] = s[i - Len(up)]
  BY DEF PlaybackAssumption
<1>2. \A i \in 1 .. Len(s) : s[i].kind = Controls[i] /\ s[i].value = ui[Controls[i]]
  BY <1>1 DEF Control
<1> HIDE DEF all
<1>3. ASSUME NEW c \in ToSet(Controls) PROVE WillHold(all, c, now, {ui[c]})
  <2>1. PICK i \in 1 .. Len(Controls) : Controls[i] = c
    BY <1>1 DEF ToSet, PlaybackAssumption
  <2>2. Len(up) + i \in 1 .. Len(all) /\ all[Len(up) + i].kind = c
    BY <1>1, <1>2, <2>1
  <2>3. \A j \in Len(up) + i .. Len(all) : all[j].kind = c => all[j].value \in {ui[c]}
    <3> SUFFICES ASSUME NEW j \in Len(up) + i .. Len(all), all[j].kind = c
                 PROVE  all[j].value = ui[c]
      OBVIOUS
    <3>1. PICK n \in 1 .. Len(s) : all[j] = s[n]
      BY <1>1, SMTT(30)
    <3> QED
      BY <1>1, <1>2, <3>1
  <2> QED
    BY <2>2, <2>3 DEF WillHold
<1>4. ASSUME NEW V, WillHold(up, "time", now, V) PROVE WillHold(all, "time", now, V)
  <2>1. \A j \in Len(up) + 1 .. Len(all) : all[j].kind # "time"
    <3> SUFFICES ASSUME NEW j \in Len(up) + 1 .. Len(all) PROVE all[j].kind # "time"
      OBVIOUS
    <3>1. PICK n \in 1 .. Len(s) : all[j] = s[n]
      BY <1>1
    <3>2. Controls[n] \in ToSet(Controls)
      BY <1>1, <3>1 DEF PlaybackAssumption
    <3> QED
      BY <1>1, <1>2, <3>1, <3>2 DEF PlaybackAssumption
  <2>2. CASE now \in V /\ \A i \in 1 .. Len(up) : up[i].kind # "time"
    <3>1. \A i \in 1 .. Len(all) : all[i].kind # "time"
      BY <1>1, <2>1, <2>2
    <3> QED
      BY <2>2, <3>1 DEF WillHold
  <2>3. ASSUME NEW i \in 1 .. Len(up), up[i].kind = "time",
               \A j \in i .. Len(up) : up[j].kind = "time" => up[j].value \in V
        PROVE  WillHold(all, "time", now, V)
    <3>1. i \in 1 .. Len(all) /\ all[i].kind = "time"
      BY <1>1, <2>3
    <3>2. \A j \in i .. Len(all) : all[j].kind = "time" => all[j].value \in V
      BY <1>1, <2>1, <2>3
    <3> QED
      BY <3>1, <3>2 DEF WillHold
  <2> QED
    BY <1>4, <2>2, <2>3 DEF WillHold
<1> QED
  BY <1>3, <1>4 DEF all

\* A position of the page is one the server may hold.
LEMMA PositionIsShown ==
    ASSUME PlaybackAssumption, NEW l, Placed(l)
    PROVE  /\ Position(l) \in Msgs /\ Position(l).kind = "time"
           /\ Position(l).value \in Shown(l)
<1>1. CASE l.active
  <2>1. /\ l.id \in Captures /\ l.id # None /\ l.t \in Nat
        /\ l.t \in Bounds[l.id][1] .. Bounds[l.id][2]
    BY <1>1 DEF Placed, PlaybackAssumption
  <2>2. [id |-> l.id, t |-> l.t] \in Positions
    BY <2>1 DEF Positions
  <2> QED
    BY <1>1, <2>1, <2>2 DEF Position, Msgs, Shown
<1>2. CASE ~l.active
  <2>1. l.id = None /\ Off \in Positions /\ Off.id = None
    BY <1>2 DEF Placed, Positions, Off
  <2> QED
    BY <1>2, <2>1 DEF Position, Msgs, Shown
<1> QED
  BY <1>1, <1>2

\* What sendControl does to the sockets.
LEMMA SendShape ==
    ASSUME SocketsShaped, NEW m \in Msgs, SendControl(m), UNCHANGED <<ws, knows>>
    PROVE  /\ SocketsShaped'
           /\ IsOpen(ws)' => /\ IsOpen(ws) /\ ws \in Sockets /\ sock[ws].up \in Seq(Msgs)
                             /\ sock'[ws].up = Append(sock[ws].up, m)
<1>1. CASE IsOpen(ws)
  <2>1. ws \in Sockets /\ sock' = [sock EXCEPT ![ws].up = Append(@, m)]
    BY <1>1 DEF SendControl, IsOpen, SocketsShaped, Sockets
  <2>2. /\ sock[ws].up \in Seq(Msgs)
        /\ sock[ws] \in [state : {"none", "connecting", "open", "closing"}, up : Seq(Msgs)]
    BY <2>1 DEF SocketsShaped
  <2>3. Append(sock[ws].up, m) \in Seq(Msgs)
    BY <2>2
  <2>4. sock' \in [Sockets -> [state : {"none", "connecting", "open", "closing"}, up : Seq(Msgs)]]
    BY <2>1, <2>2, <2>3 DEF SocketsShaped
  <2>5. \A n \in Sockets : sock'[n].state = "connecting" => sock'[n].up = <<>>
    BY <1>1, <2>1, <2>2 DEF SocketsShaped, IsOpen
  <2>6. sock'[ws].up = Append(sock[ws].up, m)
    BY <2>1, <2>2 DEF SocketsShaped
  <2> QED
    BY <1>1, <2>1, <2>2, <2>4, <2>5, <2>6 DEF SocketsShaped
<1>2. CASE ~IsOpen(ws)
  BY <1>2 DEF SendControl, SocketsShaped, IsOpen
<1> QED
  BY <1>1, <1>2

\* Sending the position of l, which the page takes, keeps the server in step.
LEMMA PositionSent ==
    ASSUME PlaybackAssumption, PositionInv, NEW l, Placed(l), l.band = line.band,
           SendControl(Position(l)), UNCHANGED <<ws, knows, ui>>, opening' \subseteq Captures,
           line' = l \/ line' = [l EXCEPT !.timer = FALSE]
    PROVE  PositionInv'
<1>1. /\ Position(l) \in Msgs /\ Position(l).kind = "time" /\ Position(l).value \in Shown(l)
  BY PositionIsShown
<1>2. /\ SocketsShaped'
      /\ IsOpen(ws)' => /\ IsOpen(ws) /\ ws \in Sockets /\ sock[ws].up \in Seq(Msgs)
                        /\ sock'[ws].up = Append(sock[ws].up, Position(l))
  BY <1>1, SendShape DEF PositionInv
<1>3. /\ PageShaped' /\ line'.band = line.band
      /\ line'.active = l.active /\ line'.id = l.id /\ line'.t = l.t
  BY DEF PositionInv, PageShaped, Placed
<1>4. Shown(line)' = Shown(l)
  BY <1>3 DEF Shown
<1>5. Foretold'
  <2> SUFFICES ASSUME IsOpen(ws)'
               PROVE  /\ \A c \in ToSet(Controls) \ line.band :
                            WillHold(sock'[ws].up, c, knows[ws].ui[c], {ui[c]})
                      /\ WillHold(sock'[ws].up, "time", knows[ws].time, Shown(l))
    BY <1>3, <1>4 DEF Foretold
  <2>1. WillHold(Append(sock[ws].up, Position(l)), "time", knows[ws].time, Shown(l))
    BY <1>1, <1>2, SendForetells
  <2>2. ASSUME NEW c \in ToSet(Controls) \ line.band
        PROVE  WillHold(Append(sock[ws].up, Position(l)), c, knows[ws].ui[c], {ui[c]})
    <3>1. WillHold(sock[ws].up, c, knows[ws].ui[c], {ui[c]}) /\ c # "time"
      BY <1>2 DEF PositionInv, Foretold, PlaybackAssumption
    <3> QED
      BY <1>1, <1>2, <3>1, SendForetells
  <2> QED
    BY <1>2, <2>1, <2>2
<1> QED
  BY <1>2, <1>3, <1>5 DEF PositionInv

\* sendTimelinePosition, at once or by its timer.
LEMMA SendPositionKeeps ==
    ASSUME PlaybackAssumption, PositionInv, NEW l, Placed(l), l.band = line.band,
           NEW immediate, SendPosition(l, immediate),
           UNCHANGED <<ws, knows, ui>>, opening' \subseteq Captures
    PROVE  PositionInv'
<1>1. CASE line' = [l EXCEPT !.timer = FALSE] /\ SendControl(Position(l))
  BY <1>1, PositionSent
<1>2. CASE line' = [l EXCEPT !.timer = TRUE] /\ UNCHANGED sock
  <2>1. PageShaped' /\ line'.band = line.band /\ line'.timer
    BY <1>2 DEF PositionInv, PageShaped, Placed
  <2>2. SocketsShaped'
    BY <1>2 DEF PositionInv, SocketsShaped
  <2>3. Foretold'
    BY <1>2, <2>1 DEF PositionInv, Foretold, IsOpen
  <2> QED
    BY <2>1, <2>2, <2>3 DEF PositionInv
<1> QED
  BY <1>1, <1>2 DEF SendPosition

\* Nothing is promised while the page has no open socket.
LEMMA NotOpenKeeps ==
    ASSUME PositionInv, SocketsShaped', PageShaped', ~IsOpen(ws)'
    PROVE  PositionInv'
  BY DEF PositionInv, Foretold

PositionState == <<sock, ws, knows, ui, line, opening>>

LEMMA PositionFrame == PositionInv /\ UNCHANGED PositionState => PositionInv'
  BY ZenonT(60) DEF PositionState, PositionInv, SocketsShaped, PageShaped, Placed, Foretold, IsOpen, Shown

\* ws.onopen resends all there is to know, through whatever socket `ws' is.
LEMMA OpenedKeeps ==
    ASSUME PlaybackAssumption, PositionInv, NEW n \in Sockets, Opened(n)
    PROVE  PositionInv'
<1> DEFINE s == [i \in 1 .. Len(Controls) |-> Control(Controls[i])]
           tell == IF line.active THEN <<Position(line)>> ELSE <<>>
           now == [sock EXCEPT ![n].state = "open"]
<1>1. /\ sock[n].state = "connecting" /\ sock[n].up = <<>>
      /\ sock' = IF ws # 0 /\ now[ws].state = "open"
                 THEN [now EXCEPT ![ws].up = @ \o (s \o tell)]
                 ELSE now
      /\ knows' = [knows EXCEPT ![n] = Defaults]
      /\ line' = IF line.active THEN [line EXCEPT !.timer = FALSE] ELSE line
      /\ UNCHANGED <<ws, ui, opening>>
  BY DEF Opened, PositionInv, SocketsShaped
<1>2. s \in Seq(Msgs)
  <2>1. \A i \in 1 .. Len(Controls) : Controls[i] \in ToSet(Controls)
    BY DEF PlaybackAssumption
  <2>2. \A c \in ToSet(Controls) : Control(c) \in Msgs
    BY DEF Control, Msgs, PositionInv, PageShaped
  <2> QED
    BY <2>1, <2>2 DEF PlaybackAssumption
<1>3. tell \in Seq(Msgs) /\ s \o tell \in Seq(Msgs)
  BY <1>2, PositionIsShown DEF PositionInv, PageShaped
<1>4. Defaults \in [ui : [ToSet(Controls) -> {0, 1}], time : Positions] /\ Defaults.time = Off
  BY DEF Defaults, Off, Positions
<1>5. now \in [Sockets -> [state : {"none", "connecting", "open", "closing"}, up : Seq(Msgs)]]
      /\ \A k \in Sockets : now[k].up = sock[k].up
      /\ \A m \in Sockets : now[m].state = "connecting" => now[m].up = <<>>
  <2>1. /\ now \in [Sockets -> [state : {"none", "connecting", "open", "closing"}, up : Seq(Msgs)]]
        /\ \A k \in Sockets : now[k].up = sock[k].up
    <3>1. sock \in [Sockets -> [state : {"none", "connecting", "open", "closing"}, up : Seq(Msgs)]]
      BY DEF PositionInv, SocketsShaped
    <3>2. now = [k \in Sockets |-> IF k = n THEN [sock[k] EXCEPT !.state = "open"] ELSE sock[k]]
      BY <3>1
    <3>3. \A r \in [state : {"none", "connecting", "open", "closing"}, up : Seq(Msgs)] :
             /\ [r EXCEPT !.state = "open"] \in
                    [state : {"none", "connecting", "open", "closing"}, up : Seq(Msgs)]
             /\ [r EXCEPT !.state = "open"].up = r.up
      OBVIOUS
    <3> HIDE DEF now
    <3> QED
      BY <3>1, <3>2, <3>3
  <2>2. ASSUME NEW k \in Sockets, now[k].state = "connecting"
        PROVE  now[k].up = <<>>
    <3>1. sock[k].state = "connecting"
      BY <2>2 DEF PositionInv, SocketsShaped
    <3> QED
      BY <2>1, <3>1 DEF PositionInv, SocketsShaped
  <2> QED
    BY <2>1, <2>2
<1>6. /\ PageShaped' /\ line'.band = line.band /\ Shown(line)' = Shown(line)
      /\ ~line'.timer => line.active \/ ~line.timer
      /\ line'.active = line.active
  BY <1>1 DEF PositionInv, PageShaped, Placed, Shown
<1>7. knows' \in [Sockets -> [ui : [ToSet(Controls) -> {0, 1}], time : Positions]]
  BY <1>1, <1>4 DEF PositionInv, SocketsShaped
<1> HIDE DEF now, s, tell
<1>8. CASE ~(ws # 0 /\ now[ws].state = "open")
  <2>1. SocketsShaped'
    BY <1>1, <1>5, <1>7, <1>8 DEF PositionInv, SocketsShaped
  <2>2. ~IsOpen(ws)'
    BY <1>1, <1>8 DEF IsOpen
  <2> QED
    BY <1>6, <2>1, <2>2, NotOpenKeeps
<1>9. CASE ws # 0 /\ now[ws].state = "open"
  <2>1. ws \in Sockets /\ sock' = [now EXCEPT ![ws].up = @ \o (s \o tell)]
    BY <1>1, <1>9 DEF PositionInv, SocketsShaped, Sockets
  <2>2. now[ws].up \in Seq(Msgs) /\ now[ws].up = sock[ws].up
    BY <1>5, <2>1
  <2>3. SocketsShaped'
    <3>1. now[ws].up \o (s \o tell) \in Seq(Msgs)
      BY <1>3, <2>2
    <3>2. sock' \in [Sockets -> [state : {"none", "connecting", "open", "closing"}, up : Seq(Msgs)]]
      BY <1>5, <2>1, <3>1
    <3>3. \A k \in Sockets : sock'[k].state = "connecting" => sock'[k].up = <<>>
      BY <1>5, <1>9, <2>1
    <3> QED
      BY <1>1, <1>7, <3>2, <3>3 DEF PositionInv, SocketsShaped
  <2>4. sock'[ws].up = sock[ws].up \o (s \o tell)
    BY <1>5, <2>1, <2>2
  <2>5. sock[ws].up \o (s \o tell) = (sock[ws].up \o s) \o tell
    <3>1. sock[ws].up \in Seq(Msgs) /\ s \in Seq(Msgs) /\ tell \in Seq(Msgs)
      BY <1>2, <1>3, <2>2
    <3>2. \A u, v, w \in Seq(Msgs) : (u \o v) \o w = u \o (v \o w)
      BY ConcatAssociative
    <3> QED
      BY <3>1, <3>2, ZenonT(60)
  <2> DEFINE base == sock[ws].up \o s
  <2>6. base \in Seq(Msgs)
    BY <1>2, <2>2
  <2>7. /\ \A c \in ToSet(Controls) : WillHold(base, c, knows'[ws].ui[c], {ui[c]})
        /\ \A V : WillHold(sock[ws].up, "time", knows'[ws].time, V)
                    => WillHold(base, "time", knows'[ws].time, V)
    <3>1. s = [i \in 1 .. Len(Controls) |-> Control(Controls[i])]
      BY DEF s
    <3>2. \A x : /\ \A c \in ToSet(Controls) : WillHold(base, c, x, {ui[c]})
                 /\ \A V : WillHold(sock[ws].up, "time", x, V) => WillHold(base, "time", x, V)
      BY <1>2, <2>2, <3>1, ResendForetells DEF PositionInv
    <3> QED
      BY <3>2
  <2> HIDE DEF base
  <2>8. sock'[ws].up = base \o tell
    BY <2>4, <2>5 DEF base
  <2>9. Foretold'
    <3>1. CASE line.active
      <4>1. /\ Position(line) \in Msgs /\ Position(line).kind = "time"
            /\ Position(line).value \in Shown(line)
        BY PositionIsShown DEF PositionInv, PageShaped
      <4>2. sock'[ws].up = Append(base, Position(line))
        BY <2>6, <2>8, <3>1, <4>1 DEF tell
      <4>3. \A c \in ToSet(Controls) :
               WillHold(Append(base, Position(line)), c, knows'[ws].ui[c], {ui[c]})
        BY <2>6, <2>7, <4>1, SendForetells DEF PlaybackAssumption
      <4>4. WillHold(Append(base, Position(line)), "time", knows'[ws].time, Shown(line))
        BY <2>6, <4>1, SendForetells
      <4> QED
        BY <1>1, <1>6, <4>2, <4>3, <4>4 DEF Foretold
    <3>2. CASE ~line.active
      <4>1. sock'[ws].up = base
        BY <2>6, <2>8, <3>2 DEF tell
      <4>2. ~line.timer => WillHold(sock[ws].up, "time", knows'[ws].time, Shown(line))
        <5>1. CASE ws = n
          <6>1. sock[ws].up = <<>> /\ knows'[ws].time = Off
            BY <1>1, <1>4, <2>1, <5>1 DEF PositionInv, SocketsShaped
          <6>2. Off \in Shown(line)
            BY <3>2 DEF Shown, Off, Positions
          <6> QED
            BY <6>1, <6>2 DEF WillHold
        <5>2. CASE ws # n
          <6>1. IsOpen(ws) /\ knows'[ws] = knows[ws]
            BY <1>1, <1>9, <2>1, <5>2 DEF IsOpen, PositionInv, SocketsShaped, now
          <6> QED
            BY <6>1 DEF PositionInv, Foretold
        <5> QED
          BY <5>1, <5>2
      <4> QED
        BY <1>1, <1>6, <2>7, <3>2, <4>1, <4>2 DEF Foretold
    <3> QED
      BY <3>1, <3>2
  <2> QED
    BY <1>6, <2>3, <2>9 DEF PositionInv
<1> QED
  BY <1>8, <1>9

\* ws.onclose.
LEMMA ClosedKeeps ==
    ASSUME PositionInv, NEW n \in Sockets, Closed(n)
    PROVE  PositionInv'
<1>1. /\ sock' = [sock EXCEPT ![n] = NoSocket] /\ ws' = IF ws = n THEN 0 ELSE ws
      /\ UNCHANGED <<knows, ui, line, opening>>
  BY DEF Closed
<1>2. NoSocket \in [state : {"none", "connecting", "open", "closing"}, up : Seq(Msgs)]
      /\ NoSocket.state = "none"
  BY DEF NoSocket
<1>3. SocketsShaped'
  <2>1. sock' \in [Sockets -> [state : {"none", "connecting", "open", "closing"}, up : Seq(Msgs)]]
    BY <1>1, <1>2 DEF PositionInv, SocketsShaped
  <2>2. \A k \in Sockets : sock'[k].state = "connecting" => sock'[k].up = <<>>
    BY <1>1, <1>2 DEF PositionInv, SocketsShaped
  <2>3. ws' \in 0 .. MaxSockets
    BY <1>1, PlaybackAssumption DEF PositionInv, SocketsShaped
  <2> QED
    BY <1>1, <2>1, <2>2, <2>3 DEF PositionInv, SocketsShaped
<1>4. PageShaped'
  BY <1>1 DEF PositionInv, PageShaped
<1>5. CASE ws = n
  BY <1>1, <1>3, <1>4, <1>5, NotOpenKeeps DEF IsOpen
<1>6. CASE ws # n
  <2>1. IsOpen(ws)' => IsOpen(ws) /\ sock'[ws] = sock[ws]
    BY <1>1, <1>6 DEF IsOpen, PositionInv, SocketsShaped, Sockets
  <2> QED
    BY <1>1, <1>3, <1>4, <1>6, <2>1 DEF PositionInv, Foretold, Shown
<1> QED
  BY <1>5, <1>6

\* connectWebSocket: the new socket still has to open.
LEMMA ConnectKeeps ==
    ASSUME PositionInv, NEW active, Connect(active, sock),
           UNCHANGED <<knows, ui, line, opening>>
    PROVE  PositionInv'
<1>1. CASE UNCHANGED ws /\ sock' = sock
  BY <1>1, PositionFrame DEF PositionState
<1>2. ASSUME NEW n \in Sockets, ws' = n,
             sock' = [sock EXCEPT ![n] = [state |-> "connecting", up |-> <<>>]]
      PROVE  PositionInv'
  <2> DEFINE new == [state |-> "connecting", up |-> <<>>]
  <2>1. /\ new \in [state : {"none", "connecting", "open", "closing"}, up : Seq(Msgs)]
        /\ new.state = "connecting" /\ new.up = <<>>
    OBVIOUS
  <2>2. SocketsShaped'
    <3> HIDE DEF new
    <3> QED
      BY <1>2, <2>1 DEF PositionInv, SocketsShaped, Sockets
  <2>3. sock'[n].state = "connecting"
    BY <1>2 DEF PositionInv, SocketsShaped
  <2>4. PageShaped'
    BY DEF PositionInv, PageShaped
  <2> QED
    BY <1>2, <2>2, <2>3, <2>4, NotOpenKeeps DEF IsOpen
<1> QED
  BY <1>1, <1>2 DEF Connect

\* The server takes a control.
LEMMA TakesKeeps ==
    ASSUME PlaybackAssumption, PositionInv, NEW n \in Sockets, ServerTakes(n)
    PROVE  PositionInv'
<1> DEFINE m == Head(sock[n].up)
<1>1. /\ sock[n].up # <<>> /\ sock' = [sock EXCEPT ![n].up = Tail(@)]
      /\ knows' = IF m.kind = "time" THEN [knows EXCEPT ![n].time = m.value]
                                     ELSE [knows EXCEPT ![n].ui[m.kind] = m.value]
      /\ UNCHANGED <<ws, ui, line, opening>>
  BY DEF ServerTakes
<1>2. /\ sock[n].up \in Seq(Msgs)
      /\ sock[n] \in [state : {"none", "connecting", "open", "closing"}, up : Seq(Msgs)]
      /\ knows[n] \in [ui : [ToSet(Controls) -> {0, 1}], time : Positions]
  BY DEF PositionInv, SocketsShaped
<1>3. m \in Msgs /\ Tail(sock[n].up) \in Seq(Msgs)
  BY <1>1, <1>2
<1> HIDE DEF m
<1>4. \/ m.kind = "time" /\ m.value \in Positions
      \/ m.kind \in ToSet(Controls) /\ m.value \in {0, 1} /\ m.kind # "time"
  BY <1>3 DEF Msgs, PlaybackAssumption
<1>5. /\ knows' \in [Sockets -> [ui : [ToSet(Controls) -> {0, 1}], time : Positions]]
      /\ \A k \in Sockets \ {n} : knows'[k] = knows[k]
      /\ knows'[n].time = IF m.kind = "time" THEN m.value ELSE knows[n].time
      /\ \A c \in ToSet(Controls) :
            knows'[n].ui[c] = IF m.kind = c THEN m.value ELSE knows[n].ui[c]
  <2>0. knows \in [Sockets -> [ui : [ToSet(Controls) -> {0, 1}], time : Positions]]
    BY DEF PositionInv, SocketsShaped
  <2>1. CASE m.kind = "time"
    BY <1>1, <1>4, <2>0, <2>1 DEF PlaybackAssumption
  <2>2. CASE m.kind # "time"
    BY <1>1, <1>4, <2>0, <2>2 DEF PlaybackAssumption
  <2> QED
    BY <2>1, <2>2
<1>6. /\ sock' \in [Sockets -> [state : {"none", "connecting", "open", "closing"}, up : Seq(Msgs)]]
      /\ \A k \in Sockets : sock'[k].state = sock[k].state
      /\ \A k \in Sockets \ {n} : sock'[k] = sock[k]
      /\ sock'[n].up = Tail(sock[n].up)
  BY <1>1, <1>2, <1>3 DEF PositionInv, SocketsShaped
<1>7. SocketsShaped'
  BY <1>1, <1>5, <1>6 DEF PositionInv, SocketsShaped
<1>8. Foretold'
  <2> SUFFICES ASSUME IsOpen(ws)
               PROVE  /\ \A c \in ToSet(Controls) \ line.band :
                            WillHold(sock'[ws].up, c, knows'[ws].ui[c], {ui[c]})
                      /\ ~line.timer => WillHold(sock'[ws].up, "time", knows'[ws].time, Shown(line))
    <3>1. IsOpen(ws)' => IsOpen(ws)
      BY <1>1, <1>6 DEF IsOpen, PositionInv, SocketsShaped, Sockets
    <3>2. Shown(line)' = Shown(line)
      BY <1>1 DEF Shown
    <3> QED
      BY <1>1, <3>1, <3>2 DEF Foretold
  <2>1. ws \in Sockets
    BY DEF IsOpen, PositionInv, SocketsShaped, Sockets
  <2>2. /\ \A c \in ToSet(Controls) \ line.band :
                 WillHold(sock[ws].up, c, knows[ws].ui[c], {ui[c]})
        /\ ~line.timer => WillHold(sock[ws].up, "time", knows[ws].time, Shown(line))
    BY DEF PositionInv, Foretold
  <2>3. CASE ws # n
    BY <1>5, <1>6, <2>1, <2>2, <2>3
  <2>4. CASE ws = n
    <3>1. \A k, now, V : WillHold(sock[n].up, k, now, V) =>
             WillHold(Tail(sock[n].up), k, IF m.kind = k THEN m.value ELSE now, V)
      BY <1>1, <1>2, TakeForetells DEF m
    <3>2. ASSUME NEW c \in ToSet(Controls) \ line.band
          PROVE  WillHold(sock'[ws].up, c, knows'[ws].ui[c], {ui[c]})
      <4>1. WillHold(Tail(sock[n].up), c, IF m.kind = c THEN m.value ELSE knows[n].ui[c], {ui[c]})
        BY <2>2, <2>4, <3>1
      <4>2. knows'[n].ui[c] = IF m.kind = c THEN m.value ELSE knows[n].ui[c]
        BY <1>5
      <4> QED
        BY <1>6, <2>4, <4>1, <4>2
    <3>3. ~line.timer => WillHold(sock'[ws].up, "time", knows'[ws].time, Shown(line))
      BY <1>5, <1>6, <2>2, <2>4, <3>1
    <3> QED
      BY <3>2, <3>3
  <2> QED
    BY <2>3, <2>4
<1>9. PageShaped'
  BY <1>1 DEF PositionInv, PageShaped
<1> QED
  BY <1>7, <1>8, <1>9 DEF PositionInv

\* A control is changed, or its deferred change sent.
LEMMA ControlKeeps ==
    ASSUME PlaybackAssumption, PositionInv, NEW c \in ToSet(Controls), NEW v \in {0, 1},
           SendControl([kind |-> c, value |-> v]), ui' = [ui EXCEPT ![c] = v],
           Placed(line)', line'.active = line.active, line'.id = line.id, line'.t = line.t,
           line'.timer = line.timer, line.band \subseteq line'.band \cup {c},
           UNCHANGED <<ws, knows, opening>>
    PROVE  PositionInv'
<1> DEFINE m == [kind |-> c, value |-> v]
<1>1. m \in Msgs /\ m.kind = c /\ m.value = v
  BY DEF Msgs
<1>2. SendControl(m)
  OBVIOUS
<1> HIDE DEF m
<1>3. /\ SocketsShaped'
      /\ IsOpen(ws)' => /\ IsOpen(ws) /\ ws \in Sockets /\ sock[ws].up \in Seq(Msgs)
                        /\ sock'[ws].up = Append(sock[ws].up, m)
  BY <1>1, <1>2, SendShape DEF PositionInv
<1>4. PageShaped' /\ Shown(line)' = Shown(line)
      /\ \A d \in ToSet(Controls) : ui'[d] = IF d = c THEN v ELSE ui[d]
  BY DEF PositionInv, PageShaped, Shown
<1>5. Foretold'
  <2> SUFFICES ASSUME IsOpen(ws)'
               PROVE  /\ \A d \in ToSet(Controls) \ line'.band :
                            WillHold(sock'[ws].up, d, knows[ws].ui[d], {ui'[d]})
                      /\ ~line.timer => WillHold(sock'[ws].up, "time", knows[ws].time, Shown(line))
    BY <1>4 DEF Foretold
  <2>1. ASSUME NEW d \in ToSet(Controls) \ line'.band
        PROVE  WillHold(sock'[ws].up, d, knows[ws].ui[d], {ui'[d]})
    <3>1. CASE d = c
      <4>1. WillHold(Append(sock[ws].up, m), d, knows[ws].ui[d], {v})
        BY <1>1, <1>3, <3>1, SendForetells
      <4> QED
        BY <1>3, <1>4, <3>1, <4>1
    <3>2. CASE d # c
      <4>1. WillHold(sock[ws].up, d, knows[ws].ui[d], {ui[d]})
        BY <1>3, <3>2 DEF PositionInv, Foretold
      <4>2. WillHold(Append(sock[ws].up, m), d, knows[ws].ui[d], {ui[d]})
        BY <1>1, <1>3, <3>2, <4>1, SendForetells
      <4> QED
        BY <1>3, <1>4, <3>2, <4>2
    <3> QED
      BY <3>1, <3>2
  <2>2. ASSUME ~line.timer
        PROVE  WillHold(sock'[ws].up, "time", knows[ws].time, Shown(line))
    <3>1. WillHold(sock[ws].up, "time", knows[ws].time, Shown(line)) /\ c # "time"
      BY <1>3, <2>2 DEF PositionInv, Foretold, PlaybackAssumption
    <3>2. WillHold(Append(sock[ws].up, m), "time", knows[ws].time, Shown(line))
      BY <1>1, <1>3, <3>1, SendForetells
    <3> QED
      BY <1>3, <3>2
  <2> QED
    BY <2>1, <2>2
<1> QED
  BY <1>3, <1>4, <1>5 DEF PositionInv

\* The timeline: every change of the position goes through sendTimelinePosition, but the
\* rewind of a play that starts at the end.
LEMMA TimelineKeeps ==
    ASSUME PlaybackAssumption, PositionInv,
           \/ PositionTimer \/ ExitTimeline \/ TogglePlay \/ PlayTick
           \/ \E c \in Captures : \/ OpenCapture(c) \/ CaptureOpened(c)
                                  \/ \E t \in Bounds[c][1] .. Bounds[c][2] : MoveSlider(t)
    PROVE  PositionInv'
<1>0. Placed(line) /\ opening \subseteq Captures
  BY DEF PositionInv, PageShaped
<1>1. CASE PositionTimer
  BY <1>0, <1>1, SendPositionKeeps DEF PositionTimer, TimelineUnchanged
<1>2. CASE ExitTimeline
  <2> DEFINE l == [line EXCEPT !.active = FALSE, !.playing = FALSE, !.id = None]
  <2>1. Placed(l) /\ l.band = line.band
    BY <1>0 DEF Placed
  <2>2. /\ line' = l /\ SendControl(Position(l)) /\ UNCHANGED <<ws, knows, ui, opening>>
    BY <1>2 DEF ExitTimeline, TimelineUnchanged
  <2> HIDE DEF l
  <2> QED
    BY <1>0, <2>1, <2>2, PositionSent
<1>3. CASE TogglePlay
  <2>1. UNCHANGED <<sock, ws, knows, ui, opening>> /\ line.active
    BY <1>3 DEF TogglePlay, TimelineUnchanged
  <2>2. /\ line.id \in Captures /\ line.t \in Bounds[line.id][1] .. Bounds[line.id][2]
        /\ Bounds[line.id][1] \in Nat /\ Bounds[line.id][2] \in Nat
        /\ Bounds[line.id][1] < Bounds[line.id][2]
    BY <1>0, <2>1 DEF Placed, PlaybackAssumption
  <2>3. /\ Placed(line)' /\ line'.active = line.active /\ line'.id = line.id
        /\ line'.band = line.band /\ line'.timer = line.timer
        /\ \/ line'.t = line.t
           \/ line.t = Bounds[line.id][2] /\ line'.t = Bounds[line.id][1]
    <3>1. CASE line.playing
      BY <1>0, <1>3, <2>1, <2>2, <3>1 DEF TogglePlay, Placed
    <3>2. CASE ~line.playing /\ line.t >= Bounds[line.id][2]
      <4> DEFINE first == Bounds[line.id][1]
      <4>1. line' = [line EXCEPT !.playing = TRUE, !.t = first]
        BY <1>3, <3>2 DEF TogglePlay
      <4>2. first \in Nat /\ first \in Bounds[line.id][1] .. Bounds[line.id][2]
        BY <2>2
      <4>3. line.t = Bounds[line.id][2]
        BY <2>2, <3>2
      <4> HIDE DEF first
      <4>4. Placed(line)' /\ line'.t = first
        BY <1>0, <2>1, <2>2, <4>1, <4>2 DEF Placed
      <4> QED
        BY <1>0, <4>1, <4>3, <4>4 DEF Placed, first
    <3>3. CASE ~line.playing /\ ~(line.t >= Bounds[line.id][2])
      BY <1>0, <1>3, <2>1, <2>2, <3>3 DEF TogglePlay, Placed
    <3> QED
      BY <3>1, <3>2, <3>3
  <2>4. Shown(line) \subseteq Shown(line)'
    BY <2>1, <2>2, <2>3 DEF Shown
  <2>5. Foretold'
    <3>1. \A now : WillHold(sock[ws].up, "time", now, Shown(line))
                     => WillHold(sock[ws].up, "time", now, Shown(line)')
      BY <2>4, ForetoldMore
    <3> QED
      BY <2>1, <2>3, <3>1 DEF PositionInv, Foretold, IsOpen
  <2> QED
    BY <2>1, <2>3, <2>5 DEF PositionInv, SocketsShaped, PageShaped
<1>4. CASE PlayTick
  <2> DEFINE last == Bounds[line.id][2]
             t == IF line.t + 1 > last THEN last ELSE line.t + 1
             l == [line EXCEPT !.t = t, !.playing = t < last]
  <2>1. /\ SendPosition(l, FALSE) /\ line.playing /\ UNCHANGED <<ws, knows, ui, opening>>
    BY <1>4 DEF PlayTick, TimelineUnchanged
  <2>2. /\ line.active /\ line.id \in Captures
        /\ line.t \in Bounds[line.id][1] .. Bounds[line.id][2]
        /\ Bounds[line.id][1] \in Nat /\ Bounds[line.id][2] \in Nat
    BY <1>0, <2>1 DEF Placed, PlaybackAssumption
  <2>3. t \in Nat /\ t \in Bounds[line.id][1] .. Bounds[line.id][2] /\ (t < last) \in BOOLEAN
    BY <2>2
  <2>4. l.band = line.band /\ Placed(l)
    <3> HIDE DEF t
    <3> QED
      BY <1>0, <2>2, <2>3 DEF Placed
  <2> HIDE DEF l
  <2> QED
    BY <1>0, <2>1, <2>4, SendPositionKeeps
<1>5. ASSUME NEW c \in Captures, OpenCapture(c)
      PROVE  PositionInv'
  BY <1>5 DEF OpenCapture, TimelineUnchanged, PositionInv, SocketsShaped, PageShaped, Foretold,
              IsOpen, Shown, Placed
<1>6. ASSUME NEW c \in Captures, CaptureOpened(c)
      PROVE  PositionInv'
  <2> DEFINE l == [line EXCEPT !.active = TRUE, !.id = c, !.t = Bounds[c][2], !.playing = FALSE]
  <2>1. UNCHANGED <<ws, knows, ui>> /\ opening' \subseteq Captures
    BY <1>0, <1>6 DEF CaptureOpened, TimelineUnchanged
  <2>2. CASE SendPosition(l, TRUE)
    <3>1. Bounds[c][2] \in Nat /\ Bounds[c][2] \in Bounds[c][1] .. Bounds[c][2]
      BY DEF PlaybackAssumption
    <3>2. Placed(l) /\ l.band = line.band
      BY <1>0, <3>1 DEF Placed
    <3> HIDE DEF l
    <3> QED
      BY <2>1, <2>2, <3>2, SendPositionKeeps
  <2>3. CASE UNCHANGED <<line, sock>>
    BY <2>1, <2>3 DEF PositionInv, SocketsShaped, PageShaped, Foretold, IsOpen, Shown, Placed
  <2> QED
    BY <1>6, <2>2, <2>3 DEF CaptureOpened
<1>7. ASSUME NEW t, MoveSlider(t)
      PROVE  PositionInv'
  <2> DEFINE l == [line EXCEPT !.t = t, !.playing = FALSE]
  <2>1. /\ SendPosition(l, FALSE) /\ UNCHANGED <<ws, knows, ui, opening>>
        /\ line.active /\ t \in Bounds[line.id][1] .. Bounds[line.id][2]
    BY <1>7 DEF MoveSlider, TimelineUnchanged
  <2>2. line.id \in Captures /\ t \in Nat
    BY <1>0, <2>1 DEF Placed, PlaybackAssumption
  <2>3. Placed(l) /\ l.band = line.band
    BY <1>0, <2>1, <2>2 DEF Placed
  <2> HIDE DEF l
  <2> QED
    BY <1>0, <2>1, <2>3, SendPositionKeeps
<1> QED
  BY <1>1, <1>2, <1>3, <1>4, <1>5, <1>6, <1>7

LEMMA NextPosition == PlaybackAssumption /\ PositionInv /\ [Next]_vars => PositionInv'
<1> SUFFICES ASSUME PlaybackAssumption, PositionInv, [Next]_vars
             PROVE  PositionInv'
  OBVIOUS
<1>1. ASSUME NEW n \in Sockets, Opened(n) \/ CloseEnds(n) \/ Drop(n) \/ ServerTakes(n)
      PROVE  PositionInv'
  BY <1>1, OpenedKeeps, ClosedKeeps, TakesKeeps DEF CloseEnds, Drop
<1>2. ASSUME \/ \E n \in Sockets : LiveFrame(n)
             \/ HeldFrame \/ ScrubTimer
             \/ \E f \in Files \cup {Missing} : ReplayFound(f) \/ ReplayNotFound(f)
             \/ \E o \in Offsets : Scrub(o) \/ JumpTo(o)
             \/ \E l \in loads : LoadAnswered(l) \/ LoadFails(l)
      PROVE  PositionInv'
  BY <1>2, PositionFrame
  DEF LiveFrame, HeldFrame, ReplayFound, ReplayNotFound, Scrub, JumpTo, ScrubTimer, LoadAnswered,
      LoadFails, PositionState
<1>3. ASSUME Retry PROVE PositionInv'
  BY <1>3, ConnectKeeps DEF Retry
<1>4. ASSUME ExitReplay(sock) PROVE PositionInv'
  BY <1>4, ConnectKeeps DEF ExitReplay
<1>5. ASSUME NEW c \in ToSet(Controls), SetControl(c) PROVE PositionInv'
  <2> DEFINE v == 1 - ui[c]
  <2>1. v \in {0, 1}
    BY DEF PositionInv, PageShaped
  <2>2. /\ ui' = [ui EXCEPT ![c] = v] /\ ui'[c] = v
        /\ SendControl([kind |-> c, value |-> ui'[c]])
        /\ UNCHANGED <<ws, knows, line, opening>>
    BY <1>5 DEF SetControl, PositionInv, PageShaped
  <2>3. Placed(line)'
    BY <2>2 DEF PositionInv, PageShaped, Placed
  <2> HIDE DEF v
  <2>4. SendControl([kind |-> c, value |-> v])
    BY <2>2
  <2> QED
    BY <2>1, <2>2, <2>3, <2>4, ControlKeeps
<1>6. ASSUME NEW c \in Deferred, CrossZoomBand(c) PROVE PositionInv'
  <2>1. /\ ui' = [ui EXCEPT ![c] = 1 - @] /\ line' = [line EXCEPT !.band = @ \cup {c}]
        /\ UNCHANGED <<sock, ws, knows, opening>>
    BY <1>6 DEF CrossZoomBand
  <2>2. /\ PageShaped' /\ Shown(line)' = Shown(line) /\ line'.timer = line.timer
        /\ line'.band = line.band \cup {c}
        /\ \A d \in ToSet(Controls) \ {c} : ui'[d] = ui[d]
    BY <2>1 DEF PositionInv, PageShaped, Placed, Shown, PlaybackAssumption
  <2>3. Foretold'
    BY <2>1, <2>2 DEF PositionInv, Foretold, IsOpen
  <2> QED
    BY <2>1, <2>2, <2>3 DEF PositionInv, SocketsShaped
<1>7. ASSUME NEW c \in Deferred, BandTimer(c) PROVE PositionInv'
  <2>1. /\ line' = [line EXCEPT !.band = @ \ {c}] /\ SendControl([kind |-> c, value |-> ui[c]])
        /\ UNCHANGED <<ws, knows, ui, opening>>
    BY <1>7 DEF BandTimer, Control
  <2>2. /\ c \in ToSet(Controls) /\ ui[c] \in {0, 1} /\ ui' = [ui EXCEPT ![c] = ui[c]]
    BY <2>1 DEF PositionInv, PageShaped, PlaybackAssumption
  <2>3. /\ Placed(line)' /\ line'.active = line.active /\ line'.id = line.id /\ line'.t = line.t
        /\ line'.timer = line.timer /\ line.band \subseteq line'.band \cup {c}
    BY <2>1 DEF PositionInv, PageShaped, Placed
  <2> QED
    BY <2>1, <2>2, <2>3, ControlKeeps
<1>8. ASSUME NEW f, EnterReplay(f) PROVE PositionInv'
  <2>1. /\ sock' = IF ws # 0 THEN [sock EXCEPT ![ws].state = "closing"] ELSE sock
        /\ ws' = 0 /\ UNCHANGED <<knows, ui, line, opening>>
    BY <1>8 DEF EnterReplay
  <2>2. PageShaped' /\ ~IsOpen(ws)'
    BY <2>1 DEF PositionInv, PageShaped, IsOpen
  <2>3. SocketsShaped'
    <3>1. sock' \in [Sockets -> [state : {"none", "connecting", "open", "closing"}, up : Seq(Msgs)]]
      BY <2>1 DEF PositionInv, SocketsShaped, Sockets
    <3>2. \A k \in Sockets : sock'[k].state = "connecting" => sock'[k].up = <<>>
      BY <2>1 DEF PositionInv, SocketsShaped, Sockets
    <3>3. ws' \in 0 .. MaxSockets
      BY <2>1, PlaybackAssumption
    <3> QED
      BY <2>1, <3>1, <3>2, <3>3 DEF PositionInv, SocketsShaped
  <2> QED
    BY <2>2, <2>3, NotOpenKeeps
<1>9. ASSUME UNCHANGED vars PROVE PositionInv'
  BY <1>9, PositionFrame DEF vars, PositionState
<1> QED
  BY <1>1, <1>2, <1>3, <1>4, <1>5, <1>6, <1>7, <1>8, <1>9, TimelineKeeps
  DEF Next, ReturnToLive, ReplayFails

-----------------------------------------------------------------------------
(* The types of the replay.                                                *)

Marks == [file : Files, upto : Offsets] \cup {Live}

ReplayShaped ==
    /\ retries \in Nat
    /\ replay \in [active : BOOLEAN, file : Files \cup {None}, offset : Offsets,
                   seq : Nat, timer : BOOLEAN]
    /\ replay.active => replay.file \in Files
    /\ entering \subseteq Files \cup {Missing}
    /\ loads \subseteq [seq : 1 .. replay.seq, file : Files, upto : Offsets]
    /\ drawn \subseteq Marks
    /\ missed \in BOOLEAN /\ held \in BOOLEAN
    /\ events \in 0 .. MaxEvents

\* A request is made for a file and an offset there are.
LEMMA LoadTyped ==
    ASSUME ReplayShaped, NEW r, Load(r), r.seq = replay.seq,
           r \in [active : BOOLEAN, file : Files, offset : Offsets, seq : Nat, timer : BOOLEAN]
    PROVE  /\ replay' \in [active : BOOLEAN, file : Files \cup {None}, offset : Offsets,
                           seq : Nat, timer : BOOLEAN]
           /\ replay'.file \in Files
           /\ loads' \subseteq [seq : 1 .. replay'.seq, file : Files, upto : Offsets]
           /\ missed' = FALSE
<1>1. /\ replay' = [r EXCEPT !.seq = r.seq + 1] /\ missed' = FALSE
      /\ loads' = loads \cup {[seq |-> r.seq + 1, file |-> r.file, upto |-> r.offset]}
  BY DEF Load
<1>2. /\ replay' \in [active : BOOLEAN, file : Files, offset : Offsets, seq : Nat, timer : BOOLEAN]
      /\ replay'.seq = r.seq + 1 /\ r.seq \in Nat
  BY <1>1
<1>3. [seq |-> r.seq + 1, file |-> r.file, upto |-> r.offset]
          \in [seq : 1 .. replay'.seq, file : Files, upto : Offsets]
  BY <1>2
<1>4. \A l \in loads : l \in [seq : 1 .. replay'.seq, file : Files, upto : Offsets]
  BY <1>2 DEF ReplayShaped
<1> QED
  BY <1>1, <1>2, <1>3, <1>4

LEMMA NextTyped == PlaybackAssumption /\ ReplayShaped /\ [Next]_vars => ReplayShaped'
<1> SUFFICES ASSUME PlaybackAssumption, ReplayShaped, [Next]_vars
             PROVE  ReplayShaped'
  OBVIOUS
<1>0. Duration \in Offsets /\ MaxEvents \in Nat
  BY DEF PlaybackAssumption, Offsets
<1>1. ASSUME UNCHANGED <<replay, entering, loads, drawn, missed, held, retries>>,
             Act \/ Calm
      PROVE  ReplayShaped'
  BY <1>0, <1>1 DEF ReplayShaped, Act, Calm
<1>2. ASSUME NEW n \in Sockets, Opened(n) \/ ServerTakes(n)
      PROVE  ReplayShaped'
  BY <1>1, <1>2 DEF Opened, ServerTakes
<1>3. ASSUME NEW n \in Sockets, CloseEnds(n) \/ Drop(n)
      PROVE  ReplayShaped'
  BY <1>0, <1>3 DEF CloseEnds, Drop, Closed, ReplayShaped, Act, Calm
<1>4. ASSUME Retry PROVE ReplayShaped'
  BY <1>4 DEF Retry, ReplayShaped, Calm
<1>5. ASSUME \/ \E n \in Sockets : LiveFrame(n)
             \/ HeldFrame
      PROVE  ReplayShaped'
  BY <1>5 DEF LiveFrame, HeldFrame, ReplayShaped, Calm, Marks
<1>6. ASSUME \/ \E c \in ToSet(Controls) : SetControl(c)
             \/ \E c \in Deferred : CrossZoomBand(c) \/ BandTimer(c)
             \/ \E c \in Captures : \/ OpenCapture(c) \/ CaptureOpened(c)
                                    \/ \E t \in Bounds[c][1] .. Bounds[c][2] : MoveSlider(t)
             \/ ExitTimeline \/ TogglePlay \/ PlayTick \/ PositionTimer
      PROVE  ReplayShaped'
  <2>1. UNCHANGED <<replay, entering, loads, drawn, missed, held, retries>>
    BY <1>6 DEF SetControl, CrossZoomBand, BandTimer, OpenCapture, CaptureOpened, MoveSlider,
                ExitTimeline, TogglePlay, PlayTick, PositionTimer, TimelineUnchanged
  <2>2. Act \/ Calm
    BY <1>6 DEF SetControl, CrossZoomBand, BandTimer, OpenCapture, CaptureOpened, MoveSlider,
                ExitTimeline, TogglePlay, PlayTick, PositionTimer
  <2> QED
    BY <1>1, <2>1, <2>2
<1>7. ASSUME NEW f \in Files \cup {Missing}, EnterReplay(f) \/ ReplayNotFound(f)
      PROVE  ReplayShaped'
  BY <1>0, <1>7 DEF EnterReplay, ReplayNotFound, ReplayShaped, Act, Calm
<1>8. ASSUME NEW f \in Files \cup {Missing}, ReplayFound(f)
      PROVE  ReplayShaped'
  <2> DEFINE r == [replay EXCEPT !.active = TRUE, !.file = f, !.offset = Duration]
  <2>1. /\ Load(r) /\ f \in Files /\ drawn' = {} /\ entering' = entering \ {f}
        /\ UNCHANGED <<held, retries, events>>
    BY <1>8 DEF ReplayFound, Calm
  <2>2. /\ r \in [active : BOOLEAN, file : Files, offset : Offsets, seq : Nat, timer : BOOLEAN]
        /\ r.seq = replay.seq
    BY <1>0, <2>1 DEF ReplayShaped
  <2> HIDE DEF r
  <2> QED
    BY <2>1, <2>2, LoadTyped DEF ReplayShaped
<1>9. ASSUME ExitReplay(sock), entering' \subseteq entering, Act
      PROVE  ReplayShaped'
  <2>1. /\ replay' = [replay EXCEPT !.active = FALSE, !.file = None] /\ drawn' = {}
        /\ UNCHANGED <<held, retries, loads, missed>> /\ events' \in 0 .. MaxEvents
    BY <1>0, <1>9 DEF ExitReplay, ReplayShaped, Act
  <2>2. /\ replay' \in [active : BOOLEAN, file : Files \cup {None}, offset : Offsets,
                        seq : Nat, timer : BOOLEAN]
        /\ replay'.active = FALSE /\ replay'.seq = replay.seq
    BY <2>1 DEF ReplayShaped
  <2> QED
    BY <1>9, <2>1, <2>2 DEF ReplayShaped
<1>10. ASSUME NEW o \in Offsets, Scrub(o) \/ JumpTo(o)
       PROVE  ReplayShaped'
  <2>1. /\ replay.active /\ UNCHANGED <<held, retries, entering, drawn>> /\ Act
    BY <1>10 DEF Scrub, JumpTo
  <2>2. replay \in [active : BOOLEAN, file : Files, offset : Offsets, seq : Nat, timer : BOOLEAN]
    BY <2>1 DEF ReplayShaped
  <2>3. events' \in 0 .. MaxEvents
    BY <1>0, <2>1 DEF ReplayShaped, Act
  <2>4. ASSUME NEW r, Load(r), r.seq = replay.seq,
               r \in [active : BOOLEAN, file : Files, offset : Offsets, seq : Nat, timer : BOOLEAN]
        PROVE  ReplayShaped'
    BY <2>1, <2>3, <2>4, LoadTyped DEF ReplayShaped
  <2>5. CASE Load([replay EXCEPT !.offset = o, !.timer = FALSE])
    <3> DEFINE r == [replay EXCEPT !.offset = o, !.timer = FALSE]
    <3>1. /\ r \in [active : BOOLEAN, file : Files, offset : Offsets, seq : Nat, timer : BOOLEAN]
          /\ r.seq = replay.seq /\ Load(r)
      BY <2>2, <2>5
    <3> HIDE DEF r
    <3> QED
      BY <2>4, <3>1
  <2>6. CASE Load([replay EXCEPT !.offset = o])
    <3> DEFINE r == [replay EXCEPT !.offset = o]
    <3>1. /\ r \in [active : BOOLEAN, file : Files, offset : Offsets, seq : Nat, timer : BOOLEAN]
          /\ r.seq = replay.seq /\ Load(r)
      BY <2>2, <2>6
    <3> HIDE DEF r
    <3> QED
      BY <2>4, <3>1
  <2>7. CASE replay' = [replay EXCEPT !.offset = o, !.timer = TRUE] /\ UNCHANGED <<loads, missed>>
    BY <2>1, <2>2, <2>3, <2>7 DEF ReplayShaped
  <2> QED
    BY <1>10, <2>5, <2>6, <2>7 DEF Scrub, JumpTo
<1>11. ASSUME ScrubTimer PROVE ReplayShaped'
  <2> DEFINE r == [replay EXCEPT !.timer = FALSE]
  <2>1. UNCHANGED <<held, retries, entering, drawn, events>>
    BY <1>11 DEF ScrubTimer, Calm
  <2>2. CASE replay.active
    <3>1. /\ r \in [active : BOOLEAN, file : Files, offset : Offsets, seq : Nat, timer : BOOLEAN]
          /\ r.seq = replay.seq /\ Load(r)
      BY <1>11, <2>2 DEF ScrubTimer, ReplayShaped
    <3> HIDE DEF r
    <3> QED
      BY <2>1, <3>1, LoadTyped DEF ReplayShaped
  <2>3. CASE ~replay.active
    BY <1>11, <2>1, <2>3 DEF ScrubTimer, ReplayShaped
  <2> QED
    BY <2>2, <2>3
<1>12. ASSUME NEW l \in loads, LoadAnswered(l)
       PROVE  ReplayShaped'
  <2>1. [file |-> l.file, upto |-> l.upto] \in Marks
    BY DEF ReplayShaped, Marks
  <2> QED
    BY <1>12, <2>1 DEF LoadAnswered, ReplayShaped, Calm
<1>13. ASSUME NEW l \in loads, LoadFails(l)
       PROVE  ReplayShaped'
  BY <1>0, <1>13 DEF LoadFails, ReplayShaped, Act
<1>14. ASSUME UNCHANGED vars PROVE ReplayShaped'
  BY <1>14 DEF vars, ReplayShaped
<1> QED
  BY <1>2, <1>3, <1>4, <1>5, <1>6, <1>7, <1>8, <1>9, <1>10, <1>11, <1>12, <1>13, <1>14
  DEF Next, ReturnToLive, ReplayFails

-----------------------------------------------------------------------------
LEMMA InitPosition == PlaybackAssumption /\ Init => PositionInv /\ ReplayShaped
<1> SUFFICES ASSUME PlaybackAssumption, Init
             PROVE  PositionInv /\ ReplayShaped
  OBVIOUS
<1>1. PageShaped
  BY DEF Init, PageShaped, Placed
<1>2. SocketsShaped
  <2>1. /\ NoSocket \in [state : {"none", "connecting", "open", "closing"}, up : Seq(Msgs)]
        /\ [NoSocket EXCEPT !.state = "connecting"]
              \in [state : {"none", "connecting", "open", "closing"}, up : Seq(Msgs)]
        /\ NoSocket.up = <<>> /\ [NoSocket EXCEPT !.state = "connecting"].up = <<>>
    <3>1. <<>> \in Seq(Msgs)
      OBVIOUS
    <3>2. [NoSocket EXCEPT !.state = "connecting"] = [state |-> "connecting", up |-> <<>>]
      BY DEF NoSocket
    <3> QED
      BY <3>1, <3>2 DEF NoSocket
  <2>2. Defaults \in [ui : [ToSet(Controls) -> {0, 1}], time : Positions]
    BY DEF Defaults, Off, Positions
  <2> QED
    BY <2>1, <2>2 DEF Init, SocketsShaped, Sockets, PlaybackAssumption
<1>3. ~IsOpen(ws)
  BY DEF Init, IsOpen, NoSocket, Sockets, PlaybackAssumption
<1>4. ReplayShaped
  <2>1. 0 \in Offsets /\ 0 \in 0 .. MaxEvents
    BY DEF Offsets, PlaybackAssumption
  <2>2. replay \in [active : BOOLEAN, file : Files \cup {None}, offset : Offsets,
                    seq : Nat, timer : BOOLEAN] /\ replay.active = FALSE
    BY <2>1 DEF Init
  <2> QED
    BY <2>1, <2>2 DEF Init, ReplayShaped
<1> QED
  BY <1>1, <1>2, <1>3, <1>4 DEF PositionInv, Foretold

\* What is under way to the server ends in the page's controls and position: what
\* ws.onopen resends, sendControl drops and the timers send late add up.
THEOREM PositionInvariant == Spec => [](PositionInv /\ ReplayShaped)
<1>1. Init => PositionInv /\ ReplayShaped
  BY InitPosition, PlaybackAssumption
<1>2. (PositionInv /\ ReplayShaped) /\ [Next]_vars => (PositionInv /\ ReplayShaped)'
  BY NextPosition, NextTyped, PlaybackAssumption
<1> QED
  BY <1>1, <1>2, PTL DEF Spec

\* The server plays what the page shows, at a position that exists, whatever was changed,
\* played, left or lost while the socket was down (ws.onopen, sendTimelinePosition,
\* reportZoomBand).
THEOREM PositionsAlwaysAgree == Spec => []PositionsAgree
<1>1. PositionInv /\ ReplayShaped => PositionsAgree
  <2> SUFFICES ASSUME PositionInv, ReplayShaped
               PROVE  PositionsAgree
    OBVIOUS
  <2>1. \A n \in Sockets : sock[n].up \in Seq(Msgs)
           /\ sock[n].state \in {"none", "connecting", "open", "closing"}
    BY DEF PositionInv, SocketsShaped
  <2>2. ASSUME NEW n \in Sockets, NEW i \in 1 .. Len(sock[n].up)
        PROVE  sock[n].up[i] \in Msgs
    BY <2>1
  <2>3. TypeOK
    <3>1. \A m \in Msgs : IF m.kind = "time" THEN m.value \in [id : Captures \cup {None}, t : Nat]
                          ELSE m.kind \in ToSet(Controls) /\ m.value \in {0, 1}
      BY PlaybackAssumption DEF Msgs, Positions
    <3>2. /\ ws \in 0 .. MaxSockets /\ ui \in [ToSet(Controls) -> {0, 1}] /\ opening \subseteq Captures
          /\ line \in [active : BOOLEAN, id : Captures \cup {None}, t : Nat, playing : BOOLEAN,
                       timer : BOOLEAN, band : SUBSET Deferred]
      BY DEF PositionInv, SocketsShaped, PageShaped, Placed
    <3>3. \A n \in Sockets : \A i \in 1 .. Len(sock[n].up) :
              LET m == sock[n].up[i] IN
              IF m.kind = "time" THEN m.value \in [id : Captures \cup {None}, t : Nat]
                                 ELSE m.kind \in ToSet(Controls) /\ m.value \in {0, 1}
      BY <2>2, <3>1
    <3> QED
      BY <2>1, <3>2, <3>3 DEF TypeOK, ReplayShaped, Marks
  <2>4. PositionsExist
    <3>1. \A m \in Msgs : m.kind = "time" /\ m.value.id # None
                            => m.value.t \in Bounds[m.value.id][1] .. Bounds[m.value.id][2]
      BY PlaybackAssumption DEF Msgs, Positions
    <3> QED
      BY <2>2, <3>1 DEF PositionsExist
  <2>5. ServerFollowsPage
    <3> SUFFICES ASSUME IsOpen(ws), sock[ws].up = <<>>, ~line.timer
                 PROVE  /\ \A c \in ToSet(Controls) \ line.band : knows[ws].ui[c] = ui[c]
                        /\ IF line.active
                           THEN \/ knows[ws].time = [id |-> line.id, t |-> line.t]
                                \/ /\ line.t = Bounds[line.id][1]
                                   /\ knows[ws].time = [id |-> line.id, t |-> Bounds[line.id][2]]
                           ELSE knows[ws].time.id = None
      BY DEF ServerFollowsPage
    <3>1. /\ \A c \in ToSet(Controls) \ line.band : knows[ws].ui[c] \in {ui[c]}
          /\ knows[ws].time \in Shown(line)
      BY DEF PositionInv, Foretold, WillHold
    <3>2. \A p \in Positions : p = [id |-> p.id, t |-> p.t]
      BY DEF Positions
    <3> QED
      BY <3>1, <3>2 DEF Shown
  <2> QED
    BY <2>3, <2>4, <2>5 DEF PositionsAgree
<1> QED
  BY <1>1, PositionInvariant, PTL
=============================================================================
