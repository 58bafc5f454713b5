------------------------------ MODULE Playback ------------------------------
(***************************************************************************)
(* Parrot (internal/parrot) and composed texts (peers/text.go): a recorder *)
(* for each listener and the players that send frames on a clock of their  *)
(* own, each playback a goroutine.  The listeners' goroutines record,      *)
(* start and stop; the console's handlers start texts; a playback that was *)
(* cancelled may still send before it notices.                             *)
(*                                                                         *)
(* A hotspot's recorder is the DMR listener's and a repeater's the IPSC    *)
(* listener's, which share the code and differ in what else a frame does.  *)
(* A frame is parrot's or another; its content, and how a text is encoded, *)
(* are left out.  A player's generation counter is a number no playback    *)
(* that is still running has.                                              *)
(***************************************************************************)
EXTENDS Integers, FiniteSets

CONSTANTS
  Hotspots, Repeaters,
  Streams,
  MostFrames,             \* maxFrames
  LongestRecording, PauseEnds,   \* MaxDuration, Silence
  TextFrames,
  Routines,               \* bound: the playbacks there are at once
  MaxBeats                \* bound

ASSUME PlaybackAssumption ==
  /\ Hotspots \cap Repeaters = {} /\ 0 \notin Routines
  /\ MostFrames \in Nat \ {0} /\ LongestRecording \in Nat /\ PauseEnds \in Nat /\ TextFrames \in Nat

VARIABLES
  recording,   \* station -> active: [stream, frames, started, last], or NotRecording
  registered,  \* the hotspots the master knows (Lookup)
  playing,     \* player -> running: the generation of its playback, 0 is none
  playbacks,   \* generation -> goroutine: [player, left, cancelled], or NoPlayback
  beat,
  moved        \* history: the stations whose last frame was not parrot's

playbackVars == <<recording, registered, playing, playbacks, beat, moved>>

Stations == Hotspots \cup Repeaters
(* A player keeps one playback per peer: a text to one hotspot is on       *)
(* l.texts, one to a talkgroup on l.network, an alert on l.local.          *)
Parrots == {<<"parrot", s>> : s \in Stations}
Texts == {<<"text", h>> : h \in Hotspots}
Network == <<"network", "server">>
Local == <<"local", "server">>
Players == Parrots \cup Texts \cup {Network, Local}

NotRecording == [stream |-> 0, frames |-> 0, started |-> 0, last |-> 0]
NoPlayback == [player |-> Network, left |-> 0, cancelled |-> TRUE]

Live == {g \in Routines : playbacks[g] # NoPlayback}
Running(p) == {g \in Live : playbacks[g].player = p /\ ~playbacks[g].cancelled}
Busy(p) == playing[p] # 0
Spare == {g \in Routines : g \notin Live}

(***************************************************************************)
(* player.go                                                               *)
(***************************************************************************)
Cancelled(P) ==
  [g \in Routines |-> IF g \in Live /\ \E p \in P : playing[p] = g
                      THEN [playbacks[g] EXCEPT !.cancelled = TRUE] ELSE playbacks[g]]

Stop(p) == playing' = [playing EXCEPT ![p] = 0] /\ playbacks' = Cancelled({p})

(* Start stops what the peer was hearing.  jobs is player -> frames; each  *)
(* gets a generation of its own.                                           *)
Start(jobs) ==
  \E gen \in [DOMAIN jobs -> Spare] :
    /\ \A p, q \in DOMAIN jobs : p # q => gen[p] # gen[q]
    /\ \A p \in DOMAIN jobs, g \in Spare : g < gen[p] => \E q \in DOMAIN jobs : gen[q] = g
    /\ playing' = [p \in Players |-> IF p \in DOMAIN jobs THEN gen[p] ELSE playing[p]]
    /\ playbacks' = [g \in Routines |->
         IF \E p \in DOMAIN jobs : gen[p] = g
         THEN LET p == CHOOSE p \in DOMAIN jobs : gen[p] = g
              IN  [player |-> p, left |-> jobs[p], cancelled |-> FALSE]
         ELSE Cancelled(DOMAIN jobs)[g]]

(* play: a frame each tick.  When a tick and the cancellation are both     *)
(* there the choice is the scheduler's.                                    *)
PlayFrame(g) ==
  /\ g \in Live /\ playbacks[g].left > 0
  /\ playbacks' = [playbacks EXCEPT ![g].left = @ - 1]
  /\ UNCHANGED <<recording, registered, playing, beat, moved>>

(* Mutant: a playback that ends takes the peer's entry, whoever's it is.   *)
EntryOfPeer(g) == playing[playbacks[g].player] # 0
EntryIsOwn(g) == playing[playbacks[g].player] = g

PlayEnds(g) ==
  /\ g \in Live /\ (playbacks[g].left = 0 \/ playbacks[g].cancelled)
  /\ playing' = IF EntryIsOwn(g) THEN [playing EXCEPT ![playbacks[g].player] = 0] ELSE playing
  /\ playbacks' = [playbacks EXCEPT ![g] = NoPlayback]
  /\ UNCHANGED <<recording, registered, beat, moved>>

(***************************************************************************)
(* parrot.go                                                               *)
(***************************************************************************)
(* replay: a hotspot that has gone away has nothing to play it to.         *)
Replays(S) ==
  LET due == {s \in S : recording[s].frames > 0 /\ (s \in Hotspots => s \in registered)}
  IN  IF due = {} THEN UNCHANGED <<playing, playbacks>>
      ELSE Start([p \in {<<"parrot", s>> : s \in due} |-> recording[p[2]].frames])

(* Observe: another stream starts over; at either limit what there is is   *)
(* played.                                                                 *)
Current(s, stream) ==
  IF recording[s].stream = stream THEN recording[s]
  ELSE [stream |-> stream, frames |-> 0, started |-> beat, last |-> beat]
Full(r) == beat - r.started > LongestRecording \/ r.frames >= MostFrames

Observe(s, stream) ==
  \E r \in {Current(s, stream)} :
    /\ IF Full(r)
         THEN recording' = [recording EXCEPT ![s] = NotRecording] /\ Replays({s})
         ELSE /\ recording' = [recording EXCEPT ![s] = [r EXCEPT !.frames = @ + 1, !.last = beat]]
              /\ UNCHANGED <<playing, playbacks>>
    /\ moved' = moved \ {s}
    /\ UNCHANGED <<registered, beat>>

Cancel(s) == [recording EXCEPT ![s] = NotRecording]

(* forward and parrotHandles, for a frame that is not parrot's: only a     *)
(* hotspot's replay is stopped.                                            *)
KeysElsewhere(s) ==
  /\ recording' = Cancel(s)
  /\ IF s \in Hotspots THEN Stop(<<"parrot", s>>) ELSE UNCHANGED <<playing, playbacks>>
  /\ moved' = moved \cup {s}
  /\ UNCHANGED <<registered, beat>>

(* expireParrot, from each listener's sweep: most recordings end here.     *)
ExpireParrot(L) ==
  LET silent == {s \in L : recording[s] # NotRecording /\ beat - recording[s].last >= PauseEnds}
  IN  /\ silent # {}
      /\ recording' = [s \in Stations |-> IF s \in silent THEN NotRecording ELSE recording[s]]
      /\ Replays(silent)
      /\ UNCHANGED <<registered, beat, moved>>

(***************************************************************************)
(* sendText, under textMu.  Whether a call has the timeslot is read from a *)
(* snapshot up to a second old, so it says nothing of the frames under way *)
(* and a refusal for it may come at any time; then nothing happens.        *)
(***************************************************************************)
SendTextTo(h) ==
  /\ h \in registered
  /\ ~Busy(<<"text", h>>) /\ ~Busy(<<"parrot", h>>)
  /\ Start([p \in {<<"text", h>>} |-> TextFrames])
  /\ UNCHANGED <<recording, registered, beat, moved>>

(* "One composed text on the air at a time, whichever path it takes."      *)
OnAir == Busy(Network) \/ Busy(Local)

SendTextFrom(p) ==
  /\ p \in {Network, Local}
  /\ ~OnAir
  /\ Start([q \in {p} |-> TextFrames])
  /\ UNCHANGED <<recording, registered, beat, moved>>

Registers(h) ==
  /\ h \in Hotspots
  /\ registered' = IF h \in registered THEN registered \ {h} ELSE registered \cup {h}
  /\ UNCHANGED <<recording, playing, playbacks, beat, moved>>

BeatPasses ==
  /\ beat < MaxBeats /\ beat' = beat + 1
  /\ UNCHANGED <<recording, registered, playing, playbacks, moved>>

PlaybackInit ==
  /\ recording = [s \in Stations |-> NotRecording] /\ registered = Hotspots
  /\ playing = [p \in Players |-> 0] /\ playbacks = [g \in Routines |-> NoPlayback]
  /\ beat = 0 /\ moved = {}

Recording ==
  \/ \E s \in Stations : KeysElsewhere(s) \/ \E stream \in Streams : Observe(s, stream)
  \/ ExpireParrot(Hotspots) \/ ExpireParrot(Repeaters)
  \/ \E h \in Hotspots : Registers(h)
  \/ BeatPasses
TextStarts == (\E h \in Hotspots : SendTextTo(h)) \/ (\E p \in {Network, Local} : SendTextFrom(p))
Playing == \E g \in Routines : PlayFrame(g) \/ PlayEnds(g)

(***************************************************************************)
(* Properties                                                              *)
(***************************************************************************)
(* A player knows what it plays: a peer is busy exactly while one playback *)
(* to it has not been cancelled, however a new one overtakes the end of    *)
(* the old (player.go, generation).                                        *)
BusyIsPlaying ==
  \A p \in Players : Running(p) = IF playing[p] = 0 THEN {} ELSE {playing[p]}

(* A member who has moved on is not surprised by their own voice           *)
(* (listener.go, forward): nothing of theirs is being recorded, and        *)
(* nothing is replayed to a hotspot.                                       *)
MovedOnIsQuiet ==
  \A s \in moved : /\ recording[s] = NotRecording
                   /\ s \in Hotspots => Running(<<"parrot", s>>) = {}

(* Each playback is known for what it is, and stops when it should.        *)
PlaybackIsWanted == BusyIsPlaying /\ MovedOnIsQuiet
=============================================================================
