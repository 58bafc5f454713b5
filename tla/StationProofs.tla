--------------------------- MODULE StationProofs ----------------------------
(***************************************************************************)
(* Proofs about the machines that put audio on the air or take it from     *)
(* there: the parrot and the composed texts (Playback), a vocoder channel  *)
(* with its chip (Vocoder), the weather alerts' queue (Weather), the overs *)
(* of a Motorola repeater (Ipsc) and the Zello connector (Zello).  Each is *)
(* a specification of its own; they share no state.                        *)
(***************************************************************************)
EXTENDS Ipsc, Playback, Vocoder, Weather, Zello, FiniteSetTheorems, SequenceTheorems,
        WellFoundedInduction, TLAPS

(***************************************************************************)
(* Playback                                                                *)
(***************************************************************************)
PlaybackNext == Recording \/ TextStarts \/ Playing
PlaybackSpec == PlaybackInit /\ [][PlaybackNext]_playbackVars

Playbacks == [player : Players, left : Nat, cancelled : BOOLEAN]
Recordings == [stream : Streams \cup {0}, frames : Nat, started : Int, last : Int]

PlaybackTypeOK ==
  /\ recording \in [Stations -> Recordings]
  /\ registered \in SUBSET Hotspots
  /\ playing \in [Players -> Routines \cup {0}]
  /\ playbacks \in [Routines -> Playbacks]
  /\ beat \in Int
  /\ moved \in SUBSET Stations

(* The two halves of BusyIsPlaying, without its sets: a player's entry is  *)
(* a playback to it that goes on, and a playback that goes on is in its    *)
(* player's entry.                                                         *)
EntryGoesOn ==
  \A p \in Players : playing[p] # 0 =>
    playbacks[playing[p]].player = p /\ ~playbacks[playing[p]].cancelled
GoingOnHasEntry ==
  \A g \in Routines : ~playbacks[g].cancelled => playing[playbacks[g].player] = g
MovedOnIsEmpty ==
  \A s \in moved : /\ recording[s] = NotRecording
                   /\ s \in Hotspots => playing[<<"parrot", s>>] = 0

PlaybackInv == PlaybackTypeOK /\ EntryGoesOn /\ GoingOnHasEntry /\ MovedOnIsEmpty

LEMMA PlaybackInvImplies == PlaybackInv => PlaybackIsWanted
<1> SUFFICES ASSUME PlaybackInv PROVE PlaybackIsWanted
  OBVIOUS
<1> USE PlaybackAssumption
<1>1. ASSUME NEW p \in Players PROVE Running(p) = {g \in Routines : playbacks[g].player = p /\ ~playbacks[g].cancelled}
  BY DEF Running, Live, NoPlayback
<1>2. ASSUME NEW p \in Players PROVE Running(p) = IF playing[p] = 0 THEN {} ELSE {playing[p]}
  <2>1. CASE playing[p] = 0
    BY <1>1, <2>1 DEF PlaybackInv, PlaybackTypeOK, GoingOnHasEntry
  <2>2. CASE playing[p] # 0
    BY <1>1, <2>2 DEF PlaybackInv, PlaybackTypeOK, GoingOnHasEntry, EntryGoesOn
  <2> QED BY <2>1, <2>2
<1>3. \A s \in Hotspots : <<"parrot", s>> \in Players
  BY DEF Players, Parrots, Stations
<1>4. MovedOnIsQuiet
  BY <1>2, <1>3 DEF MovedOnIsQuiet, PlaybackInv, MovedOnIsEmpty
<1> QED BY <1>2, <1>4 DEF PlaybackIsWanted, BusyIsPlaying

LEMMA PlayersAre ==
  /\ \A s \in Stations : <<"parrot", s>> \in Players /\ <<"parrot", s>>[2] = s
  /\ \A h \in Hotspots : <<"text", h>> \in Players
  /\ \A s \in Stations, h \in Hotspots : <<"parrot", s>> # <<"text", h>>
  /\ \A s \in Stations : <<"parrot", s>> # Network /\ <<"parrot", s>> # Local
  /\ Network \in Players /\ Local \in Players
  /\ \A s, r \in Stations : <<"parrot", s>> = <<"parrot", r>> => s = r
BY DEF Players, Parrots, Texts, Network, Local, Stations

LEMMA PlaybackInitInv == PlaybackInit => PlaybackInv
<1> SUFFICES ASSUME PlaybackInit PROVE PlaybackInv
  OBVIOUS
<1>1. NotRecording \in Recordings
  BY DEF NotRecording, Recordings
<1>2. NoPlayback \in Playbacks
  BY PlayersAre DEF NoPlayback, Playbacks
<1>3. PlaybackTypeOK
  BY <1>1, <1>2 DEF PlaybackInit, PlaybackTypeOK
<1>4. \A g \in Routines : playbacks[g].cancelled
  BY DEF PlaybackInit, NoPlayback
<1>5. EntryGoesOn /\ GoingOnHasEntry /\ MovedOnIsEmpty
  BY <1>4 DEF PlaybackInit, EntryGoesOn, GoingOnHasEntry, MovedOnIsEmpty
<1> QED BY <1>3, <1>5 DEF PlaybackInv

(* Entries and playbacks, apart from what is recorded. *)
EntriesHold ==
  /\ playing \in [Players -> Routines \cup {0}] /\ playbacks \in [Routines -> Playbacks]
  /\ EntryGoesOn /\ GoingOnHasEntry

LEMMA CancelledPlayback ==
  ASSUME NEW b \in Playbacks
  PROVE  /\ [b EXCEPT !.cancelled = TRUE] \in Playbacks
         /\ [b EXCEPT !.cancelled = TRUE].player = b.player
         /\ [b EXCEPT !.cancelled = TRUE].cancelled
BY DEF Playbacks

LEMMA NotLiveIsCancelled ==
  \A g \in Routines : g \notin Live => playbacks[g].cancelled
BY DEF Live, NoPlayback

LEMMA StopHolds ==
  ASSUME EntriesHold, NEW p \in Players, Stop(p)
  PROVE  EntriesHold' /\ playing'[p] = 0 /\ \A q \in Players : playing[q] = 0 => playing'[q] = 0
<1> USE PlaybackAssumption DEF EntriesHold
<1>1. /\ playing' = [playing EXCEPT ![p] = 0]
      /\ playbacks' = Cancelled({p})
  BY DEF Stop
<1>2. \A g \in Routines : playbacks'[g] = IF g \in Live /\ playing[p] = g
                                     THEN [playbacks[g] EXCEPT !.cancelled = TRUE] ELSE playbacks[g]
  BY <1>1 DEF Cancelled
<1>3. playbacks' \in [Routines -> Playbacks]
  BY <1>1 DEF Cancelled, Playbacks
<1>4. ASSUME NEW g \in Routines
      PROVE  /\ playbacks'[g].player = playbacks[g].player
             /\ playing[p] = g => playbacks'[g].cancelled
             /\ playing[p] # g => playbacks'[g] = playbacks[g]
  <2>1. CASE playing[p] = g /\ g \in Live
    BY <1>2, <2>1, CancelledPlayback
  <2>2. CASE playing[p] # g \/ g \notin Live
    BY <1>2, <2>2, NotLiveIsCancelled
  <2> QED BY <2>1, <2>2
<1>5. EntryGoesOn'
  <2> SUFFICES ASSUME NEW q \in Players, playing'[q] # 0
               PROVE  playbacks'[playing'[q]].player = q /\ ~playbacks'[playing'[q]].cancelled
    BY DEF EntryGoesOn
  <2>1. q # p /\ playing'[q] = playing[q] /\ playing[q] \in Routines
    BY <1>1
  <2>2. playing[p] # playing[q]
    BY <2>1 DEF EntryGoesOn
  <2> QED BY <1>4, <2>1, <2>2 DEF EntryGoesOn
<1>6. GoingOnHasEntry'
  <2> SUFFICES ASSUME NEW g \in Routines, ~playbacks'[g].cancelled
               PROVE  playing'[playbacks'[g].player] = g
    BY DEF GoingOnHasEntry
  <2>1. playing[p] # g /\ playbacks'[g] = playbacks[g]
    BY <1>4
  <2>2. playing[playbacks[g].player] = g /\ playbacks[g].player \in Players
    BY <2>1 DEF GoingOnHasEntry, Playbacks
  <2> QED BY <1>1, <2>1, <2>2
<1> QED BY <1>1, <1>3, <1>5, <1>6

LEMMA StartHolds ==
  ASSUME EntriesHold, NEW jobs, DOMAIN jobs \subseteq Players, Start(jobs),
         \A p \in DOMAIN jobs : jobs[p] \in Nat
  PROVE  EntriesHold' /\ \A q \in Players \ DOMAIN jobs : playing'[q] = playing[q]
<1> USE PlaybackAssumption DEF EntriesHold
<1> DEFINE J == DOMAIN jobs
<1>1. PICK gen \in [J -> Spare] :
        /\ \A p, q \in J : p # q => gen[p] # gen[q]
        /\ playing' = [p \in Players |-> IF p \in J THEN gen[p] ELSE playing[p]]
        /\ playbacks' = [g \in Routines |->
             IF \E p \in J : gen[p] = g
             THEN LET p == CHOOSE p \in J : gen[p] = g
                  IN  [player |-> p, left |-> jobs[p], cancelled |-> FALSE]
             ELSE Cancelled(J)[g]]
  BY DEF Start
<1>2. \A p \in J : gen[p] \in Routines /\ gen[p] \notin Live
  BY DEF Spare
<1>3. \A p \in J : playbacks'[gen[p]] = [player |-> p, left |-> jobs[p], cancelled |-> FALSE]
  BY <1>1, <1>2
<1>a. J \subseteq Players /\ (\A p \in J : jobs[p] \in Nat) /\ J = DOMAIN jobs
  OBVIOUS
<1> HIDE DEF J
<1>4. \A g \in Routines : (\A p \in J : gen[p] # g) =>
        playbacks'[g] = IF g \in Live /\ \E p \in J : playing[p] = g
                        THEN [playbacks[g] EXCEPT !.cancelled = TRUE] ELSE playbacks[g]
  BY <1>1 DEF Cancelled
<1>5. ASSUME NEW g \in Routines PROVE playbacks'[g] \in Playbacks
  <2>1. CASE \E p \in J : gen[p] = g
    <3>1. PICK p \in J : gen[p] = g
      BY <2>1
    <3>2. playbacks'[g] = [player |-> p, left |-> jobs[p], cancelled |-> FALSE]
      BY <1>3, <3>1
    <3> QED BY <1>a, <3>2 DEF Playbacks
  <2>2. CASE \A p \in J : gen[p] # g
    <3>1. playbacks[g] \in Playbacks
      OBVIOUS
    <3>2. playbacks'[g] \in {playbacks[g], [playbacks[g] EXCEPT !.cancelled = TRUE]}
      BY <1>4, <2>2
    <3> QED BY <3>1, <3>2, CancelledPlayback
  <2> QED BY <2>1, <2>2
<1>6. playbacks' \in [Routines -> Playbacks]
  BY <1>1, <1>5
<1>7. playing' \in [Players -> Routines \cup {0}]
  BY <1>1, <1>2
<1>8. \A g \in Routines : (\A p \in J : gen[p] # g) =>
        /\ playbacks'[g].player = playbacks[g].player
        /\ (\E p \in J : playing[p] = g) => playbacks'[g].cancelled
        /\ (\A p \in J : playing[p] # g) => playbacks'[g] = playbacks[g]
  <2> SUFFICES ASSUME NEW g \in Routines, \A p \in J : gen[p] # g
               PROVE  /\ playbacks'[g].player = playbacks[g].player
                      /\ (\E p \in J : playing[p] = g) => playbacks'[g].cancelled
                      /\ (\A p \in J : playing[p] # g) => playbacks'[g] = playbacks[g]
    OBVIOUS
  <2>1. CASE g \in Live /\ \E p \in J : playing[p] = g
    <3>1. playbacks[g] \in Playbacks
      OBVIOUS
    <3>2. playbacks'[g] = [playbacks[g] EXCEPT !.cancelled = TRUE]
      BY <1>4, <2>1
    <3> QED BY <2>1, <3>1, <3>2, CancelledPlayback
  <2>2. CASE ~(g \in Live /\ \E p \in J : playing[p] = g)
    BY <1>4, <2>2, NotLiveIsCancelled
  <2> QED BY <2>1, <2>2
<1>9. \A g \in Routines : g \notin Live => playbacks[g].cancelled
  BY NotLiveIsCancelled
<1>10. EntryGoesOn'
  <2> SUFFICES ASSUME NEW p \in Players, playing'[p] # 0
               PROVE  playbacks'[playing'[p]].player = p /\ ~playbacks'[playing'[p]].cancelled
    BY DEF EntryGoesOn
  <2>1. CASE p \in J
    <3>1. playing'[p] = gen[p]
      BY <1>1, <2>1
    <3>2. playbacks'[gen[p]] = [player |-> p, left |-> jobs[p], cancelled |-> FALSE]
      BY <1>3, <2>1
    <3> QED BY <3>1, <3>2
  <2>2. CASE p \notin J
    <3>1. playing'[p] = playing[p] /\ playing[p] \in Routines
      BY <1>1, <2>2
    <3>2. playbacks[playing[p]].player = p /\ ~playbacks[playing[p]].cancelled
      BY <3>1 DEF EntryGoesOn
    <3>3. \A q \in J : gen[q] # playing[p]
      BY <1>2, <1>9, <3>1, <3>2
    <3>4. \A q \in J : playing[q] # playing[p]
      BY <1>a, <2>2, <3>1, <3>2 DEF EntryGoesOn
    <3> QED BY <1>8, <3>1, <3>2, <3>3, <3>4
  <2> QED BY <2>1, <2>2
<1>11. GoingOnHasEntry'
  <2> SUFFICES ASSUME NEW g \in Routines, ~playbacks'[g].cancelled
               PROVE  playing'[playbacks'[g].player] = g
    BY DEF GoingOnHasEntry
  <2>1. CASE \E p \in J : gen[p] = g
    <3>1. PICK p \in J : gen[p] = g
      BY <2>1
    <3>2. playbacks'[g] = [player |-> p, left |-> jobs[p], cancelled |-> FALSE]
      BY <1>3, <3>1
    <3> QED BY <1>1, <1>a, <3>1, <3>2
  <2>2. CASE \A p \in J : gen[p] # g
    <3>1. ~playbacks[g].cancelled /\ (\A p \in J : playing[p] # g) /\ playbacks'[g].player = playbacks[g].player
      BY <1>8, <2>2
    <3>2. playbacks[g].player \in Players
      BY DEF Playbacks
    <3> QED BY <1>1, <3>1, <3>2 DEF GoingOnHasEntry
  <2> QED BY <2>1, <2>2
<1> QED BY <1>1, <1>a, <1>6, <1>7, <1>10, <1>11

(* replay starts nothing for a station of which nothing is recorded. *)
LEMMA ReplaysHolds ==
  ASSUME PlaybackTypeOK, EntriesHold, NEW S \in SUBSET Stations, Replays(S)
  PROVE  /\ EntriesHold'
         /\ \A s \in Stations : (s \notin S \/ recording[s] = NotRecording) =>
              playing'[<<"parrot", s>>] = playing[<<"parrot", s>>]
<1> DEFINE due == {s \in S : recording[s].frames > 0 /\ (s \in Hotspots => s \in registered)}
           J == {<<"parrot", s>> : s \in due}
           jobs == [p \in J |-> recording[p[2]].frames]
<1>1. CASE due = {}
  <2>1. playing' = playing /\ playbacks' = playbacks
    BY <1>1 DEF Replays
  <2> QED BY <2>1 DEF EntriesHold, EntryGoesOn, GoingOnHasEntry
<1>2. CASE due # {}
  <2>1. Start(jobs)
    BY <1>2 DEF Replays
  <2>2. DOMAIN jobs = J /\ \A p \in J : jobs[p] = recording[p[2]].frames
    OBVIOUS
  <2>3. \A s \in due : s \in Stations /\ recording[s].frames \in Nat /\ recording[s] # NotRecording
    BY DEF PlaybackTypeOK, Recordings, NotRecording
  <2>4. J \subseteq Players /\ \A p \in J : jobs[p] \in Nat
    BY <2>2, <2>3, PlayersAre
  <2>5. \A s \in Stations : (s \notin S \/ recording[s] = NotRecording) => <<"parrot", s>> \notin J
    BY <2>3, PlayersAre
  <2> HIDE DEF jobs, J
  <2>6. EntriesHold' /\ \A q \in Players \ J : playing'[q] = playing[q]
    BY <2>1, <2>2, <2>4, StartHolds
  <2> QED BY <2>5, <2>6, PlayersAre
<1> QED BY <1>1, <1>2

LEMMA PlaybackStep == PlaybackInv /\ [PlaybackNext]_playbackVars => PlaybackInv'
<1> SUFFICES ASSUME PlaybackInv, [PlaybackNext]_playbackVars PROVE PlaybackInv'
  OBVIOUS
<1> USE PlaybackAssumption
<1>0. PlaybackTypeOK /\ EntriesHold /\ MovedOnIsEmpty
  BY DEF PlaybackInv, PlaybackTypeOK, EntriesHold
<1>n. NotRecording \in Recordings
  BY DEF NotRecording, Recordings
(* What is left to show of an action that keeps the entries. *)
<1>e. ASSUME EntriesHold', recording' \in [Stations -> Recordings], registered' \in SUBSET Hotspots,
             beat' \in Int, moved' \in SUBSET Stations, MovedOnIsEmpty'
      PROVE  PlaybackInv'
  BY <1>e DEF PlaybackInv, PlaybackTypeOK, EntriesHold
<1>1. ASSUME NEW s \in Stations, KeysElsewhere(s) PROVE PlaybackInv'
  <2>1. /\ recording' = [recording EXCEPT ![s] = NotRecording]
        /\ moved' = moved \cup {s} /\ registered' = registered /\ beat' = beat
    BY <1>1 DEF KeysElsewhere, Cancel
  <2>2. /\ EntriesHold' /\ (s \in Hotspots => playing'[<<"parrot", s>>] = 0)
        /\ \A q \in Players : playing[q] = 0 => playing'[q] = 0
    <3>1. CASE s \in Hotspots
      BY <1>0, <1>1, <3>1, StopHolds, PlayersAre DEF KeysElsewhere
    <3>2. CASE s \notin Hotspots
      <4>1. playing' = playing /\ playbacks' = playbacks
        BY <1>1, <3>2 DEF KeysElsewhere
      <4> QED BY <1>0, <3>2, <4>1 DEF EntriesHold, EntryGoesOn, GoingOnHasEntry
    <3> QED BY <3>1, <3>2
  <2>3. recording' \in [Stations -> Recordings]
    BY <1>0, <1>n, <2>1 DEF PlaybackTypeOK
  <2>4. MovedOnIsEmpty'
    BY <1>0, <2>1, <2>2, PlayersAre DEF MovedOnIsEmpty, PlaybackTypeOK
  <2> QED BY <1>0, <1>e, <2>1, <2>2, <2>3, <2>4 DEF PlaybackTypeOK
<1>2. ASSUME NEW s \in Stations, NEW stream \in Streams, Observe(s, stream) PROVE PlaybackInv'
  <2>1. moved' = moved \ {s} /\ registered' = registered /\ beat' = beat
    BY <1>2 DEF Observe
  <2>2. Current(s, stream) \in Recordings
    BY <1>0 DEF Current, Recordings, PlaybackTypeOK
  <2> DEFINE r == Current(s, stream)
             more == [r EXCEPT !.frames = @ + 1, !.last = beat]
  <2>3. more \in Recordings
    <3>1. r \in Recordings /\ beat \in Int
      BY <1>0, <2>2 DEF PlaybackTypeOK
    <3>2. ASSUME NEW f \in Recordings, NEW b \in Int
          PROVE  [f EXCEPT !.frames = @ + 1, !.last = b] \in Recordings
      <4>1. [f EXCEPT !.frames = @ + 1, !.last = b] = [[f EXCEPT !.last = b] EXCEPT !.frames = f.frames + 1]
        BY DEF Recordings
      <4>2. [f EXCEPT !.last = b] \in Recordings
        BY DEF Recordings
      <4>3. \A g \in Recordings : [g EXCEPT !.frames = f.frames + 1] \in Recordings
        BY DEF Recordings
      <4> QED BY <4>1, <4>2, <4>3
    <3> QED BY <3>1, <3>2
  <2> HIDE DEF more
  <2>4. \/ recording' = [recording EXCEPT ![s] = NotRecording] /\ Replays({s})
        \/ recording' = [recording EXCEPT ![s] = more] /\ playing' = playing /\ playbacks' = playbacks
    BY <1>2 DEF Observe, more
  <2>5. recording' \in [Stations -> Recordings] /\ \A q \in Stations \ {s} : recording'[q] = recording[q]
    BY <1>0, <1>n, <2>3, <2>4 DEF PlaybackTypeOK
  <2>6. EntriesHold' /\ \A q \in Stations \ {s} : playing'[<<"parrot", q>>] = playing[<<"parrot", q>>]
    <3>1. CASE Replays({s})
      BY <1>0, <3>1, ReplaysHolds
    <3>2. CASE playing' = playing /\ playbacks' = playbacks
      BY <1>0, <3>2 DEF EntriesHold, EntryGoesOn, GoingOnHasEntry
    <3> QED BY <2>4, <3>1, <3>2
  <2>7. MovedOnIsEmpty'
    BY <1>0, <2>1, <2>5, <2>6 DEF MovedOnIsEmpty, PlaybackTypeOK
  <2> QED BY <1>0, <1>e, <2>1, <2>5, <2>6, <2>7 DEF PlaybackTypeOK
<1>3. ASSUME NEW L \in SUBSET Stations, ExpireParrot(L) PROVE PlaybackInv'
  <2> DEFINE hushed == {s \in L : recording[s] # NotRecording /\ beat - recording[s].last >= PauseEnds}
  <2>1. /\ recording' = [s \in Stations |-> IF s \in hushed THEN NotRecording ELSE recording[s]]
        /\ Replays(hushed) /\ moved' = moved /\ registered' = registered /\ beat' = beat
    BY <1>3 DEF ExpireParrot
  <2>2. hushed \in SUBSET Stations /\ \A s \in hushed : recording[s] # NotRecording
    OBVIOUS
  <2> HIDE DEF hushed
  <2>3. EntriesHold' /\ \A s \in Stations \ hushed : playing'[<<"parrot", s>>] = playing[<<"parrot", s>>]
    BY <1>0, <2>1, <2>2, ReplaysHolds
  <2>4. recording' \in [Stations -> Recordings]
    BY <1>0, <1>n, <2>1 DEF PlaybackTypeOK
  <2>5. MovedOnIsEmpty'
    BY <1>0, <2>1, <2>2, <2>3 DEF MovedOnIsEmpty, PlaybackTypeOK
  <2> QED BY <1>0, <1>e, <2>1, <2>3, <2>4, <2>5 DEF PlaybackTypeOK
(* A text is never played on a parrot's player. *)
<1>4. ASSUME NEW p \in Players, \A s \in Stations : p # <<"parrot", s>>, Start([q \in {p} |-> TextFrames]),
             recording' = recording, registered' = registered, beat' = beat, moved' = moved
      PROVE  PlaybackInv'
  <2> DEFINE jobs == [q \in {p} |-> TextFrames]
  <2>1. DOMAIN jobs = {p} /\ \A q \in DOMAIN jobs : jobs[q] \in Nat
    OBVIOUS
  <2> HIDE DEF jobs
  <2>2. EntriesHold' /\ \A q \in Players \ {p} : playing'[q] = playing[q]
    <3>1. Start(jobs)
      BY <1>4 DEF jobs
    <3> QED BY <1>0, <2>1, <3>1, StartHolds
  <2>3. MovedOnIsEmpty'
    BY <1>0, <1>4, <2>2, PlayersAre DEF MovedOnIsEmpty, PlaybackTypeOK
  <2> QED BY <1>0, <1>e, <1>4, <2>2, <2>3 DEF PlaybackTypeOK
<1>5. ASSUME NEW h \in Hotspots, SendTextTo(h) PROVE PlaybackInv'
  BY <1>4, <1>5, PlayersAre DEF SendTextTo
<1>6. ASSUME NEW p \in {Network, Local}, SendTextFrom(p) PROVE PlaybackInv'
  BY <1>4, <1>6, PlayersAre DEF SendTextFrom
<1>7. ASSUME UNCHANGED <<playing, playbacks, recording, moved>>, registered' \in SUBSET Hotspots, beat' \in Int
      PROVE  PlaybackInv'
  BY <1>7 DEF PlaybackInv, PlaybackTypeOK, EntryGoesOn, GoingOnHasEntry, MovedOnIsEmpty
<1>8. ASSUME NEW h \in Hotspots, Registers(h) PROVE PlaybackInv'
  BY <1>0, <1>7, <1>8 DEF Registers, PlaybackTypeOK
<1>9. CASE BeatPasses
  BY <1>0, <1>7, <1>9 DEF BeatPasses, PlaybackTypeOK
<1>10. ASSUME NEW g \in Routines, PlayFrame(g) PROVE PlaybackInv'
  <2>1. /\ playbacks' = [playbacks EXCEPT ![g].left = @ - 1]
        /\ playbacks[g].left > 0 /\ playbacks[g] \in Playbacks
        /\ UNCHANGED <<recording, registered, playing, beat, moved>>
    BY <1>0, <1>10 DEF PlayFrame, PlaybackTypeOK
  <2>2. [playbacks[g] EXCEPT !.left = @ - 1] \in Playbacks
    BY <2>1 DEF Playbacks
  <2>3. playbacks' \in [Routines -> Playbacks]
    BY <1>0, <2>1, <2>2 DEF PlaybackTypeOK
  <2>4. \A k \in Routines : playbacks'[k].player = playbacks[k].player
                            /\ playbacks'[k].cancelled = playbacks[k].cancelled
    BY <1>0, <2>1 DEF PlaybackTypeOK, Playbacks
  <2>5. EntryGoesOn' /\ GoingOnHasEntry'
    BY <1>0, <2>1, <2>4 DEF EntriesHold, EntryGoesOn, GoingOnHasEntry
  <2>6. MovedOnIsEmpty'
    BY <1>0, <2>1 DEF MovedOnIsEmpty
  <2> QED BY <1>0, <1>e, <2>1, <2>3, <2>5, <2>6 DEF PlaybackTypeOK, EntriesHold
<1>11. ASSUME NEW g \in Routines, PlayEnds(g) PROVE PlaybackInv'
  <2> DEFINE p == playbacks[g].player
  <2>1. /\ playbacks' = [playbacks EXCEPT ![g] = NoPlayback]
        /\ playing' = IF playing[p] = g THEN [playing EXCEPT ![p] = 0] ELSE playing
        /\ UNCHANGED <<recording, registered, beat, moved>>
    BY <1>11 DEF PlayEnds, EntryIsOwn
  <2>2. p \in Players
    BY <1>0 DEF PlaybackTypeOK, Playbacks
  <2>3. NoPlayback \in Playbacks /\ NoPlayback.cancelled
    BY PlayersAre DEF NoPlayback, Playbacks
  <2>4. playbacks' \in [Routines -> Playbacks] /\ playing' \in [Players -> Routines \cup {0}]
    BY <1>0, <2>1, <2>2, <2>3 DEF PlaybackTypeOK
  <2> HIDE DEF p
  <2>5. /\ \A q \in Players : playing'[q] # 0 => playing[q] = playing'[q] /\ playing[q] # g
        /\ \A q \in Players : playing[q] = 0 => playing'[q] = 0
    BY <1>0, <2>1, <2>2 DEF EntriesHold, EntryGoesOn, p
  <2>6. EntryGoesOn'
    BY <1>0, <2>1, <2>4, <2>5 DEF EntriesHold, EntryGoesOn
  <2>7. GoingOnHasEntry'
    <3> SUFFICES ASSUME NEW k \in Routines, ~playbacks'[k].cancelled
                 PROVE  playing'[playbacks'[k].player] = k
      BY DEF GoingOnHasEntry
    <3>1. k # g /\ playbacks'[k] = playbacks[k]
      BY <1>0, <2>1, <2>3 DEF PlaybackTypeOK
    <3>2. playing[playbacks[k].player] = k /\ playbacks[k].player \in Players
      BY <1>0, <3>1 DEF EntriesHold, GoingOnHasEntry, Playbacks
    <3> QED BY <1>0, <2>1, <2>2, <3>1, <3>2 DEF EntriesHold
  <2>8. MovedOnIsEmpty'
    BY <1>0, <2>1, <2>5, PlayersAre DEF MovedOnIsEmpty, PlaybackTypeOK
  <2> QED BY <1>0, <1>e, <2>1, <2>4, <2>6, <2>7, <2>8 DEF PlaybackTypeOK, EntriesHold
<1>12. CASE UNCHANGED playbackVars
  BY <1>0, <1>7, <1>12 DEF playbackVars, PlaybackTypeOK
<1>13. Hotspots \in SUBSET Stations /\ Repeaters \in SUBSET Stations
  BY DEF Stations
<1> QED BY <1>1, <1>2, <1>3, <1>5, <1>6, <1>8, <1>9, <1>10, <1>11, <1>12, <1>13
     DEF PlaybackNext, Recording, TextStarts, Playing

(* A peer is busy exactly while one playback to it goes on, and a station  *)
(* that has moved on is neither recorded nor, if a hotspot, played to      *)
(* (player.go, listener.go), for any stations, streams and playbacks.      *)
THEOREM PlaybackIsKnown == PlaybackSpec => []PlaybackIsWanted
<1>1. PlaybackInit => PlaybackInv
  BY PlaybackInitInv
<1>2. PlaybackInv /\ [PlaybackNext]_playbackVars => PlaybackInv'
  BY PlaybackStep
<1>3. PlaybackInv => PlaybackIsWanted
  BY PlaybackInvImplies
<1> QED BY <1>1, <1>2, <1>3, PTL DEF PlaybackSpec

(***************************************************************************)
(* Vocoder: who has the chip                                               *)
(***************************************************************************)
VocoderNext == Channelling \/ Supervising
VocoderSpec == VocoderInit /\ [][VocoderNext]_vocoderVars

Clients == [sock : Nat, up : BOOLEAN, broken : BOOLEAN, holder : {"none", "call", "over"},
            late : BOOLEAN, stale : BOOLEAN]

(* A client as it is between two steps of a handler: an answer is missing  *)
(* or lies unread only at one that is broken.                              *)
ClientOK(v) ==
  /\ v \in Clients
  /\ v.late \/ v.stale => v.broken
  /\ v.up => v.sock # 0

(* Who has the chip: the DMR call that holds the client c, or the over     *)
(* that holds the client o; neither holds a client that was replaced, and  *)
(* the client that is held is open and works.                              *)
ChipOK(v, c, o) ==
  /\ ClientOK(v)
  /\ v.holder # "none" => v.up /\ ~v.broken
  /\ c # 0 <=> v.holder = "call"
  /\ o # 0 <=> v.holder = "over"
  /\ c \in {0, v.sock} /\ o \in {0, v.sock}

LEMMA ClientInit ==
  ChipOK([sock |-> 0, up |-> FALSE, broken |-> FALSE, holder |-> "none", late |-> FALSE, stale |-> FALSE], 0, 0)
BY DEF ChipOK, ClientOK, Clients

LEMMA ClientOpened ==
  ASSUME NEW k \in Nat
  PROVE  ChipOK([sock |-> k + 1, up |-> TRUE, broken |-> FALSE, holder |-> "none", late |-> FALSE, stale |-> FALSE], 0, 0)
BY DEF ChipOK, ClientOK, Clients

LEMMA ReleaseOK ==
  ASSUME NEW v, ClientOK(v)
  PROVE  ChipOK(Release(v, v.sock), 0, 0)
<1>1. Release(v, v.sock) = [v EXCEPT !.holder = "none"]
  BY DEF Release
<1>2. /\ [v EXCEPT !.holder = "none"] \in Clients
      /\ [v EXCEPT !.holder = "none"].holder = "none"
      /\ [v EXCEPT !.holder = "none"].sock = v.sock
      /\ [v EXCEPT !.holder = "none"].up = v.up
      /\ [v EXCEPT !.holder = "none"].broken = v.broken
      /\ [v EXCEPT !.holder = "none"].late = v.late
      /\ [v EXCEPT !.holder = "none"].stale = v.stale
  BY DEF ClientOK, Clients
<1> QED BY <1>1, <1>2 DEF ChipOK, ClientOK

LEMMA AfterOK ==
  ASSUME NEW v, ClientOK(v), NEW how \in Outcomes
  PROVE  /\ ClientOK(After(v, how)) /\ After(v, how).sock = v.sock /\ After(v, how).holder = v.holder
         /\ how # "timeout" => After(v, how) = v
<1>1. CASE how = "timeout"
  <2> DEFINE a == [[v EXCEPT !.broken = TRUE] EXCEPT !.late = TRUE]
  <2>1. After(v, how) = a
    BY <1>1 DEF After, ClientOK, Clients
  <2>2. [v EXCEPT !.broken = TRUE] \in Clients
    BY DEF ClientOK, Clients
  <2>3. a \in Clients /\ a.broken = TRUE /\ a.sock = v.sock /\ a.holder = v.holder /\ a.up = v.up
    BY <2>2 DEF ClientOK, Clients
  <2> QED BY <1>1, <2>1, <2>3 DEF ClientOK
<1>2. CASE how # "timeout"
  BY <1>2 DEF After, ClientOK, Clients
<1> QED BY <1>1, <1>2

LEMMA AcquiredOK ==
  ASSUME NEW v, ChipOK(v, 0, 0), Reachable(v), NEW how \in Outcomes
  PROVE  /\ ~Reads(v, how)
         /\ how # "answered" => \A who : ChipOK(Acquired(v, who, how), 0, 0)
         /\ how = "answered" => /\ ChipOK(Acquired(v, "call", how), v.sock, 0)
                                /\ ChipOK(Acquired(v, "over", how), 0, v.sock)
                                /\ Acquired(v, "call", how).sock = v.sock
                                /\ Acquired(v, "over", how).sock = v.sock
<1>1. v \in Clients /\ ~v.stale /\ ~v.late /\ v.up /\ ~v.broken /\ v.sock # 0 /\ v.holder = "none"
  BY DEF ChipOK, ClientOK, Reachable, Clients
<1>2. ~Reads(v, how)
  BY <1>1 DEF Reads
<1>3. CASE how = "answered"
  <2>1. ASSUME NEW who \in {"call", "over"}
        PROVE  /\ [v EXCEPT !.holder = who] \in Clients /\ [v EXCEPT !.holder = who].holder = who
               /\ [v EXCEPT !.holder = who].sock = v.sock /\ [v EXCEPT !.holder = who].up = v.up
               /\ [v EXCEPT !.holder = who].broken = v.broken /\ [v EXCEPT !.holder = who].late = v.late
               /\ [v EXCEPT !.holder = who].stale = v.stale
    BY <1>1 DEF Clients
  <2>2. Acquired(v, "call", how) = [v EXCEPT !.holder = "call"] /\ Acquired(v, "over", how) = [v EXCEPT !.holder = "over"]
    BY <1>3 DEF Acquired
  <2> QED BY <1>1, <1>2, <1>3, <2>1, <2>2 DEF ChipOK, ClientOK
<1>4. CASE how # "answered"
  <2>1. \A who : Acquired(v, who, how) = [After(v, how) EXCEPT !.broken = TRUE]
    <3>1. CASE how = "odd"
      <4>1. After(v, how) = v
        BY <3>1, AfterOK DEF ChipOK
      <4> QED BY <3>1, <4>1 DEF Acquired
    <3>2. CASE how = "timeout"
      <4>1. After(v, how).broken = TRUE
        BY <1>1, <3>2 DEF After, Clients
      <4> QED BY <3>2, <4>1 DEF Acquired
    <3> QED BY <1>4, <3>1, <3>2 DEF Outcomes
  <2> DEFINE a == After(v, how)
             b == [a EXCEPT !.broken = TRUE]
  <2>2. ClientOK(a) /\ a.sock = v.sock /\ a.holder = "none"
    BY <1>1, AfterOK DEF ChipOK
  <2> HIDE DEF a
  <2>3. b \in Clients /\ b.broken = TRUE /\ b.sock = a.sock /\ b.holder = a.holder /\ b.up = a.up
    BY <2>2 DEF ClientOK, Clients
  <2>4. ChipOK(b, 0, 0)
    BY <2>2, <2>3 DEF ChipOK, ClientOK
  <2> QED BY <1>2, <1>4, <2>1, <2>4 DEF a
<1> QED BY <1>3, <1>4

(* The channel's state, while a frame of a DMR call is handled. *)
DmrCalls == {c \in [stream : Calls \cup {0}, chip : Nat] : c.stream = 0 => c.chip = 0}
Keyed == {"idle", "keyed", "stuck"}
HandlingOK(w) ==
  /\ w \in [voc : Clients, cur : DmrCalls, usrp : Keyed, misread : BOOLEAN]
  /\ ChipOK(w.voc, w.cur.chip, 0) /\ ~w.misread

LEMMA RefusedCall ==
  ASSUME NEW stream \in Calls \cup {0}
  PROVE  [stream |-> stream, chip |-> 0] \in DmrCalls /\ [stream |-> stream, chip |-> 0].chip = 0
BY DEF DmrCalls

LEMMA NoCallIsOne == NoDmrCall \in DmrCalls /\ NoDmrCall.chip = 0 /\ NoDmrCall.stream = 0
BY DEF NoDmrCall, DmrCalls

(* finish, for a client that may just have broken. *)
LEMMA FinishOK ==
  ASSUME NEW w \in [voc : Clients, cur : DmrCalls, usrp : Keyed, misread : BOOLEAN],
         ClientOK(w.voc), ~w.misread, (w.cur.chip # 0 /\ w.cur.chip = w.voc.sock) \/ HandlingOK(w),
         NEW sent \in BOOLEAN
  PROVE  HandlingOK(Finish(w, sent)) /\ Finish(w, sent).cur = NoDmrCall
<1>1. CASE w.cur.chip = 0 /\ HandlingOK(w)
  <2>1. Finish(w, sent) = [w EXCEPT !.cur = NoDmrCall]
    BY <1>1 DEF Finish
  <2> QED BY <1>1, <2>1, NoCallIsOne DEF HandlingOK
<1>2. CASE w.cur.chip # 0 /\ w.cur.chip = w.voc.sock
  <2> DEFINE u == IF sent THEN "idle" ELSE "stuck"
             r == Release(w.voc, w.voc.sock)
             f == [w EXCEPT !.cur = NoDmrCall, !.voc = r, !.usrp = u]
  <2>1. Finish(w, sent) = f
    BY <1>2 DEF Finish
  <2>2. u \in Keyed
    BY DEF Keyed
  <2>3. ChipOK(r, 0, 0) /\ r \in Clients
    BY ReleaseOK DEF ChipOK, ClientOK
  <2> HIDE DEF u, r
  <2>4. f = [[[w EXCEPT !.cur = NoDmrCall] EXCEPT !.voc = r] EXCEPT !.usrp = u]
    OBVIOUS
  <2>5. f.cur = NoDmrCall /\ f.voc = r /\ f.usrp = u /\ f.misread = w.misread
    OBVIOUS
  <2>6. f \in [voc : Clients, cur : DmrCalls, usrp : Keyed, misread : BOOLEAN]
    BY <2>2, <2>3, <2>4, NoCallIsOne
  <2> HIDE DEF f
  <2> QED BY <2>1, <2>3, <2>5, <2>6, NoCallIsOne DEF HandlingOK
<1>3. w.cur.chip = 0 \/ w.cur.chip = w.voc.sock
  BY DEF HandlingOK, ChipOK
<1> QED BY <1>1, <1>2, <1>3

(* fail, likewise. *)
LEMMA FailsOK ==
  ASSUME NEW w \in [voc : Clients, cur : DmrCalls, usrp : Keyed, misread : BOOLEAN],
         ClientOK(w.voc), ~w.misread, (w.cur.chip # 0 /\ w.cur.chip = w.voc.sock) \/ HandlingOK(w),
         NEW sent \in BOOLEAN
  PROVE  HandlingOK(Fails(w, sent))
<1> DEFINE f == Finish(w, sent)
           c == [stream |-> w.cur.stream, chip |-> 0]
<1>1. HandlingOK(f) /\ f.cur = NoDmrCall
  BY FinishOK
<1>2. c \in DmrCalls /\ c.chip = 0
  BY DEF DmrCalls
<1>3. Fails(w, sent) = [f EXCEPT !.cur = c]
  BY DEF Fails
<1> HIDE DEF f, c
<1>4. [f EXCEPT !.cur = c].cur = c /\ [f EXCEPT !.cur = c].voc = f.voc /\ [f EXCEPT !.cur = c].misread = f.misread
      /\ [f EXCEPT !.cur = c] \in [voc : Clients, cur : DmrCalls, usrp : Keyed, misread : BOOLEAN]
  BY <1>1, <1>2 DEF HandlingOK
<1> QED BY <1>1, <1>2, <1>3, <1>4, NoCallIsOne DEF HandlingOK

LEMMA BeginOK ==
  ASSUME NEW w, HandlingOK(w), w.cur.chip = 0, NEW stream \in Calls, NEW how \in Outcomes, NEW sent \in BOOLEAN
  PROVE  HandlingOK(Begin(w, stream, how, sent))
<1> DEFINE v == Acquired(w.voc, "call", how)
           m == w.misread \/ Reads(w.voc, how)
           asked == [w EXCEPT !.voc = v, !.misread = m]
           refused == [stream |-> stream, chip |-> 0]
           had == [stream |-> stream, chip |-> w.voc.sock]
<1>0. w \in [voc : Clients, cur : DmrCalls, usrp : Keyed, misread : BOOLEAN] /\ w.voc.sock \in Nat
  BY DEF HandlingOK, Clients
<1>1. refused \in DmrCalls /\ refused.chip = 0 /\ had \in DmrCalls /\ had.chip = w.voc.sock
  BY <1>0, VocoderAssumption DEF DmrCalls
<1> HIDE DEF refused, had
<1>2. CASE ~Reachable(w.voc) \/ w.voc.holder # "none"
  <2>1. Begin(w, stream, how, sent) = [w EXCEPT !.cur = refused]
    BY <1>2 DEF Begin, refused
  <2> QED BY <1>0, <1>1, <2>1 DEF HandlingOK
<1>3. CASE Reachable(w.voc) /\ w.voc.holder = "none"
  <2>1. ChipOK(w.voc, 0, 0)
    BY DEF HandlingOK
  <2>2. ~m
    BY <1>3, <2>1, AcquiredOK DEF HandlingOK
  <2>m. m \in BOOLEAN
    BY <2>2
  <2>3. CASE how # "answered"
    <3>1. ChipOK(v, 0, 0) /\ v \in Clients
      BY <1>3, <2>1, <2>3, AcquiredOK DEF ChipOK, ClientOK
    <3>2. Begin(w, stream, how, sent) = [asked EXCEPT !.cur = refused]
      BY <1>3, <2>3 DEF Begin, refused
    <3> HIDE DEF v, m
    <3>3. asked = [[w EXCEPT !.voc = v] EXCEPT !.misread = m]
      OBVIOUS
    <3>4. asked \in [voc : Clients, cur : DmrCalls, usrp : Keyed, misread : BOOLEAN] /\ asked.voc = v /\ asked.misread = m
      BY <1>0, <2>m, <3>1, <3>3
    <3> HIDE DEF asked
    <3> DEFINE b == [asked EXCEPT !.cur = refused]
    <3>5. b \in [voc : Clients, cur : DmrCalls, usrp : Keyed, misread : BOOLEAN] /\ b.voc = v /\ b.misread = m /\ b.cur = refused
      BY <1>1, <3>4
    <3> HIDE DEF b
    <3>6. HandlingOK(b)
      BY <1>1, <2>2, <3>1, <3>5 DEF HandlingOK
    <3> QED BY <3>2, <3>6 DEF b
  <2>4. CASE how = "answered"
    <3>1. ChipOK(v, w.voc.sock, 0) /\ v.sock = w.voc.sock /\ v \in Clients
      BY <1>3, <2>1, <2>4, AcquiredOK DEF ChipOK, ClientOK
    <3>2. Begin(w, stream, how, sent) = Keys(asked, stream, sent)
      BY <1>3, <2>4 DEF Begin
    <3> HIDE DEF v, m
    <3>3. asked = [[w EXCEPT !.voc = v] EXCEPT !.misread = m]
      OBVIOUS
    <3>4. asked \in [voc : Clients, cur : DmrCalls, usrp : Keyed, misread : BOOLEAN] /\ asked.voc = v /\ asked.misread = m
      BY <1>0, <2>m, <3>1, <3>3
    <3> HIDE DEF asked
    <3>5. CASE sent
      <4> DEFINE b == [asked EXCEPT !.cur = had, !.usrp = "keyed"]
      <4>1. Keys(asked, stream, sent) = b
        BY <3>1, <3>4, <3>5 DEF Keys, had
      <4>2. b = [[asked EXCEPT !.cur = had] EXCEPT !.usrp = "keyed"]
        OBVIOUS
      <4>3. b \in [voc : Clients, cur : DmrCalls, usrp : Keyed, misread : BOOLEAN] /\ b.voc = v /\ b.misread = m /\ b.cur = had
        BY <1>1, <3>4, <4>2 DEF Keyed
      <4> HIDE DEF b
      <4> QED BY <1>1, <2>2, <3>1, <3>2, <4>1, <4>3 DEF HandlingOK
    <3>6. CASE ~sent
      <4> DEFINE r == Release(v, v.sock)
                 b == [asked EXCEPT !.cur = refused, !.voc = r]
      <4>1. Keys(asked, stream, sent) = b
        BY <3>4, <3>6 DEF Keys, refused
      <4>2. ChipOK(r, 0, 0) /\ r \in Clients
        BY <3>1, ReleaseOK DEF ChipOK, ClientOK
      <4> HIDE DEF r
      <4>3. b = [[asked EXCEPT !.cur = refused] EXCEPT !.voc = r]
        OBVIOUS
      <4>4. b \in [voc : Clients, cur : DmrCalls, usrp : Keyed, misread : BOOLEAN] /\ b.voc = r /\ b.misread = m /\ b.cur = refused
        BY <1>1, <3>4, <4>2, <4>3
      <4> HIDE DEF b
      <4> QED BY <1>1, <2>2, <3>2, <4>1, <4>2, <4>4 DEF HandlingOK
    <3> QED BY <3>5, <3>6
  <2> QED BY <2>3, <2>4
<1> QED BY <1>2, <1>3

LEMMA DecodedOK ==
  ASSUME NEW w, HandlingOK(w), w.cur.chip # 0, NEW how \in Outcomes, NEW sent \in BOOLEAN
  PROVE  HandlingOK(Decoded(w, how, sent))
<1> DEFINE v == After(w.voc, how)
           m == w.misread \/ Reads(w.voc, how)
           asked == [w EXCEPT !.voc = v, !.misread = m]
<1>0. w \in [voc : Clients, cur : DmrCalls, usrp : Keyed, misread : BOOLEAN] /\ ChipOK(w.voc, w.cur.chip, 0) /\ ~w.misread
  BY DEF HandlingOK
<1>1. /\ w.voc \in Clients /\ w.voc.holder = "call" /\ w.cur.chip = w.voc.sock
      /\ w.voc.up /\ ~w.voc.broken /\ ~w.voc.stale /\ ClientOK(w.voc)
  BY <1>0 DEF ChipOK, ClientOK
<1>2. Holds(w.voc, w.cur.chip)
  BY <1>1 DEF Holds
<1>3. ~m
  BY <1>0, <1>1 DEF Reads
<1>m. m \in BOOLEAN
  BY <1>3
<1>4. ClientOK(v) /\ v \in Clients /\ v.sock = w.voc.sock /\ (how # "timeout" => v = w.voc)
  BY <1>1, AfterOK DEF ClientOK
<1>5. Decoded(w, how, sent) = IF how = "answered" /\ sent THEN asked ELSE Fails(asked, sent)
  BY <1>2 DEF Decoded
<1> HIDE DEF v, m
<1>6. asked = [[w EXCEPT !.voc = v] EXCEPT !.misread = m]
  OBVIOUS
<1>7. /\ asked \in [voc : Clients, cur : DmrCalls, usrp : Keyed, misread : BOOLEAN]
      /\ asked.voc = v /\ asked.misread = m /\ asked.cur = w.cur
  BY <1>0, <1>m, <1>4, <1>6
<1> HIDE DEF asked
<1>8. CASE how = "answered" /\ sent
  BY <1>0, <1>3, <1>4, <1>5, <1>7, <1>8 DEF HandlingOK
<1>9. CASE ~(how = "answered" /\ sent)
  BY <1>1, <1>3, <1>4, <1>5, <1>7, <1>9, FailsOK
<1> QED BY <1>8, <1>9

LEMMA HandledOK ==
  ASSUME NEW w, HandlingOK(w), NEW stream \in Calls, NEW kind, NEW how1 \in Outcomes, NEW how2 \in Outcomes,
         NEW sent \in BOOLEAN
  PROVE  HandlingOK(Handled(w, stream, kind, how1, how2, sent))
<1> DEFINE first == Ended(w, stream, sent)
           second == IF first.cur.stream = 0 THEN Begin(first, stream, how1, sent) ELSE first
<1>1. HandlingOK(Finish(w, sent)) /\ Finish(w, sent).cur = NoDmrCall
  BY FinishOK DEF HandlingOK, ChipOK
<1>2. HandlingOK(first)
  BY <1>1 DEF Ended
<1> HIDE DEF first
<1>3. HandlingOK(Finish(first, sent))
  BY <1>2, FinishOK DEF HandlingOK, ChipOK
<1>4. HandlingOK(second)
  <2>1. CASE first.cur.stream = 0
    <3>1. first.cur.chip = 0
      BY <1>2, <2>1 DEF HandlingOK, DmrCalls
    <3> QED BY <1>2, <2>1, <3>1, BeginOK
  <2>2. CASE first.cur.stream # 0
    BY <1>2, <2>2
  <2> QED BY <2>1, <2>2
<1> HIDE DEF second
<1>5. second.cur.chip # 0 => HandlingOK(Decoded(second, how2, sent))
  BY <1>4, DecodedOK
<1>6. Handled(w, stream, kind, how1, how2, sent) =
        IF kind = "terminator" THEN Finish(first, sent)
        ELSE IF kind = "header" \/ second.cur.chip = 0 THEN second
        ELSE Decoded(second, how2, sent)
  BY DEF Handled, first, second
<1> QED BY <1>3, <1>4, <1>5, <1>6

(***************************************************************************)
(* Vocoder: what waits for its time                                        *)
(***************************************************************************)
Bursts == [kind : {"header", "voice", "terminator"}, stream : Keyings]
OutOvers == [on : BOOLEAN, stream : Keyings \cup {0}, chip : Nat, frames : Nat]

VocoderTypeOK ==
  /\ voc \in Clients /\ cur \in DmrCalls /\ usrp \in Keyed /\ misread \in BOOLEAN
  /\ outbound \in OutOvers /\ (outbound.chip = 0 <=> outbound.stream = 0) /\ (outbound.chip # 0 => outbound.on)
  /\ paced \in Seq(Bursts) /\ onAir \in Keyings \cup {0} /\ open \in {0, onAir}

(* What the network gets from the header of what is on the air. *)
LineFrom(keying, p) == IF keying = 0 THEN p ELSE <<[kind |-> "header", stream |-> keying]>> \o p

InOrder(l) ==
  \A i \in 1..Len(l) :
    IF l[i].kind = "header" THEN i > 1 => l[i - 1].kind = "terminator"
    ELSE i > 1 /\ l[i - 1].kind # "terminator" /\ l[i - 1].stream = l[i].stream
(* The line ends in the over of that stream, or, for 0, in a terminator.   *)
EndsIn(l, stream) ==
  IF stream = 0 THEN l # <<>> => l[Len(l)].kind = "terminator"
  ELSE l # <<>> /\ l[Len(l)].kind # "terminator" /\ l[Len(l)].stream = stream
LineOK(l, stream) == l \in Seq(Bursts) /\ InOrder(l) /\ EndsIn(l, stream)

VocoderInv ==
  /\ VocoderTypeOK
  /\ ChipOK(voc, cur.chip, outbound.chip) /\ ~misread
  /\ LineOK(LineFrom(onAir, paced), outbound.stream)

LEMMA VocoderInvImplies == VocoderInv => ChipServesItsHolder /\ TransmissionsAreWhole
<1> SUFFICES ASSUME VocoderInv PROVE ChipServesItsHolder /\ TransmissionsAreWhole
  OBVIOUS
<1>1. AnswersMatch
  BY DEF VocoderInv, AnswersMatch
<1>2. NothingHoldsInVain
  <2>1. CASE voc.holder = "none"
    BY <2>1 DEF NothingHoldsInVain
  <2>2. CASE voc.holder = "call"
    BY <2>2 DEF NothingHoldsInVain, VocoderInv, ChipOK
  <2>3. CASE voc.holder = "over"
    BY <2>3 DEF NothingHoldsInVain, VocoderInv, ChipOK
  <2> QED BY <2>1, <2>2, <2>3 DEF VocoderInv, VocoderTypeOK, Clients
<1>3. TransmissionsAreWhole
  <2> DEFINE l == LineFrom(onAir, paced)
  <2>1. InOrder(l) /\ EndsIn(l, outbound.stream) /\ open \in {0, onAir} /\ (outbound.chip = 0 <=> outbound.stream = 0)
    BY DEF VocoderInv, LineOK, VocoderTypeOK
  <2>2. TransmissionsAreWhole <=>
          /\ InOrder(l)
          /\ l # <<>> /\ l[Len(l)].kind # "terminator" => outbound.stream = l[Len(l)].stream
          /\ outbound.chip # 0 => l # <<>> /\ l[Len(l)].stream = outbound.stream
          /\ open \in {0, onAir}
    BY Zenon DEF TransmissionsAreWhole, LineFrom, InOrder
  <2> HIDE DEF l
  <2> QED BY <2>1, <2>2 DEF EndsIn
<1> QED BY <1>1, <1>2, <1>3 DEF ChipServesItsHolder

LEMMA LinePush ==
  ASSUME NEW l, NEW s, LineOK(l, s), NEW b \in Bursts,
         IF b.kind = "header" THEN s = 0 ELSE s = b.stream, 0 \notin Keyings
  PROVE  LineOK(Append(l, b), IF b.kind = "terminator" THEN 0 ELSE b.stream)
<1> DEFINE k == Append(l, b)
<1>1. l \in Seq(Bursts) /\ Len(l) \in Nat /\ b.stream # 0
  BY DEF LineOK, Bursts
<1>2. k \in Seq(Bursts) /\ Len(k) = Len(l) + 1 /\ k[Len(k)] = b /\ \A i \in 1..Len(l) : k[i] = l[i]
  BY <1>1
<1>3. l # <<>> <=> Len(l) > 0
  BY <1>1
<1> HIDE DEF k
<1>4. EndsIn(k, IF b.kind = "terminator" THEN 0 ELSE b.stream)
  BY <1>1, <1>2 DEF EndsIn
<1>5. ASSUME NEW i \in 1..Len(k)
      PROVE  IF k[i].kind = "header" THEN i > 1 => k[i - 1].kind = "terminator"
             ELSE i > 1 /\ k[i - 1].kind # "terminator" /\ k[i - 1].stream = k[i].stream
  <2>1. CASE i \in 1..Len(l)
    <3>1. k[i] = l[i] /\ (i > 1 => k[i - 1] = l[i - 1])
      BY <1>1, <1>2, <2>1
    <3> QED BY <2>1, <3>1 DEF LineOK, InOrder
  <2>2. CASE i = Len(l) + 1
    <3>1. k[i] = b /\ (i > 1 => k[i - 1] = l[Len(l)])
      BY <1>1, <1>2, <2>2
    <3> QED BY <1>1, <1>3, <2>2, <3>1 DEF LineOK, EndsIn
  <2> QED BY <1>1, <1>2, <2>1, <2>2
<1>6. InOrder(k)
  BY <1>5, Zenon DEF InOrder
<1>7. LineOK(k, IF b.kind = "terminator" THEN 0 ELSE b.stream)
  BY <1>2, <1>4, <1>6, Zenon DEF LineOK
<1> QED BY <1>7 DEF k

LEMMA LineFromPush ==
  ASSUME NEW keying \in Keyings \cup {0}, NEW p \in Seq(Bursts), NEW b \in Bursts
  PROVE  LineFrom(keying, Append(p, b)) = Append(LineFrom(keying, p), b)
<1>1. CASE keying = 0
  BY <1>1 DEF LineFrom
<1>2. CASE keying # 0
  <2> DEFINE h == [kind |-> "header", stream |-> keying]
  <2>1. h \in Bursts
    BY <1>2 DEF Bursts
  <2> HIDE DEF h
  <2>2. <<h>> \o Append(p, b) = Append(<<h>> \o p, b)
    BY <2>1
  <2> QED BY <1>2, <2>2 DEF LineFrom, h
<1> QED BY <1>1, <1>2

(* A burst leaves: what is on the air and what waits follow each other     *)
(* as they did.                                                            *)
LEMMA LineRelease ==
  ASSUME NEW keying \in Keyings \cup {0}, NEW p \in Seq(Bursts), p # <<>>, NEW s, LineOK(LineFrom(keying, p), s),
         0 \notin Keyings
  PROVE  /\ Opened(keying, Head(p)) \in Keyings \cup {0}
         /\ LineOK(LineFrom(Opened(keying, Head(p)), Tail(p)), s)
<1> DEFINE l == LineFrom(keying, p)
           b == Head(p)
           q == Tail(p)
           hdr(a) == [kind |-> "header", stream |-> a]
<1>1. b \in Bursts /\ q \in Seq(Bursts) /\ Len(q) \in Nat /\ Len(p) = Len(q) + 1 /\ p[1] = b
      /\ \A i \in 1..Len(q) : q[i] = p[i + 1]
  BY HeadTailProperties
<1>2. \A a \in Keyings : hdr(a) \in Bursts
  BY DEF Bursts
<1>3. \A a \in Keyings, t \in Seq(Bursts) :
        /\ LineFrom(a, t) \in Seq(Bursts) /\ Len(LineFrom(a, t)) = Len(t) + 1
        /\ LineFrom(a, t)[1] = hdr(a) /\ \A i \in 1..Len(t) : LineFrom(a, t)[i + 1] = t[i]
  <2> SUFFICES ASSUME NEW a \in Keyings, NEW t \in Seq(Bursts)
               PROVE  /\ LineFrom(a, t) \in Seq(Bursts) /\ Len(LineFrom(a, t)) = Len(t) + 1
                      /\ LineFrom(a, t)[1] = hdr(a) /\ \A i \in 1..Len(t) : LineFrom(a, t)[i + 1] = t[i]
    OBVIOUS
  <2>1. LineFrom(a, t) = <<hdr(a)>> \o t
    BY DEF LineFrom
  <2>2. hdr(a) \in Bursts
    BY <1>2
  <2> HIDE DEF hdr
  <2> QED BY <2>1, <2>2
<1>4. InOrder(l) /\ EndsIn(l, s) /\ l \in Seq(Bursts)
  BY DEF LineOK
<1>5. CASE keying = 0
  <2>1. l = p
    BY <1>5 DEF LineFrom
  <2>2. b.kind = "header"
    BY <1>1, <1>4, <2>1 DEF InOrder
  <2>3. Opened(keying, b) = b.stream /\ b.stream \in Keyings
    BY <1>1, <2>2 DEF Opened, Bursts
  <2>4. hdr(b.stream) = b
    BY <1>1, <2>2 DEF Bursts
  <2> HIDE DEF b, q, hdr
  <2>5. LineFrom(b.stream, q) = p
    <3>1. LineFrom(b.stream, q) \in Seq(Bursts) /\ Len(LineFrom(b.stream, q)) = Len(p)
      BY <1>1, <1>3, <2>3
    <3>2. \A i \in 1..Len(p) : LineFrom(b.stream, q)[i] = p[i]
      <4> SUFFICES ASSUME NEW i \in 1..Len(p) PROVE LineFrom(b.stream, q)[i] = p[i]
        OBVIOUS
      <4>1. CASE i = 1
        BY <1>1, <1>3, <2>3, <2>4, <4>1
      <4>2. CASE i > 1
        <5>1. i - 1 \in 1..Len(q) /\ (i - 1) + 1 = i
          BY <1>1, <4>2
        <5>2. LineFrom(b.stream, q)[(i - 1) + 1] = q[i - 1]
          BY <1>1, <1>3, <2>3, <5>1
        <5>3. q[i - 1] = p[(i - 1) + 1]
          BY <1>1, <5>1
        <5> QED BY <5>1, <5>2, <5>3
      <4> QED BY <4>1, <4>2
    <3> QED BY <3>1, <3>2, SeqEqual
  <2> QED BY <1>4, <2>1, <2>3, <2>5 DEF b, q, LineOK
<1>6. CASE keying # 0
  <2> USE <1>6
  <2>1. /\ Len(l) = Len(q) + 2 /\ l[1].kind = "header" /\ l[1].stream = keying
        /\ l[2] = b /\ \A i \in 1..Len(q) : l[i + 2] = q[i]
    <3>1. /\ Len(l) = Len(p) + 1 /\ l[1] = hdr(keying) /\ \A i \in 1..Len(p) : l[i + 1] = p[i]
      BY <1>3
    <3>2. hdr(keying).kind = "header" /\ hdr(keying).stream = keying
      OBVIOUS
    <3> HIDE DEF l, b, q, hdr
    <3>3. l[2] = b
      BY <1>1, <3>1
    <3>4. ASSUME NEW i \in 1..Len(q) PROVE l[i + 2] = q[i]
      <4>1. i + 1 \in 1..Len(p) /\ (i + 1) + 1 = i + 2
        BY <1>1
      <4> QED BY <1>1, <3>1, <4>1
    <3> QED BY <1>1, <3>1, <3>2, <3>3, <3>4
  <2> HIDE DEF l, b, q
  <2>2. b.kind # "header" /\ b.stream = keying
    <3>1. 2 \in 1..Len(l) /\ 2 - 1 = 1 /\ 2 > 1
      BY <1>1, <2>1
    <3>2. IF l[2].kind = "header" THEN 2 > 1 => l[2 - 1].kind = "terminator"
          ELSE 2 > 1 /\ l[2 - 1].kind # "terminator" /\ l[2 - 1].stream = l[2].stream
      BY <1>4, <3>1, Zenon DEF InOrder
    <3> QED BY <2>1, <3>1, <3>2
  <2>3. CASE b.kind = "terminator"
    <3>1. Opened(keying, b) = 0 /\ LineFrom(0, q) = q
      BY <2>3 DEF Opened, LineFrom
    <3>2. ASSUME NEW i \in 1..Len(q)
          PROVE  IF q[i].kind = "header" THEN i > 1 => q[i - 1].kind = "terminator"
                 ELSE i > 1 /\ q[i - 1].kind # "terminator" /\ q[i - 1].stream = q[i].stream
      <4>1. q[i] = l[i + 2] /\ (i > 1 => q[i - 1] = l[i + 1]) /\ (i = 1 => l[i + 1] = b) /\ i + 2 \in 1..Len(l)
            /\ (i + 2) - 1 = i + 1 /\ i + 2 > 1
        BY <1>1, <2>1
      <4> QED BY <1>4, <2>3, <4>1 DEF InOrder
    <3>3. InOrder(q)
      BY <3>2, Zenon DEF InOrder
    <3>4. Len(q) > 0 => q[Len(q)] = l[Len(l)]
      BY <1>1, <2>1
    <3>5. Len(q) = 0 => l[Len(l)] = b
      BY <1>1, <2>1
    <3>6. (l # <<>>) /\ (q # <<>> <=> Len(q) > 0)
      BY <1>1, <1>4, <2>1
    <3>7. EndsIn(q, s)
      BY <1>1, <1>4, <2>3, <3>4, <3>5, <3>6 DEF EndsIn
    <3> QED BY <1>1, <3>1, <3>3, <3>7 DEF b, q, LineOK
  <2>4. CASE b.kind = "voice"
    <3> DEFINE k == LineFrom(keying, q)
    <3>1. Opened(keying, b) = keying
      BY <2>4 DEF Opened
    <3>2. /\ k \in Seq(Bursts) /\ Len(k) = Len(q) + 1 /\ k[1].kind = "header" /\ k[1].stream = keying
          /\ \A i \in 1..Len(q) : k[i + 1] = q[i]
      <4>1. /\ k \in Seq(Bursts) /\ Len(k) = Len(q) + 1 /\ k[1] = hdr(keying)
            /\ \A i \in 1..Len(q) : k[i + 1] = q[i]
        BY <1>1, <1>3
      <4> QED BY <4>1
    <3> HIDE DEF k
    <3>3. ASSUME NEW i \in 1..Len(k)
          PROVE  IF k[i].kind = "header" THEN i > 1 => k[i - 1].kind = "terminator"
                 ELSE i > 1 /\ k[i - 1].kind # "terminator" /\ k[i - 1].stream = k[i].stream
      <4>1. CASE i = 1
        BY <3>2, <4>1
      <4>2. CASE i > 1
        <5>1. k[i] = l[i + 1] /\ i + 1 \in 1..Len(l) /\ (i + 1) - 1 = i /\ i + 1 > 1
          <6>1. i - 1 \in 1..Len(q) /\ (i - 1) + 1 = i /\ (i - 1) + 2 = i + 1
            BY <1>1, <3>2, <4>2
          <6>2. k[(i - 1) + 1] = q[i - 1] /\ l[(i - 1) + 2] = q[i - 1]
            BY <2>1, <3>2, <6>1
          <6> QED BY <1>1, <2>1, <3>2, <4>2, <6>1, <6>2
        <5>2. IF l[i + 1].kind = "header" THEN l[i].kind = "terminator"
              ELSE l[i].kind # "terminator" /\ l[i].stream = l[i + 1].stream
          BY <1>4, <5>1 DEF InOrder
        <5>3. CASE i = 2
          BY <2>1, <2>2, <2>4, <3>2, <5>1, <5>2, <5>3
        <5>4. CASE i > 2
          <6>1. k[i - 1] = l[i]
            <7>1. i - 2 \in 1..Len(q) /\ (i - 2) + 1 = i - 1 /\ (i - 2) + 2 = i
              BY <1>1, <3>2, <5>4
            <7>2. k[(i - 2) + 1] = q[i - 2] /\ l[(i - 2) + 2] = q[i - 2]
              BY <2>1, <3>2, <7>1
            <7> QED BY <7>1, <7>2
          <6> QED BY <4>2, <5>1, <5>2, <6>1
        <5> QED BY <4>2, <5>3, <5>4
      <4> QED BY <3>2, <4>1, <4>2
    <3>4. InOrder(k)
      BY <3>3, Zenon DEF InOrder
    <3>5. Len(q) > 0 => k[Len(k)] = l[Len(l)]
      BY <1>1, <2>1, <3>2
    <3>6. Len(q) = 0 => l[Len(l)] = b /\ k[Len(k)] = k[1]
      BY <1>1, <2>1, <3>2
    <3>7. l # <<>> /\ k # <<>>
      BY <1>1, <1>4, <2>1, <3>2
    <3>8. EndsIn(k, s)
      BY <1>1, <1>4, <2>2, <2>4, <3>2, <3>5, <3>6, <3>7 DEF EndsIn
    <3> QED BY <3>1, <3>2, <3>4, <3>8 DEF b, q, k, LineOK
  <2> QED BY <1>1, <2>2, <2>3, <2>4 DEF Bursts
<1> QED BY <1>5, <1>6

LEMMA VocoderInitInv == VocoderInit => VocoderInv
<1> SUFFICES ASSUME VocoderInit PROVE VocoderInv
  OBVIOUS
<1>1. NoOver \in OutOvers /\ NoOver.chip = 0 /\ NoOver.stream = 0
  BY DEF NoOver, OutOvers
<1>2. ChipOK(voc, 0, 0) /\ voc \in Clients
  BY ClientInit DEF VocoderInit, ChipOK, ClientOK
<1>3. ~misread /\ misread \in BOOLEAN
  BY Zenon DEF VocoderInit
<1>4. VocoderTypeOK
  BY <1>1, <1>2, <1>3, NoCallIsOne DEF VocoderInit, VocoderTypeOK, Keyed
<1>5. LineOK(<<>>, 0)
  BY DEF LineOK, InOrder, EndsIn
<1> QED BY <1>1, <1>2, <1>3, <1>4, <1>5, NoCallIsOne DEF VocoderInit, VocoderInv, LineFrom

LEMMA OversAre ==
  /\ NoOver \in OutOvers /\ NoOver.chip = 0 /\ NoOver.stream = 0
  /\ [NoOver EXCEPT !.on = TRUE] \in OutOvers
  /\ [NoOver EXCEPT !.on = TRUE].chip = 0 /\ [NoOver EXCEPT !.on = TRUE].stream = 0
BY DEF NoOver, OutOvers

(* A DMR call's handler, with no over under way. *)
LEMMA CallStep ==
  ASSUME VocoderInv, outbound.chip = 0, NEW w, HandlingOK(w), Becomes(w),
         outbound' = outbound \/ outbound' = NoOver, UNCHANGED <<paced, open, onAir>>
  PROVE  VocoderInv'
<1>1. voc' = w.voc /\ cur' = w.cur /\ usrp' = w.usrp /\ misread' = w.misread
  BY DEF Becomes
<1>2. /\ w.voc \in Clients /\ w.cur \in DmrCalls /\ w.usrp \in Keyed /\ w.misread \in BOOLEAN
      /\ ChipOK(w.voc, w.cur.chip, 0) /\ ~w.misread
  BY DEF HandlingOK
<1>3. outbound' \in OutOvers /\ outbound'.chip = 0 /\ outbound'.stream = 0 /\ outbound.stream = 0
  BY OversAre DEF VocoderInv, VocoderTypeOK
<1>4. VocoderTypeOK'
  BY <1>1, <1>2, <1>3 DEF VocoderInv, VocoderTypeOK
<1>5. ChipOK(voc', cur'.chip, outbound'.chip) /\ ~misread'
  BY <1>1, <1>2, <1>3
<1>6. LineOK(LineFrom(onAir', paced'), outbound'.stream)
  BY <1>3 DEF VocoderInv
<1> QED BY <1>4, <1>5, <1>6 DEF VocoderInv

LEMMA StateIsOK ==
  ASSUME VocoderInv, outbound.chip = 0
  PROVE  HandlingOK(State) /\ State.cur = cur /\ State.voc = voc
BY DEF VocoderInv, VocoderTypeOK, State, HandlingOK

LEMMA FinishStateOK ==
  ASSUME VocoderInv, outbound.chip = 0, NEW sent \in BOOLEAN
  PROVE  HandlingOK(Finish(State, sent))
BY StateIsOK, FinishOK DEF HandlingOK, ChipOK

(* One more burst waits. *)
LEMMA PushStep ==
  ASSUME VocoderInv, NEW b \in Bursts,
         IF b.kind = "header" THEN outbound.stream = 0 ELSE outbound.stream = b.stream
  PROVE  /\ Append(paced, b) \in Seq(Bursts)
         /\ LineOK(LineFrom(onAir, Append(paced, b)), IF b.kind = "terminator" THEN 0 ELSE b.stream)
<1>1. paced \in Seq(Bursts) /\ onAir \in Keyings \cup {0} /\ LineOK(LineFrom(onAir, paced), outbound.stream)
  BY DEF VocoderInv, VocoderTypeOK
<1>2. LineFrom(onAir, Append(paced, b)) = Append(LineFrom(onAir, paced), b)
  BY <1>1, LineFromPush
<1>3. LineOK(Append(LineFrom(onAir, paced), b), IF b.kind = "terminator" THEN 0 ELSE b.stream)
  BY <1>1, VocoderAssumption, LinePush
<1> QED BY <1>1, <1>2, <1>3

(* What is left to show of a step of an over's. *)
LEMMA OverStep ==
  ASSUME VocoderInv, cur' = cur, usrp' = usrp, open' = open, onAir' = onAir,
         outbound' \in OutOvers, outbound'.chip = 0 <=> outbound'.stream = 0, outbound'.chip # 0 => outbound'.on,
         paced' \in Seq(Bursts), ChipOK(voc', cur.chip, outbound'.chip), ~misread', misread' \in BOOLEAN,
         LineOK(LineFrom(onAir, paced'), outbound'.stream)
  PROVE  VocoderInv'
<1>1. voc' \in Clients
  BY DEF ChipOK, ClientOK
<1>2. VocoderTypeOK'
  BY <1>1 DEF VocoderInv, VocoderTypeOK
<1> QED BY <1>2 DEF VocoderInv

LEMMA OverBeginsStep ==
  ASSUME VocoderInv, NEW stream \in Keyings, NEW how \in Outcomes, OverBegins(stream, how)
  PROVE  VocoderInv'
<1> DEFINE had == [on |-> TRUE, stream |-> stream, chip |-> voc.sock, frames |-> 0]
           hdr == [kind |-> "header", stream |-> stream]
           none == [NoOver EXCEPT !.on = TRUE]
<1>1. cur' = cur /\ usrp' = usrp /\ open' = open /\ onAir' = onAir
  BY DEF OverBegins
<1>2. outbound.chip = 0 /\ outbound.stream = 0
  BY DEF OverBegins, VocoderInv, VocoderTypeOK
<1>3. /\ ChipOK(voc, cur.chip, 0) /\ ~misread /\ LineOK(LineFrom(onAir, paced), 0)
      /\ paced \in Seq(Bursts) /\ voc \in Clients
  BY <1>2 DEF VocoderInv, VocoderTypeOK
<1>4. CASE cur.chip # 0 \/ ~Reachable(voc) \/ voc.holder # "none"
  <2>1. outbound' = none /\ voc' = voc /\ paced' = paced /\ misread' = misread
    BY <1>4 DEF OverBegins
  <2>2. misread' \in BOOLEAN
    BY <2>1 DEF VocoderInv, VocoderTypeOK
  <2> HIDE DEF none
  <2>3. none \in OutOvers /\ none.chip = 0 /\ none.stream = 0
    BY OversAre DEF none
  <2> QED BY <1>1, <1>3, <2>1, <2>2, <2>3, OverStep
<1>5. CASE cur.chip = 0 /\ Reachable(voc) /\ voc.holder = "none"
  <2>1. voc' = Acquired(voc, "over", how) /\ misread' = (misread \/ Reads(voc, how))
    BY <1>5 DEF OverBegins
  <2>2. ~misread' /\ misread' \in BOOLEAN
    BY <1>3, <1>5, <2>1, AcquiredOK
  <2>3. CASE how # "answered"
    <3>1. outbound' = none /\ paced' = paced
      BY <1>5, <2>3 DEF OverBegins
    <3>2. ChipOK(voc', 0, 0)
      BY <1>3, <1>5, <2>1, <2>3, AcquiredOK
    <3> HIDE DEF none
    <3>3. none \in OutOvers /\ none.chip = 0 /\ none.stream = 0
      BY OversAre DEF none
    <3> QED BY <1>1, <1>3, <1>5, <2>2, <3>1, <3>2, <3>3, OverStep
  <2>4. CASE how = "answered"
    <3>1. outbound' = had /\ paced' = Append(paced, hdr)
      BY <1>5, <2>4 DEF OverBegins, Push
    <3>2. ChipOK(voc', 0, voc.sock)
      BY <1>3, <1>5, <2>1, <2>4, AcquiredOK
    <3>3. hdr \in Bursts /\ hdr.kind = "header" /\ hdr.stream = stream
      BY DEF Bursts
    <3>4. had \in OutOvers /\ had.chip = voc.sock /\ had.stream = stream /\ had.on /\ voc.sock # 0 /\ stream # 0
      <4>1. voc.sock \in Nat
        BY <1>3 DEF Clients
      <4>2. voc.sock # 0
        BY <1>3, <1>5 DEF ChipOK, ClientOK, Reachable
      <4> QED BY <4>1, <4>2, VocoderAssumption DEF OutOvers
    <3> HIDE DEF hdr, had
    <3>5. Append(paced, hdr) \in Seq(Bursts) /\ LineOK(LineFrom(onAir, Append(paced, hdr)), stream)
      BY <1>2, <3>3, PushStep
    <3> QED BY <1>1, <1>5, <2>2, <3>1, <3>2, <3>4, <3>5, OverStep
  <2> QED BY <2>3, <2>4
<1> QED BY <1>4, <1>5

(* The over that has the chip can use it. *)
LEMMA OverHolds ==
  ASSUME VocoderInv, outbound.chip # 0
  PROVE  /\ cur.chip = 0 /\ outbound.chip = voc.sock /\ Holds(voc, outbound.chip)
         /\ ClientOK(voc) /\ (\A how \in Outcomes : ~Reads(voc, how))
         /\ outbound.stream \in Keyings /\ outbound \in OutOvers /\ outbound.on
BY DEF VocoderInv, VocoderTypeOK, ChipOK, ClientOK, Holds, Reads, OutOvers

LEMMA OverSpeaksStep ==
  ASSUME VocoderInv, NEW how \in Outcomes, OverSpeaks(how)
  PROVE  VocoderInv'
<1> DEFINE v == [kind |-> "voice", stream |-> outbound.stream]
           t == [kind |-> "terminator", stream |-> outbound.stream]
<1>1. outbound.chip # 0 /\ cur' = cur /\ usrp' = usrp /\ open' = open /\ onAir' = onAir
  BY DEF OverSpeaks
<1>2. /\ cur.chip = 0 /\ outbound.chip = voc.sock /\ Holds(voc, outbound.chip) /\ ClientOK(voc) /\ ~Reads(voc, how)
      /\ outbound.stream \in Keyings /\ outbound \in OutOvers /\ outbound.on
  BY <1>1, OverHolds
<1>3. ~misread' /\ misread' \in BOOLEAN
  BY <1>2 DEF OverSpeaks, VocoderInv
<1>4. /\ v \in Bursts /\ v.kind = "voice" /\ v.stream = outbound.stream
      /\ t \in Bursts /\ t.kind = "terminator" /\ t.stream = outbound.stream
  BY <1>2 DEF Bursts
<1>5. CASE how = "answered"
  <2>1. /\ paced' = paced \/ paced' = Append(paced, v)
        /\ outbound' = [outbound EXCEPT !.frames = (@ + 1) % FramesPerBurst]
        /\ voc' = voc
    BY <1>2, <1>5 DEF OverSpeaks, Push
  <2>2. (outbound.frames + 1) % FramesPerBurst \in Nat
    BY <1>2, VocoderAssumption DEF OutOvers
  <2>3. outbound' \in OutOvers /\ outbound'.chip = outbound.chip /\ outbound'.stream = outbound.stream /\ outbound'.on = outbound.on
    BY <1>2, <2>1, <2>2 DEF OutOvers
  <2> HIDE DEF v, t
  <2>4. Append(paced, v) \in Seq(Bursts) /\ LineOK(LineFrom(onAir, Append(paced, v)), outbound.stream)
    BY <1>4, PushStep
  <2>5. paced' \in Seq(Bursts) /\ LineOK(LineFrom(onAir, paced'), outbound.stream)
    BY <2>1, <2>4 DEF VocoderInv, VocoderTypeOK
  <2>6. ChipOK(voc', cur.chip, outbound.chip)
    BY <2>1 DEF VocoderInv
  <2>7. outbound.chip = 0 <=> outbound.stream = 0
    BY DEF VocoderInv, VocoderTypeOK
  <2>8. outbound'.on
    BY <1>2, <2>3, Zenon
  <2> QED BY <1>1, <1>3, <2>3, <2>5, <2>6, <2>7, <2>8, OverStep
<1>6. CASE how # "answered"
  <2>1. /\ paced' = Append(paced, t) /\ outbound' = Refused
        /\ voc' = Release(After(voc, how), voc.sock)
    BY <1>2, <1>6 DEF OverSpeaks, Push
  <2>2. ClientOK(After(voc, how)) /\ After(voc, how).sock = voc.sock
    BY <1>2, AfterOK
  <2>3. ChipOK(voc', 0, 0)
    BY <2>1, <2>2, ReleaseOK
  <2>4. Refused \in OutOvers /\ Refused.chip = 0 /\ Refused.stream = 0
    BY OversAre DEF Refused
  <2> HIDE DEF v, t
  <2>5. Append(paced, t) \in Seq(Bursts) /\ LineOK(LineFrom(onAir, Append(paced, t)), 0)
    BY <1>4, PushStep
  <2> QED BY <1>1, <1>2, <1>3, <2>1, <2>3, <2>4, <2>5, OverStep
<1> QED BY <1>5, <1>6

LEMMA EndOutboundStep ==
  ASSUME VocoderInv, NEW how \in Outcomes, EndOutbound(how),
         cur' = cur, usrp' = usrp, open' = open, onAir' = onAir
  PROVE  VocoderInv'
<1> DEFINE v == [kind |-> "voice", stream |-> outbound.stream]
           t == [kind |-> "terminator", stream |-> outbound.stream]
<1>1. CASE outbound.chip = 0
  <2>1. outbound' = NoOver /\ voc' = voc /\ paced' = paced /\ misread' = misread
    BY <1>1 DEF EndOutbound
  <2>2. /\ ChipOK(voc, cur.chip, 0) /\ ~misread /\ LineOK(LineFrom(onAir, paced), 0) /\ paced \in Seq(Bursts)
        /\ misread \in BOOLEAN
    BY <1>1 DEF VocoderInv, VocoderTypeOK
  <2>3. ~misread' /\ misread' \in BOOLEAN
    BY <2>1, <2>2, Zenon
  <2> QED BY <2>1, <2>2, <2>3, OversAre, OverStep
<1>2. CASE outbound.chip # 0
  <2>1. /\ cur.chip = 0 /\ outbound.chip = voc.sock /\ ClientOK(voc) /\ ~Reads(voc, how)
        /\ outbound.stream \in Keyings
    BY <1>2, OverHolds
  <2>2. /\ voc' = Release(IF outbound.frames > 0 THEN After(voc, how) ELSE voc, voc.sock)
        /\ outbound' = NoOver /\ paced' = paced \o LastBursts(how)
    BY <1>2, <2>1 DEF EndOutbound
  <2>3. ~misread' /\ misread' \in BOOLEAN
    BY <1>2, <2>1 DEF EndOutbound, VocoderInv
  <2>4. ClientOK(After(voc, how)) /\ After(voc, how).sock = voc.sock
    BY <2>1, AfterOK
  <2>5. ChipOK(voc', 0, 0)
    BY <2>1, <2>2, <2>4, ReleaseOK
  <2>6. /\ v \in Bursts /\ v.kind = "voice" /\ v.stream = outbound.stream
        /\ t \in Bursts /\ t.kind = "terminator" /\ t.stream = outbound.stream
    BY <2>1 DEF Bursts
  <2>7. LastBursts(how) = <<v, t>> \/ LastBursts(how) = <<t>>
    BY DEF LastBursts
  <2> HIDE DEF v, t
  <2>8. paced \in Seq(Bursts) /\ onAir \in Keyings \cup {0}
    BY DEF VocoderInv, VocoderTypeOK
  <2>9. paced' = Append(Append(paced, v), t) \/ paced' = Append(paced, t)
    <3>1. paced \o <<v, t>> = Append(Append(paced, v), t)
      BY <2>6, <2>8
    <3>2. paced \o <<t>> = Append(paced, t)
      BY <2>6, <2>8
    <3> QED BY <2>2, <2>7, <3>1, <3>2
  <2>10. Append(paced, t) \in Seq(Bursts) /\ LineOK(LineFrom(onAir, Append(paced, t)), 0)
    BY <2>6, PushStep
  <2>11. Append(paced, v) \in Seq(Bursts) /\ LineOK(LineFrom(onAir, Append(paced, v)), outbound.stream)
    BY <2>6, PushStep
  <2>12. Append(Append(paced, v), t) \in Seq(Bursts) /\ LineOK(LineFrom(onAir, Append(Append(paced, v), t)), 0)
    <3>1. LineOK(Append(LineFrom(onAir, Append(paced, v)), t), 0)
      BY <2>6, <2>11, LinePush, VocoderAssumption
    <3>2. LineFrom(onAir, Append(Append(paced, v), t)) = Append(LineFrom(onAir, Append(paced, v)), t)
      BY <2>6, <2>8, <2>11, LineFromPush
    <3> QED BY <2>6, <2>11, <3>1, <3>2
  <2>13. paced' \in Seq(Bursts) /\ LineOK(LineFrom(onAir, paced'), 0)
    BY <2>9, <2>10, <2>12
  <2> QED BY <2>1, <2>2, <2>3, <2>5, <2>13, OversAre, OverStep
<1> QED BY <1>1, <1>2

LEMMA VocoderStep == VocoderInv /\ [VocoderNext]_vocoderVars => VocoderInv'
<1> SUFFICES ASSUME VocoderInv, [VocoderNext]_vocoderVars PROVE VocoderInv'
  OBVIOUS
<1>0. /\ VocoderTypeOK /\ ChipOK(voc, cur.chip, outbound.chip) /\ ~misread
      /\ LineOK(LineFrom(onAir, paced), outbound.stream)
  BY DEF VocoderInv
(* A call that has no chip changes, whatever else goes on. *)
<1>a. ASSUME cur.chip = 0, cur' \in DmrCalls, cur'.chip = 0,
             UNCHANGED <<voc, usrp, misread, outbound, paced, open, onAir>>
      PROVE  VocoderInv'
  <2>1. VocoderTypeOK'
    BY <1>0, <1>a DEF VocoderTypeOK
  <2> QED BY <1>0, <1>a, <2>1 DEF VocoderInv
(* The supervisor's steps. *)
<1>b. ASSUME ChipOK(voc', cur.chip, outbound.chip),
             UNCHANGED <<cur, outbound, usrp, paced, open, onAir, misread>>
      PROVE  VocoderInv'
  <2>1. voc' \in Clients
    BY <1>b DEF ChipOK, ClientOK
  <2>2. VocoderTypeOK'
    BY <1>0, <1>b, <2>1 DEF VocoderTypeOK
  <2> QED BY <1>0, <1>b, <2>2 DEF VocoderInv
<1>1. ASSUME NEW stream \in Calls, NEW kind, NEW how1 \in Outcomes, NEW how2 \in Outcomes, NEW sent \in BOOLEAN,
             HearFrame(stream, kind, how1, how2, sent)
      PROVE  VocoderInv'
  <2>1. outbound' = outbound /\ UNCHANGED <<paced, open, onAir>>
    BY <1>1 DEF HearFrame
  <2>2. CASE outbound.chip # 0
    <3>1. cur.chip = 0
      BY <2>2, OverHolds
    <3>2. cur' \in {cur, [stream |-> stream, chip |-> 0]} /\ UNCHANGED <<voc, usrp, misread>>
      BY <1>1, <2>2 DEF HearFrame
    <3>3. cur' \in DmrCalls /\ cur'.chip = 0
      BY <1>0, <3>1, <3>2, RefusedCall DEF VocoderTypeOK
    <3> QED BY <1>a, <2>1, <3>1, <3>2, <3>3
  <2>3. CASE outbound.chip = 0
    <3> DEFINE w == Handled(State, stream, kind, how1, how2, sent)
    <3>1. Becomes(w)
      BY <1>1, <2>3 DEF HearFrame
    <3>2. HandlingOK(w)
      BY <2>3, StateIsOK, HandledOK
    <3> HIDE DEF w
    <3> QED BY <2>1, <2>3, <3>1, <3>2, CallStep
  <2> QED BY <2>2, <2>3
<1>2. ASSUME NEW sent \in BOOLEAN, CallIdles(sent) PROVE VocoderInv'
  <2>1. outbound' = outbound /\ UNCHANGED <<paced, open, onAir>> /\ Becomes(Finish(State, sent))
    BY <1>2 DEF CallIdles
  <2>2. CASE outbound.chip # 0
    <3>1. cur.chip = 0
      BY <2>2, OverHolds
    <3>2. Finish(State, sent) = [State EXCEPT !.cur = NoDmrCall]
      BY <3>1 DEF Finish, State
    <3>3. cur' = NoDmrCall /\ voc' = voc /\ usrp' = usrp /\ misread' = misread
      BY <2>1, <3>2 DEF Becomes, State
    <3> QED BY <1>a, <2>1, <3>1, <3>3, NoCallIsOne
  <2>3. CASE outbound.chip = 0
    BY <2>1, <2>3, FinishStateOK, CallStep
  <2> QED BY <2>2, <2>3
<1>3. ASSUME NEW stream \in Keyings, NEW how \in Outcomes, OverBegins(stream, how) PROVE VocoderInv'
  BY <1>3, OverBeginsStep
<1>4. ASSUME NEW how \in Outcomes, OverSpeaks(how) PROVE VocoderInv'
  BY <1>4, OverSpeaksStep
<1>5. ASSUME NEW how \in Outcomes, OverEnds(how) PROVE VocoderInv'
  BY <1>5, EndOutboundStep DEF OverEnds
(* A burst leaves, from the pacer or at the end. *)
<1>6. ASSUME paced # <<>>, paced' = Tail(paced), onAir' = Opened(onAir, Head(paced)), open' \in {0, onAir'},
             UNCHANGED <<voc, cur, outbound, usrp, misread>>
      PROVE  VocoderInv'
  <2>1. paced \in Seq(Bursts) /\ onAir \in Keyings \cup {0}
    BY <1>0 DEF VocoderTypeOK
  <2>2. onAir' \in Keyings \cup {0} /\ LineOK(LineFrom(onAir', paced'), outbound.stream)
    BY <1>0, <1>6, <2>1, LineRelease, VocoderAssumption
  <2>3. paced' \in Seq(Bursts)
    BY <1>6, <2>1
  <2>4. VocoderTypeOK'
    BY <1>0, <1>6, <2>2, <2>3 DEF VocoderTypeOK
  <2> QED BY <1>0, <1>6, <2>2, <2>4 DEF VocoderInv
<1>7. CASE ReleasePaced
  <2>1. /\ paced # <<>> /\ paced' = Tail(paced) /\ open' = Opened(open, Head(paced))
        /\ onAir' = Opened(onAir, Head(paced)) /\ UNCHANGED <<voc, cur, outbound, usrp, misread>>
    BY <1>7 DEF ReleasePaced
  <2>2. open' \in {0, onAir'}
    BY <1>0, <2>1 DEF Opened, VocoderTypeOK
  <2> QED BY <1>6, <2>1, <2>2
<1>8. ASSUME NEW how \in Outcomes, NEW sent \in BOOLEAN, Shutdown(how, sent) PROVE VocoderInv'
  <2>1. UNCHANGED <<paced, open, onAir>> \/ (open' = open /\ onAir' = onAir)
    BY <1>8 DEF Shutdown
  <2>2. CASE cur.chip # 0
    <3>1. Becomes(Finish(State, sent)) /\ outbound' = NoOver /\ UNCHANGED <<paced, open, onAir>>
      BY <1>8, <2>2 DEF Shutdown
    <3>2. outbound.chip = 0
      BY <2>2, OverHolds
    <3> QED BY <3>1, <3>2, FinishStateOK, CallStep
  <2>3. CASE cur.chip = 0
    BY <1>8, <2>3, EndOutboundStep DEF Shutdown
  <2> QED BY <2>2, <2>3
<1>9. CASE FlushPaced
  BY <1>6, <1>9 DEF FlushPaced
<1>10. CASE Reopens
  <2> DEFINE v == [voc EXCEPT !.up = FALSE, !.holder = "none", !.late = FALSE, !.stale = FALSE]
  <2>1. voc' = v /\ UNCHANGED <<cur, outbound, usrp, paced, open, onAir, misread>> /\ voc.broken
    BY <1>10 DEF Reopens
  <2>2. voc.holder = "none" /\ voc \in Clients
    BY <1>0, <2>1 DEF ChipOK, ClientOK
  <2>3. v = [[[[voc EXCEPT !.up = FALSE] EXCEPT !.holder = "none"] EXCEPT !.late = FALSE] EXCEPT !.stale = FALSE]
    BY <2>2 DEF Clients
  <2>4. /\ v.sock = voc.sock /\ v.up = FALSE /\ v.holder = "none" /\ v.late = FALSE /\ v.stale = FALSE
    BY <2>2 DEF Clients
  <2>5. v \in Clients
    BY <2>2, <2>3 DEF Clients
  <2> HIDE DEF v
  <2>6. ChipOK(v, cur.chip, outbound.chip)
    BY <1>0, <2>2, <2>4, <2>5 DEF ChipOK, ClientOK
  <2> QED BY <1>b, <2>1, <2>6
<1>11. CASE ClientOpens
  <2>1. /\ voc' = [sock |-> voc.sock + 1, up |-> TRUE, broken |-> FALSE, holder |-> "none", late |-> FALSE, stale |-> FALSE]
        /\ ~voc.up /\ UNCHANGED <<cur, outbound, usrp, paced, open, onAir, misread>>
    BY <1>11 DEF ClientOpens
  <2>2. voc.holder = "none" /\ voc.sock \in Nat
    BY <1>0, <2>1 DEF ChipOK, ClientOK, Clients
  <2>3. cur.chip = 0 /\ outbound.chip = 0
    BY <1>0, <2>2 DEF ChipOK
  <2>4. ChipOK(voc', 0, 0)
    BY <2>1, <2>2, ClientOpened
  <2> QED BY <1>b, <2>1, <2>3, <2>4
<1>12. CASE AnswerArrivesLate
  <2> DEFINE v == [voc EXCEPT !.late = FALSE, !.stale = TRUE]
  <2>1. voc' = v /\ UNCHANGED <<cur, outbound, usrp, paced, open, onAir, misread>> /\ voc.late
    BY <1>12 DEF AnswerArrivesLate
  <2>2. voc.broken /\ voc \in Clients /\ voc.holder = "none"
    BY <1>0, <2>1 DEF ChipOK, ClientOK
  <2>3. v = [[voc EXCEPT !.late = FALSE] EXCEPT !.stale = TRUE]
    BY <2>2 DEF Clients
  <2>4. v.sock = voc.sock /\ v.up = voc.up /\ v.holder = voc.holder /\ v.broken = voc.broken
    BY <2>2 DEF Clients
  <2>5. v \in Clients
    BY <2>2, <2>3 DEF Clients
  <2> HIDE DEF v
  <2>6. v.up => v.sock # 0
    BY <1>0, <2>4 DEF ChipOK, ClientOK
  <2>7. ChipOK(v, cur.chip, outbound.chip)
    BY <1>0, <2>2, <2>4, <2>5, <2>6 DEF ChipOK, ClientOK
  <2> QED BY <1>b, <2>1, <2>7
<1>13. CASE UNCHANGED vocoderVars
  BY <1>0, <1>b, <1>13 DEF vocoderVars
<1> QED BY <1>1, <1>2, <1>3, <1>4, <1>5, <1>7, <1>8, <1>9, <1>10, <1>11, <1>12, <1>13
     DEF VocoderNext, Channelling, Supervising

(* Both of what the runs check of a vocoder channel, for any calls, overs, *)
(* sockets and burst sizes, and whatever the chip answers.                 *)
LEMMA VocoderAlways == VocoderSpec => [](ChipServesItsHolder /\ TransmissionsAreWhole)
<1>1. VocoderInit => VocoderInv
  BY VocoderInitInv
<1>2. VocoderInv /\ [VocoderNext]_vocoderVars => VocoderInv'
  BY VocoderStep
<1>3. VocoderInv => ChipServesItsHolder /\ TransmissionsAreWhole
  BY VocoderInvImplies
<1> QED BY <1>1, <1>2, <1>3, PTL DEF VocoderSpec

(* No answer of the chip is taken for another request's, and no error path *)
(* leaves the chip held by nobody (client.go, vocoderlink.go, outbound.go).*)
THEOREM ChipIsNeverStranded == VocoderSpec => []ChipServesItsHolder
BY VocoderAlways, PTL

(* The bursts that leave for the DMR network are whole transmissions, one  *)
(* after the other, whatever fails in one of them (pace.go, outbound.go).  *)
THEOREM OutboundIsWhole == VocoderSpec => []TransmissionsAreWhole
BY VocoderAlways, PTL

(***************************************************************************)
(* Weather: what waits to go on the air                                    *)
(***************************************************************************)
WeatherSpec == WeatherInit /\ [][Alerting]_weatherVars

(* While a poll is out and no save has come in between, its settings are   *)
(* the operator's, and alerts are on.                                      *)
PollIsCurrent ==
  loop.at \in {"looking", "asking", "answered"} /\ loop.current => loop.set = wx /\ wx.enabled

WeatherTypeOK ==
  /\ wx \in WxSettings /\ hour \in Nat
  /\ queue \subseteq Bulletins /\ inForce \subseteq Bulletins
  /\ loop \in [at : {"waiting", "looking", "asking", "answered", "flushing", "sending"},
              set : WxSettings \cup {{}}, current : BOOLEAN, began : Nat, answer : SUBSET Bulletins]

WeatherInv == WeatherTypeOK /\ PollIsCurrent /\ QueueIsAsked

(* What is decided to be sent is asked for by the settings it is decided   *)
(* under, whatever has been sent before.                                   *)
LEMMA SendIsAsked ==
  ASSUME NEW b \in Bulletins, NEW set, NEW sent, NEW t, Reason(b, set, sent, t) = "send", set.enabled
  PROVE  AskedFor(b, set)
<1>1. Decide(b, set, sent, t) \in {"send", "update"}
  BY DEF Reason
<1>2. Bulletin[b].kind \in {"actual", "test", "cancel"}
  BY WeatherAssumption
<1>3. Bulletin[b].kind # "test" /\ Bulletin[b].kind # "cancel" /\ Covers(b, set) /\ Chosen(b, set)
  BY <1>1 DEF Decide
<1> QED BY <1>2, <1>3 DEF AskedFor

LEMMA WeatherStep == WeatherInv /\ [Alerting]_weatherVars => WeatherInv'
<1> SUFFICES ASSUME WeatherInv, [Alerting]_weatherVars PROVE WeatherInv'
  OBVIOUS
<1>0. WeatherTypeOK /\ PollIsCurrent /\ QueueIsAsked
  BY DEF WeatherInv
<1> DEFINE Out == {"looking", "asking", "answered"}
(* A save, which leaves nothing in the queue or the choice as it was. *)
<1>1. ASSUME NEW set \in WxSettings, Apply(set) PROVE WeatherInv'
  <2>1. wx' = set /\ Adopts(set) /\ inForce' = inForce /\ hour' = hour
        /\ loop' = [loop EXCEPT !.current = loop.at \notin Out]
    BY <1>1 DEF Apply, nws
  <2>2. (loop.at \notin Out) \in BOOLEAN
    OBVIOUS
  <2>3. /\ loop' \in [at : {"waiting", "looking", "asking", "answered", "flushing", "sending"},
              set : WxSettings \cup {{}}, current : BOOLEAN, began : Nat, answer : SUBSET Bulletins]
        /\ loop'.at = loop.at
    BY <1>0, <2>1, <2>2 DEF WeatherTypeOK
  <2>4. loop'.current = (loop.at \notin Out)
    BY <1>0, <2>1 DEF WeatherTypeOK
  <2>5. PollIsCurrent'
    BY <2>3, <2>4 DEF PollIsCurrent
  <2>6. CASE queue' = {}
    <3>1. WeatherTypeOK'
      BY <1>0, <2>1, <2>3, <2>6 DEF WeatherTypeOK
    <3> QED BY <2>5, <2>6, <3>1 DEF WeatherInv, QueueIsAsked
  <2>7. CASE queue' # {}
    <3>1. queue' = queue /\ set.transmit /\ set.enabled /\ ~Chooses(set)
      BY <2>1, <2>7 DEF Adopts, Forgets
    <3>2. set.zones = wx.zones /\ set.events = wx.events
      BY <3>1 DEF Chooses
    <3>3. \A b \in queue : AskedFor(b, set)
      BY <1>0, <2>7, <3>1, <3>2 DEF QueueIsAsked, AskedFor, Covers, Chosen
    <3>4. QueueIsAsked'
      BY <2>1, <3>1, <3>3 DEF QueueIsAsked, AskedFor, Covers, Chosen
    <3>5. WeatherTypeOK'
      BY <1>0, <2>1, <2>3, <3>1 DEF WeatherTypeOK
    <3> QED BY <2>5, <3>4, <3>5 DEF WeatherInv
  <2> QED BY <2>6, <2>7
<1>2. CASE Starts
  BY <1>0, <1>1, <1>2 DEF Starts, WeatherTypeOK
<1>3. ASSUME NEW set \in WxSettings, Saves(set) PROVE WeatherInv'
  BY <1>1, <1>3 DEF Saves
(* The queue only gets shorter, and a poll stays what it is or is over.    *)
<1>4. ASSUME wx' = wx, queue' \subseteq queue, inForce' \subseteq Bulletins, hour' \in Nat,
             loop' \in [at : {"waiting", "looking", "asking", "answered", "flushing", "sending"},
                       set : WxSettings \cup {{}}, current : BOOLEAN, began : Nat, answer : SUBSET Bulletins],
             \/ loop'.at \notin Out
             \/ loop'.set = wx /\ wx.enabled
             \/ loop.at \in Out /\ loop'.set = loop.set /\ loop'.current = loop.current
      PROVE  WeatherInv'
  <2>1. PollIsCurrent'
    BY <1>0, <1>4 DEF PollIsCurrent
  <2>2. QueueIsAsked'
    BY <1>0, <1>4 DEF QueueIsAsked, AskedFor, Covers, Chosen
  <2>3. WeatherTypeOK'
    BY <1>0, <1>4 DEF WeatherTypeOK
  <2> QED BY <2>1, <2>2, <2>3 DEF WeatherInv
<1> DEFINE Loops == [at : {"waiting", "looking", "asking", "answered", "flushing", "sending"},
                     set : WxSettings \cup {{}}, current : BOOLEAN, began : Nat, answer : SUBSET Bulletins]
<1>w. Waiting \in Loops /\ Flushing \in Loops /\ Waiting.at \notin Out /\ Flushing.at \notin Out
  BY DEF Waiting, Flushing
<1>t. wx \in WxSettings /\ hour \in Nat /\ inForce \subseteq Bulletins /\ loop \in Loops /\ queue \subseteq Bulletins
  BY <1>0 DEF WeatherTypeOK
<1>5. CASE PollBegins
  <2>1. /\ loop' = [at |-> "looking", set |-> wx, current |-> TRUE, began |-> hour, answer |-> {}] /\ wx.enabled
        /\ wx' = wx /\ queue' = queue /\ inForce' = inForce /\ hour' = hour
    BY <1>5 DEF PollBegins, memory, nws, history
  <2>2. loop' \in Loops /\ loop'.set = wx
    BY <1>t, <2>1
  <2> QED BY <1>4, <1>t, <2>1, <2>2
<1>6. CASE LooksUp
  <2>1. loop' = Flushing \/ loop' = [loop EXCEPT !.at = "asking"]
    BY <1>6 DEF LooksUp
  <2>2. wx' = wx /\ queue' = queue /\ inForce' = inForce /\ loop.at = "looking" /\ hour' = hour
    BY <1>6 DEF LooksUp, nws, history
  <2>3. CASE loop' = Flushing
    BY <1>4, <1>t, <1>w, <2>2, <2>3
  <2>4. CASE loop' = [loop EXCEPT !.at = "asking"]
    <3>1. loop' \in Loops /\ loop'.set = loop.set /\ loop'.current = loop.current
      BY <1>t, <2>4
    <3> QED BY <1>4, <1>t, <2>2, <3>1
  <2> QED BY <2>1, <2>3, <2>4
<1>7. CASE Answers
  <2> DEFINE got == {b \in inForce : Bulletin[b].zones \cap (loop.set.zones \ zoneRefused) # {}}
  <2>1. /\ loop' = [loop EXCEPT !.at = "answered", !.answer = got] /\ hour' = hour
        /\ wx' = wx /\ queue' = queue /\ inForce' = inForce /\ loop.at = "asking"
    BY <1>7 DEF Answers, memory, nws, history
  <2>2. got \in SUBSET Bulletins
    BY <1>t
  <2> HIDE DEF got
  <2>3. loop' = [[loop EXCEPT !.at = "answered"] EXCEPT !.answer = got]
    BY <1>t, <2>1
  <2>4. loop' \in Loops /\ loop'.set = loop.set /\ loop'.current = loop.current
    BY <1>t, <2>2, <2>3
  <2> QED BY <1>4, <1>t, <2>1, <2>4
<1>8. CASE PollFails
  BY <1>4, <1>8, <1>t, <1>w DEF PollFails, memory, nws, history
<1>9. CASE Decides
  <2>1. loop.at = "answered" /\ loop' = Flushing /\ wx' = wx /\ inForce' = inForce /\ hour' = hour
    BY <1>9 DEF Decides, nws, history
  <2>2. CASE ~loop.current
    <3>1. queue' = queue
      BY <1>9, <2>2 DEF Decides, Outdated
    <3> QED BY <1>4, <1>t, <1>w, <2>1, <3>1
  <2>3. CASE loop.current
    <3>1. loop.set = wx /\ wx.enabled
      BY <1>0, <2>1, <2>3 DEF PollIsCurrent
    <3> DEFINE before == Judged(loop.set, loop.answer, loop.began)
    <3>2. queue' = {b \in loop.answer :
                      b \in queue \/ (Undecided(b, loop.answer) /\ Reason(b, loop.set, before[b], loop.began) = "send"
                                      /\ loop.set.transmit)}
      BY <1>9, <2>3 DEF Decides, Outdated
    <3> HIDE DEF before
    <3>3. queue' \subseteq Bulletins
      BY <1>t, <3>2
    <3>4. ASSUME NEW b \in queue' PROVE wx.transmit /\ AskedFor(b, wx)
      <4>1. CASE b \in queue
        BY <1>0, <4>1 DEF QueueIsAsked
      <4>2. CASE b \notin queue
        BY <3>1, <3>2, <3>3, <3>4, <4>2, SendIsAsked
      <4> QED BY <4>1, <4>2
    <3>5. QueueIsAsked'
      BY <2>1, <3>4 DEF QueueIsAsked, AskedFor, Covers, Chosen
    <3>6. PollIsCurrent'
      BY <1>w, <2>1 DEF PollIsCurrent
    <3>7. WeatherTypeOK'
      BY <1>t, <1>w, <2>1, <3>3 DEF WeatherTypeOK
    <3> QED BY <3>5, <3>6, <3>7 DEF WeatherInv
  <2> QED BY <1>t, <2>2, <2>3
<1>10. CASE Flush
  <2>1. queue' = {b \in queue : ~Over(b, hour)} /\ wx' = wx /\ inForce' = inForce /\ hour' = hour
    BY <1>10 DEF Flush, nws, history
  <2>2. loop' = Waiting \/ loop' = [Waiting EXCEPT !.at = "sending", !.began = hour]
    BY <1>10 DEF Flush
  <2>3. /\ [Waiting EXCEPT !.at = "sending", !.began = hour] =
             [[Waiting EXCEPT !.at = "sending"] EXCEPT !.began = hour]
        /\ [[Waiting EXCEPT !.at = "sending"] EXCEPT !.began = hour] \in Loops
        /\ [[Waiting EXCEPT !.at = "sending"] EXCEPT !.began = hour].at = "sending"
    BY <1>t DEF Waiting
  <2>4. loop' \in Loops /\ loop'.at \notin Out
    BY <1>t, <1>w, <2>2, <2>3
  <2> QED BY <1>4, <1>t, <2>1, <2>4
<1>11. CASE Sent
  BY <1>4, <1>11, <1>t, <1>w DEF Sent, nws
<1>12. CASE SendRefused
  BY <1>4, <1>12, <1>t, <1>w DEF SendRefused, memory, nws, history
<1>13. ASSUME wx' = wx, queue' = queue, loop' = loop, inForce' \subseteq Bulletins, hour' \in Nat PROVE WeatherInv'
  BY <1>0, <1>13 DEF WeatherInv, WeatherTypeOK, PollIsCurrent, QueueIsAsked, AskedFor, Covers, Chosen
<1>14. ASSUME NEW b \in Bulletins, Issues(b) \/ Withdraws(b) PROVE WeatherInv'
  BY <1>13, <1>14, <1>t DEF Issues, Withdraws, memory, history
<1>15. CASE HourPasses
  BY <1>13, <1>15, <1>t DEF HourPasses, memory, nws
<1>16. CASE WeatherRestarts
  BY <1>4, <1>16, <1>t, <1>w DEF WeatherRestarts, nws
<1>17. CASE UNCHANGED weatherVars
  BY <1>13, <1>17, <1>t DEF weatherVars
<1> QED BY <1>2, <1>3, <1>5, <1>6, <1>7, <1>8, <1>9, <1>10, <1>11, <1>12, <1>14, <1>15, <1>16, <1>17
     DEF Alerting

(* What waits to go on the air is what the operator asks for now, whatever *)
(* was saved while a poll was out (service.go, decide and Apply); for any  *)
(* bulletins, settings and pacing.                                         *)
THEOREM QueueFollowsTheOperator == WeatherSpec => []QueueIsAsked
<1>1. WeatherInit => WeatherInv
  BY DEF WeatherInit, WeatherInv, WeatherTypeOK, PollIsCurrent, QueueIsAsked, Waiting
<1>2. WeatherInv /\ [Alerting]_weatherVars => WeatherInv'
  BY WeatherStep
<1>3. WeatherInv => QueueIsAsked
  BY DEF WeatherInv
<1> QED BY <1>1, <1>2, <1>3, PTL DEF WeatherSpec

(***************************************************************************)
(* Weather: no alert goes on the air twice                                 *)
(***************************************************************************)
(* A nonempty set of numbers has a least one.                              *)
LEMMA LeastNumber ==
  ASSUME NEW S \in SUBSET Nat, S # {}
  PROVE  \E m \in S : \A n \in S : m <= n
<1> DEFINE R == OpToRel(<, Nat)
<1>1. IsWellFoundedOn(R, Nat)
  BY NatLessThanWellFounded
<1>2. \A x, y \in Nat : x < y => <<x, y>> \in R
  BY DEF OpToRel
<1> HIDE DEF R
<1>3. PICK x \in S : \A y \in S : ~ (<<y, x>> \in R)
  BY <1>1, WFMin
<1>4. ASSUME NEW y \in S PROVE x <= y
  <2>1. x \in Nat /\ y \in Nat /\ ~(y < x)
    BY <1>2, <1>3
  <2> QED BY <2>1
<1> QED BY <1>4

LEMMA BulletinsAreNumbers ==
  /\ Cardinality(Bulletins) \in Nat
  /\ Bulletins = 1..Cardinality(Bulletins) /\ Bulletins \subseteq Nat /\ 0 \notin Bulletins
<1>1. Cardinality(Bulletins) \in Nat /\ Bulletins = 1..Cardinality(Bulletins)
  BY WeatherAssumption, FS_CardinalityType
<1> QED BY <1>1

(* What goes out first is one of those that wait (transmit.go, next).      *)
LEMMA ForemostWaits ==
  ASSUME NEW B \in SUBSET Bulletins, B # {}
  PROVE  Foremost(B) \in B
<1> DEFINE First == {b \in B : Rank(b) = 0}
<1>0. \A b \in B : b \in Nat /\ Rank(b) \in {0, 1}
  BY BulletinsAreNumbers DEF Rank
<1>1. \E b \in B : \A c \in B \ {b} : Precedes(b, c)
  <2>1. CASE First # {}
    <3>1. PICK m \in First : \A n \in First : m <= n
      <4>1. First \in SUBSET Nat
        BY <1>0
      <4> HIDE DEF First
      <4> QED BY <2>1, <4>1, LeastNumber
    <3>2. ASSUME NEW c \in B \ {m} PROVE Precedes(m, c)
      <4>1. Rank(m) = 0 /\ m \in Nat /\ c \in Nat /\ Rank(c) \in {0, 1}
        BY <1>0, <3>1
      <4>2. Rank(c) = 0 => m <= c
        BY <3>1
      <4> QED BY <4>1, <4>2 DEF Precedes
    <3> QED BY <3>1, <3>2
  <2>2. CASE First = {}
    <3>1. PICK m \in B : \A n \in B : m <= n
      BY <1>0, LeastNumber
    <3>2. ASSUME NEW c \in B \ {m} PROVE Precedes(m, c)
      <4>1. Rank(m) = 1 /\ Rank(c) = 1 /\ m \in Nat /\ c \in Nat /\ m <= c
        BY <1>0, <2>2, <3>1
      <4> QED BY <4>1 DEF Precedes
    <3> QED BY <3>1, <3>2
  <2> QED BY <2>1, <2>2
<1> QED BY <1>1, Zenon DEF Foremost

(* The tables of airings one bulletin after the other is judged by.        *)
Rung(sent, k, set, answer, t) == [sent EXCEPT ![k] = Remembered(k, set, answer, sent, t)]
Ladder(g, set, answer, t, n) ==
  g = [k \in 1..n |-> IF k = 1 THEN airings ELSE Rung(g[k - 1], k - 1, set, answer, t)]

LEMMA LaddersExist ==
  ASSUME NEW set, NEW answer, NEW t
  PROVE  \A n \in Nat : \E g : Ladder(g, set, answer, t, n)
<1> DEFINE S == {n \in Nat : ~\E g : Ladder(g, set, answer, t, n)}
<1> SUFFICES ASSUME S # {} PROVE FALSE
  OBVIOUS
<1>1. PICK m \in S : \A n \in S : m <= n
  BY LeastNumber
<1>2. m # 0
  <2>1. Ladder([k \in 1..0 |-> airings], set, answer, t, 0)
    BY DEF Ladder
  <2> QED BY <1>1, <2>1
<1>3. m \in Nat /\ m - 1 \in Nat /\ m - 1 \notin S
  BY <1>1, <1>2
<1>4. PICK g : Ladder(g, set, answer, t, m - 1)
  BY <1>3
<1> DEFINE top == IF m = 1 THEN airings ELSE Rung(g[m - 1], m - 1, set, answer, t)
           x == [k \in 1..m |-> IF k = m THEN top ELSE g[k]]
<1>5. /\ \A k \in 1..(m - 1) : x[k] = g[k]
      /\ x[m] = top
  BY <1>2, <1>3
<1>6. ASSUME NEW k \in 1..m
      PROVE  x[k] = IF k = 1 THEN airings ELSE Rung(x[k - 1], k - 1, set, answer, t)
  <2>1. CASE k = m /\ k = 1
    <3> HIDE DEF x
    <3> QED BY <1>5, <2>1
  <2>2. CASE k = m /\ k # 1
    <3>1. m - 1 \in 1..(m - 1)
      BY <1>3, <2>2
    <3>2. x[m - 1] = g[m - 1]
      BY <1>5, <3>1
    <3> HIDE DEF x
    <3> QED BY <1>5, <2>2, <3>2
  <2>3. CASE k # m /\ k # 1
    <3>1. k \in 1..(m - 1) /\ k - 1 \in 1..(m - 1)
      BY <1>3, <2>3
    <3>2. g[k] = Rung(g[k - 1], k - 1, set, answer, t)
      BY <1>4, <2>3, <3>1 DEF Ladder
    <3> HIDE DEF x
    <3> QED BY <1>5, <2>3, <3>1, <3>2
  <2>4. CASE k # m /\ k = 1
    <3>1. 1 \in 1..(m - 1)
      BY <1>3, <2>4
    <3>2. g[1] = airings
      BY <1>4, <3>1 DEF Ladder
    <3> HIDE DEF x
    <3> QED BY <1>5, <2>4, <3>1, <3>2
  <2> QED BY <2>1, <2>2, <2>3, <2>4
<1>7. Ladder(x, set, answer, t, m)
  BY <1>6 DEF Ladder
<1> QED BY <1>1, <1>7

(* When a bulletin is judged, what is known of it is what was known before *)
(* the poll (decide: the oldest come first).                               *)
LEMMA JudgedByItsPast ==
  ASSUME NEW set, NEW answer, NEW t, DOMAIN airings = Bulletins, NEW b \in Bulletins
  PROVE  Judged(set, answer, t)[b][b] = airings[b]
<1> DEFINE N == Cardinality(Bulletins)
           g == CHOOSE x : Ladder(x, set, answer, t, N)
<1>0. N \in Nat /\ Bulletins = 1..N
  BY BulletinsAreNumbers
<1>1. \E x : Ladder(x, set, answer, t, N)
  BY <1>0, LaddersExist
<1>2. Ladder(g, set, answer, t, N)
  BY <1>1, Zenon
<1>3. Judged(set, answer, t)
        = CHOOSE x : x = [k \in Bulletins |-> IF k = 1 THEN airings
                            ELSE [x[k - 1] EXCEPT ![k - 1] = Remembered(k - 1, set, answer, x[k - 1], t)]]
  BY DEF Judged
<1>4. g = CHOOSE x : x = [k \in 1..N |-> IF k = 1 THEN airings
                            ELSE [x[k - 1] EXCEPT ![k - 1] = Remembered(k - 1, set, answer, x[k - 1], t)]]
  BY Zenon DEF Ladder, Rung
<1>5. Judged(set, answer, t) = g
  BY <1>0, <1>3, <1>4, Zenon
<1> HIDE DEF g, N
<1>6. \A k \in 1..N : g[k] = IF k = 1 THEN airings ELSE Rung(g[k - 1], k - 1, set, answer, t)
  BY <1>2 DEF Ladder
<1> DEFINE P(k) == DOMAIN g[k] = Bulletins /\ \A j \in k..N : g[k][j] = airings[j]
           S == {k \in 1..N : ~P(k)}
<1>7. S = {}
  <2> SUFFICES ASSUME S # {} PROVE FALSE
    OBVIOUS
  <2>1. PICK m \in S : \A k \in S : m <= k
    <3>1. S \in SUBSET Nat
      BY <1>0
    <3> HIDE DEF S
    <3> QED BY <3>1, LeastNumber
  <2>2. m \in 1..N /\ ~P(m)
    BY <2>1
  <2>3. CASE m = 1
    BY <1>0, <1>6, <2>2, <2>3
  <2>4. CASE m # 1
    <3>1. m - 1 \in 1..N /\ m - 1 \notin S
      BY <1>0, <2>1, <2>2, <2>4
    <3>2. P(m - 1)
      BY <3>1
    <3>3. g[m] = Rung(g[m - 1], m - 1, set, answer, t)
      BY <1>6, <2>2, <2>4
    <3>4. DOMAIN g[m] = Bulletins
      BY <3>2, <3>3 DEF Rung
    <3>5. ASSUME NEW j \in m..N PROVE g[m][j] = airings[j]
      <4>1. j \in (m - 1)..N /\ j \in Bulletins /\ j # m - 1
        BY <1>0, <2>2
      <4> QED BY <3>2, <3>3, <4>1 DEF Rung
    <3> QED BY <2>2, <3>4, <3>5
  <2> QED BY <2>3, <2>4
<1>8. b \in 1..N /\ b \in b..N
  BY <1>0
<1> QED BY <1>5, <1>7, <1>8

(* An alert is settled once it is remembered, or is over for good: also to *)
(* a poll that is out.                                                     *)
HasEnd(b) == Bulletin[b].until # 0
PollIsOut == loop.at \in {"looking", "asking", "answered"}
Settled(b) == \/ airings[b].known
              \/ Over(b, hour) /\ (PollIsOut => Over(b, loop.began))
Gone(b) == b \notin inForce /\ (loop.at = "answered" => b \notin loop.answer)
InHand == {sending} \cap Bulletins

AllIssued ==
  /\ issued \subseteq Bulletins /\ zoneRefused \subseteq UnknownZones
  /\ inForce \subseteq issued /\ old \subseteq issued /\ queue \subseteq issued
  /\ aired \subseteq issued /\ loop.answer \subseteq issued /\ InHand \subseteq issued
  /\ sending # 0 => loop.at = "sending"
  /\ loop.at = "sending" => sending \in Bulletins
  /\ PollIsOut => loop.began <= hour

(* A remembered alert is remembered for as long as it lasts.               *)
AiringsFit ==
  /\ DOMAIN airings = Bulletins
  /\ \A b \in Bulletins : HasEnd(b) /\ airings[b].known => airings[b].until = Bulletin[b].until

WhatWasSaidIsSettled == \A b \in queue \cup aired \cup InHand : HasEnd(b) => Settled(b)

NotSaidAgain == \A b \in queue \cup InHand : HasEnd(b) => b \notin aired \cup heardBefore

(* What was heard before a restart is not decided on before the first poll *)
(* that succeeds, and that poll settles it, or it is in force no more.     *)
HeardBeforeIsPast ==
  /\ ~baselined => decided = Nothing
  /\ \A b \in heardBefore :
       /\ AskedFor(b, wx) /\ b \in old
       /\ HasEnd(b) => ~baselined \/ Settled(b) \/ Gone(b)
  /\ loop.at = "answered" /\ loop.current => heardBefore \cap inForce \subseteq loop.answer

RepeatInv ==
  /\ AllIssued /\ AiringsFit /\ WhatWasSaidIsSettled /\ NotSaidAgain /\ HeardBeforeIsPast

(* A step that neither decides nor tells, and forgets nothing.             *)
LEMMA RepeatKept ==
  ASSUME WeatherInv, RepeatInv, hour' \in Nat, hour <= hour',
         UNCHANGED <<wx, airings, decided, baselined, aired, heardBefore, old>>,
         queue' \subseteq queue, zoneRefused' \subseteq UnknownZones,
         issued \subseteq issued', issued' \subseteq Bulletins,
         inForce' \subseteq issued', inForce' \cap issued \subseteq inForce,
         loop'.answer \subseteq issued',
         PollIsOut' => (PollIsOut /\ loop'.began = loop.began) \/ loop'.began = hour,
         InHand' \subseteq queue \cup InHand,
         sending' # 0 => loop'.at = "sending", loop'.at = "sending" => sending' \in Bulletins,
         loop'.at = "answered" =>
           \/ /\ loop.at = "answered" /\ loop'.answer = loop.answer
              /\ loop'.current = loop.current
           \/ /\ loop'.answer \subseteq inForce
              /\ loop'.current => heardBefore \cap inForce \subseteq loop'.answer
  PROVE  RepeatInv'
<1>0. AllIssued /\ AiringsFit /\ WhatWasSaidIsSettled /\ NotSaidAgain /\ HeardBeforeIsPast
  BY DEF RepeatInv
<1>1. hour \in Nat /\ loop.began \in Nat /\ \A b \in Bulletins : Bulletin[b].until \in Nat
  BY WeatherAssumption DEF WeatherInv, WeatherTypeOK
<1>2. ASSUME NEW b \in Bulletins, Settled(b) PROVE Settled(b)'
  BY <1>1, <1>2 DEF Settled, Over
<1>3. AllIssued'
  <2>1. InHand' \subseteq issued'
    BY <1>0 DEF AllIssued
  <2>2. PollIsOut' => loop'.began <= hour'
    BY <1>0, <1>1 DEF AllIssued
  <2> QED BY <1>0, <2>1, <2>2 DEF AllIssued
<1>4. AiringsFit'
  BY <1>0 DEF AiringsFit, HasEnd
<1>5. WhatWasSaidIsSettled'
  BY <1>0, <1>2 DEF WhatWasSaidIsSettled, AllIssued, HasEnd
<1>6. NotSaidAgain'
  BY <1>0 DEF NotSaidAgain, HasEnd
<1>7. HeardBeforeIsPast'
  <2>1. ~baselined' => decided' = Nothing
    BY <1>0 DEF HeardBeforeIsPast
  <2>2. ASSUME NEW b \in heardBefore'
        PROVE  AskedFor(b, wx)' /\ b \in old' /\ (HasEnd(b) => ~baselined' \/ Settled(b)' \/ Gone(b)')
    <3>1. /\ AskedFor(b, wx) /\ b \in old /\ b \in issued /\ b \in Bulletins
          /\ HasEnd(b) => ~baselined \/ Settled(b) \/ Gone(b)
      BY <1>0, <2>2 DEF HeardBeforeIsPast, AllIssued
    <3>2. Gone(b) => Gone(b)'
      BY <3>1 DEF Gone
    <3>3. AskedFor(b, wx)'
      BY <3>1 DEF AskedFor, Covers, Chosen
    <3> QED BY <1>2, <3>1, <3>2, <3>3
  <2>3. loop'.at = "answered" /\ loop'.current => heardBefore' \cap inForce' \subseteq loop'.answer
    BY <1>0 DEF HeardBeforeIsPast, AllIssued
  <2> QED BY <2>1, <2>2, <2>3 DEF HeardBeforeIsPast, HasEnd
<1> QED BY <1>3, <1>4, <1>5, <1>6, <1>7 DEF RepeatInv

(* A save or a start forgets what waits, and nothing that was heard.       *)
LEMMA RepeatApply ==
  ASSUME WeatherInv, RepeatInv, NEW set \in WxSettings, Apply(set),
         aired' \subseteq aired,
         \/ applied /\ TurnsOn(set) /\ aired' = {} /\ heardBefore' = {}
         \/ /\ ~(applied /\ TurnsOn(set))
            /\ heardBefore' \subseteq heardBefore /\ \A b \in heardBefore' : AskedFor(b, set)
  PROVE  RepeatInv'
<1>0. AllIssued /\ AiringsFit /\ WhatWasSaidIsSettled /\ NotSaidAgain /\ HeardBeforeIsPast
  BY DEF RepeatInv
<1>1. /\ hour \in Nat /\ loop.began \in Nat /\ loop.current \in BOOLEAN
      /\ loop \in [at : {"waiting", "looking", "asking", "answered", "flushing", "sending"},
              set : WxSettings \cup {{}}, current : BOOLEAN, began : Nat, answer : SUBSET Bulletins]
  BY DEF WeatherInv, WeatherTypeOK
<1>2. /\ wx' = set /\ Adopts(set) /\ UNCHANGED <<sending, issued, inForce, old, hour>>
      /\ zoneRefused' \subseteq zoneRefused
      /\ loop' = [loop EXCEPT !.current = loop.at \notin {"looking", "asking", "answered"}]
  BY DEF Apply, nws
<1>3. /\ loop'.at = loop.at /\ loop'.began = loop.began /\ loop'.answer = loop.answer
      /\ loop.at = "answered" => ~loop'.current
  BY <1>1, <1>2
<1>4. ASSUME NEW b \in Bulletins, Settled(b), airings'[b] = airings[b] PROVE Settled(b)'
  BY <1>2, <1>3, <1>4 DEF Settled, Over, PollIsOut
<1>5. queue' \subseteq queue
  BY <1>2 DEF Adopts, Forgets
<1>6. AllIssued'
  BY <1>0, <1>2, <1>3, <1>5 DEF AllIssued, InHand, PollIsOut
<1>7. /\ DOMAIN airings' = Bulletins
      /\ \A b \in Bulletins : airings'[b] = airings[b] \/ airings'[b] = NoAiring
  BY <1>0, <1>2 DEF Adopts, Forgets, Forgotten, OnlySending, AiringsFit
<1>8. AiringsFit'
  BY <1>0, <1>7 DEF AiringsFit, NoAiring, HasEnd
<1>9. \A b \in InHand : airings'[b] = airings[b]
  BY <1>2 DEF Adopts, Forgets, Forgotten, OnlySending, InHand
<1>10. /\ \A b \in Bulletins \ queue : airings'[b] = airings[b] \/ (applied /\ TurnsOn(set))
       /\ \A b \in queue' : airings'[b] = airings[b]
  BY <1>2 DEF Adopts, Forgets, Forgotten, OnlySending, InHand
<1>11. WhatWasSaidIsSettled'
  <2>1. ASSUME NEW b \in queue' \cup aired' \cup InHand', HasEnd(b) PROVE Settled(b)'
    <3>1. b \in Bulletins /\ b \in queue \cup aired \cup InHand /\ InHand' = InHand
      BY <1>0, <1>2, <1>5, <2>1 DEF AllIssued, InHand
    <3>2. Settled(b)
      BY <1>0, <2>1, <3>1 DEF WhatWasSaidIsSettled
    <3>3. airings'[b] = airings[b]
      <4>1. CASE b \in InHand
        BY <1>9, <4>1
      <4>2. CASE b \in queue'
        BY <1>10, <4>2
      <4>3. CASE b \in aired' /\ b \notin queue
        BY <1>10, <3>1, <4>3
      <4>4. CASE b \in aired' /\ b \in queue
        BY <1>0, <2>1, <4>4 DEF NotSaidAgain
      <4> QED BY <2>1, <3>1, <4>1, <4>2, <4>3, <4>4
    <3> QED BY <1>4, <3>1, <3>2, <3>3
  <2> QED BY <2>1 DEF WhatWasSaidIsSettled, HasEnd
<1>12. NotSaidAgain'
  <2>1. heardBefore' \subseteq heardBefore /\ InHand' = InHand
    BY <1>2 DEF InHand
  <2> QED BY <1>0, <1>5, <2>1 DEF NotSaidAgain, HasEnd
<1>13. HeardBeforeIsPast'
  <2>1. ~baselined' => decided' = Nothing
    BY <1>0, <1>2 DEF Adopts, Forgets, HeardBeforeIsPast
  <2>2. ASSUME NEW b \in heardBefore'
        PROVE  AskedFor(b, wx)' /\ b \in old' /\ (HasEnd(b) => ~baselined' \/ Settled(b)' \/ Gone(b)')
    <3>1. /\ b \in heardBefore /\ b \in old /\ b \in Bulletins
          /\ ~(applied /\ TurnsOn(set)) /\ AskedFor(b, set)
          /\ HasEnd(b) => ~baselined \/ Settled(b) \/ Gone(b)
      BY <1>0, <2>2 DEF HeardBeforeIsPast, AllIssued
    <3>2. AskedFor(b, wx)'
      BY <1>2, <3>1 DEF AskedFor, Covers, Chosen
    <3>3. baselined' = baselined \/ ~baselined'
      BY <1>2, <3>1 DEF Adopts
    <3>4. Gone(b) => Gone(b)'
      BY <1>2, <1>3 DEF Gone
    <3>5. HasEnd(b) => airings'[b] = airings[b]
      <4>1. HasEnd(b) /\ b \in queue => FALSE
        BY <1>0, <3>1 DEF NotSaidAgain
      <4> QED BY <1>10, <3>1, <4>1
    <3>6. HasEnd(b) /\ Settled(b) => Settled(b)'
      BY <1>4, <3>1, <3>5
    <3> QED BY <1>2, <3>1, <3>2, <3>3, <3>4, <3>6
  <2>3. loop'.at = "answered" /\ loop'.current => heardBefore' \cap inForce' \subseteq loop'.answer
    BY <1>3
  <2> QED BY <2>1, <2>2, <2>3 DEF HeardBeforeIsPast, HasEnd
<1> QED BY <1>6, <1>8, <1>11, <1>12, <1>13 DEF RepeatInv

(* What a poll does to what is remembered of one bulletin (decide).        *)
LEMMA RememberedFits ==
  ASSUME AiringsFit, NEW b \in Bulletins, HasEnd(b), NEW set, NEW answer, NEW sent, NEW t \in Nat
  PROVE  LET a == Remembered(b, set, answer, sent, t)
         IN  /\ a.known => a.until = Bulletin[b].until
             /\ airings[b].known => a.known
             /\ Undecided(b, answer) /\ Reason(b, set, sent, t) \in {"send", "baseline", "update"}
                  => a.known
             /\ ~(a.known /\ t - a.until > SentMemory /\ ~Over(b, t))
<1> DEFINE a == Remembered(b, set, answer, sent, t)
           r == Reason(b, set, sent, t)
<1>1. /\ Airing(b, r, sent, t).known
      /\ Airing(b, r, sent, t).until = Bulletin[b].until
  BY DEF Airing, HasEnd
<1>2. airings[b].known => airings[b].until = Bulletin[b].until
  BY DEF AiringsFit
<1>3. a.known => a.until = Bulletin[b].until
  BY <1>1, <1>2 DEF Remembered
<1>4. airings[b].known => a.known
  BY <1>1 DEF Remembered
<1>5. Undecided(b, answer) /\ r \in {"send", "baseline", "update"} => a.known
  BY <1>1 DEF Remembered
<1> HIDE DEF a, r
<1>6. SentMemory \in Nat /\ Bulletin[b].until \in Nat
  BY WeatherAssumption
<1>7. a.known /\ t - a.until > SentMemory => Over(b, t)
  BY <1>3, <1>6 DEF Over, HasEnd
<1> QED BY <1>3, <1>4, <1>5, <1>7 DEF a, r

LEMMA RepeatDecides ==
  ASSUME WeatherInv, RepeatInv, Decides
  PROVE  RepeatInv'
<1>0. AllIssued /\ AiringsFit /\ WhatWasSaidIsSettled /\ NotSaidAgain /\ HeardBeforeIsPast
  BY DEF RepeatInv
<1>1. hour \in Nat /\ loop.began \in Nat /\ wx \in WxSettings
  BY DEF WeatherInv, WeatherTypeOK
<1>2. /\ loop.at = "answered" /\ loop' = Flushing
      /\ UNCHANGED <<wx, zoneRefused, sending, issued, inForce, old, hour, aired, heardBefore>>
  BY DEF Decides, nws, history
<1>3. loop'.at = "flushing" /\ loop'.answer = {} /\ ~PollIsOut' /\ PollIsOut
  BY <1>2 DEF Flushing, Waiting, PollIsOut
<1>4. CASE ~loop.current
  <2>1. UNCHANGED <<airings, decided, queue, baselined>>
    BY <1>4 DEF Decides, Outdated
  <2> QED BY <1>0, <1>1, <1>2, <1>3, <2>1, RepeatKept DEF AllIssued, InHand
<1>5. CASE loop.current
  <2> DEFINE t == loop.began
             before == Judged(loop.set, loop.answer, t)
             reason(b) == Reason(b, loop.set, before[b], t)
             airing(b) == Remembered(b, loop.set, loop.answer, before[b], t)
  <2>1. /\ baselined' = TRUE
        /\ airings' = [b \in Bulletins |-> IF t - airing(b).until > SentMemory THEN NoAiring ELSE airing(b)]
        /\ queue' = {b \in loop.answer :
                       b \in queue \/ (Undecided(b, loop.answer) /\ reason(b) = "send" /\ loop.set.transmit)}
    BY <1>5 DEF Decides, Outdated
  <2>2. loop.set = wx /\ t <= hour /\ sending = 0
    BY <1>0, <1>2, <1>5 DEF WeatherInv, PollIsCurrent, AllIssued, PollIsOut
  <2>3. ASSUME NEW b \in Bulletins PROVE before[b][b] = airings[b]
    BY <1>0, JudgedByItsPast DEF AiringsFit
  <2> HIDE DEF before, t
  <2>4. ASSUME NEW b \in Bulletins, HasEnd(b)
        PROVE  /\ airing(b).known => airing(b).until = Bulletin[b].until
               /\ airings[b].known => airing(b).known
               /\ Undecided(b, loop.answer) /\ reason(b) \in {"send", "baseline", "update"} => airing(b).known
               /\ ~(airing(b).known /\ t - airing(b).until > SentMemory /\ ~Over(b, t))
    BY <1>0, <1>1, <2>4, RememberedFits DEF t
  <2>5. ASSUME NEW b \in Bulletins, reason(b) \in {"send", "update", "baseline"}
        PROVE  ~Over(b, t) /\ ~airings[b].known
    BY <2>3, <2>5 DEF Reason, Decide
  <2>t. t \in Nat
    BY <1>1 DEF t
  <2>6. ASSUME NEW b \in Bulletins, Over(b, t) PROVE Settled(b)'
    <3>1. Bulletin[b].until \in Nat
      BY WeatherAssumption
    <3> QED BY <1>1, <1>2, <1>3, <2>2, <2>6, <2>t, <3>1 DEF Settled, Over
  <2>7. ASSUME NEW b \in Bulletins, HasEnd(b), airing(b).known PROVE Settled(b)'
    <3>1. CASE Over(b, t)
      BY <2>6, <3>1
    <3>2. CASE ~Over(b, t)
      <4>1. airings'[b] = airing(b)
        BY <2>1, <2>4, <2>7, <3>2
      <4> QED BY <2>7, <4>1 DEF Settled
    <3> QED BY <3>1, <3>2
  <2>8. ASSUME NEW b \in Bulletins, HasEnd(b), Settled(b) PROVE Settled(b)'
    <3>1. CASE airings[b].known
      BY <2>4, <2>7, <2>8, <3>1
    <3>2. CASE ~airings[b].known
      <4>1. Over(b, t)
        BY <1>3, <2>8, <3>2 DEF Settled, t
      <4> QED BY <2>6, <4>1
    <3> QED BY <3>1, <3>2
  <2>9. AllIssued'
    BY <1>0, <1>2, <1>3, <2>1, <2>2 DEF AllIssued, InHand
  <2>10. AiringsFit'
    <3>1. ASSUME NEW b \in Bulletins, HasEnd(b), airings'[b].known
          PROVE  airings'[b].until = Bulletin[b].until
      <4>1. airings'[b] = airing(b)
        BY <2>1, <3>1 DEF NoAiring
      <4> QED BY <2>4, <3>1, <4>1
    <3>2. DOMAIN airings' = Bulletins
      BY <2>1
    <3> QED BY <3>1, <3>2 DEF AiringsFit, HasEnd
  <2>11. InHand' = {} /\ InHand = {}
    BY <1>2, <2>2, BulletinsAreNumbers DEF InHand
  <2>12. ASSUME NEW b \in queue', b \notin queue
         PROVE  b \in Bulletins /\ Undecided(b, loop.answer) /\ reason(b) = "send"
    BY <1>0, <2>1, <2>12 DEF AllIssued
  <2>13. WhatWasSaidIsSettled'
    <3>1. ASSUME NEW b \in queue' \cup aired, HasEnd(b) PROVE Settled(b)'
      <4>1. CASE b \in queue \cup aired
        BY <1>0, <2>8, <3>1, <4>1 DEF WhatWasSaidIsSettled, AllIssued
      <4>2. CASE b \notin queue \cup aired
        BY <2>4, <2>7, <2>12, <3>1, <4>2
      <4> QED BY <4>1, <4>2
    <3> QED BY <1>2, <2>11, <3>1 DEF WhatWasSaidIsSettled, HasEnd
  <2>14. ASSUME NEW b \in queue', b \notin queue, HasEnd(b), b \in aired \cup heardBefore PROVE FALSE
    <3>1. b \in Bulletins /\ b \in loop.answer /\ reason(b) = "send"
      BY <2>12, <2>14 DEF Undecided
    <3>2. ~Settled(b)
      BY <1>3, <2>5, <3>1 DEF Settled, t
    <3>3. b \notin aired
      BY <1>0, <2>14, <3>2 DEF WhatWasSaidIsSettled
    <3>4. ~Gone(b)
      BY <1>2, <3>1 DEF Gone
    <3>5. ~baselined /\ b \in old
      BY <1>0, <2>14, <3>2, <3>3, <3>4 DEF HeardBeforeIsPast
    <3> QED BY <3>1, <3>5 DEF Reason
  <2>15. NotSaidAgain'
    BY <1>0, <1>2, <2>11, <2>14 DEF NotSaidAgain, HasEnd
  <2>16. HeardBeforeIsPast'
    <3>1. ASSUME NEW b \in heardBefore
          PROVE  AskedFor(b, wx)' /\ b \in old' /\ (HasEnd(b) => ~baselined' \/ Settled(b)' \/ Gone(b)')
      <4>1. /\ AskedFor(b, wx) /\ b \in old /\ b \in Bulletins
            /\ HasEnd(b) => ~baselined \/ Settled(b) \/ Gone(b)
        BY <1>0, <3>1 DEF HeardBeforeIsPast, AllIssued
      <4>2. AskedFor(b, wx)' /\ b \in old'
        BY <1>2, <4>1 DEF AskedFor, Covers, Chosen
      <4>3. ASSUME HasEnd(b) PROVE Settled(b)' \/ Gone(b)'
        <5>1. CASE Settled(b)
          BY <2>8, <4>1, <4>3, <5>1
        <5>2. CASE b \notin inForce
          BY <1>2, <1>3, <5>2 DEF Gone
        <5>3. CASE ~Settled(b) /\ b \in inForce
          <6>1. ~baselined /\ decided = Nothing /\ b \in loop.answer
            BY <1>0, <1>2, <1>5, <3>1, <4>1, <4>3, <5>3 DEF HeardBeforeIsPast, Gone
          <6>2. Undecided(b, loop.answer)
            BY <4>1, <6>1 DEF Undecided, Nothing
          <6>3. CASE Over(b, t)
            BY <2>6, <4>1, <6>3
          <6>4. CASE ~Over(b, t)
            <7>1. ~airings[b].known /\ ~before[b][b].known
              BY <2>3, <4>1, <5>3 DEF Settled
            <7>2. Decide(b, loop.set, before[b], t) \in {"update", "send"}
              BY <2>2, <4>1, <6>4, <7>1 DEF Decide, AskedFor
            <7>3. reason(b) \in {"send", "update", "baseline"}
              BY <7>2 DEF Reason
            <7> QED BY <2>4, <2>7, <4>1, <4>3, <6>2, <7>3
          <6> QED BY <6>3, <6>4
        <5> QED BY <5>1, <5>2, <5>3
      <4> QED BY <4>2, <4>3
    <3> QED BY <1>2, <1>3, <2>1, <3>1 DEF HeardBeforeIsPast, HasEnd
  <2> QED BY <2>9, <2>10, <2>13, <2>15, <2>16 DEF RepeatInv
<1> QED BY <1>1, <1>4, <1>5

LEMMA RepeatStep == WeatherInv /\ RepeatInv /\ [Alerting]_weatherVars => RepeatInv'
<1> SUFFICES ASSUME WeatherInv, RepeatInv, [Alerting]_weatherVars PROVE RepeatInv'
  OBVIOUS
<1>0. AllIssued /\ AiringsFit /\ WhatWasSaidIsSettled /\ NotSaidAgain /\ HeardBeforeIsPast
  BY DEF RepeatInv
<1> DEFINE Loops == [at : {"waiting", "looking", "asking", "answered", "flushing", "sending"},
                     set : WxSettings \cup {{}}, current : BOOLEAN, began : Nat, answer : SUBSET Bulletins]
<1>1. /\ hour \in Nat /\ wx \in WxSettings /\ loop \in Loops
      /\ queue \subseteq Bulletins /\ inForce \subseteq Bulletins
  BY DEF WeatherInv, WeatherTypeOK
<1>w. /\ Waiting.at = "waiting" /\ Waiting.answer = {} /\ Flushing.at = "flushing" /\ Flushing.answer = {}
  BY DEF Waiting, Flushing
<1>i. 0 \notin Bulletins
  BY BulletinsAreNumbers
<1>2. CASE Starts
  <2>1. Apply(wx) /\ ~applied /\ aired' = aired /\ heardBefore' = heardBefore
    BY <1>2 DEF Starts
  <2>2. \A b \in heardBefore' : AskedFor(b, wx)
    BY <1>0, <2>1 DEF HeardBeforeIsPast
  <2> QED BY <1>1, <2>1, <2>2, RepeatApply
<1>3. ASSUME NEW set \in WxSettings, Saves(set) PROVE RepeatInv'
  BY <1>3, RepeatApply DEF Saves
(* The loop moves on by itself.                                            *)
<1>4. ASSUME UNCHANGED <<wx, airings, decided, baselined, aired, heardBefore, old, issued, inForce, hour, sending, queue>>,
             zoneRefused' \subseteq UnknownZones, loop.at # "sending", loop'.at # "sending",
             loop'.answer \subseteq issued,
             PollIsOut' => (PollIsOut /\ loop'.began = loop.began) \/ loop'.began = hour,
             loop'.at = "answered" => /\ loop'.answer \subseteq inForce
                                      /\ loop'.current => heardBefore \cap inForce \subseteq loop'.answer
      PROVE  RepeatInv'
  BY <1>0, <1>1, <1>4, RepeatKept DEF AllIssued, InHand
<1>5. CASE PollBegins
  <2>1. /\ loop'.at = "looking" /\ loop'.began = hour /\ loop'.answer = {} /\ loop.at = "waiting"
        /\ UNCHANGED <<wx, airings, decided, baselined, aired, heardBefore, old, issued, inForce, hour, sending, queue>>
        /\ zoneRefused' = zoneRefused
    BY <1>5 DEF PollBegins, memory, nws, history
  <2> QED BY <1>0, <1>4, <2>1 DEF AllIssued
<1>6. CASE LooksUp
  <2>1. /\ loop.at = "looking" /\ zoneRefused' \subseteq zoneRefused \cup UnknownZones
        /\ UNCHANGED <<wx, airings, decided, baselined, aired, heardBefore, old, issued, inForce, hour, sending, queue>>
    BY <1>6 DEF LooksUp, nws, history
  <2>2. loop' = Flushing \/ loop' = [loop EXCEPT !.at = "asking"]
    BY <1>6 DEF LooksUp
  <2>3. /\ loop'.at \in {"flushing", "asking"} /\ loop'.answer \subseteq issued
        /\ loop'.at = "asking" => loop'.began = loop.began
    BY <1>0, <1>1, <1>w, <2>2 DEF AllIssued
  <2> QED BY <1>0, <1>4, <2>1, <2>3 DEF AllIssued, PollIsOut
<1>7. CASE Answers
  <2> DEFINE got == {b \in inForce : Bulletin[b].zones \cap (loop.set.zones \ zoneRefused) # {}}
  <2>1. /\ loop' = [loop EXCEPT !.at = "answered", !.answer = got] /\ loop.at = "asking"
        /\ UNCHANGED <<wx, airings, decided, baselined, aired, heardBefore, old, issued, inForce, hour, sending, queue>>
        /\ zoneRefused' = zoneRefused
    BY <1>7 DEF Answers, memory, nws, history
  <2>2. got \subseteq inForce
    OBVIOUS
  <2>3. ASSUME loop.current, NEW b \in heardBefore \cap inForce PROVE b \in got
    <3>1. AskedFor(b, wx) /\ loop.set = wx /\ b \in Bulletins
      BY <1>0, <1>1, <2>1, <2>3 DEF HeardBeforeIsPast, WeatherInv, PollIsCurrent
    <3>2. Bulletin[b].zones \cap zoneRefused = {}
      BY <1>0, <3>1, WeatherAssumption DEF AllIssued
    <3> QED BY <2>3, <3>1, <3>2 DEF AskedFor, Covers
  <2> HIDE DEF got
  <2>4. loop'.at = "answered" /\ loop'.answer = got /\ loop'.began = loop.began /\ loop'.current = loop.current
    BY <1>1, <2>1
  <2>5. loop'.current => heardBefore \cap inForce \subseteq loop'.answer
    BY <2>3, <2>4
  <2> QED BY <1>0, <1>4, <2>1, <2>2, <2>4, <2>5 DEF AllIssued, PollIsOut
<1>8. CASE PollFails
  <2>1. /\ loop.at \in {"looking", "asking"} /\ loop' = Flushing
        /\ UNCHANGED <<wx, airings, decided, baselined, aired, heardBefore, old, issued, inForce, hour, sending, queue>>
        /\ zoneRefused' = zoneRefused
    BY <1>8 DEF PollFails, memory, nws, history
  <2> QED BY <1>0, <1>4, <1>w, <2>1 DEF AllIssued, PollIsOut
<1>9. CASE Decides
  BY <1>9, RepeatDecides
<1>10. CASE Flush
  <2> DEFINE kept == {b \in queue : ~Over(b, hour)}
  <2>1. /\ loop.at \in {"waiting", "flushing"} /\ queue' = kept
        /\ UNCHANGED <<wx, airings, decided, baselined, aired, heardBefore, old, issued, inForce, hour, zoneRefused>>
    BY <1>10 DEF Flush, nws, history
  <2>2. \/ loop' = Waiting /\ sending' = sending
        \/ /\ kept # {} /\ sending' = Foremost(kept)
           /\ loop' = [Waiting EXCEPT !.at = "sending", !.began = hour]
    BY <1>10 DEF Flush
  <2>3. kept \subseteq queue /\ kept \in SUBSET Bulletins
    BY <1>1
  <2> HIDE DEF kept
  <2>4. CASE loop' = Waiting /\ sending' = sending
    BY <1>0, <1>1, <1>w, <2>1, <2>3, <2>4, RepeatKept DEF AllIssued, PollIsOut, InHand
  <2>5. CASE /\ kept # {} /\ sending' = Foremost(kept)
             /\ loop' = [Waiting EXCEPT !.at = "sending", !.began = hour]
    <3>1. sending' \in kept
      BY <2>3, <2>5, ForemostWaits
    <3>2. loop'.at = "sending" /\ loop'.answer = {}
      BY <2>5 DEF Waiting
    <3> QED BY <1>0, <1>1, <2>1, <2>3, <3>1, <3>2, RepeatKept DEF AllIssued, PollIsOut, InHand
  <2> QED BY <2>2, <2>4, <2>5
<1>11. CASE Sent
  <2>1. /\ loop.at = "sending" /\ loop' = Waiting /\ sending' = 0 /\ queue' = queue \ {sending}
        /\ aired' = aired \cup {sending}
        /\ UNCHANGED <<wx, airings, decided, baselined, heardBefore, old, issued, inForce, hour, zoneRefused>>
    BY <1>11 DEF Sent, nws
  <2>2. sending \in Bulletins /\ InHand = {sending} /\ InHand' = {} /\ sending \in issued
    BY <1>0, <1>i, <2>1 DEF AllIssued, InHand
  <2>3. loop'.at = "waiting" /\ loop'.answer = {} /\ ~PollIsOut' /\ ~PollIsOut
    BY <1>w, <2>1 DEF PollIsOut
  <2>4. ASSUME NEW b \in Bulletins, Settled(b) PROVE Settled(b)'
    BY <2>1, <2>3, <2>4 DEF Settled, Over
  <2>5. AllIssued'
    BY <1>0, <2>1, <2>2, <2>3 DEF AllIssued
  <2>6. AiringsFit'
    BY <1>0, <2>1 DEF AiringsFit, HasEnd
  <2>7. WhatWasSaidIsSettled'
    BY <1>0, <2>1, <2>2, <2>4 DEF WhatWasSaidIsSettled, HasEnd, AllIssued
  <2>8. NotSaidAgain'
    BY <1>0, <2>1, <2>2 DEF NotSaidAgain, HasEnd
  <2>9. HeardBeforeIsPast'
    <3>1. ASSUME NEW b \in heardBefore
          PROVE  AskedFor(b, wx)' /\ b \in old' /\ (HasEnd(b) => ~baselined' \/ Settled(b)' \/ Gone(b)')
      <4>1. /\ AskedFor(b, wx) /\ b \in old /\ b \in Bulletins
            /\ HasEnd(b) => ~baselined \/ Settled(b) \/ Gone(b)
        BY <1>0, <3>1 DEF HeardBeforeIsPast, AllIssued
      <4>2. AskedFor(b, wx)' /\ (Gone(b) => Gone(b)')
        BY <2>1, <2>3, <4>1 DEF AskedFor, Covers, Chosen, Gone
      <4> QED BY <2>1, <2>4, <4>1, <4>2
    <3> QED BY <1>0, <2>1, <2>3, <3>1 DEF HeardBeforeIsPast, HasEnd
  <2> QED BY <2>5, <2>6, <2>7, <2>8, <2>9 DEF RepeatInv
<1>12. CASE SendRefused
  <2>1. /\ loop' = Waiting /\ sending' = 0 /\ zoneRefused' = zoneRefused
        /\ UNCHANGED <<wx, airings, decided, baselined, aired, heardBefore, old, issued, inForce, hour, queue>>
    BY <1>12 DEF SendRefused, memory, nws, history
  <2> QED BY <1>0, <1>1, <1>i, <1>w, <2>1, RepeatKept DEF AllIssued, PollIsOut, InHand
<1>13. ASSUME NEW b \in Bulletins, Issues(b) PROVE RepeatInv'
  <2>1. /\ b \notin issued /\ issued' = issued \cup {b} /\ inForce' \subseteq inForce \cup {b}
        /\ UNCHANGED <<wx, airings, decided, baselined, aired, heardBefore, old, hour, queue, loop, sending, zoneRefused>>
    BY <1>13 DEF Issues, memory, history
  <2> QED BY <1>0, <1>1, <2>1, RepeatKept DEF AllIssued, PollIsOut, InHand
<1>14. ASSUME NEW b \in Bulletins, Withdraws(b) PROVE RepeatInv'
  <2>1. /\ inForce' \subseteq inForce
        /\ UNCHANGED <<wx, airings, decided, baselined, aired, heardBefore, old, hour, queue, loop, sending, zoneRefused, issued>>
    BY <1>14 DEF Withdraws, memory, history
  <2> QED BY <1>0, <1>1, <2>1, RepeatKept DEF AllIssued, PollIsOut, InHand
<1>15. CASE HourPasses
  <2>1. /\ hour' = hour + 1
        /\ UNCHANGED <<wx, airings, decided, baselined, aired, heardBefore, old, queue, loop, sending, zoneRefused, issued, inForce>>
    BY <1>15 DEF HourPasses, memory, nws
  <2>2. hour' \in Nat /\ hour <= hour'
    BY <1>1, <2>1
  <2> QED BY <1>0, <2>1, <2>2, RepeatKept DEF AllIssued, PollIsOut, InHand
<1>16. CASE WeatherRestarts
  <2>1. /\ baselined' = FALSE /\ zoneRefused' = {} /\ decided' = Nothing /\ queue' = {} /\ sending' = 0
        /\ airings' = [b \in Bulletins |-> NoAiring] /\ loop' = Waiting /\ old' = issued /\ aired' = {}
        /\ heardBefore' = {b \in heardBefore \cup aired : AskedFor(b, wx)}
        /\ UNCHANGED <<wx, issued, inForce, hour>>
    BY <1>16 DEF WeatherRestarts, nws
  <2>2. AllIssued'
    BY <1>0, <1>i, <1>w, <2>1 DEF AllIssued, InHand, PollIsOut
  <2>3. AiringsFit'
    BY <2>1 DEF AiringsFit, NoAiring
  <2>4. InHand' = {}
    BY <1>i, <2>1 DEF InHand
  <2>5. WhatWasSaidIsSettled' /\ NotSaidAgain'
    BY <2>1, <2>4 DEF WhatWasSaidIsSettled, NotSaidAgain
  <2>6. ASSUME NEW b \in heardBefore' PROVE AskedFor(b, wx)' /\ b \in old'
    <3>1. AskedFor(b, wx) /\ b \in heardBefore \cup aired
      BY <2>1, <2>6
    <3>2. b \in issued
      BY <1>0, <3>1 DEF HeardBeforeIsPast, AllIssued
    <3> QED BY <2>1, <3>1, <3>2 DEF AskedFor, Covers, Chosen
  <2>7. HeardBeforeIsPast'
    BY <1>w, <2>1, <2>6 DEF HeardBeforeIsPast
  <2> QED BY <2>2, <2>3, <2>5, <2>7 DEF RepeatInv
<1>17. CASE UNCHANGED weatherVars
  BY <1>0, <1>1, <1>17, RepeatKept DEF AllIssued, PollIsOut, InHand, weatherVars
<1> QED BY <1>2, <1>3, <1>5, <1>6, <1>7, <1>8, <1>9, <1>10, <1>11, <1>12, <1>13, <1>14, <1>15, <1>16, <1>17
     DEF Alerting

(* No alert that has an end goes on the air twice, unless the operator     *)
(* turned alerts on in between: not when settings are saved while it is    *)
(* being sent, nor after a restart, nor because it was forgotten           *)
(* (service.go, Apply, decide and sentMemory); for any bulletins, settings *)
(* and pacing, any number of saves and restarts.                           *)
THEOREM AlertsAreNotRepeated == WeatherSpec => NotTwice
<1>1. WeatherInit => WeatherInv
  BY DEF WeatherInit, WeatherInv, WeatherTypeOK, PollIsCurrent, QueueIsAsked, Waiting
<1>2. WeatherInv /\ [Alerting]_weatherVars => WeatherInv'
  BY WeatherStep
<1>3. WeatherInit => RepeatInv
  BY BulletinsAreNumbers
     DEF WeatherInit, RepeatInv, AllIssued, AiringsFit, WhatWasSaidIsSettled, NotSaidAgain,
         HeardBeforeIsPast, Waiting, NoAiring, InHand, PollIsOut
<1>4. WeatherInv /\ RepeatInv /\ [Alerting]_weatherVars => RepeatInv'
  BY RepeatStep
<1>5. RepeatInv => [Sent /\ sending \in aired \cup heardBefore => Bulletin[sending].until = 0]_weatherVars
  <2> SUFFICES ASSUME RepeatInv, Sent, sending \in aired \cup heardBefore
               PROVE  Bulletin[sending].until = 0
    OBVIOUS
  <2>1. sending \in InHand
    BY DEF RepeatInv, AllIssued, Sent, InHand
  <2> QED BY <2>1 DEF RepeatInv, NotSaidAgain, HasEnd
<1> QED BY <1>1, <1>2, <1>3, <1>4, <1>5, PTL DEF WeatherSpec, NotTwice

(***************************************************************************)
(* Ipsc: what a repeater is heard to say                                   *)
(***************************************************************************)
IpscNext == HearsNext \/ SendsNext \/ EitherNext
IpscSpec == IpscInit /\ [][IpscNext]_ipscVars

Transmissions == Overs \cup {None, Alias}
Converters == [tx : Transmissions, seen : BOOLEAN, started : BOOLEAN, position : Nat,
               sentHeader : BOOLEAN, sequence : 0 .. SequenceModulus - 1]
InFrames == [kind : {"none", "header", "voice", "terminator"}, tx : Transmissions, pos : Nat, seq : Nat]

(* What the converter remembers of a transmission in progress, and the     *)
(* last frame it made: the next burst goes on from there.                  *)
GoesOnFrom(st, prev) ==
  /\ st \in Converters /\ prev \in InFrames
  /\ st.seen /\ st.started => st.sentHeader /\ prev.kind = "voice" /\ prev.pos = st.position
  /\ st.seen /\ st.sentHeader =>
       prev.kind \in {"header", "voice"} /\ prev.tx = st.tx /\ st.sequence = (prev.seq + 1) % SequenceModulus

LEMMA ModuloFacts ==
  ASSUME NEW M \in Nat \ {0}
  PROVE  /\ \A x \in 0 .. M - 1 : (x + 0) % M = x
         /\ \A x \in Nat : x % M \in 0 .. M - 1
         /\ \A x \in 0 .. M - 1 : (((x + 1) % M) + 1) % M = (x + 2) % M
<1>1. \A x \in 0 .. M - 1 : (x + 0) % M = x
  OBVIOUS
<1>2. \A x \in Nat : x % M \in 0 .. M - 1
  OBVIOUS
<1>3. ASSUME NEW x \in 0 .. M - 1 PROVE (((x + 1) % M) + 1) % M = (x + 2) % M
  <2>1. CASE x + 1 < M
    <3>1. (x + 1) % M = x + 1
      BY <1>1, <2>1
    <3> QED BY <3>1
  <2>2. CASE x + 1 = M
    <3>1. M % M = 0
      OBVIOUS
    <3>2. (M + 1) % M = 1 % M
      OBVIOUS
    <3> QED BY <2>2, <3>1, <3>2
  <2> QED BY <2>1, <2>2
<1> QED BY <1>1, <1>2, <1>3

(* One field of the converter set: it is a converter still, and the others *)
(* are as they were.                                                       *)
LEMMA SetTx ==
  ASSUME NEW st \in Converters, NEW v \in Transmissions, NEW u, u = [st EXCEPT !.tx = v]
  PROVE  /\ u \in Converters /\ u.tx = v
         /\ u.seen = st.seen /\ u.started = st.started /\ u.position = st.position /\ u.sentHeader = st.sentHeader /\ u.sequence = st.sequence
<1>1. u \in Converters
  BY DEF Converters
<1>2. u.tx = v /\ u.position = st.position /\ u.sequence = st.sequence
  BY DEF Converters
<1>3. u.seen = st.seen /\ u.started = st.started /\ u.sentHeader = st.sentHeader
  BY DEF Converters
<1> QED BY <1>1, <1>2, <1>3

LEMMA SetSeen ==
  ASSUME NEW st \in Converters, NEW v \in BOOLEAN, NEW u, u = [st EXCEPT !.seen = v]
  PROVE  /\ u \in Converters /\ u.seen = v
         /\ u.tx = st.tx /\ u.started = st.started /\ u.position = st.position /\ u.sentHeader = st.sentHeader /\ u.sequence = st.sequence
<1>1. u \in Converters
  BY DEF Converters
<1>2. u.tx = st.tx /\ u.position = st.position /\ u.sequence = st.sequence
  BY DEF Converters
<1>3. u.seen = v /\ u.started = st.started /\ u.sentHeader = st.sentHeader
  BY DEF Converters
<1> QED BY <1>1, <1>2, <1>3

LEMMA SetStarted ==
  ASSUME NEW st \in Converters, NEW v \in BOOLEAN, NEW u, u = [st EXCEPT !.started = v]
  PROVE  /\ u \in Converters /\ u.started = v
         /\ u.tx = st.tx /\ u.seen = st.seen /\ u.position = st.position /\ u.sentHeader = st.sentHeader /\ u.sequence = st.sequence
<1>1. u \in Converters
  BY DEF Converters
<1>2. u.tx = st.tx /\ u.position = st.position /\ u.sequence = st.sequence
  BY DEF Converters
<1>3. u.seen = st.seen /\ u.started = v /\ u.sentHeader = st.sentHeader
  BY DEF Converters
<1> QED BY <1>1, <1>2, <1>3

LEMMA SetPosition ==
  ASSUME NEW st \in Converters, NEW v \in Nat, NEW u, u = [st EXCEPT !.position = v]
  PROVE  /\ u \in Converters /\ u.position = v
         /\ u.tx = st.tx /\ u.seen = st.seen /\ u.started = st.started /\ u.sentHeader = st.sentHeader /\ u.sequence = st.sequence
<1>1. u \in Converters
  BY DEF Converters
<1>2. u.tx = st.tx /\ u.position = v /\ u.sequence = st.sequence
  BY DEF Converters
<1>3. u.seen = st.seen /\ u.started = st.started /\ u.sentHeader = st.sentHeader
  BY DEF Converters
<1> QED BY <1>1, <1>2, <1>3

LEMMA SetSentHeader ==
  ASSUME NEW st \in Converters, NEW v \in BOOLEAN, NEW u, u = [st EXCEPT !.sentHeader = v]
  PROVE  /\ u \in Converters /\ u.sentHeader = v
         /\ u.tx = st.tx /\ u.seen = st.seen /\ u.started = st.started /\ u.position = st.position /\ u.sequence = st.sequence
<1>1. u \in Converters
  BY DEF Converters
<1>2. u.tx = st.tx /\ u.position = st.position /\ u.sequence = st.sequence
  BY DEF Converters
<1>3. u.seen = st.seen /\ u.started = st.started /\ u.sentHeader = v
  BY DEF Converters
<1> QED BY <1>1, <1>2, <1>3

LEMMA SetSequence ==
  ASSUME NEW st \in Converters, NEW v \in 0 .. SequenceModulus - 1, NEW u, u = [st EXCEPT !.sequence = v]
  PROVE  /\ u \in Converters /\ u.sequence = v
         /\ u.tx = st.tx /\ u.seen = st.seen /\ u.started = st.started /\ u.position = st.position /\ u.sentHeader = st.sentHeader
<1>1. u \in Converters
  BY DEF Converters
<1>2. u.tx = st.tx /\ u.position = st.position /\ u.sequence = v
  BY DEF Converters
<1>3. u.seen = st.seen /\ u.started = st.started /\ u.sentHeader = st.sentHeader
  BY DEF Converters
<1> QED BY <1>1, <1>2, <1>3

LEMMA SlotIdleIs ==
  /\ SlotIdle \in Converters /\ ~SlotIdle.seen /\ ~SlotIdle.started /\ ~SlotIdle.sentHeader
  /\ \A tx \in Transmissions :
       LET b == [SlotIdle EXCEPT !.tx = tx, !.seen = TRUE] IN
         b \in Converters /\ b.seen /\ b.tx = tx /\ ~b.started /\ ~b.sentHeader
<1>1. SlotIdle \in Converters
  BY IpscAssumption DEF SlotIdle, Converters, Transmissions
<1>2. ~SlotIdle.seen /\ ~SlotIdle.started /\ ~SlotIdle.sentHeader
  BY DEF SlotIdle
<1>3. ASSUME NEW tx \in Transmissions
      PROVE  LET b == [SlotIdle EXCEPT !.tx = tx, !.seen = TRUE] IN
               b \in Converters /\ b.seen /\ b.tx = tx /\ ~b.started /\ ~b.sentHeader
  <2> DEFINE a == [SlotIdle EXCEPT !.tx = tx]
             b == [a EXCEPT !.seen = TRUE]
  <2>1. [SlotIdle EXCEPT !.tx = tx, !.seen = TRUE] = b
    BY <1>1 DEF Converters
  <2>2. a \in Converters /\ a.tx = tx /\ a.started = SlotIdle.started /\ a.sentHeader = SlotIdle.sentHeader
    BY <1>1, SetTx
  <2> HIDE DEF a
  <2>3. b \in Converters /\ b.seen = TRUE /\ b.tx = a.tx /\ b.started = a.started /\ b.sentHeader = a.sentHeader
    BY <2>2, SetSeen
  <2> HIDE DEF b
  <2> QED BY <1>2, <2>1, <2>2, <2>3
<1> QED BY <1>1, <1>2, <1>3

LEMMA BegunOK ==
  ASSUME NEW st, NEW prev, GoesOnFrom(st, prev), NEW tx \in Transmissions
  PROVE  GoesOnFrom(Begun(st, tx), prev) /\ Begun(st, tx).seen /\ Begun(st, tx).tx = tx
<1>1. CASE st.seen /\ st.tx = tx
  BY <1>1 DEF Begun
<1>2. CASE ~(st.seen /\ st.tx = tx)
  BY <1>2, SlotIdleIs DEF Begun, GoesOnFrom
<1> QED BY <1>1, <1>2

LEMMA PlacedOK ==
  ASSUME NEW b, NEW prev, GoesOnFrom(b, prev), b.seen, NEW class, NEW st, st = Placed(b, class)
  PROVE  /\ st \in Converters /\ st.seen /\ st.tx = b.tx /\ st.sentHeader = b.sentHeader /\ st.sequence = b.sequence
         /\ ~st.started => GoesOnFrom(st, prev)
         /\ st.started => /\ st.position = 0 \/ (prev.kind = "voice" /\ st.position = prev.pos + 1)
                          /\ ~st.sentHeader => st.position = 0
<1>0. b \in Converters
  BY DEF GoesOnFrom
<1>1. CASE class = "sync"
  <2> DEFINE a == [b EXCEPT !.started = TRUE]
  <2>1. st = [a EXCEPT !.position = 0]
    BY <1>0, <1>1 DEF Placed, Converters
  <2>2. /\ a \in Converters /\ a.started = TRUE /\ a.tx = b.tx /\ a.seen = b.seen
        /\ a.sentHeader = b.sentHeader /\ a.sequence = b.sequence
    BY <1>0, SetStarted
  <2> HIDE DEF a
  <2>3. a \in Converters /\ 0 \in Nat
    BY <2>2
  <2>4. /\ st \in Converters /\ st.started = a.started /\ st.tx = a.tx /\ st.seen = a.seen
        /\ st.sentHeader = a.sentHeader /\ st.sequence = a.sequence /\ st.position = 0
    BY <2>1, <2>3, SetPosition
  <2> QED BY <2>2, <2>4
<1>2. CASE class # "sync" /\ ~b.started
  BY <1>0, <1>2 DEF Placed
<1>3. CASE class # "sync" /\ b.started
  <2> DEFINE on == b.position + 1 < 6
             a == [b EXCEPT !.started = on]
  <2>0. b.position + 1 \in Nat /\ on \in BOOLEAN
    BY <1>0 DEF Converters
  <2>1. st = [b EXCEPT !.position = b.position + 1, !.started = on]
    BY <1>3 DEF Placed
  <2> HIDE DEF on
  <2>2. st = [a EXCEPT !.position = b.position + 1]
    BY <1>0, <2>1 DEF Converters
  <2>3. /\ a \in Converters /\ a.started = on /\ a.tx = b.tx /\ a.seen = b.seen
        /\ a.sentHeader = b.sentHeader /\ a.sequence = b.sequence
    BY <1>0, <2>0, SetStarted
  <2> HIDE DEF a
  <2>4. /\ st \in Converters /\ st.started = a.started /\ st.tx = a.tx /\ st.seen = a.seen
        /\ st.sentHeader = a.sentHeader /\ st.sequence = a.sequence /\ st.position = b.position + 1
    <3> DEFINE v == b.position + 1
    <3>1. a \in Converters /\ v \in Nat /\ st = [a EXCEPT !.position = v]
      BY <2>0, <2>2, <2>3
    <3> HIDE DEF v
    <3>2. /\ st \in Converters /\ st.started = a.started /\ st.tx = a.tx /\ st.seen = a.seen
          /\ st.sentHeader = a.sentHeader /\ st.sequence = a.sequence /\ st.position = v
      BY <3>1, SetPosition
    <3> QED BY <3>2 DEF v
  <2>6. b.sentHeader /\ prev.kind = "voice" /\ prev.pos = b.position
    BY <1>3 DEF GoesOnFrom
  <2>7. ~st.started => GoesOnFrom(st, prev)
    BY <2>3, <2>4, <2>6 DEF GoesOnFrom
  <2> QED BY <2>3, <2>4, <2>6, <2>7
<1> QED BY <1>1, <1>2, <1>3

LEMMA FrameIs ==
  ASSUME NEW st \in Converters, NEW kind \in {"header", "voice", "terminator"}, NEW n \in {0, 1}
  PROVE  /\ Frame(kind, st, n) \in InFrames /\ Frame(kind, st, n).kind = kind
         /\ Frame(kind, st, n).tx = st.tx /\ Frame(kind, st, n).pos = st.position
         /\ Frame(kind, st, n).seq = IF n = 0 THEN st.sequence ELSE (st.sequence + 1) % SequenceModulus
<1>1. st.sequence \in 0 .. SequenceModulus - 1 /\ st.position \in Nat /\ st.tx \in Transmissions
  BY DEF Converters
<1>2. Numbered(st, n) = IF n = 0 THEN st.sequence ELSE (st.sequence + 1) % SequenceModulus
  BY <1>1, ModuloFacts, IpscAssumption DEF Numbered
<1>3. (st.sequence + 1) % SequenceModulus \in Nat
  <2>1. st.sequence + 1 \in Nat
    BY <1>1
  <2> QED BY <2>1, ModuloFacts, IpscAssumption
<1>4. Numbered(st, n) \in Nat
  BY <1>1, <1>2, <1>3
<1> QED BY <1>1, <1>2, <1>4 DEF Frame, InFrames

LEMMA EndsOK ==
  ASSUME NEW st \in Converters, NEW prev \in InFrames, prev.kind \in {"header", "voice"}, prev.tx = st.tx,
         st.sequence = (prev.seq + 1) % SequenceModulus, NEW f, f = Frame("terminator", st, 0)
  PROVE  /\ Ends(st)[2] = <<f>> /\ Follows(prev, f) /\ f.tx = st.tx
         /\ GoesOnFrom(Ends(st)[1], f) /\ Ends(st)[1].tx = st.tx
<1>1. /\ f \in InFrames /\ f.kind = "terminator" /\ f.tx = st.tx /\ f.seq = st.sequence
  BY FrameIs
<1>2. Follows(prev, f)
  BY <1>1 DEF Follows
<1> DEFINE n == Numbered(st, 1)
           e == [st EXCEPT !.started = FALSE, !.seen = FALSE, !.sequence = n]
           a == [st EXCEPT !.started = FALSE]
           b == [a EXCEPT !.seen = FALSE]
<1>3. Ends(st)[2] = <<f>> /\ Ends(st)[1] = e
  BY DEF Ends
<1>4. n \in 0 .. SequenceModulus - 1
  <2>1. st.sequence + 1 \in Nat
    BY DEF Converters
  <2> QED BY <2>1, ModuloFacts, IpscAssumption DEF Numbered
<1> HIDE DEF n
<1>5. e = [b EXCEPT !.sequence = n]
  BY DEF Converters
<1> HIDE DEF e
<1>6. a \in Converters /\ a.tx = st.tx
  BY SetStarted
<1> HIDE DEF a
<1>7. b \in Converters /\ b.tx = a.tx /\ b.seen = FALSE
  BY <1>6, SetSeen
<1> HIDE DEF b
<1>8. e \in Converters /\ e.tx = st.tx /\ ~e.seen
  BY <1>4, <1>5, <1>6, <1>7, SetSequence
<1>9. GoesOnFrom(e, f)
  BY <1>1, <1>8 DEF GoesOnFrom
<1> QED BY <1>1, <1>2, <1>3, <1>8, <1>9


(* What Convert gives, r, is whole: its frames follow the last one there   *)
(* was, they are of the transmission tx, and the converter goes on from    *)
(* the last of them.                                                       *)
MadeWhole(prev, r, tx) ==
  /\ Chained(prev, r[2]) /\ GoesOnFrom(r[1], LastOf(prev, r[2])) /\ r[1].tx = tx
  /\ \A i \in 1 .. Len(r[2]) : r[2][i].tx = tx

LEMMA MadeNothing ==
  ASSUME NEW st, NEW prev, GoesOnFrom(st, prev)
  PROVE  MadeWhole(prev, <<st, <<>>>>, st.tx)
BY DEF MadeWhole, Chained, LastOf

LEMMA MadeOne ==
  ASSUME NEW st, NEW prev, NEW f, GoesOnFrom(st, f), Follows(prev, f), f.tx = st.tx
  PROVE  MadeWhole(prev, <<st, <<f>>>>, st.tx)
<1> DEFINE out == <<f>>
<1>1. Len(out) = 1 /\ out[1] = f /\ out # <<>>
  OBVIOUS
<1>2. <<st, <<f>>>>[1] = st /\ <<st, <<f>>>>[2] = out
  OBVIOUS
<1> HIDE DEF out
<1> QED BY <1>1, <1>2 DEF MadeWhole, Chained, LastOf

LEMMA MadeTwo ==
  ASSUME NEW st, NEW prev, NEW f, NEW g, GoesOnFrom(st, g), Follows(prev, f), Follows(f, g),
         f.tx = st.tx, g.tx = st.tx
  PROVE  MadeWhole(prev, <<st, <<f, g>>>>, st.tx)
<1> DEFINE out == <<f, g>>
<1>1. Len(out) = 2 /\ out[1] = f /\ out[2] = g /\ out # <<>>
  OBVIOUS
<1>2. <<st, <<f, g>>>>[1] = st /\ <<st, <<f, g>>>>[2] = out
  OBVIOUS
<1> HIDE DEF out
<1>3. \A i \in 1 .. Len(out) : i = 1 \/ (i = 2 /\ i # 1 /\ i - 1 = 1)
  BY <1>1
<1>4. Chained(prev, out)
  BY <1>1, <1>3 DEF Chained
<1>5. \A i \in 1 .. Len(out) : out[i].tx = st.tx
  BY <1>1, <1>3
<1>6. LastOf(prev, out) = g
  BY <1>1 DEF LastOf
<1> QED BY <1>2, <1>4, <1>5, <1>6 DEF MadeWhole

LEMMA MadeThree ==
  ASSUME NEW st, NEW prev, NEW f, NEW g, NEW h, GoesOnFrom(st, h), Follows(prev, f), Follows(f, g), Follows(g, h),
         f.tx = st.tx, g.tx = st.tx, h.tx = st.tx
  PROVE  MadeWhole(prev, <<st, <<f, g, h>>>>, st.tx)
<1> DEFINE out == <<f, g, h>>
<1>1. Len(out) = 3 /\ out[1] = f /\ out[2] = g /\ out[3] = h /\ out # <<>>
  OBVIOUS
<1>2. <<st, <<f, g, h>>>>[1] = st /\ <<st, <<f, g, h>>>>[2] = out
  OBVIOUS
<1> HIDE DEF out
<1>3. \A i \in 1 .. Len(out) : i = 1 \/ (i = 2 /\ i # 1 /\ i - 1 = 1) \/ (i = 3 /\ i # 1 /\ i - 1 = 2)
  BY <1>1
<1>4. Chained(prev, out)
  BY <1>1, <1>3 DEF Chained
<1>5. \A i \in 1 .. Len(out) : out[i].tx = st.tx
  BY <1>1, <1>3
<1>6. LastOf(prev, out) = h
  BY <1>1 DEF LastOf
<1> QED BY <1>2, <1>4, <1>5, <1>6 DEF MadeWhole

LEMMA SequenceMoves ==
  ASSUME NEW st \in Converters, NEW n \in Nat
  PROVE  \E v \in Converters :
           /\ v = [st EXCEPT !.sequence = Numbered(st, n)] /\ v.sequence = Numbered(st, n)
           /\ v.tx = st.tx /\ v.seen = st.seen
           /\ v.started = st.started /\ v.position = st.position /\ v.sentHeader = st.sentHeader
<1>1. st.sequence + n \in Nat
  BY DEF Converters
<1>2. PICK q \in 0 .. SequenceModulus - 1 : q = Numbered(st, n)
  BY <1>1, ModuloFacts, IpscAssumption DEF Numbered
<1> DEFINE v == [st EXCEPT !.sequence = q]
<1>3. /\ v \in Converters /\ v.sequence = q /\ v.tx = st.tx /\ v.seen = st.seen
      /\ v.started = st.started /\ v.position = st.position /\ v.sentHeader = st.sentHeader
  BY SetSequence
<1>4. v = [st EXCEPT !.sequence = Numbered(st, n)]
  BY <1>2
<1> HIDE DEF v
<1> QED BY <1>2, <1>3, <1>4

(* The burst of a placed slot: after the header if none has gone out.      *)
LEMMA VoiceOK ==
  ASSUME NEW st \in Converters, NEW prev \in InFrames, st.seen, st.started,
         st.sentHeader => /\ prev.kind \in {"header", "voice"} /\ prev.tx = st.tx
                          /\ st.sequence = (prev.seq + 1) % SequenceModulus,
         st.position = 0 \/ (prev.kind = "voice" /\ st.position = prev.pos + 1),
         ~st.sentHeader => st.position = 0
  PROVE  \E v \in Converters, f \in InFrames :
           /\ v.seen /\ v.tx = st.tx /\ f.kind = "voice" /\ f.tx = st.tx
           /\ v.sequence = (f.seq + 1) % SequenceModulus /\ GoesOnFrom(v, f)
           /\ \/ VoiceFrames(st) = <<v, <<f>>>> /\ Follows(prev, f)
              \/ \E h \in InFrames : /\ VoiceFrames(st) = <<v, <<h, f>>>> /\ h.tx = st.tx
                                     /\ Follows(prev, h) /\ Follows(h, f)
<1>0. st.sequence \in 0 .. SequenceModulus - 1 /\ st.sequence + 1 \in Nat /\ st.sequence + 2 \in Nat
  BY DEF Converters
<1>n. Numbered(st, 1) \in 0 .. SequenceModulus - 1 /\ Numbered(st, 2) \in 0 .. SequenceModulus - 1
  BY <1>0, ModuloFacts, IpscAssumption DEF Numbered
<1>1. CASE st.sentHeader
  <2>v. PICK v \in Converters :
          /\ v = [st EXCEPT !.sequence = Numbered(st, 1)] /\ v.sequence = Numbered(st, 1)
          /\ v.tx = st.tx /\ v.seen = st.seen
          /\ v.started = st.started /\ v.position = st.position /\ v.sentHeader = st.sentHeader
    BY SequenceMoves
  <2> DEFINE f == Frame("voice", st, 0)
  <2>1. VoiceFrames(st) = <<v, <<f>>>>
    BY <1>1, <2>v DEF VoiceFrames
  <2>2. /\ v \in Converters /\ v.sequence = Numbered(st, 1) /\ v.tx = st.tx /\ v.seen = st.seen
        /\ v.started = st.started /\ v.position = st.position /\ v.sentHeader = st.sentHeader
    BY <2>v
  <2>3. /\ f \in InFrames /\ f.kind = "voice" /\ f.tx = st.tx /\ f.pos = st.position /\ f.seq = st.sequence
    BY FrameIs
  <2> HIDE DEF f
  <2>4. v.sequence = (f.seq + 1) % SequenceModulus
    BY <2>2, <2>3 DEF Numbered
  <2>5. GoesOnFrom(v, f)
    BY <1>1, <2>2, <2>3, <2>4 DEF GoesOnFrom
  <2>6. Follows(prev, f)
    BY <1>1, <2>3 DEF Follows
  <2> QED BY <2>1, <2>2, <2>3, <2>4, <2>5, <2>6
<1>2. CASE ~st.sentHeader
  <2>n. PICK n \in 0 .. SequenceModulus - 1 : n = Numbered(st, 2)
    BY <1>n
  <2> DEFINE a == [st EXCEPT !.sentHeader = TRUE]
             v == [a EXCEPT !.sequence = n]
             h == Frame("header", st, 0)
             f == Frame("voice", st, 1)
  <2>0. [st EXCEPT !.sentHeader = TRUE, !.sequence = Numbered(st, 2)] = v
    BY <2>n DEF Converters
  <2>1. VoiceFrames(st) = <<v, <<h, f>>>>
    BY <1>2, <2>0 DEF VoiceFrames
  <2>2. /\ a \in Converters /\ a.sentHeader = TRUE /\ a.tx = st.tx /\ a.seen = st.seen
        /\ a.started = st.started /\ a.position = st.position
    BY SetSentHeader
  <2> HIDE DEF a
  <2>3. /\ v \in Converters /\ v.sequence = n /\ v.tx = a.tx /\ v.seen = a.seen
        /\ v.started = a.started /\ v.position = a.position /\ v.sentHeader = a.sentHeader
    BY <2>2, SetSequence
  <2>4. /\ h \in InFrames /\ h.kind = "header" /\ h.tx = st.tx /\ h.seq = st.sequence
    BY FrameIs
  <2>5. /\ f \in InFrames /\ f.kind = "voice" /\ f.tx = st.tx /\ f.pos = st.position
        /\ f.seq = (st.sequence + 1) % SequenceModulus
    BY FrameIs
  <2> HIDE DEF v, h, f
  <2>6. v.sequence = (f.seq + 1) % SequenceModulus
    BY <1>0, <2>n, <2>3, <2>5, ModuloFacts, IpscAssumption DEF Numbered
  <2>7. GoesOnFrom(v, f)
    BY <2>2, <2>3, <2>5, <2>6 DEF GoesOnFrom
  <2>8. Follows(prev, h) /\ Follows(h, f)
    BY <1>2, <2>4, <2>5 DEF Follows
  <2> QED BY <2>1, <2>2, <2>3, <2>4, <2>5, <2>6, <2>7, <2>8
<1> QED BY <1>1, <1>2


LEMMA Joined == \A f, g, h : <<f>> \o <<g>> = <<f, g>> /\ <<h, f>> \o <<g>> = <<h, f, g>>
<1> SUFFICES ASSUME NEW f, NEW g, NEW h PROVE <<f>> \o <<g>> = <<f, g>> /\ <<h, f>> \o <<g>> = <<h, f, g>>
  OBVIOUS
<1> DEFINE S == {f, g, h}
           a == <<f>> \o <<g>>
           b == <<h, f>> \o <<g>>
<1>1. <<f>> \in Seq(S) /\ <<g>> \in Seq(S) /\ <<h, f>> \in Seq(S) /\ <<f, g>> \in Seq(S) /\ <<h, f, g>> \in Seq(S)
  OBVIOUS
<1>2. a = <<f, g>>
  <2>1. a \in Seq(S) /\ Len(a) = 2 /\ a[1] = f /\ a[2] = g
    BY <1>1, ConcatProperties
  <2> HIDE DEF a, S
  <2>2. \A i \in 1 .. Len(a) : a[i] = <<f, g>>[i]
    BY <2>1
  <2> QED BY <1>1, <2>1, <2>2, SeqEqual
<1>3. b = <<h, f, g>>
  <2>1. b \in Seq(S) /\ Len(b) = 3 /\ b[1] = h /\ b[2] = f /\ b[3] = g
    BY <1>1, ConcatProperties
  <2> HIDE DEF b, S
  <2>2. \A i \in 1 .. Len(b) : b[i] = <<h, f, g>>[i]
    BY <2>1
  <2> QED BY <1>1, <2>1, <2>2, SeqEqual
<1> QED BY <1>2, <1>3

LEMMA ConvertOK ==
  ASSUME NEW before, NEW prev, GoesOnFrom(before, prev), NEW m, m.tx \in Transmissions,
         NEW r, r = Convert(before, m)
  PROVE  MadeWhole(prev, r, Resolve(before, m)) /\ (~IsLastFrame(m) => r[1].seen)
<1> DEFINE tx == Resolve(before, m)
           b == Begun(before, tx)
           st == Placed(b, m.class)
<1>1. tx \in Transmissions
  BY DEF Resolve, GoesOnFrom, Converters
<1> HIDE DEF tx
<1>2. GoesOnFrom(b, prev) /\ b.seen /\ b.tx = tx
  BY <1>1, BegunOK
<1>c. r = CASE ~HasPayload(m) ->
                 IF IsLastFrame(m) /\ b.sentHeader THEN Ends(b) ELSE <<b, <<>>>>
            [] HasPayload(m) /\ ~st.started ->
                 IF IsLastFrame(m) /\ st.sentHeader THEN Ends(st) ELSE <<st, <<>>>>
            [] OTHER ->
                 LET v == VoiceFrames(st) IN
                 IF IsLastFrame(m) THEN <<Ends(v[1])[1], v[2] \o Ends(v[1])[2]>> ELSE v
  BY DEF Convert, tx
<1> HIDE DEF b
<1>3. /\ st \in Converters /\ st.seen /\ st.tx = b.tx /\ st.sentHeader = b.sentHeader /\ st.sequence = b.sequence
      /\ ~st.started => GoesOnFrom(st, prev)
      /\ st.started => /\ st.position = 0 \/ (prev.kind = "voice" /\ st.position = prev.pos + 1)
                       /\ ~st.sentHeader => st.position = 0
  BY <1>2, PlacedOK
<1> HIDE DEF st
<1>e. ASSUME NEW s, GoesOnFrom(s, prev), s.seen, s.tx = tx, r = IF IsLastFrame(m) /\ s.sentHeader THEN Ends(s) ELSE <<s, <<>>>>
      PROVE  MadeWhole(prev, r, tx) /\ (~IsLastFrame(m) => r[1].seen)
  <2>1. CASE IsLastFrame(m) /\ s.sentHeader
    <3> DEFINE f == Frame("terminator", s, 0)
    <3>1. /\ s \in Converters /\ prev \in InFrames /\ prev.kind \in {"header", "voice"} /\ prev.tx = s.tx
          /\ s.sequence = (prev.seq + 1) % SequenceModulus
      BY <1>e, <2>1 DEF GoesOnFrom
    <3>2. /\ Ends(s)[2] = <<f>> /\ Follows(prev, f) /\ f.tx = s.tx
          /\ GoesOnFrom(Ends(s)[1], f) /\ Ends(s)[1].tx = s.tx
      BY <3>1, EndsOK
    <3>3. r = Ends(s) /\ Ends(s) = <<Ends(s)[1], Ends(s)[2]>>
      BY <1>e, <2>1 DEF Ends
    <3> HIDE DEF f
    <3>4. MadeWhole(prev, <<Ends(s)[1], <<f>>>>, Ends(s)[1].tx)
      BY <3>2, MadeOne
    <3> QED BY <1>e, <2>1, <3>2, <3>3, <3>4
  <2>2. CASE ~(IsLastFrame(m) /\ s.sentHeader)
    <3>1. r = <<s, <<>>>> /\ r[1] = s
      BY <1>e, <2>2
    <3> QED BY <1>e, <3>1, MadeNothing
  <2> QED BY <2>1, <2>2
<1>4. CASE ~HasPayload(m)
  <2>1. r = IF IsLastFrame(m) /\ b.sentHeader THEN Ends(b) ELSE <<b, <<>>>>
    BY <1>c, <1>4
  <2> QED BY <1>2, <1>e, <2>1 DEF tx
<1>5. CASE HasPayload(m) /\ ~st.started
  <2>1. r = IF IsLastFrame(m) /\ st.sentHeader THEN Ends(st) ELSE <<st, <<>>>>
    BY <1>c, <1>5
  <2> QED BY <1>2, <1>3, <1>5, <1>e, <2>1 DEF tx
<1>6. CASE HasPayload(m) /\ st.started
  <2> DEFINE v == VoiceFrames(st)
  <2>1. r = IF IsLastFrame(m) THEN <<Ends(v[1])[1], v[2] \o Ends(v[1])[2]>> ELSE v
    BY <1>c, <1>6
  <2>2. prev \in InFrames
    BY <1>2 DEF GoesOnFrom
  <2>3. st.sentHeader => /\ prev.kind \in {"header", "voice"} /\ prev.tx = st.tx
                         /\ st.sequence = (prev.seq + 1) % SequenceModulus
    BY <1>2, <1>3 DEF GoesOnFrom
  <2>4. PICK w \in Converters, f \in InFrames :
           /\ w.seen /\ w.tx = st.tx /\ f.kind = "voice" /\ f.tx = st.tx
           /\ w.sequence = (f.seq + 1) % SequenceModulus /\ GoesOnFrom(w, f)
           /\ \/ v = <<w, <<f>>>> /\ Follows(prev, f)
              \/ \E h \in InFrames : /\ v = <<w, <<h, f>>>> /\ h.tx = st.tx
                                     /\ Follows(prev, h) /\ Follows(h, f)
    BY <1>3, <1>6, <2>2, <2>3, VoiceOK
  <2> HIDE DEF v
  <2>w. v[1] = w /\ w.tx = tx
    BY <1>2, <1>3, <2>4
  <2>5. CASE ~IsLastFrame(m)
    <3>1. r = v
      BY <2>1, <2>5
    <3>2. CASE v = <<w, <<f>>>> /\ Follows(prev, f)
      BY <2>4, <2>w, <3>1, <3>2, MadeOne DEF tx
    <3>3. CASE \E h \in InFrames : /\ v = <<w, <<h, f>>>> /\ h.tx = st.tx
                                   /\ Follows(prev, h) /\ Follows(h, f)
      BY <2>4, <2>w, <3>1, <3>3, MadeTwo DEF tx
    <3> QED BY <2>4, <3>2, <3>3
  <2>6. CASE IsLastFrame(m)
    <3> DEFINE g == Frame("terminator", w, 0)
               e == Ends(w)
    <3>1. /\ e[2] = <<g>> /\ Follows(f, g) /\ g.tx = w.tx /\ GoesOnFrom(e[1], g) /\ e[1].tx = w.tx
      BY <2>4, EndsOK
    <3>2. r = <<e[1], v[2] \o e[2]>>
      BY <2>1, <2>6, <2>w
    <3> HIDE DEF g, e
    <3>3. CASE v = <<w, <<f>>>> /\ Follows(prev, f)
      <4>1. v[2] \o e[2] = <<f, g>>
        <5>1. v[2] = <<f>> /\ e[2] = <<g>>
          BY <3>1, <3>3
        <5> QED BY <5>1, Joined
      <4>2. MadeWhole(prev, <<e[1], <<f, g>>>>, e[1].tx)
        BY <2>4, <3>1, <3>3, MadeTwo
      <4> QED BY <2>6, <2>w, <3>1, <3>2, <4>1, <4>2 DEF tx
    <3>4. CASE \E h \in InFrames : /\ v = <<w, <<h, f>>>> /\ h.tx = st.tx
                                   /\ Follows(prev, h) /\ Follows(h, f)
      <4>0. PICK h \in InFrames : /\ v = <<w, <<h, f>>>> /\ h.tx = st.tx
                                  /\ Follows(prev, h) /\ Follows(h, f)
        BY <3>4
      <4>1. v[2] \o e[2] = <<h, f, g>>
        <5>1. v[2] = <<h, f>> /\ e[2] = <<g>>
          BY <3>1, <4>0
        <5> QED BY <5>1, Joined
      <4>2. MadeWhole(prev, <<e[1], <<h, f, g>>>>, e[1].tx)
        BY <2>4, <3>1, <4>0, MadeThree
      <4> QED BY <2>6, <2>w, <3>1, <3>2, <4>1, <4>2 DEF tx
    <3> QED BY <2>4, <3>3, <3>4
  <2> QED BY <2>5, <2>6
<1> QED BY <1>4, <1>5, <1>6


AirSlots == [tx : Overs \cup {None}, fresh : BOOLEAN, told : BOOLEAN]

(* Towards the DMR side.  A transmission whose header has been heard is    *)
(* the one the converter has in hand.                                      *)
HearingInv ==
  /\ conv \in [Slots -> Converters] /\ lastIn \in [Slots -> InFrames] /\ air \in [Slots -> AirSlots]
  /\ \A s \in Slots : GoesOnFrom(conv[s], lastIn[s])
  /\ \A s \in Slots : air[s].told /\ air[s].tx # None => conv[s].seen /\ conv[s].tx = air[s].tx
  /\ ~broken

LEMMA HearStep == ASSUME HearingInv, NEW slot \in Slots, Hear(slot) PROVE HearingInv'
<1> USE DEF HearingInv
<1> DEFINE a == air[slot]
           st == conv[slot]
           prev == lastIn[slot]
<1>1. PICK m \in MessagesOf(slot, air[slot].tx) \cup
              {Message(slot, Alias, "middle", "voice", c) : c \in {"sync", "fragment"}} :
        /\ HearVoice(timeslotFor(m.bit), m, air[slot].told \/ isHeader(m))
        /\ air' = [air EXCEPT ![slot] =
                     [tx |-> IF IsLastFrame(m) THEN None ELSE @.tx,
                      fresh |-> isHeader(m), told |-> @.told \/ isHeader(m)]]
  BY DEF Hear
<1>2. timeslotFor(m.bit) = slot
  <2>1. m.bit = slotBitSet(slot)
    BY DEF MessagesOf, Message
  <2> QED BY <2>1, IpscAssumption DEF timeslotFor, slotBitSet
<1>3. /\ m.tx = a.tx \/ (m.tx = Alias /\ ~IsFirstFrame(m) /\ ~isHeader(m))
  BY DEF MessagesOf, Message, IsFirstFrame, isHeader
<1>4. a \in AirSlots /\ a.tx # None /\ a.tx \in Overs /\ a.told \in BOOLEAN
  BY DEF Hear, AirSlots
<1>5. m.tx \in Transmissions
  BY <1>3, <1>4 DEF Transmissions
<1> DEFINE r == Convert(st, m)
           tx == Resolve(st, m)
           told == a.told \/ isHeader(m)
<1>6. /\ conv' = [conv EXCEPT ![slot] = r[1]]
      /\ broken' = (broken \/ ~Chained(prev, r[2]) \/ (told /\ \E i \in 1 .. Len(r[2]) : r[2][i].tx # a.tx))
      /\ lastIn' = [lastIn EXCEPT ![slot] = LastOf(prev, r[2])]
  BY <1>1, <1>2 DEF HearVoice
<1>7. MadeWhole(prev, r, tx) /\ (~IsLastFrame(m) => r[1].seen)
  <2>1. GoesOnFrom(st, prev)
    OBVIOUS
  <2> QED BY <1>5, <2>1, ConvertOK
<1>8. told => tx = a.tx
  <2>1. CASE isHeader(m)
    BY <1>3, <2>1 DEF Resolve, continues
  <2>2. CASE a.told
    <3>1. st.seen /\ st.tx = a.tx
      BY <1>4, <2>2
    <3> QED BY <1>3, <3>1 DEF Resolve, continues
  <2> QED BY <2>1, <2>2
<1> DEFINE n == [tx |-> IF IsLastFrame(m) THEN None ELSE a.tx, fresh |-> isHeader(m), told |-> told]
<1>9. air' = [air EXCEPT ![slot] = n]
  BY <1>1
<1>10. n \in AirSlots /\ n.tx = (IF IsLastFrame(m) THEN None ELSE a.tx) /\ n.told = told
  <2>1. n.tx \in Overs \cup {None}
    BY <1>4
  <2>2. n.fresh \in BOOLEAN /\ n.told \in BOOLEAN
    BY DEF isHeader
  <2> QED BY <2>1, <2>2 DEF AirSlots
<1> HIDE DEF n
<1>11. ~broken'
  BY <1>6, <1>7, <1>8 DEF MadeWhole
<1>12. GoesOnFrom(r[1], LastOf(prev, r[2])) /\ r[1].tx = tx
  BY <1>7 DEF MadeWhole
<1>13. n.told /\ n.tx # None => r[1].seen /\ r[1].tx = n.tx
  BY <1>7, <1>8, <1>10, <1>12
<1> HIDE DEF r, st, prev, a, tx, told
<1>14. r[1] \in Converters /\ LastOf(prev, r[2]) \in InFrames
  BY <1>12 DEF GoesOnFrom
<1>15. conv' \in [Slots -> Converters] /\ lastIn' \in [Slots -> InFrames] /\ air' \in [Slots -> AirSlots]
  BY <1>6, <1>9, <1>10, <1>14
<1>16. ASSUME NEW s \in Slots
       PROVE  GoesOnFrom(conv[s], lastIn[s])' /\ (air[s].told /\ air[s].tx # None => conv[s].seen /\ conv[s].tx = air[s].tx)'
  <2>1. CASE s = slot
    <3>1. conv'[s] = r[1] /\ lastIn'[s] = LastOf(prev, r[2]) /\ air'[s] = n
      BY <1>6, <1>9, <2>1
    <3> QED BY <3>1, <1>12, <1>13 DEF GoesOnFrom
  <2>2. CASE s # slot
    <3>1. conv'[s] = conv[s] /\ lastIn'[s] = lastIn[s] /\ air'[s] = air[s]
      BY <1>6, <1>9, <2>2
    <3> QED BY <3>1 DEF GoesOnFrom
  <2> QED BY <2>1, <2>2
<1> QED BY <1>11, <1>15, <1>16

LEMMA ForgetOK ==
  ASSUME NEW st \in Converters
  PROVE  Forget(st) \in Converters /\ ~Forget(st).seen
<1> DEFINE a == [st EXCEPT !.sentHeader = FALSE]
           b == [a EXCEPT !.started = FALSE]
           c == [b EXCEPT !.seen = FALSE]
<1>1. Forget(st) = c
  BY DEF Forget, Converters
<1>2. a \in Converters
  BY SetSentHeader
<1> HIDE DEF a
<1>3. b \in Converters
  BY <1>2, SetStarted
<1> HIDE DEF b
<1>4. c \in Converters /\ c.seen = FALSE
  BY <1>3, SetSeen
<1> HIDE DEF c
<1> QED BY <1>1, <1>4


LEMMA SweepHears == ASSUME HearingInv, Sweep PROVE HearingInv'
<1> USE DEF HearingInv
<1> DEFINE drop == known /\ silent > IpscPeerTimeout
           expired == known /\ ~drop /\ CallExpired(call)
<1>1. /\ conv' = IF drop THEN [s \in Slots |-> SlotIdle]
                 ELSE IF expired THEN [conv EXCEPT ![call.slot] = Forget(@)]
                 ELSE conv
      /\ air' = [s \in Slots |-> [air[s] EXCEPT !.told = @ /\ ~drop /\ ~(expired /\ call.slot = s)]]
      /\ lastIn' = lastIn /\ broken' = broken
  BY DEF Sweep
<1> HIDE DEF drop, expired
<1>2. ASSUME NEW s \in Slots
      PROVE  /\ air'[s] \in AirSlots /\ air'[s].tx = air[s].tx
             /\ air'[s].told => air[s].told /\ ~drop /\ ~(expired /\ call.slot = s)
  <2> DEFINE t == air[s].told /\ ~drop /\ ~(expired /\ call.slot = s)
  <2>0. air'[s] = [air[s] EXCEPT !.told = t]
    BY <1>1
  <2>1. t \in BOOLEAN
    OBVIOUS
  <2>2. t => air[s].told /\ ~drop /\ ~(expired /\ call.slot = s)
    OBVIOUS
  <2> HIDE DEF t
  <2>3. air'[s] \in AirSlots /\ air'[s].tx = air[s].tx
    BY <2>0, <2>1 DEF AirSlots
  <2>4. air'[s].told = t
    BY <2>0, <2>1 DEF AirSlots
  <2> QED BY <2>2, <2>3, <2>4
<1>3. air' \in [Slots -> AirSlots]
  BY <1>1, <1>2
<1>4. \A s \in Slots : conv'[s] = IF drop THEN SlotIdle ELSE IF expired /\ s = call.slot THEN Forget(conv[s]) ELSE conv[s]
  BY <1>1
<1>5. ASSUME NEW s \in Slots
      PROVE  conv'[s] \in Converters /\ (conv'[s] = conv[s] \/ (~conv'[s].seen /\ ~air'[s].told))
  <2>1. CASE drop
    BY <1>2, <1>4, <2>1, SlotIdleIs
  <2>2. CASE ~drop /\ expired /\ s = call.slot
    <3>1. conv'[s] = Forget(conv[s]) /\ conv[s] \in Converters
      BY <1>4, <2>2
    <3> QED BY <1>2, <2>2, <3>1, ForgetOK
  <2>3. CASE ~drop /\ ~(expired /\ s = call.slot)
    BY <1>4, <2>3
  <2> QED BY <2>1, <2>2, <2>3
<1>6. conv' \in [Slots -> Converters]
  BY <1>1, <1>5
<1>7. ASSUME NEW s \in Slots
      PROVE  GoesOnFrom(conv'[s], lastIn[s]) /\ (air'[s].told /\ air'[s].tx # None => conv'[s].seen /\ conv'[s].tx = air'[s].tx)
  <2>1. CASE conv'[s] = conv[s]
    BY <1>2, <2>1
  <2>2. CASE ~conv'[s].seen /\ ~air'[s].told
    BY <1>5, <2>2 DEF GoesOnFrom
  <2> QED BY <1>5, <2>1, <2>2
<1> QED BY <1>1, <1>3, <1>6, <1>7

LEMMA KeyedOK ==
  ASSUME HearingInv, NEW slot \in Slots, NEW n \in AirSlots, ~n.told, air' = [air EXCEPT ![slot] = n],
         UNCHANGED <<conv, lastIn, broken>>
  PROVE  HearingInv'
<1> USE DEF HearingInv
<1>1. air' \in [Slots -> AirSlots]
  OBVIOUS
<1>2. \A s \in Slots : air'[s] = IF s = slot THEN n ELSE air[s]
  OBVIOUS
<1>3. \A s \in Slots : air'[s].told /\ air'[s].tx # None => conv'[s].seen /\ conv'[s].tx = air'[s].tx
  BY <1>2
<1> QED BY <1>1, <1>3

LEMMA HearingStep == HearingInv /\ [IpscNext]_ipscVars => HearingInv'
<1> SUFFICES ASSUME HearingInv, [IpscNext]_ipscVars PROVE HearingInv'
  OBVIOUS
<1>0. ASSUME UNCHANGED <<conv, lastIn, air, broken>> PROVE HearingInv'
  BY <1>0 DEF HearingInv
<1>1. ASSUME NEW s \in Slots, Hear(s) PROVE HearingInv'
  BY <1>1, HearStep
<1>2. ASSUME NEW s \in Slots, KeyDown(s) PROVE HearingInv'
  <2>1. [tx |-> None, fresh |-> FALSE, told |-> FALSE] \in AirSlots
    BY DEF AirSlots
  <2> QED BY <1>2, <2>1, KeyedOK DEF KeyDown, recordVars
<1>3. ASSUME NEW s \in Slots, HearText(s, 50) PROVE HearingInv'
  BY <1>0, <1>3 DEF HearText
<1>4. ASSUME NEW s \in Slots, NEW t \in Overs, KeyUp(s, t) PROVE HearingInv'
  <2>1. [tx |-> t, fresh |-> TRUE, told |-> FALSE] \in AirSlots
    BY DEF AirSlots
  <2> QED BY <1>4, <2>1, KeyedOK DEF KeyUp, recordVars
<1>5. CASE Delivered
  BY <1>0, <1>5 DEF Delivered
<1>6. ASSUME NEW s \in Slots, NEW f \in OutFrames, SendVoice(s, f) \/ SendVoiceTo(s, f) PROVE HearingInv'
  BY <1>0, <1>6 DEF SendVoice, SendVoiceTo, Transmit, recordVars
<1>7. CASE HearControl
  BY <1>0, <1>7 DEF HearControl
<1>8. CASE Sweep
  BY <1>8, SweepHears
<1>9. CASE SetAllowedPeers
  BY <1>0, <1>9 DEF SetAllowedPeers, recordVars
<1>10. CASE UNCHANGED ipscVars
  BY <1>0, <1>10 DEF ipscVars
<1>11. ASSUME NEW s \in Slots, NEW n, NEW sent, WriteToUDP(s, n, sent) PROVE HearingInv'
  BY <1>0, <1>11 DEF WriteToUDP, recordVars
<1> QED BY <1>1, <1>2, <1>3, <1>4, <1>5, <1>6, <1>7, <1>8, <1>9, <1>10, <1>11
     DEF IpscNext, HearsNext, SendsNext, EitherNext

(* Towards the repeater: the messages on their way follow, one goroutine's *)
(* after another's, from the last that was sent; and when they are all     *)
(* there and the encoder has a transmission open, the last of them is a    *)
(* burst of it.                                                            *)
StreamNames == {None, 11, 12, 21, 22}
Encoders == [tx : StreamNames, seen : BOOLEAN, opened : BOOLEAN,
             inData : BOOLEAN, data : {None, "p", "q"}, dataAge : Nat]
OutMessages == [kind : {"header", "voice", "terminator", "text"}, flags : {"first", "middle", "last"},
                tx : StreamNames, of : StreamNames]

OutChained(prev, out) ==
  \A i \in 1..Len(out) : OutFollows(IF i = 1 THEN prev ELSE out[i - 1], out[i])
Batch(prev, out, last) ==
  /\ out \in Seq(OutMessages) /\ Len(out) > 0 /\ OutChained(prev, out)
  /\ \/ Len(out) = 1 /\ out[1].kind = "text" /\ last = prev
     \/ (\A i \in 1..Len(out) : out[i].kind # "text") /\ last = out[Len(out)]
Fits(e, prev) == e.opened => prev.kind = "voice" /\ prev.tx = e.tx
OnTheirWay(prev, batches, e) ==
  \E q : /\ q[1] = prev /\ Fits(e, q[Len(batches) + 1])
         /\ \A i \in 1..Len(batches) : Batch(q[i], batches[i], q[i + 1])

SendingInv ==
  /\ enc \in [Slots -> Encoders] /\ lastOut = [s \in Slots |-> lastOut[s]]
  /\ sends \in [Slots -> Seq(Seq(OutMessages))] /\ mixed \in [Slots -> BOOLEAN]
  /\ \A s \in Slots : ~mixed[s] => OnTheirWay(lastOut[s], sends[s], enc[s])
  /\ ~garbled

LEMMA NotedOK ==
  ASSUME NEW st \in Encoders, NEW f \in OutFrames
  PROVE  /\ Noted(st, f) \in Encoders /\ Noted(st, f).tx = st.tx
         /\ Noted(st, f).opened = st.opened /\ Noted(st, f).seen = st.seen
<1> DEFINE b == f.kind # "voice"
           d == IF b THEN f.who ELSE None
<1>1. b \in BOOLEAN /\ d \in {None, "p", "q"}
  BY DEF OutFrames, Sending, Texting
<1>2. Noted(st, f) = [st EXCEPT !.inData = b, !.data = d, !.dataAge = 0]
  BY DEF Noted
<1> HIDE DEF b, d
<1> DEFINE u == [st EXCEPT !.inData = b]
           v == [u EXCEPT !.data = d]
           w == [v EXCEPT !.dataAge = 0]
<1>3. Noted(st, f) = w
  BY <1>2 DEF Encoders
<1>4. u \in Encoders /\ u.tx = st.tx
  BY <1>1 DEF Encoders
<1>5. u.opened = st.opened /\ u.seen = st.seen
  BY <1>1 DEF Encoders
<1> HIDE DEF u
<1>6. v \in Encoders /\ v.tx = u.tx
  BY <1>1, <1>4 DEF Encoders
<1>7. v.opened = u.opened /\ v.seen = u.seen
  BY <1>1, <1>4 DEF Encoders
<1> HIDE DEF v
<1>8. w \in Encoders /\ w.tx = v.tx
  BY <1>6 DEF Encoders
<1>9. w.opened = v.opened /\ w.seen = v.seen
  BY <1>6 DEF Encoders
<1> HIDE DEF w
<1> QED BY <1>3, <1>4, <1>5, <1>6, <1>7, <1>8, <1>9

LEMMA OpenedForOK ==
  ASSUME NEW st \in Encoders, NEW f \in OutFrames, NEW o, o = OpenedFor(st, f)
  PROVE  /\ o \in Encoders
         /\ o.opened => st.opened /\ o.tx = st.tx
         /\ f.kind = "voice" => o.tx = f.tx
<1> DEFINE n == Noted(st, f)
<1>1. n \in Encoders /\ n.tx = st.tx /\ n.opened = st.opened /\ n.seen = st.seen
  BY NotedOK
<1>2. CASE (f.tx # st.tx \/ ~st.seen) /\ ~continuesData(st, f)
  <2> HIDE DEF n
  <2> DEFINE u == [n EXCEPT !.tx = f.tx]
             v == [u EXCEPT !.seen = TRUE]
             w == [v EXCEPT !.opened = FALSE]
  <2>1. o = [n EXCEPT !.tx = f.tx, !.seen = TRUE, !.opened = FALSE]
    BY <1>2 DEF OpenedFor, n
  <2>2. o = w
    BY <1>1, <2>1 DEF Encoders
  <2>3. f.tx \in StreamNames
    BY DEF OutFrames, Sending, Texting, StreamNames
  <2>4. u \in Encoders /\ u.tx = f.tx
    BY <1>1, <2>3 DEF Encoders
  <2> HIDE DEF u
  <2>5. v \in Encoders /\ v.tx = u.tx
    BY <2>4 DEF Encoders
  <2> HIDE DEF v
  <2>6. w \in Encoders /\ w.tx = v.tx
    BY <2>5 DEF Encoders
  <2>7. w.opened = FALSE
    BY <2>5 DEF Encoders
  <2> HIDE DEF w
  <2> QED BY <2>2, <2>4, <2>5, <2>6, <2>7
<1>3. CASE ~((f.tx # st.tx \/ ~st.seen) /\ ~continuesData(st, f))
  <2>1. o = n
    BY <1>3 DEF OpenedFor
  <2>2. f.kind = "voice" => f.tx = st.tx
    BY <1>3 DEF continuesData
  <2> QED BY <1>1, <2>1, <2>2
<1> QED BY <1>2, <1>3


(* What Encode gives, r, for a timeslot whose last message was prev.       *)
SentWhole(prev, r) ==
  /\ r[1] \in Encoders
  /\ \/ r[2] = <<>> /\ Fits(r[1], prev)
     \/ \E last : Batch(prev, r[2], last) /\ Fits(r[1], last)

LEMMA EncodeOK ==
  ASSUME NEW before \in Encoders, NEW f \in OutFrames, NEW prev, Fits(before, prev),
         NEW r, r = Encode(before, f)
  PROVE  SentWhole(prev, r)
<1> DEFINE st == OpenedFor(before, f)
<1>1. /\ st \in Encoders
      /\ st.opened => before.opened /\ st.tx = before.tx
      /\ f.kind = "voice" => st.tx = f.tx
  BY OpenedForOK
<1>c. r = CASE f.kind = "terminator" -> Terminator(st, f)
            [] f.kind = "header" -> <<st, <<>>>>
            [] f.kind = "text" -> <<st, <<Signalling(st, f, "middle", "text")>>>>
            [] OTHER -> <<[st EXCEPT !.opened = TRUE],
                          IF st.opened THEN <<Signalling(st, f, "middle", "voice")>>
                          ELSE Opening(st, f) \o <<Signalling(st, f, "middle", "voice")>>>>
  BY DEF Encode
<1> HIDE DEF st
<1>2. st.opened => prev.kind = "voice" /\ prev.tx = st.tx
  BY <1>1 DEF Fits
<1>3. f.kind \in {"header", "voice", "terminator", "text"}
  BY DEF OutFrames, Sending, Texting
<1>s. ASSUME NEW flags, NEW marker, NEW g, g = Signalling(st, f, flags, marker)
      PROVE  g.kind = marker /\ g.flags = flags /\ g.tx = st.tx /\ g.of = f.tx
  BY <1>s DEF Signalling
<1>o. ASSUME NEW flags \in {"first", "middle", "last"}, NEW marker \in {"header", "voice", "terminator", "text"},
             NEW g, g = Signalling(st, f, flags, marker)
      PROVE  g \in OutMessages
  <2>1. st.tx \in StreamNames /\ f.tx \in StreamNames
    BY <1>1 DEF OutFrames, Sending, Texting, StreamNames, Encoders
  <2> QED BY <1>o, <2>1 DEF Signalling, OutMessages
<1>n. ASSUME r = <<st, <<>>>> PROVE SentWhole(prev, r)
  <2>1. r[1] = st /\ r[2] = <<>> /\ Len(r[2]) = 0
    BY <1>n
  <2> QED BY <1>1, <1>2, <2>1 DEF SentWhole, Fits
<1>4. CASE f.kind = "header"
  <2>1. r = <<st, <<>>>>
    BY <1>c, <1>4
  <2> QED BY <1>n, <2>1
<1>5. CASE f.kind = "terminator" /\ ~st.opened
  <2>1. r = <<st, <<>>>>
    BY <1>c, <1>5 DEF Terminator
  <2> QED BY <1>n, <2>1
<1>6. CASE f.kind = "terminator" /\ st.opened
  <2> DEFINE g == Signalling(st, f, "last", "terminator")
             u == [st EXCEPT !.opened = FALSE]
             v == [u EXCEPT !.seen = FALSE]
  <2>0. [st EXCEPT !.opened = FALSE, !.seen = FALSE] = v
    BY <1>1 DEF Encoders
  <2>1. r = <<v, <<g>>>>
    BY <1>c, <1>6, <2>0 DEF Terminator
  <2>2. u \in Encoders /\ u.opened = FALSE
    BY <1>1 DEF Encoders
  <2> HIDE DEF u
  <2>3. v \in Encoders /\ v.opened = u.opened
    BY <2>2 DEF Encoders
  <2>4. g.kind = "terminator" /\ g.tx = st.tx /\ g \in OutMessages
    BY <1>s, <1>o
  <2> HIDE DEF g, v
  <2>5. r[1] = v /\ r[2] = <<g>> /\ Len(r[2]) = 1 /\ r[2][1] = g
    BY <2>1
  <2>6. OutFollows(prev, g)
    BY <1>2, <1>6, <2>4 DEF OutFollows
  <2>7. OutChained(prev, r[2])
    BY <2>5, <2>6 DEF OutChained
  <2>8. Batch(prev, r[2], g)
    BY <2>4, <2>5, <2>7 DEF Batch
  <2>9. Fits(r[1], g)
    BY <2>2, <2>3, <2>5 DEF Fits
  <2> QED BY <2>3, <2>5, <2>8, <2>9 DEF SentWhole
<1>7. CASE f.kind = "text"
  <2> DEFINE g == Signalling(st, f, "middle", "text")
  <2>1. r = <<st, <<g>>>>
    BY <1>c, <1>7
  <2>2. g.kind = "text" /\ g \in OutMessages
    BY <1>s, <1>o
  <2> HIDE DEF g
  <2>3. r[1] = st /\ r[2] = <<g>> /\ Len(r[2]) = 1 /\ r[2][1] = g
    BY <2>1
  <2>4. OutChained(prev, r[2])
    BY <2>2, <2>3 DEF OutChained, OutFollows
  <2>5. Batch(prev, r[2], prev)
    BY <2>2, <2>3, <2>4 DEF Batch
  <2>6. Fits(r[1], prev)
    BY <1>2, <2>3 DEF Fits
  <2> QED BY <1>1, <2>3, <2>5, <2>6 DEF SentWhole
<1>8. CASE f.kind = "voice"
  <2> DEFINE g == Signalling(st, f, "middle", "voice")
             v == [st EXCEPT !.opened = TRUE]
  <2>1. v \in Encoders /\ v.tx = st.tx
    BY <1>1 DEF Encoders
  <2>2. r = <<v, IF st.opened THEN <<g>> ELSE Opening(st, f) \o <<g>>>>
    BY <1>c, <1>8
  <2>3. g.kind = "voice" /\ g.tx = st.tx /\ g.tx = g.of /\ g \in OutMessages
    BY <1>1, <1>8, <1>s, <1>o
  <2> HIDE DEF g, v
  <2>4. CASE st.opened
    <3>1. r[1] = v /\ r[2] = <<g>> /\ Len(r[2]) = 1 /\ r[2][1] = g /\ r[2] # <<>>
      BY <2>2, <2>4
    <3>2. OutFollows(prev, g)
      BY <1>2, <2>3, <2>4 DEF OutFollows
    <3>3. OutChained(prev, r[2])
      BY <3>1, <3>2 DEF OutChained
    <3>4. Batch(prev, r[2], g)
      BY <2>3, <3>1, <3>3 DEF Batch
    <3>5. Fits(r[1], g)
      BY <2>1, <2>3, <3>1 DEF Fits
    <3> QED BY <2>1, <3>1, <3>4, <3>5 DEF SentWhole
  <2>5. CASE ~st.opened
    <3> DEFINE a == Signalling(st, f, "first", "header")
               h == Signalling(st, f, "middle", "header")
               out == Opening(st, f) \o <<g>>
    <3>1. /\ a.flags = "first" /\ a.kind = "header" /\ a.tx = st.tx /\ h.kind = "header" /\ h.tx = st.tx
          /\ a \in OutMessages /\ h \in OutMessages
      BY <1>s, <1>o
    <3>2. Opening(st, f) = <<a, h, h>>
      BY DEF Opening
    <3> HIDE DEF a, h
    <3>3. /\ Len(out) = 4 /\ out[1] = a /\ out[2] = h /\ out[3] = h /\ out[4] = g
          /\ out \in Seq(OutMessages)
      <4>1. <<a, h, h>> \in Seq(OutMessages) /\ <<g>> \in Seq(OutMessages)
        BY <2>3, <3>1
      <4> QED BY <3>2, <4>1, ConcatProperties
    <3>4. r[1] = v /\ r[2] = out
      BY <2>2, <2>5
    <3> HIDE DEF out
    <3>5. \A i \in 1 .. Len(out) : \/ i = 1 \/ (i = 2 /\ i # 1 /\ i - 1 = 1)
                                   \/ (i = 3 /\ i # 1 /\ i - 1 = 2) \/ (i = 4 /\ i # 1 /\ i - 1 = 3)
      BY <3>3
    <3>6. OutFollows(prev, a) /\ OutFollows(a, h) /\ OutFollows(h, h) /\ OutFollows(h, g)
      BY <2>3, <3>1 DEF OutFollows
    <3>7. OutChained(prev, out)
      BY <3>3, <3>5, <3>6 DEF OutChained
    <3>8. Batch(prev, out, g)
      <4>1. \A i \in 1 .. Len(out) : out[i].kind # "text"
        BY <2>3, <3>1, <3>3, <3>5
      <4> QED BY <3>3, <3>7, <4>1 DEF Batch
    <3>9. Fits(r[1], g)
      BY <2>1, <2>3, <3>4 DEF Fits
    <3> QED BY <2>1, <3>4, <3>8, <3>9 DEF SentWhole
  <2> QED BY <2>4, <2>5
<1> QED BY <1>3, <1>4, <1>5, <1>6, <1>7, <1>8

(* A transmission that is opened follows from anything.                    *)
LEMMA OpeningOK ==
  ASSUME NEW before \in Encoders, NEW f \in OutFrames, NEW prev,
         NEW r, r = Encode(before, f), r[2] # <<>>, IsFirstFrame(r[2][1])
  PROVE  SentWhole(prev, r)
<1> DEFINE p == [kind |-> "voice", tx |-> before.tx]
<1>1. Fits(before, p)
  BY DEF Fits
<1>2. SentWhole(p, r)
  BY <1>1, EncodeOK
<1> HIDE DEF p
<1>3. PICK last : Batch(p, r[2], last) /\ Fits(r[1], last)
  BY <1>2 DEF SentWhole
<1>4. r[2] \in Seq(OutMessages) /\ Len(r[2]) > 0 /\ OutChained(p, r[2])
  BY <1>3 DEF Batch
<1>5. OutChained(prev, r[2])
  BY <1>4 DEF OutChained, OutFollows, IsFirstFrame
<1>6. CASE ~(Len(r[2]) = 1 /\ r[2][1].kind = "text")
  <2>1. Batch(prev, r[2], last)
    BY <1>3, <1>4, <1>5, <1>6 DEF Batch
  <2> QED BY <1>2, <1>3, <2>1 DEF SentWhole
<1>7. CASE Len(r[2]) = 1 /\ r[2][1].kind = "text"
  <2>1. f.kind \in {"header", "voice", "terminator", "text"}
    BY DEF OutFrames, Sending, Texting
  <2>2. FALSE
    PROOF BY <1>7, <2>1 DEF Encode, Terminator, Signalling, Opening, IsFirstFrame
  <2> QED BY <2>2
<1> QED BY <1>6, <1>7

(* Messages join those on their way.                                       *)
LEMMA JoinsOrder ==
  ASSUME NEW prev, NEW S \in Seq(Seq(OutMessages)), NEW e, OnTheirWay(prev, S, e),
         NEW out \in Seq(OutMessages), NEW g,
         \A p : Fits(e, p) => \E last : Batch(p, out, last) /\ Fits(g, last)
  PROVE  OnTheirWay(prev, Append(S, out), g)
<1>1. PICK q : /\ q[1] = prev /\ Fits(e, q[Len(S) + 1])
               /\ \A i \in 1..Len(S) : Batch(q[i], S[i], q[i + 1])
  BY DEF OnTheirWay
<1>2. PICK last : Batch(q[Len(S) + 1], out, last) /\ Fits(g, last)
  BY <1>1
<1> DEFINE T == Append(S, out)
           N == Len(S)
           u == [i \in 1..N + 2 |-> IF i = N + 2 THEN last ELSE q[i]]
<1>3. N \in Nat /\ Len(T) = N + 1 /\ T[N + 1] = out /\ \A i \in 1..N : T[i] = S[i]
  OBVIOUS
<1>4. u[1] = prev /\ u[N + 2] = last /\ u[N + 1] = q[N + 1] /\ \A i \in 1..N + 1 : u[i] = q[i]
  BY <1>1, <1>3
<1> HIDE DEF T, u, N
<1>5. ASSUME NEW i \in 1..Len(T) PROVE Batch(u[i], T[i], u[i + 1])
  <2>1. CASE i = N + 1
    <3>1. i + 1 = N + 2
      BY <1>3, <2>1
    <3> QED BY <1>2, <1>3, <1>4, <2>1, <3>1 DEF N
  <2>2. CASE i # N + 1
    <3>1. i \in 1..N /\ i \in 1..N + 1 /\ i + 1 \in 1..N + 1
      BY <1>3, <2>2
    <3> QED BY <1>1, <1>3, <1>4, <3>1 DEF N
  <2> QED BY <2>1, <2>2
<1>6. Fits(g, u[Len(T) + 1])
  <2>1. Len(T) + 1 = N + 2
    BY <1>3
  <2> QED BY <1>2, <1>4, <2>1
<1>7. OnTheirWay(prev, T, g)
  BY <1>4, <1>5, <1>6 DEF OnTheirWay
<1> QED BY <1>7 DEF T

LEMMA BatchTail ==
  ASSUME NEW prev, NEW out, NEW last, Batch(prev, out, last)
  PROVE  /\ OutFollows(prev, out[1])
         /\ Len(out) > 1 => Batch(out[1], Tail(out), last) /\ out[1].kind # "text"
         /\ Len(out) = 1 => last = IF out[1].kind = "text" THEN prev ELSE out[1]
<1>0. out \in Seq(OutMessages) /\ Len(out) > 0 /\ Len(out) \in Nat /\ OutChained(prev, out)
  BY DEF Batch
<1>1. OutFollows(prev, out[1])
  BY <1>0 DEF OutChained
<1>2. Len(out) = 1 => last = IF out[1].kind = "text" THEN prev ELSE out[1]
  BY <1>0 DEF Batch
<1>3. ASSUME Len(out) > 1 PROVE Batch(out[1], Tail(out), last) /\ out[1].kind # "text"
  <2> DEFINE o == Tail(out)
  <2>1. /\ o \in Seq(OutMessages) /\ Len(o) = Len(out) - 1 /\ \A i \in 1..Len(o) : o[i] = out[i + 1]
    BY <1>0, <1>3
  <2>2. (\A i \in 1..Len(out) : out[i].kind # "text") /\ last = out[Len(out)]
    BY <1>3 DEF Batch
  <2> HIDE DEF o
  <2>3. (\A i \in 1..Len(o) : o[i].kind # "text") /\ last = o[Len(o)] /\ Len(o) > 0
    <3>1. \A i \in 1..Len(o) : i + 1 \in 1..Len(out)
      BY <1>0, <2>1
    <3>2. Len(o) \in 1..Len(o) /\ Len(o) + 1 = Len(out)
      BY <1>0, <1>3, <2>1
    <3> QED BY <2>1, <2>2, <3>1, <3>2
  <2>4. OutChained(out[1], o)
    <3> SUFFICES ASSUME NEW i \in 1..Len(o) PROVE OutFollows(IF i = 1 THEN out[1] ELSE o[i - 1], o[i])
      BY DEF OutChained
    <3>1. i + 1 \in 1..Len(out) /\ i + 1 # 1 /\ i + 1 - 1 = i /\ o[i] = out[i + 1]
      BY <1>0, <2>1
    <3>2. OutFollows(out[i], o[i])
      BY <1>0, <3>1 DEF OutChained
    <3>3. i # 1 => o[i - 1] = out[i]
      <4>1. i # 1 => i - 1 \in 1..Len(o) /\ i - 1 + 1 = i
        BY <2>1
      <4> QED BY <2>1, <4>1
    <3> QED BY <3>2, <3>3
  <2>5. out[1].kind # "text"
    BY <1>0, <2>2
  <2>6. Batch(out[1], o, last)
    BY <2>1, <2>3, <2>4 DEF Batch
  <2> QED BY <2>5, <2>6 DEF o
<1> QED BY <1>1, <1>2, <1>3

(* The next message of the first goroutine is sent.                        *)
LEMMA NextInOrder ==
  ASSUME NEW prev, NEW S \in Seq(Seq(OutMessages)), Len(S) > 0, NEW e, OnTheirWay(prev, S, e)
  PROVE  /\ OutFollows(prev, S[1][1])
         /\ OnTheirWay(IF S[1][1].kind # "text" THEN S[1][1] ELSE prev, AfterWrite(S, 1, TRUE), e)
<1> DEFINE m == S[1][1]
           N == Len(S)
           T == AfterWrite(S, 1, TRUE)
           last == IF m.kind # "text" THEN m ELSE prev
<1>1. PICK q : /\ q[1] = prev /\ Fits(e, q[Len(S) + 1])
               /\ \A i \in 1..Len(S) : Batch(q[i], S[i], q[i + 1])
  BY DEF OnTheirWay
<1>2. N \in Nat /\ 1 \in 1..N /\ S[1] \in Seq(OutMessages) /\ Len(S[1]) \in Nat
  OBVIOUS
<1>3. Batch(prev, S[1], q[2])
  <2>1. 1 + 1 = 2
    OBVIOUS
  <2> QED BY <1>1, <1>2, <2>1
<1>4. /\ OutFollows(prev, m) /\ Len(S[1]) > 0
      /\ Len(S[1]) > 1 => Batch(m, Tail(S[1]), q[2]) /\ m.kind # "text"
      /\ Len(S[1]) = 1 => q[2] = last
  BY <1>3, BatchTail DEF Batch
<1>5. ASSUME Len(S[1]) > 1 PROVE OnTheirWay(last, T, e)
  <2> DEFINE u == [i \in 1..N + 1 |-> IF i = 1 THEN m ELSE q[i]]
  <2>1. T = [S EXCEPT ![1] = Tail(@)]
    BY <1>5 DEF AfterWrite
  <2>2. Len(T) = N /\ T[1] = Tail(S[1]) /\ \A i \in 1..N : i # 1 => T[i] = S[i]
    <3> DEFINE o == Tail(S[1])
    <3>0. T = [S EXCEPT ![1] = o]
      BY <2>1
    <3>1. o \in Seq(OutMessages)
      BY <1>2, <1>5
    <3> HIDE DEF o, T
    <3>2. T \in Seq(Seq(OutMessages)) /\ Len(T) = N /\ T[1] = o
      BY <1>2, <3>0, <3>1
    <3>3. \A i \in 1..N : i # 1 => T[i] = S[i]
      BY <1>2, <3>0, <3>1
    <3> QED BY <3>2, <3>3 DEF o
  <2>3. u[1] = m /\ \A i \in 1..N + 1 : i # 1 => u[i] = q[i]
    BY <1>2
  <2> HIDE DEF u, T, N, last
  <2>4. ASSUME NEW i \in 1..Len(T) PROVE Batch(u[i], T[i], u[i + 1])
    <3>1. CASE i = 1
      <4>1. i + 1 = 2 /\ 2 \in 1..N + 1 /\ 2 # 1
        BY <1>2, <3>1
      <4>2. u[i + 1] = q[2]
        BY <2>3, <4>1
      <4> QED BY <1>4, <1>5, <2>2, <2>3, <3>1, <4>2
    <3>2. CASE i # 1
      <4>1. i \in 1..N /\ i \in 1..N + 1 /\ i + 1 \in 1..N + 1 /\ i + 1 # 1
        BY <1>2, <2>2, <3>2
      <4> QED BY <1>1, <2>2, <2>3, <3>2, <4>1 DEF N
    <3> QED BY <3>1, <3>2
  <2>5. Fits(e, u[Len(T) + 1])
    <3>1. N + 1 \in 1..N + 1 /\ N + 1 # 1
      BY <1>2
    <3> QED BY <1>1, <2>2, <2>3, <3>1 DEF N
  <2>6. OnTheirWay(m, T, e)
    BY <2>3, <2>4, <2>5 DEF OnTheirWay
  <2>7. last = m
    BY <1>4, <1>5 DEF last
  <2> QED BY <2>6, <2>7
<1>6. ASSUME Len(S[1]) = 1 PROVE OnTheirWay(last, T, e)
  <2> DEFINE u == [i \in 1..N |-> q[i + 1]]
  <2>1. T = Unsent(S, 1)
    BY <1>6 DEF AfterWrite
  <2>2. Len(T) = N - 1 /\ \A i \in 1..N - 1 : T[i] = S[i + 1]
    <3> DEFINE R == SubSeq(S, 2, Len(S))
               E == SubSeq(S, 1, 0)
    <3>1. E = <<>> /\ E \in Seq(Seq(OutMessages))
      OBVIOUS
    <3>2. R \in Seq(Seq(OutMessages)) /\ Len(R) = N - 1 /\ \A i \in 1..N - 1 : R[i] = S[i + 1]
      <4>1. R = Tail(S)
        BY <1>2
      <4>2. Tail(S) \in Seq(Seq(OutMessages)) /\ Len(Tail(S)) = Len(S) - 1
        BY <1>2
      <4>3. \A i \in 1..Len(S) - 1 : Tail(S)[i] = S[i + 1]
        BY <1>2
      <4> HIDE DEF R
      <4> QED BY <4>1, <4>2, <4>3
    <3>3. 1 - 1 = 0 /\ 1 + 1 = 2
      OBVIOUS
    <3>4. T = E \o R
      BY <2>1, <3>3 DEF Unsent
    <3> HIDE DEF E, R, T
    <3>5. <<>> \o R = R
      BY <3>2
    <3> QED BY <3>1, <3>2, <3>4, <3>5
  <2>3. u[1] = last /\ \A i \in 1..N : u[i] = q[i + 1]
    BY <1>2, <1>4, <1>6
  <2> HIDE DEF u, T, N, last
  <2>4. ASSUME NEW i \in 1..Len(T) PROVE Batch(u[i], T[i], u[i + 1])
    <3>1. i \in 1..N - 1 /\ i \in 1..N /\ i + 1 \in 1..N
      BY <1>2, <2>2
    <3> QED BY <1>1, <2>2, <2>3, <3>1 DEF N
  <2>5. Fits(e, u[Len(T) + 1])
    <3>1. Len(T) + 1 = N /\ N \in 1..N
      BY <1>2, <2>2
    <3> QED BY <1>1, <2>3, <3>1 DEF N
  <2>6. OnTheirWay(last, T, e)
    BY <2>3, <2>4, <2>5 DEF OnTheirWay
  <2> QED BY <2>6
<1> HIDE DEF T, last, N
<1>7. Len(S[1]) > 1 \/ Len(S[1]) = 1
  <2> DEFINE k == Len(S[1])
  <2>1. k \in Nat /\ k > 0
    BY <1>2, <1>4
  <2> HIDE DEF k
  <2>2. k > 1 \/ k = 1
    BY <2>1
  <2> QED BY <2>2 DEF k
<1>8. OnTheirWay(last, T, e)
  BY <1>5, <1>6, <1>7
<1> QED BY <1>4, <1>8 DEF T, last

LEMMA AfterWriteType ==
  ASSUME NEW S \in Seq(Seq(OutMessages)), NEW n \in 1..Len(S), NEW sent \in BOOLEAN
  PROVE  AfterWrite(S, n, sent) \in Seq(Seq(OutMessages))
<1>1. CASE sent /\ Len(S[n]) > 1
  <2>1. Tail(S[n]) \in Seq(OutMessages)
    BY <1>1
  <2> QED BY <1>1, <2>1 DEF AfterWrite
<1>2. CASE ~(sent /\ Len(S[n]) > 1)
  <2>1. SubSeq(S, 1, n - 1) \in Seq(Seq(OutMessages)) /\ SubSeq(S, n + 1, Len(S)) \in Seq(Seq(OutMessages))
    OBVIOUS
  <2> QED BY <1>2, <2>1 DEF AfterWrite, Unsent
<1> QED BY <1>1, <1>2

LEMMA SendingStep == SendingInv /\ [IpscNext]_ipscVars => SendingInv'
<1> SUFFICES ASSUME SendingInv, [IpscNext]_ipscVars PROVE SendingInv'
  OBVIOUS
<1>0. ASSUME UNCHANGED sideVars PROVE SendingInv'
  BY <1>0 DEF SendingInv, sideVars
<1>1. ASSUME NEW slot \in Slots, NEW f \in OutFrames, Transmit(slot, f) PROVE SendingInv'
  <2> DEFINE r == Encode(enc[slot], f)
             opens == r[2] # <<>> /\ IsFirstFrame(r[2][1])
             S == IF r[2] = <<>> THEN sends[slot] ELSE Append(sends[slot], r[2])
             b == mixed[slot] /\ ~(opens /\ sends[slot] = <<>>)
  <2>1. /\ enc[slot] \in Encoders /\ sends[slot] \in Seq(Seq(OutMessages)) /\ mixed[slot] \in BOOLEAN
        /\ ~mixed[slot] => OnTheirWay(lastOut[slot], sends[slot], enc[slot])
    BY DEF SendingInv
  <2>2. \A p : Fits(enc[slot], p) => SentWhole(p, r)
    BY <2>1, EncodeOK
  <2>3. opens => \A p : SentWhole(p, r)
    BY <2>1, OpeningOK
  <2>4. /\ enc' = [enc EXCEPT ![slot] = r[1]] /\ mixed' = [mixed EXCEPT ![slot] = b]
        /\ UNCHANGED <<lastOut, garbled>>
    BY <1>1 DEF Transmit
  <2>5. sends' = [sends EXCEPT ![slot] = S]
    <3>1. sends = [sends EXCEPT ![slot] = sends[slot]]
      BY DEF SendingInv
    <3>2. sends' = IF r[2] = <<>> THEN sends ELSE [sends EXCEPT ![slot] = Append(@, r[2])]
      BY <1>1 DEF Transmit
    <3> HIDE DEF r
    <3> QED BY <3>1, <3>2
  <2>6. \E p : Fits(enc[slot], p)
    <3>1. Fits(enc[slot], [kind |-> "voice", tx |-> enc[slot].tx])
      BY DEF Fits
    <3> QED BY <3>1
  <2> HIDE DEF r
  <2>7. r[1] \in Encoders /\ (r[2] # <<>> => r[2] \in Seq(OutMessages))
    BY <2>2, <2>6 DEF SentWhole, Batch
  <2>8. S \in Seq(Seq(OutMessages)) /\ b \in BOOLEAN
    BY <2>1, <2>7
  <2>9. ~b => OnTheirWay(lastOut[slot], S, r[1])
    <3>1. CASE ~mixed[slot] /\ r[2] = <<>>
      <4>1. \A p : Fits(enc[slot], p) => Fits(r[1], p)
        BY <2>2, <3>1 DEF SentWhole, Batch
      <4> QED BY <2>1, <3>1, <4>1 DEF OnTheirWay
    <3>2. CASE ~mixed[slot] /\ r[2] # <<>>
      <4>1. \A p : Fits(enc[slot], p) => \E last : Batch(p, r[2], last) /\ Fits(r[1], last)
        BY <2>2, <3>2 DEF SentWhole
      <4>2. OnTheirWay(lastOut[slot], Append(sends[slot], r[2]), r[1])
        BY <2>1, <2>7, <3>2, <4>1, JoinsOrder
      <4> QED BY <3>2, <4>2
    <3>3. CASE mixed[slot] /\ opens /\ sends[slot] = <<>>
      <4>1. PICK last : Batch(lastOut[slot], r[2], last) /\ Fits(r[1], last)
        BY <2>3, <3>3 DEF SentWhole
      <4> DEFINE q == [i \in 1..2 |-> IF i = 1 THEN lastOut[slot] ELSE last]
      <4>2. q[1] = lastOut[slot] /\ q[2] = last
        OBVIOUS
      <4>3. Len(S) = 1 /\ S[1] = r[2]
        BY <2>7, <3>3
      <4> HIDE DEF q, S
      <4>4. Len(S) + 1 = 2 /\ \A i \in 1..Len(S) : i = 1 /\ i + 1 = 2
        BY <4>3
      <4> QED BY <4>1, <4>2, <4>3, <4>4 DEF OnTheirWay
    <3> QED BY <2>1, <3>1, <3>2, <3>3
  <2> HIDE DEF S, b, opens
  <2>10. /\ enc' \in [Slots -> Encoders] /\ sends' \in [Slots -> Seq(Seq(OutMessages))]
         /\ mixed' \in [Slots -> BOOLEAN]
    BY <2>4, <2>5, <2>7, <2>8 DEF SendingInv
  <2>11. \A s \in Slots : /\ enc'[s] = IF s = slot THEN r[1] ELSE enc[s]
                          /\ sends'[s] = IF s = slot THEN S ELSE sends[s]
                          /\ mixed'[s] = IF s = slot THEN b ELSE mixed[s]
    BY <2>4, <2>5 DEF SendingInv
  <2>12. \A s \in Slots : ~mixed'[s] => OnTheirWay(lastOut'[s], sends'[s], enc'[s])
    BY <2>4, <2>9, <2>11 DEF SendingInv
  <2> QED BY <2>4, <2>10, <2>12 DEF SendingInv
<1>11. ASSUME NEW slot \in Slots, NEW n \in DOMAIN sends[slot], NEW sent \in BOOLEAN, WriteToUDP(slot, n, sent)
       PROVE  SendingInv'
  <2> DEFINE S == sends[slot]
             T == AfterWrite(S, n, sent)
             m == S[n][1]
             b == mixed[slot] \/ n > 1 \/ ~sent
             last == IF sent /\ m.kind # "text" THEN m ELSE lastOut[slot]
  <2>1. S \in Seq(Seq(OutMessages)) /\ n \in 1..Len(S) /\ b \in BOOLEAN
    BY DEF SendingInv
  <2>2. T \in Seq(Seq(OutMessages))
    BY <2>1, AfterWriteType
  <2>3. /\ sends' = [sends EXCEPT ![slot] = T] /\ mixed' = [mixed EXCEPT ![slot] = b] /\ enc' = enc
        /\ garbled' = (garbled \/ (sent /\ ~mixed'[slot] /\ ~OutFollows(lastOut[slot], m)))
    BY <1>11 DEF WriteToUDP
  <2>4. lastOut' = [lastOut EXCEPT ![slot] = last]
    <3>1. lastOut = [s \in Slots |-> lastOut[s]]
      BY DEF SendingInv
    <3>2. lastOut' = IF sent /\ m.kind # "text" THEN [lastOut EXCEPT ![slot] = m] ELSE lastOut
      BY <1>11 DEF WriteToUDP
    <3> HIDE DEF m
    <3> QED BY <3>1, <3>2
  <2>5. ~b => OutFollows(lastOut[slot], m) /\ OnTheirWay(last, T, enc[slot])
    <3> SUFFICES ASSUME ~b PROVE OutFollows(lastOut[slot], m) /\ OnTheirWay(last, T, enc[slot])
      OBVIOUS
    <3>1. n = 1 /\ sent = TRUE /\ Len(S) > 0 /\ OnTheirWay(lastOut[slot], S, enc[slot])
      BY <2>1 DEF SendingInv
    <3>2. /\ OutFollows(lastOut[slot], S[1][1])
          /\ OnTheirWay(IF S[1][1].kind # "text" THEN S[1][1] ELSE lastOut[slot], AfterWrite(S, 1, TRUE), enc[slot])
      BY <2>1, <3>1, NextInOrder
    <3> QED BY <3>1, <3>2
  <2> HIDE DEF T, m, b, last
  <2>6. sends' \in [Slots -> Seq(Seq(OutMessages))] /\ mixed' \in [Slots -> BOOLEAN]
    BY <2>1, <2>2, <2>3 DEF SendingInv
  <2>7. \A s \in Slots : /\ sends'[s] = IF s = slot THEN T ELSE sends[s]
                         /\ mixed'[s] = IF s = slot THEN b ELSE mixed[s]
                         /\ lastOut'[s] = IF s = slot THEN last ELSE lastOut[s]
    BY <2>3, <2>4 DEF SendingInv
  <2>8. \A s \in Slots : ~mixed'[s] => OnTheirWay(lastOut'[s], sends'[s], enc'[s])
    BY <2>3, <2>5, <2>7 DEF SendingInv
  <2>9. ~garbled' /\ lastOut' = [s \in Slots |-> lastOut'[s]]
    BY <2>3, <2>4, <2>5, <2>7 DEF SendingInv
  <2> QED BY <2>3, <2>6, <2>8, <2>9 DEF SendingInv
<1>2. CASE Sweep
  <2> DEFINE drop == known /\ silent > IpscPeerTimeout
  <2>1. /\ enc' = IF drop THEN [s \in Slots |-> EncIdle]
                ELSE [s \in Slots |-> [enc[s] EXCEPT !.dataAge = AgeTo(@, DataBurstWindow + 1)]]
        /\ UNCHANGED <<sends, mixed, lastOut, garbled>>
    BY <1>2 DEF Sweep
  <2> HIDE DEF drop
  <2>2. CASE drop
    <3>1. EncIdle \in Encoders /\ ~EncIdle.opened
      BY DEF EncIdle, Encoders, StreamNames
    <3>2. enc' \in [Slots -> Encoders] /\ \A s \in Slots : \A p : Fits(enc'[s], p)
      BY <2>1, <2>2, <3>1 DEF Fits
    <3>3. \A s \in Slots : ~mixed[s] => OnTheirWay(lastOut[s], sends[s], enc'[s])
      BY <3>2 DEF SendingInv, OnTheirWay
    <3> QED BY <2>1, <3>2, <3>3 DEF SendingInv
  <2>3. CASE ~drop
    <3>1. ASSUME NEW s \in Slots
          PROVE  enc'[s] \in Encoders /\ enc'[s].opened = enc[s].opened /\ enc'[s].tx = enc[s].tx
      <4> DEFINE n == AgeTo(enc[s].dataAge, DataBurstWindow + 1)
      <4>1. enc[s] \in Encoders
        BY DEF SendingInv
      <4>2. n \in Nat
        BY <4>1 DEF AgeTo, Encoders
      <4>3. enc'[s] = [enc[s] EXCEPT !.dataAge = n]
        BY <2>1, <2>3
      <4> HIDE DEF n
      <4>4. enc'[s] \in Encoders /\ enc'[s].tx = enc[s].tx
        BY <4>1, <4>2, <4>3 DEF Encoders
      <4>5. enc'[s].opened = enc[s].opened
        BY <4>1, <4>2, <4>3 DEF Encoders
      <4> QED BY <4>4, <4>5
    <3>2. enc' \in [Slots -> Encoders]
      BY <2>1, <2>3, <3>1
    <3>3. \A s \in Slots : ~mixed[s] => OnTheirWay(lastOut[s], sends[s], enc'[s])
      BY <3>1 DEF SendingInv, OnTheirWay, Fits
    <3> QED BY <2>1, <3>2, <3>3 DEF SendingInv
  <2> QED BY <2>2, <2>3
<1>3. ASSUME NEW s \in Slots, Hear(s) PROVE SendingInv'
  BY <1>0, <1>3 DEF Hear, HearVoice
<1>4. ASSUME NEW s \in Slots, KeyDown(s) \/ HearText(s, 50) PROVE SendingInv'
  BY <1>0, <1>4 DEF KeyDown, HearText
<1>5. ASSUME NEW s \in Slots, NEW t \in Overs, KeyUp(s, t) PROVE SendingInv'
  BY <1>0, <1>5 DEF KeyUp
<1>6. CASE Delivered
  BY <1>0, <1>6 DEF Delivered
<1>7. ASSUME NEW s \in Slots, NEW f \in OutFrames, SendVoice(s, f) \/ SendVoiceTo(s, f) PROVE SendingInv'
  BY <1>1, <1>7 DEF SendVoice, SendVoiceTo
<1>8. CASE HearControl
  BY <1>0, <1>8 DEF HearControl
<1>9. CASE SetAllowedPeers
  BY <1>0, <1>9 DEF SetAllowedPeers
<1>10. CASE UNCHANGED ipscVars
  BY <1>0, <1>10 DEF ipscVars, sideVars
<1> QED BY <1>2, <1>3, <1>4, <1>5, <1>6, <1>7, <1>8, <1>9, <1>10, <1>11
     DEF IpscNext, HearsNext, SendsNext, EitherNext

(* Whatever frames are lost, on both timeslots and across talker aliases,  *)
(* the DMR side is handed whole transmissions, each under its own name     *)
(* once its header has been heard; and whatever streams and texts are sent *)
(* to a repeater's timeslot by any number of goroutines at once, it sees   *)
(* bursts only under their own headers, as long as they write in the order *)
(* they encoded (bridge.go, Convert and continues; encode.go, Encode;      *)
(* listener.go, SendVoice).  For any transmissions, timeouts and sequence  *)
(* modulus.                                                                *)
THEOREM OversStayWhole == IpscSpec => []OversAreWhole
<1>1. IpscInit => HearingInv
  <2> SUFFICES ASSUME IpscInit PROVE HearingInv
    OBVIOUS
  <2>1. Quiet \in InFrames
    BY DEF Quiet, InFrames, Transmissions
  <2>2. GoesOnFrom(SlotIdle, Quiet)
    BY <2>1, SlotIdleIs DEF GoesOnFrom
  <2>3. [tx |-> None, fresh |-> FALSE, told |-> FALSE] \in AirSlots
    BY DEF AirSlots
  <2> QED BY <2>1, <2>2, <2>3, SlotIdleIs DEF IpscInit, HearingInv
<1>2. IpscInit => SendingInv
  <2> SUFFICES ASSUME IpscInit PROVE SendingInv
    OBVIOUS
  <2>1. EncIdle \in Encoders /\ ~EncIdle.opened
    BY DEF EncIdle, Encoders, StreamNames
  <2>2. /\ \A s \in Slots : sends[s] = <<>> /\ Len(sends[s]) = 0 /\ enc[s] = EncIdle
        /\ sends \in [Slots -> Seq(Seq(OutMessages))]
    BY DEF IpscInit
  <2>3. ASSUME NEW s \in Slots PROVE OnTheirWay(lastOut[s], sends[s], enc[s])
    <3> DEFINE q == [i \in 1..1 |-> lastOut[s]]
    <3>1. q[1] = lastOut[s] /\ 0 + 1 = 1 /\ 1..0 = {}
      OBVIOUS
    <3> HIDE DEF q
    <3> QED BY <2>1, <2>2, <3>1 DEF OnTheirWay, Fits
  <2> QED BY <2>1, <2>2, <2>3 DEF IpscInit, SendingInv
<1>3. HearingInv /\ [IpscNext]_ipscVars => HearingInv'
  BY HearingStep
<1>4. SendingInv /\ [IpscNext]_ipscVars => SendingInv'
  BY SendingStep
<1>5. HearingInv /\ SendingInv => OversAreWhole
  BY DEF HearingInv, SendingInv, OversAreWhole
<1> QED BY <1>1, <1>2, <1>3, <1>4, <1>5, PTL DEF IpscSpec

(***************************************************************************)
(* Zello                                                                   *)
(***************************************************************************)
ZelloSpec == ZelloInit /\ [][Zelloing]_zelloVars

Pumps == [at : {"away", "select", "opening", "closing", "leaving", "left", "draining"},
          then : {"", "audio"}, toZello : BOOLEAN, toRadio : BOOLEAN,
          playing : Voices \cup {0}, stopped : Voices \cup {0}]
ZelloSessions == [seq : Nat, id : Nat, reply : {"", "ok", "refused"}]
ZelloBridges == [keyed : BOOLEAN, packed : Int, on : BOOLEAN, stream : Voices \cup {0}]
Commands == [command : {"start", "stop"}, seq : Nat, id : Nat]
WireMessages == [kind : {"reply", "audio", "stop"}, of : Nat \cup Voices, ok : BOOLEAN]
Servers == [up : BOOLEAN, asked : Seq(Commands), open : SUBSET Nat, wire : Seq(WireMessages),
            silent : SUBSET Voices, spoken : Nat]

ZelloTypeOK ==
  /\ pump \in Pumps
  /\ sess \in ZelloSessions
  /\ bridge \in ZelloBridges
  /\ heard \in [audio : Seq(Voices), events : Seq(Voices)]
  /\ far \in Servers
  /\ \A i \in DOMAIN far.wire : far.wire[i].kind # "reply" => far.wire[i].of \in Voices

(* Between two sessions nothing is kept, and of a connection that is lost  *)
(* nothing is left to be read or answered.                                 *)
NothingIsKept ==
  /\ pump.at = "away" =>
       /\ pump = Away /\ sess = NewSession /\ bridge = NewBridge
       /\ heard = [audio |-> <<>>, events |-> <<>>]
       /\ ~far.up /\ over = {}
  /\ ~far.up => far.asked = <<>> /\ far.open = {} /\ far.wire = <<>>

(* Replies and requests go by numbers of their own, and no stream has been *)
(* given to the session while it waits.                                    *)
CommandsAreNumbered ==
  /\ Waits => sess.id = 0
  /\ \A i \in DOMAIN far.asked : far.asked[i].seq \in 1..sess.seq
  /\ \A i, j \in DOMAIN far.asked : far.asked[i].seq = far.asked[j].seq => i = j
  /\ \A i \in DOMAIN far.wire : far.wire[i].kind = "reply" =>
       /\ far.wire[i].of \in 1..sess.seq
       /\ \A j \in DOMAIN far.asked : far.wire[i].of # far.asked[j].seq
  /\ far.open \subseteq 1..sess.seq

(* The start that is on its way is the one the pump waits for, and one     *)
(* that was refused or is not yet answered has opened nothing.             *)
StartIsOnItsWay ==
  \A i \in DOMAIN far.asked : far.asked[i].command = "start" =>
    pump.at = "opening" /\ far.asked[i].seq = sess.seq /\ sess.reply = ""

Unopened ==
  \/ \E i \in DOMAIN far.asked : far.asked[i].command = "start"
  \/ sess.reply = "refused"
  \/ \E i \in DOMAIN far.wire : far.wire[i].kind = "reply" /\ far.wire[i].of = sess.seq /\ ~far.wire[i].ok

IsToClose(id) == \E i \in DOMAIN far.asked : far.asked[i].command = "stop" /\ far.asked[i].id = id

IsMinded(id) ==
  \/ id = sess.id /\ bridge.keyed /\ pump.toZello
  \/ id = sess.seq /\ pump.at = "opening"
  \/ IsToClose(id)

OpenIsMinded == \A id \in far.open : IsMinded(id)

StreamsAreMinded ==
  "unanswered" \notin faults =>
    /\ StartIsOnItsWay
    /\ pump.at = "opening" /\ Unopened => sess.seq \notin far.open
    /\ OpenIsMinded

(* The bridge is on only for what the pump plays; with every write done,   *)
(* the far end of the socket is as the bridge has it.                      *)
RadioIsMinded ==
  /\ bridge.on => pump.toRadio /\ bridge.stream = pump.playing
  /\ "unwritten" \notin faults => /\ radio => bridge.on
                                  /\ bridge.stream # 0 => bridge.on

(* No more audio of a stream is to be read.                                *)
SaidAll(v) ==
  v \in far.silent /\ \A i \in DOMAIN far.wire : far.wire[i].kind = "audio" => far.wire[i].of # v

StopsComeLast ==
  /\ \A i \in DOMAIN far.wire : far.wire[i].kind = "stop" =>
       /\ far.wire[i].of \in far.silent
       /\ \A j \in DOMAIN far.wire :
            j > i /\ far.wire[j].kind = "audio" => far.wire[j].of # far.wire[i].of
  /\ \A i \in DOMAIN heard.events : SaidAll(heard.events[i])
  /\ pump.at = "draining" => pump.stopped \in Voices /\ SaidAll(pump.stopped)
  /\ \A v \in over : SaidAll(v) /\ \A i \in DOMAIN heard.audio : heard.audio[i] # v
  /\ StoppedStaysStopped

ZelloInv ==
  ZelloTypeOK /\ NothingIsKept /\ CommandsAreNumbered /\ StreamsAreMinded /\ RadioIsMinded /\ StopsComeLast

LEMMA ZelloInvImplies == ZelloInv => ConnectorLetsGo
<1> SUFFICES ASSUME ZelloInv PROVE ConnectorLetsGo
  OBVIOUS
<1>1. "unanswered" \notin faults => OpenIsMinded
  BY DEF ZelloInv, StreamsAreMinded
<1>2. radio /\ "unwritten" \notin faults => bridge.on /\ pump.toRadio /\ bridge.stream = pump.playing
  BY DEF ZelloInv, RadioIsMinded
<1>3. StoppedStaysStopped
  BY DEF ZelloInv, StopsComeLast
<1> QED BY <1>1, <1>2, <1>3 DEF ConnectorLetsGo, NothingIsHeldOpen, OpenIsMinded, IsMinded, IsToClose

(* What a queue holds after one more.                                      *)
LEMMA Pushes ==
  ASSUME NEW S, NEW s \in Seq(S), NEW e \in S
  PROVE  /\ Append(s, e) \in Seq(S) /\ Append(s, e) # <<>>
         /\ \A i \in DOMAIN Append(s, e) :
              \/ i \in DOMAIN s /\ Append(s, e)[i] = s[i]
              \/ i = Len(s) + 1 /\ Append(s, e)[i] = e
         /\ \A i \in DOMAIN s : i \in DOMAIN Append(s, e) /\ Append(s, e)[i] = s[i] /\ i < Len(s) + 1
         /\ Len(s) + 1 \in DOMAIN Append(s, e) /\ Append(s, e)[Len(s) + 1] = e
         /\ \A i \in DOMAIN s : i \in Nat
<1>1. DOMAIN s = 1..Len(s) /\ Len(s) \in Nat
  BY LenProperties
<1>2. /\ Append(s, e) \in Seq(S) /\ Append(s, e) # <<>> /\ Len(Append(s, e)) = Len(s) + 1
      /\ \A i \in 1..Len(s) : Append(s, e)[i] = s[i]
      /\ Append(s, e)[Len(s) + 1] = e
  BY AppendProperties
<1>3. DOMAIN Append(s, e) = 1..(Len(s) + 1)
  BY <1>2, LenProperties
<1> QED BY <1>1, <1>2, <1>3

(* What is left when the first is taken.                                   *)
LEMMA Pops ==
  ASSUME NEW S, NEW s \in Seq(S), s # <<>>
  PROVE  /\ Tail(s) \in Seq(S) /\ Head(s) \in S
         /\ 1 \in DOMAIN s /\ Head(s) = s[1]
         /\ \A i \in DOMAIN Tail(s) : i \in Nat /\ i + 1 \in DOMAIN s /\ Tail(s)[i] = s[i + 1]
         /\ \A i \in DOMAIN s : i \in Nat /\ (i # 1 => i - 1 \in DOMAIN Tail(s) /\ Tail(s)[i - 1] = s[i])
<1>1. DOMAIN s = 1..Len(s) /\ Len(s) \in Nat
  BY LenProperties
<1>2. /\ Tail(s) \in Seq(S) /\ Head(s) \in S /\ Head(s) = s[1] /\ Len(Tail(s)) = Len(s) - 1
      /\ \A i \in 1..Len(Tail(s)) : Tail(s)[i] = s[i + 1]
  BY HeadTailProperties
<1>3. Len(s) # 0
  BY <1>1, EmptySeq
<1>4. DOMAIN Tail(s) = 1..(Len(s) - 1)
  BY <1>2, LenProperties
<1> QED BY <1>1, <1>2, <1>3, <1>4

LEMMA ZelloInitInv == ZelloInit => ZelloInv
<1> SUFFICES ASSUME ZelloInit PROVE ZelloInv
  OBVIOUS
<1>0. /\ pump = Away /\ sess = NewSession /\ bridge = NewBridge
      /\ heard = [audio |-> <<>>, events |-> <<>>]
      /\ frames = <<>> /\ far = NoServer /\ radio = FALSE /\ faults = {} /\ over = {}
  BY DEF ZelloInit
<1>1. ZelloTypeOK
  <2>1. <<>> \in Seq(Voices) /\ <<>> \in Seq(Commands) /\ <<>> \in Seq(WireMessages) /\ DOMAIN <<>> = {}
    OBVIOUS
  <2>2. Away \in Pumps /\ NewSession \in ZelloSessions /\ NewBridge \in ZelloBridges
    BY DEF Away, NewSession, NewBridge, Pumps, ZelloSessions, ZelloBridges
  <2>3. NoServer \in Servers /\ NoServer.wire = <<>>
    BY <2>1 DEF NoServer, Servers
  <2>4. heard \in [audio : Seq(Voices), events : Seq(Voices)]
    BY <1>0, <2>1
  <2>5. \A i \in DOMAIN far.wire : far.wire[i].kind # "reply" => far.wire[i].of \in Voices
    BY <1>0, <2>1, <2>3
  <2> QED BY <1>0, <2>2, <2>3, <2>4, <2>5 DEF ZelloTypeOK
<1>2. NothingIsKept
  BY <1>0 DEF NothingIsKept, NoServer
<1>3. far.asked = <<>> /\ far.wire = <<>> /\ far.open = {} /\ pump.at = "away" /\ bridge.on = FALSE /\ bridge.stream = 0
  BY <1>0 DEF NoServer, Away, NewBridge
<1>4. DOMAIN <<>> = {}
  OBVIOUS
<1>5. CommandsAreNumbered
  BY <1>3, <1>4 DEF CommandsAreNumbered, Waits
<1>6. StreamsAreMinded
  BY <1>3, <1>4 DEF StreamsAreMinded, StartIsOnItsWay, OpenIsMinded
<1>7. RadioIsMinded
  BY <1>0, <1>3 DEF RadioIsMinded
<1>8. StopsComeLast
  <2>1. heard.events = <<>>
    BY <1>0
  <2> QED BY <1>0, <1>3, <1>4, <2>1 DEF StopsComeLast, StoppedStaysStopped
<1> QED BY <1>1, <1>2, <1>5, <1>6, <1>7, <1>8 DEF ZelloInv

(* The bridge with its side to Zello set.                                  *)
LEMMA BridgeSet ==
  ASSUME NEW b \in ZelloBridges, NEW k \in BOOLEAN, NEW n \in Int
  PROVE  /\ [b EXCEPT !.keyed = k, !.packed = n] \in ZelloBridges
         /\ [b EXCEPT !.packed = n] \in ZelloBridges
BY DEF ZelloBridges

(* Every step keeps the types.                                             *)
LEMMA ZelloTypeStep ==
  ASSUME ZelloTypeOK, Zelloing
  PROVE  ZelloTypeOK'
<1> DEFINE WireOK == \A i \in DOMAIN far.wire : far.wire[i].kind # "reply" => far.wire[i].of \in Voices
<1>0. /\ pump \in Pumps /\ sess \in ZelloSessions /\ bridge \in ZelloBridges
      /\ heard \in [audio : Seq(Voices), events : Seq(Voices)] /\ far \in Servers
  BY DEF ZelloTypeOK
<1>o. WireOK
  BY DEF ZelloTypeOK
<1>i. sess.seq \in Nat /\ sess.id \in Nat
  BY <1>0 DEF ZelloSessions
<1>f. sess.seq \in Nat /\ sess.id \in Nat /\ sess.seq + 1 \in Nat
  BY <1>i
<1>g. far.asked \in Seq(Commands) /\ far.wire \in Seq(WireMessages) /\ far.spoken \in Nat /\ far.spoken + 1 \in Nat
  BY <1>0 DEF Servers
<1>p. FramesPerPacket \in Nat \ {0}
  BY ZelloAssumption DEF ZelloAssumption
<1>n. NoServer \in Servers /\ NoServer.wire = <<>> /\ DOMAIN <<>> = {} /\ <<>> \in Seq(Voices)
  BY DEF NoServer, Servers
<1>a. Away \in Pumps /\ NewSession \in ZelloSessions /\ NewBridge \in ZelloBridges
  BY DEF Away, NewSession, NewBridge, Pumps, ZelloSessions, ZelloBridges
<1>w. ASSUME far'.wire = far.wire PROVE WireOK'
  BY <1>o, <1>w
<1>s. ASSUME NEW command \in {"start", "stop"}, NEW id \in Nat, Sends(command, id)
      PROVE  sess' \in ZelloSessions /\ far' \in Servers /\ WireOK'
  <2> DEFINE c == [command |-> command, seq |-> sess.seq + 1, id |-> id]
  <2>1. far' = [far EXCEPT !.asked = Append(@, c)]
    BY <1>s DEF Sends
  <2>2. c \in Commands
    BY <1>f DEF Commands
  <2> HIDE DEF c
  <2>3. Append(far.asked, c) \in Seq(Commands)
    BY <1>0, <2>2, Pushes DEF Servers
  <2>4. far' \in Servers /\ far'.wire = far.wire
    BY <1>0, <2>1, <2>3 DEF Servers
  <2>5. sess' \in ZelloSessions
    <3>1. sess' = [seq |-> sess.seq + 1, id |-> IF command = "stop" THEN 0 ELSE sess.id, reply |-> ""]
      BY <1>s DEF Sends
    <3>2. (IF command = "stop" THEN 0 ELSE sess.id) \in Nat
      BY <1>f
    <3> QED BY <1>f, <3>1, <3>2 DEF ZelloSessions
  <2> QED BY <1>w, <2>4, <2>5
<1>u. ASSUME StopsUnsaid PROVE sess' \in ZelloSessions /\ far' = far
  BY <1>0, <1>u DEF StopsUnsaid, ZelloSessions
<1>r. ASSUME NEW a \in {"closing", "leaving"}, NEW b \in {"select", "left"}, RadioRelease(a, b)
      PROVE  pump' \in Pumps /\ sess' \in ZelloSessions /\ bridge' \in ZelloBridges /\ far' \in Servers /\ WireOK'
  <2>1. bridge' \in ZelloBridges
    <3>1. bridge' = [bridge EXCEPT !.keyed = FALSE, !.packed = 0]
      BY <1>r DEF RadioRelease
    <3>2. 0 \in Int /\ FALSE \in BOOLEAN
      OBVIOUS
    <3> QED BY <1>0, <3>1, <3>2, BridgeSet
  <2>2. pump' \in Pumps
    BY <1>0, <1>r DEF RadioRelease, Pumps
  <2>3. sess.id \in Nat
    BY <1>0 DEF ZelloSessions
  <2> QED BY <1>0, <1>o, <1>r, <1>s, <1>u, <1>w, <2>1, <2>2, <2>3 DEF RadioRelease
<1>k. ASSUME NEW t \in {"", "audio"}, RadioKeyup(t)
      PROVE  pump' \in Pumps /\ sess' \in ZelloSessions /\ far' \in Servers /\ WireOK'
  <2>1. CASE far.up /\ sess.id = 0
    <3>1. pump' \in Pumps
      BY <1>0, <1>k, <2>1 DEF RadioKeyup, Pumps
    <3>2. Sends("start", 0)
      BY <1>k, <2>1 DEF RadioKeyup
    <3> QED BY <1>s, <3>1, <3>2
  <2>2. CASE ~(far.up /\ sess.id = 0)
    BY <1>0, <1>o, <1>k, <2>2 DEF RadioKeyup
  <2> QED BY <2>1, <2>2
<1>1. ASSUME NEW opens \in BOOLEAN, ServerAnswers(opens) PROVE ZelloTypeOK'
  <2> DEFINE c == Head(far.asked)
             o == IF c.command = "stop" THEN far.open \ {c.id} ELSE IF opens THEN far.open \cup {c.seq} ELSE far.open
             m == [kind |-> "reply", of |-> c.seq, ok |-> opens \/ c.command = "stop"]
  <2>1. far' = [far EXCEPT !.asked = Tail(@), !.open = o, !.wire = Append(@, m)]
    BY <1>0, <1>1 DEF ServerAnswers, Servers
  <2>2. c \in Commands /\ Tail(far.asked) \in Seq(Commands)
    BY <1>0, <1>1, Pops DEF ServerAnswers, Servers
  <2>3. o \in SUBSET Nat
    BY <1>0, <2>2 DEF Servers, Commands
  <2>4. m \in WireMessages /\ m.kind = "reply"
    BY <2>2 DEF WireMessages, Commands
  <2> HIDE DEF o, m, c
  <2>5. far.wire \in Seq(WireMessages)
    BY <1>0 DEF Servers
  <2>6. /\ Append(far.wire, m) \in Seq(WireMessages)
        /\ \A i \in DOMAIN Append(far.wire, m) :
             (i \in DOMAIN far.wire /\ Append(far.wire, m)[i] = far.wire[i]) \/ Append(far.wire, m)[i] = m
    BY <2>4, <2>5, Pushes
  <2>7. far' \in Servers /\ far'.wire = Append(far.wire, m)
    BY <1>0, <2>1, <2>2, <2>3, <2>6 DEF Servers
  <2>8. WireOK'
    BY <1>o, <2>4, <2>6, <2>7
  <2> QED BY <1>0, <1>1, <2>7, <2>8 DEF ZelloTypeOK, ServerAnswers
<1>2. ASSUME NEW v \in Voices, NEW last \in BOOLEAN, Speaks(v, last) PROVE ZelloTypeOK'
  <2> DEFINE m == [kind |-> IF last THEN "stop" ELSE "audio", of |-> v, ok |-> TRUE]
             q == IF last THEN far.silent \cup {v} ELSE far.silent
  <2>1. far' = [far EXCEPT !.wire = Append(@, m), !.silent = q, !.spoken = @ + 1]
    BY <1>0, <1>2 DEF Speaks, Servers
  <2>4. m \in WireMessages /\ m.of = v /\ q \in SUBSET Voices
    BY <1>0 DEF WireMessages, Servers
  <2> HIDE DEF q, m
  <2>5. far.wire \in Seq(WireMessages)
    BY <1>0 DEF Servers
  <2>6. /\ Append(far.wire, m) \in Seq(WireMessages)
        /\ \A i \in DOMAIN Append(far.wire, m) :
             (i \in DOMAIN far.wire /\ Append(far.wire, m)[i] = far.wire[i]) \/ Append(far.wire, m)[i] = m
    BY <2>4, <2>5, Pushes
  <2>7. far' \in Servers /\ far'.wire = Append(far.wire, m)
    BY <1>0, <1>g, <2>1, <2>4, <2>6 DEF Servers
  <2>8. WireOK'
    BY <1>o, <2>4, <2>6, <2>7
  <2> QED BY <1>0, <1>2, <2>7, <2>8 DEF ZelloTypeOK, Speaks
<1>3. CASE Loses
  <2>1. far' \in Servers /\ far'.wire = <<>>
    <3>1. far' = [NoServer EXCEPT !.spoken = far.spoken]
      BY <1>3 DEF Loses
    <3> QED BY <1>g, <1>n, <3>1 DEF Servers
  <2> QED BY <1>0, <1>3, <1>n, <2>1 DEF ZelloTypeOK, Loses
<1>4. CASE Read
  <2> DEFINE m == Head(far.wire)
  <2>1. /\ m \in WireMessages /\ Tail(far.wire) \in Seq(WireMessages)
        /\ 1 \in DOMAIN far.wire /\ m = far.wire[1]
        /\ \A i \in DOMAIN Tail(far.wire) : i + 1 \in DOMAIN far.wire /\ Tail(far.wire)[i] = far.wire[i + 1]
    <3>1. far.wire # <<>>
      BY <1>4 DEF Read
    <3> QED BY <1>g, <3>1, Pops
  <2>2. m.kind \in {"audio", "stop"} => m.of \in Voices
    BY <1>o, <2>1
  <2>3. sess' \in ZelloSessions
    BY <1>0, <1>4 DEF Read, ZelloSessions
  <2>4. heard' \in [audio : Seq(Voices), events : Seq(Voices)]
    <3>1. \/ heard' = heard
          \/ m.kind = "audio" /\ heard' = [heard EXCEPT !.audio = Append(@, m.of)]
          \/ m.kind = "stop" /\ heard' = [heard EXCEPT !.events = Append(@, m.of)]
      BY <1>4 DEF Read
    <3> HIDE DEF m
    <3>2. m.of \in Voices => Append(heard.audio, m.of) \in Seq(Voices) /\ Append(heard.events, m.of) \in Seq(Voices)
      BY <1>0, Pushes
    <3> QED BY <1>0, <2>2, <3>1, <3>2
  <2>5. far' \in Servers /\ far'.wire = Tail(far.wire)
    BY <1>0, <1>4, <2>1 DEF Read, Servers
  <2>6. WireOK'
    BY <1>o, <2>1, <2>5
  <2> QED BY <1>0, <1>4, <2>3, <2>4, <2>5, <2>6 DEF ZelloTypeOK, Read
<1>5. ASSUME NEW wrote \in Wrote, TakesAudio(wrote) PROVE ZelloTypeOK'
  <2>1. Head(heard.audio) \in Voices /\ Tail(heard.audio) \in Seq(Voices)
    BY <1>0, <1>5, Pops DEF TakesAudio
  <2>2. wrote.keyup \in BOOLEAN
    BY DEF Wrote
  <2>3. pump' \in Pumps
    BY <1>0, <1>5, <2>1 DEF TakesAudio, Plays, Pumps
  <2>4. bridge' \in ZelloBridges
    BY <1>0, <1>5, <2>1, <2>2 DEF TakesAudio, Plays, ZelloPacket, ZelloBridges
  <2>5. heard' \in [audio : Seq(Voices), events : Seq(Voices)]
    BY <1>0, <1>5, <2>1 DEF TakesAudio
  <2> QED BY <1>0, <1>o, <1>5, <2>3, <2>4, <2>5 DEF ZelloTypeOK, TakesAudio
<1>6. CASE TakesStop
  <2>1. Head(heard.events) \in Voices /\ Tail(heard.events) \in Seq(Voices)
    BY <1>0, <1>6, Pops DEF TakesStop
  <2>2. pump' \in Pumps
    BY <1>0, <1>6, <2>1 DEF TakesStop, Pumps
  <2>3. heard' \in [audio : Seq(Voices), events : Seq(Voices)]
    BY <1>0, <1>6, <2>1 DEF TakesStop
  <2> QED BY <1>0, <1>o, <1>6, <2>2, <2>3 DEF ZelloTypeOK, TakesStop
<1>7. ASSUME NEW written \in BOOLEAN, ActsOnStop(written) \/ TicksRadio(written) PROVE ZelloTypeOK'
  <2>1. bridge' \in ZelloBridges
    BY <1>0, <1>7 DEF ActsOnStop, TicksRadio, StopRadio, Finished, ZelloBridges
  <2>2. pump' \in Pumps
    BY <1>0, <1>7 DEF ActsOnStop, TicksRadio, Pumps
  <2> QED BY <1>0, <1>o, <1>7, <2>1, <2>2 DEF ZelloTypeOK, ActsOnStop, TicksRadio
<1>8. CASE TakesFrame
  <2>0. heard' = heard
    BY <1>8 DEF TakesFrame
  <2>p. Packs(bridge) \in ZelloBridges
    <3>1. bridge.packed \in Int
      BY <1>0 DEF ZelloBridges
    <3>2. (bridge.packed + 1) % FramesPerPacket \in Int
      BY <1>p, <3>1
    <3> QED BY <1>0, <3>2 DEF Packs, ZelloBridges
  <2>1. pump' \in Pumps /\ sess' \in ZelloSessions /\ bridge' \in ZelloBridges /\ far' \in Servers /\ WireOK'
    BY <1>0, <1>o, <1>8, <1>r, <1>k, <1>w, <2>p DEF TakesFrame
  <2> QED BY <1>0, <2>0, <2>1 DEF ZelloTypeOK
<1>9. CASE TicksZello \/ Leaves
  <2>0. heard' = heard
    BY <1>9 DEF TicksZello, Leaves
  <2>p. [pump EXCEPT !.at = "left"] \in Pumps
    BY <1>0 DEF Pumps
  <2>1. pump' \in Pumps /\ sess' \in ZelloSessions /\ bridge' \in ZelloBridges /\ far' \in Servers /\ WireOK'
    BY <1>0, <1>o, <1>9, <1>r, <1>w, <2>p DEF TicksZello, Leaves
  <2> QED BY <1>0, <2>0, <2>1 DEF ZelloTypeOK
<1>10. ASSUME NEW how, StartReturns(how) PROVE ZelloTypeOK'
  <2>1. sess' \in ZelloSessions
    BY <1>0, <1>10 DEF StartReturns, ZelloSessions
  <2>2. bridge' \in ZelloBridges
    <3> DEFINE n == IF pump.then = "audio" THEN 1 % FramesPerPacket ELSE 0
    <3>1. \/ bridge' = [bridge EXCEPT !.keyed = TRUE, !.packed = n]
          \/ bridge' = [bridge EXCEPT !.packed = 0]
      BY <1>10 DEF StartReturns
    <3>2. n \in Int
      BY <1>p
    <3> HIDE DEF n
    <3>3. 0 \in Int /\ TRUE \in BOOLEAN
      OBVIOUS
    <3> QED BY <1>0, <3>1, <3>2, <3>3, BridgeSet
  <2>3. pump' \in Pumps
    BY <1>0, <1>10 DEF StartReturns, Pumps
  <2> QED BY <1>0, <1>o, <1>10, <2>1, <2>2, <2>3 DEF ZelloTypeOK, StartReturns
<1>11. ASSUME NEW how, StopReturns(how) PROVE ZelloTypeOK'
  <2>1. sess' \in ZelloSessions
    BY <1>0, <1>11 DEF StopReturns, ZelloSessions
  <2>3. pump' \in Pumps
    BY <1>0, <1>11 DEF StopReturns, Pumps
  <2> QED BY <1>0, <1>o, <1>11, <2>1, <2>3 DEF ZelloTypeOK, StopReturns
<1>12. ASSUME NEW written, NEW told, Left(written, told) PROVE ZelloTypeOK'
  <2>1. far' \in Servers /\ far'.wire = <<>>
    <3>1. far' = [NoServer EXCEPT !.spoken = far.spoken]
      BY <1>12 DEF Left
    <3> QED BY <1>g, <1>n, <3>1 DEF Servers
  <2>2. heard' \in [audio : Seq(Voices), events : Seq(Voices)]
    BY <1>12, <1>n DEF Left
  <2> QED BY <1>12, <1>a, <1>n, <2>1, <2>2 DEF ZelloTypeOK, Left
<1>13. CASE Connects
  <2>1. far' \in Servers /\ far'.wire = far.wire
    BY <1>0, <1>13 DEF Connects, Servers
  <2>2. pump' \in Pumps
    BY <1>a, <1>13 DEF Connects, Pumps
  <2> QED BY <1>0, <1>13, <1>w, <2>1, <2>2 DEF ZelloTypeOK, Connects
<1>14. CASE DrainsFor \/ (\E why \in Failures : LogonFails(why)) \/ \E f \in UsrpFrames : Receive(f)
  BY <1>0, <1>o, <1>14 DEF ZelloTypeOK, DrainsFor, LogonFails, Receive
<1> QED BY <1>1, <1>2, <1>3, <1>4, <1>5, <1>6, <1>7, <1>8, <1>9, <1>10, <1>11, <1>12, <1>13, <1>14
        DEF Zelloing, Pumping, Connecting, Outside

(* What each of the invariants depends on.                                 *)
LEMMA CommandsSame ==
  ASSUME CommandsAreNumbered, far'.asked = far.asked, far'.wire = far.wire, far'.open = far.open,
         sess'.seq = sess.seq, Waits' => sess'.id = 0
  PROVE  CommandsAreNumbered'
BY DEF CommandsAreNumbered

LEMMA StreamsSame ==
  ASSUME StreamsAreMinded, far'.asked = far.asked, far'.wire = far.wire, far'.open = far.open,
         sess'.seq = sess.seq, sess'.id = sess.id, sess'.reply = sess.reply,
         bridge'.keyed = bridge.keyed, pump'.toZello = pump.toZello,
         pump.at = "opening" <=> pump'.at = "opening", faults \subseteq faults'
  PROVE  StreamsAreMinded'
<1> SUFFICES ASSUME "unanswered" \notin faults'
             PROVE  /\ StartIsOnItsWay' /\ OpenIsMinded'
                    /\ pump'.at = "opening" /\ Unopened' => sess'.seq \notin far'.open
  BY DEF StreamsAreMinded
<1>1. /\ StartIsOnItsWay /\ OpenIsMinded
      /\ pump.at = "opening" /\ Unopened => sess.seq \notin far.open
  BY DEF StreamsAreMinded
<1>2. Unopened' => Unopened
  BY DEF Unopened
<1>3. StartIsOnItsWay'
  BY <1>1 DEF StartIsOnItsWay
<1>4. OpenIsMinded'
  BY <1>1 DEF OpenIsMinded, IsMinded, IsToClose
<1> QED BY <1>1, <1>2, <1>3, <1>4

(* No stream has the number 0, or that of the next command.                *)
LEMMA OpenNumbers ==
  ASSUME ZelloTypeOK, CommandsAreNumbered
  PROVE  /\ sess.seq \in Nat /\ sess.id \in Nat
         /\ 0 \notin far.open /\ sess.seq + 1 \notin far.open
<1>1. sess.seq \in Nat /\ sess.id \in Nat
  BY DEF ZelloTypeOK, ZelloSessions
<1>2. 0 \notin 1..sess.seq /\ sess.seq + 1 \notin 1..sess.seq
  BY <1>1
<1> QED BY <1>1, <1>2 DEF CommandsAreNumbered

LEMMA RadioSame ==
  ASSUME RadioIsMinded, bridge'.on = bridge.on, bridge'.stream = bridge.stream,
         pump'.toRadio = pump.toRadio, pump'.playing = pump.playing, radio' = radio,
         faults \subseteq faults'
  PROVE  RadioIsMinded'
BY DEF RadioIsMinded

LEMMA StopsSame ==
  ASSUME StopsComeLast, far'.wire = far.wire, far'.silent = far.silent, heard' = heard, over' = over,
         pump'.at = "draining" => pump.at = "draining" /\ pump'.stopped = pump.stopped,
         bridge'.on => bridge.on /\ bridge'.stream = bridge.stream
  PROVE  StopsComeLast'
BY DEF StopsComeLast, SaidAll, StoppedStaysStopped

LEMMA FaultsGrow ==
  ASSUME NEW f, NEW happened \in BOOLEAN, Fault(f, happened)
  PROVE  faults \subseteq faults' /\ (happened => f \in faults')
BY DEF Fault

(* A command that is sent is the last, and has a number of its own.        *)
LEMMA SendsView ==
  ASSUME ZelloTypeOK, NEW command \in {"start", "stop"}, NEW id \in Nat, Sends(command, id)
  PROVE  LET c == [command |-> command, seq |-> sess.seq + 1, id |-> id]
         IN  /\ sess'.seq = sess.seq + 1 /\ sess'.id = (IF command = "stop" THEN 0 ELSE sess.id)
             /\ sess'.reply = ""
             /\ far'.open = far.open /\ far'.wire = far.wire /\ far'.silent = far.silent /\ far'.up = far.up
             /\ \A i \in DOMAIN far'.asked : \/ i \in DOMAIN far.asked /\ far'.asked[i] = far.asked[i]
                                             \/ i = Len(far.asked) + 1 /\ far'.asked[i] = c
             /\ \A i \in DOMAIN far.asked : i \in DOMAIN far'.asked /\ far'.asked[i] = far.asked[i]
             /\ Len(far.asked) + 1 \in DOMAIN far'.asked /\ far'.asked[Len(far.asked) + 1] = c
<1> DEFINE c == [command |-> command, seq |-> sess.seq + 1, id |-> id]
<1>1. far' = [far EXCEPT !.asked = Append(@, c)]
  BY DEF Sends
<1>2. sess.seq \in Nat
  BY DEF ZelloTypeOK, ZelloSessions
<1>3. c \in Commands
  BY <1>2 DEF Commands
<1>4. /\ sess'.seq = sess.seq + 1 /\ sess'.id = (IF command = "stop" THEN 0 ELSE sess.id) /\ sess'.reply = ""
  BY DEF Sends
<1> HIDE DEF c
<1>5. far \in Servers /\ far.asked \in Seq(Commands)
  BY DEF ZelloTypeOK, Servers
<1>6. /\ far'.asked = Append(far.asked, c) /\ far'.open = far.open /\ far'.wire = far.wire
      /\ far'.silent = far.silent /\ far'.up = far.up
  BY <1>1, <1>5 DEF Servers
<1>7. /\ \A i \in DOMAIN far'.asked : \/ i \in DOMAIN far.asked /\ far'.asked[i] = far.asked[i]
                                      \/ i = Len(far.asked) + 1 /\ far'.asked[i] = c
      /\ \A i \in DOMAIN far.asked : i \in DOMAIN far'.asked /\ far'.asked[i] = far.asked[i]
      /\ Len(far.asked) + 1 \in DOMAIN far'.asked /\ far'.asked[Len(far.asked) + 1] = c
  BY <1>3, <1>5, <1>6, Pushes
<1> QED BY <1>4, <1>6, <1>7 DEF c

LEMMA SendsNumbers ==
  ASSUME ZelloTypeOK, CommandsAreNumbered, NEW command \in {"start", "stop"}, NEW id \in Nat,
         Sends(command, id), sess.id = 0 \/ command = "stop"
  PROVE  CommandsAreNumbered'
<1> DEFINE c == [command |-> command, seq |-> sess.seq + 1, id |-> id]
           n == sess.seq + 1
<1>1. c.seq = n /\ n \in Nat /\ sess.seq \in Nat /\ n > sess.seq
  <2>1. sess.seq \in Nat
    BY DEF ZelloTypeOK, ZelloSessions
  <2> QED BY <2>1
<1>2. /\ sess'.seq = n /\ sess'.id = 0
      /\ far'.open = far.open /\ far'.wire = far.wire
      /\ \A i \in DOMAIN far'.asked : \/ i \in DOMAIN far.asked /\ far'.asked[i] = far.asked[i]
                                      \/ i = Len(far.asked) + 1 /\ far'.asked[i] = c
  BY SendsView
<1> HIDE DEF c, n
<1>3. \A k \in 1..sess.seq : k \in 1..n /\ k # n
  BY <1>1
<1>4. n \in 1..n
  BY <1>1
<1>5. \A i \in DOMAIN far'.asked : far'.asked[i].seq \in 1..n
  BY <1>1, <1>2, <1>3, <1>4 DEF CommandsAreNumbered
<1>6. \A i, j \in DOMAIN far'.asked : far'.asked[i].seq = far'.asked[j].seq => i = j
  BY <1>1, <1>2, <1>3 DEF CommandsAreNumbered
<1>7. \A i \in DOMAIN far'.wire : far'.wire[i].kind = "reply" =>
        /\ far'.wire[i].of \in 1..n
        /\ \A j \in DOMAIN far'.asked : far'.wire[i].of # far'.asked[j].seq
  BY <1>1, <1>2, <1>3 DEF CommandsAreNumbered
<1>8. far'.open \subseteq 1..n
  BY <1>2, <1>3 DEF CommandsAreNumbered
<1> QED BY <1>2, <1>5, <1>6, <1>7, <1>8 DEF CommandsAreNumbered

(* RadioKeyup, from a pump that is not waiting.                            *)
LEMMA KeyupStep ==
  ASSUME ZelloInv, Selects, NEW then \in {"", "audio"}, RadioKeyup(then),
         UNCHANGED <<bridge, heard, radio, faults, over>>
  PROVE  NothingIsKept' /\ CommandsAreNumbered' /\ StreamsAreMinded' /\ RadioIsMinded' /\ StopsComeLast'
<1>0. /\ ZelloTypeOK /\ NothingIsKept /\ CommandsAreNumbered /\ StreamsAreMinded /\ RadioIsMinded
      /\ StopsComeLast /\ pump.at = "select" /\ pump \in Pumps
  BY DEF ZelloInv, Selects, ZelloTypeOK
<1>1. CASE ~(far.up /\ sess.id = 0)
  <2>1. UNCHANGED <<pump, sess, far>>
    BY <1>1 DEF RadioKeyup
  <2>2. NothingIsKept'
    BY <1>0, <2>1 DEF NothingIsKept
  <2>3. Waits' => sess'.id = 0
    BY <1>0, <2>1 DEF Waits
  <2> QED BY <1>0, <2>1, <2>2, <2>3, CommandsSame, StreamsSame, RadioSame, StopsSame
<1>2. CASE far.up /\ sess.id = 0
  <2>1. Sends("start", 0) /\ "start" \in {"start", "stop"} /\ 0 \in Nat /\ "start" # "stop"
    BY <1>2 DEF RadioKeyup
  <2>2. /\ pump'.at = "opening" /\ pump'.toZello = pump.toZello /\ pump'.toRadio = pump.toRadio
        /\ pump'.playing = pump.playing
    BY <1>0, <1>2 DEF RadioKeyup, Pumps
  <2> DEFINE c == [command |-> "start", seq |-> sess.seq + 1, id |-> 0]
  <2>3. /\ sess'.seq = sess.seq + 1 /\ sess'.id = 0 /\ sess'.reply = ""
        /\ far'.open = far.open /\ far'.wire = far.wire /\ far'.silent = far.silent /\ far'.up
        /\ \A i \in DOMAIN far'.asked : \/ i \in DOMAIN far.asked /\ far'.asked[i] = far.asked[i]
                                        \/ i = Len(far.asked) + 1 /\ far'.asked[i] = c
        /\ \A i \in DOMAIN far.asked : i \in DOMAIN far'.asked /\ far'.asked[i] = far.asked[i]
    BY <1>0, <1>2, <2>1, SendsView
  <2>4. CommandsAreNumbered'
    BY <1>0, <1>2, <2>1, SendsNumbers
  <2>5. NothingIsKept'
    BY <2>2, <2>3 DEF NothingIsKept
  <2>6. StreamsAreMinded'
    <3> SUFFICES ASSUME "unanswered" \notin faults PROVE StartIsOnItsWay' /\ sess'.seq \notin far'.open /\ OpenIsMinded'
      BY DEF StreamsAreMinded
    <3>1. StartIsOnItsWay /\ OpenIsMinded
      BY <1>0 DEF StreamsAreMinded
    <3>2. c.command = "start" /\ c.seq = sess'.seq
      BY <2>3
    <3> HIDE DEF c
    <3>3. StartIsOnItsWay'
      BY <1>0, <2>2, <2>3, <3>1, <3>2 DEF StartIsOnItsWay
    <3>4. sess'.seq \notin far'.open
      BY <1>0, <2>3, OpenNumbers
    <3>5. 0 \notin far.open
      BY <1>0, OpenNumbers
    <3>6. OpenIsMinded'
      <4> SUFFICES ASSUME NEW id \in far.open PROVE IsMinded(id)'
        BY <2>3 DEF OpenIsMinded
      <4>1. IsToClose(id)
        BY <1>0, <1>2, <3>1, <3>5 DEF OpenIsMinded, IsMinded
      <4>2. IsToClose(id)'
        BY <2>3, <4>1 DEF IsToClose
      <4> QED BY <4>2 DEF IsMinded
    <3> QED BY <3>3, <3>4, <3>6
  <2>7. RadioIsMinded'
    BY <1>0, <2>2, RadioSame
  <2>8. StopsComeLast'
    BY <1>0, <2>2, <2>3, StopsSame
  <2> QED BY <2>4, <2>5, <2>6, <2>7, <2>8
<1> QED BY <1>1, <1>2

(* RadioRelease, from a pump that is not waiting.                          *)
LEMMA ReleaseStep ==
  ASSUME ZelloInv, Selects, NEW waits \in {"closing", "leaving"}, NEW goesOn \in {"select", "left"},
         RadioRelease(waits, goesOn), UNCHANGED <<heard, radio, faults, over>>
  PROVE  NothingIsKept' /\ CommandsAreNumbered' /\ StreamsAreMinded' /\ RadioIsMinded' /\ StopsComeLast'
<1>0. /\ ZelloTypeOK /\ NothingIsKept /\ CommandsAreNumbered /\ StreamsAreMinded /\ RadioIsMinded
      /\ StopsComeLast /\ pump.at = "select" /\ pump \in Pumps /\ bridge \in ZelloBridges
      /\ sess \in ZelloSessions
  BY DEF ZelloInv, Selects, ZelloTypeOK
<1>1. bridge'.on = bridge.on /\ bridge'.stream = bridge.stream /\ bridge'.keyed = FALSE
  <2>1. bridge' = [bridge EXCEPT !.keyed = FALSE, !.packed = 0]
    BY DEF RadioRelease
  <2> QED BY <1>0, <2>1 DEF ZelloBridges
<1>n. sess.seq \in Nat /\ sess.id \in Nat
  BY <1>0, OpenNumbers
<1>z. 0 \notin far.open
  BY <1>0, OpenNumbers
<1>2. CASE far.up /\ sess.id # 0
  <2>1. Sends("stop", sess.id)
    BY <1>2 DEF RadioRelease
  <2>2. /\ pump'.at = waits /\ pump'.toZello = pump.toZello /\ pump'.toRadio = pump.toRadio
        /\ pump'.playing = pump.playing
    BY <1>0, <1>2 DEF RadioRelease, Pumps
  <2> DEFINE c == [command |-> "stop", seq |-> sess.seq + 1, id |-> sess.id]
  <2>3. /\ sess'.seq = sess.seq + 1 /\ sess'.id = 0 /\ sess'.reply = ""
        /\ far'.open = far.open /\ far'.wire = far.wire /\ far'.silent = far.silent /\ far'.up
        /\ \A i \in DOMAIN far'.asked : \/ i \in DOMAIN far.asked /\ far'.asked[i] = far.asked[i]
                                        \/ i = Len(far.asked) + 1 /\ far'.asked[i] = c
        /\ \A i \in DOMAIN far.asked : i \in DOMAIN far'.asked /\ far'.asked[i] = far.asked[i]
        /\ Len(far.asked) + 1 \in DOMAIN far'.asked /\ far'.asked[Len(far.asked) + 1] = c
    BY <1>0, <1>2, <1>n, <2>1, SendsView
  <2>4. CommandsAreNumbered'
    BY <1>0, <1>n, <2>1, SendsNumbers
  <2>5. NothingIsKept'
    BY <2>2, <2>3 DEF NothingIsKept
  <2>6. StreamsAreMinded'
    <3> SUFFICES ASSUME "unanswered" \notin faults PROVE StartIsOnItsWay' /\ OpenIsMinded'
      BY <2>2 DEF StreamsAreMinded
    <3>1. StartIsOnItsWay /\ OpenIsMinded
      BY <1>0 DEF StreamsAreMinded
    <3>2. c.command = "stop" /\ c.id = sess.id
      OBVIOUS
    <3> HIDE DEF c
    <3>3. StartIsOnItsWay'
      BY <1>0, <2>3, <3>1, <3>2 DEF StartIsOnItsWay
    <3>6. OpenIsMinded'
      <4> SUFFICES ASSUME NEW id \in far.open PROVE IsMinded(id)'
        BY <2>3 DEF OpenIsMinded
      <4>1. id = sess.id \/ IsToClose(id)
        BY <1>0, <3>1 DEF OpenIsMinded, IsMinded
      <4>2. IsToClose(id)'
        BY <2>3, <3>2, <4>1 DEF IsToClose
      <4> QED BY <4>2 DEF IsMinded
    <3> QED BY <3>3, <3>6
  <2>7. RadioIsMinded'
    BY <1>0, <1>1, <2>2, RadioSame
  <2>8. StopsComeLast'
    BY <1>0, <1>1, <2>2, <2>3, StopsSame
  <2> QED BY <2>4, <2>5, <2>6, <2>7, <2>8
<1>3. CASE ~(far.up /\ sess.id # 0)
  <2>1. /\ pump'.at = goesOn /\ pump'.toRadio = pump.toRadio /\ pump'.playing = pump.playing
    BY <1>0, <1>3 DEF RadioRelease, Pumps
  <2>2. sess'.seq = sess.seq /\ sess'.reply = sess.reply /\ sess'.id = 0 /\ far' = far
    BY <1>0, <1>3 DEF RadioRelease, StopsUnsaid, ZelloSessions
  <2>3. NothingIsKept'
    BY <1>0, <2>1, <2>2 DEF NothingIsKept
  <2>4. CommandsAreNumbered'
    BY <1>0, <2>2, CommandsSame
  <2>5. StreamsAreMinded'
    <3> SUFFICES ASSUME "unanswered" \notin faults PROVE StartIsOnItsWay' /\ OpenIsMinded'
      BY <2>1 DEF StreamsAreMinded
    <3>1. StartIsOnItsWay /\ OpenIsMinded
      BY <1>0 DEF StreamsAreMinded
    <3>2. StartIsOnItsWay'
      BY <1>0, <2>2, <3>1 DEF StartIsOnItsWay
    <3>3. OpenIsMinded'
      BY <1>0, <1>3, <1>z, <2>2, <3>1 DEF OpenIsMinded, IsMinded, IsToClose, NothingIsKept
    <3> QED BY <3>2, <3>3
  <2>7. RadioIsMinded'
    BY <1>0, <1>1, <2>1, RadioSame
  <2>8. StopsComeLast'
    BY <1>0, <1>1, <2>1, <2>2, StopsSame
  <2> QED BY <2>3, <2>4, <2>5, <2>7, <2>8
<1> QED BY <1>2, <1>3

(* The invariants beside the types.                                        *)
ZelloRest == NothingIsKept /\ CommandsAreNumbered /\ StreamsAreMinded /\ RadioIsMinded /\ StopsComeLast

(* A packet is played: the bridge is on for it, if what was to be written  *)
(* was (play, ZelloPacket).                                                *)
LEMMA AudioStep ==
  ASSUME ZelloInv, NEW wrote \in Wrote, TakesAudio(wrote)
  PROVE  ZelloRest'
<1>0. /\ ZelloTypeOK /\ NothingIsKept /\ CommandsAreNumbered /\ StreamsAreMinded /\ RadioIsMinded /\ StopsComeLast
      /\ pump \in Pumps /\ bridge \in ZelloBridges
      /\ heard \in [audio : Seq(Voices), events : Seq(Voices)] /\ heard.audio \in Seq(Voices) /\ heard.audio # <<>>
  BY DEF ZelloInv, ZelloTypeOK, TakesAudio
<1> DEFINE v == Head(heard.audio)
<1>1. /\ v \in Voices /\ 1 \in DOMAIN heard.audio /\ v = heard.audio[1]
      /\ \A i \in DOMAIN Tail(heard.audio) : i + 1 \in DOMAIN heard.audio /\ Tail(heard.audio)[i] = heard.audio[i + 1]
  BY <1>0, Pops
<1>2. ZelloPacket(v, wrote) /\ sess' = sess /\ far' = far /\ over' = over
  BY DEF TakesAudio, Plays
<1>3. /\ pump'.at = pump.at /\ pump'.stopped = pump.stopped /\ pump'.toZello = pump.toZello
      /\ pump'.playing = v /\ pump'.toRadio = TRUE /\ pump.at \in {"select", "draining"}
  BY <1>0 DEF TakesAudio, Plays, Pumps
<1>4. heard'.audio = Tail(heard.audio) /\ heard'.events = heard.events
  BY <1>0 DEF TakesAudio
<1>v. v # 0
  BY <1>1, ZelloAssumption DEF ZelloAssumption
<1> HIDE DEF v
<1>5. /\ bridge'.keyed = bridge.keyed /\ bridge'.stream = v
      /\ bridge'.on = IF New(v) THEN wrote.keyup ELSE bridge.on
  BY <1>0, <1>2 DEF ZelloPacket, ZelloBridges, New
<1>6. faults \subseteq faults' /\ ("unwritten" \notin faults' => (New(v) => wrote.keyup))
  BY <1>2 DEF ZelloPacket, Fault
<1>7. NothingIsKept'
  BY <1>0, <1>2, <1>3 DEF NothingIsKept
<1>8. CommandsAreNumbered'
  BY <1>0, <1>2, <1>3, CommandsSame DEF Waits
<1>9. StreamsAreMinded'
  BY <1>0, <1>2, <1>3, <1>5, <1>6, StreamsSame
<1>10. RadioIsMinded'
  <2>1. "unwritten" \notin faults' => bridge'.on
    <3> SUFFICES ASSUME "unwritten" \notin faults' PROVE bridge'.on
      OBVIOUS
    <3>1. CASE New(v)
      BY <1>5, <1>6, <3>1
    <3>2. CASE ~New(v)
      BY <1>0, <1>5, <1>6, <1>v, <3>2 DEF New, RadioIsMinded
    <3> QED BY <3>1, <3>2
  <2> QED BY <1>3, <1>5, <2>1 DEF RadioIsMinded
<1>11. StopsComeLast'
  <2>1. v \notin over
    BY <1>0, <1>1 DEF StopsComeLast
  <2>2. \A u \in over' : \A i \in DOMAIN heard'.audio : heard'.audio[i] # u
    BY <1>0, <1>1, <1>2, <1>4 DEF StopsComeLast
  <2> QED BY <1>0, <1>2, <1>3, <1>4, <1>5, <2>1, <2>2 DEF StopsComeLast, SaidAll, StoppedStaysStopped
<1> QED BY <1>7, <1>8, <1>9, <1>10, <1>11 DEF ZelloRest

LEMMA TakesStopStep ==
  ASSUME ZelloInv, TakesStop
  PROVE  ZelloRest'
<1>0. /\ ZelloTypeOK /\ NothingIsKept /\ CommandsAreNumbered /\ StreamsAreMinded /\ RadioIsMinded /\ StopsComeLast
      /\ pump \in Pumps /\ heard \in [audio : Seq(Voices), events : Seq(Voices)]
      /\ heard.events \in Seq(Voices) /\ heard.events # <<>>
  BY DEF ZelloInv, ZelloTypeOK, TakesStop
<1> DEFINE v == Head(heard.events)
<1>1. /\ v \in Voices /\ 1 \in DOMAIN heard.events /\ v = heard.events[1]
      /\ \A i \in DOMAIN Tail(heard.events) : i + 1 \in DOMAIN heard.events /\ Tail(heard.events)[i] = heard.events[i + 1]
  BY <1>0, Pops
<1>2. UNCHANGED <<sess, bridge, far, radio, faults, over>> /\ pump.at = "select"
  BY DEF TakesStop, Selects
<1>3. /\ pump'.at = "draining" /\ pump'.stopped = v /\ pump'.toZello = pump.toZello
      /\ pump'.playing = pump.playing /\ pump'.toRadio = pump.toRadio
  BY <1>0 DEF TakesStop, Pumps
<1>4. heard'.audio = heard.audio /\ heard'.events = Tail(heard.events)
  BY <1>0 DEF TakesStop
<1> HIDE DEF v
<1>5. NothingIsKept'
  BY <1>0, <1>2, <1>3 DEF NothingIsKept
<1>6. CommandsAreNumbered'
  BY <1>0, <1>2, <1>3, CommandsSame DEF Waits
<1>7. StreamsAreMinded'
  BY <1>0, <1>2, <1>3, StreamsSame
<1>8. RadioIsMinded'
  BY <1>0, <1>2, <1>3, RadioSame
<1>9. StopsComeLast'
  <2>1. SaidAll(v)
    BY <1>0, <1>1 DEF StopsComeLast
  <2>2. \A i \in DOMAIN heard'.events : SaidAll(heard'.events[i])
    BY <1>0, <1>1, <1>4 DEF StopsComeLast
  <2> QED BY <1>0, <1>1, <1>2, <1>3, <1>4, <2>1, <2>2 DEF StopsComeLast, SaidAll, StoppedStaysStopped
<1> QED BY <1>5, <1>6, <1>7, <1>8, <1>9 DEF ZelloRest

(* stopRadio ends what the pump plays.                                     *)
LEMMA StopRadioEnds ==
  ASSUME ZelloTypeOK, RadioIsMinded, NEW written \in BOOLEAN, StopRadio(written)
  PROVE  /\ bridge'.on = FALSE /\ bridge'.keyed = bridge.keyed
         /\ faults \subseteq faults'
         /\ "unwritten" \notin faults' => radio' = FALSE /\ bridge'.stream = 0
<1>0. bridge \in ZelloBridges /\ bridge.on \in BOOLEAN /\ pump.toRadio \in BOOLEAN
  BY DEF ZelloTypeOK, ZelloBridges, Pumps
<1>1. CASE bridge.on
  <2>1. pump.toRadio /\ bridge.stream = pump.playing
    BY <1>1 DEF RadioIsMinded
  <2>2. bridge' = [bridge EXCEPT !.on = FALSE, !.stream = 0]
    BY <1>1, <2>1 DEF StopRadio, Finished
  <2>3. bridge'.on = FALSE /\ bridge'.stream = 0 /\ bridge'.keyed = bridge.keyed
    BY <1>0, <2>2 DEF ZelloBridges
  <2>4. bridge'.on # bridge.on
    BY <1>1, <2>3
  <2> QED BY <2>3, <2>4 DEF StopRadio, Fault
<1>2. CASE ~bridge.on
  <2>1. bridge' = bridge
    BY <1>2 DEF StopRadio, Finished
  <2>2. radio' = radio /\ faults' = faults
    BY <2>1 DEF StopRadio, Fault
  <2>3. "unwritten" \notin faults => ~radio /\ bridge.stream = 0
    BY <1>2 DEF RadioIsMinded
  <2> QED BY <1>0, <1>2, <2>1, <2>2, <2>3
<1> QED BY <1>1, <1>2

LEMMA StoppingStep ==
  ASSUME ZelloInv, NEW written \in BOOLEAN, ActsOnStop(written) \/ TicksRadio(written)
  PROVE  ZelloRest'
<1>0. /\ ZelloTypeOK /\ NothingIsKept /\ CommandsAreNumbered /\ StreamsAreMinded /\ RadioIsMinded /\ StopsComeLast
      /\ pump \in Pumps /\ bridge \in ZelloBridges /\ bridge.on \in BOOLEAN
      /\ UNCHANGED <<sess, heard, far>>
  BY DEF ZelloInv, ZelloTypeOK, ActsOnStop, TicksRadio, ZelloBridges
<1>1. /\ pump.at \in {"select", "draining"} /\ pump'.at = "select" /\ pump'.toZello = pump.toZello
      /\ pump'.playing = pump.playing
  BY <1>0 DEF ActsOnStop, TicksRadio, Drained, Selects, Pumps
<1>2. \/ StopRadio(written)
      \/ UNCHANGED <<bridge, radio, faults>> /\ pump'.toRadio = pump.toRadio
  BY <1>0 DEF ActsOnStop, TicksRadio, Pumps
<1>3. /\ bridge'.keyed = bridge.keyed /\ faults \subseteq faults' /\ RadioIsMinded'
      /\ bridge'.on => bridge.on /\ bridge'.stream = bridge.stream
  <2>1. CASE StopRadio(written)
    BY <1>0, <2>1, StopRadioEnds DEF RadioIsMinded
  <2>2. CASE UNCHANGED <<bridge, radio, faults>> /\ pump'.toRadio = pump.toRadio
    BY <1>0, <1>1, <2>2, RadioSame
  <2> QED BY <1>2, <2>1, <2>2
<1>4. NothingIsKept'
  BY <1>0, <1>1 DEF NothingIsKept
<1>5. CommandsAreNumbered'
  BY <1>0, <1>1, CommandsSame DEF Waits
<1>6. StreamsAreMinded'
  BY <1>0, <1>1, <1>3, StreamsSame
<1>7. StopsComeLast'
  <2>1. CASE TicksRadio(written)
    <3>1. over' = over
      BY <2>1 DEF TicksRadio
    <3> QED BY <1>0, <1>1, <1>3, <3>1, StopsSame
  <2>2. CASE ActsOnStop(written)
    <3>1. pump.at = "draining" /\ heard.audio = <<>> /\ over' = over \cup {pump.stopped}
      BY <2>2 DEF ActsOnStop, Drained
    <3>2. pump.stopped \in Voices /\ SaidAll(pump.stopped)
      BY <1>0, <3>1 DEF StopsComeLast
    <3>3. bridge'.on => bridge'.stream # pump.stopped
      <4>1. CASE pump.toRadio /\ pump.stopped = pump.playing
        <5>1. StopRadio(written)
          BY <2>2, <4>1 DEF ActsOnStop
        <5> QED BY <1>0, <5>1, StopRadioEnds
      <4>2. CASE ~(pump.toRadio /\ pump.stopped = pump.playing)
        <5>1. bridge' = bridge
          BY <2>2, <4>2 DEF ActsOnStop
        <5> QED BY <1>0, <4>2, <5>1 DEF RadioIsMinded
      <4> QED BY <4>1, <4>2
    <3>4. StoppedStaysStopped'
      BY <1>0, <1>3, <3>1, <3>3 DEF StoppedStaysStopped, StopsComeLast
    <3>5. DOMAIN heard.audio = {}
      BY <3>1
    <3>6. \A v \in over' : SaidAll(v)
      BY <1>0, <3>1, <3>2 DEF StopsComeLast
    <3> QED BY <1>0, <1>1, <3>4, <3>5, <3>6 DEF StopsComeLast, SaidAll
  <2> QED BY <2>1, <2>2
<1> QED BY <1>3, <1>4, <1>5, <1>6, <1>7 DEF ZelloRest

(* StartStream returns: what it opened is the session's stream, and what   *)
(* was refused is not open; giving up is the fault.                        *)
LEMMA StartReturnsStep ==
  ASSUME ZelloInv, NEW how \in {"ok", "refused", "timeout", "lost"}, StartReturns(how)
  PROVE  ZelloRest'
<1>0. /\ ZelloTypeOK /\ NothingIsKept /\ CommandsAreNumbered /\ StreamsAreMinded /\ RadioIsMinded /\ StopsComeLast
      /\ pump \in Pumps /\ bridge \in ZelloBridges /\ sess \in ZelloSessions
      /\ UNCHANGED <<heard, far, radio, over>> /\ pump.at = "opening" /\ Awaited(how)
  BY DEF ZelloInv, ZelloTypeOK, StartReturns
<1>1. /\ pump'.at = "select" /\ pump'.toZello = (how = "ok") /\ pump'.toRadio = pump.toRadio
      /\ pump'.playing = pump.playing
  BY <1>0 DEF StartReturns, Pumps
<1>2. sess'.seq = sess.seq /\ sess'.id = (IF how = "ok" THEN sess.seq ELSE sess.id) /\ sess'.reply = ""
  BY <1>0 DEF StartReturns, ZelloSessions
<1>3. /\ bridge'.on = bridge.on /\ bridge'.stream = bridge.stream
      /\ bridge'.keyed = IF how = "ok" THEN TRUE ELSE bridge.keyed
  <2>1. CASE how = "ok"
    BY <1>0, <2>1 DEF StartReturns, ZelloBridges
  <2>2. CASE how # "ok"
    BY <1>0, <2>2 DEF StartReturns, ZelloBridges
  <2> QED BY <2>1, <2>2
<1>4. faults \subseteq faults' /\ (how = "timeout" => "unanswered" \in faults')
  BY DEF StartReturns, Fault
<1>5. NothingIsKept'
  BY <1>0, <1>1 DEF NothingIsKept
<1>6. CommandsAreNumbered'
  BY <1>0, <1>1, <1>2, CommandsSame DEF Waits
<1>7. RadioIsMinded'
  BY <1>0, <1>1, <1>3, <1>4, RadioSame
<1>8. StopsComeLast'
  BY <1>0, <1>1, <1>3, StopsSame
<1>9. StreamsAreMinded'
  <2> SUFFICES ASSUME "unanswered" \notin faults' PROVE StartIsOnItsWay' /\ OpenIsMinded'
    BY <1>1 DEF StreamsAreMinded
  <2>1. /\ StartIsOnItsWay /\ OpenIsMinded /\ (Unopened => sess.seq \notin far.open) /\ how # "timeout"
    BY <1>0, <1>4 DEF StreamsAreMinded
  <2>2. sess.id = 0 /\ 0 \notin far.open
    BY <1>0, OpenNumbers DEF CommandsAreNumbered, Waits
  <2>3. \A id \in far.open : id = sess.seq \/ IsToClose(id)
    BY <2>1, <2>2 DEF OpenIsMinded, IsMinded
  <2>4. \A id : IsToClose(id) => IsToClose(id)'
    BY <1>0 DEF IsToClose
  <2>5. CASE how = "lost"
    <3>0. sess.reply # "lost"
      BY <1>0 DEF ZelloSessions
    <3>u. ~far.up
      BY <1>0, <2>5, <3>0 DEF Awaited
    <3>1. far.asked = <<>> /\ far.open = {} /\ DOMAIN far.asked = {}
      BY <1>0, <3>u DEF NothingIsKept
    <3> QED BY <1>0, <3>1 DEF StartIsOnItsWay, OpenIsMinded
  <2>6. CASE how = "ok" \/ how = "refused"
    <3>1. sess.reply = how
      BY <1>0, <2>6 DEF Awaited
    <3>2. \A i \in DOMAIN far.asked : far.asked[i].command # "start"
      BY <2>1, <2>6, <3>1 DEF StartIsOnItsWay
    <3>3. StartIsOnItsWay'
      BY <1>0, <3>2 DEF StartIsOnItsWay
    <3>4. how = "refused" => sess.seq \notin far.open
      BY <2>1, <3>1 DEF Unopened
    <3>5. OpenIsMinded'
      BY <1>0, <1>1, <1>2, <1>3, <2>3, <2>4, <2>6, <3>4 DEF OpenIsMinded, IsMinded
    <3> QED BY <3>3, <3>5
  <2> QED BY <2>1, <2>5, <2>6
<1> QED BY <1>5, <1>6, <1>7, <1>8, <1>9 DEF ZelloRest

LEMMA StopReturnsStep ==
  ASSUME ZelloInv, NEW how, StopReturns(how)
  PROVE  ZelloRest'
<1>0. /\ ZelloTypeOK /\ NothingIsKept /\ CommandsAreNumbered /\ StreamsAreMinded /\ RadioIsMinded /\ StopsComeLast
      /\ pump \in Pumps /\ sess \in ZelloSessions
      /\ UNCHANGED <<bridge, heard, far, radio, faults, over>> /\ pump.at \in {"closing", "leaving"}
  BY DEF ZelloInv, ZelloTypeOK, StopReturns
<1>1. /\ pump'.at \in {"select", "left"} /\ pump'.toRadio = pump.toRadio /\ pump'.playing = pump.playing
  BY <1>0 DEF StopReturns, Pumps
<1>2. sess'.seq = sess.seq /\ sess'.id = sess.id /\ sess'.reply = ""
  BY <1>0 DEF StopReturns, ZelloSessions
<1>5. NothingIsKept'
  BY <1>0, <1>1 DEF NothingIsKept
<1>6. CommandsAreNumbered'
  BY <1>0, <1>1, <1>2, CommandsSame DEF Waits
<1>7. RadioIsMinded'
  BY <1>0, <1>1, RadioSame
<1>8. StopsComeLast'
  BY <1>0, <1>1, StopsSame
<1>9. StreamsAreMinded'
  <2> SUFFICES ASSUME "unanswered" \notin faults PROVE StartIsOnItsWay' /\ OpenIsMinded'
    BY <1>0, <1>1 DEF StreamsAreMinded
  <2>1. StartIsOnItsWay /\ OpenIsMinded
    BY <1>0 DEF StreamsAreMinded
  <2>2. sess.id = 0 /\ 0 \notin far.open
    BY <1>0, OpenNumbers DEF CommandsAreNumbered, Waits
  <2>3. \A id \in far.open : IsToClose(id)
    BY <1>0, <2>1, <2>2 DEF OpenIsMinded, IsMinded
  <2>4. OpenIsMinded'
    BY <1>0, <2>3 DEF OpenIsMinded, IsMinded, IsToClose
  <2>5. StartIsOnItsWay'
    BY <1>0, <2>1 DEF StartIsOnItsWay
  <2> QED BY <2>4, <2>5
<1> QED BY <1>5, <1>6, <1>7, <1>8, <1>9 DEF ZelloRest

LEMMA LeftStep ==
  ASSUME ZelloInv, NEW written \in BOOLEAN, NEW told, Left(written, told)
  PROVE  ZelloRest'
<1>0. RadioIsMinded /\ bridge \in ZelloBridges /\ pump \in Pumps
  BY DEF ZelloInv, ZelloTypeOK
<1>1. /\ pump' = Away /\ sess' = NewSession /\ bridge' = NewBridge
      /\ heard' = [audio |-> <<>>, events |-> <<>>] /\ far' = [NoServer EXCEPT !.spoken = far.spoken] /\ over' = {}
      /\ OnTheWayOut(written)
  BY DEF Left
<1>2. /\ far'.asked = <<>> /\ far'.open = {} /\ far'.wire = <<>> /\ far'.up = FALSE
      /\ pump'.at = "away" /\ bridge'.on = FALSE /\ bridge'.stream = 0
  BY <1>1 DEF NoServer, Away, NewBridge
<1>3. NothingIsKept'
  BY <1>1, <1>2 DEF NothingIsKept
<1>4. StreamsAreMinded' /\ CommandsAreNumbered'
  <2>1. DOMAIN far'.asked = {} /\ DOMAIN far'.wire = {}
    BY <1>2
  <2>2. ~Waits'
    BY <1>2 DEF Waits
  <2> QED BY <1>2, <2>1, <2>2 DEF StreamsAreMinded, StartIsOnItsWay, OpenIsMinded, CommandsAreNumbered
<1>5. RadioIsMinded'
  <2>1. "unwritten" \notin faults' => ~radio'
    <3> SUFFICES ASSUME "unwritten" \notin faults', radio' PROVE FALSE
      OBVIOUS
    <3>1. "unwritten" \notin faults /\ radio
      BY <1>1 DEF OnTheWayOut, Fault
    <3>2. bridge.on /\ pump.toRadio /\ bridge.stream = pump.playing
      BY <1>0, <3>1 DEF RadioIsMinded
    <3>3. Finished(bridge, pump.playing).on = FALSE
      BY <1>0, <3>2 DEF Finished, ZelloBridges
    <3>4. Finished(bridge, pump.playing).on # bridge.on
      BY <3>2, <3>3
    <3> QED BY <1>1, <3>2, <3>4 DEF OnTheWayOut, Fault
  <2> QED BY <1>2, <2>1 DEF RadioIsMinded
<1>6. StopsComeLast'
  <2>1. DOMAIN far'.wire = {} /\ heard'.events = <<>> /\ DOMAIN heard'.events = {}
    BY <1>1, <1>2
  <2> QED BY <1>1, <1>2, <2>1 DEF StopsComeLast, StoppedStaysStopped
<1> QED BY <1>3, <1>4, <1>5, <1>6 DEF ZelloRest

LEMMA ConnectsStep ==
  ASSUME ZelloInv, Connects
  PROVE  ZelloRest'
<1>0. /\ ZelloTypeOK /\ NothingIsKept /\ RadioIsMinded /\ far \in Servers
      /\ UNCHANGED <<sess, bridge, heard, radio, faults, over>> /\ pump.at = "away"
  BY DEF ZelloInv, ZelloTypeOK, Connects
<1>1. /\ heard = [audio |-> <<>>, events |-> <<>>] /\ over = {} /\ bridge = NewBridge /\ pump = Away
      /\ far.asked = <<>> /\ far.open = {} /\ far.wire = <<>>
  BY <1>0 DEF NothingIsKept
<1>2. /\ far'.asked = <<>> /\ far'.open = {} /\ far'.wire = <<>> /\ far'.up = TRUE
  BY <1>0, <1>1 DEF Connects, Servers
<1>3. pump'.at = "select" /\ pump'.toRadio = pump.toRadio /\ pump'.playing = pump.playing
  BY <1>1 DEF Connects, Away
<1>4. NothingIsKept'
  BY <1>2, <1>3 DEF NothingIsKept
<1>5. StreamsAreMinded' /\ CommandsAreNumbered'
  <2>1. DOMAIN far'.asked = {} /\ DOMAIN far'.wire = {}
    BY <1>2
  <2>2. ~Waits'
    BY <1>3 DEF Waits
  <2> QED BY <1>2, <1>3, <2>1, <2>2 DEF StreamsAreMinded, StartIsOnItsWay, OpenIsMinded, CommandsAreNumbered
<1>6. RadioIsMinded'
  BY <1>0, <1>3, RadioSame
<1>7. StopsComeLast'
  <2>1. DOMAIN far'.wire = {} /\ heard'.events = <<>> /\ DOMAIN heard'.events = {} /\ over' = {} /\ bridge'.on = FALSE
    BY <1>0, <1>1, <1>2 DEF NewBridge
  <2> QED BY <1>3, <2>1 DEF StopsComeLast, StoppedStaysStopped
<1> QED BY <1>4, <1>5, <1>6, <1>7 DEF ZelloRest

(* The server takes the command that was sent first.                       *)
LEMMA AnswersStep ==
  ASSUME ZelloInv, NEW opens \in BOOLEAN, ServerAnswers(opens)
  PROVE  ZelloRest'
<1>0. /\ ZelloTypeOK /\ NothingIsKept /\ CommandsAreNumbered /\ StreamsAreMinded /\ RadioIsMinded /\ StopsComeLast
      /\ far \in Servers /\ UNCHANGED <<pump, sess, bridge, heard, radio, faults, over>>
      /\ far.up /\ far.asked # <<>> /\ far.asked \in Seq(Commands) /\ far.wire \in Seq(WireMessages)
  BY DEF ZelloInv, ZelloTypeOK, ServerAnswers, Servers
<1> DEFINE c == Head(far.asked)
           o == IF c.command = "stop" THEN far.open \ {c.id} ELSE IF opens THEN far.open \cup {c.seq} ELSE far.open
           m == [kind |-> "reply", of |-> c.seq, ok |-> opens \/ c.command = "stop"]
           w == Append(far.wire, m)
<1>1. /\ far' = [far EXCEPT !.asked = Tail(@), !.open = o, !.wire = w] /\ (c.command = "stop" => opens = FALSE)
  BY <1>0 DEF ServerAnswers, Servers
<1>2. /\ c \in Commands /\ 1 \in DOMAIN far.asked /\ c = far.asked[1]
      /\ \A i \in DOMAIN Tail(far.asked) : i \in Nat /\ i + 1 \in DOMAIN far.asked /\ Tail(far.asked)[i] = far.asked[i + 1]
      /\ \A i \in DOMAIN far.asked : i # 1 => i - 1 \in DOMAIN Tail(far.asked) /\ Tail(far.asked)[i - 1] = far.asked[i]
  BY <1>0, Pops
<1>t. \A i \in DOMAIN Tail(far.asked) : \E j \in DOMAIN far.asked : j # 1 /\ Tail(far.asked)[i] = far.asked[j]
  <2> SUFFICES ASSUME NEW i \in DOMAIN Tail(far.asked)
               PROVE  \E j \in DOMAIN far.asked : j # 1 /\ Tail(far.asked)[i] = far.asked[j]
    OBVIOUS
  <2>1. i \in Nat /\ 0 \notin DOMAIN Tail(far.asked)
    <3>1. Tail(far.asked) \in Seq(Commands)
      BY <1>0, Pops
    <3>2. DOMAIN Tail(far.asked) = 1..Len(Tail(far.asked))
      BY <3>1, LenProperties
    <3> QED BY <1>2, <3>2
  <2>2. i + 1 # 1
    BY <2>1
  <2> QED BY <1>2, <2>2
<1>u. \A i, j \in DOMAIN Tail(far.asked) : Tail(far.asked)[i].seq = Tail(far.asked)[j].seq => i = j
  <2> SUFFICES ASSUME NEW i \in DOMAIN Tail(far.asked), NEW j \in DOMAIN Tail(far.asked),
                      Tail(far.asked)[i].seq = Tail(far.asked)[j].seq
               PROVE  i = j
    OBVIOUS
  <2>1. i \in Nat /\ j \in Nat /\ i + 1 = j + 1
    BY <1>0, <1>2 DEF CommandsAreNumbered
  <2> QED BY <2>1
<1>3. m \in WireMessages /\ m.kind = "reply" /\ m.of = c.seq /\ m.ok = (opens \/ c.command = "stop")
  BY <1>2 DEF WireMessages, Commands
<1>c. c.command \in {"start", "stop"}
  BY <1>2 DEF Commands
<1> HIDE DEF c, m, o
<1>4. /\ \A i \in DOMAIN w : \/ i \in DOMAIN far.wire /\ w[i] = far.wire[i]
                             \/ i = Len(far.wire) + 1 /\ w[i] = m
      /\ \A i \in DOMAIN far.wire : i < Len(far.wire) + 1
  BY <1>0, <1>3, Pushes
<1> HIDE DEF w
<1>5. /\ far'.asked = Tail(far.asked) /\ far'.open = o /\ far'.wire = w
      /\ far'.silent = far.silent /\ far'.up = far.up
  BY <1>0, <1>1 DEF Servers
<1>6. NothingIsKept'
  BY <1>0, <1>5 DEF NothingIsKept
<1>7. RadioIsMinded'
  BY <1>0, RadioSame
<1>8. CommandsAreNumbered'
  <2>1. far'.open \subseteq 1..sess.seq
    BY <1>0, <1>2, <1>5 DEF o, CommandsAreNumbered
  <2>2. \A i \in DOMAIN far'.asked : far'.asked[i].seq \in 1..sess.seq
    BY <1>0, <1>5, <1>t DEF CommandsAreNumbered
  <2>3. \A j \in DOMAIN far'.asked : c.seq # far'.asked[j].seq
    BY <1>0, <1>2, <1>5, <1>t DEF CommandsAreNumbered
  <2>4. \A i \in DOMAIN far'.wire : far'.wire[i].kind = "reply" =>
          /\ far'.wire[i].of \in 1..sess.seq
          /\ \A j \in DOMAIN far'.asked : far'.wire[i].of # far'.asked[j].seq
    BY <1>0, <1>2, <1>3, <1>4, <1>5, <1>t, <2>3 DEF CommandsAreNumbered
  <2>5. Waits' => sess'.id = 0
    BY <1>0 DEF CommandsAreNumbered, Waits
  <2> QED BY <1>0, <1>5, <1>u, <2>1, <2>2, <2>4, <2>5 DEF CommandsAreNumbered
<1>9. StreamsAreMinded'
  <2> SUFFICES ASSUME "unanswered" \notin faults
               PROVE  /\ StartIsOnItsWay' /\ OpenIsMinded'
                      /\ pump.at = "opening" /\ Unopened' => sess.seq \notin far'.open
    BY <1>0 DEF StreamsAreMinded
  <2>1. /\ StartIsOnItsWay /\ OpenIsMinded
        /\ pump.at = "opening" /\ Unopened => sess.seq \notin far.open
    BY <1>0 DEF StreamsAreMinded
  <2>2. StartIsOnItsWay'
    <3> SUFFICES ASSUME NEW i \in DOMAIN far'.asked, far'.asked[i].command = "start"
                 PROVE  pump.at = "opening" /\ far'.asked[i].seq = sess.seq /\ sess.reply = ""
      BY <1>0 DEF StartIsOnItsWay
    <3>1. PICK j \in DOMAIN far.asked : far'.asked[i] = far.asked[j]
      BY <1>5, <1>t
    <3> QED BY <2>1, <3>1 DEF StartIsOnItsWay
  <2>3. c.command = "start" => pump.at = "opening" /\ c.seq = sess.seq /\ sess.reply = "" /\ Unopened
    BY <1>2, <2>1 DEF StartIsOnItsWay, Unopened
  <2>4. OpenIsMinded'
    <3> SUFFICES ASSUME NEW id \in far'.open PROVE IsMinded(id)'
      BY DEF OpenIsMinded
    <3>1. CASE id \in far.open /\ IsToClose(id)
      <4>1. PICK i \in DOMAIN far.asked : far.asked[i].command = "stop" /\ far.asked[i].id = id
        BY <3>1 DEF IsToClose
      <4>2. i # 1
        <5> SUFFICES ASSUME i = 1 PROVE FALSE
          OBVIOUS
        <5>1. c.command = "stop" /\ c.id = id
          BY <1>2, <4>1
        <5> QED BY <1>5, <5>1 DEF o
      <4>3. IsToClose(id)'
        BY <1>2, <1>5, <4>1, <4>2 DEF IsToClose
      <4> QED BY <4>3 DEF IsMinded
    <3>2. CASE id \in far.open /\ ~IsToClose(id)
      BY <1>0, <2>1, <3>2 DEF OpenIsMinded, IsMinded
    <3>3. CASE id \notin far.open
      <4>1. c.command = "start" /\ id = c.seq
        BY <1>5, <1>c, <3>3 DEF o
      <4> QED BY <1>0, <2>3, <4>1 DEF IsMinded
    <3> QED BY <3>1, <3>2, <3>3
  <2>5. ASSUME pump.at = "opening", Unopened' PROVE sess.seq \notin far'.open
    <3>1. CASE c.command = "start"
      <4>1. sess.seq \notin far.open
        BY <2>1, <2>3, <2>5, <3>1
      <4>2. ~opens
        <5> SUFFICES ASSUME opens PROVE FALSE
          OBVIOUS
        <5>1. \A i \in DOMAIN far'.asked : far'.asked[i].command # "start"
          <6> SUFFICES ASSUME NEW i \in DOMAIN far'.asked, far'.asked[i].command = "start" PROVE FALSE
            OBVIOUS
          <6>1. PICK j \in DOMAIN far.asked : j # 1 /\ far'.asked[i] = far.asked[j]
            BY <1>5, <1>t
          <6>2. far.asked[j].seq = sess.seq
            BY <2>1, <6>1 DEF StartIsOnItsWay
          <6>3. far.asked[1].seq = sess.seq
            BY <1>2, <2>3, <3>1
          <6> QED BY <1>0, <1>2, <6>1, <6>2, <6>3 DEF CommandsAreNumbered
        <5>2. \A i \in DOMAIN far.wire : ~(far.wire[i].kind = "reply" /\ far.wire[i].of = c.seq)
          BY <1>0, <1>2 DEF CommandsAreNumbered
        <5>3. \A i \in DOMAIN far'.wire : ~(far'.wire[i].kind = "reply" /\ far'.wire[i].of = sess.seq /\ ~far'.wire[i].ok)
          BY <1>3, <1>4, <1>5, <2>3, <3>1, <5>2
        <5> QED BY <1>0, <2>3, <2>5, <3>1, <5>1, <5>3 DEF Unopened
      <4> QED BY <1>5, <3>1, <4>1, <4>2 DEF o
    <3>2. CASE c.command # "start"
      <4>1. c.command = "stop" /\ m.ok
        BY <1>3, <1>c, <3>2
      <4>2. Unopened
        BY <1>0, <1>4, <1>5, <1>t, <2>5, <4>1 DEF Unopened
      <4> QED BY <1>5, <2>1, <2>5, <4>1, <4>2 DEF o
    <3> QED BY <3>1, <3>2
  <2> QED BY <2>2, <2>4, <2>5
<1>10. StopsComeLast'
  <2>1. \A v : SaidAll(v) => SaidAll(v)'
    BY <1>3, <1>4, <1>5 DEF SaidAll
  <2>2. \A i \in DOMAIN far'.wire : far'.wire[i].kind = "stop" =>
          /\ far'.wire[i].of \in far'.silent
          /\ \A j \in DOMAIN far'.wire :
               j > i /\ far'.wire[j].kind = "audio" => far'.wire[j].of # far'.wire[i].of
    BY <1>0, <1>3, <1>4, <1>5 DEF StopsComeLast
  <2> QED BY <1>0, <2>1, <2>2 DEF StopsComeLast, StoppedStaysStopped
<1> QED BY <1>6, <1>7, <1>8, <1>9, <1>10 DEF ZelloRest

(* Somebody speaks, and stops for good.                                    *)
LEMMA SpeaksStep ==
  ASSUME ZelloInv, NEW v \in Voices, NEW last \in BOOLEAN, Speaks(v, last)
  PROVE  ZelloRest'
<1>0. /\ ZelloTypeOK /\ NothingIsKept /\ CommandsAreNumbered /\ StreamsAreMinded /\ RadioIsMinded /\ StopsComeLast
      /\ far \in Servers /\ UNCHANGED <<pump, sess, bridge, heard, radio, faults, over>>
      /\ far.up /\ v \notin far.silent /\ far.wire \in Seq(WireMessages)
  BY DEF ZelloInv, ZelloTypeOK, Speaks, Servers
<1> DEFINE m == [kind |-> IF last THEN "stop" ELSE "audio", of |-> v, ok |-> TRUE]
           q == IF last THEN far.silent \cup {v} ELSE far.silent
           w == Append(far.wire, m)
<1>1. /\ far'.wire = w /\ far'.silent = q /\ far'.asked = far.asked /\ far'.open = far.open /\ far'.up = far.up
  BY <1>0 DEF Speaks, Servers
<1>2. m \in WireMessages /\ m.of = v /\ m.kind = IF last THEN "stop" ELSE "audio"
  BY DEF WireMessages
<1> HIDE DEF m
<1>3. /\ \A i \in DOMAIN w : \/ i \in DOMAIN far.wire /\ w[i] = far.wire[i]
                             \/ i = Len(far.wire) + 1 /\ w[i] = m
      /\ \A i \in DOMAIN far.wire : i \in Nat /\ i < Len(far.wire) + 1
  BY <1>0, <1>2, Pushes
<1>n. Len(far.wire) \in Nat
  BY <1>0, LenProperties
<1> HIDE DEF w
<1>4. NothingIsKept'
  BY <1>0, <1>1 DEF NothingIsKept
<1>5. RadioIsMinded'
  BY <1>0, RadioSame
<1>6. \A i \in DOMAIN far'.wire : far'.wire[i].kind = "reply" => i \in DOMAIN far.wire /\ far'.wire[i] = far.wire[i]
  BY <1>1, <1>2, <1>3
<1>7. CommandsAreNumbered'
  BY <1>0, <1>1, <1>6 DEF CommandsAreNumbered, Waits
<1>8. StreamsAreMinded'
  <2>1. Unopened' => Unopened
    BY <1>0, <1>1, <1>6 DEF Unopened
  <2>2. StartIsOnItsWay => StartIsOnItsWay'
    BY <1>0, <1>1 DEF StartIsOnItsWay
  <2>3. OpenIsMinded => OpenIsMinded'
    BY <1>0, <1>1 DEF OpenIsMinded, IsMinded, IsToClose
  <2> QED BY <1>0, <1>1, <2>1, <2>2, <2>3 DEF StreamsAreMinded
<1>9. StopsComeLast'
  <2>1. ASSUME NEW u, SaidAll(u) PROVE SaidAll(u)'
    <3>1. u \in far.silent /\ u # v
      BY <1>0, <2>1 DEF SaidAll
    <3> QED BY <1>1, <1>2, <1>3, <2>1, <3>1 DEF SaidAll
  <2>2. ASSUME NEW i \in DOMAIN far'.wire, far'.wire[i].kind = "stop"
        PROVE  /\ far'.wire[i].of \in far'.silent
               /\ \A j \in DOMAIN far'.wire :
                    j > i /\ far'.wire[j].kind = "audio" => far'.wire[j].of # far'.wire[i].of
    <3>1. CASE i \in DOMAIN far.wire /\ far'.wire[i] = far.wire[i]
      <4>1. far.wire[i].of \in far.silent /\ far.wire[i].of # v
        BY <1>0, <2>2, <3>1 DEF StopsComeLast
      <4> QED BY <1>0, <1>1, <1>2, <1>3, <2>2, <3>1, <4>1 DEF StopsComeLast
    <3>2. CASE i = Len(far.wire) + 1 /\ far'.wire[i] = m
      <4>1. last /\ far'.wire[i].of = v
        BY <1>2, <2>2, <3>2
      <4>2. \A j \in DOMAIN far'.wire : ~(j > i)
        BY <1>1, <1>3, <1>n, <3>2
      <4> QED BY <1>1, <4>1, <4>2
    <3> QED BY <1>1, <1>3, <3>1, <3>2
  <2> QED BY <1>0, <2>1, <2>2 DEF StopsComeLast, StoppedStaysStopped
<1> QED BY <1>4, <1>5, <1>7, <1>8, <1>9 DEF ZelloRest

(* The reader takes what was said first, into the channel it is for.       *)
LEMMA ReadStep ==
  ASSUME ZelloInv, Read
  PROVE  ZelloRest'
<1>0. /\ ZelloTypeOK /\ NothingIsKept /\ CommandsAreNumbered /\ StreamsAreMinded /\ RadioIsMinded /\ StopsComeLast
      /\ far \in Servers /\ sess \in ZelloSessions /\ heard \in [audio : Seq(Voices), events : Seq(Voices)]
      /\ UNCHANGED <<pump, bridge, radio, faults, over>>
      /\ far.wire # <<>> /\ far.wire \in Seq(WireMessages)
  BY DEF ZelloInv, ZelloTypeOK, Read, Servers
<1>q. heard.audio \in Seq(Voices) /\ heard.events \in Seq(Voices)
  BY <1>0
<1> DEFINE m == Head(far.wire)
           w == Tail(far.wire)
<1>1. /\ m \in WireMessages /\ 1 \in DOMAIN far.wire /\ m = far.wire[1]
      /\ \A i \in DOMAIN w : i \in Nat /\ i + 1 \in DOMAIN far.wire /\ w[i] = far.wire[i + 1]
  BY <1>0, Pops
<1>w. \A i \in DOMAIN w : i + 1 > 1
  <2>1. Tail(far.wire) \in Seq(WireMessages)
    BY <1>0, Pops
  <2>2. DOMAIN w = 1..Len(w)
    BY <2>1, LenProperties
  <2> QED BY <2>2
<1>2. m.kind # "reply" => m.of \in Voices
  BY <1>0, <1>1 DEF ZelloTypeOK
<1>3. /\ far'.wire = w /\ far'.silent = far.silent /\ far'.asked = far.asked /\ far'.open = far.open
      /\ far'.up = far.up
  BY <1>0 DEF Read, Servers
<1>4. sess' = IF m.kind = "reply" /\ Waits /\ m.of = sess.seq /\ sess.reply = ""
              THEN [sess EXCEPT !.reply = IF m.ok THEN "ok" ELSE "refused"] ELSE sess
  BY DEF Read
<1>5. \/ heard' = heard
      \/ m.kind = "audio" /\ heard' = [heard EXCEPT !.audio = Append(@, m.of)]
      \/ m.kind = "stop" /\ heard' = [heard EXCEPT !.events = Append(@, m.of)]
  BY DEF Read
<1> HIDE DEF m, w
<1>6. /\ sess'.seq = sess.seq /\ sess'.id = sess.id
      /\ \/ sess'.reply = sess.reply
         \/ /\ m.kind = "reply" /\ m.of = sess.seq
            /\ sess'.reply = IF m.ok THEN "ok" ELSE "refused"
  BY <1>0, <1>4 DEF ZelloSessions
<1>r. \A i \in DOMAIN w : \E j \in DOMAIN far.wire : w[i] = far.wire[j]
  BY <1>1
<1>7. NothingIsKept'
  <2>1. far.up
    BY <1>0 DEF NothingIsKept
  <2> QED BY <1>0, <1>3, <2>1 DEF NothingIsKept
<1>8. RadioIsMinded'
  BY <1>0, RadioSame
<1>9. CommandsAreNumbered'
  <2>1. \A i \in DOMAIN far'.wire : far'.wire[i].kind = "reply" =>
          /\ far'.wire[i].of \in 1..sess.seq
          /\ \A j \in DOMAIN far.asked : far'.wire[i].of # far.asked[j].seq
    BY <1>0, <1>3, <1>r DEF CommandsAreNumbered
  <2>2. Waits' => sess'.id = 0
    BY <1>0, <1>6 DEF CommandsAreNumbered, Waits
  <2> QED BY <1>0, <1>3, <1>6, <2>1, <2>2 DEF CommandsAreNumbered
<1>10. StreamsAreMinded'
  <2> SUFFICES ASSUME "unanswered" \notin faults
               PROVE  /\ StartIsOnItsWay' /\ OpenIsMinded'
                      /\ pump.at = "opening" /\ Unopened' => sess.seq \notin far.open
    BY <1>0, <1>3, <1>6 DEF StreamsAreMinded
  <2>1. /\ StartIsOnItsWay /\ OpenIsMinded
        /\ pump.at = "opening" /\ Unopened => sess.seq \notin far.open
    BY <1>0 DEF StreamsAreMinded
  <2>2. OpenIsMinded'
    BY <1>0, <1>3, <1>6, <2>1 DEF OpenIsMinded, IsMinded, IsToClose
  <2>3. StartIsOnItsWay'
    <3> SUFFICES ASSUME NEW i \in DOMAIN far.asked, far.asked[i].command = "start"
                 PROVE  pump.at = "opening" /\ far.asked[i].seq = sess.seq /\ sess'.reply = ""
      BY <1>0, <1>3, <1>6 DEF StartIsOnItsWay
    <3>1. pump.at = "opening" /\ far.asked[i].seq = sess.seq /\ sess.reply = ""
      BY <2>1 DEF StartIsOnItsWay
    <3>2. ~(m.kind = "reply" /\ m.of = sess.seq)
      BY <1>0, <1>1, <3>1 DEF CommandsAreNumbered
    <3> QED BY <1>6, <3>1, <3>2
  <2>4. Unopened' => Unopened
    <3> SUFFICES ASSUME Unopened' PROVE Unopened
      OBVIOUS
    <3>1. CASE \E i \in DOMAIN far'.asked : far'.asked[i].command = "start"
      BY <1>3, <3>1 DEF Unopened
    <3>2. CASE sess'.reply = "refused"
      BY <1>1, <1>6, <3>2 DEF Unopened
    <3>3. CASE \E i \in DOMAIN far'.wire :
                 far'.wire[i].kind = "reply" /\ far'.wire[i].of = sess'.seq /\ ~far'.wire[i].ok
      BY <1>3, <1>6, <1>r, <3>3 DEF Unopened
    <3> QED BY <3>1, <3>2, <3>3 DEF Unopened
  <2> QED BY <2>1, <2>2, <2>3, <2>4
<1>11. StopsComeLast'
  <2>1. ASSUME NEW u, SaidAll(u) PROVE SaidAll(u)'
    BY <1>3, <1>r, <2>1 DEF SaidAll
  <2>2. ASSUME NEW i \in DOMAIN far'.wire, far'.wire[i].kind = "stop"
        PROVE  /\ far'.wire[i].of \in far'.silent
               /\ \A j \in DOMAIN far'.wire :
                    j > i /\ far'.wire[j].kind = "audio" => far'.wire[j].of # far'.wire[i].of
    <3>1. i \in Nat /\ i + 1 \in DOMAIN far.wire /\ w[i] = far.wire[i + 1] /\ i \in DOMAIN w
      BY <1>1, <1>3, <2>2
    <3>2. ASSUME NEW j \in DOMAIN w, j > i PROVE j + 1 > i + 1 /\ j + 1 \in DOMAIN far.wire /\ w[j] = far.wire[j + 1]
      BY <1>1, <3>1, <3>2
    <3> QED BY <1>0, <1>3, <2>2, <3>1, <3>2 DEF StopsComeLast
  <2>3. CASE heard' = heard
    BY <1>0, <2>1, <2>2, <2>3 DEF StopsComeLast, StoppedStaysStopped
  <2>4. CASE m.kind = "audio" /\ heard' = [heard EXCEPT !.audio = Append(@, m.of)]
    <3>1. heard'.audio = Append(heard.audio, m.of) /\ heard'.events = heard.events
      BY <1>0, <2>4
    <3>2. m.of \in Voices
      BY <1>2, <2>4
    <3>3. \A i \in DOMAIN heard'.audio : (i \in DOMAIN heard.audio /\ heard'.audio[i] = heard.audio[i]) \/ heard'.audio[i] = m.of
      BY <1>q, <3>1, <3>2, Pushes
    <3>4. \A v \in over : m.of # v
      BY <1>0, <1>1, <2>4 DEF StopsComeLast, SaidAll
    <3>5. \A v \in over : \A i \in DOMAIN heard'.audio : heard'.audio[i] # v
      BY <1>0, <3>3, <3>4 DEF StopsComeLast
    <3> QED BY <1>0, <2>1, <2>2, <3>1, <3>5 DEF StopsComeLast, StoppedStaysStopped
  <2>5. CASE m.kind = "stop" /\ heard' = [heard EXCEPT !.events = Append(@, m.of)]
    <3>1. heard'.events = Append(heard.events, m.of) /\ heard'.audio = heard.audio
      BY <1>0, <2>5
    <3>2. m.of \in Voices
      BY <1>2, <2>5
    <3>3. \A i \in DOMAIN heard'.events : (i \in DOMAIN heard.events /\ heard'.events[i] = heard.events[i]) \/ heard'.events[i] = m.of
      BY <1>q, <3>1, <3>2, Pushes
    <3>4. /\ m.of \in far'.silent
          /\ \A i \in DOMAIN far'.wire : far'.wire[i].kind = "audio" => far'.wire[i].of # m.of
      <4>1. m.of \in far.silent
        BY <1>0, <1>1, <2>5 DEF StopsComeLast
      <4>2. ASSUME NEW i \in DOMAIN w, w[i].kind = "audio" PROVE w[i].of # m.of
        BY <1>0, <1>1, <1>w, <2>5, <4>2 DEF StopsComeLast
      <4> QED BY <1>3, <4>1, <4>2
    <3>5. ASSUME NEW i \in DOMAIN heard'.events
          PROVE  /\ heard'.events[i] \in far'.silent
                 /\ \A j \in DOMAIN far'.wire : far'.wire[j].kind = "audio" => far'.wire[j].of # heard'.events[i]
      <4>1. CASE heard'.events[i] = m.of
        BY <3>4, <4>1
      <4>2. CASE i \in DOMAIN heard.events /\ heard'.events[i] = heard.events[i]
        <5>1. SaidAll(heard.events[i])
          BY <1>0, <4>2 DEF StopsComeLast
        <5> QED BY <1>3, <1>r, <4>2, <5>1 DEF SaidAll
      <4> QED BY <3>3, <4>1, <4>2
    <3>6. \A i \in DOMAIN heard'.events : SaidAll(heard.events[i])'
      BY <3>5 DEF SaidAll
    <3> QED BY <1>0, <2>1, <2>2, <3>1, <3>6 DEF StopsComeLast, StoppedStaysStopped
  <2> QED BY <1>5, <2>3, <2>4, <2>5
<1> QED BY <1>7, <1>8, <1>9, <1>10, <1>11 DEF ZelloRest

(* The connection is lost.                                                 *)
LEMMA LosesStep ==
  ASSUME ZelloInv, Loses
  PROVE  ZelloRest'
<1>0. /\ ZelloTypeOK /\ NothingIsKept /\ CommandsAreNumbered /\ RadioIsMinded /\ StopsComeLast
      /\ UNCHANGED <<pump, sess, bridge, heard, radio, faults, over>> /\ far \in Servers /\ far.up
      /\ far' = [NoServer EXCEPT !.spoken = far.spoken]
  BY DEF ZelloInv, ZelloTypeOK, Loses
<1>1. /\ far'.asked = <<>> /\ far'.open = {} /\ far'.wire = <<>> /\ far'.up = FALSE /\ far'.silent = Voices
      /\ DOMAIN far'.asked = {} /\ DOMAIN far'.wire = {}
  BY <1>0 DEF NoServer
<1>2. NothingIsKept'
  BY <1>0, <1>1 DEF NothingIsKept
<1>3. CommandsAreNumbered'
  BY <1>0, <1>1 DEF CommandsAreNumbered, Waits
<1>4. StreamsAreMinded'
  BY <1>1 DEF StreamsAreMinded, StartIsOnItsWay, OpenIsMinded
<1>5. RadioIsMinded'
  BY <1>0, RadioSame
<1>6. StopsComeLast'
  <2>1. \A u : SaidAll(u) => SaidAll(u)'
    BY <1>0, <1>1 DEF SaidAll, Servers
  <2> QED BY <1>0, <1>1, <2>1 DEF StopsComeLast, StoppedStaysStopped
<1> QED BY <1>2, <1>3, <1>4, <1>5, <1>6 DEF ZelloRest

LEMMA ZelloStep == ZelloInv /\ [Zelloing]_zelloVars => ZelloInv'
<1> SUFFICES ASSUME ZelloInv, [Zelloing]_zelloVars PROVE ZelloInv'
  OBVIOUS
<1>0. /\ ZelloTypeOK /\ NothingIsKept /\ CommandsAreNumbered /\ StreamsAreMinded /\ RadioIsMinded /\ StopsComeLast
  BY DEF ZelloInv
<1>1. ASSUME ZelloTypeOK', ZelloRest' PROVE ZelloInv'
  BY <1>1 DEF ZelloInv, ZelloRest
<1>2. ASSUME UNCHANGED <<pump, sess, bridge, heard, far, radio, faults, over>> PROVE ZelloInv'
  <2>1. ZelloTypeOK' /\ NothingIsKept'
    BY <1>0, <1>2 DEF ZelloTypeOK, NothingIsKept
  <2>2. Waits' => sess'.id = 0
    BY <1>0, <1>2 DEF Waits, CommandsAreNumbered
  <2>3. CommandsAreNumbered' /\ StreamsAreMinded' /\ RadioIsMinded' /\ StopsComeLast'
    BY <1>0, <1>2, <2>2, CommandsSame, StreamsSame, RadioSame, StopsSame
  <2> QED BY <2>1, <2>3 DEF ZelloInv
<1>3. CASE UNCHANGED zelloVars
  BY <1>2, <1>3 DEF zelloVars
<1>4. CASE DrainsFor \/ (\E why \in Failures : LogonFails(why)) \/ \E f \in UsrpFrames : Receive(f)
  BY <1>2, <1>4 DEF DrainsFor, LogonFails, Receive
<1>5. CASE TakesFrame
  <2>1. UNCHANGED <<heard, radio, faults, over>> /\ Selects
    BY <1>5 DEF TakesFrame
  <2>2. \/ UNCHANGED <<pump, sess, bridge, far>>
        \/ RadioRelease("closing", "select")
        \/ \E then \in {"", "audio"} : RadioKeyup(then) /\ UNCHANGED bridge
        \/ bridge' = Packs(bridge) /\ UNCHANGED <<pump, sess, far>>
    BY <1>5 DEF TakesFrame
  <2>3. ZelloTypeOK'
    BY <1>0, <1>5, ZelloTypeStep DEF Zelloing, Pumping
  <2>4. CASE UNCHANGED <<pump, sess, bridge, far>>
    BY <1>2, <2>1, <2>4
  <2>5. CASE RadioRelease("closing", "select")
    BY <1>1, <2>1, <2>3, <2>5, ReleaseStep DEF ZelloRest
  <2>6. CASE \E then \in {"", "audio"} : RadioKeyup(then) /\ UNCHANGED bridge
    BY <1>1, <2>1, <2>3, <2>6, KeyupStep DEF ZelloRest
  <2>7. CASE bridge' = Packs(bridge) /\ UNCHANGED <<pump, sess, far>>
    <3>1. bridge \in ZelloBridges
      BY <1>0 DEF ZelloTypeOK
    <3>2. bridge'.on = bridge.on /\ bridge'.stream = bridge.stream /\ bridge'.keyed = bridge.keyed
      BY <2>7, <3>1 DEF Packs, ZelloBridges
    <3>3. pump.at = "select"
      BY <2>1 DEF Selects
    <3>4. NothingIsKept'
      BY <1>0, <2>1, <2>7, <3>3 DEF NothingIsKept
    <3>5. CommandsAreNumbered' /\ StreamsAreMinded' /\ RadioIsMinded' /\ StopsComeLast'
      <4>1. Waits' => sess'.id = 0
        BY <2>7, <3>3 DEF Waits
      <4> QED BY <1>0, <2>1, <2>7, <3>2, <4>1, CommandsSame, StreamsSame, RadioSame, StopsSame
    <3> QED BY <1>1, <2>3, <3>4, <3>5 DEF ZelloRest
  <2> QED BY <2>2, <2>4, <2>5, <2>6, <2>7
<1>6. CASE TicksZello \/ Leaves
  <2>1. UNCHANGED <<heard, radio, faults, over>> /\ Selects
    BY <1>6 DEF TicksZello, Leaves
  <2>2. \/ \E waits \in {"closing", "leaving"}, goesOn \in {"select", "left"} : RadioRelease(waits, goesOn)
        \/ pump' = [pump EXCEPT !.at = "left"] /\ UNCHANGED <<bridge, sess, far>>
    BY <1>6 DEF TicksZello, Leaves
  <2>3. ZelloTypeOK'
    BY <1>0, <1>6, ZelloTypeStep DEF Zelloing, Pumping
  <2>4. CASE \E waits \in {"closing", "leaving"}, goesOn \in {"select", "left"} : RadioRelease(waits, goesOn)
    BY <1>1, <2>1, <2>3, <2>4, ReleaseStep DEF ZelloRest
  <2>5. CASE pump' = [pump EXCEPT !.at = "left"] /\ UNCHANGED <<bridge, sess, far>>
    <3>1. /\ pump'.at = "left" /\ pump'.toZello = pump.toZello /\ pump'.toRadio = pump.toRadio
          /\ pump'.playing = pump.playing /\ pump.at = "select"
      BY <1>0, <2>1, <2>5 DEF ZelloTypeOK, Pumps, Selects
    <3>2. NothingIsKept'
      BY <1>0, <2>1, <2>5, <3>1 DEF NothingIsKept
    <3>3. CommandsAreNumbered' /\ StreamsAreMinded' /\ RadioIsMinded' /\ StopsComeLast'
      <4>1. Waits' => sess'.id = 0
        BY <3>1 DEF Waits
      <4> QED BY <1>0, <2>1, <2>5, <3>1, <4>1, CommandsSame, StreamsSame, RadioSame, StopsSame
    <3> QED BY <1>1, <2>3, <3>2, <3>3 DEF ZelloRest
  <2> QED BY <2>2, <2>4, <2>5
<1>7. ASSUME Zelloing PROVE ZelloTypeOK'
  BY <1>0, <1>7, ZelloTypeStep
<1> QED BY <1>1, <1>3, <1>4, <1>5, <1>6, <1>7, AudioStep, TakesStopStep, StoppingStep, StartReturnsStep, StopReturnsStep,
           LeftStep, ConnectsStep, AnswersStep, SpeaksStep, ReadStep, LosesStep
        DEF Zelloing, Pumping, Connecting, Outside

(* The connector lets go of what it took hold of: a stream it opened on    *)
(* the channel, unless a reply came too late, a transmission toward QSP,   *)
(* unless it could not be written; and it does not key QSP again for a     *)
(* stream it has seen the end of (connector.go, pump; zellobridge).  For   *)
(* any streams, queues and sessions.                                       *)
THEOREM ConnectorAlwaysLetsGo == ZelloSpec => []ConnectorLetsGo
<1>1. ZelloInit => ZelloInv
  BY ZelloInitInv
<1>2. ZelloInv /\ [Zelloing]_zelloVars => ZelloInv'
  BY ZelloStep
<1>3. ZelloInv => ConnectorLetsGo
  BY ZelloInvImplies
<1> QED BY <1>1, <1>2, <1>3, PTL DEF ZelloSpec

=============================================================================
