------------------------------ MODULE Vocoder -------------------------------
(***************************************************************************)
(* A vocoder channel (internal/vocoderlink) with the chip it borrows       *)
(* (ambe.Client, over UDP) and the supervisor that reopens the chip.  The  *)
(* channel's goroutine (Channel.Run) takes one thing at a time: a DMR      *)
(* frame, audio from USRP, the idle tick, or a burst whose time has come.  *)
(* One chip carries one direction at a time.                               *)
(*                                                                         *)
(* Either queue drops what it has no room for, so any frame but a release  *)
(* may be missing, and any frame may follow any other.  An exchange with   *)
(* the chip is answered, answered oddly, or times out; the answer to one   *)
(* that timed out may come later, to the same socket.  Time is left out:   *)
(* a call may be idle, and a burst due or late, at any moment.             *)
(***************************************************************************)
EXTENDS Integers, Sequences, FiniteSets

CONSTANTS
  Calls,            \* the streams of DMR calls
  Keyings,            \* the streams of transmissions made from USRP audio
  FramesPerBurst,
  MaxSockets, MaxPaced   \* bounds: clients opened, bursts waiting

ASSUME VocoderAssumption ==
  /\ 0 \notin Calls \cup Keyings
  /\ FramesPerBurst \in Nat \ {0}

VARIABLES
  voc,      \* the supervised client: [sock, up, broken, holder, late, stale]
  cur,      \* *call: [stream, chip]; stream 0 is nil, chip 0 is refused
  outbound, \* *outbound: [on, stream, chip, frames]
  usrp,     \* the far end of the USRP socket: "idle", "keyed" or, when the
            \* unkey could not be written, "stuck"
  paced,    \* pacer.queue: a sequence of [kind, stream]
  open,     \* pacer.open
  down,     \* Run has returned
  onAir,    \* history: the over whose header went out and terminator did not
  spent,    \* history: the overs begun
  misread   \* history: an answer was taken for another request's

vocoderVars == <<voc, cur, outbound, usrp, paced, open, down, onAir, spent, misread>>

NoDmrCall == [stream |-> 0, chip |-> 0]
NoOver == [on |-> FALSE, stream |-> 0, chip |-> 0, frames |-> 0]

(***************************************************************************)
(* client.go                                                               *)
(***************************************************************************)
Outcomes == {"answered", "odd", "timeout"}

(* Mutant: a timeout leaves the client in use. *)
AfterKept(v, how) == [v EXCEPT !.late = @ \/ how = "timeout"]
(* send: after a timeout the client is not to be used again. *)
After(v, how) ==
  [v EXCEPT !.broken = @ \/ how = "timeout", !.late = @ \/ how = "timeout"]

(* An exchange that is answered reads what is in the socket.               *)
Reads(v, how) == how # "timeout" /\ v.stale

(* ClientFor: a client that is broken is not lent out. *)
Reachable(v) == v.up /\ ~v.broken

(* Acquire sets the rate and initialises; an odd answer to the first is a  *)
(* chip to be reopened, the second's is not looked at.                     *)
Acquired(v, who, how) ==
  IF how = "answered" THEN [v EXCEPT !.holder = who]
  ELSE [After(v, how) EXCEPT !.broken = @ \/ how = "odd"]

(* Release and Decode on a client that was closed touch nothing of ours.   *)
Release(v, chip) == IF chip = v.sock THEN [v EXCEPT !.holder = "none"] ELSE v
Holds(v, chip) == chip = v.sock /\ v.up /\ v.holder # "none"

(***************************************************************************)
(* vocoderlink.go: a step is a function of w, [voc, cur, usrp, misread].   *)
(***************************************************************************)
(* finish: the far end is unkeyed and the chip given back. *)
Finish(w, sent) ==
  IF w.cur.chip = 0 THEN [w EXCEPT !.cur = NoDmrCall]
  ELSE [w EXCEPT !.cur = NoDmrCall, !.voc = Release(w.voc, w.cur.chip),
                 !.usrp = IF sent THEN "idle" ELSE "stuck"]

(* fail: the rest of the call is not carried. *)
Fails(w, sent) == [Finish(w, sent) EXCEPT !.cur = [stream |-> w.cur.stream, chip |-> 0]]

(* The chip is had; a call that cannot key the far end gives it back.      *)
Keys(w, stream, sent) ==
  IF sent THEN [w EXCEPT !.cur = [stream |-> stream, chip |-> w.voc.sock], !.usrp = "keyed"]
  ELSE [w EXCEPT !.cur = [stream |-> stream, chip |-> 0], !.voc = Release(w.voc, w.voc.sock)]

(* start: refused, the call is remembered without a chip. *)
Begin(w, stream, how, sent) ==
  LET asked == [w EXCEPT !.voc = Acquired(w.voc, "call", how), !.misread = @ \/ Reads(w.voc, how)]
      refused == [stream |-> stream, chip |-> 0]
  IN  IF ~Reachable(w.voc) \/ w.voc.holder # "none" THEN [w EXCEPT !.cur = refused]
      ELSE IF how # "answered" THEN [asked EXCEPT !.cur = refused]
      ELSE Keys(asked, stream, sent)

(* A voice burst is three frames through the chip and out to USRP.         *)
Decoded(w, how, sent) ==
  LET asked == [w EXCEPT !.voc = After(w.voc, how), !.misread = @ \/ Reads(w.voc, how)]
  IN  IF ~Holds(w.voc, w.cur.chip) THEN Fails(w, sent)
      ELSE IF how = "answered" /\ sent THEN asked
      ELSE Fails(asked, sent)

(* handle.  The stages are what the other call, the new one and the burst  *)
(* each make of w.                                                         *)
Ended(w, stream, sent) == IF w.cur.stream \in {0, stream} THEN w ELSE Finish(w, sent)
Handled(w, stream, kind, how1, how2, sent) ==
  LET first == Ended(w, stream, sent)
      second == IF first.cur.stream = 0 THEN Begin(first, stream, how1, sent) ELSE first
  IN  IF kind = "terminator" THEN Finish(first, sent)
      ELSE IF kind = "header" \/ second.cur.chip = 0 THEN second
      ELSE Decoded(second, how2, sent)

State == [voc |-> voc, cur |-> cur, usrp |-> usrp, misread |-> misread]
Becomes(w) == voc' = w.voc /\ cur' = w.cur /\ usrp' = w.usrp /\ misread' = w.misread

HearFrame(stream, kind, how1, how2, sent) ==
  /\ ~down
  /\ IF outbound.chip # 0
       THEN (* the chip is carrying the other way *)
            /\ cur' = IF cur.stream = stream THEN cur ELSE [stream |-> stream, chip |-> 0]
            /\ UNCHANGED <<voc, usrp, misread>>
       ELSE \E w \in {Handled(State, stream, kind, how1, how2, sent)} : Becomes(w)
  /\ UNCHANGED <<outbound, paced, open, down, onAir, spent>>

CallIdles(sent) ==
  /\ ~down /\ cur # NoDmrCall
  /\ \E w \in {Finish(State, sent)} : Becomes(w)
  /\ UNCHANGED <<outbound, paced, open, down, onAir, spent>>

(***************************************************************************)
(* outbound.go                                                             *)
(***************************************************************************)
Push(stream, kind) == Append(paced, [kind |-> kind, stream |-> stream])

(* startOutbound. *)
OverBegins(stream, how) ==
  /\ ~down /\ ~outbound.on /\ stream \notin spent /\ Len(paced) < MaxPaced
  /\ spent' = spent \cup {stream}
  /\ IF cur.chip # 0 \/ ~Reachable(voc) \/ voc.holder # "none"
       THEN outbound' = [NoOver EXCEPT !.on = TRUE] /\ UNCHANGED <<voc, paced, misread>>
       ELSE /\ voc' = Acquired(voc, "over", how)
            /\ misread' = (misread \/ Reads(voc, how))
            /\ IF how = "answered"
                 THEN /\ outbound' = [on |-> TRUE, stream |-> stream, chip |-> voc.sock, frames |-> 0]
                      /\ paced' = Push(stream, "header")
                 ELSE outbound' = [NoOver EXCEPT !.on = TRUE] /\ UNCHANGED paced
  /\ UNCHANGED <<cur, usrp, open, down, onAir>>

(* The rest of an over that was refused or failed is not carried.           *)
Refused == [NoOver EXCEPT !.on = TRUE]

(* encodeInto, emitVoice and failOutbound. *)
OverSpeaks(how) ==
  /\ ~down /\ outbound.chip # 0 /\ Len(paced) < MaxPaced
  /\ misread' = (misread \/ (Holds(voc, outbound.chip) /\ Reads(voc, how)))
  /\ IF how = "answered" /\ Holds(voc, outbound.chip)
       THEN /\ paced' = IF outbound.frames + 1 = FramesPerBurst THEN Push(outbound.stream, "voice") ELSE paced
            /\ outbound' = [outbound EXCEPT !.frames = (@ + 1) % FramesPerBurst]
            /\ UNCHANGED voc
       ELSE /\ paced' = Push(outbound.stream, "terminator")
            /\ outbound' = Refused
            /\ voc' = Release(After(voc, how), outbound.chip)
  /\ UNCHANGED <<cur, usrp, open, down, onAir, spent>>

(* Mutant: the last burst is pushed after the terminator. *)
LastBurstsSwapped(how) ==
  IF outbound.frames > 0 /\ how = "answered" /\ Holds(voc, outbound.chip)
  THEN <<[kind |-> "terminator", stream |-> outbound.stream], [kind |-> "voice", stream |-> outbound.stream]>>
  ELSE <<[kind |-> "terminator", stream |-> outbound.stream]>>
(* endOutbound: a burst begun is filled with silence, if the chip will.    *)
LastBursts(how) ==
  IF outbound.frames > 0 /\ how = "answered" /\ Holds(voc, outbound.chip)
  THEN <<[kind |-> "voice", stream |-> outbound.stream], [kind |-> "terminator", stream |-> outbound.stream]>>
  ELSE <<[kind |-> "terminator", stream |-> outbound.stream]>>

EndOutbound(how) ==
  IF outbound.chip = 0 THEN outbound' = NoOver /\ UNCHANGED <<voc, paced, misread>>
  ELSE /\ paced' = paced \o LastBursts(how)
       /\ misread' = (misread \/ (outbound.frames > 0 /\ Reads(voc, how)))
       /\ voc' = Release(IF outbound.frames > 0 THEN After(voc, how) ELSE voc, outbound.chip)
       /\ outbound' = NoOver

(* The release of the key, or the idle tick. *)
OverEnds(how) ==
  /\ ~down /\ outbound.on
  /\ EndOutbound(how)
  /\ UNCHANGED <<cur, usrp, open, down, onAir, spent>>

(***************************************************************************)
(* pace.go: bursts leave in their order; while one over is open and no     *)
(* burst of it is there in time, silence goes in its place.                *)
(***************************************************************************)
Opened(now, item) ==
  CASE item.kind = "header" -> item.stream
    [] item.kind = "terminator" -> 0
    [] OTHER -> now

ReleasePaced ==
  /\ ~down /\ paced # <<>>
  /\ paced' = Tail(paced)
  /\ open' = Opened(open, Head(paced)) /\ onAir' = Opened(onAir, Head(paced))
  /\ UNCHANGED <<voc, cur, outbound, usrp, down, spent, misread>>

(* Run's last case: what is held is let go and what waits is sent.         *)
Shutdown(how, sent) ==
  /\ ~down /\ down' = TRUE
  /\ IF cur.chip # 0
       THEN (\E w \in {Finish(State, sent)} : Becomes(w)) /\ outbound' = NoOver /\ UNCHANGED paced
       ELSE EndOutbound(how) /\ UNCHANGED <<cur, usrp>>
  /\ UNCHANGED <<open, onAir, spent>>

FlushPaced ==
  /\ down /\ paced # <<>>
  /\ paced' = Tail(paced) /\ open' = 0 /\ onAir' = Opened(onAir, Head(paced))
  /\ UNCHANGED <<voc, cur, outbound, usrp, down, spent, misread>>

(***************************************************************************)
(* supervisor.go                                                           *)
(***************************************************************************)
(* keepOpen: a broken client is closed and another opened on a socket of   *)
(* its own, where no answer to the old one's requests can come.            *)
Reopens ==
  /\ voc.up /\ voc.broken
  /\ voc' = [voc EXCEPT !.up = FALSE, !.holder = "none", !.late = FALSE, !.stale = FALSE]
  /\ UNCHANGED <<cur, outbound, usrp, paced, open, down, onAir, spent, misread>>

(* openOnce, after the handshake; one that fails is tried again later.     *)
ClientOpens ==
  /\ ~voc.up /\ voc.sock < MaxSockets
  /\ voc' = [sock |-> voc.sock + 1, up |-> TRUE, broken |-> FALSE, holder |-> "none",
             late |-> FALSE, stale |-> FALSE]
  /\ UNCHANGED <<cur, outbound, usrp, paced, open, down, onAir, spent, misread>>

AnswerArrivesLate ==
  /\ voc.late
  /\ voc' = [voc EXCEPT !.late = FALSE, !.stale = TRUE]
  /\ UNCHANGED <<cur, outbound, usrp, paced, open, down, onAir, spent, misread>>

VocoderInit ==
  /\ voc = [sock |-> 0, up |-> FALSE, broken |-> FALSE, holder |-> "none", late |-> FALSE, stale |-> FALSE]
  /\ cur = NoDmrCall /\ outbound = NoOver /\ usrp = "idle" /\ paced = <<>> /\ open = 0 /\ down = FALSE
  /\ onAir = 0 /\ spent = {} /\ misread = FALSE

Channelling ==
  \/ \E stream \in Calls, kind \in {"header", "voice", "terminator"}, how1, how2 \in Outcomes, sent \in BOOLEAN :
       HearFrame(stream, kind, how1, how2, sent)
  \/ \E sent \in BOOLEAN : CallIdles(sent)
  \/ \E stream \in Keyings, how \in Outcomes : OverBegins(stream, how)
  \/ \E how \in Outcomes : OverSpeaks(how) \/ OverEnds(how)
  \/ ReleasePaced
  \/ \E how \in Outcomes, sent \in BOOLEAN : Shutdown(how, sent)
  \/ FlushPaced
Supervising == Reopens \/ ClientOpens \/ AnswerArrivesLate

(***************************************************************************)
(* Properties                                                              *)
(***************************************************************************)
(* No answer is taken for another request's: after a timeout the socket is *)
(* never read again, so audio cannot run a frame behind (client.go,        *)
(* broken).                                                                *)
AnswersMatch == ~misread

(* The chip is held only by the call or the over that has it, and works;   *)
(* no error path leaves it held, which would refuse every later call.      *)
NothingHoldsInVain ==
  voc.holder # "none" =>
    /\ ~voc.broken
    /\ IF voc.holder = "call" THEN cur.chip = voc.sock /\ outbound.chip = 0
       ELSE outbound.chip = voc.sock /\ cur.chip = 0

(* The chip serves one holder at a time, and gives it its own answers.     *)
ChipServesItsHolder == AnswersMatch /\ NothingHoldsInVain

(* What goes to the DMR network is whole transmissions, in order: after    *)
(* what is on the air, the waiting bursts are a header, voice and a        *)
(* terminator, over by over, and only the over that has the chip is        *)
(* unfinished, whatever failed (pace.go, terminate, flushPaced).           *)
TransmissionsAreWhole ==
  LET line == IF onAir = 0 THEN paced ELSE <<[kind |-> "header", stream |-> onAir]>> \o paced
  IN  /\ \A i \in 1..Len(line) :
           IF line[i].kind = "header" THEN i > 1 => line[i - 1].kind = "terminator"
           ELSE i > 1 /\ line[i - 1].kind # "terminator" /\ line[i - 1].stream = line[i].stream
      /\ line # <<>> /\ line[Len(line)].kind # "terminator" => outbound.stream = line[Len(line)].stream
      /\ outbound.chip # 0 => line # <<>> /\ line[Len(line)].stream = outbound.stream
      /\ open \in {0, onAir}
=============================================================================
