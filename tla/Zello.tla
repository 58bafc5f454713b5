------------------------------- MODULE Zello --------------------------------
(***************************************************************************)
(* The Zello connector (cmd/qsp-zello): one session with the Zello server  *)
(* at a time (internal/zello), a bridge between it and QSP's USRP socket   *)
(* (internal/zellobridge), and the pump, one goroutine that takes one      *)
(* frame, packet, event or tick at a time and waits inside a command for   *)
(* its reply.  The session's reader is a second goroutine: it answers the  *)
(* command that waits and puts audio and events into two channels, so the  *)
(* order they came in is lost.                                             *)
(*                                                                         *)
(* The server and QSP's end of the socket are external.  A reply may come  *)
(* after the command gave up, a write to QSP may fail, and the connection  *)
(* may be lost at any moment.  Time is left out: a transmission may have   *)
(* been quiet for long enough whenever the tick looks.                     *)
(***************************************************************************)
EXTENDS Integers, Sequences, FiniteSets

CONSTANTS
  Voices,               \* the streams other people open on the channel
  AudioRoom, EventRoom, \* what the session's two channels hold
  UsrpRoom,             \* usrpQueue
  FramesPerPacket,      \* 20 ms frames in a packet
  MaxCommands, MaxSpoken, MaxSessions  \* bounds

ASSUME ZelloAssumption ==
  /\ 0 \notin Voices
  /\ {AudioRoom, EventRoom, UsrpRoom, FramesPerPacket} \subseteq Nat \ {0}

VARIABLES
  pump,     \* pump's locals, where it is, and the event it drains for
  sess,     \* [seq, id, reply]: Session's seq and streamID, and the reply
            \* the command that waits has been given
  bridge,   \* [keyed, packed]: Bridge.toZello, [on, stream] : Bridge.toRadio
  heard,    \* Session.audio and Session.events
  frames,   \* the queue of what QSP sent
  far,      \* the server: [up, asked, open, wire, silent, spoken]
  radio,    \* QSP's end of the socket holds a transmission open
  shown,    \* connector.state
  sessions, \* how many sessions have been opened
  faults,   \* history: what went wrong that the code does not make good
  over      \* history: the streams whose stop the pump has acted on

zelloVars == <<pump, sess, bridge, heard, frames, far, radio, shown, sessions, faults, over>>

Away == [at |-> "away", then |-> "", toZello |-> FALSE, toRadio |-> FALSE, playing |-> 0,
         stopped |-> 0]
NewSession == [seq |-> 0, id |-> 0, reply |-> ""]
NewBridge == [keyed |-> FALSE, packed |-> 0, on |-> FALSE, stream |-> 0]
NoServer == [up |-> FALSE, asked |-> <<>>, open |-> {}, wire |-> <<>>, silent |-> Voices, spoken |-> 0]

ZelloInit ==
  /\ pump = Away /\ sess = NewSession /\ bridge = NewBridge
  /\ heard = [audio |-> <<>>, events |-> <<>>]
  /\ frames = <<>> /\ far = NoServer /\ radio = FALSE
  /\ shown = "starting" /\ sessions = 0 /\ faults = {} /\ over = {}

(***************************************************************************)
(* audio/queue.go                                                          *)
(***************************************************************************)
UsrpFrames == {"keyup", "audio", "release"}

(* The place of what goes to make room: audio before a keyup or a release. *)
Oldest(q) ==
  LET sound == {i \in DOMAIN q : q[i] = "audio"}
  IN  IF sound = {} THEN 1 ELSE CHOOSE i \in sound : \A j \in sound : i <= j

Pushed(q, f) ==
  Append(IF Len(q) < UsrpRoom THEN q
         ELSE SubSeq(q, 1, Oldest(q) - 1) \o SubSeq(q, Oldest(q) + 1, Len(q)), f)

(* receive: whatever the pump is doing. *)
Receive(f) ==
  /\ frames' = Pushed(frames, f)
  /\ UNCHANGED <<pump, sess, bridge, heard, far, radio, shown, sessions, faults, over>>

(***************************************************************************)
(* The server, external: it takes commands in the order they were sent,    *)
(* and what it says arrives in order.                                      *)
(***************************************************************************)
ServerAnswers(opens) ==
  /\ far.up /\ far.asked # <<>>
  /\ LET c == Head(far.asked) IN
     /\ c.command = "stop" => opens = FALSE
     /\ far' = [far EXCEPT
          !.asked = Tail(@),
          !.open = IF c.command = "stop" THEN @ \ {c.id} ELSE IF opens THEN @ \cup {c.seq} ELSE @,
          !.wire = Append(@, [kind |-> "reply", of |-> c.seq, ok |-> opens \/ c.command = "stop"])]
  /\ UNCHANGED <<pump, sess, bridge, heard, frames, radio, shown, sessions, faults, over>>

Speaks(v, last) ==
  /\ far.up /\ v \notin far.silent /\ far.spoken < MaxSpoken
  /\ far' = [far EXCEPT !.wire = Append(@, [kind |-> IF last THEN "stop" ELSE "audio", of |-> v, ok |-> TRUE]),
                        !.silent = IF last THEN @ \cup {v} ELSE @,
                        !.spoken = @ + 1]
  /\ UNCHANGED <<pump, sess, bridge, heard, frames, radio, shown, sessions, faults, over>>

(* The connection is lost, and with it what had not been read.  The server *)
(* closes what it had open for the session.                                *)
Loses ==
  /\ far.up
  /\ far' = [NoServer EXCEPT !.spoken = far.spoken]
  /\ UNCHANGED <<pump, sess, bridge, heard, frames, radio, shown, sessions, faults, over>>

(***************************************************************************)
(* session.go                                                              *)
(***************************************************************************)
Waits == pump.at \in {"opening", "closing", "leaving"}

(* read: a message at a time.  A reply nobody waits for is dropped, and so *)
(* is what a channel has no room for.                                      *)
Read ==
  /\ far.wire # <<>>
  /\ LET m == Head(far.wire) IN
     /\ sess' = IF m.kind = "reply" /\ Waits /\ m.of = sess.seq /\ sess.reply = ""
                THEN [sess EXCEPT !.reply = IF m.ok THEN "ok" ELSE "refused"] ELSE sess
     /\ heard' = CASE m.kind = "audio" /\ Len(heard.audio) < AudioRoom ->
                        [heard EXCEPT !.audio = Append(@, m.of)]
                   [] m.kind = "stop" /\ Len(heard.events) < EventRoom ->
                        [heard EXCEPT !.events = Append(@, m.of)]
                   [] OTHER -> heard
  /\ far' = [far EXCEPT !.wire = Tail(@)]
  /\ UNCHANGED <<pump, bridge, frames, radio, shown, sessions, faults, over>>

(* nextSeq and send: the command a goroutine then waits for.               *)
Sends(command, id) ==
  /\ sess.seq < MaxCommands
  /\ sess' = [seq |-> sess.seq + 1, id |-> IF command = "stop" THEN 0 ELSE sess.id, reply |-> ""]
  /\ far' = [far EXCEPT !.asked = Append(@, [command |-> command, seq |-> sess.seq + 1, id |-> id])]

(* StopStream's send fails, or there is nothing to close.                  *)
StopsUnsaid == sess' = [sess EXCEPT !.id = 0] /\ UNCHANGED far

(***************************************************************************)
(* zellobridge                                                             *)
(***************************************************************************)
(* RadioFrame with a stream open: a packet every FramesPerPacket.          *)
Packs(b) == [b EXCEPT !.packed = (@ + 1) % FramesPerPacket]

Fault(f, happened) == faults' = IF happened THEN faults \cup {f} ELSE faults

(* A packet of another stream is a new transmission. *)
New(v) == v # bridge.stream

(* ZelloPacket: the transmission before is ended, a keyup is sent and then *)
(* the audio.  A keyup that cannot be written leaves the stream recorded   *)
(* and not keyed, and the packets after it go out as they are; QSP takes   *)
(* audio without a keyup for a transmission.  wrote says which writes      *)
(* succeed.                                                                *)
ZelloPacket(v, wrote) ==
  /\ bridge' = IF New(v) THEN [bridge EXCEPT !.stream = v, !.on = wrote.keyup] ELSE bridge
  /\ radio' = IF New(v) /\ wrote.keyup THEN TRUE
              ELSE IF New(v) THEN radio /\ (bridge.on => ~wrote.release)
              ELSE radio \/ wrote.audio
  /\ Fault("unwritten", \/ New(v) /\ ~wrote.keyup
                        \/ New(v) /\ bridge.on /\ ~wrote.release)

(* finishToRadio, from ZelloStreamStopped for the stream that is open.     *)
Finished(b, stream) ==
  IF b.on /\ stream \in {0, b.stream} THEN [b EXCEPT !.on = FALSE, !.stream = 0] ELSE b

(***************************************************************************)
(* connector.go: the pump                                                  *)
(***************************************************************************)
Selects == pump.at = "select"

(* play *)
Plays(v, wrote) ==
  /\ pump' = [pump EXCEPT !.playing = v, !.toRadio = TRUE]
  /\ ZelloPacket(v, wrote)

(* A packet, in its turn or while the pump drains for a stop.              *)
TakesAudio(wrote) ==
  /\ pump.at \in {"select", "draining"} /\ heard.audio # <<>>
  /\ Plays(Head(heard.audio), wrote)
  /\ heard' = [heard EXCEPT !.audio = Tail(@)]
  /\ UNCHANGED <<sess, frames, far, shown, sessions, over>>

(* stopRadio *)
StopRadio(written) ==
  /\ bridge' = IF pump.toRadio THEN Finished(bridge, pump.playing) ELSE bridge
  /\ radio' = IF bridge'.on # bridge.on THEN radio /\ ~written ELSE radio
  /\ Fault("unwritten", bridge'.on # bridge.on /\ ~written)

(* on_stream_stop is taken: the audio that waits is played first.          *)
TakesStop ==
  /\ Selects /\ heard.events # <<>>
  /\ pump' = [pump EXCEPT !.at = "draining", !.stopped = Head(heard.events)]
  /\ heard' = [heard EXCEPT !.events = Tail(@)]
  /\ UNCHANGED <<sess, bridge, frames, far, radio, shown, sessions, faults, over>>

(* Mutant: the stop is acted on before the audio that came ahead of it. *)
DrainedAtOnce == pump.at = "draining"
(* No packet is ready. *)
Drained == pump.at = "draining" /\ heard.audio = <<>>

ActsOnStop(written) ==
  /\ Drained
  /\ IF pump.toRadio /\ pump.stopped = pump.playing
     THEN StopRadio(written) /\ pump' = [pump EXCEPT !.at = "select", !.toRadio = FALSE, !.stopped = 0]
     ELSE pump' = [pump EXCEPT !.at = "select", !.stopped = 0] /\ UNCHANGED <<bridge, radio, faults>>
  /\ over' = over \cup {pump.stopped}
  /\ UNCHANGED <<sess, heard, frames, far, shown, sessions>>

(* The tick: a Zello stream that went quiet without on_stream_stop.        *)
TicksRadio(written) ==
  /\ Selects /\ pump.toRadio
  /\ StopRadio(written)
  /\ pump' = [pump EXCEPT !.toRadio = FALSE]
  /\ UNCHANGED <<sess, heard, frames, far, shown, sessions, over>>

(* RadioRelease, after the flush: the stream is closed.  The pump waits    *)
(* for the answer, and goes on at once when the request cannot be sent.    *)
RadioRelease(waits, goesOn) ==
  /\ bridge' = [bridge EXCEPT !.keyed = FALSE, !.packed = 0]
  /\ IF far.up /\ sess.id # 0
     THEN Sends("stop", sess.id) /\ pump' = [pump EXCEPT !.at = waits]
     ELSE StopsUnsaid /\ pump' = [pump EXCEPT !.at = goesOn, !.toZello = FALSE]

(* RadioKeyup: StartStream is sent, unless the connection is gone.         *)
RadioKeyup(then) ==
  IF far.up /\ sess.id = 0
  THEN Sends("start", 0) /\ pump' = [pump EXCEPT !.at = "opening", !.then = then]
  ELSE UNCHANGED <<sess, far, pump>>

TakesFrame ==
  /\ Selects /\ frames # <<>>
  /\ LET f == Head(frames) IN
       \/ /\ f = "release" /\ pump.toZello /\ RadioRelease("closing", "select")
       \/ /\ f = "release" /\ ~pump.toZello /\ UNCHANGED <<pump, sess, bridge, far>>
       \/ /\ f = "keyup" /\ bridge.keyed /\ UNCHANGED <<pump, sess, bridge, far>>
       \/ /\ f = "keyup" /\ ~bridge.keyed /\ RadioKeyup("") /\ UNCHANGED bridge
       \/ /\ f = "audio" /\ pump.toZello
          /\ bridge' = Packs(bridge) /\ UNCHANGED <<pump, sess, far>>
       \/ /\ f = "audio" /\ ~pump.toZello /\ RadioKeyup("audio") /\ UNCHANGED bridge
  /\ frames' = Tail(frames)
  /\ UNCHANGED <<heard, radio, shown, sessions, faults, over>>

(* The tick: audio from QSP that stopped without a release.                *)
TicksZello ==
  /\ Selects /\ pump.toZello /\ RadioRelease("closing", "select")
  /\ UNCHANGED <<heard, frames, radio, shown, sessions, faults, over>>

(* await: the reply, the timeout, or the end of the session.               *)
Awaited(how) ==
  \/ how = sess.reply /\ how # ""
  \/ how = "timeout" /\ sess.reply = ""
  \/ how = "lost" /\ ~far.up /\ far.wire = <<>> /\ sess.reply = ""

(* StartStream returns: only an "ok" opens the bridge.  One that gave up   *)
(* may still be granted, and nothing will close what it opened.            *)
StartReturns(how) ==
  /\ pump.at = "opening" /\ Awaited(how)
  /\ sess' = [sess EXCEPT !.reply = "", !.id = IF how = "ok" THEN sess.seq ELSE @]
  /\ bridge' = IF how = "ok"
               THEN [bridge EXCEPT !.keyed = TRUE, !.packed = IF pump.then = "audio" THEN 1 % FramesPerPacket ELSE 0]
               ELSE [bridge EXCEPT !.packed = 0]
  /\ pump' = [pump EXCEPT !.at = "select", !.then = "", !.toZello = how = "ok"]
  /\ Fault("unanswered", how = "timeout")
  /\ UNCHANGED <<heard, frames, far, radio, shown, sessions, over>>

(* StopStream returns, whatever it returns.                                *)
StopReturns(how) ==
  /\ pump.at \in {"closing", "leaving"} /\ Awaited(how)
  /\ sess' = [sess EXCEPT !.reply = ""]
  /\ pump' = [pump EXCEPT !.at = IF @ = "closing" THEN "select" ELSE "left", !.toZello = FALSE]
  /\ UNCHANGED <<bridge, heard, frames, far, radio, shown, sessions, faults, over>>

(* The reader has stopped, or the connector is told to stop: both          *)
(* directions are closed, Zello's first.                                   *)
Leaves ==
  /\ Selects
  /\ IF pump.toZello THEN RadioRelease("leaving", "left")
     ELSE pump' = [pump EXCEPT !.at = "left"] /\ UNCHANGED <<bridge, sess, far>>
  /\ UNCHANGED <<heard, frames, radio, shown, sessions, faults, over>>

(* pump's deferred stopRadio.                                              *)
OnTheWayOut(written) ==
  LET held == pump.toRadio /\ Finished(bridge, pump.playing).on # bridge.on
  IN  /\ radio' = (radio /\ ~(held /\ written))
      /\ Fault("unwritten", held /\ ~written)

(* Then the bridge and the connection are closed.  What is shown of a      *)
(* session that ended by itself is still that it is connected; a connector *)
(* that was told to stop is a new one when it comes back.                  *)
Left(written, told) ==
  /\ pump.at = "left" /\ (told \/ ~far.up)
  /\ OnTheWayOut(written)
  /\ pump' = Away /\ sess' = NewSession /\ bridge' = NewBridge
  /\ heard' = [audio |-> <<>>, events |-> <<>>]
  /\ far' = [NoServer EXCEPT !.spoken = far.spoken]
  /\ frames' = IF told THEN <<>> ELSE frames
  /\ shown' = IF told THEN "starting" ELSE "connected"
  /\ over' = {}
  /\ UNCHANGED sessions

(***************************************************************************)
(* connector.go: loop and once                                             *)
(***************************************************************************)
Failures == {"missing", "unusable", "unreachable", "refused", "network"}

(* classify *)
Classified(why) ==
  CASE why = "missing" -> "credentials_missing"
    [] why = "unusable" -> "credentials_unusable"
    [] why = "unreachable" -> "qsp_unreachable"
    [] why = "refused" -> "zello_refused"
    [] why = "network" -> "zello_unreachable"

(* once fails before there is a session, and loop waits.                   *)
LogonFails(why) ==
  /\ pump.at = "away"
  /\ shown' = Classified(why)
  /\ UNCHANGED <<pump, sess, bridge, heard, frames, far, radio, sessions, faults, over>>

(* drainFor: what QSP sends meanwhile is thrown away.                      *)
DrainsFor ==
  /\ pump.at = "away" /\ frames # <<>>
  /\ frames' = <<>>
  /\ UNCHANGED <<pump, sess, bridge, heard, far, radio, shown, sessions, faults, over>>

(* once: logged on, the channel online, a bridge of its own, and what was  *)
(* queued during the logon discarded.                                      *)
Connects ==
  /\ pump.at = "away" /\ sessions < MaxSessions
  /\ sessions' = sessions + 1
  /\ pump' = [Away EXCEPT !.at = "select"]
  /\ far' = [far EXCEPT !.up = TRUE, !.silent = {}]
  /\ shown' = "connected"
  /\ frames' = <<>>
  /\ UNCHANGED <<sess, bridge, heard, radio, faults, over>>

-----------------------------------------------------------------------------
Wrote == {w \in [release : BOOLEAN, keyup : BOOLEAN, audio : BOOLEAN] : w.audio => w.keyup}

Pumping ==
  \/ TakesFrame \/ TakesStop \/ TicksZello \/ Leaves
  \/ \E wrote \in Wrote : TakesAudio(wrote)
  \/ \E written \in BOOLEAN : ActsOnStop(written) \/ TicksRadio(written)
  \/ \E how \in {"ok", "refused", "timeout", "lost"} : StartReturns(how) \/ StopReturns(how)

Connecting ==
  \/ \E written, told \in BOOLEAN : Left(written, told)
  \/ \E why \in Failures : LogonFails(why)
  \/ DrainsFor \/ Connects

Outside ==
  \/ \E f \in UsrpFrames : Receive(f)
  \/ \E opens \in BOOLEAN : ServerAnswers(opens)
  \/ \E v \in Voices, last \in BOOLEAN : Speaks(v, last)
  \/ Read \/ Loses

Zelloing == Pumping \/ Connecting \/ Outside

(* A Zello stream left open holds the channel against everyone, and a      *)
(* transmission left open toward QSP holds a repeater keyed (pump's        *)
(* comment).  A stream the server has open for the session is the one the  *)
(* pump is sending, one it is waiting to be given, or one it has asked to  *)
(* be closed, unless the reply to a start came after the wait was over.  A *)
(* transmission is open toward QSP only while the pump plays that stream,  *)
(* unless a keyup or a release could not be written.                       *)
NothingIsHeldOpen ==
  /\ "unanswered" \notin faults =>
       \A id \in far.open :
         \/ id = sess.id /\ bridge.keyed /\ pump.toZello
         \/ id = sess.seq /\ pump.at = "opening"
         \/ \E i \in DOMAIN far.asked : far.asked[i].command = "stop" /\ far.asked[i].id = id
  /\ radio /\ "unwritten" \notin faults =>
       bridge.on /\ pump.toRadio /\ bridge.stream = pump.playing

(* Once the pump has acted on the end of a stream it does not key QSP for  *)
(* it again (pump: "Acting on the stop first played the last packet as a   *)
(* new transmission"), in whatever order audio and events are read.        *)
StoppedStaysStopped == bridge.on => bridge.stream \notin over

(* The connector lets go of what it took hold of, once.                    *)
ConnectorLetsGo == NothingIsHeldOpen /\ StoppedStaysStopped
=============================================================================
