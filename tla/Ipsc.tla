-------------------------------- MODULE Ipsc --------------------------------
(***************************************************************************)
(* A Motorola repeater on the IPSC listener (ipsclink), with the converter *)
(* and the encoder the listener keeps for it (ipscbridge).  The listener's *)
(* maps are indexed by repeater and nothing else joins two of them, so one *)
(* repeater is modelled, with both its timeslots.                          *)
(*                                                                         *)
(* A datagram is what the code reads of it: the slot bit, the transmission *)
(* its header claims, its flags and its marker.  Any datagram may be lost, *)
(* so the frames of a transmission that arrive are any of those it may     *)
(* have; a radio with a talker alias has the repeater claim another        *)
(* transmission for a while in the middle of one.  What is sent to the     *)
(* repeater is encoded under the listener's lock and written after it, by  *)
(* whichever goroutine carries the frame, so two of them may overtake each *)
(* other; and a write may fail.                                            *)
(***************************************************************************)
EXTENDS Integers, Sequences, FiniteSets

CONSTANTS
  Slots,               \* the timeslots in use, of 1 and 2
  SlotBitIsTimeslot2,  \* Bridge.SlotBitIsTimeslot2
  Overs,               \* the transmissions radios make, each under its own stream ID
  CallTimeout, MaxCallDuration, IpscPeerTimeout,  \* in sweeps
  SlotHold, DataBurstWindow,
  SequenceModulus,     \* the Homebrew frame counter is a byte
  MaxSends,            \* bound: sends to a timeslot at once
  MaxKeyUps            \* transmissions begun

ASSUME IpscAssumption ==
  /\ Slots \subseteq {1, 2} /\ SlotBitIsTimeslot2 \in BOOLEAN
  /\ SequenceModulus \in Nat \ {0}

VARIABLES
  known,    \* the repeater is in the table
  silent,   \* age of its last datagram
  permitted,\* the allow list lets it in
  call,     \* LastCall: one, for both timeslots
  conv,     \* the converter, by timeslot
  enc,      \* the encoder, by timeslot
  use,      \* slots: the stream sending to the repeater, by timeslot
  sends,    \* the messages of each goroutine that is sending, by timeslot, in
            \* the order they were encoded
  mixed,    \* one has left before its turn or not at all, since a transmission
            \* was last opened with nothing on its way
  inHand,   \* frames taken and not yet delivered, and whether they end the call
  air,      \* what is really being transmitted, by timeslot,
            \* whether its headers may still come, and whether one has (and is remembered)
  keyed,    \* transmissions begun
  lastIn,   \* the last frame handed to the DMR side, by timeslot
  lastOut,  \* the last message sent to the repeater, by timeslot
  broken,   \* a frame has been handed on out of place
  garbled   \* a message has been sent to the repeater out of place
ipscVars == <<known, silent, permitted, call, conv, enc, use, sends, mixed, inHand, air, keyed,
              lastIn, lastOut, broken, garbled>>
recordVars == <<known, silent, call, conv, inHand>>
sideVars == <<enc, use, sends, mixed, lastOut, garbled>>

None == 0                   \* no transmission
Alias == 99                 \* what a repeater claims while an alias is sent
Quiet == [kind |-> "none", tx |-> None, pos |-> 0, seq |-> 0]
NoCall == [tx |-> None, slot |-> 1, ended |-> TRUE, lost |-> FALSE,
           started |-> 0, last |-> 0]
SlotIdle == [tx |-> None, seen |-> FALSE, started |-> FALSE, position |-> 0,
             sentHeader |-> FALSE, sequence |-> 0]
EncIdle == [tx |-> None, seen |-> FALSE, opened |-> FALSE,
            inData |-> FALSE, data |-> None, dataAge |-> 0]
NoUse == [tx |-> None, age |-> 0]
NotInHand == [busy |-> FALSE, ended |-> FALSE]
AgeTo(age, cap) == IF age < cap THEN age + 1 ELSE age

-----------------------------------------------------------------------------
(* protocol/ipsc: what a voice message says of itself.                     *)

IsFirstFrame(m) == m.flags = "first"
IsLastFrame(m) == m.flags = "last"
isHeader(m) == m.marker = "header"
HasPayload(m) == m.marker = "voice"       \* SuperframePosition and Payload
timeslotFor(bit) == IF bit = SlotBitIsTimeslot2 THEN 2 ELSE 1
slotBitSet(slot) == (slot = 2) = SlotBitIsTimeslot2

Message(slot, tx, flags, marker, class) ==
  [bit |-> slotBitSet(slot), tx |-> tx, flags |-> flags, marker |-> marker, class |-> class]
MessagesOf(slot, tx) ==
  {Message(slot, tx, "first", "header", "none"), Message(slot, tx, "middle", "header", "none"),
   Message(slot, tx, "middle", "voice", "sync"), Message(slot, tx, "middle", "voice", "fragment"),
   Message(slot, tx, "last", "voice", "fragment"), Message(slot, tx, "last", "terminator", "none")}

-----------------------------------------------------------------------------
(* Converter                                                               *)

continues(st, m) ==
  st.seen /\ m.tx # st.tx /\ ~IsFirstFrame(m) /\ ~isHeader(m)

(* Resolve: the transmission a message is part of.                         *)
Resolve(st, m) == IF continues(st, m) THEN st.tx ELSE m.tx

(* Mutant: what is left of the transmission before stays. *)
BegunAsItWas(st, tx) == [st EXCEPT !.tx = tx, !.seen = TRUE]

Begun(st, tx) == IF st.seen /\ st.tx = tx THEN st
                 ELSE [SlotIdle EXCEPT !.tx = tx, !.seen = TRUE]

(* The position in the superframe: known from a synchronisation frame on,  *)
(* and lost again when six frames have gone by without another.            *)
Placed(st, class) ==
  IF class = "sync" THEN [st EXCEPT !.started = TRUE, !.position = 0]
  ELSE IF ~st.started THEN st
  ELSE [st EXCEPT !.position = @ + 1, !.started = st.position + 1 < 6]

Numbered(st, n) == (st.sequence + n) % SequenceModulus
Frame(kind, st, n) == [kind |-> kind, tx |-> st.tx, pos |-> st.position, seq |-> Numbered(st, n)]

(* Convert: the slot afterwards, and the frames made of the message.       *)
Ends(st) == <<[st EXCEPT !.started = FALSE, !.seen = FALSE, !.sequence = Numbered(st, 1)],
              <<Frame("terminator", st, 0)>>>>

VoiceFrames(st) ==
  IF st.sentHeader
    THEN <<[st EXCEPT !.sequence = Numbered(st, 1)], <<Frame("voice", st, 0)>>>>
    ELSE <<[st EXCEPT !.sentHeader = TRUE, !.sequence = Numbered(st, 2)],
           <<Frame("header", st, 0), Frame("voice", st, 1)>>>>

Convert(before, m) ==
  LET begun == Begun(before, Resolve(before, m))
      st == Placed(begun, m.class)
  IN  CASE ~HasPayload(m) ->
             IF IsLastFrame(m) /\ begun.sentHeader THEN Ends(begun) ELSE <<begun, <<>>>>
        [] HasPayload(m) /\ ~st.started ->
             IF IsLastFrame(m) /\ st.sentHeader THEN Ends(st) ELSE <<st, <<>>>>
        [] OTHER ->
             LET v == VoiceFrames(st) IN
             IF IsLastFrame(m) THEN <<Ends(v[1])[1], v[2] \o Ends(v[1])[2]>> ELSE v

Forget(st) == [st EXCEPT !.seen = FALSE, !.started = FALSE, !.sentHeader = FALSE]

-----------------------------------------------------------------------------
(* What well-formed transmissions look like on the DMR side: opened by a   *)
(* header, its bursts numbered without a gap from the header on and placed *)
(* from burst A, closed by its own terminator.                             *)
Follows(prev, f) ==
  CASE f.kind = "header" -> TRUE
    [] f.kind = "voice" ->
         /\ prev.kind \in {"header", "voice"} /\ prev.tx = f.tx /\ f.seq = (prev.seq + 1) % SequenceModulus
         /\ f.pos = 0 \/ (prev.kind = "voice" /\ f.pos = prev.pos + 1)
    [] OTHER -> prev.kind \in {"header", "voice"} /\ prev.tx = f.tx /\ f.seq = (prev.seq + 1) % SequenceModulus
Chained(prev, out) ==
  \A i \in 1..Len(out) : Follows(IF i = 1 THEN prev ELSE out[i - 1], out[i])
LastOf(prev, out) == IF out = <<>> THEN prev ELSE out[Len(out)]

-----------------------------------------------------------------------------
(* Listener: what it hears                                                 *)

endCall(c, at, lost) == IF c.ended THEN c ELSE [c EXCEPT !.ended = TRUE, !.lost = lost]

(* recordVoice: a call of another stream ends the one there was, whichever *)
(* timeslot it was on, and tells the converter nothing.                    *)
CallFor(tx, slot) ==
  IF call.tx = tx /\ ~call.ended THEN [call EXCEPT !.last = 0]
  ELSE [NoCall EXCEPT !.tx = tx, !.slot = slot, !.ended = FALSE]

HearVoice(slot, m, told) ==
  /\ permitted /\ ~inHand.busy
  /\ known' = TRUE /\ silent' = 0
  /\ LET st == conv[slot]
         r == Convert(st, m)
     IN  /\ call' = CallFor(Resolve(st, m), slot)
         /\ conv' = [conv EXCEPT ![slot] = r[1]]
         /\ inHand' = [busy |-> TRUE, ended |-> IsLastFrame(m)]
         /\ broken' = (broken \/ ~Chained(lastIn[slot], r[2])
                       \/ (told /\ \E i \in 1..Len(r[2]) : r[2][i].tx # air[slot].tx))
         /\ lastIn' = [lastIn EXCEPT ![slot] = LastOf(lastIn[slot], r[2])]
  /\ UNCHANGED <<permitted, keyed, sideVars>>

(* A frame of what is on the air, or of the alias in the middle of it.     *)
Hear(slot) ==
  /\ air[slot].tx # None
  /\ \E m \in MessagesOf(slot, air[slot].tx) \cup
              {Message(slot, Alias, "middle", "voice", c) : c \in {"sync", "fragment"}} :
       /\ m.tx = Alias => ~air[slot].fresh
       /\ isHeader(m) => air[slot].fresh
       /\ HearVoice(timeslotFor(m.bit), m, air[slot].told \/ isHeader(m))
       /\ air' = [air EXCEPT ![slot] =
                    [tx |-> IF IsLastFrame(m) THEN None ELSE @.tx,
                     fresh |-> isHeader(m), told |-> @.told \/ isHeader(m)]]

(* recordText: a text is a call that is over at once.                      *)
HearText(slot, tx) ==
  /\ permitted /\ ~inHand.busy
  /\ known' = TRUE /\ silent' = 0
  /\ call' = IF call.tx = tx /\ call.ended THEN [call EXCEPT !.last = 0]
             ELSE [NoCall EXCEPT !.tx = tx, !.slot = slot]
  /\ UNCHANGED <<permitted, conv, inHand, air, keyed, lastIn, broken, sideVars>>

(* A registration or a keepalive, which is answered (Responder.Reply).     *)
HearControl ==
  /\ permitted /\ ~inHand.busy
  /\ known' = TRUE /\ silent' = 0
  /\ UNCHANGED <<permitted, call, conv, inHand, air, keyed, lastIn, broken, sideVars>>

(* noteDelivery, after the frames have gone to the router.                 *)
Delivered ==
  /\ inHand.busy
  /\ inHand' = NotInHand
  /\ call' = IF known /\ inHand.ended THEN endCall(call, 0, FALSE) ELSE call
  /\ UNCHANGED <<known, silent, permitted, conv, air, keyed, lastIn, broken, sideVars>>

(* The sweep: ExpireAt with forgetPeerLocked, then ExpireCallsAt.          *)
CallExpired(c) == ~c.ended /\ (c.started > MaxCallDuration \/ c.last > CallTimeout)

Sweep ==
  LET drop == known /\ silent > IpscPeerTimeout
      over == known /\ ~drop /\ CallExpired(call)
  IN  /\ known' = (known /\ ~drop)
      /\ silent' = AgeTo(silent, IpscPeerTimeout + 1)
      /\ call' = IF drop THEN NoCall
                 ELSE LET c == IF over THEN endCall(call, 0, TRUE) ELSE call IN
                      IF c.ended THEN c
                      ELSE [c EXCEPT !.started = AgeTo(@, MaxCallDuration + 1),
                                     !.last = AgeTo(@, CallTimeout + 1)]
      /\ conv' = IF drop THEN [s \in Slots |-> SlotIdle]
                 ELSE IF over THEN [conv EXCEPT ![call.slot] = Forget(@)]
                 ELSE conv
      /\ enc' = IF drop THEN [s \in Slots |-> EncIdle]
                ELSE [s \in Slots |-> [enc[s] EXCEPT !.dataAge = AgeTo(@, DataBurstWindow + 1)]]
      /\ use' = IF drop THEN [s \in Slots |-> NoUse]
                ELSE [s \in Slots |-> [use[s] EXCEPT !.age = AgeTo(@, SlotHold)]]
      /\ air' = [s \in Slots |-> [air[s] EXCEPT !.told = @ /\ ~drop /\ ~(over /\ call.slot = s)]]
      /\ UNCHANGED <<permitted, inHand, keyed, lastIn, broken, sends, mixed, lastOut, garbled>>

-----------------------------------------------------------------------------
(* Encoder: Homebrew frames for the repeater.  A text's bursts may come    *)
(* each under a stream of its own, so bursts of one pair of radios close   *)
(* together are one transmission.                                          *)

Sending == {[tx |-> 11, who |-> "p"], [tx |-> 12, who |-> "q"]}
Texting == {[tx |-> 21, who |-> "p"], [tx |-> 22, who |-> "p"]}

continuesData(st, f) ==
  f.kind # "voice" /\ st.inData /\ st.data = f.who /\ st.dataAge <= DataBurstWindow

Noted(st, f) == IF f.kind # "voice"
                  THEN [st EXCEPT !.inData = TRUE, !.data = f.who, !.dataAge = 0]
                  ELSE [st EXCEPT !.inData = FALSE, !.data = None, !.dataAge = 0]
OpenedFor(st, f) ==
  IF (f.tx # st.tx \/ ~st.seen) /\ ~continuesData(st, f)
    THEN [Noted(st, f) EXCEPT !.tx = f.tx, !.seen = TRUE, !.opened = FALSE]
    ELSE Noted(st, f)

Signalling(st, f, flags, marker) == [kind |-> marker, flags |-> flags, tx |-> st.tx, of |-> f.tx]
Opening(st, f) == <<Signalling(st, f, "first", "header"), Signalling(st, f, "middle", "header"),
                    Signalling(st, f, "middle", "header")>>

Terminator(st, f) ==
  IF st.opened
    THEN <<[st EXCEPT !.opened = FALSE, !.seen = FALSE], <<Signalling(st, f, "last", "terminator")>>>>
    ELSE <<st, <<>>>>

Encode(before, f) ==
  LET st == OpenedFor(before, f)
      voice == <<Signalling(st, f, "middle", "voice")>>
  IN  CASE f.kind = "terminator" -> Terminator(st, f)
        [] f.kind = "header" -> <<st, <<>>>>
        [] f.kind = "text" -> <<st, <<Signalling(st, f, "middle", "text")>>>>
        [] OTHER -> <<[st EXCEPT !.opened = TRUE],
                      IF st.opened THEN voice ELSE Opening(st, f) \o voice>>

claimBusy(slot, f) == use[slot].tx \notin {None, f.tx} /\ use[slot].age < SlotHold
claimSlot(slot, f) ==
  IF claimBusy(slot, f) THEN use
  ELSE [use EXCEPT ![slot] = IF f.kind = "terminator" THEN NoUse ELSE [tx |-> f.tx, age |-> 0]]

(* What a repeater can follow: three headers, bursts of that stream, its   *)
(* terminator.                                                             *)
OutFollows(prev, m) ==
  \/ m.kind = "text" \/ m.flags = "first"
  \/ m.kind = "header" /\ prev.kind = "header" /\ prev.tx = m.tx
  \/ m.kind = "voice" /\ prev.kind \in {"header", "voice"} /\ prev.tx = m.tx /\ m.tx = m.of
  \/ m.kind = "terminator" /\ prev.kind = "voice" /\ prev.tx = m.tx

(* What SendVoice and SendVoiceTo do under the lock.                       *)
Transmit(slot, f) ==
  /\ Len(sends[slot]) < MaxSends
  /\ LET r == Encode(enc[slot], f)
         opens == r[2] # <<>> /\ IsFirstFrame(r[2][1])
     IN  /\ enc' = [enc EXCEPT ![slot] = r[1]]
         /\ sends' = IF r[2] = <<>> THEN sends ELSE [sends EXCEPT ![slot] = Append(@, r[2])]
         /\ mixed' = [mixed EXCEPT ![slot] = @ /\ ~(opens /\ sends[slot] = <<>>)]
  /\ use' = claimSlot(slot, f)
  /\ UNCHANGED <<recordVars, permitted, air, keyed, lastIn, broken, lastOut, garbled>>

(* And after it: the n-th goroutine writes its next message, and leaves    *)
(* the rest of them if that fails.                                         *)
Unsent(batches, n) == SubSeq(batches, 1, n - 1) \o SubSeq(batches, n + 1, Len(batches))
AfterWrite(batches, n, sent) ==
  IF sent /\ Len(batches[n]) > 1 THEN [batches EXCEPT ![n] = Tail(@)] ELSE Unsent(batches, n)

WriteToUDP(slot, n, sent) ==
  LET m == sends[slot][n][1] IN
  /\ sends' = [sends EXCEPT ![slot] = AfterWrite(@, n, sent)]
  /\ mixed' = [mixed EXCEPT ![slot] = @ \/ n > 1 \/ ~sent]
  /\ garbled' = (garbled \/ (sent /\ ~mixed'[slot] /\ ~OutFollows(lastOut[slot], m)))
  /\ lastOut' = IF sent /\ m.kind # "text" THEN [lastOut EXCEPT ![slot] = m] ELSE lastOut
  /\ UNCHANGED <<recordVars, permitted, air, keyed, lastIn, broken, enc, use>>

OutFrames ==
  {[tx |-> t.tx, who |-> t.who, kind |-> k] : t \in Sending, k \in {"header", "voice", "terminator"}}
  \cup {[tx |-> t.tx, who |-> t.who, kind |-> "text"] : t \in Texting}

(* A relayed frame takes the slot as it finds it; one sent to this         *)
(* repeater alone is refused while another stream has the slot.            *)
SendVoice(slot, f) == known /\ Transmit(slot, f)
SendVoiceTo(slot, f) == known /\ ~claimBusy(slot, f) /\ Transmit(slot, f)

-----------------------------------------------------------------------------
(* SetAllowedPeers.  The table keeps a repeater that is no longer let in   *)
(* until it times out, and goes on sending to it.                          *)
SetAllowedPeers ==
  /\ permitted' = ~permitted
  /\ UNCHANGED <<recordVars, sideVars, air, keyed, lastIn, broken>>

(* Radios.                                                                 *)
KeyUp(slot, tx) ==
  /\ keyed < MaxKeyUps /\ keyed' = keyed + 1
  /\ tx \notin {air[s].tx : s \in Slots} \cup {conv[s].tx : s \in Slots} \cup {call.tx}
  /\ air[slot].tx = None
  /\ air' = [air EXCEPT ![slot] = [tx |-> tx, fresh |-> TRUE, told |-> FALSE]]
  /\ UNCHANGED <<recordVars, permitted, lastIn, broken, sideVars>>

(* A radio stops, and the terminator does not arrive.                      *)
KeyDown(slot) ==
  /\ air[slot].tx # None
  /\ air' = [air EXCEPT ![slot] = [tx |-> None, fresh |-> FALSE, told |-> FALSE]]
  /\ UNCHANGED <<recordVars, permitted, keyed, lastIn, broken, sideVars>>

-----------------------------------------------------------------------------
IpscInit ==
  /\ known = FALSE /\ silent = 0 /\ permitted = TRUE /\ call = NoCall
  /\ conv = [s \in Slots |-> SlotIdle] /\ enc = [s \in Slots |-> EncIdle]
  /\ use = [s \in Slots |-> NoUse] /\ inHand = NotInHand
  /\ sends = [s \in Slots |-> <<>>] /\ mixed = [s \in Slots |-> FALSE]
  /\ air = [s \in Slots |-> [tx |-> None, fresh |-> FALSE, told |-> FALSE]]
  /\ keyed = 0
  /\ lastIn = [s \in Slots |-> Quiet]
  /\ lastOut = [s \in Slots |-> Quiet]
  /\ broken = FALSE /\ garbled = FALSE

HearsNext ==
  \/ \E s \in Slots : Hear(s) \/ KeyDown(s) \/ HearText(s, 50)
  \/ \E s \in Slots, t \in Overs : KeyUp(s, t)
  \/ Delivered \/ SetAllowedPeers
SendsNext ==
  \E s \in Slots :
    \/ \E f \in OutFrames : SendVoice(s, f) \/ SendVoiceTo(s, f)
    \/ \E n \in DOMAIN sends[s], sent \in BOOLEAN : WriteToUDP(s, n, sent)
EitherNext == HearControl \/ Sweep

-----------------------------------------------------------------------------
(* Whatever frames of a repeater's transmissions are lost, on both         *)
(* timeslots and across talker aliases, what the DMR side is handed is     *)
(* whole: no burst before its header, none out of place or misnumbered, no *)
(* terminator of another transmission; and a transmission whose header has *)
(* been heard is handed on under its own name to its end (bridge.go,       *)
(* Convert and continues).  The other way, whatever streams and texts are  *)
(* sent to a repeater's timeslot, it sees bursts only under the headers of *)
(* their own transmission and a terminator only where one is open          *)
(* (encode.go, Encode).  But when a message has overtaken another or been  *)
(* lost (SendVoice and SendVoiceTo write without the lock) that is not said*)
(* until a transmission is opened with nothing else on its way.            *)
OversAreWhole == ~broken /\ ~garbled
=============================================================================
