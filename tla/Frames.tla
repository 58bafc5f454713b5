------------------------------- MODULE Frames -------------------------------
(***************************************************************************)
(* DMR frames as the server tells them apart (internal/protocol/hbp: Data),*)
(* and the clock.  Payloads are left out.  There is one timeslot: whatever *)
(* is kept of a frame is kept per timeslot.                                *)
(***************************************************************************)
EXTENDS Integers, FiniteSets, Sequences

CONSTANTS Peers,          \* repeater IDs, per timeslot
          Radios,         \* the radio IDs of stations
          Streams,        \* hbp.StreamID
          Talkgroups,
          StreamTimeout,
          MaxTime         \* bound: the last instant of a behaviour

VARIABLE now

Kinds == {"header", "voice", "terminator", "data"}

FrameType == [peer : Peers, stream : Streams, source : Radios,
              target : Talkgroups \cup Radios, group : BOOLEAN, kind : Kinds]

IsUserData(f)   == f.kind = "data"
IsTerminator(f) == f.kind = "terminator"
IsHeader(f)     == f.kind = "header"
IsVoice(f)      == f.kind = "voice"

Never == 0  \* the zero time.Time, before every instant of a behaviour

(* t lies at most d back.                                                  *)
Within(t, d) == t # Never /\ now - t <= d

Tick == now < MaxTime /\ now' = now + 1
=============================================================================
