----------------------------- MODULE MCTraffic -----------------------------
(***************************************************************************)
(* Traffic for TLC.  A behaviour has the frames of one of four scripts.    *)
(***************************************************************************)
EXTENDS Traffic

CONSTANTS a, b, r1, r2, r3,
          Scripts  \* the scripts of the run

VARIABLE script

Stream(peer, stream, source, target, kinds) ==
  {[peer |-> peer, stream |-> stream, source |-> source, target |-> target,
    group |-> target \in Talkgroups, kind |-> k] : k \in kinds}

(* A hotspot restarts its radio's call under another stream, caller and    *)
(* talkgroup; another radio keys up.                                       *)
Overs == Stream(a, 1, r1, 1, {"header", "voice", "terminator"})
         \cup Stream(a, 2, r3, 2, {"voice", "terminator"})
         \cup Stream(a, 3, r2, 1, {"header", "voice"})

(* Members use two talkgroups and leave them.                              *)
Keyups == Stream(a, 1, r1, 1, {"voice"}) \cup Stream(a, 4, r1, 2, {"voice"})
          \cup Stream(a, 3, r2, Unlink, {"voice"})

(* Texts beside a short transmission, and a private call.                  *)
Texts == Stream(a, 1, r1, r2, {"data"}) \cup Stream(a, 4, r1, r2, {"data", "header", "terminator"})
         \cup Stream(b, 3, r2, r1, {"data", "voice"})

(* Stations that are not registered.                                       *)
Strangers == Stream(a, 1, r1, 1, {"voice"}) \cup Stream(b, 1, r2, 1, {"voice"})

MCFrames == Overs \cup Keyups \cup Texts \cup Strangers

Off == [enabled |-> FALSE, static |-> {}]
Set(static) == [enabled |-> TRUE, static |-> static]

MCSubscriptions == {Off, Set({<<a, 1>>}), Set({})}

MCInit ==
  /\ Init /\ script \in Scripts
  /\ script = Keyups \/ subscription = Off
  /\ script \in {Overs, Strangers} \/ banned = {}
  /\ state = [p \in Peers |-> IF script = Strangers THEN "gone" ELSE "ready"]

MCNext ==
  /\ UNCHANGED script
  /\ \/ Datagram(script) \/ ReadTimesOut \/ Passes
     \/ script = Keyups /\ \E s \in Subscriptions, saved \in BOOLEAN : Sweep(s, banned, saved)
     \/ script = Overs /\ \E c \in Bans, saved \in BOOLEAN : Sweep(subscription, c, saved)
     \/ script \in {Texts, Strangers} /\ Sweep(subscription, banned, FALSE)
     \/ script \in {Overs, Strangers} /\ Registrations

MCSpec == MCInit /\ [][MCNext]_<<vars, script>>

MCFairSpec == MCSpec /\ WF_vars(ReadTimesOut) /\ WF_vars(Sweeps)

AllScripts == {Overs, Keyups, Texts, Strangers}
=============================================================================
