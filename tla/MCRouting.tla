----------------------------- MODULE MCRouting -----------------------------
(***************************************************************************)
(* Routing for TLC: two hotspots, one of them a QSP server that dialled    *)
(* in, a QSP link and a foreign one, and a vocoder channel.  A behaviour   *)
(* has the calls of one of three scripts.                                  *)
(***************************************************************************)
EXTENDS Routing

CONSTANTS a, b, q, f, z, r1, r2,
          Scripts  \* the scripts of the run

VARIABLE script

Call(from, radio, stream, target) ==
  [from |-> from, radio |-> radio, stream |-> stream, group |-> target \in Talkgroups,
   target |-> target, slot |-> 1, local |-> FALSE]

(* One transmission by two paths, and an alert; a station's group call and *)
(* its private call, which also comes by a link; audio out of a vocoder.   *)
GroupCalls ==
  { Call(a, r1, 1, 1), Call(q, r1, 1, 1),
    [Call(Server, r2, 1, 1) EXCEPT !.local = TRUE] }

PrivateCalls == { Call(a, r1, 1, 1), Call(a, r1, 2, r2), Call(q, r1, 2, r2) }

VocoderCalls == { Call(z, r1, 1, 1) }

MCCalls == GroupCalls \cup PrivateCalls \cup VocoderCalls

End(at, tg) == [at |-> at, tg |-> tg, slot |-> 1]

MCTables ==
  { [bridges |-> {{End(a, 1), End(b, 2), End(z, 1)}}, permits |-> [t \in {z} |-> {a}]],
    [bridges |-> {{End(AnyPeer, 1), End(f, 1), End(q, 2)}}, permits |-> [t \in {z} |-> {}]] }

MCLists == { {1} \X {1, 2}, {<<1, 2>>} }

(* Only the group calls meet an edit.                                      *)
MCInit == Init /\ script \in Scripts

MCNext ==
  \/ Frame(script) /\ UNCHANGED script
  \/ Expire /\ UNCHANGED script
  \/ Tick /\ UNCHANGED script
  \/ script = GroupCalls /\ Surroundings /\ UNCHANGED script

MCSpec == MCInit /\ [][MCNext]_<<vars, script>> /\ WF_vars(Expire)

AllScripts == {GroupCalls, PrivateCalls, VocoderCalls}
=============================================================================
