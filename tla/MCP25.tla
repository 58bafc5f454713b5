------------------------------- MODULE MCP25 --------------------------------
(***************************************************************************)
(* The P25 side for TLC, in three parts: calls carried between repeaters   *)
(* and gateways from links that are up ("carry"), two tunnels to one       *)
(* repeater opening their links ("open"), and the pacing of one repeater's *)
(* records ("pace").  What a talker sends and how often a link, a tunnel or*)
(* the allowed list is disturbed are bounded; how time passes is not.      *)
(***************************************************************************)
EXTENDS V24, Pacer

CONSTANTS MaxFrames, MaxDisturbances

VARIABLES part, frames, disturbed
counters == <<part, frames, disturbed>>
vars == <<counters, v24Vars, pacerVars>>

(* Links that are up, with no call on them. *)
Carrying ==
  /\ tunnels = SetToSeq(Tunnels) /\ closing = {} /\ seen = Tunnels
  /\ link = [s \in Tunnels |-> [theirs |-> TRUE, ours |-> TRUE, heard |-> TRUE,
                                said |-> TRUE, up |-> TRUE]]
  /\ call = [s \in Tunnels |-> None]
  /\ relaying = {}
  /\ receiving = [s \in Tunnels |-> None]
  /\ sent = [s \in Tunnels |-> <<>>]
  /\ toGateways = None /\ inbound = None /\ again = None

Init == /\ part \in {"carry", "open", "pace"}
        /\ FloorInit /\ P25Init /\ PacerInit
        /\ line = [s \in Tunnels |-> IF part = "carry" THEN s ELSE CHOOSE t \in Tunnels : TRUE]
        /\ IF part = "carry" THEN Carrying ELSE V24Init
        /\ frames = 0 /\ disturbed = 0

Speak == /\ frames < MaxFrames /\ Talk
         /\ frames' = frames + 1 /\ UNCHANGED <<part, disturbed>>
Disturb == /\ disturbed < MaxDisturbances
           /\ Drops \/ Registering
           /\ disturbed' = disturbed + 1 /\ UNCHANGED <<part, frames>>

Next == \/ /\ part = "carry"
           /\ Speak \/ Disturb \/ ((Opens \/ Housekeeping) /\ UNCHANGED counters)
           /\ UNCHANGED pacerVars
        \/ /\ part = "open"
           /\ Opens \/ Drops
           /\ UNCHANGED <<counters, pacerVars>>
        \/ part = "pace" /\ PacerNext /\ UNCHANGED <<counters, v24Vars>>

kept == UNCHANGED <<counters, pacerVars>>
Fairness == /\ WF_vars(part = "carry" /\ BeginAgain /\ kept)
            /\ WF_vars(part = "carry" /\ PassOn /\ kept)
            /\ WF_vars(part = "carry" /\ WatchInbound /\ kept)
            /\ WF_vars(part = "carry" /\ TimePasses /\ kept)
            /\ \A s \in Tunnels : WF_vars(part = "carry" /\ Expire(s) /\ kept)

Spec == Init /\ [][Next]_vars /\ Fairness

(* When everybody has stopped talking, with or without saying so, every    *)
(* repeater that was keyed for a call is sent its end, and so are the      *)
(* gateways: "a repeater sent a start and no end stays keyed".  A gateway's*)
(* lost terminator, a repeater's fade, a tunnel closed in mid-call and a   *)
(* frame passed on after its floor was lost all come to this.              *)
CallsAreEnded == <>[](/\ \A s \in Linked : receiving[s] = None
                     /\ toGateways = None)
=============================================================================
