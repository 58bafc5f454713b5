-------------------------------- MODULE V24 ---------------------------------
(***************************************************************************)
(* Motorola repeaters on serial tunnels (internal/v24link) joined to the   *)
(* P25 gateways.  A tunnel is one goroutine reading frames and one ticker; *)
(* everything that decides what is carried runs with callMu held, so it is *)
(* one step, except that the floor is shared with the gateway listener,    *)
(* which does not take callMu: a call replaced by a new one gives the floor*)
(* back and asks for it again, and a gateway may come in between ("again").*)
(* Records are "start", "header", "voice" and "end"; a talker is a tunnel  *)
(* or the gateways together.                                               *)
(***************************************************************************)
EXTENDS P25, Sequences, SequencesExt

CONSTANTS Tunnels, MaxTunnels, CallTimeout, SendHeader

ASSUME V24Assumption == /\ CallTimeout \in Nat /\ SendHeader \in BOOLEAN
                        /\ GatewayFloor \notin Tunnels /\ None \notin Tunnels
                        /\ {"ending", "garbled"} \cap (Tunnels \cup {GatewayFloor, None}) = {}

VARIABLES line,       \* tunnel -> the repeater behind it
          tunnels,    \* the open tunnels, oldest first
          closing,    \* the tunnels whose connection supersede has closed
          link,       \* linkState of each tunnel
          seen,       \* the tunnels whose repeater has introduced itself
          call,       \* tunnel -> time since its call's last record, or None
          relaying,   \* the tunnels whose call is being carried
          receiving,  \* tunnel -> the talker it has been sent a start of
          sent,       \* tunnel -> the records of the last write to it
          toGateways, \* the tunnel whose call the gateways are on, or None
          inbound,    \* time since a gateway's last frame, or None
          again       \* the tunnel whose new call is about to begin, or None

lineState == <<line, tunnels, closing, link, seen>>
callState == <<call, relaying, receiving, sent, toGateways, inbound, again>>
v24Vars == <<floor, gwVars, lineState, callState>>

Open == Range(tunnels)
NotLinked == [theirs |-> FALSE, ours |-> FALSE, heard |-> FALSE,
              said |-> FALSE, up |-> FALSE]

(* inbound.go linked: the repeaters whose link is up. *)
Linked == {s \in Open : link[s].up}
Talkers == Tunnels \cup {GatewayFloor}

V24Init == /\ tunnels = <<>> /\ closing = {} /\ seen = {}
           /\ link = [s \in Tunnels |-> NotLinked]
           /\ call = [s \in Tunnels |-> None]
           /\ relaying = {}
           /\ receiving = [s \in Tunnels |-> None]
           /\ sent = [s \in Tunnels |-> <<>>]
           /\ toGateways = None /\ inbound = None /\ again = None

(* listener.go accept: a tunnel, while there is room. *)
Accept(s) ==
  /\ s \notin Open /\ Len(tunnels) < MaxTunnels
  /\ tunnels' = Append(tunnels, s)
  /\ UNCHANGED <<floor, gwVars, line, closing, link, seen, callState>>

(* listener.go linkState.after: the link is opened from both ends, each    *)
(* asks, each is accepted and each says what it is before it is up.        *)
After(l, kind) ==
  CASE kind = "request"      -> [NotLinked EXCEPT !.theirs = TRUE]
    [] kind = "acceptance"   -> IF l.ours THEN l
                                ELSE [l EXCEPT !.ours = TRUE,
                                               !.said = l.said \/ (l.theirs /\ l.heard)]
    [] kind = "introduction" -> [l EXCEPT !.heard = TRUE,
                                          !.said = l.said \/ (l.theirs /\ l.ours)]
    [] kind = "ready"        -> [l EXCEPT !.up = l.up \/ (l.heard /\ l.said)]

(* relay.go supersede: older tunnels to the same repeater are closed. *)
Superseded(s) ==
  {o \in Open : /\ line[o] = line[s] /\ o \in seen
                /\ \E i, j \in 1..Len(tunnels) : i < j /\ tunnels[i] = o /\ tunnels[j] = s}

(* A frame of the link's own.  countUp: a link that opens or drops forgets *)
(* the call its repeater was on.  A record that was being handed to it when*)
(* it dropped may be counted after the reset ("late").                     *)
LinkFrame(s, kind, late) ==
  LET next == After(link[s], kind) IN
  /\ s \in Open \ closing
  /\ link' = [link EXCEPT ![s] = next]
  /\ seen' = IF kind = "introduction" THEN seen \cup {s} ELSE seen
  /\ closing' = IF kind = "introduction" THEN closing \cup Superseded(s) ELSE closing
  /\ late => kind = "request" /\ link[s].up
  /\ \/ /\ next.up # link[s].up
        /\ receiving' = [receiving EXCEPT ![s] = IF late THEN @ ELSE None]
        /\ sent' = [sent EXCEPT ![s] = <<>>]
     \/ next.up = link[s].up /\ next # link[s] /\ UNCHANGED <<receiving, sent>>
  /\ UNCHANGED <<floor, gwVars, line, tunnels, call, relaying, toGateways,
                 inbound, again>>

Rec(k, t) == [kind |-> k, of |-> t]
Ends(t) == IF t = None THEN <<>> ELSE <<Rec("end", t), Rec("end", t)>>

(* Mutant: a call is opened over the one the repeater is on. *)
OpeningOverTheLast(o, t, kind, header) ==
  IF receiving[o] = t \/ kind = "start" THEN <<>> ELSE <<Rec("start", t)>>

(* relay.go toRepeaters: what o is sent of talker t's record, and that it  *)
(* is now on t's call.  own is written to the talker itself beforehand.    *)
Opening(o, t, kind, header) ==
  IF receiving[o] = t THEN <<>>
  ELSE Ends(receiving[o])
       \o (IF kind = "start" THEN <<>>
           ELSE <<Rec("start", t)>>
                \o (IF header THEN <<Rec("header", t), Rec("header", t)>> ELSE <<>>))
ToRepeaters(t, except, kind, header, moved) ==
  /\ receiving' = [o \in Tunnels |-> IF o \in Linked \ except THEN t
                                     ELSE IF o \in moved THEN None ELSE receiving[o]]
  /\ sent' = [o \in Tunnels |->
                IF o \in Linked \ except
                THEN Opening(o, t, kind, header) \o <<Rec(kind, t)>>
                ELSE IF o \in moved /\ receiving[o] # None
                THEN IF o \in Linked THEN Ends(receiving[o]) ELSE <<>>
                ELSE sent[o]]

(* relay.go endAtRepeaters: an end to those still on that call. *)
EndAtRepeaters(t) ==
  LET on == {o \in Linked : receiving[o] = t} IN
  /\ receiving' = [o \in Tunnels |-> IF o \in on THEN None ELSE receiving[o]]
  /\ sent' = [o \in Tunnels |-> IF o \in on THEN Ends(t) ELSE sent[o]]

(* relay.go endRelay: the call's end to whoever is still on it, the gateways*)
(* if they are, and the floor given back.                                  *)
EndRelay(s) ==
  IF s \notin relaying
  THEN UNCHANGED <<floor, relaying, receiving, sent, toGateways, hearing>>
  ELSE /\ relaying' = relaying \ {s}
       /\ EndAtRepeaters(s)
       /\ toGateways' = IF toGateways = s THEN None ELSE toGateways
       /\ IF toGateways = s THEN EndFromRepeater(s) ELSE UNCHANGED hearing
       /\ floor' = Released(floor, s)

(* The gateways' share of a carried voice record: another repeater's call  *)
(* they were on is ended first.                                            *)
VoiceToGateways(s, kind) ==
  IF kind # "voice" THEN UNCHANGED <<toGateways, hearing>>
  ELSE /\ toGateways' = s
       /\ hearing' = [g \in Gateways |->
            IF g \notin Registered THEN hearing[g]
            ELSE Voiced(IF toGateways \in {None, s} THEN hearing[g]
                        ELSE Ended(hearing[g], toGateways), s)]

callFree == again = None
restOfGw == <<known, admitted, calling, passing, active>>

(* relay, for a record that begins a call: carried if the floor is granted,*)
(* and then the talker stops hearing whatever it was on.                   *)
Begin(s, kind) ==
  \/ /\ Grants(floor, s)
     /\ floor' = Taken(s)
     /\ relaying' = relaying \cup {s}
     /\ ToRepeaters(s, {s}, kind, FALSE, {s})
     /\ VoiceToGateways(s, kind)
  \/ /\ ~Grants(floor, s)
     /\ relaying' = relaying \ {s}
     /\ UNCHANGED <<floor, receiving, sent, toGateways, hearing>>

(* relay, for a record of a call under way: the floor is asked for with    *)
(* each record, and a call that has lost it is ended there.                *)
Continue(s, kind) ==
  \/ s \notin relaying /\ UNCHANGED <<floor, relaying, receiving, sent, toGateways, hearing>>
  \/ /\ s \in relaying /\ Grants(floor, s)
     /\ floor' = Taken(s)
     /\ UNCHANGED relaying
     /\ ToRepeaters(s, {s}, kind, FALSE, {})
     /\ VoiceToGateways(s, kind)
  \/ s \in relaying /\ ~Grants(floor, s) /\ EndRelay(s)

(* listener.go serve: a record of a transmission, by voice.go heard. *)
RecordHeard(s, kind) ==
  /\ callFree /\ s \in Open \ closing
  /\ kind # "end" \/ call[s] # None
  /\ call' = [call EXCEPT ![s] = IF kind = "end" THEN None ELSE 0]
  /\ again' = IF kind = "start" /\ call[s] # None THEN s ELSE None
  /\ CASE kind = "end"                       -> EndRelay(s)
       [] kind = "start" /\ call[s] # None   -> EndRelay(s)
       [] kind # "end" /\ call[s] = None     -> Begin(s, kind)
       [] OTHER                              -> Continue(s, kind)
  /\ UNCHANGED <<restOfGw, lineState, inbound>>

(* The second half of a start that replaced a call. *)
BeginAgain ==
  /\ again # None
  /\ Begin(again, "start")
  /\ again' = None
  /\ UNCHANGED <<restOfGw, lineState, call, inbound>>

(* Mutant: the call is forgotten and what it was relayed to is not told. *)
ExpireAlone(s) ==
  /\ callFree /\ s \in Open
  /\ call[s] # None /\ call[s] > CallTimeout
  /\ call' = [call EXCEPT ![s] = None]
  /\ UNCHANGED <<floor, gwVars, lineState, relaying, receiving, sent, toGateways,
                 inbound, again>>

(* expire: the ticker ends a call that went quiet. *)
Expire(s) ==
  /\ callFree /\ s \in Open
  /\ call[s] # None /\ call[s] > CallTimeout
  /\ call' = [call EXCEPT ![s] = None]
  /\ EndRelay(s)
  /\ UNCHANGED <<restOfGw, lineState, inbound, again>>

(* The tunnel closes: by the router, by silence, or because it was         *)
(* superseded.  The deferred functions of serve, in the order they run.    *)
TunnelCloses(s) ==
  /\ callFree /\ s \in Open
  /\ link' = [link EXCEPT ![s] = NotLinked]
  /\ call' = [call EXCEPT ![s] = None]
  /\ tunnels' = RemoveAt(tunnels, CHOOSE i \in DOMAIN tunnels : tunnels[i] = s)
  /\ closing' = closing \ {s} /\ seen' = seen \ {s}
  /\ IF s \notin relaying
     THEN /\ UNCHANGED <<floor, relaying, toGateways, hearing>>
          /\ receiving' = [receiving EXCEPT ![s] = None]
          /\ sent' = [sent EXCEPT ![s] = <<>>]
     ELSE /\ relaying' = relaying \ {s}
          /\ LET on == {o \in Linked \ {s} : receiving[o] = s} IN
             /\ receiving' = [o \in Tunnels |-> IF o \in on \cup {s} THEN None ELSE receiving[o]]
             /\ sent' = [o \in Tunnels |-> IF o = s THEN <<>>
                                           ELSE IF o \in on THEN Ends(s) ELSE sent[o]]
          /\ toGateways' = IF toGateways = s THEN None ELSE toGateways
          /\ IF toGateways = s THEN EndFromRepeater(s) ELSE UNCHANGED hearing
          /\ floor' = Released(floor, s)
  /\ UNCHANGED <<restOfGw, line, inbound, again>>

(* What is left of a gateway's frame: inbound.go FromGateway or            *)
(* EndFromGateway, for a frame that was carried when it was judged, then   *)
(* the other gateways and the record.                                      *)
PassOn ==
  /\ passing # None /\ callFree
  /\ \/ /\ passing.carried /\ passing.kind = "voice"
        /\ inbound' = 0
        /\ ToRepeaters(GatewayFloor, {}, "voice", SendHeader, {})
     \/ /\ passing.carried /\ passing.kind = "end"
        /\ inbound' = None
        /\ EndAtRepeaters(GatewayFloor)
     \/ ~passing.carried /\ UNCHANGED <<inbound, receiving, sent>>
  /\ PassedOn
  /\ UNCHANGED <<floor, lineState, call, relaying, toGateways, again>>

(* watchInbound: a gateway's call that stopped without a terminator. *)
WatchInbound ==
  /\ callFree /\ inbound # None /\ inbound > CallTimeout
  /\ inbound' = None
  /\ EndAtRepeaters(GatewayFloor)
  /\ UNCHANGED <<floor, gwVars, lineState, call, relaying, toGateways, again>>

TimePasses ==
  /\ floor' = FloorAges
  /\ GatewaysAge
  /\ call' = [s \in Tunnels |-> Older(call[s], CallTimeout)]
  /\ inbound' = Older(inbound, CallTimeout)
  /\ UNCHANGED <<lineState, relaying, receiving, sent, toGateways, again>>

gatewayStep == UNCHANGED <<lineState, callState>>

Talk == \/ \E s \in Tunnels, k \in {"start", "header", "voice", "end"} : RecordHeard(s, k)
        \/ \E g \in Gateways, k \in {"voice", "end"} : GatewayTalks(g, k) /\ gatewayStep

Opens == \E s \in Tunnels :
           \/ Accept(s)
           \/ \E k \in {"acceptance", "introduction", "ready"} : LinkFrame(s, k, FALSE)
Drops == \E s \in Tunnels :
           \/ TunnelCloses(s)
           \/ \E late \in BOOLEAN : LinkFrame(s, "request", late)

Registering == /\ \/ \E g \in Gateways : Poll(g)
                  \/ \E S \in SUBSET Gateways : SetAllowedCallsigns(S)
               /\ UNCHANGED floor /\ gatewayStep

Housekeeping == \/ BeginAgain \/ PassOn \/ WatchInbound \/ TimePasses
                \/ \E s \in Tunnels : Expire(s)
                \/ Sweep /\ UNCHANGED floor /\ gatewayStep

(***************************************************************************)
(* What the radios are owed.                                               *)
(***************************************************************************)

(* The repeater's end of each tunnel. *)
Lines == INSTANCE Line WITH Listeners <- Tunnels,
                           up <- [s \in Tunnels |-> link[s].up],
                           on <- receiving

(* The repeater behind each tunnel is sent whole calls, one after another, *)
(* while its link is up: a start before the first record of a call it joins*)
(* at any point, the end of the call it was on before another begins, and  *)
(* never a record of a call it has no start of.  The call it is on is what *)
(* relay.go calls station.receiving.                                       *)
LinesAreWhole == Lines!LineSpec

(* relay.go: "An end goes only to a listener still on that call", and the  *)
(* gateways together are one more listener: no gateway is sent the end of  *)
(* a call it is not on in the middle of the one it is on.                  *)
EndsOnlyItsCall == \A g \in Gateways : ~hearing[g].cut
=============================================================================
