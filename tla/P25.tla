-------------------------------- MODULE P25 ---------------------------------
(***************************************************************************)
(* The P25 gateway listener (internal/p25link) and the record of P25 calls *)
(* in progress (internal/p25calls).  One goroutine serves every gateway: a *)
(* voice frame is judged under the listener's lock (GatewayTalks), and what*)
(* is left of it, the repeaters, the other gateways and the call record,   *)
(* is done after the lock is let go ("passing").  A sweep runs beside it.  *)
(* The floor (floor.go) says who is talking: one call at a time is carried *)
(* between the gateways, one holder among themselves, and the repeaters.   *)
(* Callsigns stand for gateways; a frame from an address no gateway polled *)
(* from changes nothing.  Nothing here is decoded, so a frame is "voice" or*)
(* "end".                                                                  *)
(***************************************************************************)
EXTENDS Naturals, FiniteSets

CONSTANTS None,          \* nobody
          GatewayFloor,  \* the name every gateway talks under
          FloorHold,     \* how long a quiet talker keeps the floor
          Gateways, GatewayTimeout, MaxGateways

ASSUME FloorAssumption == FloorHold \in Nat /\ None \notin Nat \cup {GatewayFloor}

VARIABLES floor,     \* [holder, quiet]: quiet is the time since its last frame
          known,     \* gateway -> time since it was last heard, or None
          admitted,  \* the gateways the allowed list admits
          calling,   \* gateway -> time since its call's last frame, or None
          passing,   \* the frame whose lock has been let go, or None
          active,    \* p25calls: the gateways with a call in progress
          hearing    \* what each gateway has been sent: [on, cut]

gwVars == <<known, admitted, calling, passing, active, hearing>>

FloorInit == floor = [holder |-> None, quiet |-> 0]

(* floor.go Take, of a floor f: its test, and what it leaves when granted. *)
Grants(f, h) == f.holder \in {None, h} \/ f.quiet > FloorHold
Taken(h) == [holder |-> h, quiet |-> 0]

(* Release: only by the holder. *)
Released(f, h) == IF f.holder = h THEN [holder |-> None, quiet |-> 0] ELSE f

(* An age no test distinguishes any further is kept at its cap. *)
Older(age, limit) == IF age = None \/ age > limit THEN age ELSE age + 1

FloorAges == [floor EXCEPT !.quiet =
                IF floor.holder = None THEN 0 ELSE Older(floor.quiet, FloorHold)]
-----------------------------------------------------------------------------
Silence == [on |-> None, cut |-> FALSE]

P25Init == /\ known = [g \in Gateways |-> 0]
           /\ admitted = Gateways
           /\ calling = [g \in Gateways |-> None]
           /\ passing = None
           /\ active = {}
           /\ hearing = [g \in Gateways |-> Silence]

Registered == {g \in Gateways : known[g] # None}

(* serve.go poll: an admitted gateway, and room for it if it is new. *)
Poll(g) ==
  /\ g \in admitted
  /\ known[g] # None \/ Cardinality(Registered) < MaxGateways
  /\ known[g] # 0
  /\ known' = [known EXCEPT ![g] = 0]
  /\ UNCHANGED <<admitted, calling, passing, active, hearing>>

(* SetAllowedCallsigns, when a configuration is applied. *)
SetAllowedCallsigns(S) ==
  /\ S # admitted
  /\ admitted' = S
  /\ UNCHANGED <<known, calling, passing, active, hearing>>

(* serve.go voice, under the lock. *)
GatewayTalks(g, kind) ==
  LET carried == Grants(floor, GatewayFloor) IN
  /\ passing = None /\ known[g] # None
  /\ known' = [known EXCEPT ![g] = 0]
  /\ floor' = IF ~carried THEN floor
              ELSE IF kind = "end" THEN Released(Taken(GatewayFloor), GatewayFloor)
              ELSE Taken(GatewayFloor)
  /\ calling' = [calling EXCEPT ![g] = IF kind = "voice" THEN 0 ELSE None]
  /\ passing' = [from |-> g, kind |-> kind,
                 to |-> IF carried THEN Registered \ {g} ELSE {},
                 carried |-> carried,
                 finished |-> kind = "end" /\ calling[g] # None]
  /\ UNCHANGED <<admitted, active, hearing>>

(* What a gateway makes of a frame of talker t's call: an end that belongs *)
(* to another call cuts the one it is on.                                  *)
Voiced(h, t) == [h EXCEPT !.on = t]
Ended(h, t) == [on |-> None, cut |-> h.cut \/ h.on \notin {None, t}]

(* listener.go EndFromRepeater: to every gateway. *)
EndFromRepeater(t) ==
  hearing' = [g \in Gateways |-> IF g \in Registered THEN Ended(hearing[g], t)
                                 ELSE hearing[g]]

(* The rest of voice: the other gateways, and the call record. *)
PassedOn ==
  /\ hearing' = [g \in Gateways |->
                   IF g \notin passing.to THEN hearing[g]
                   ELSE IF passing.kind = "voice" THEN Voiced(hearing[g], passing.from)
                   ELSE [hearing[g] EXCEPT !.on = None]]
  /\ active' = IF passing.kind = "voice" THEN active \cup {passing.from}
               ELSE IF passing.finished THEN active \ {passing.from} ELSE active
  /\ passing' = None
  /\ UNCHANGED <<known, admitted, calling>>

(* serve.go expire: gateways no longer admitted or silent, quiet calls. *)
Gone(g) == known[g] # None /\ (g \notin admitted \/ known[g] > GatewayTimeout)
WentQuiet(g) == calling[g] # None /\ calling[g] > FloorHold
Sweep ==
  LET done == {g \in Gateways : calling[g] # None /\ (Gone(g) \/ WentQuiet(g))} IN
  /\ \E g \in Gateways : Gone(g) \/ WentQuiet(g)
  /\ known' = [g \in Gateways |-> IF Gone(g) THEN None ELSE known[g]]
  /\ calling' = [g \in Gateways |-> IF g \in done THEN None ELSE calling[g]]
  /\ active' = active \ done
  /\ hearing' = [g \in Gateways |-> IF Gone(g) THEN Silence ELSE hearing[g]]
  /\ UNCHANGED <<admitted, passing>>

GatewaysAge ==
  /\ known' = [g \in Gateways |-> Older(known[g], GatewayTimeout)]
  /\ calling' = [g \in Gateways |-> Older(calling[g], FloorHold)]
  /\ UNCHANGED <<admitted, passing, active, hearing>>
=============================================================================
