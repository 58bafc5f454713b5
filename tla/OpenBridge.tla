----------------------------- MODULE OpenBridge -----------------------------
(***************************************************************************)
(* An OpenBridge link (upstream/upstream.go): no login and no keepalive,   *)
(* every datagram signed with a passphrase both ends hold                  *)
(* (protocol/openbridge), sent to whatever address the name last resolved  *)
(* to.  Whether it works is only ever inferred from what arrives, which is *)
(* what the set's health check (upstream/set.go) reports.                  *)
(***************************************************************************)
EXTENDS Integers, Sequences, FiniteSets

CONSTANTS
  NetworkID,    \* this server's, in every frame it sends
  StaleAfter,   \* in ticks; 0 reports no staleness
  Places,       \* the addresses the far end may be at
  MaxMoves      \* moves of the far end and lookups that fail

VARIABLES
  dest,         \* the address of the last lookup that worked
  open,         \* the link is running
  heard,        \* age of the last datagram that verified
  rejected,     \* datagrams that did not verify, up to one
  relaying,     \* the set forwards at all
  theirs,       \* the far end's passphrase
  at, called,   \* where the far end is, and what its name resolves to
  packets,      \* in flight
  handed,       \* the last frame handed to the router
  moves
obVars == <<dest, open, heard, rejected, relaying, theirs, at, called, packets, handed, moves>>

Never == 99
Nowhere == "nowhere"
Passphrases == {"ours", "other"}

-----------------------------------------------------------------------------
(* protocol/openbridge.  A frame is the network it is said to come from,   *)
(* its timeslot and what it carries.                                       *)
Encode(frame, network, passphrase) ==
  [network |-> network, slot |-> 1, carries |-> frame.carries,
   signed |-> passphrase, whole |-> TRUE]

Verify(p, passphrase) == p.whole /\ p.signed = passphrase

Carried == {"voice", "not a frame"}
Parses(p, passphrase) == Verify(p, passphrase) /\ p.carries = "voice"

-----------------------------------------------------------------------------
OpenBridgeInit ==
  /\ at = (CHOOSE p \in Places : TRUE) /\ called = at
  /\ dest \in {at, Nowhere}
  /\ open = TRUE /\ heard = Never /\ rejected = 0
  /\ relaying \in BOOLEAN
  /\ theirs \in Passphrases
  /\ packets = {} /\ handed = <<>> /\ moves = 0

Lookup == called

(* keepResolving: lookup, whose failure keeps the address there was.       *)
Resolves ==
  /\ open
  /\ dest' = Lookup
  /\ UNCHANGED <<open, heard, rejected, relaying, theirs, at, called, packets, handed, moves>>

ResolveFails ==
  /\ open /\ moves < MaxMoves /\ moves' = moves + 1
  /\ UNCHANGED <<dest, open, heard, rejected, relaying, theirs, at, called, packets, handed>>

(* Send: dropped, with an error for the router, while no address is known. *)
SendFrame ==
  /\ open /\ relaying /\ dest # Nowhere
  /\ packets' = packets \cup
       {[to |-> dest, p |-> Encode([carries |-> "voice"], NetworkID, "ours")]}
  /\ UNCHANGED <<dest, open, heard, rejected, relaying, theirs, at, called, handed, moves>>

(* serve: what does not verify is counted, what does is handed on.         *)
Reads(p) ==
  /\ open
  /\ [to |-> "us", p |-> p] \in packets
  /\ packets' = packets \ {[to |-> "us", p |-> p]}
  /\ IF Parses(p, "ours")
       THEN heard' = 0 /\ handed' = <<p>> /\ UNCHANGED rejected
       ELSE rejected' = 1 /\ UNCHANGED <<heard, handed>>
  /\ UNCHANGED <<dest, open, relaying, theirs, at, called, moves>>

ShutDown ==
  /\ open /\ open' = FALSE
  /\ UNCHANGED <<dest, heard, rejected, relaying, theirs, at, called, packets, handed, moves>>

(* The far end, and a stranger whose datagrams are cut short.              *)
FarSends ==
  /\ \E c \in Carried :
       packets' = packets \cup
         {[to |-> "us", p |-> Encode([carries |-> c], 0, theirs)]}
  /\ UNCHANGED <<dest, open, heard, rejected, relaying, theirs, at, called, handed, moves>>

StrangerSends ==
  /\ packets' = packets \cup
       {[to |-> "us", p |-> [Encode([carries |-> "voice"], 0, "ours") EXCEPT !.whole = FALSE]]}
  /\ UNCHANGED <<dest, open, heard, rejected, relaying, theirs, at, called, handed, moves>>

FarTakes ==
  /\ \E q \in packets : q.to # "us" /\ packets' = packets \ {q}
  /\ UNCHANGED <<dest, open, heard, rejected, relaying, theirs, at, called, handed, moves>>

FarMoves ==
  /\ moves < MaxMoves /\ moves' = moves + 1
  /\ at' \in Places \ {at}
  /\ UNCHANGED <<dest, open, heard, rejected, relaying, theirs, called, packets, handed>>

CalledFollows ==
  /\ called # at /\ called' = at
  /\ UNCHANGED <<dest, open, heard, rejected, relaying, theirs, at, packets, handed, moves>>

Ages ==
  /\ heard < StaleAfter + 1 /\ heard' = heard + 1
  /\ UNCHANGED <<dest, open, rejected, relaying, theirs, at, called, packets, handed, moves>>

-----------------------------------------------------------------------------
OpenBridgeNext ==
  \/ Resolves \/ ResolveFails \/ SendFrame \/ ShutDown \/ StrangerSends
  \/ (\E q \in packets : q.to = "us" /\ Reads(q.p))
  \/ FarSends \/ FarTakes \/ FarMoves \/ CalledFollows \/ Ages

-----------------------------------------------------------------------------
(* Link.Status and HealthCheck.Check.                                      *)
Stale == StaleAfter > 0 /\ heard # Never /\ heard > StaleAfter
Degraded == heard = Never \/ Stale
BridgeHealth ==
  IF ~open \/ ~relaying THEN "unavailable" ELSE IF Degraded THEN "degraded" ELSE "healthy"

(* The link ends up sending to wherever the far end went, although nothing *)
(* tells it that a datagram went astray (upstream.go, keepResolving); and  *)
(* two ends that hold different passphrases are never reported healthy nor *)
(* hand the router a frame, whatever arrives (upstream.go, serve; set.go,  *)
(* Check).                                                                 *)
BridgeSettles ==
  /\ <>[](dest = at) \/ <>[](~open)
  /\ (theirs # "ours") => [](handed = <<>> /\ BridgeHealth # "healthy")
=============================================================================
