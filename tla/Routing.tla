------------------------------- MODULE Routing -------------------------------
(***************************************************************************)
(* The routing core (internal/routing: Table, Core): where a frame goes,   *)
(* which path may bring a transmission (carrying), and which transmission  *)
(* holds a destination (busy).                                             *)
(*                                                                         *)
(* Frames come from the goroutines of the DMR listener, of each link, of   *)
(* each vocoder channel and of the IPSC listener; Core.mu makes each call  *)
(* of Route one step.  The network may bring the frames of a transmission  *)
(* late, twice, out of order or not at all, so any frame of any call may   *)
(* come next.  A frame that is refused before deduplication, or by it,     *)
(* changes nothing and is no step.                                         *)
(*                                                                         *)
(* Names are compared as identities (linkSet's case folding is left out).  *)
(* Reasons, counters and the name of the bridge are left out, and with     *)
(* them the disabled bridges, which only a reason mentions; so is the      *)
(* offer of a carried frame to the Motorola side.  A Motorola repeater is  *)
(* a peer that is never ready.  Private calls have radio IDs as targets,   *)
(* and no bridge names one.                                                *)
(***************************************************************************)
EXTENDS Integers, FiniteSets

CONSTANTS Peers,        \* repeater IDs
          LinkedPeers,  \* the peers that are QSP servers (LinkedServers)
          Links,        \* links to other networks, by name
          QSPLinks,     \* the links that reach another QSP server
          Transcoders,  \* vocoder channels, by name
          Server,       \* ServerOrigin
          AnyPeer,
          Radios,       \* radio IDs
          Streams,      \* hbp.StreamID
          Talkgroups,
          Slots,        \* timeslots
          Calls,        \* the transmissions that are made, per path they take
          Tables,       \* the routing tables the operator has
          Lists,        \* the talkgroup lists the operator has
          Timeout,      \* StreamTimeout
          MaxTime,      \* bound: the last instant of a behaviour
          MaxEdits      \* bound: changes of table, lists, peers and attachments

Stations  == Peers \cup {Server}
Origins   == Stations \cup Links \cup Transcoders
Targets   == Talkgroups \cup Radios
Endpoints == [at : Peers \cup {AnyPeer} \cup Links \cup Transcoders,
              tg : Talkgroups, slot : Slots]

(* A kind of endpoint is never another, and a bridge joins endpoints.  A   *)
(* permission of AnyPeer is Permission.All.  Only the server makes local   *)
(* transmissions (RouteLocalFromServer).                                   *)
ASSUME RoutingAssumption ==
  /\ LinkedPeers \subseteq Peers /\ QSPLinks \subseteq Links
  /\ Stations \cap (Links \cup Transcoders) = {} /\ Links \cap Transcoders = {}
  /\ Server \notin Peers /\ AnyPeer \notin Origins
  /\ Talkgroups \subseteq Nat /\ Slots \subseteq Nat
  /\ Calls \subseteq [from : Origins, radio : Radios, stream : Streams,
                      group : BOOLEAN, target : Targets, slot : Slots, local : BOOLEAN]
  /\ \A c \in Calls : c.local => c.from = Server
  /\ Tables \subseteq [bridges : SUBSET SUBSET Endpoints,
                       permits : [Transcoders -> SUBSET (Peers \cup {AnyPeer})]]
  /\ Lists \subseteq SUBSET (Slots \X Talkgroups)
  /\ Timeout \in Nat /\ MaxTime \in Nat /\ MaxEdits \in Nat

VARIABLES
  now,       \* the clock
  table,     \* Core.table
  access,    \* Core.access, the talkgroup lists: what is allowed on each slot
  ready,     \* PeerLookup.ReadyPeers
  wants,     \* Subscriptions: the attachments of the peers
  busy,      \* Core.busy: the reservation of each destination
  carrying,  \* Core.carrying: the path that brings each transmission
  edits,     \* how often the operator or a member has changed something
  heard      \* history variable: whose audio was last sent to a destination

envVars == <<table, access, ready, wants, edits>>
vars == <<now, envVars, busy, carrying, heard>>

(* sourceKey, and the two things it is a key to.                           *)
Source(c) == <<c.from, c.stream, c.slot>>

NoSource == <<>>
Sources == Origins \X Streams \X Slots

Free == [src |-> NoSource, seen |-> 0]
Held(s) == [src |-> s, seen |-> now]

(* contend: what can carry one transmission at a time.                     *)
Key(at, tg, slot) ==
  IF at \in Transcoders THEN <<at>>
  ELSE IF at \in Links THEN <<at, tg, slot>>
  ELSE <<at, slot>>

Keys == {Key(at, tg, slot) : at \in Origins, tg \in Targets, slot \in Slots}

Transmission(c) == <<c.radio, c.stream>>

Init ==
  /\ now = 1
  /\ table \in Tables /\ access \in Lists
  /\ ready = Peers
  /\ wants = Peers \X Talkgroups \X Slots
  /\ busy = [k \in Keys |-> Free]
  /\ carrying = [t \in Radios \X Streams |-> Free]
  /\ edits = 0
  /\ heard = [k \in Keys |-> Free]

-----------------------------------------------------------------------------
(* Table.Route                                                             *)

Origin(c) == [at |-> c.from, tg |-> c.target, slot |-> c.slot]

(* Endpoint.Matches                                                        *)
Matches(e, o) ==
  /\ e.tg = o.tg /\ e.slot = o.slot
  /\ e.at = o.at \/ (e.at = AnyPeer /\ o.at \in Stations)

Bridged(o) ==
  {e \in UNION {b \in table.bridges : \E x \in b : Matches(x, o)} : ~Matches(e, o)}

(* The opt-in: audio out of a vocoder reaches a permitted repeater only.   *)
Withheld(o) ==
  {e \in Bridged(o) : /\ o.at \in Transcoders /\ e.at \in Peers \cup {AnyPeer}
                      /\ {e.at, AnyPeer} \cap table.permits[o.at] = {}}

-----------------------------------------------------------------------------
(* routeScoped: the targets of a frame, in the order they are taken (via). *)

Target(at, tg, slot, via) == [at |-> at, tg |-> tg, slot |-> slot, via |-> via]

ToAnyPeer == 0
ToNamed   == 1
ByRepeat  == 2
Offered   == 3

BridgeTargets(c) ==
  {Target(e.at, e.tg, e.slot, IF e.at = AnyPeer THEN ToAnyPeer ELSE ToNamed) :
     e \in Bridged(Origin(c)) \ Withheld(Origin(c))}

(* A group call is repeated to the peers and the QSP links.  A private call*)
(* goes where its radio was last heard (at), or is offered to every other  *)
(* QSP server.                                                             *)
Nowhere == <<>>

OtherTargets(c, at) ==
  CASE c.group -> {Target(x, c.target, c.slot, ByRepeat) : x \in {AnyPeer} \cup QSPLinks}
    [] ~c.group /\ at # Nowhere -> {Target(at[1], c.target, at[2], ByRepeat)}
    [] ~c.group /\ at = Nowhere -> {Target(x, c.target, c.slot, Offered) :
                   x \in QSPLinks \cup ((LinkedPeers \cap ready) \ {c.from})}

(* A local transmission is kept from links and vocoders.                   *)
AllTargets(c, at) ==
  {t \in BridgeTargets(c) \cup OtherTargets(c, at) :
     c.local => t.at \in Peers \cup {AnyPeer}}

(* Core.resolve, and the peers that are passed over: the one a call is     *)
(* repeated from, and a QSP server for a local call.                       *)
Resolve(at) == IF at = AnyPeer THEN ready ELSE ready \cap {at}

PeerDestinations(c, at) ==
  {d \in UNION {{Target(p, t.tg, t.slot, t.via) : p \in Resolve(t.at)} :
                  t \in AllTargets(c, at)} :
     /\ d.via = ByRepeat => d.at # c.from
     /\ c.local => d.at \notin LinkedPeers}

(* The loop rule: a link is never sent its own frame, and a network that   *)
(* does not speak QSP none that came over a link.                          *)
LinkDestinations(c, at) ==
  {t \in AllTargets(c, at) :
     \/ t.at \in Transcoders
     \/ t.at \in Links \ {c.from} /\ (c.from \in Links => t.at \in QSPLinks)}

(* talkgroupAllowed, and the attachment that repeat asks of a peer.        *)
Allowed(c, tg, slot) == c.group => <<slot, tg>> \in access

Wanted(c, d) ==
  (c.group /\ d.via = ByRepeat /\ d.at \in Peers) => <<d.at, d.tg, d.slot>> \in wants

Destinations(c, at) ==
  {d \in PeerDestinations(c, at) \cup LinkDestinations(c, at) :
     Allowed(c, d.tg, d.slot) /\ Wanted(c, d)}

-----------------------------------------------------------------------------
(* Reservations                                                            *)

(* "sync" is FrameTypeSync: a voice header or a data burst.                *)
Types == {"sync", "voice", "terminator"}

(* contendsForSlot                                                         *)
Contends(ty) == ty = "voice"

SameOrigin(s, t) == s[1] = t[1] /\ s[3] = t[3]

(* now.Sub(lastSeen) <= timeout                                            *)
Fresh(r) == now - r.seen <= Timeout

HoldsAny(s) == \E k \in Keys : busy[k].src = s

(* The origin is claimed by the frame that opens a transmission, if nobody *)
(* has it, and kept by the others.                                         *)
ClaimsOrigin(c, k) ==
  /\ k = Key(c.from, c.target, c.slot)
  /\ IF HoldsAny(Source(c)) THEN busy[k].src = Source(c)
     ELSE busy[k].src = NoSource \/ ~Fresh(busy[k])

(* A data burst of the station that holds the destination passes beside it.*)
Shares(c, ty, r) ==
  r.src \notin {NoSource, Source(c)} /\ SameOrigin(r.src, Source(c)) /\ ~Contends(ty)

(* Mutant: a pause of StreamTimeout is already an end.                     *)
RefusesEarly(c, ty, r) ==
  r.src \notin {NoSource, Source(c)} /\ ~Shares(c, ty, r) /\ now - r.seen < Timeout

(* Somebody else is talking there.                                         *)
Refuses(c, ty, r) ==
  r.src \notin {NoSource, Source(c)} /\ ~Shares(c, ty, r) /\ Fresh(r)

KeyOf(d) == Key(d.at, d.tg, d.slot)

AtOrigin(c, k) == IF ClaimsOrigin(c, k) THEN Held(Source(c)) ELSE busy[k]

Accepted(c, ty, at) ==
  {d \in Destinations(c, at) : ~Refuses(c, ty, AtOrigin(c, KeyOf(d)))}

(* The keys a frame reserves, or keeps.                                    *)
Reserved(c, ty, at) ==
  {KeyOf(d) : d \in {e \in Accepted(c, ty, at) : ~Shares(c, ty, AtOrigin(c, KeyOf(e)))}}

(* The order in which targets are taken.                                   *)
Before(d, e) ==
  \/ d.via < e.via
  \/ d.via = e.via /\ d.tg < e.tg
  \/ d.via = e.via /\ d.tg = e.tg /\ d.slot < e.slot

(* What is sent: one copy to a peer, one to a link or a vocoder per target.*)
Deliveries(c, ty, at) ==
  LET taken == Accepted(c, ty, at)
  IN  {d \in taken : d.at \in Peers =>
                        ~ \E e \in taken \ {d} : e.at = d.at /\ Before(e, d)}

(* Core.duplicate: is it carried by another path?  If not, it is carried by*)
(* this one, and what has ended is forgotten.                              *)
Duplicate(c) ==
  LET r == carrying[Transmission(c)]
  IN  r.src \notin {NoSource, Source(c)} /\ Fresh(r)

(* Mutant: a frame that continues a transmission does not keep its record. *)
CarryUnkept(c) ==
  IF carrying[Transmission(c)].src = Source(c) THEN carrying
  ELSE [t \in Radios \X Streams |->
          IF t = Transmission(c) THEN Held(Source(c))
          ELSE IF Fresh(carrying[t]) THEN carrying[t] ELSE Free]

Carry(c) ==
  [t \in Radios \X Streams |->
     IF t = Transmission(c) THEN Held(Source(c))
     ELSE IF carrying[Transmission(c)].src # Source(c) /\ ~Fresh(carrying[t]) THEN Free
     ELSE carrying[t]]

(* A terminator releases all its transmission holds, unless it opened it.  *)
Releases(c, ty) == ty = "terminator" /\ HoldsAny(Source(c))

(* Core.routeScoped, for a frame of type ty of the call c, when the called *)
(* radio was last heard at `at'.                                           *)
Route(c, ty, at) ==
  \E kept \in {Reserved(c, ty, at)},
     sent \in {{KeyOf(d) : d \in Deliveries(c, ty, at)}} :
      /\ Allowed(c, c.target, c.slot)
      /\ AllTargets(c, at) # {}
      /\ ~Duplicate(c)
      /\ carrying' = Carry(c)
      /\ busy' = [k \in Keys |->
           IF Releases(c, ty) /\ (busy[k].src = Source(c) \/ k \in kept) THEN Free
           ELSE IF k \in kept THEN Held(Source(c))
           ELSE AtOrigin(c, k)]
      /\ heard' = [k \in Keys |->
           IF ty = "voice" /\ k \in sent THEN Held(Source(c))
           ELSE IF ty = "terminator" /\ heard[k].src = Source(c) THEN Free
           ELSE heard[k]]
      /\ UNCHANGED <<now, envVars>>

(* Where SubscriberLookup may place a radio.                               *)
Places(c) == IF c.group THEN {Nowhere} ELSE {Nowhere} \cup (ready \X Slots)

(* Mutant: only the peers' timeslots are swept.                            *)
ExpirePeers ==
  /\ busy' = [k \in Keys |-> IF k[1] \in Stations /\ ~Fresh(busy[k]) THEN Free ELSE busy[k]]
  /\ busy' # busy
  /\ UNCHANGED <<now, envVars, carrying, heard>>

(* Core.Expire, on the listener's sweep.                                   *)
Expire ==
  /\ busy' = [k \in Keys |-> IF Fresh(busy[k]) THEN busy[k] ELSE Free]
  /\ busy' # busy
  /\ UNCHANGED <<now, envVars, carrying, heard>>

-----------------------------------------------------------------------------
(* The collaborators                                                       *)

Edited == edits < MaxEdits /\ edits' = edits + 1

SetTable(t) ==
  /\ Edited /\ t # table /\ table' = t
  /\ UNCHANGED <<now, access, ready, wants, busy, carrying, heard>>

SetAccess(l) ==
  /\ Edited /\ l # access /\ access' = l
  /\ UNCHANGED <<now, table, ready, wants, busy, carrying, heard>>

(* A peer registers or goes; a member attaches or leaves a talkgroup.      *)
PeerChanges(p) ==
  /\ Edited
  /\ ready' = IF p \in ready THEN ready \ {p} ELSE ready \cup {p}
  /\ UNCHANGED <<now, table, access, wants, busy, carrying, heard>>

AttachmentChanges(a) ==
  /\ Edited
  /\ wants' = IF a \in wants THEN wants \ {a} ELSE wants \cup {a}
  /\ UNCHANGED <<now, table, access, ready, busy, carrying, heard>>

Tick == now < MaxTime /\ now' = now + 1 /\ UNCHANGED <<envVars, busy, carrying, heard>>

(* Any frame of one of the calls comes.                                    *)
Frame(calls) == \E c \in calls, ty \in Types : \E at \in Places(c) : Route(c, ty, at)

Surroundings ==
  \/ \E t \in Tables : SetTable(t)
  \/ \E l \in Lists : SetAccess(l)
  \/ \E p \in Peers : PeerChanges(p)
  \/ \E a \in Peers \X Talkgroups \X Slots : AttachmentChanges(a)
  \/ Tick

Next == Frame(Calls) \/ Expire \/ Surroundings

Spec == Init /\ [][Next]_vars

(* The listener's loop sweeps at least every sweepInterval.                *)
FairSpec == Spec /\ WF_vars(Expire)
-----------------------------------------------------------------------------
Records == [src : Sources \cup {NoSource}, seen : Nat]

WellKept(f) ==
  \A x \in DOMAIN f : f[x].seen <= now /\ (f[x].src = NoSource => f[x] = Free)

(* Every variable has its type; a destination that nobody holds, and a     *)
(* transmission that nobody brings, has nothing left behind (Core.busy,    *)
(* Core.carrying).                                                         *)
RoutingTypeOK ==
  /\ now \in Nat /\ edits \in Nat
  /\ table \in Tables /\ access \in Lists
  /\ ready \subseteq Peers /\ wants \subseteq Peers \X Talkgroups \X Slots
  /\ busy \in [Keys -> Records] /\ WellKept(busy)
  /\ carrying \in [Radios \X Streams -> Records] /\ WellKept(carrying)
  /\ heard \in [Keys -> Records] /\ WellKept(heard)

(* Two people's audio is never interleaved: a timeslot of a peer, a        *)
(* talkgroup of a link or a vocoder that was sent a transmission's audio   *)
(* is sent another's only when the first has been terminated, or silent    *)
(* for StreamTimeout (Core.busy; ADR-0022, ADR-0063).                      *)
NoInterleaving ==
  [][\A k \in Keys :
       heard'[k].src \notin {NoSource, heard[k].src} =>
         heard[k].src = NoSource \/ ~Fresh(heard[k])]_vars

(* Contention and deduplication agree: who holds a destination, and has    *)
(* not been silent for StreamTimeout, is the path its transmission is      *)
(* carried by, so that its next frame is not dropped as a duplicate while  *)
(* it keeps the others out (Core.busy, Core.carrying; ADR-0051).           *)
HolderIsCarrier ==
  \A k \in Keys :
    busy[k].src # NoSource /\ Fresh(busy[k]) =>
      \E r \in Radios : /\ carrying[<<r, busy[k].src[2]>>].src = busy[k].src
                        /\ carrying[<<r, busy[k].src[2]>>].seen >= busy[k].seen

(* A local transmission, a weather alert, holds nothing that leaves the    *)
(* server: no link, no vocoder, no QSP server that is a peer               *)
(* (RouteLocalFromServer: "never holds a link's timeslot").                *)
LocalStaysHere ==
  \A c \in Calls, k \in Keys :
    /\ c.local /\ busy[k].src = Source(c)
    /\ \A e \in Calls : Source(e) = Source(c) => e.local
    => k[1] \in Stations \ LinkedPeers

(* Whoever holds a destination is entitled to it: it is the transmission   *)
(* that is being carried, and it is one that may be sent there.            *)
HolderIsEntitled == HolderIsCarrier /\ LocalStaysHere

(* A transmission that stopped without a terminator does not weld its      *)
(* destinations open (Core.Expire).                                        *)
StaleIsFreed ==
  (\E k \in Keys : busy[k] # Free /\ ~Fresh(busy[k]))
    ~> (\A k \in Keys : busy[k] = Free \/ Fresh(busy[k]))
=============================================================================
