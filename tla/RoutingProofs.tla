---------------------------- MODULE RoutingProofs ----------------------------
(***************************************************************************)
(* What routing guarantees for every set of peers, links, vocoders, calls, *)
(* tables and lists: types, the agreement of contention and deduplication, *)
(* and that two people's audio is never interleaved.                       *)
(***************************************************************************)
EXTENDS Routing, TLAPS

(* Whoever was last heard at a destination, and not longer than            *)
(* StreamTimeout ago, still holds it (Core.busy).                          *)
AudioIsHeld ==
  \A k \in Keys :
    heard[k].src # NoSource /\ Fresh(heard[k]) =>
      busy[k].src = heard[k].src /\ busy[k].seen >= heard[k].seen

IndInv == RoutingTypeOK /\ HolderIsCarrier /\ AudioIsHeld

-----------------------------------------------------------------------------
(* A transmission is somebody's: its key is a source, and no source is the *)
(* empty one (sourceKey).                                                  *)
LEMMA SourceType ==
  ASSUME NEW c \in Calls
  PROVE  /\ Source(c) \in Sources /\ Source(c) # NoSource
         /\ Source(c)[2] = c.stream
         /\ Transmission(c) \in Radios \X Streams
         /\ c.radio \in Radios /\ c.stream \in Streams
<1>1. c \in [from : Origins, radio : Radios, stream : Streams, group : BOOLEAN,
             target : Targets, slot : Slots, local : BOOLEAN]
  BY RoutingAssumption
<1>2. <<c.from, c.stream, c.slot>> \in Origins \X Streams \X Slots
  BY <1>1
<1>3. <<c.from, c.stream, c.slot>> # <<>>
  OBVIOUS
<1> QED BY <1>1, <1>2, <1>3 DEF Source, Sources, NoSource, Transmission

(* The empty reservation, and one that is taken now, are records.          *)
LEMMA RecordTypes ==
  ASSUME now \in Nat
  PROVE  /\ Free \in Records /\ Free.src = NoSource /\ Free.seen = 0
         /\ \A s \in Sources : /\ Held(s) \in Records
                               /\ Held(s).src = s /\ Held(s).seen = now
BY DEF Free, Held, Records

(* What is sent as audio reserves where it is sent to (routeScoped: voice  *)
(* never passes beside a reservation).                                     *)
LEMMA AudioReserves ==
  ASSUME NEW c, NEW at, NEW k \in {KeyOf(d) : d \in Deliveries(c, "voice", at)}
  PROVE  k \in Reserved(c, "voice", at)
<1>1. PICK d \in Deliveries(c, "voice", at) : k = KeyOf(d)
  OBVIOUS
<1>2. d \in Accepted(c, "voice", at)
  BY <1>1 DEF Deliveries
<1>3. ~Shares(c, "voice", AtOrigin(c, KeyOf(d)))
  BY DEF Shares, Contends
<1> QED BY <1>1, <1>2, <1>3 DEF Reserved

(* Nobody is kept out of what he has reserved: a frame reserves what is    *)
(* free, its own, or held by somebody who has been silent for longer than  *)
(* StreamTimeout (the switch of routeScoped).                              *)
LEMMA ReservedWasFree ==
  ASSUME NEW c, NEW ty, NEW at, NEW k \in Reserved(c, ty, at)
  PROVE  \/ ClaimsOrigin(c, k)
         \/ busy[k].src \in {NoSource, Source(c)}
         \/ ~Fresh(busy[k])
<1>1. PICK d \in Accepted(c, ty, at) :
         k = KeyOf(d) /\ ~Shares(c, ty, AtOrigin(c, KeyOf(d)))
  BY DEF Reserved
<1>2. ~Refuses(c, ty, AtOrigin(c, k))
  BY <1>1 DEF Accepted
<1> QED BY <1>1, <1>2 DEF Refuses, AtOrigin

-----------------------------------------------------------------------------
(* Routing starts with nothing carried and nothing held (NewCore).         *)
LEMMA InitInv == Init => IndInv
<1> SUFFICES ASSUME Init PROVE IndInv
  OBVIOUS
<1>1. Free \in Records /\ Free.src = NoSource /\ Free.seen = 0
  BY RecordTypes DEF Init
<1>2. RoutingTypeOK
  BY <1>1 DEF Init, RoutingTypeOK, WellKept
<1>3. HolderIsCarrier /\ AudioIsHeld
  BY <1>1 DEF Init, HolderIsCarrier, AudioIsHeld
<1> QED BY <1>2, <1>3 DEF IndInv

(* routeScoped keeps the types.                                            *)
LEMMA RouteType ==
  ASSUME IndInv, NEW c \in Calls, NEW ty \in Types, NEW at, Route(c, ty, at)
  PROVE  RoutingTypeOK'
<1> USE DEF IndInv, RoutingTypeOK
<1>1. now' = now /\ table' = table /\ access' = access /\ ready' = ready
      /\ wants' = wants /\ edits' = edits
  BY DEF Route, envVars
<1>2. /\ Free \in Records /\ Free.src = NoSource /\ Free.seen = 0
      /\ Held(Source(c)) \in Records /\ Held(Source(c)).src # NoSource
      /\ Held(Source(c)).seen = now
  BY RecordTypes, SourceType
<1>3. carrying' \in [Radios \X Streams -> Records] /\ WellKept(carrying)'
  <2>1. carrying' = Carry(c)
    BY DEF Route
  <2>2. \A t \in Radios \X Streams :
          carrying'[t] \in {Held(Source(c)), Free, carrying[t]}
    BY <2>1 DEF Carry
  <2>3. carrying' = [t \in Radios \X Streams |-> carrying'[t]]
    BY <2>1 DEF Carry
  <2>4. carrying' \in [Radios \X Streams -> Records]
    BY <1>2, <2>2, <2>3
  <2> QED BY <1>1, <1>2, <2>2, <2>4 DEF WellKept
<1>4. busy' \in [Keys -> Records] /\ WellKept(busy)'
  <2>1. \A k \in Keys : busy'[k] \in {Held(Source(c)), Free, busy[k]}
    BY DEF Route, AtOrigin
  <2>2. busy' = [k \in Keys |-> busy'[k]]
    BY DEF Route
  <2>3. busy' \in [Keys -> Records]
    BY <1>2, <2>1, <2>2
  <2> QED BY <1>1, <1>2, <2>1, <2>3 DEF WellKept
<1>5. heard' \in [Keys -> Records] /\ WellKept(heard)'
  <2>1. \A k \in Keys : heard'[k] \in {Held(Source(c)), Free, heard[k]}
    BY DEF Route
  <2>2. heard' = [k \in Keys |-> heard'[k]]
    BY DEF Route
  <2>3. heard' \in [Keys -> Records]
    BY <1>2, <2>1, <2>2
  <2> QED BY <1>1, <1>2, <2>1, <2>3 DEF WellKept
<1> QED BY <1>1, <1>3, <1>4, <1>5

(* routeScoped keeps contention and deduplication in agreement: the path   *)
(* that takes a destination is the one that carries, and a path takes over *)
(* a transmission only when the former one holds nothing that is fresh.    *)
LEMMA RouteCarrier ==
  ASSUME IndInv, NEW c \in Calls, NEW ty \in Types, NEW at, Route(c, ty, at)
  PROVE  HolderIsCarrier'
<1> USE DEF IndInv
<1> DEFINE mine == Held(Source(c))
<1>0. now \in Nat
  BY DEF RoutingTypeOK
<1>1. now' = now /\ carrying' = Carry(c) /\ ~Duplicate(c)
  BY DEF Route
<1>2. /\ Free.src = NoSource
      /\ mine.src = Source(c) /\ mine.seen = now
  BY <1>0, RecordTypes, SourceType
<1>3. carrying'[Transmission(c)] = mine
  BY <1>1, SourceType DEF Carry
<1> SUFFICES ASSUME NEW k \in Keys, busy'[k].src # NoSource, Fresh(busy'[k])
             PROVE  \E r \in Radios :
                      /\ carrying'[<<r, busy'[k].src[2]>>].src = busy'[k].src
                      /\ carrying'[<<r, busy'[k].src[2]>>].seen >= busy'[k].seen
  BY <1>1 DEF HolderIsCarrier, Fresh
<1>4. busy'[k] \in {mine, Free, busy[k]}
  BY DEF Route, AtOrigin
<1>5. CASE busy'[k] = mine
  <2>1. Transmission(c) = <<c.radio, busy'[k].src[2]>> /\ c.radio \in Radios
    BY <1>2, <1>5, SourceType DEF Transmission
  <2> QED BY <1>0, <1>2, <1>3, <1>5, <2>1
<1>6. CASE busy'[k] = busy[k]
  <2>1. PICK r \in Radios :
          /\ carrying[<<r, busy[k].src[2]>>].src = busy[k].src
          /\ carrying[<<r, busy[k].src[2]>>].seen >= busy[k].seen
    BY <1>6 DEF HolderIsCarrier
  <2> DEFINE t == <<r, busy[k].src[2]>>
  <2>2. busy[k] \in Records /\ busy[k].src \in Sources
    BY <1>6 DEF RoutingTypeOK, Records
  <2>3. t \in Radios \X Streams
    BY <2>2 DEF Sources
  <2>4. carrying[t] \in Records /\ carrying[t].seen \in Nat /\ busy[k].seen \in Nat
        /\ carrying[t].seen <= now
    BY <2>2, <2>3 DEF RoutingTypeOK, Records, WellKept
  <2>5. Fresh(carrying[t])
    BY <1>0, <1>6, <2>1, <2>4, RoutingAssumption DEF Fresh
  <2>6. CASE t = Transmission(c)
    <3>1. busy[k].src = Source(c)
      BY <1>1, <1>6, <2>1, <2>5, <2>6 DEF Duplicate
    <3>2. busy[k].seen <= now
      BY DEF RoutingTypeOK, WellKept
    <3>3. carrying'[t].src = busy'[k].src /\ carrying'[t].seen >= busy'[k].seen
      BY <1>2, <1>3, <1>6, <2>6, <3>1, <3>2
    <3> QED BY <1>6, <3>3
  <2>7. CASE t # Transmission(c)
    <3>1. carrying'[t] = carrying[t]
      BY <1>1, <2>3, <2>5, <2>7 DEF Carry
    <3> QED BY <1>6, <2>1, <3>1
  <2> QED BY <2>6, <2>7
<1> QED BY <1>2, <1>4, <1>5, <1>6

(* routeScoped takes no destination from one who was heard there and is    *)
(* not silent yet.                                                         *)
LEMMA RouteAudio ==
  ASSUME IndInv, NEW c \in Calls, NEW ty \in Types, NEW at, Route(c, ty, at)
  PROVE  AudioIsHeld'
<1> USE DEF IndInv
<1> DEFINE mine == Held(Source(c))
<1>0. now \in Nat
  BY DEF RoutingTypeOK
<1>1. now' = now
  BY DEF Route
<1>2. /\ Free.src = NoSource
      /\ mine.src = Source(c) /\ mine.seen = now /\ Source(c) # NoSource
  BY <1>0, RecordTypes, SourceType
<1> SUFFICES ASSUME NEW k \in Keys, heard'[k].src # NoSource, Fresh(heard'[k])
             PROVE  busy'[k].src = heard'[k].src /\ busy'[k].seen >= heard'[k].seen
  BY <1>1 DEF AudioIsHeld, Fresh
<1> DEFINE kept == Reserved(c, ty, at)
           sent == {KeyOf(d) : d \in Deliveries(c, ty, at)}
<1>3. heard'[k] = IF ty = "voice" /\ k \in sent THEN mine
                  ELSE IF ty = "terminator" /\ heard[k].src = Source(c) THEN Free
                  ELSE heard[k]
  BY DEF Route
<1>4. busy'[k] = IF Releases(c, ty) /\ (busy[k].src = Source(c) \/ k \in kept) THEN Free
                 ELSE IF k \in kept THEN mine
                 ELSE AtOrigin(c, k)
  BY DEF Route
<1> HIDE DEF mine, kept, sent
<1>5. CASE ty = "voice" /\ k \in sent
  <2>1. k \in kept
    BY <1>5, AudioReserves DEF kept, sent
  <2>2. busy'[k] = mine
    BY <1>4, <1>5, <2>1 DEF Releases
  <2> QED BY <1>0, <1>2, <1>3, <1>5, <2>2
<1>6. CASE ~(ty = "voice" /\ k \in sent)
  <2>1. heard'[k] = heard[k] /\ ~(ty = "terminator" /\ heard[k].src = Source(c))
    BY <1>2, <1>3, <1>6
  <2>2. busy[k].src = heard[k].src /\ busy[k].seen >= heard[k].seen
    BY <2>1 DEF AudioIsHeld
  <2>3. busy[k] \in Records /\ heard[k] \in Records
        /\ busy[k].seen \in Nat /\ heard[k].seen \in Nat /\ busy[k].seen <= now
    BY DEF RoutingTypeOK, Records, WellKept
  <2>4. Fresh(busy[k])
    BY <1>0, <2>1, <2>2, <2>3, RoutingAssumption DEF Fresh
  <2>5. ~Releases(c, ty) \/ busy[k].src # Source(c)
    BY <2>1, <2>2 DEF Releases
  <2>6. CASE busy[k].src = Source(c)
    <3>1. busy'[k] \in {mine, busy[k]}
      BY <1>4, <2>5, <2>6 DEF AtOrigin, mine
    <3> QED BY <1>0, <1>2, <2>1, <2>2, <2>3, <2>6, <3>1
  <2>7. CASE busy[k].src # Source(c)
    <3>1. ~ClaimsOrigin(c, k)
      BY <2>1, <2>2, <2>4, <2>7 DEF ClaimsOrigin
    <3>2. k \notin kept
      BY <2>1, <2>2, <2>4, <2>7, <3>1, ReservedWasFree DEF kept
    <3>3. busy'[k] = busy[k]
      BY <1>4, <2>7, <3>1, <3>2 DEF AtOrigin
    <3> QED BY <2>1, <2>2, <3>3
  <2> QED BY <2>6, <2>7
<1> QED BY <1>5, <1>6

(* The sweep frees only what nobody has used for StreamTimeout (Expire).   *)
LEMMA ExpireInv ==
  ASSUME IndInv, Expire
  PROVE  IndInv'
<1> USE DEF IndInv
<1>0. now \in Nat /\ now' = now /\ carrying' = carrying /\ heard' = heard
      /\ table' = table /\ access' = access /\ ready' = ready /\ wants' = wants
      /\ edits' = edits
  BY DEF Expire, envVars, RoutingTypeOK
<1>1. Free \in Records /\ Free.src = NoSource /\ Free.seen = 0
  BY <1>0, RecordTypes
<1>2. \A k \in Keys : busy'[k] = IF Fresh(busy[k]) THEN busy[k] ELSE Free
  BY DEF Expire
<1>3. RoutingTypeOK'
  <2>1. busy' = [k \in Keys |-> busy'[k]]
    BY DEF Expire
  <2>2. busy' \in [Keys -> Records]
    BY <1>1, <1>2, <2>1 DEF RoutingTypeOK
  <2>3. WellKept(busy)'
    BY <1>0, <1>1, <1>2, <2>2 DEF WellKept, RoutingTypeOK
  <2> QED BY <1>0, <2>2, <2>3 DEF RoutingTypeOK, WellKept
<1>4. HolderIsCarrier'
  BY <1>0, <1>1, <1>2 DEF HolderIsCarrier, Fresh
<1>5. AudioIsHeld'
  <2> SUFFICES ASSUME NEW k \in Keys, heard[k].src # NoSource, Fresh(heard[k])
               PROVE  busy'[k].src = heard[k].src /\ busy'[k].seen >= heard[k].seen
    BY <1>0 DEF AudioIsHeld, Fresh
  <2>1. busy[k].src = heard[k].src /\ busy[k].seen >= heard[k].seen
    BY DEF AudioIsHeld
  <2>2. busy[k].seen \in Nat /\ heard[k].seen \in Nat /\ busy[k].seen <= now
    BY DEF RoutingTypeOK, Records, WellKept
  <2>3. Fresh(busy[k])
    BY <1>0, <2>1, <2>2, RoutingAssumption DEF Fresh
  <2> QED BY <1>2, <2>1, <2>3
<1> QED BY <1>3, <1>4, <1>5

(* The operator, the peers and the clock touch no reservation, and the     *)
(* clock only ends freshness (SetTable, SetAccess, PeerLookup,             *)
(* Subscriptions).                                                         *)
LEMMA OthersInv ==
  ASSUME IndInv,
         Surroundings \/ UNCHANGED vars
  PROVE  IndInv'
<1> USE DEF IndInv
<1>1. busy' = busy /\ carrying' = carrying /\ heard' = heard
  BY DEF Surroundings, SetTable, SetAccess, PeerChanges, AttachmentChanges, Tick, vars
<1>2. now \in Nat /\ now' \in Nat /\ now <= now'
  BY DEF Surroundings, SetTable, SetAccess, PeerChanges, AttachmentChanges, Tick, vars, RoutingTypeOK
<1>3. table' \in Tables /\ access' \in Lists
  BY DEF Surroundings, SetTable, SetAccess, PeerChanges, AttachmentChanges, Tick, vars, envVars, RoutingTypeOK
<1>4. ready' \subseteq Peers
  BY DEF Surroundings, SetTable, SetAccess, PeerChanges, AttachmentChanges, Tick, vars, envVars, RoutingTypeOK
<1>5. wants' \subseteq Peers \X Talkgroups \X Slots
  BY DEF Surroundings, SetTable, SetAccess, PeerChanges, AttachmentChanges, Tick, vars, envVars, RoutingTypeOK
<1>6. edits' \in Nat
  BY DEF Surroundings, SetTable, SetAccess, PeerChanges, AttachmentChanges, Tick, vars, envVars,
         Edited, RoutingTypeOK
<1>7. WellKept(busy)' /\ WellKept(carrying)' /\ WellKept(heard)'
  BY <1>1, <1>2 DEF WellKept, RoutingTypeOK, Records
<1>8. RoutingTypeOK'
  BY <1>1, <1>2, <1>3, <1>4, <1>5, <1>6, <1>7 DEF RoutingTypeOK
<1>9. \A k \in Keys : /\ busy[k].seen \in Nat /\ heard[k].seen \in Nat
  BY DEF RoutingTypeOK, Records
<1>10. HolderIsCarrier'
  <2> SUFFICES ASSUME NEW k \in Keys, busy[k].src # NoSource, now' - busy[k].seen <= Timeout
               PROVE  \E r \in Radios :
                        /\ carrying[<<r, busy[k].src[2]>>].src = busy[k].src
                        /\ carrying[<<r, busy[k].src[2]>>].seen >= busy[k].seen
    BY <1>1 DEF HolderIsCarrier, Fresh
  <2>1. Fresh(busy[k])
    BY <1>2, <1>9, RoutingAssumption DEF Fresh
  <2> QED BY <2>1 DEF HolderIsCarrier
<1>11. AudioIsHeld'
  <2> SUFFICES ASSUME NEW k \in Keys, heard[k].src # NoSource, now' - heard[k].seen <= Timeout
               PROVE  busy[k].src = heard[k].src /\ busy[k].seen >= heard[k].seen
    BY <1>1 DEF AudioIsHeld, Fresh
  <2>1. Fresh(heard[k])
    BY <1>2, <1>9, RoutingAssumption DEF Fresh
  <2> QED BY <2>1 DEF AudioIsHeld
<1> QED BY <1>8, <1>10, <1>11

(* Every step of the routing core, and of what surrounds it, keeps the     *)
(* invariant.                                                              *)
LEMMA StepInv == IndInv /\ [Next]_vars => IndInv'
<1> SUFFICES ASSUME IndInv, [Next]_vars PROVE IndInv'
  OBVIOUS
<1>1. CASE Frame(Calls)
  <2>1. PICK c \in Calls, ty \in Types : \E at \in Places(c) : Route(c, ty, at)
    BY <1>1 DEF Frame
  <2>2. PICK at \in Places(c) : Route(c, ty, at)
    BY <2>1
  <2> QED BY <2>2, RouteType, RouteCarrier, RouteAudio DEF IndInv
<1>2. CASE Expire
  BY <1>2, ExpireInv
<1>3. CASE Surroundings \/ UNCHANGED vars
  BY <1>3, OthersInv
<1> QED BY <1>1, <1>2, <1>3 DEF Next

(* The invariant holds in every state of every behaviour.                  *)
LEMMA Inductive == Spec => []IndInv
BY InitInv, StepInv, PTL DEF Spec

-----------------------------------------------------------------------------
(* Every variable keeps its type, whatever frames come in whatever order   *)
(* (Core).                                                                 *)
THEOREM RoutingTypeCorrect == Spec => []RoutingTypeOK
<1>1. IndInv => RoutingTypeOK
  BY DEF IndInv
<1> QED BY Inductive, <1>1, PTL

(* Contention and deduplication never disagree: who holds a destination is *)
(* the path its transmission is carried by (Core.busy, Core.carrying).     *)
THEOREM HoldersAreCarriers == Spec => []HolderIsCarrier
<1>1. IndInv => HolderIsCarrier
  BY DEF IndInv
<1> QED BY Inductive, <1>1, PTL

(* A step that sends one transmission's audio where another's was last     *)
(* heard finds that one terminated or silent (routeScoped).                *)
LEMMA StepAudio ==
  ASSUME IndInv, [Next]_vars
  PROVE  [\A k \in Keys :
            heard'[k].src \notin {NoSource, heard[k].src} =>
              heard[k].src = NoSource \/ ~Fresh(heard[k])]_vars
<1> SUFFICES ASSUME NEW k \in Keys,
                    heard'[k].src \notin {NoSource, heard[k].src},
                    heard[k].src # NoSource, Fresh(heard[k])
             PROVE  FALSE
  OBVIOUS
<1>0. PICK c \in Calls, ty \in Types : \E at \in Places(c) : Route(c, ty, at)
  BY DEF Next, Frame, Expire, Surroundings, SetTable, SetAccess, PeerChanges,
         AttachmentChanges, Tick, vars
<1>1. PICK at \in Places(c) : Route(c, ty, at)
  BY <1>0
<1>2. IndInv'
  BY StepInv
<1>3. now \in Nat
  BY DEF IndInv, RoutingTypeOK
<1>4. /\ Free.src = NoSource
      /\ Held(Source(c)).src = Source(c)
  BY <1>3, RecordTypes, SourceType
<1>5. /\ ty = "voice" /\ k \in {KeyOf(d) : d \in Deliveries(c, ty, at)}
      /\ Source(c) # heard[k].src
  BY <1>1, <1>4 DEF Route
<1>6. k \in Reserved(c, ty, at)
  BY <1>5, AudioReserves
<1>7. busy[k].src = heard[k].src /\ busy[k].seen >= heard[k].seen
  BY DEF IndInv, AudioIsHeld
<1>8. busy[k].seen \in Nat /\ heard[k].seen \in Nat
  BY DEF IndInv, RoutingTypeOK, Records
<1>9. Fresh(busy[k])
  BY <1>3, <1>7, <1>8, RoutingAssumption DEF Fresh
<1>10. ~ClaimsOrigin(c, k)
  BY <1>5, <1>7, <1>9 DEF ClaimsOrigin
<1> QED BY <1>5, <1>6, <1>7, <1>9, <1>10, ReservedWasFree

(* Two people's audio is never interleaved at a destination, whatever      *)
(* comes, however late, twice or out of order, and whatever is edited      *)
(* meanwhile (Core.busy; ADR-0022, ADR-0063).                              *)
THEOREM AudioIsNeverInterleaved == Spec => NoInterleaving
<1>1. Spec => []IndInv /\ [][Next]_vars
  BY Inductive, PTL DEF Spec
<1>2. IndInv /\ [Next]_vars =>
        [\A k \in Keys :
            heard'[k].src \notin {NoSource, heard[k].src} =>
              heard[k].src = NoSource \/ ~Fresh(heard[k])]_vars
  BY StepAudio
<1> QED BY <1>1, <1>2, PTL DEF NoInterleaving
(* Where a local transmission is reserved: at the server itself and at     *)
(* stations of this server (routeScoped with local set).                   *)
LEMMA LocalReserves ==
  ASSUME RoutingTypeOK, NEW c \in Calls, c.local, NEW ty, NEW at, NEW k,
         k \in Reserved(c, ty, at) \/ ClaimsOrigin(c, k)
  PROVE  k[1] \in Stations \ LinkedPeers
<1>1. c.from = Server /\ Server \in Stations \ LinkedPeers
  BY RoutingAssumption DEF Stations
<1>2. CASE ClaimsOrigin(c, k)
  <2>1. k = Key(Server, c.target, c.slot)
    BY <1>1, <1>2 DEF ClaimsOrigin
  <2>2. k = <<Server, c.slot>>
    BY <1>1, <2>1, RoutingAssumption DEF Key, Stations
  <2> QED BY <1>1, <2>2
<1>3. CASE k \in Reserved(c, ty, at)
  <2>1. PICK d \in Destinations(c, at) : k = KeyOf(d)
    BY <1>3 DEF Reserved, Accepted
  <2>2. ASSUME NEW t \in AllTargets(c, at) PROVE t.at \in Peers \cup {AnyPeer}
    BY DEF AllTargets
  <2>3. d \in PeerDestinations(c, at)
    <3>1. d \notin LinkDestinations(c, at)
      BY <2>2, RoutingAssumption DEF LinkDestinations, Stations, Origins
    <3> QED BY <2>1, <3>1 DEF Destinations
  <2>4. d.at \in Peers \ LinkedPeers
    <3>1. PICK t \in AllTargets(c, at) : d \in {Target(p, t.tg, t.slot, t.via) : p \in Resolve(t.at)}
      BY <2>3 DEF PeerDestinations
    <3>2. d.at \in ready
      BY <3>1 DEF Target, Resolve
    <3> QED BY <2>3, <3>2 DEF PeerDestinations, RoutingTypeOK
  <2>5. k = <<d.at, d.slot>>
    BY <2>1, <2>4, RoutingAssumption DEF KeyOf, Key, Stations
  <2> QED BY <2>4, <2>5 DEF Stations
<1> QED BY <1>2, <1>3

LEMMA LocalStep ==
  ASSUME RoutingTypeOK, LocalStaysHere, [Next]_vars
  PROVE  LocalStaysHere'
<1> SUFFICES ASSUME NEW c \in Calls, NEW k \in Keys, c.local, busy'[k].src = Source(c),
                    \A e \in Calls : Source(e) = Source(c) => e.local
             PROVE  k[1] \in Stations \ LinkedPeers
  BY DEF LocalStaysHere, Source
<1>0. Source(c) # NoSource /\ Free.src = NoSource
  BY SourceType DEF Free
<1>1. CASE busy'[k].src = busy[k].src
  BY <1>1 DEF LocalStaysHere
<1>2. CASE Frame(Calls)
  <2>1. PICK e \in Calls, ty \in Types : \E at \in Places(e) : Route(e, ty, at)
    BY <1>2 DEF Frame
  <2>2. PICK at \in Places(e) : Route(e, ty, at)
    BY <2>1
  <2>3. busy'[k] = IF Releases(e, ty) /\ (busy[k].src = Source(e) \/ k \in Reserved(e, ty, at)) THEN Free
                   ELSE IF k \in Reserved(e, ty, at) THEN Held(Source(e))
                   ELSE AtOrigin(e, k)
    BY <2>2 DEF Route
  <2>4. \/ busy'[k] \in {Free, busy[k]}
        \/ busy'[k] = Held(Source(e)) /\ (k \in Reserved(e, ty, at) \/ ClaimsOrigin(e, k))
    BY <2>3 DEF AtOrigin
  <2>5. CASE busy'[k] = Held(Source(e)) /\ (k \in Reserved(e, ty, at) \/ ClaimsOrigin(e, k))
    <3>1. Source(e) = Source(c)
      BY <2>5 DEF Held
    <3>2. e.local
      BY <3>1
    <3> QED BY <2>5, <3>2, LocalReserves
  <2> QED BY <1>0, <1>1, <2>4, <2>5
<1>3. CASE Expire
  BY <1>0, <1>1, <1>3 DEF Expire
<1>4. CASE Surroundings \/ UNCHANGED vars
  BY <1>1, <1>4 DEF Surroundings, SetTable, SetAccess, PeerChanges, AttachmentChanges, Tick, vars
<1> QED BY <1>2, <1>3, <1>4 DEF Next

(* Whoever holds a destination is entitled to it: it is the path its       *)
(* transmission is carried by, and a local one holds nothing that leaves   *)
(* the server (Core.busy, routeScoped).                                    *)
THEOREM HoldersAreEntitled == Spec => []HolderIsEntitled
<1>1. Init => LocalStaysHere
  <2> SUFFICES ASSUME Init, NEW c \in Calls PROVE \A k \in Keys : busy[k].src # Source(c)
    BY DEF LocalStaysHere
  <2> QED BY SourceType DEF Init, Free
<1>2. RoutingTypeOK /\ LocalStaysHere /\ [Next]_vars => LocalStaysHere'
  BY LocalStep
<1>3. Spec => []LocalStaysHere
  BY <1>1, <1>2, RoutingTypeCorrect, PTL DEF Spec
<1>4. HolderIsCarrier /\ LocalStaysHere => HolderIsEntitled
  BY DEF HolderIsEntitled
<1> QED BY <1>3, <1>4, HoldersAreCarriers, PTL


=============================================================================
