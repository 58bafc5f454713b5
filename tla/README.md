# QSP: a TLA+ verification project

QSP is a server for amateur digital voice: DMR hotspots and repeaters (Homebrew
and Motorola IPSC), P25 gateways and repeaters, links to other networks,
vocoders and Zello meet in it, and a console shows what happens live. This
directory holds TLA+ models of its core, the TLC runs that check them, and
proofs that TLAPS checks. Paths below are relative to `src/`.

`PROJECT.json` has the same facts for tools: every component, every run, the
source lines each definition models (`map`), one mutant for every property,
the findings, the hazards and the theorems.

Contents: 1. the system; 2. the modules; 3. the runs; 4. the proofs;
5. what the code does that its documents do not say; 6. what is not modelled;
7. the plan.

## 1. The system

### How it runs

One process, many goroutines. The DMR listener (`internal/peers/listener.go`,
`serve`) is one of them: it owns the socket and the `Master`, reads a datagram
or times out after a second, handles it, then installs a waiting configuration
(`applyPending`) and runs every sweep. The Motorola listener, each outgoing
link, each vocoder channel, the P25 listener and the V.24 links have goroutines
of their own and call into the same routing core, which a mutex makes
single-file. Everything of interest is published on an event bus that never
holds a publisher up; the console reads it over server-sent events. A save in
the console is validated, recorded, written to the file and queued for the
listener.

The hard behaviours follow from that: datagrams that are lost, repeated or
overtaken; two stations keying up at once over different goroutines; state in
several tables that age by clocks of their own; operator saves in the middle of
calls; queues and tables at their limits; clock changes; restarts that the
clients outlive.

### Inventory

| Component | State | Operations | What makes it correct | Here |
|---|---|---|---|---|
| Event bus `internal/events` | sequence, ring, subscriptions with bounded queues and drop counters | Publish, deliver, Subscribe, Replay, both Closes | no event lost uncounted; no send on, or second close of, a closed channel; Publish never blocks; Replay says truly whether it is complete | EventBus |
| Event stream `internal/server/events.go`, `console/static/console.js` | per request: position, replay, lag baseline; per console: last id | connect, replay, live, resync, hang up, shut down | a console can tell whether its view is complete; laggards are cut off; shutdown ends every stream | EventStream |
| Login throttle `internal/peers/throttle.go` | failures and lockouts per host, bounded | fail, makeRoom, succeed, locked, expire | a rate limit that a full table does not undo | Throttle |
| Registry `internal/peers/master.go`, `peer.go` | peers, half-open logins, challenges beside a registration | RPTL, RPTK, RPTC, RPTPING, RPTCL, bans, expiry | proved from the address it works from; limits; nobody is knocked off by a login that has proved nothing | Registry |
| Routing core `internal/routing` | table, lists, reservations (`busy`), deduplication (`carrying`) | Route and its variants, Expire, setters | two people's audio is never interleaved; nothing stays held; alerts stay local | Routing |
| Data path `internal/peers` (`handleData`, `continuing`, `observe`, attachments, `listener.go`) | open calls, locations, attachments, who was answered | a frame, an unlink, a sweep, a save | a call is put together as it was made; who is refused is not located; what is asked for is heard | Traffic, Attachments, Frames |
| Call tracking `internal/calls` | calls in progress, history ring, database rows | Update, Expire, finish, merge of bursts | calls end, the history is sane, what ended is recorded | CallTracker |
| Bridges by schedule and on demand `internal/scheduler`, `internal/routing/trigger.go`, `peers/reload.go`, `cmd/qsp/app.go` | windows, last use of each bridge, what is open | ActiveAt, Observe, Expire, applySchedule, Apply, applyPending | the calendar is kept; the frame that opens a bridge is carried; a sweep corrects; the last save runs | Scheduler, Bridging |
| Outgoing links `internal/upstream`, `internal/protocol/homebrew/link.go`, `openbridge` | handshake state, backoff, salts; address, passphrase | dial, answer, keepalive, redial, close; resolve, verify | the link comes up again by itself; a closed one sends nothing more | Link, OpenBridge |
| Parrot and texts `internal/parrot`, `internal/peers/playback.go`, `text.go`, `internal/ipsclink/parrot.go` | recordings, players with generations | record, wait, play, cancel, send a text | a player knows what it plays; who has moved on is not surprised | Playback |
| Motorola IPSC `internal/ipsclink`, `internal/ipscbridge` | registrations, converter and encoder per timeslot, calls | register, keepalive, convert, encode, expire | what each side is handed is whole transmissions | Ipsc |
| P25 `internal/p25link` | gateways, floor, calls | poll, voice, end, sweep | one talker at a time; the floor comes free | P25 |
| V.24 `internal/v24link` | tunnels, link states, who hears whom, pacer | accept, open, relay, take over, expire, pace | a repeater is sent whole calls and every end; records leave evenly | V24, Line, Pacer |
| Vocoders `internal/vocoderlink`, `internal/ambe` | call, over, chip and its holder, paced bursts | acquire, exchange, fail, pace, reopen, shut down | an answer belongs to its request; nothing holds the chip in vain; whole transmissions | Vocoder |
| Zello `cmd/qsp-zello`, `internal/zello`, `zellobridge`, `audio/queue.go` | session, bridge, two channels, a queue that drops | log on, start and stop a stream, play, drain, leave | what was taken hold of is let go, once | Zello |
| Accounts `internal/auth`, `internal/server/login.go`, `users.go`, `setup.go` | accounts, sessions, suspects | sign in, change, reset, remove, unlock, set up | only who guesses is refused; a new password ends old sessions | Accounts |
| Configuration `internal/config`, `internal/server/config.go`, `save.go`, `cmd/qsp/configmanager.go`, `app.go` | document, file, versions, running configuration, open pages | validate, start, open, post, restore, save | what is accepted starts; no save undoes another; file and process agree | Settings, ConfigStore |
| Access lists `internal/access` | sorted spans | parse, merge, look up | a list means what its entries say | Access |
| Peering `internal/peering`, `internal/server/peering.go`, `offered.go`, `link*.go` | tokens, remembered offers, password files, links, registration list, on two servers | offer, accept, refuse, remove, issue, revoke, move | both sides hold what they agreed on; exchanges end; the page tells the truth | Peering |
| Weather `internal/weather` | what is in force, decided, waiting, sent | poll, decide, flush, apply | what is sent is asked for now, and sent once | Weather (its routing is in Routing) |
| Codes and framing `internal/dmrfec`, `internal/tms/frames.go` | none | encode and decode a burst, a Link Control, an alias, a text | what is damaged is corrected or refused, never read as something else | BurstCodes |
| Health, audit, secrets, call signs, database, codecs, wire formats, HTTP handlers, probes | see `PROJECT.json` | | | not modelled, section 6 |

How they interact: the listener calls the Master, the tracker, the triggers and
then the routing core for each frame; links, vocoders and the Motorola side
call the routing core from their own goroutines; the console's saves reach the
listener through one atomic pointer; everything publishes on the bus; the
consoles read the bus.

## 2. The modules

Data is abstracted and control is kept: a datagram is a record of the fields
the code branches on, an instant is a small natural number, and every handler
is one action with all its early returns. Where the code releases a lock in the
middle, the handler is several actions. History variables are marked as such in
the modules; no guard depends on one, except that the registry's `issued`
also numbers the challenges.

**EventBus.** `Publish` takes its snapshot of subscribers under `Bus.mu` and
then delivers to each under that subscription's own lock (`Deliver`), so
publishers interleave between deliveries; `Subscription.Close` is `Unregister`
then `Shutdown`, and `Bus.Close` is `Close` then one `CloseOne` for each. The
ring is modelled with its index arithmetic.

**EventStream** extends EventBus with the handler of `GET /api/events`,
statement by statement between channel operations and writes, the console that
reconnects with the last id it was sent, and `Restart`, a new process whose
numbering starts over.

**Throttle** is `throttle.go` over an explicit clock. **Registry** extends it:
one action per outcome of each handler of `Master` (a login of a new station,
beside a registration, without a salt; a right or wrong answer to a first
challenge and to a relogin; and so on). A challenge is named by its serial
number. The network may deliver any message from any address at any time, so
inputs are quantified over instead of kept in a queue: loss, repetition and
reordering are all included.

**Routing** is `Table.Route` and `Core.routeScoped`: targets of a frame from a
bridge, from repeat and from attachments; deduplication by radio and stream;
contention per timeslot of a peer or talkgroup of a link; opening, carrying,
takeover, terminators and expiry. `heard` is a history variable: whose audio
each destination was last sent.

**Traffic** composes **Frames** (what a frame is), **Attachments** and
**CallTracker** into the data path of the listener: `Master.handleData` with
the ban, `Peer.continuing`, `locate` and the attachment in the code's order;
then `observe`, unlink, and the answer to a station that is not registered.
Each datagram is a step and the sweep after it is another.

**Scheduler** is the pure calendar: local readings, `time.Date` of Go's library
(external, modelled by the lookup it makes), occurrences and the look back of
two days. **Bridging** extends it with triggers, tables and reloads. The
closures `ScheduleState` and `Rebuild` and the object `Triggers` are named by
the number of the configuration they were built from, because what matters is
which of them outlives which. `applyPending` is two steps and the sweep is two
steps, since the Motorola goroutine can take `schedMu` between them.

**Access** is `access.go`: entries are parsed, their spans sorted and merged, and
an ID looked up by bisection (which of the sorted orders `sort.Slice` leaves is
a choice); an ID has the code's width, so one past the
largest is 0. **Settings** extends it with the document (one record for each
section, with the values on both sides of every limit), `Validate` section by
section, and what `build` and `run` do with the document (`Starts`, `Applies`).
**ConfigStore** is how a document comes to be in force: pages that keep what they
were given, `Merge`, `Save` as three steps that may each fail or be the last,
versions, restores and backups, and a process that dies anywhere. `intent` is a
history variable: what each setting was last deliberately set to.

**Link** is the login client: the state machine of `homebrew/link.go`, stepped by
the ticker, the reader and the closer of `upstream/peer.go`, each of which holds
what it is about to write while the others move; the network; and the master at
the far end, reduced to the one ID. **OpenBridge** has no login: signed packets,
a name that is resolved again and again, and a health that is inferred from what
arrives.

**Ipsc** is one Motorola repeater with its converter (into the DMR side) and its
encoder (towards it), its registration, calls and timeslots. What is really on
the air (`air`) is modelled beside what the code believes, so that losses are
losses of real frames. A frame is encoded under the listener's lock (`Transmit`)
and its messages are written one by one after it (`WriteToUDP`), so that those of
several goroutines may overtake each other and a failed write drops the rest of
its own. **Playback** is the recorder and the players, each
playback a goroutine that may act once more after it was cancelled. **Vocoder** is
`Channel.Run` with one chip, whose late answers stay in the socket they were
sent to, and the supervisor that opens another. **Zello** is the connector: the
pump's `select`, the two channels the session's reader fills, the bridge, and
the server as an external actor whose replies may come when nobody waits any
more. **Weather** is the one goroutine that polls, decides and sends, with
`Apply` between any two of its steps.

**BurstCodes** is what a burst is made of. Bits are sets of places, so that an
exclusive or is a symmetric difference and every check register is one division
of polynomials (`Remainder`); the codes of `dmrfec` are then one operator for each
function, written with the code's own tables: Golay and the scrambled vocoder
frame, the IPSC core, EMB, the embedded Link Control and the talker alias,
BPTC, Reed-Solomon and the Slot Type, the Rate 3/4 trellis with its CRC-9,
packets, preambles and data headers. The radio path is an external actor that
flips bits and loses, repeats or swaps bursts; the state is what was sent and
what of it is under way.

**P25** (with the floor) and **V24** are one composition: the floor is shared by
the gateway listener and the repeater links, which hold different locks. A voice
frame of a gateway is judged in one step and passed on in another; a repeater's
call that is replaced gives the floor back in one step and asks for it again in
the next. **Line** is the abstract specification of what one repeater is owed:
while its link is up it is sent whole calls, one after another. V24 implements
it with the mapping of `Lines` (up: the tunnels whose links are open; on:
`receiving`; sent: the records of the last write, where a record that is queued
for the pacer counts as written). **Pacer** is `schedule.due` and the goroutine
that obeys it, with its own arithmetic of time, a write that fails and what is
discarded with it.

**Accounts** is every request that reads or writes accounts and sessions, one
step for each statement: what a request read may be stale when it writes.
**Peering** is two servers and two operators who carry tokens and passphrases by
hand. A handler that edits the configuration holds its lock throughout, so it is
a step whose outcome may be a refusal, a failed save or a crash after the file
was written; but issuing and revoking a password write the same directory
without that lock (`server/credentials.go`), so every request that touches it
is several steps, its write, its save and its answer, of an administrator who
may not be the only one (`asked`), and holds the lock from the first to the last
only where the handler does.

The MC modules give the runs their calls, frames, tables and configurations.
Some compose parts that share no state (MCConfig, MCStations, MCP25, MCLinks,
MCSignIn): a variable `part` says which of them a behaviour explores, so that the
number of states is the sum and not the product.

## 3. The runs

A run's properties are stated with their meaning in the modules. Times are for
two workers.

| Run | Module, cfg | What is in it | Result |
|---|---|---|---|
| eventstream | EventStream, `EventStream.cfg` | two publishers, one console with two connections, a queue of one, a ring of two, three events, one restart | passes |
| registry | Registry, `Registry.cfg` | three stations from two hosts, room for one, two half-open, one relogin, three challenges, one ban | passes |
| routing | MCRouting, `Routing.cfg` | one transmission by two paths with an alert and one edit; group and private calls; vocoder audio | passes |
| traffic | MCTraffic, `Traffic.cfg` | scripts of four frames of four streams over three instants, every table one entry short; 390 278 states | passes |
| bridging | MCBridging, `Bridging.cfg` | four configurations, two saves, eight instants over days of four hours, three zones | passes |
| config | MCConfig, `Config.cfg` | every two changes of two starting documents, all lists of up to three entries, two browsers with two saves; 529 150 states | passes |
| signin | MCSignIn, `SignIn.cfg` | two accounts, passwords, addresses and requests, one suspect remembered; three hosts for two places of the stations' throttle; 168 934 states | passes |
| peering | MCPeering, `Peering.cfg` | two servers, names and secrets, two administrators of the one that offers logins, offers forgotten and expired within two days; 288 249 states | passes |
| links | MCLinks, `Links.cfg` | two addresses, two disturbances (a datagram lost, late or repeated, a restart, a move) at any moment; 269 335 states | passes |
| stations | MCStations, `Stations.cfg` | two key-ups of a repeater, two streams and texts sent to it by two goroutines; two streams to a parrot; two calls and two overs through one chip; two Zello sessions; three bulletins; bursts with one or two bits flipped, texts and aliases disturbed twice; 1 914 668 states | passes |
| p25 | MCP25, `P25.cfg` | two repeaters and a gateway, three frames, one disturbance; two tunnels of one repeater; two calls of four records; 414 980 states | passes |
| p25_ends | MCP25, `P25Ends.cfg` | a repeater that fades, a gateway that talks and one that listens | violates EndsOnlyItsCall |

**What the passing runs show.**

- *eventstream.* Every event a subscription should have had is received,
  queued, on its way or counted (LossIsCounted); the races of the two Closes with
  each other and with publishers never send on a closed channel
  (NoSendOnClosed); publishers get through, laggards are disconnected and
  shutdown ends every stream (NobodyIsHeldUp). On top of that Replay says
  rightly whether it is complete, and a console holds everything before its
  position or was told to resynchronise (LossIsToldOtherwise), except in three
  situations that the history variable `excused` marks: a lag baseline above
  zero, a position from an earlier process, and an event that overtook an
  earlier one between two publishers. They are the code's, and section 5 says
  more.
- *registry.* However many logins were in progress together, at most MaxPeers
  work, the half-open list is within its bound, only answers to challenges sent
  to a host count against it, and who works was announced (BooksAgree); a
  registration is proved from the address it works from by a challenge accepted
  once (ProvedHere); a login for a working station that has not proved itself
  moves nothing (NotKnockedOff); an address can finish its own login whatever
  others do (OwnLoginSurvives).
- *routing.* No destination is sent a second transmission's audio while the
  first is fresh (NoInterleaving); the holder of a destination is the path that
  deduplication carries, and an alert never holds a link (HolderIsEntitled);
  stale reservations are freed (StaleIsFreed).
- *traffic.* A stream whose header came is carried as itself, what a peer has
  in progress the tracker has too, the history is in order and what ended with a
  terminator is on record (CallsAreWhole); what an operator configured and what a
  member asked for is heard and nothing else, and a refused radio is never
  located (HeardAsAsked); calls end without a terminator (SilentCallsEnd); a
  station that is not registered is told so once per interval even when the
  table of the told is full (AnsweredOnce).
- *bridging.* A window is open only within its duration of a reading of its
  start, and always when that reading is unique (ScheduleIsKept): across
  midnight, in the skipped and the repeated hour, east and west. The frame that
  uses an on-demand bridge finds it open, also when it comes between expiry and
  the sweep, and a sweep that finds something to keep open leaves the right table
  (BridgesFollow); outside this property is the moment between the two halves of
  a reload, when the old triggers decide. The last save runs (LastSaveWins).
- *config.* What Validate accepts builds, binds and can be applied, except in the
  five cases `Gap` lists (SavedStartsOtherwise); a permit or a ban means what its
  entries say (ListsMeanWhatTheySay); outside a save every setting is what
  somebody last meant it to be and the file is what runs, through stale pages,
  failed steps and crashes (SavesAreKept); PendingRestart lists exactly what is
  saved and not in force (InForceIsTold).
- *signin.* An address is refused only after enough wrong passwords of its own,
  and has at most its limit and the requests under way checked
  (SignInIsGuarded); a session does not outlive the password it was opened with,
  but for the excepted races (OldPasswordSignedOut). The stations' throttle stays
  bounded, allows MaxFailures answers in a Lockout, and ends a lockout early only
  by a success or when every place is held by a lockout (ThrottleHolds).
- *peering.* A link's password is where it says and what was agreed, an exchange
  of tokens ends, and who was told to be admitted or refused is; and when no
  request about an ID is under way its password is what the last answer said,
  unless that answer was out of date when it was given, because another request
  had written since (AgreementsHold); a restart opens and closes what the Links
  page said it would (RestartDoesAsTold).
- *links.* After any two disturbances the link is connected again and stays so
  (LinksRecover): a lost answer, a salt of another login, a far end that
  restarted, forgot the ID or moved to another address. After Close nothing more
  is handed to a goroutine to write (ClosedIsQuiet).
- *stations.* The DMR side is given a Motorola repeater's transmissions whole, and
  the repeater is sent whole ones while nothing overtakes and no write fails, and
  again from the next transmission that is opened with nothing on its way
  (OversAreWhole); a station is busy exactly while one playback to
  it is not cancelled (PlaybackIsWanted); no answer of the chip is taken for
  another's and no error leaves it held (ChipServesItsHolder), and what waits to
  leave is whole transmissions in order (TransmissionsAreWhole); the Zello
  connector leaves neither a stream nor a radio open behind it, and never keys up
  for a stream whose end it has acted on (ConnectorLetsGo); alerts that wait are
  what the operator asks for now (QueueIsAsked) and none that has an end goes out
  twice (NotTwice). A voice burst with two bits flipped is the speech that was spoken but for
  the bits that no code covers, or is refused for one parity bit (section 5); a
  Link Control, an embedded one, an alias or a text that is damaged on its way is
  read as what was sent or not at all, and what arrives undamaged is read
  (ReadAsSent). The Slot Types of one table row mistranscribed in two bits would
  still pass a round trip; that any two of them differ in seven bits is what shows the
  table.
- *p25.* V24 implements Line (LinesAreWhole); when everybody has stopped talking,
  with or without saying so, every repeater and the gateways have been sent the
  end (CallsAreEnded); records that are held leave no closer together than they
  are spoken, also around a write that fails, and exactly so when no write stalled (EvenlyPaced).

**Why the bounds are enough.** Each bound is one more than the case needs: a
queue of one overflows at the second event, a ring of two turns over at the
third; room for one station with two half-open is the smallest registry in
which two logins pass the same limit; a timeout of one with three instants has
a fresh, a just fresh and a stale case; three frames restart a call and a fourth
continues it; two saves are the least with which one comes while another is
being installed, and two pages the least with which one is stale. Two
disturbances of a link are a loss and what makes it matter (a restart, a move, a
repeated answer). One repeater timeslot is enough for the conversion, because
nothing but the call record is shared between the two, and three frames of a P25
talker begin a call, lose it and come back. Two goroutines that send to a
timeslot (`MaxSends`) are the least of which one overtakes the other, and two
administrators the least of whom one writes behind the other's back.
Weather has an alert, its update and another kind over a sending limit of one; it starts with one choice of settings,
and two saves reach the others. The codes are linear, so which bits are flipped
matters and what was sent hardly does: there are one or two of each kind, an
alias of every length, every single flip, and for voice and control bursts every
two flips up to eight places (`MaxApart`) apart, which is more than the four
places between neighbours of a Golay block. A composed text has one preamble
instead of sixteen. What could hide in larger instances is what the proofs are
for. `CHECK_DEADLOCK FALSE` is set everywhere because clocks and counters are
bounded and because nobody has to publish, log in or key up: the system may
rest.

**Fairness.** Only steps that the code takes by itself are fair. In the event
stream, a handler goroutine and a publisher inside Publish go on (neither waits
on anyone but a write, which has a deadline); publishing, connecting, hanging
up, closing and restarting are not fair. In Routing `Expire` is fair, since the
listener's loop comes round at least every `sweepInterval`; in Traffic the
read's deadline and the sweep after it are, for the same reason. In the links run
the ticker, the reader and the closer go on, a datagram that was not disturbed
arrives, a name is resolved again at its interval, and time passes; logging in
has no fairness of its own, and disturbances have none. In the p25 run the timers
of the two listeners run, what a goroutine has in hand it finishes, and time
passes, which is what makes a fade end; nobody has to speak, and nobody stops a
talker but the bound on frames. In the other runs no clock is fair. Registry,
Bridging, config, signin, peering and stations check safety only.

**Mutants.** Each property of a passing run has a mutant: a small change of one
mapped definition, of a kind a programmer could make (a dropped guard, a missing
reset, a comparison by size), under which TLC finds the property violated. They
stand beside the definitions they replace, marked "Mutant".

## 4. The proofs

TLAPS checks the theorems in eight modules, for every value of the constants
that the named assumptions allow and without the runs' bounds: any number of
peers, streams, saves, failures and instants. Every safety property of a
passing run is a theorem but ReadAsSent; that one and the liveness properties
are named at the end of this section.

| Module | Theorem | States | Assumes |
|---|---|---|---|
| EventBusProofs | TypeCorrect, NothingIsLostUncounted, ChannelsCloseOnce, NeverSendsOnClosed | TypeOK, LossIsCounted, ClosedAtMostOnce, NoSendOnClosed | BusAssumption: finitely many publishers, a ring and queues of at least one |
| | ViewIsCompleteOrTold, StreamsAreCounted, StreamsNeverSendOnClosed | LossIsToldOtherwise, LossIsCounted, NoSendOnClosed, of the bus with its SSE handlers, reconnections and restarts | BusAssumption, StreamAssumption: each connection of a console has its own subscription |
| RegistryProofs | RegistryTypeCorrect, LimitsHold, RegistrationsAreProved, StationsAreNotKnockedOff, BooksAlwaysAgree, LoginsAreTheirOwn | RegistryTypeOK, WithinLimits, ProvedHere, NotKnockedOff, BooksAgree, OwnLoginSurvives | RegistryAssumption, ThrottleAssumption: finitely many IDs and hosts, positive limits, a lockout no longer than the window |
| | TheThrottleHolds | ThrottleHolds, of the throttle on its own (MCThrottle) | ThrottleAssumption |
| RoutingProofs | RoutingTypeCorrect, HoldersAreCarriers, AudioIsNeverInterleaved, HoldersAreEntitled | RoutingTypeOK, HolderIsCarrier, NoInterleaving, HolderIsEntitled | RoutingAssumption: kinds of endpoints are disjoint, calls and tables are well formed, only the server's own calls are local |
| TrafficProofs | CallsStayWhole, PeersHearWhatTheyAsked, StrangersAreAnsweredOnce | CallsAreWhole, HeardAsAsked, AnsweredOnce | TrafficAssumption, CallAssumption, AttachmentAssumption: well-formed frames, positive limits; StreamAssumption: the frames of one stream of a peer name one caller |
| BridgingProofs | TheLastSaveIsInForce, BridgesAreOpenWhenAsked | LastSaveWins, BridgesFollow | BridgingAssumption: well-formed configurations |
| | TheScheduleIsKept | ScheduleIsKept | SchedulerAssumption: a clock changes by less than a day, a window lasts at most half of one |
| | AClosedLinkIsQuiet | ClosedIsQuiet | LinkTimes: positive intervals |
| ConsoleProofs | StoreSafety, SavesAreNeverLost, PendingRestartIsExact | StoreInv, SavesAreKept, InForceIsTold | none: documents are functions from any keys |
| | DocumentsKeepShape, SavedDocumentStarts | that a document stays one; SavedStartsOtherwise | none but the document's shape: any values, any number of entries |
| | AccessListsMeanWhatTheySay | ListsMeanWhatTheySay | MaxIDAssumption: the largest ID is positive |
| | AgreementsAlwaysHold, RestartsDoAsTold | AgreementsHold, RestartDoesAsTold | PeeringAssumption: an offer is not remembered for longer than it is valid, and 0 is no ID |
| | SignInsAreGuarded, OldPasswordsAreSignedOut | SignInIsGuarded, OldPasswordSignedOut | AccountsAssumption: positive limits, finitely many requests, the two ids an installation may begin with |
| StationProofs | PlaybackIsKnown | PlaybackIsWanted | PlaybackAssumption: hotspots are not repeaters |
| | ChipIsNeverStranded, OutboundIsWhole | ChipServesItsHolder, TransmissionsAreWhole | VocoderAssumption |
| | OversStayWhole | OversAreWhole | IpscAssumption: timeslots 1 and 2 |
| | ConnectorAlwaysLetsGo | ConnectorLetsGo | ZelloAssumption: every queue has room for one |
| | QueueFollowsTheOperator, AlertsAreNotRepeated | QueueIsAsked, NotTwice | WeatherAssumption: finitely many bulletins that refer only to earlier ones |
| P25Proofs | V24ImplementsLine | LinesAreWhole: the refinement of Line | FloorAssumption, V24Assumption: names are distinct |
| | PacingIsEven | EvenlyPaced | PacerAssumption: a silence between calls is at least a record and its hold |

**The arguments.** None of the properties is inductive as it stands. The
strengthening is named in each module (`IndInv`, or the component's name and
`Inv`); these are its parts and why they are needed.

- *EventBus*: `Fresh` says a subscription nobody has made yet holds nothing and
  is nobody's target, `Apart` that one whose Close is under way is no longer
  registered and that only a closed bus closes subscriptions, and `Delivering`
  that a publisher with targets left has an event. So a new subscription starts
  with an even account, a delivery moves one event from "on its way" to "queued"
  or "counted", and the sum stays.
- *EventStream*: `StreamInv` adds to the bus which event each slot of the ring
  holds (`RingOK`: the newest, oldest first) and that nothing is under way that
  was not published (`OnlyPublished`). With them what Replay collects, slot by
  slot, is exactly what was published after the position and is still held
  (`ReplayedIs`), and it says so when there is a gap before it. For each console
  it has `HandlerHolds` (its subscription is registered until the handler returns
  or the bus is closed, is nobody else's, and the next ones are unused, which is
  what makes a reconnection a fresh start), `HandlerKnows` (what the handler read
  belongs to the position, and what it is about to write is in order and after
  it), and, unless the console is excused or the bus closed, `Told`: what the
  console lacks comes after its position, and is about to be written, is queued
  or being delivered, or was dropped with the counter past the baseline. `Told`
  has to say that what is not in the replay is newer than all of it: a replay
  that is half written and a live event would otherwise be in either order. A
  restart re-establishes the bus's part and excuses the consoles that had a
  position.
- *Registry*: `ListsFinite` makes cardinalities meaningful; `ChallengesOK` ties
  every salt an entry or a relogin holds to a challenge that was issued to that
  address for that ID and has not been accepted, at most one per address. With it a
  right answer is always a fresh proof from that address, and the counter
  `waiting` steps exactly with the set it counts. `BooksInv` adds that the
  eviction list is within its limit, that a failure held against a host was paid
  for with a challenge of that host, and that who left was told.
- *Throttle*: `ThrottleInv` relates each entry to the failures of that host
  within the last Lockout (`HostOK`): they are no more than the entry counts, a
  run that has reached the limit locks until a Lockout after the last of them,
  and only such a run locks.
- *Routing*: `AudioIsHeld` says that whoever was last heard at a destination
  and is fresh still holds it. Together with HolderIsCarrier it turns
  contention (which looks at `busy`) into a fact about audio (which `heard`
  records).
- *Traffic*: `TrafficInv` has one part for each table: `AttachmentsFit` (each
  attachment against when it was last asked for), `OpensFit` (what a peer has
  open against what it sent), `TrackerFits` (the calls in progress and the
  history), `Followed` (an open call of a peer is the tracker's under the same
  caller), `KeyedFits` (who began a line), `SpokeFits` (who may be located) and
  `AnsweredFits` (who was told, and when). The history that finish and merge of
  bursts leave is in order because each is shown to keep a sequence in order.
- *Bridging*: the newest save is in one of three places, waiting, being
  installed, or in force, and applyPending moves it from one to the next. For
  BridgesFollow the table must also be the one built for what was open then. The
  calendar has no state to speak of: that the look back of two days finds every
  occurrence is arithmetic over days and the one change of the clock.
- *Link*: a closed link is not running, is idle or in a backoff, and a ticker
  that was awake when it was closed finds it at rest. A late refusal does move a
  closed link to a backoff, which is why the invariant cannot say idle.
- *ConfigStore*: a save sets exactly what its author meant (`SaveIsMeant`); the
  file is what was last meant in every state, and the process works from it but
  between the write and the end of the same save (`FileIsMeant`); each setting in
  force is what the process started with, was last told, or was saved since
  (`InForceIs`).
- *Settings*: `Shape` says what a document is (its sections and lists, a list of
  endpoints in each bridge, two numbers in each entry of an access list) and
  nothing of the values. Every edit keeps it, and from it the property follows
  without history: each section that Validate accepts is shown to be one that
  `build` takes, that no two sockets of an accepted document are the same, and
  that a name that was checked is found. SettingsSpec starts from any such document;
  `FirstDocuments` shows that the ones the run starts from are among them.
- *Access*: `CanBeSorted` (a sequence can be put in order, so the choice that
  models sort.Slice has something to choose), `MergedTo` (after the first n spans
  the merged list is in order, has gaps between its members and covers what those
  n cover), and `NamesIs` (the bisection ends at the only member that could hold
  the ID). Adjacent spans are joined by adding 1, which would be 0 past the
  largest ID: there every later span begins within the last one, so the sum is
  not needed.
- *Peering*: `LinksAreOwn` (a link names a password file that is its own and
  exists), `RepliesAnswer` (a reply answers an offer and is itself not
  answered) and `AnswersAreSo`, which holds of each server on its own (`DeskOK`):
  what a request under way may assume where it is (`AskingOK`: what its answer
  will say of the list is so now, its secret is in the file unless another
  request wrote there after it, and whoever changes the list has the lock); that
  at most one has the lock; and what was said of each ID, of the list until a
  request that changes it is under way (`ListOK`), of the password until any is
  (`KeyOK`). It takes the list, the passwords, the requests and the answers as
  arguments, so that each step is shown to lead from one such desk to another.
- *Accounts*: `PasswordsAreKnown` (every password an account or a request holds
  was given), `FailuresAreOwn` (an address's entry counts its own wrong passwords)
  and `GuessesLeft` (once the limit is reached, only what was under way is still
  checked).
- *Playback, Vocoder, Zello*: type invariants with, for each goroutine, what
  it may assume at each place it can be at: who has the chip, whether a burst
  goes out under its header, which stream a release is owed for.
- *Ipsc*: towards the DMR side, which header the converter of each timeslot has
  handed on. Towards the repeater (`SendingInv`), unless something has overtaken
  or been lost, what is on its way chains (`OnTheirWay`): each goroutine's
  messages are what a repeater can follow after those encoded before them
  (`Batch`), and the encoder agrees with the last of them, not with the last that
  was written (`Fits`).
- *Weather*: QueueIsAsked needs only that what is decided is decided under the
  settings in force. For NotTwice `RepeatInv` has five parts: what waits or was
  said was issued (`AllIssued`); an alert is remembered for as long as it lasts
  (`AiringsFit`); what waits, is being said or was said is settled
  (`WhatWasSaidIsSettled`), so that it is not said again (`NotSaidAgain`); and
  what was heard before a restart is settled by the first poll that succeeds, or
  is in force no more (`HeardBeforeIsPast`). A poll judges its bulletins one
  after the other, each by the table the ones before it left: `LaddersExist` and
  `JudgedByItsPast` say what that recursive function computes.
- *P25*: the schedule is free again an interval after the last record left, and
  the next record arrives by then (`ScheduleFollows`).

**The refinement.** V24 with the gateways' floor implements Line under the mapping
of `Lines`: the initial states map to Line's, and each action is shown to be
one of Line's or a stutter. `V24Inv` is what that needs: a tunnel whose
link is up is open (`UpIsOpen`); what a repeater receives is a call that is
carried (`OnACarriedCall`), which is in progress (`CarriedIsInProgress`); and a
talker that has to ask for the floor again is not carried (`AgainIsNotCarried`),
since otherwise its start would reach a repeater in the middle of its own call.

**Induction.** The library's induction theorems take an operator and no
installed prover can instantiate them. `LeastNumber` (in EventBusProofs,
ConsoleProofs, StationProofs and TrafficProofs) is the way round: a set of numbers that is not empty has a least
one, from the library's theorem on well-founded relations, which takes a set. A
claim about every place of a sequence or a chain is then refuted at the least
place where it would fail. No module uses a RECURSIVE operator.

**What failed proofs showed.** Three definitions had overlapping arms of a
CASE, whose value TLA+ leaves open and TLC takes to be the first: they are now
chains of conditions in the code's order (Decide of Weather, Status of Link,
BridgeHealth of OpenBridge). The history variable `keyed` of Traffic counted
bursts of data as speech. Airing of Weather gave an update the record of the
alert it updates, where the code writes one of its own. NotTwice was false
for an alert without an end (section 5). `Sockets` of Settings had a link's
socket taken whether or not DMR is enabled, while `run` opens links only with it:
the property held under the run's bound of two edits and would not be proved,
and three edits separate the two.

**Only model-checked.**

- Liveness: StaleIsFreed, SilentCallsEnd, NobodyIsHeldUp, LinksRecover,
  CallsAreEnded. The prover has neither fairness nor ENABLED.
- ReadAsSent (BurstCodes): the codes are finite tables and divisions of
  polynomials whose distances are facts about the numbers in them. TLC
  evaluates them; a proof would be the same enumeration by a prover that
  is not made for it.

## 5. What the code does that its documents do not say

One of these is a run with its counterexample and a finding with the quotation:

**A repeater's end goes to gateways that are on another call** (p25_ends).
`relay.go` keeps in `toGateways` whose call the gateways are on, and only the
repeater links write it. A repeater fades for longer than the floor is held, a
gateway begins a call that the gateway listener passes on by itself, and the
repeater's next record, or the expiry of its call, sends a terminator to every
gateway in the middle of it. The same comment of `relay.go` (lines 23 to 37) says
that an end goes only to a listener still on that call and counts the gateways as
one listener.

The others were met as counterexamples while the properties were stated, and are
now what the properties except (`excused`, `Gap`, the "Otherwise" in a name):

- *Events.* A restart makes loss silent: the new process numbers from 1, and a
  console with an old, higher position is told nothing and skips what it is sent
  (`server/events.go:208`; ARCHITECTURE.md:257, "Loss is never silent").
- *Registry.* A login that tidies the half-open list drops itself from it
  (`master.go:484`), so it can no longer be pushed out and the limit of
  lines 608 to 610 can be passed.
- *Routing.* Repeat carries audio out of a vocoder to repeaters whose owners have
  not opted in (`core.go:724` against lines 637 and 638).
- *Calls.* A voice call without a terminator is in the history and never in the
  database (`listener.go:1446` against ADR-0033:33).
- *Bridges.* A sweep that finds nothing open compares nothing with nothing and
  keeps the table it has (`listener.go:1185` against lines 1167 and 1168): a
  window that closes between the building of a table and the next sweep stays
  open until something else changes; so does a Motorola key-up between the two
  halves of a reload.
- *Schedules.* East of Greenwich a repeated start is its second reading
  (`scheduler.go:300` against lines 290 to 292 and ADR-0015:54).
- *Settings that are saved and do not start* (`config/startable_test.go`: "A
  configuration that is saved must be one the server starts with"): a homebrew
  link without an identity where the server has none; an upstream's port 0
  (`resolve.go:31`); `usrp_listen` and `usrp_peer` padded with spaces; Zello with
  a database driver that is not registered (`app.go:241`); a P25 socket that
  another listener has, because `Listeners()` leaves it out (`listeners.go:35`).
  Names are folded where they are checked and matched exactly where they are used.
- *History.* The newest version is not always what is running: a version is
  recorded before the file is written, and the write may fail. A restore is posted
  without a base, so it overwrites what was saved since. A process that gave
  itself an identifier at start lists it as waiting for a restart. A choice of
  exactly the five alerts the first Weather page began with is widened by Load.
- *Accounts.* Two administrators who remove each other at once leave none
  (`accounts.go:667-690` against ADR-0056:76). A sign-in that is under way
  survives a change of password, and its UpgradeHash may put the old password
  back; its stale LockedUntil may undo an unlock. Guesses under way together
  exceed the limit by their number. Two requests for the first account both
  succeed.
- *Peering.* An offer that fails removes the password of an earlier one for the
  same ID (`linkoffer.go:180-186`). Issuing and revoking a password take no lock
  (`credentials.go:41`, `85`) and write the file that an offer (`linkoffer.go:168`)
  and a refusal (`linkrefuse.go:114`) write: whoever writes second decides what the
  file has, and the first is still answered the password it wrote. An operator may
  so be given a password that is no longer there, also one just issued that the
  removal after an offer's failed save or a refusal took away. AgreementsHold
  excepts exactly these answers (`stale`). A link that is removed or refused leaves
  its password file, and one whose file another link names as well takes the
  other's with it (the console makes no such pair, which is part of the proof of
  AgreementsHold; a configuration written by hand may).
  The Links page says nothing of an open link that was turned off or changed.
- *Links.* An RPTL that arrives after RPTCL leaves a half-open login; a burst of
  refusals doubles the backoff for each of them.
- *Motorola.* SendVoice and SendVoiceTo encode under the lock and write after it
  (`listener.go:653`, `695-713`, `755-768`), and SendVoice does not heed a slot that
  another stream has (`618-621`): the datagrams of two goroutines may reach the
  repeater in another order than they were encoded, a burst of one transmission
  behind the headers of the next. A write that fails drops the rest of its
  messages (`703-711`) while the encoder has the transmission open, so bursts
  follow without their headers. OversAreWhole says nothing from such a moment
  (`mixed`) to the next transmission that is opened with nothing on its way.
  There is one LastCall for both timeslots, so the call on one hides
  the silence of the other and its converter is not forgotten
  (`bridge.go:352-356`); an over that is only a header is shown; a repeater that
  was removed is kept until PeerTimeout.
- *P25.* A gateway that is dropped keeps the floor for up to a second; a frame
  judged before the sweep is passed on after it.
- *Parrot.* A replay to a repeater is not stopped when the member keys elsewhere; a
  recording that is full is replayed while the member still talks; a text checks
  the timeslot against a state up to a second old.
- *Zello.* A start_stream that timed out and is granted later leaves a stream open
  until the session ends. A key-up that cannot be written leaves the bridge in a
  transmission, so that later packets go out without a key-up and no release
  follows. On shutdown the release may wait 20 s for a reply before the radio is
  let go. The state shown is "connected" from the end of a session to the next
  attempt.
- *Voice bursts.* A frame whose only damage is the parity bit of its first Golay
  block is refused, and the burst of three frames with it
  (`dmrfec/ambe.go:75`), although every one of its parameters was read: the comment
  of lines 62 to 66 has "Both Golay blocks failing to correct cleanly" as the
  signal, and `ipsc.go:83` says that a damaged burst yields what the radio sent.
  A frame with one more error in that block is accepted.
- *Text bursts.* A Rate 3/4 burst whose Slot Type is damaged is decoded as BPTC,
  which takes any 33 octets, and goes to the repeater as a block of twelve octets
  (`ipscbridge/encode.go:671`); the comment of IsRate34 calls a burst whose two
  answers differ "one to refuse". The reader's length and CRC checks refuse it
  there.
- *Weather.* An alert that waits and is reissued is withdrawn, and its reissue is
  held as an update of one already sent, so neither is heard
  (`service.go:519-536`). An alert whose sending failed is not sent again. One
  with neither an end nor an expiry is forgotten a day after it was sent, while
  it may still be in force, so a save may send it again (`service.go:522-527`,
  `585`); that exception of NotTwice was found by the attempt to prove it.

Smaller observations, from counterexamples met while the models were written:

- A configured station that logs in again and closes before RPTC is announced
  as connected and never as gone (`master.go:1035`).
- A second copy of a terminator finds nothing held, counts as opening, and
  holds its destinations until StreamTimeout (`core.go:1132`).
- The lag baseline of a stream is read after the replay was written, so what was
  dropped meanwhile is never told (`server/events.go:191`); and two publishers
  deliver outside the lock, so a console that hangs up between two events that
  came in the wrong order resumes after the later one.
- A save builds new Triggers without the last uses of the old ones, so a bridge
  that is open on demand closes until the next frame of a triggering station:
  a reply from the other side in that gap is not carried, although
  `reload.go:71-73` says nobody is cut off.
- A configuration that removes the last trigger leaves the old Triggers and
  ScheduleState in place, because a nil in a Reload means "leave alone".
- `SetSubscription` re-seeds static attachments and forgets when they were last
  used: taken out of the configuration at the next save, such a talkgroup lapses
  at once although a member is using it.
- `maxUnregisteredTracked` does not bound the table while all its entries are
  fresh (`master.go:268`).
- After an unlink keyup the later frames of the same keyup attach the unlink
  talkgroup.
- A radio that is banned in mid-call may be located again when its hotspot
  restarts the stream under a permitted source and the frames are put back into
  its call.

## 6. What is not modelled, and why

- Audio codecs and resampling are sample arithmetic and a C library; wire formats
  other than the bursts are left to the code's own tests and the models take
  parsed messages. Of the codes, CSBKs that are not preambles, `SplitPacket` and the
  refusals of arguments out of range are left out, and three errors in one Golay
  block, which the table covers by construction.
- I/O at the edges: SQLite, files, sockets, certificates, HTTP rendering, the
  probes. The models have their outcomes (a write that fails, a row that exists)
  where a property needs them.
- Wording and counters: drop reasons, logs, health text, statistics.
- In the modelled components: stream slots and keepalives of the event stream;
  the routing core's offer to the Motorola side and its reasons; the content of
  texts and positions; `Tracker.Seed` and `Prune`;
  `Schedule.Preview`, `Triggers.OpenFor` and `EnabledBridges`; colour codes, P25
  link control and HDLC framing; several chips for several vocoder channels; the
  Zello logon helper, audio and backoff times; the audit records of sign-ins; the
  weather page and SendTest.
- V24 takes a record that is queued for the pacer as written. The queue outlives a
  drop of its link and is discarded by a failed write, which only Pacer models,
  for one tunnel. In Pacer a timer fires at its moment and a record leaves when
  its write begins.
- Health (nothing acts on it), migrations (one transaction each, before anything
  starts), and the order of shutdown.
- Collisions of random salts, and the wall clock stepping back.

## 7. The plan

Left, in this order:

1. **Mesh**: several servers as instances of Routing joined by links, with an
   abstract specification (each listener hears one transmission at a time, once)
   that the composition implements. A link that a bridge names and repeat
   reaches as well is sent two copies of a frame (`core.go:1213`), which meet the
   far side's deduplication there.
2. **Ipsc with both timeslots** and the routing core on its other side; several
   vocoder channels that share chips.
3. The stream slots of the event stream, `Tracker.Seed`, and the order in which
   the program shuts its parts down.
