-------------------------------- MODULE Link --------------------------------
(***************************************************************************)
(* An outgoing link that logs in to a master: the state machine of         *)
(* protocol/homebrew/link.go, the three goroutines upstream/peer.go runs   *)
(* it from (the ticker, the reader and whoever closes it), the network     *)
(* between, and the master at the far end reduced to the one repeater ID   *)
(* the link holds there (peers/master.go; Registry models it whole).       *)
(*                                                                         *)
(* Time passes in ticks of TickInterval.  Every clock is an age, capped    *)
(* where the code stops telling ages apart.  A datagram arrives within the *)
(* tick it was sent in unless a disturbance loses, delays or repeats it;   *)
(* between datagrams of one tick any order is possible.  Disturbances,     *)
(* restarts, moves and frames of traffic share one budget.                 *)
(***************************************************************************)
EXTENDS Integers, Sequences, FiniteSets

CONSTANTS
  Keepalive, Timeout, MinBackoff, MaxBackoff, \* of the link, in ticks
  ResolveInterval,
  LoginTimeout, PeerTimeout,                  \* of the master, in ticks
  Addresses,                                  \* where the far end may be
  MaxDisturbances

ASSUME LinkTimes ==
  /\ Keepalive \in Nat \ {0} /\ Timeout \in Nat \ {0}
  /\ MinBackoff \in Nat \ {0} /\ MaxBackoff \in Nat /\ MinBackoff <= MaxBackoff
  /\ ResolveInterval \in Nat \ {0}

VARIABLES
  link,         \* the homebrew.Link: its state, clocks and backoff
  running,      \* PeerLink.running
  conn,         \* the socket: the address it is dialled to, and if it is open
  resolved,     \* age of the last lookup
  unreachable,  \* a read has failed since the last one that did not
  ticker, reader, closer,  \* where each goroutine is
  out,          \* what each has been handed to write and has not written
  toFar, toUs,  \* datagrams in flight
  far,          \* the master's record of this repeater ID
  here,         \* the address the far end is at
  named,        \* the address the name resolves to
  due,          \* the ticker has a tick to take
  disturbed     \* disturbances so far

clientVars == <<link, running, conn, resolved, unreachable, ticker, reader, closer, out>>
farVars == <<far, here, named>>
linkVars == <<clientVars, toFar, toUs, farVars, due, disturbed>>

NoSalt == 9
NoAddress == "none"
Actors == {"ticker", "reader", "closer"}
Unregistered == [state |-> "none", salt |-> NoSalt, sock |-> NoAddress,
                 age |-> 0, relogin |-> NoSalt]

Older(age, cap) == IF age < cap THEN age + 1 ELSE age
Msg(kind, salt) == [kind |-> kind, salt |-> salt]
Sent(m, at) == [kind |-> m.kind, salt |-> m.salt, at |-> at]

-----------------------------------------------------------------------------
(* homebrew.Link                                                           *)

Enter(l, s) == [l EXCEPT !.state = s, !.since = 0]

login(l) == [Enter(l, "logging-in") EXCEPT !.heard = 0]

(* The delays a retry may be given: the last fifth of the backoff.         *)
Jittered(d) == IF d \div 5 = 0 THEN {d} ELSE (d - (d \div 5) + 1)..d

Doubled(b) == IF b >= MaxBackoff THEN b
              ELSE IF 2 * b > MaxBackoff THEN MaxBackoff ELSE 2 * b

fail(l, wait) ==
  [Enter(l, "backoff") EXCEPT !.retry = wait, !.backoff = Doubled(@)]

(* handleAck: what the link becomes, and what it answers.  Only the login's *)
(* acknowledgement carries anything the link reads.                        *)
handleAck(l, m) ==
  CASE l.state = "logging-in" ->
         <<[Enter(l, "authenticating") EXCEPT !.salt = m.salt], <<Msg("RPTK", m.salt)>>>>
    [] l.state = "authenticating" -> <<Enter(l, "configuring"), <<Msg("RPTC", NoSalt)>>>>
    [] l.state = "configuring" ->
         <<[Enter(l, "connected") EXCEPT !.ping = 0, !.backoff = MinBackoff, !.ever = TRUE], <<>>>>
    [] OTHER -> <<l, <<>>>>

(* Handle: the pairs of link and answer a datagram may lead to.            *)
Handle(l, m) ==
  LET h == [l EXCEPT !.heard = 0] IN
  CASE m.kind = "ACK" -> {handleAck(h, m)}
    [] m.kind \in {"NAK", "MSTCL"} -> {<<fail(h, w), <<>>>> : w \in Jittered(l.backoff)}
    [] OTHER -> {<<h, <<>>>>}    \* a pong, an identity or a frame

(* Mutant: a link that was turned away asks again at the next tick. *)
TickEager(l) ==
  IF l.state = "backoff" THEN {<<login(l), <<Msg("RPTL", NoSalt)>>>>} ELSE {<<l, <<>>>>}

Tick(l) ==
  CASE l.state = "idle" -> {<<l, <<>>>>}
    [] l.state = "backoff" ->
         IF l.retry > 0 THEN {<<l, <<>>>>} ELSE {<<login(l), <<Msg("RPTL", NoSalt)>>>>}
    [] l.state = "connected" ->
         IF l.heard > Timeout THEN {<<fail(l, w), <<>>>> : w \in Jittered(l.backoff)}
         ELSE IF l.ping < Keepalive THEN {<<l, <<>>>>}
         ELSE {<<[l EXCEPT !.ping = 0], <<Msg("RPTPING", NoSalt)>>>>}
    [] OTHER ->
         IF l.since > Timeout THEN {<<fail(l, w), <<>>>> : w \in Jittered(l.backoff)}
         ELSE {<<l, <<>>>>}

CloseLink(l) == IF l.state = "idle" THEN <<l, <<>>>>
                ELSE <<Enter(l, "idle"), <<Msg("RPTCL", NoSalt)>>>>

Passed(l) ==
  [l EXCEPT !.since = Older(@, Timeout + 1), !.heard = Older(@, Timeout + 1),
            !.ping = Older(@, Keepalive), !.retry = IF @ > 0 THEN @ - 1 ELSE 0]

-----------------------------------------------------------------------------
(* PeerLink                                                                *)

(* Start, with a lookup that may fail, and the first login on its way.     *)
LinkInit ==
  /\ link = [state |-> "logging-in", since |-> 0, heard |-> 0, ping |-> 0, retry |-> 0,
             backoff |-> MinBackoff, salt |-> NoSalt, ever |-> FALSE]
  /\ running = TRUE /\ resolved = 0 /\ unreachable = FALSE
  /\ here = (CHOOSE a \in Addresses : TRUE) /\ named = here
  /\ conn \in {[to |-> here, open |-> TRUE], [to |-> NoAddress, open |-> FALSE]}
  /\ ticker = "wait" /\ reader = "read" /\ closer = "none"
  /\ out = [a \in Actors |-> <<>>]
  /\ toFar = IF conn.open THEN {Sent(Msg("RPTL", NoSalt), here)} ELSE {}
  /\ toUs = {}
  /\ far = Unregistered /\ due = FALSE
  /\ disturbed = 0

(* The ticker: is the link running, Tick under the lock, apply, maybeRedial *)
TickerWakes ==
  /\ ticker = "wait" /\ due
  /\ due' = FALSE
  /\ ticker' = IF running THEN "tick" ELSE "done"
  /\ UNCHANGED <<link, running, conn, resolved, unreachable, reader, closer, out,
                 toFar, toUs, farVars, disturbed>>

TickerTicks ==
  /\ ticker = "tick"
  /\ \E r \in Tick(link) : link' = r[1] /\ out' = [out EXCEPT !["ticker"] = r[2]]
  /\ ticker' = "apply"
  /\ UNCHANGED <<running, conn, resolved, unreachable, reader, closer, toFar, toUs,
                 farVars, due, disturbed>>

(* apply: nothing is written without an open socket.                       *)
Write(actor) ==
  /\ out' = [out EXCEPT ![actor] = <<>>]
  /\ toFar' = IF conn.open
                THEN toFar \cup {Sent(out[actor][i], conn.to) : i \in 1..Len(out[actor])}
                ELSE toFar

TickerApplies ==
  /\ ticker = "apply"
  /\ Write("ticker")
  /\ ticker' = "redial"
  /\ UNCHANGED <<link, running, conn, resolved, unreachable, reader, closer, toUs,
                 farVars, due, disturbed>>

(* Mutant: a name that answered once is not asked again. *)
RedialsOnce == resolved >= ResolveInterval /\ conn.to = NoAddress

(* A link that is connected keeps the socket it has: a name that is asked  *)
(* again while it works can only replace it by one the master never met.   *)
Redials == /\ resolved >= ResolveInterval
           /\ ~(conn.to # NoAddress /\ link.state = "connected")

TickerKeeps ==
  /\ ticker = "redial" /\ ~Redials
  /\ ticker' = "wait"
  /\ UNCHANGED <<link, running, conn, resolved, unreachable, reader, closer, out,
                 toFar, toUs, farVars, due, disturbed>>

(* redial: the socket is replaced when the address is another one.         *)
TickerRedials ==
  /\ ticker = "redial" /\ Redials
  /\ resolved' = 0
  /\ conn' = IF conn.to = named THEN conn ELSE [to |-> named, open |-> TRUE]
  /\ ticker' = "wait"
  /\ UNCHANGED <<link, running, unreachable, reader, closer, out, toFar, toUs,
                 farVars, due, disturbed>>

LookupFails ==
  /\ ticker = "redial" /\ Redials
  /\ disturbed < MaxDisturbances /\ disturbed' = disturbed + 1
  /\ resolved' = 0
  /\ ticker' = "wait"
  /\ UNCHANGED <<link, running, conn, unreachable, reader, closer, out, toFar, toUs,
                 farVars, due>>

(* The reader: a datagram for the socket that is current, Handle, apply.   *)
Read(m, again) ==
  /\ reader = "read"
  /\ m \in toUs
  /\ toUs' = IF again THEN toUs ELSE toUs \ {m}
  /\ disturbed' = disturbed + (IF again THEN 1 ELSE 0)
  /\ disturbed' <= MaxDisturbances
  /\ IF conn.open /\ m.at = conn.to
       THEN /\ \E r \in Handle(link, m) :
                 link' = r[1] /\ out' = [out EXCEPT !["reader"] = r[2]]
            /\ unreachable' = FALSE
            /\ reader' = "apply"
       ELSE UNCHANGED <<link, out, unreachable, reader>>
  /\ UNCHANGED <<running, conn, resolved, ticker, closer, toFar, farVars, due>>

ReaderApplies ==
  /\ reader = "apply"
  /\ Write("reader")
  /\ reader' = "read"
  /\ UNCHANGED <<link, running, conn, resolved, unreachable, ticker, closer, toUs,
                 farVars, due, disturbed>>

(* Close, from a shutdown: the flag, the state machine, the goodbye and    *)
(* the socket.                                                             *)
CloseBegins ==
  /\ closer = "none" /\ running
  /\ running' = FALSE /\ closer' = "link"
  /\ UNCHANGED <<link, conn, resolved, unreachable, ticker, reader, out, toFar, toUs,
                 farVars, due, disturbed>>

CloseLinks ==
  /\ closer = "link"
  /\ link' = CloseLink(link)[1]
  /\ out' = [out EXCEPT !["closer"] = CloseLink(link)[2]]
  /\ closer' = "apply"
  /\ UNCHANGED <<running, conn, resolved, unreachable, ticker, reader, toFar, toUs,
                 farVars, due, disturbed>>

CloseApplies ==
  /\ closer = "apply"
  /\ Write("closer")
  /\ closer' = "socket"
  /\ UNCHANGED <<link, running, conn, resolved, unreachable, ticker, reader, toUs,
                 farVars, due, disturbed>>

CloseSocket ==
  /\ closer = "socket"
  /\ conn' = [conn EXCEPT !.open = FALSE]
  /\ closer' = "done"
  /\ UNCHANGED <<link, running, resolved, unreachable, ticker, reader, out, toFar, toUs,
                 farVars, due, disturbed>>

(* Send, a frame of traffic from the router.                               *)
Send ==
  /\ disturbed < MaxDisturbances /\ disturbed' = disturbed + 1
  /\ running /\ link.state = "connected" /\ conn.open
  /\ toFar' = toFar \cup {Sent(Msg("DMRD", NoSalt), conn.to)}
  /\ UNCHANGED <<clientVars, toUs, farVars, due>>

-----------------------------------------------------------------------------
(* The master, for this one repeater ID.  A socket is named by the address *)
(* it was dialled to: replacing it is what changes where the link is seen. *)

Answer(kind, salt, m) == {[kind |-> kind, salt |-> salt, at |-> m.at]}
Fresh == CHOOSE s \in 0..2 : s \notin {far.salt, far.relogin}

FarLogin(m) ==
  /\ toUs' = toUs \cup Answer("ACK", Fresh, m)
  /\ far' = IF far.state = "none" \/ (far.state = "challenged" /\ far.sock = m.at)
              THEN [Unregistered EXCEPT !.state = "challenged", !.salt = Fresh, !.sock = m.at]
              ELSE [far EXCEPT !.relogin = Fresh]

Authenticated(m) == [Unregistered EXCEPT !.state = "authenticated", !.sock = m.at]

FarKey(m) ==
  CASE far.state = "challenged" /\ far.sock = m.at ->
         IF m.salt = far.salt
           THEN far' = Authenticated(m) /\ toUs' = toUs \cup Answer("ACK", NoSalt, m)
           ELSE far' = Unregistered /\ toUs' = toUs \cup Answer("NAK", NoSalt, m)
    [] far.state # "none" /\ ~(far.state = "challenged" /\ far.sock = m.at)
         /\ far.relogin # NoSalt ->
         IF m.salt = far.relogin
           THEN far' = Authenticated(m) /\ toUs' = toUs \cup Answer("ACK", NoSalt, m)
           ELSE far' = [far EXCEPT !.relogin = NoSalt]
                /\ toUs' = toUs \cup Answer("NAK", NoSalt, m)
    [] OTHER -> UNCHANGED <<far, toUs>>

FarConfig(m) ==
  IF far.state \in {"authenticated", "configured"} /\ far.sock = m.at
    THEN /\ far' = [far EXCEPT !.state = "configured", !.age = 0]
         /\ toUs' = toUs \cup Answer("ACK", NoSalt, m)
    ELSE UNCHANGED <<far, toUs>>

FarPing(m) ==
  IF far.state = "configured" /\ far.sock = m.at
    THEN far' = [far EXCEPT !.age = 0] /\ toUs' = toUs \cup Answer("MSTPONG", NoSalt, m)
    ELSE /\ UNCHANGED far
         /\ toUs' = toUs \cup (IF far.state \in {"none", "configured"}
                                 THEN Answer("NAK", NoSalt, m) ELSE {})

FarClose(m) == /\ far' = IF far.sock = m.at THEN Unregistered ELSE far
               /\ UNCHANGED toUs

FarData(m) ==
  /\ far' = IF far.state = "configured" /\ far.sock = m.at THEN [far EXCEPT !.age = 0] ELSE far
  /\ UNCHANGED toUs

FarReads(m, again) ==
  /\ m \in toFar
  /\ toFar' = IF again THEN toFar ELSE toFar \ {m}
  /\ disturbed' = disturbed + (IF again THEN 1 ELSE 0)
  /\ disturbed' <= MaxDisturbances
  /\ m.at = here
  /\ CASE m.kind = "RPTL" -> FarLogin(m)
       [] m.kind = "RPTK" -> FarKey(m)
       [] m.kind = "RPTC" -> FarConfig(m)
       [] m.kind = "RPTPING" -> FarPing(m)
       [] m.kind = "RPTCL" -> FarClose(m)
       [] OTHER -> FarData(m)
  /\ UNCHANGED <<clientVars, here, named, due>>

(* A datagram to an address the far end has left, with the refusal that    *)
(* may come back and fail a read.                                          *)
Missed(m) ==
  /\ m \in toFar /\ m.at # here
  /\ toFar' = toFar \ {m}
  /\ unreachable' \in {unreachable, conn.open /\ m.at = conn.to}
  /\ UNCHANGED <<link, running, conn, resolved, ticker, reader, closer, out, toUs,
                 farVars, due, disturbed>>

Disturbs == disturbed < MaxDisturbances /\ disturbed' = disturbed + 1

Loses ==
  /\ Disturbs
  /\ \/ \E m \in toFar : toFar' = toFar \ {m} /\ UNCHANGED toUs
     \/ \E m \in toUs : toUs' = toUs \ {m} /\ UNCHANGED toFar
  /\ UNCHANGED <<clientVars, farVars, due>>

(* The far end restarts, and may come back at another address, which the   *)
(* name follows some time later.                                           *)
FarRestarts ==
  /\ Disturbs
  /\ far' = Unregistered
  /\ here' \in Addresses
  /\ UNCHANGED <<clientVars, toFar, toUs, named, due>>

FarSpeaks ==
  /\ Disturbs
  /\ far.state = "configured"
  /\ \E kind \in {"DMRD", "MSTCL"} :
       toUs' = toUs \cup {[kind |-> kind, salt |-> NoSalt, at |-> far.sock]}
  /\ UNCHANGED <<clientVars, toFar, farVars, due>>

NameFollows ==
  /\ named # here /\ named' = here
  /\ UNCHANGED <<clientVars, toFar, toUs, far, here, due, disturbed>>

(* A tick.  What is in flight outlasts it only as a disturbance.           *)
FarExpires ==
  LET limit == IF far.state = "challenged" THEN LoginTimeout ELSE PeerTimeout
  IN  IF far.state # "none" /\ far.age >= limit THEN Unregistered
      ELSE [far EXCEPT !.age = IF far.state = "none" THEN 0 ELSE @ + 1]

Pass ==
  /\ ~due /\ ticker \in {"wait", "done"} /\ reader = "read" /\ closer \in {"none", "done"}
  /\ IF toFar = {} /\ toUs = {} THEN UNCHANGED disturbed ELSE Disturbs
  /\ link' = Passed(link)
  /\ resolved' = Older(resolved, ResolveInterval)
  /\ far' = FarExpires
  /\ due' = (ticker # "done")
  /\ UNCHANGED <<running, conn, unreachable, ticker, reader, closer, out, toFar, toUs,
                 here, named>>

-----------------------------------------------------------------------------
Delivers ==
  \/ \E m \in toUs : Read(m, FALSE)
  \/ \E m \in toFar : FarReads(m, FALSE) \/ Missed(m)
TickerMoves == \/ TickerWakes \/ TickerTicks \/ TickerApplies \/ TickerKeeps \/ TickerRedials
CloserMoves == CloseLinks \/ CloseApplies \/ CloseSocket

LinkNext ==
  \/ Delivers
  \/ \E m \in toUs : Read(m, TRUE)
  \/ \E m \in toFar : FarReads(m, TRUE)
  \/ TickerMoves \/ LookupFails
  \/ ReaderApplies
  \/ CloseBegins \/ CloserMoves
  \/ Send \/ Loses \/ FarRestarts \/ FarSpeaks \/ NameFollows
  \/ Pass

(* The goroutines are scheduled, the network delivers what it does not     *)
(* lose, time goes on, and a name is corrected in the end.                 *)
LinkFairness ==
  /\ WF_linkVars(Delivers) /\ WF_linkVars(TickerMoves) /\ WF_linkVars(ReaderApplies)
  /\ WF_linkVars(CloserMoves) /\ WF_linkVars(NameFollows) /\ WF_linkVars(Pass)

LinkSpec == LinkInit /\ [][LinkNext]_linkVars /\ LinkFairness

-----------------------------------------------------------------------------
(* PeerLink.Status and HealthCheck.Check, of a link that relays.           *)
Status ==
  IF ~running THEN "closed"
  ELSE IF unreachable /\ link.state # "connected" THEN "unreachable"
  ELSE IF link.state = "connected" THEN "connected"
  ELSE IF ~link.ever THEN "never" ELSE "disconnected"
Check == CASE Status = "closed" -> "unavailable"
           [] Status = "connected" -> "healthy"
           [] OTHER -> "degraded"

(* A link that is left to run is in the end connected for good, known to   *)
(* the far end at the socket it uses, and reported healthy: whatever was   *)
(* lost, repeated or late, however often the far end restarted or moved,   *)
(* and although an acknowledgement says nothing of what it acknowledges,   *)
(* so that a repeated one leads the link to states the far end never       *)
(* agreed to (link.go, handleAck).                                         *)
LinkRecovers ==
  <>[](/\ link.state = "connected" /\ far.state = "configured"
       /\ far.sock = conn.to /\ conn.to = here /\ Check = "healthy")
  \/ <>[](~running)

(* Once Close has put the state machine to rest, no goroutine is handed    *)
(* anything more to write: not a ticker that had found the link running    *)
(* before, nor a reader whom a late answer reaches (peer.go, Close; the    *)
(* far end would keep a registration nobody holds).                        *)
ClosedIsQuiet ==
  [][(closer \in {"apply", "socket", "done"}) =>
       \A a \in Actors : out'[a] = out[a] \/ out'[a] = <<>>]_linkVars
=============================================================================
