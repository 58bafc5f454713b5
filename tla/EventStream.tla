----------------------------- MODULE EventStream -----------------------------
(***************************************************************************)
(* The live view: GET /api/events (internal/server/events.go) over the bus *)
(* of EventBus, with the consoles that read it and reconnect with the last *)
(* id they were sent.  Handlers, publishers and the shutdown interleave at *)
(* the granularity of EventBus; one write to the client is one step, and a *)
(* client has what was written to it.                                      *)
(***************************************************************************)
EXTENDS EventBus

CONSTANTS Clients,          \* consoles
          MaxConns,         \* bound: streams a client opens per process
          MaxRestarts       \* bound: restarts of the process

None == -1   \* no Last-Event-ID

(* A client's n-th Subscription.  The cfg sets Subs to all of these.       *)
AllSubs == Clients \X (1..MaxConns)

ASSUME StreamAssumption ==
  /\ Subs = AllSubs
  /\ MaxConns \in Nat /\ MaxRestarts \in Nat

VARIABLES
  pc,        \* where handleEvents is for a client; "away" is not running
  conn,      \* streams the client has opened
  position,  \* console.js lastEventId: the id last received
  since,     \* handleEvents' since, None when hasSince is false
  toWrite,   \* handleEvents' replay, what is left of it
  baseline,  \* handleEvents' lagBaseline
  restarts,  \* processes that have ended
  owed,      \* history variable: what the client's view is missing
  excused    \* history variable: the client meets one of the three known gaps,
             \* a lagBaseline above zero, a position from an earlier process,
             \* or an event that overtook one published before it

streamVars == <<pc, conn, position, since, toWrite, baseline, restarts,
                owed, excused>>
vars == <<busVars, streamVars>>

Sub(c) == <<c, conn[c]>>

(* A console starts without a position; 0 is one that asks for all events. *)
StreamInit ==
  /\ Init
  /\ pc = [c \in Clients |-> "away"]
  /\ conn = [c \in Clients |-> 0]
  /\ position \in [Clients -> {None, 0}]
  /\ since = [c \in Clients |-> None]
  /\ toWrite = [c \in Clients |-> <<>>]
  /\ baseline = [c \in Clients |-> 0]
  /\ restarts = 0
  /\ owed = [c \in Clients |-> {}]
  /\ excused = [c \in Clients |-> FALSE]

-----------------------------------------------------------------------------
Elements(q) == {q[i] : i \in DOMAIN q}

(* What is still on its way to a client: in the replay, in its queue, or   *)
(* with a publisher that has chosen it as a target.                        *)
OnItsWay(c) ==
  Elements(toWrite[c]) \cup Elements(ch[Sub(c)])
    \cup {pub[p].ev : p \in {q \in Publishers : Sub(c) \in pub[q].targets}}

(* An event the client still lacks was overtaken by ev: its publisher is   *)
(* slower than the one of ev, and it is on its way behind it.              *)
Overtaken(c, ev) == \E e \in owed[c] \cap OnItsWay(c) : e < ev

(* writeEvent and writeResync, as the client sees them.                    *)
WriteEvent(c, ev) ==
  /\ position' = [position EXCEPT ![c] = ev]
  /\ owed' = [owed EXCEPT ![c] = @ \ {ev}]
  /\ excused' = [excused EXCEPT ![c] = @ \/ Overtaken(c, ev)]

WriteResync(c) ==
  /\ owed' = [owed EXCEPT ![c] = {}]
  /\ excused' = [excused EXCEPT ![c] = FALSE]
  /\ UNCHANGED position

WriteNothing == UNCHANGED <<position, owed, excused>>

(* handleEvents up to Subscribe, for a request that got a stream slot.     *)
Connect(c) ==
  /\ pc[c] = "away"
  /\ conn[c] < MaxConns
  /\ Subscribe(<<c, conn[c] + 1>>)
  /\ conn' = [conn EXCEPT ![c] = @ + 1]
  /\ since' = [since EXCEPT ![c] = position[c]]
  /\ pc' = [pc EXCEPT ![c] = "subscribed"]
  /\ WriteNothing
  /\ UNCHANGED <<toWrite, baseline, restarts>>

(* Mutant: the second result of Bus.Replay is not looked at.               *)
ReplayUntold(c) ==
  /\ pc[c] = "subscribed"
  /\ pc' = [pc EXCEPT ![c] = "replaying"]
  /\ \/ /\ since[c] = None
        /\ WriteResync(c)
        /\ UNCHANGED toWrite
     \/ /\ since[c] # None
        /\ toWrite' = [toWrite EXCEPT ![c] = Replayed(since[c])]
        /\ WriteNothing
  /\ UNCHANGED <<busVars, conn, since, baseline, restarts>>

(* handleEvents' Replay, and the resync that may come before it.           *)
Replay(c) ==
  /\ pc[c] = "subscribed"
  /\ pc' = [pc EXCEPT ![c] = "replaying"]
  /\ \/ /\ since[c] = None
        /\ WriteResync(c)
        /\ UNCHANGED toWrite
     \/ /\ since[c] # None
        /\ toWrite' = [toWrite EXCEPT ![c] = Replayed(since[c])]
        /\ IF Complete(since[c]) THEN WriteNothing ELSE WriteResync(c)
  /\ UNCHANGED <<busVars, conn, since, baseline, restarts>>

WriteReplayed(c) ==
  /\ pc[c] = "replaying"
  /\ toWrite[c] # <<>>
  /\ WriteEvent(c, Head(toWrite[c]))
  /\ toWrite' = [toWrite EXCEPT ![c] = Tail(@)]
  /\ UNCHANGED <<busVars, pc, conn, since, baseline, restarts>>

(* The first flush, and lagBaseline.                                       *)
Flush(c) ==
  /\ pc[c] = "replaying"
  /\ toWrite[c] = <<>>
  /\ pc' = [pc EXCEPT ![c] = "live"]
  /\ baseline' = [baseline EXCEPT ![c] = lagged[Sub(c)]]
  /\ excused' = [excused EXCEPT ![c] = @ \/ lagged[Sub(c)] > 0]
  /\ UNCHANGED <<busVars, conn, position, since, toWrite, restarts, owed>>

(* One event from the channel: skipped when the client had it before it    *)
(* connected, the end of the stream when events were dropped, written      *)
(* otherwise.                                                              *)
Live(c) ==
  LET ev   == Head(ch[Sub(c)])
      skip == since[c] # None /\ ev <= since[c]
      behind == lagged[Sub(c)] # baseline[c]
  IN  /\ pc[c] = "live"
      /\ Receive(Sub(c))
      /\ \/ /\ skip
            /\ WriteNothing
            /\ UNCHANGED pc
         \/ /\ ~skip /\ behind
            /\ WriteResync(c)
            /\ pc' = [pc EXCEPT ![c] = "returning"]
         \/ /\ ~skip /\ ~behind
            /\ WriteEvent(c, ev)
            /\ UNCHANGED pc
      /\ UNCHANGED <<conn, since, toWrite, baseline, restarts>>

(* The channel is closed and drained: the bus is shutting down.            *)
ChannelClosed(c) ==
  /\ pc[c] = "live"
  /\ ch[Sub(c)] = <<>>
  /\ state[Sub(c)] = "closed"
  /\ WriteResync(c)
  /\ pc' = [pc EXCEPT ![c] = "returning"]
  /\ UNCHANGED <<busVars, conn, since, toWrite, baseline, restarts>>

(* The request's context ends, or a write fails.                           *)
HangUp(c) ==
  /\ \/ pc[c] = "live"
     \/ pc[c] = "replaying" /\ toWrite[c] # <<>>
  /\ pc' = [pc EXCEPT ![c] = "returning"]
  /\ toWrite' = [toWrite EXCEPT ![c] = <<>>]
  /\ UNCHANGED <<busVars, conn, position, since, baseline, restarts, owed,
                 excused>>

(* The deferred sub.Close.                                                 *)
Leave(c) ==
  /\ pc[c] = "returning"
  /\ Unregister(Sub(c))
  /\ pc' = [pc EXCEPT ![c] = "closing"]
  /\ UNCHANGED <<conn, position, since, toWrite, baseline, restarts, owed,
                 excused>>

Left(c) ==
  /\ pc[c] = "closing"
  /\ Shutdown(Sub(c))
  /\ pc' = [pc EXCEPT ![c] = "away"]
  /\ since' = [since EXCEPT ![c] = None]
  /\ baseline' = [baseline EXCEPT ![c] = 0]
  /\ UNCHANGED <<conn, position, toWrite, restarts, owed, excused>>

StreamPublish(p) ==
  /\ Publish(p)
  /\ owed' = [c \in Clients |-> owed[c] \cup {seq + 1}]
  /\ UNCHANGED <<pc, conn, position, since, toWrite, baseline, restarts,
                 excused>>

(* The process ends, at any point, and another starts: a new bus, no       *)
(* streams, and consoles that still know where they were.                  *)
Restart ==
  /\ restarts < MaxRestarts
  /\ restarts' = restarts + 1
  /\ seq' = 0 /\ closed' = FALSE /\ subscribers' = {}
  /\ history' = [i \in DOMAIN history |-> 0] /\ historyNext' = 0 /\ historyLen' = 0
  /\ pub' = [p \in Publishers |-> Idle] /\ closing' = {} /\ leaving' = {}
  /\ ch' = [s \in Subs |-> <<>>] /\ state' = [s \in Subs |-> "new"]
  /\ lagged' = [s \in Subs |-> 0] /\ joined' = [s \in Subs |-> 0]
  /\ received' = [s \in Subs |-> 0] /\ closes' = [s \in Subs |-> 0]
  /\ pc' = [c \in Clients |-> "away"] /\ conn' = [c \in Clients |-> 0]
  /\ since' = [c \in Clients |-> None] /\ toWrite' = [c \in Clients |-> <<>>]
  /\ baseline' = [c \in Clients |-> 0]
  /\ owed' = [c \in Clients |-> {}]
  /\ excused' = [c \in Clients |-> position[c] # None]
  /\ UNCHANGED position

Bus ==
  /\ \/ \E p \in Publishers : \E s \in pub[p].targets : Deliver(p, s)
     \/ Close
     \/ \E s \in closing : CloseOne(s)
  /\ UNCHANGED streamVars

Handler(c) ==
  \/ Replay(c) \/ WriteReplayed(c) \/ Flush(c) \/ Live(c)
  \/ ChannelClosed(c) \/ Leave(c) \/ Left(c)

StreamNext ==
  \/ \E p \in Publishers : StreamPublish(p)
  \/ Bus
  \/ \E c \in Clients : Connect(c) \/ Handler(c) \/ HangUp(c)
  \/ Restart

StreamSpec == StreamInit /\ [][StreamNext]_vars

(* A handler and a publisher are goroutines the runtime keeps running; the *)
(* write deadline ends a write that a client never reads.  Nobody has to   *)
(* publish, connect, hang up or stop.                                      *)
StreamFairness ==
  /\ \A c \in Clients : WF_vars(Handler(c))
  /\ WF_vars(Bus /\ ~Close)

StreamFairSpec == StreamSpec /\ StreamFairness

-----------------------------------------------------------------------------
(* Every local of handleEvents, and a console's position, has its type.    *)
StreamTypeOK ==
  /\ pc \in [Clients -> {"away", "subscribed", "replaying", "live", "returning",
                         "closing"}]
  /\ conn \in [Clients -> 0..MaxConns]
  /\ position \in [Clients -> None..MaxSeq]
  /\ since \in [Clients -> None..MaxSeq]
  /\ toWrite \in [Clients -> Seq(1..MaxSeq)]
  /\ baseline \in [Clients -> 0..MaxSeq]
  /\ restarts \in 0..MaxRestarts
  /\ owed \in [Clients -> SUBSET (1..MaxSeq)]
  /\ excused \in [Clients -> BOOLEAN]

Streaming(c) == pc[c] \in {"replaying", "live"}

(* "The stream is designed so a client can always tell whether its view is *)
(* complete" (server/events.go): an event that a streaming client lacks is *)
(* on its way, or the handler will notice the drop, or the closed bus, and *)
(* send a resync.                                                          *)
ViewComplete(c) ==
  \/ ~Streaming(c)
  \/ owed[c] \subseteq OnItsWay(c)
  \/ lagged[Sub(c)] # baseline[c]
  \/ closed

(* The same for a client that is not connected: the position it will come  *)
(* back with does not claim an event it was never sent.  A closed bus sends *)
(* a resync to whoever comes back.                                         *)
PositionHonest(c) ==
  \/ closed
  \/ pc[c] \in {"replaying", "live"}
  \/ position[c] = None
  \/ \A ev \in owed[c] : ev > position[c]

(* "Loss is never silent" (ARCHITECTURE.md, section 5); and it is silent   *)
(* at most where the lag of the replay was taken into lagBaseline, where   *)
(* the position is from before a restart, or where two publishers          *)
(* delivered in the other order and the client hung up between, and then   *)
(* only until the next resync: across every other interleaving of          *)
(* publishing, replaying, hanging up and coming back, a client that lacks  *)
(* an event is going to get it or be told.                                 *)
LossIsToldOtherwise ==
  /\ StreamTypeOK /\ ReplayIsHonest
  /\ \A c \in Clients : excused[c] \/ (ViewComplete(c) /\ PositionHonest(c))

(* A stream that fell behind is disconnected: "a client that falls behind  *)
(* mid-stream is disconnected with a resync event" (server/events.go).     *)
LaggardIsDisconnected ==
  \A c \in Clients :
    (pc[c] = "live" /\ lagged[Sub(c)] # baseline[c] /\ ~excused[c])
      ~> (pc[c] # "live")

(* Closing the bus ends every stream and gives its slot back, including    *)
(* one opened while the bus was closing.                                   *)
ShutdownEndsStreams ==
  \A c \in Clients : (closed /\ pc[c] # "away") ~> (pc[c] = "away")

(* Nobody waits for a slow browser, and no browser holds up the process:   *)
(* a publisher returns, a laggard is disconnected, and a bus that closes   *)
(* ends every stream.                                                      *)
NobodyIsHeldUp == PublishReturns /\ LaggardIsDisconnected /\ ShutdownEndsStreams
=============================================================================
