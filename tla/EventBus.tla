------------------------------ MODULE EventBus ------------------------------
(***************************************************************************)
(* The in-process publish/subscribe hub of internal/events: a Bus with a   *)
(* ring of recent events, and Subscriptions with a bounded queue each.     *)
(*                                                                         *)
(* A goroutine holds Bus.mu or Subscription.mu across each step modelled   *)
(* here, and nothing in between: Publish records an event and chooses its  *)
(* targets under Bus.mu (Publish), then delivers to them one at a time     *)
(* under each target's own lock (Deliver), so the deliveries of two        *)
(* publishers, and a Close, interleave.  An event is its sequence number.  *)
(* A Subscription is a Go pointer: a member of Subs is never used twice.   *)
(***************************************************************************)
EXTENDS Integers, Sequences, FiniteSets

CONSTANTS Publishers,        \* goroutines that call Bus.Publish
          Subs,              \* every Subscription that is ever allocated
          HistorySize,       \* Options.HistorySize
          SubscriberBuffer,  \* Options.SubscriberBuffer
          MaxSeq             \* bound: events published in a behaviour

ASSUME BusAssumption ==
  /\ IsFiniteSet(Publishers)
  /\ HistorySize \in Nat \ {0}
  /\ SubscriberBuffer \in Nat \ {0}
  /\ MaxSeq \in Nat

VARIABLES
  seq,          \* Bus.seq
  closed,       \* Bus.closed
  subscribers,  \* Bus.subscribers
  history,      \* Bus.history, slots 0 .. HistorySize-1; 0 is an empty slot
  historyNext,  \* Bus.historyNext
  historyLen,   \* Bus.historyLen
  pub,          \* the event each publisher is delivering, and to whom still
  closing,      \* subscriptions Bus.Close has still to shut down
  leaving,      \* subscriptions whose own Close is between its two locks
  ch,           \* Subscription.ch: events queued
  state,        \* "new", "open", or "closed" (Subscription.closed)
  lagged,       \* Subscription.lagged
  joined,       \* the sequence number Subscribe returned
  received,     \* history variable: events taken from the queue
  closes        \* history variable: how often close(ch) was executed

ringVars == <<history, historyNext, historyLen>>
subVars  == <<ch, state, lagged, joined, received, closes>>
busVars  == <<seq, closed, subscribers, ringVars, pub, closing, leaving, subVars>>

Idle == [ev |-> 0, targets |-> {}]

Init ==
  /\ seq = 0 /\ closed = FALSE /\ subscribers = {}
  /\ history = [i \in 0..(HistorySize - 1) |-> 0]
  /\ historyNext = 0 /\ historyLen = 0
  /\ pub = [p \in Publishers |-> Idle]
  /\ closing = {} /\ leaving = {}
  /\ ch = [s \in Subs |-> <<>>]
  /\ state = [s \in Subs |-> "new"]
  /\ lagged = [s \in Subs |-> 0]
  /\ joined = [s \in Subs |-> 0]
  /\ received = [s \in Subs |-> 0]
  /\ closes = [s \in Subs |-> 0]

-----------------------------------------------------------------------------
(* Publish, up to the release of Bus.mu.  A closed bus refuses the event.  *)
Publish(p) ==
  /\ pub[p] = Idle
  /\ ~closed
  /\ seq < MaxSeq
  /\ seq' = seq + 1
  /\ history' = [history EXCEPT ![historyNext] = seq + 1]
  /\ historyNext' = (historyNext + 1) % HistorySize
  /\ historyLen' = IF historyLen < HistorySize THEN historyLen + 1 ELSE historyLen
  /\ pub' = [pub EXCEPT ![p] = IF subscribers = {} THEN Idle
                               ELSE [ev |-> seq + 1, targets |-> subscribers]]
  /\ UNCHANGED <<closed, subscribers, closing, leaving, subVars>>

(* Publish's delivery loop: the targets still to go once s is served.      *)
Served(p, s) ==
  LET rest == pub[p].targets \ {s}
  IN  [pub EXCEPT ![p] = IF rest = {} THEN Idle
                       ELSE [ev |-> pub[p].ev, targets |-> rest]]

(* Mutant: the dropped event is not counted.                               *)
DeliverUncounted(p, s) ==
  /\ s \in pub[p].targets
  /\ pub' = Served(p, s)
  /\ ch' = IF state[s] # "closed" /\ Len(ch[s]) < SubscriberBuffer
           THEN [ch EXCEPT ![s] = Append(@, pub[p].ev)] ELSE ch
  /\ UNCHANGED lagged
  /\ UNCHANGED <<seq, closed, subscribers, ringVars, closing, leaving, state,
                 joined, received, closes>>

(* Mutant: the closed flag is not looked at under the subscription's lock. *)
DeliverUnchecked(p, s) ==
  /\ s \in pub[p].targets
  /\ pub' = Served(p, s)
  /\ ch' = [ch EXCEPT ![s] = Append(@, pub[p].ev)]
  /\ UNCHANGED lagged
  /\ UNCHANGED <<seq, closed, subscribers, ringVars, closing, leaving, state,
                 joined, received, closes>>

(* Mutant: the send blocks while the queue is full.                        *)
DeliverBlocking(p, s) ==
  /\ s \in pub[p].targets
  /\ Len(ch[s]) < SubscriberBuffer
  /\ pub' = Served(p, s)
  /\ ch' = [ch EXCEPT ![s] = Append(@, pub[p].ev)]
  /\ UNCHANGED lagged
  /\ UNCHANGED <<seq, closed, subscribers, ringVars, closing, leaving, state,
                 joined, received, closes>>

(* Subscription.deliver: a closed subscription ignores the event, a full   *)
(* queue drops and counts it.                                              *)
Deliver(p, s) ==
  /\ s \in pub[p].targets
  /\ pub' = Served(p, s)
  /\ \/ /\ state[s] = "closed"
        /\ UNCHANGED <<ch, lagged>>
     \/ /\ state[s] # "closed"
        /\ Len(ch[s]) < SubscriberBuffer
        /\ ch' = [ch EXCEPT ![s] = Append(@, pub[p].ev)]
        /\ UNCHANGED lagged
     \/ /\ state[s] # "closed"
        /\ Len(ch[s]) >= SubscriberBuffer
        /\ lagged' = [lagged EXCEPT ![s] = @ + 1]
        /\ UNCHANGED ch
  /\ UNCHANGED <<seq, closed, subscribers, ringVars, closing, leaving, state,
                 joined, received, closes>>

(* Subscribe: on a closed bus the subscription is born closed.             *)
Subscribe(s) ==
  /\ state[s] = "new"
  /\ joined' = [joined EXCEPT ![s] = seq]
  /\ \/ /\ closed
        /\ state' = [state EXCEPT ![s] = "closed"]
        /\ closes' = [closes EXCEPT ![s] = @ + 1]
        /\ UNCHANGED subscribers
     \/ /\ ~closed
        /\ state' = [state EXCEPT ![s] = "open"]
        /\ subscribers' = subscribers \cup {s}
        /\ UNCHANGED closes
  /\ UNCHANGED <<seq, closed, ringVars, pub, closing, leaving, ch, lagged, received>>

(* The two results of Replay(since).                                       *)
Start == (historyNext - historyLen + HistorySize) % HistorySize

Retained == [i \in 1..historyLen |-> history[(Start + i - 1) % HistorySize]]

Replayed(since) ==
  LET out[i \in 0..historyLen] ==
        IF i = 0 THEN <<>>
        ELSE IF Retained[i] > since THEN Append(out[i - 1], Retained[i]) ELSE out[i - 1]
  IN  out[historyLen]

Complete(since) ==
  \/ since >= seq
  \/ historyLen > 0 /\ since + 1 >= history[Start]

(* A receive from Subscription.C(): a closed channel still yields what is  *)
(* queued.                                                                 *)
Receive(s) ==
  /\ ch[s] # <<>>
  /\ ch' = [ch EXCEPT ![s] = Tail(@)]
  /\ received' = [received EXCEPT ![s] = @ + 1]
  /\ UNCHANGED <<seq, closed, subscribers, ringVars, pub, closing, leaving, state,
                 lagged, joined, closes>>

(* The first half of Subscription.Close, under Bus.mu.                     *)
Unregister(s) ==
  /\ state[s] # "new"
  /\ s \notin leaving
  /\ subscribers' = subscribers \ {s}
  /\ leaving' = leaving \cup {s}
  /\ UNCHANGED <<seq, closed, ringVars, pub, closing, subVars>>

(* Subscription.shutdown, the second half of Close: idempotent.            *)
ShutdownOne(s) ==
  /\ state' = [state EXCEPT ![s] = "closed"]
  /\ closes' = IF state[s] = "closed" THEN closes ELSE [closes EXCEPT ![s] = @ + 1]

(* Close is the consumer's last use of a subscription: what is left in it  *)
(* is garbage from here on.                                                *)
Shutdown(s) ==
  /\ s \in leaving
  /\ leaving' = leaving \ {s}
  /\ ShutdownOne(s)
  /\ ch' = [ch EXCEPT ![s] = <<>>]
  /\ lagged' = [lagged EXCEPT ![s] = 0]
  /\ joined' = [joined EXCEPT ![s] = 0]
  /\ received' = [received EXCEPT ![s] = 0]
  /\ UNCHANGED <<seq, closed, subscribers, ringVars, pub, closing>>

(* Bus.Close, up to the release of Bus.mu, and then its loop.              *)
Close ==
  /\ ~closed
  /\ closed' = TRUE
  /\ closing' = subscribers
  /\ subscribers' = {}
  /\ UNCHANGED <<seq, ringVars, pub, leaving, subVars>>

CloseOne(s) ==
  /\ s \in closing
  /\ closing' = closing \ {s}
  /\ ShutdownOne(s)
  /\ UNCHANGED <<seq, closed, subscribers, ringVars, pub, leaving, ch, lagged,
                 joined, received>>

Next ==
  \/ \E p \in Publishers : Publish(p)
  \/ \E p \in Publishers : \E s \in pub[p].targets : Deliver(p, s)
  \/ \E s \in Subs : \/ Subscribe(s) \/ Receive(s)
                     \/ Unregister(s)
  \/ \E s \in leaving : Shutdown(s)
  \/ Close
  \/ \E s \in closing : CloseOne(s)

Spec == Init /\ [][Next]_busVars

-----------------------------------------------------------------------------
(* Every field of Bus and Subscription has its type: the ring index stays  *)
(* inside the ring (Bus.history).                                          *)
TypeOK ==
  /\ seq \in 0..MaxSeq
  /\ closed \in BOOLEAN
  /\ subscribers \subseteq Subs
  /\ history \in [0..(HistorySize - 1) -> 0..MaxSeq]
  /\ historyNext \in 0..(HistorySize - 1)
  /\ historyLen \in 0..HistorySize
  /\ pub \in [Publishers -> [ev : 0..MaxSeq, targets : SUBSET Subs]]
  /\ closing \subseteq Subs
  /\ leaving \subseteq Subs
  /\ ch \in [Subs -> Seq(1..MaxSeq)]
  /\ state \in [Subs -> {"new", "open", "closed"}]
  /\ lagged \in [Subs -> Nat]
  /\ joined \in [Subs -> 0..MaxSeq]
  /\ received \in [Subs -> Nat]
  /\ closes \in [Subs -> Nat]

Pending(s) == {p \in Publishers : s \in pub[p].targets}

(* Every event published since a registered subscription was made is       *)
(* accounted for: taken by the consumer, still queued, still on its way    *)
(* from a publisher, or counted in Lagged().  "Delivery to a slow          *)
(* subscriber is dropped and counted" (ARCHITECTURE.md, section 5).        *)
LossIsCounted ==
  \A s \in subscribers :
    seq - joined[s] =
      received[s] + Len(ch[s]) + Cardinality(Pending(s)) + lagged[s]

(* Replay is honest for every position a consumer can be at: complete is   *)
(* true exactly when the events handed back are all the events after the   *)
(* position, in order (the two results of Bus.Replay).                     *)
ReplayIsHonest ==
  \A since \in 0..(MaxSeq + 1) :
    LET all == [i \in 1..(IF since < seq THEN seq - since ELSE 0) |-> since + i]
    IN  Complete(since) <=> Replayed(since) = all

(* Whatever the races between Subscription.Close, Bus.Close and each       *)
(* other, no channel is closed twice (which would panic), and a registered *)
(* subscription is open on an open bus.                                    *)
ClosedAtMostOnce ==
  /\ \A s \in Subs : closes[s] = (IF state[s] = "closed" THEN 1 ELSE 0)
  /\ \A s \in subscribers : state[s] = "open" /\ ~closed

(* A publisher that chose its targets before a Close never sends on the    *)
(* channel that has been closed since (the reason for Subscription.mu).    *)
NoSendOnClosed ==
  [][\A s \in Subs : state[s] = "closed" => Len(ch'[s]) <= Len(ch[s])]_busVars

(* Publish never blocks: a publisher gets through its targets even when    *)
(* no consumer ever receives.                                              *)
PublishReturns == \A p \in Publishers : pub[p] # Idle ~> pub[p] = Idle
=============================================================================
