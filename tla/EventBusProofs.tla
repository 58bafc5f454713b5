--------------------------- MODULE EventBusProofs ---------------------------
(***************************************************************************)
(* For any number of publishers and subscriptions, any history size and    *)
(* any queue depth: the bus accounts for every event it does not deliver,  *)
(* and never closes a channel twice; and for any number of consoles that   *)
(* hang up and come back, also to a restarted process, the live view over  *)
(* the bus tells a console what it lacks, but for the three known gaps.    *)
(***************************************************************************)
EXTENDS EventStream, FiniteSetTheorems, SequenceTheorems, WellFoundedInduction, TLAPS

(* A subscription nobody has made yet is in no set and holds nothing.      *)
Fresh ==
  \A s \in Subs : state[s] = "new" =>
    /\ s \notin closing \cup leaving
    /\ ch[s] = <<>> /\ lagged[s] = 0 /\ received[s] = 0
    /\ Pending(s) = {}

(* A subscription that is being closed is no longer registered, and it is  *)
(* the closed bus that closes subscriptions.                               *)
Apart ==
  /\ leaving \cap subscribers = {}
  /\ closing # {} => closed

(* A publisher with targets left is delivering a published event.          *)
Delivering == \A p \in Publishers : pub[p].targets # {} => pub[p].ev \in 1..MaxSeq

IndInv ==
  TypeOK /\ ClosedAtMostOnce /\ Fresh /\ Apart /\ Delivering /\ LossIsCounted

-----------------------------------------------------------------------------
(* The remainder of a division by the ring's size is a slot of the ring.   *)
LEMMA ModRange ==
  ASSUME NEW n \in Nat, NEW m \in Nat \ {0}
  PROVE  n % m \in 0..(m - 1)
  OBVIOUS

(* What Publish's delivery loop leaves of each publisher's targets.        *)
LEMMA ServedTargets ==
  ASSUME TypeOK, NEW p \in Publishers, NEW s \in pub[p].targets
  PROVE  /\ Served(p, s) \in [Publishers -> [ev : 0..MaxSeq, targets : SUBSET Subs]]
         /\ Served(p, s)[p].targets = pub[p].targets \ {s}
         /\ Served(p, s)[p].targets # {} => Served(p, s)[p].ev = pub[p].ev
         /\ \A q \in Publishers \ {p} : Served(p, s)[q] = pub[q]
<1> DEFINE rest == pub[p].targets \ {s}
<1>1. pub \in [Publishers -> [ev : 0..MaxSeq, targets : SUBSET Subs]]
  BY DEF TypeOK
<1>2. MaxSeq \in Nat
  BY BusAssumption
<1>3. Idle \in [ev : 0..MaxSeq, targets : SUBSET Subs] /\ Idle.targets = {}
  BY <1>2 DEF Idle
<1>4. CASE rest = {}
  BY <1>1, <1>3, <1>4 DEF Served
<1>5. CASE rest # {}
  BY <1>1, <1>5 DEF Served
<1> QED BY <1>4, <1>5

(* The publishers still to deliver to a subscription are finitely many.    *)
LEMMA PendingFinite ==
  ASSUME NEW s
  PROVE  IsFiniteSet(Pending(s)) /\ Cardinality(Pending(s)) \in Nat
BY BusAssumption, FS_Subset, FS_CardinalityType DEF Pending

(* The quantities of a subscription's account are numbers.                 *)
LEMMA Numbers ==
  ASSUME TypeOK, NEW s \in Subs
  PROVE  /\ seq \in Nat /\ joined[s] \in Nat /\ received[s] \in Nat
         /\ Len(ch[s]) \in Nat /\ lagged[s] \in Nat
         /\ Cardinality(Pending(s)) \in Nat
<1>1. ch[s] \in Seq(1..MaxSeq)
  BY DEF TypeOK
<1>2. Len(ch[s]) \in Nat
  BY <1>1, LenProperties
<1> QED BY <1>2, PendingFinite, BusAssumption DEF TypeOK

(* Shutting a channel keeps the types of what it changes.                  *)
LEMMA ShutdownType ==
  ASSUME TypeOK, NEW s \in Subs, ShutdownOne(s)
  PROVE  /\ state' \in [Subs -> {"new", "open", "closed"}]
         /\ closes' \in [Subs -> Nat]
<1>1. state \in [Subs -> {"new", "open", "closed"}] /\ closes \in [Subs -> Nat]
  BY DEF TypeOK
<1>2. closes[s] + 1 \in Nat
  BY <1>1
<1> QED BY <1>1, <1>2 DEF ShutdownOne

-----------------------------------------------------------------------------
(* Each action keeps the type invariant.                                   *)
LEMMA TypeStep ==
  ASSUME TypeOK, Delivering, [Next]_busVars
  PROVE  TypeOK'
<1> USE BusAssumption
<1>1. ASSUME NEW p \in Publishers, Publish(p) PROVE TypeOK'
  <2>1. historyNext' \in 0..(HistorySize - 1)
    BY <1>1, ModRange DEF TypeOK, Publish
  <2>2. historyLen' \in 0..HistorySize
    BY <1>1 DEF TypeOK, Publish
  <2>3. seq' \in 0..MaxSeq /\ history' \in [0..(HistorySize - 1) -> 0..MaxSeq]
    BY <1>1 DEF TypeOK, Publish
  <2>4. pub' \in [Publishers -> [ev : 0..MaxSeq, targets : SUBSET Subs]]
    BY <1>1 DEF TypeOK, Publish, Idle
  <2> QED BY <1>1, <2>1, <2>2, <2>3, <2>4 DEF TypeOK, Publish, subVars
<1>2. ASSUME NEW p \in Publishers, NEW s \in pub[p].targets, Deliver(p, s)
      PROVE  TypeOK'
  <2>1. s \in Subs /\ pub[p].ev \in 1..MaxSeq
    BY DEF TypeOK, Delivering
  <2>2. pub' \in [Publishers -> [ev : 0..MaxSeq, targets : SUBSET Subs]]
    BY <1>2, ServedTargets DEF Deliver
  <2>3. ch[s] \in Seq(1..MaxSeq)
    BY <2>1 DEF TypeOK
  <2>4. Append(ch[s], pub[p].ev) \in Seq(1..MaxSeq)
    BY <2>1, <2>3, AppendProperties
  <2>5. ch' \in [Subs -> Seq(1..MaxSeq)]
    BY <1>2, <2>4 DEF TypeOK, Deliver
  <2>6. lagged' \in [Subs -> Nat]
    <3>1. lagged \in [Subs -> Nat] /\ lagged[s] + 1 \in Nat
      BY <2>1 DEF TypeOK
    <3> QED BY <1>2, <3>1 DEF Deliver
  <2> QED BY <1>2, <2>2, <2>5, <2>6 DEF TypeOK, Deliver, ringVars
<1>3. ASSUME NEW s \in Subs, Subscribe(s) PROVE TypeOK'
  <2>1. joined' \in [Subs -> 0..MaxSeq]
    BY <1>3 DEF TypeOK, Subscribe
  <2>2. state' \in [Subs -> {"new", "open", "closed"}]
    <3>1. state \in [Subs -> {"new", "open", "closed"}]
      BY DEF TypeOK
    <3> QED BY <1>3, <3>1 DEF Subscribe
  <2>4. subscribers' \subseteq Subs
    BY <1>3 DEF TypeOK, Subscribe
  <2>3. closes' \in [Subs -> Nat]
    <3>1. closes \in [Subs -> Nat] /\ closes[s] + 1 \in Nat
      BY DEF TypeOK
    <3> QED BY <1>3, <3>1 DEF Subscribe
  <2> QED BY <1>3, <2>1, <2>2, <2>3, <2>4 DEF TypeOK, Subscribe, ringVars
<1>4. ASSUME NEW s \in Subs, Receive(s) PROVE TypeOK'
  <2>1. Tail(ch[s]) \in Seq(1..MaxSeq)
    BY <1>4, HeadTailProperties DEF TypeOK, Receive
  <2>2. ch' \in [Subs -> Seq(1..MaxSeq)] /\ received' \in [Subs -> Nat]
    BY <1>4, <2>1 DEF TypeOK, Receive
  <2> QED BY <1>4, <2>2 DEF TypeOK, Receive, ringVars
<1>5. ASSUME NEW s \in Subs, Unregister(s) PROVE TypeOK'
  BY <1>5 DEF TypeOK, Unregister, ringVars, subVars
<1>6. ASSUME NEW s \in leaving, Shutdown(s) PROVE TypeOK'
  <2>1. <<>> \in Seq(1..MaxSeq)
    OBVIOUS
  <2>2. s \in Subs
    BY DEF TypeOK
  <2>3. ShutdownOne(s)
    BY <1>6 DEF Shutdown
  <2>4. /\ state' \in [Subs -> {"new", "open", "closed"}]
        /\ closes' \in [Subs -> Nat]
    BY <2>2, <2>3, ShutdownType
  <2>5. ch' \in [Subs -> Seq(1..MaxSeq)]
    BY <1>6, <2>1 DEF TypeOK, Shutdown
  <2>6. /\ lagged' \in [Subs -> Nat]
        /\ joined' \in [Subs -> 0..MaxSeq]
        /\ received' \in [Subs -> Nat]
    BY <1>6 DEF TypeOK, Shutdown
  <2>7. /\ leaving' \subseteq Subs
        /\ UNCHANGED <<seq, closed, subscribers, history, historyNext, historyLen, pub, closing>>
    BY <1>6 DEF TypeOK, Shutdown, ringVars
  <2> QED BY <2>4, <2>5, <2>6, <2>7 DEF TypeOK
<1>7. ASSUME Close PROVE TypeOK'
  BY <1>7 DEF TypeOK, Close, ringVars, subVars
<1>8. ASSUME NEW s \in closing, CloseOne(s) PROVE TypeOK'
  <2>1. s \in Subs
    BY DEF TypeOK
  <2>2. ShutdownOne(s)
    BY <1>8 DEF CloseOne
  <2>3. /\ state' \in [Subs -> {"new", "open", "closed"}]
        /\ closes' \in [Subs -> Nat]
    BY <2>1, <2>2, ShutdownType
  <2>4. /\ closing' \subseteq Subs
        /\ UNCHANGED <<seq, closed, subscribers, history, historyNext, historyLen, pub,
                       leaving, ch, lagged, joined, received>>
    BY <1>8 DEF TypeOK, CloseOne, ringVars
  <2> QED BY <2>3, <2>4 DEF TypeOK
<1>9. ASSUME UNCHANGED busVars PROVE TypeOK'
  BY <1>9 DEF TypeOK, busVars, ringVars, subVars
<1> QED BY <1>1, <1>2, <1>3, <1>4, <1>5, <1>6, <1>7, <1>8, <1>9 DEF Next

(* Whatever the order of the two closes, one of them closes the channel.   *)
LEMMA CloseStep ==
  ASSUME TypeOK, ClosedAtMostOnce, Fresh, Apart, [Next]_busVars
  PROVE  ClosedAtMostOnce'
<1> USE DEF TypeOK, ClosedAtMostOnce
<1>1. ASSUME NEW p \in Publishers, Publish(p) PROVE ClosedAtMostOnce'
  BY <1>1 DEF Publish, subVars
<1>2. ASSUME NEW p \in Publishers, NEW s \in pub[p].targets, Deliver(p, s)
      PROVE  ClosedAtMostOnce'
  BY <1>2 DEF Deliver
<1>3. ASSUME NEW s \in Subs, Subscribe(s) PROVE ClosedAtMostOnce'
  <2>1. closes[s] = 0
    BY <1>3 DEF Subscribe
  <2>2. CASE closed
    BY <1>3, <2>1, <2>2 DEF Subscribe
  <2>3. CASE ~closed
    BY <1>3, <2>1, <2>3 DEF Subscribe
  <2> QED BY <2>2, <2>3
<1>4. ASSUME NEW s \in Subs, Receive(s) PROVE ClosedAtMostOnce'
  BY <1>4 DEF Receive
<1>5. ASSUME NEW s \in Subs, Unregister(s) PROVE ClosedAtMostOnce'
  BY <1>5 DEF Unregister, subVars
<1>6. ASSUME NEW s \in leaving, Shutdown(s) PROVE ClosedAtMostOnce'
  <2>1. s \in Subs /\ s \notin subscribers
    BY <1>6 DEF Apart
  <2> QED BY <1>6, <2>1 DEF Shutdown, ShutdownOne
<1>7. ASSUME Close PROVE ClosedAtMostOnce'
  BY <1>7 DEF Close, subVars
<1>8. ASSUME NEW s \in closing, CloseOne(s) PROVE ClosedAtMostOnce'
  <2>1. subscribers = {}
    BY <1>8 DEF Apart
  <2> QED BY <1>8, <2>1 DEF CloseOne, ShutdownOne
<1>9. ASSUME UNCHANGED busVars PROVE ClosedAtMostOnce'
  BY <1>9 DEF busVars, subVars
<1> QED BY <1>1, <1>2, <1>3, <1>4, <1>5, <1>6, <1>7, <1>8, <1>9 DEF Next

(* Only Publish and Deliver change what is pending for whom.               *)
LEMMA PublishPending ==
  ASSUME TypeOK, NEW p \in Publishers, Publish(p), NEW s \in subscribers
  PROVE  Cardinality(Pending(s)') = Cardinality(Pending(s)) + 1
<1>1. p \notin Pending(s)
  BY DEF Publish, Pending, Idle
<1>2. Pending(s)' = Pending(s) \cup {p}
  BY DEF TypeOK, Publish, Pending, Idle
<1> QED BY <1>1, <1>2, PendingFinite, FS_AddElement

(* A delivery takes its publisher off the list of its target only.         *)
LEMMA DeliverPending ==
  ASSUME TypeOK, NEW p \in Publishers, NEW s \in pub[p].targets, Deliver(p, s)
  PROVE  /\ Cardinality(Pending(s)') = Cardinality(Pending(s)) - 1
         /\ \A t : t # s => Pending(t)' = Pending(t)
<1>1. p \in Pending(s)
  BY DEF Pending
<1>2. Pending(s)' = Pending(s) \ {p}
  BY ServedTargets DEF Deliver, Pending
<1>3. Cardinality(Pending(s)') = Cardinality(Pending(s)) - 1
  BY <1>1, <1>2, PendingFinite, FS_RemoveElement
<1>4. ASSUME NEW t, t # s PROVE Pending(t)' = Pending(t)
  <2>1. ASSUME NEW q \in Publishers
        PROVE  t \in pub'[q].targets <=> t \in pub[q].targets
    <3>1. CASE q = p
      BY <1>4, <3>1, ServedTargets DEF Deliver
    <3>2. CASE q # p
      BY <3>2, ServedTargets DEF Deliver
    <3> QED BY <3>1, <3>2
  <2> QED BY <2>1 DEF Pending
<1> QED BY <1>3, <1>4

(* The bookkeeping part of the inductive invariant.                        *)
LEMMA ShapeStep ==
  ASSUME TypeOK, ClosedAtMostOnce, Fresh, Apart, Delivering, [Next]_busVars
  PROVE  Fresh' /\ Apart' /\ Delivering'
<1> USE BusAssumption
<1>1. ASSUME NEW p \in Publishers, Publish(p) PROVE Fresh' /\ Apart' /\ Delivering'
  <2>1. Delivering' /\ Apart'
    BY <1>1 DEF TypeOK, Delivering, Apart, Publish, Idle
  <2>2. ASSUME NEW s \in Subs, state[s] = "new" PROVE Pending(s)' = {}
    BY <1>1, <2>2 DEF TypeOK, Fresh, Pending, Publish, Idle, ClosedAtMostOnce
  <2> QED BY <1>1, <2>1, <2>2 DEF Fresh, Publish, subVars
<1>2. ASSUME NEW p \in Publishers, NEW s \in pub[p].targets, Deliver(p, s)
      PROVE  Fresh' /\ Apart' /\ Delivering'
  <2>1. Apart' /\ Delivering'
    BY <1>2, ServedTargets DEF Delivering, Apart, Deliver
  <2>2. s \in Subs /\ state[s] # "new"
    BY <1>2 DEF TypeOK, Fresh, Pending
  <2>3. ASSUME NEW t \in Subs, t # s PROVE Pending(t)' = Pending(t)
    BY <1>2, <2>3, DeliverPending
  <2> QED BY <1>2, <2>1, <2>2, <2>3 DEF TypeOK, Fresh, Deliver
<1>3. ASSUME NEW s \in Subs, Subscribe(s) PROVE Fresh' /\ Apart' /\ Delivering'
  <2>1. Delivering' /\ Apart'
    BY <1>3 DEF Fresh, Delivering, Apart, Subscribe
  <2>2. \A t \in Subs : Pending(t)' = Pending(t)
    BY <1>3 DEF Pending, Subscribe
  <2>3. \A t \in Subs : state'[t] = "new" => state[t] = "new"
    BY <1>3 DEF TypeOK, Subscribe
  <2> QED BY <1>3, <2>1, <2>2, <2>3 DEF Fresh, Subscribe
<1>4. ASSUME NEW s \in Subs, Receive(s) PROVE Fresh' /\ Apart' /\ Delivering'
  <2>1. \A t \in Subs : Pending(t)' = Pending(t)
    BY <1>4 DEF Pending, Receive
  <2>2. state[s] # "new"
    BY <1>4 DEF Fresh, Receive
  <2> QED BY <1>4, <2>1, <2>2 DEF TypeOK, Fresh, Apart, Delivering, Receive
<1>5. ASSUME NEW s \in Subs, Unregister(s) PROVE Fresh' /\ Apart' /\ Delivering'
  <2>1. \A t \in Subs : Pending(t)' = Pending(t)
    BY <1>5 DEF Pending, Unregister
  <2> QED BY <1>5, <2>1 DEF Fresh, Apart, Delivering, Unregister, subVars
<1>6. ASSUME NEW s \in leaving, Shutdown(s) PROVE Fresh' /\ Apart' /\ Delivering'
  <2>1. \A t \in Subs : Pending(t)' = Pending(t)
    BY <1>6 DEF Pending, Shutdown
  <2>2. s \in Subs
    BY <1>6 DEF TypeOK
  <2> QED BY <1>6, <2>1, <2>2
          DEF TypeOK, Fresh, Apart, Delivering, Shutdown, ShutdownOne
<1>7. ASSUME Close PROVE Fresh' /\ Apart' /\ Delivering'
  <2>1. \A t \in Subs : Pending(t)' = Pending(t)
    BY <1>7 DEF Pending, Close
  <2> QED BY <1>7, <2>1
          DEF Fresh, Apart, Delivering, ClosedAtMostOnce, Close, subVars
<1>8. ASSUME NEW s \in closing, CloseOne(s) PROVE Fresh' /\ Apart' /\ Delivering'
  <2>1. \A t \in Subs : Pending(t)' = Pending(t)
    BY <1>8 DEF Pending, CloseOne
  <2>2. s \in Subs
    BY <1>8 DEF TypeOK
  <2> QED BY <1>8, <2>1, <2>2
          DEF TypeOK, Fresh, Apart, Delivering, CloseOne, ShutdownOne
<1>9. ASSUME UNCHANGED busVars PROVE Fresh' /\ Apart' /\ Delivering'
  BY <1>9 DEF Fresh, Apart, Delivering, Pending, busVars, subVars
<1> QED BY <1>1, <1>2, <1>3, <1>4, <1>5, <1>6, <1>7, <1>8, <1>9 DEF Next

(* Each action keeps the account of every registered subscription.         *)
LEMMA AccountStep ==
  ASSUME IndInv, [Next]_busVars
  PROVE  LossIsCounted'
<1> USE DEF IndInv, LossIsCounted
<1>1. ASSUME NEW p \in Publishers, Publish(p) PROVE LossIsCounted'
  <2> SUFFICES ASSUME NEW s \in subscribers
               PROVE  seq' - joined'[s] = received'[s] + Len(ch'[s])
                        + Cardinality(Pending(s)') + lagged'[s]
    BY <1>1 DEF Publish
  <2>1. Cardinality(Pending(s)') = Cardinality(Pending(s)) + 1
    BY <1>1, PublishPending
  <2>2. seq' = seq + 1 /\ joined' = joined /\ received' = received /\ ch' = ch
          /\ lagged' = lagged
    BY <1>1 DEF Publish, subVars
  <2>3. s \in Subs
    BY DEF TypeOK
  <2>4. /\ seq \in Nat /\ joined[s] \in Nat /\ received[s] \in Nat
        /\ Len(ch[s]) \in Nat /\ lagged[s] \in Nat
        /\ Cardinality(Pending(s)) \in Nat
    BY <2>3, Numbers
  <2>5. seq - joined[s] =
          received[s] + Len(ch[s]) + Cardinality(Pending(s)) + lagged[s]
    OBVIOUS
  <2> HIDE DEF IndInv, LossIsCounted
  <2>6. (seq + 1) - joined[s] =
          received[s] + Len(ch[s]) + (Cardinality(Pending(s)) + 1) + lagged[s]
    <3> DEFINE b == joined[s]
    <3> DEFINE c == received[s]
    <3> DEFINE d == Len(ch[s])
    <3> DEFINE e == Cardinality(Pending(s))
    <3> DEFINE f == lagged[s]
    <3>1. seq \in Nat /\ b \in Nat /\ c \in Nat /\ d \in Nat /\ e \in Nat /\ f \in Nat
      BY <2>4
    <3>2. seq - b = c + d + e + f
      BY <2>5
    <3> HIDE DEF b, c, d, e, f
    <3>3. (seq + 1) - b = c + d + (e + 1) + f
      BY <3>1, <3>2
    <3> QED BY <3>3 DEF b, c, d, e, f
  <2> QED BY <2>1, <2>2, <2>6
<1>2. ASSUME NEW p \in Publishers, NEW s \in pub[p].targets, Deliver(p, s)
      PROVE  LossIsCounted'
  <2>1. ASSUME NEW t \in subscribers, t # s
        PROVE  seq' - joined'[t] =
                 received'[t] + Len(ch'[t]) + Cardinality(Pending(t)') + lagged'[t]
    <3>1. ch'[t] = ch[t] /\ lagged'[t] = lagged[t]
      BY <1>2, <2>1 DEF TypeOK, Deliver
    <3>2. Pending(t)' = Pending(t)
      BY <1>2, <2>1, DeliverPending
    <3> QED BY <1>2, <3>1, <3>2 DEF Deliver
  <2>2. ASSUME s \in subscribers
        PROVE  seq' - joined'[s] =
                 received'[s] + Len(ch'[s]) + Cardinality(Pending(s)') + lagged'[s]
    <3>1. s \in Subs /\ state[s] = "open" /\ pub[p].ev \in 1..MaxSeq
      BY <2>2 DEF TypeOK, ClosedAtMostOnce, Delivering
    <3>2. Cardinality(Pending(s)') = Cardinality(Pending(s)) - 1
      BY <1>2, DeliverPending
    <3>3. Len(ch'[s]) + lagged'[s] = Len(ch[s]) + lagged[s] + 1
      <4>1. ch[s] \in Seq(1..MaxSeq) /\ lagged[s] \in Nat /\ Len(ch[s]) \in Nat
        BY <3>1, Numbers DEF TypeOK
      <4>2. Len(Append(ch[s], pub[p].ev)) = Len(ch[s]) + 1
        BY <4>1, <3>1, AppendProperties
      <4>3. ch \in [Subs -> Seq(1..MaxSeq)] /\ lagged \in [Subs -> Nat]
        BY DEF TypeOK
      <4>4. CASE Len(ch[s]) < SubscriberBuffer
        <5>1. ch'[s] = Append(ch[s], pub[p].ev) /\ lagged' = lagged
          BY <1>2, <3>1, <4>1, <4>3, <4>4, BusAssumption DEF Deliver
        <5>2. Len(ch'[s]) = Len(ch[s]) + 1 /\ lagged'[s] = lagged[s]
          BY <5>1, <4>2
        <5> QED BY <5>2, <4>1
      <4>5. CASE ~(Len(ch[s]) < SubscriberBuffer)
        <5>1. ch' = ch /\ lagged'[s] = lagged[s] + 1
          BY <1>2, <3>1, <4>1, <4>3, <4>5, BusAssumption DEF Deliver
        <5> QED BY <5>1, <4>1
      <4> QED BY <4>4, <4>5
    <3>4. Len(ch'[s]) \in Nat /\ lagged'[s] \in Nat
      <4>1. TypeOK'
        BY TypeStep
      <4> QED BY <3>1, <4>1, LenProperties DEF TypeOK
    <3>5. seq' = seq /\ joined' = joined /\ received' = received
      BY <1>2 DEF Deliver
    <3>6. seq - joined[s] =
            received[s] + Len(ch[s]) + Cardinality(Pending(s)) + lagged[s]
      BY <2>2
    <3>7. /\ seq \in Nat /\ joined[s] \in Nat /\ received[s] \in Nat
          /\ Len(ch[s]) \in Nat /\ lagged[s] \in Nat
          /\ Cardinality(Pending(s)) \in Nat
      BY <3>1, Numbers
    <3> HIDE DEF IndInv, LossIsCounted
    <3>8. seq - joined[s] =
            received[s] + Len(ch'[s]) + (Cardinality(Pending(s)) - 1) + lagged'[s]
      <4> DEFINE b == joined[s]
      <4> DEFINE c == received[s]
      <4> DEFINE d == Len(ch[s])
      <4> DEFINE e == Cardinality(Pending(s))
      <4> DEFINE f == lagged[s]
      <4> DEFINE g == Len(ch'[s])
      <4> DEFINE h == lagged'[s]
      <4>1. seq \in Nat /\ b \in Nat /\ c \in Nat /\ d \in Nat /\ e \in Nat /\ f \in Nat
        BY <3>7
      <4>2. g \in Nat /\ h \in Nat /\ g + h = d + f + 1
        BY <3>3, <3>4
      <4>3. seq - b = c + d + e + f
        BY <3>6
      <4> HIDE DEF b, c, d, e, f, g, h
      <4>4. seq - b = c + g + (e - 1) + h
        BY <4>1, <4>2, <4>3
      <4> QED BY <4>4 DEF b, c, d, e, f, g, h
    <3> QED BY <3>2, <3>5, <3>8
  <2> QED BY <1>2, <2>1, <2>2 DEF Deliver
<1>3. ASSUME NEW s \in Subs, Subscribe(s) PROVE LossIsCounted'
  <2>1. \A t \in Subs : Pending(t)' = Pending(t)
    BY <1>3 DEF Pending, Subscribe
  <2>2. ch[s] = <<>> /\ received[s] = 0 /\ lagged[s] = 0 /\ Pending(s) = {}
    BY <1>3 DEF Subscribe, Fresh
  <2>3. Cardinality(Pending(s)) = 0 /\ Len(ch[s]) = 0
    BY <2>2, FS_EmptySet
  <2>4. s \notin subscribers
    BY <1>3 DEF Subscribe, ClosedAtMostOnce
  <2>5. ASSUME NEW t \in subscribers
        PROVE  seq' - joined'[t] = received'[t] + Len(ch'[t])
                 + Cardinality(Pending(t)') + lagged'[t]
    BY <1>3, <2>1, <2>4 DEF TypeOK, Subscribe
  <2>6. seq' - joined'[s] = received'[s] + Len(ch'[s]) + Cardinality(Pending(s)')
          + lagged'[s]
    <3>1. joined'[s] = seq /\ seq' = seq /\ ch' = ch /\ received' = received
            /\ lagged' = lagged
      BY <1>3 DEF TypeOK, Subscribe
    <3>2. Cardinality(Pending(s)') = 0 /\ seq \in Nat
      BY <2>1, <2>3, Numbers
    <3> QED BY <3>1, <3>2, <2>2, <2>3
  <2> QED BY <1>3, <2>5, <2>6 DEF Subscribe
<1>4. ASSUME NEW s \in Subs, Receive(s) PROVE LossIsCounted'
  <2>1. \A t \in Subs : Pending(t)' = Pending(t) /\ Cardinality(Pending(t)) \in Nat
    BY <1>4, PendingFinite DEF Pending, Receive
  <2>2. Len(Tail(ch[s])) = Len(ch[s]) - 1 /\ Len(ch[s]) \in Nat
    BY <1>4, HeadTailProperties, LenProperties DEF TypeOK, Receive
  <2> QED BY <1>4, <2>1, <2>2 DEF TypeOK, Receive
<1>5. ASSUME NEW s \in Subs, Unregister(s) PROVE LossIsCounted'
  BY <1>5 DEF Pending, Unregister, subVars
<1>6. ASSUME NEW s \in leaving, Shutdown(s) PROVE LossIsCounted'
  <2>1. s \notin subscribers
    BY <1>6 DEF Apart
  <2>2. \A t \in Subs : Pending(t)' = Pending(t)
    BY <1>6 DEF Pending, Shutdown
  <2> QED BY <1>6, <2>1, <2>2 DEF TypeOK, Shutdown
<1>7. ASSUME Close PROVE LossIsCounted'
  BY <1>7 DEF Close
<1>8. ASSUME NEW s \in closing, CloseOne(s) PROVE LossIsCounted'
  BY <1>8 DEF Pending, CloseOne
<1>9. ASSUME UNCHANGED busVars PROVE LossIsCounted'
  BY <1>9 DEF Pending, busVars, subVars
<1> QED BY <1>1, <1>2, <1>3, <1>4, <1>5, <1>6, <1>7, <1>8, <1>9 DEF Next

(* The inductive invariant holds initially, and so always.                 *)
LEMMA InitIndInv == Init => IndInv
<1> SUFFICES ASSUME Init PROVE IndInv
  OBVIOUS
<1> USE BusAssumption
<1>1. TypeOK
  <2>1. ch \in [Subs -> Seq(1..MaxSeq)]
    BY EmptySeq DEF Init
  <2>2. pub \in [Publishers -> [ev : 0..MaxSeq, targets : SUBSET Subs]]
    BY DEF Init, Idle
  <2>3. history \in [0..(HistorySize - 1) -> 0..MaxSeq]
    BY DEF Init
  <2>4. seq \in 0..MaxSeq /\ historyNext \in 0..(HistorySize - 1)
          /\ historyLen \in 0..HistorySize
    BY DEF Init
  <2>5. /\ lagged \in [Subs -> Nat] /\ received \in [Subs -> Nat]
        /\ closes \in [Subs -> Nat] /\ joined \in [Subs -> 0..MaxSeq]
        /\ state \in [Subs -> {"new", "open", "closed"}]
    BY DEF Init
  <2>6. closed \in BOOLEAN /\ subscribers \subseteq Subs /\ closing \subseteq Subs
          /\ leaving \subseteq Subs
    BY DEF Init
  <2> QED BY <2>1, <2>2, <2>3, <2>4, <2>5, <2>6 DEF TypeOK
<1>2. ClosedAtMostOnce /\ Apart /\ Delivering /\ LossIsCounted
  BY DEF Init, ClosedAtMostOnce, Apart, Delivering, LossIsCounted, Idle
<1>3. Fresh
  BY DEF Init, Fresh, Pending, Idle
<1> QED BY <1>1, <1>2, <1>3 DEF IndInv

(* The invariant holds in every state of every behaviour.                  *)
LEMMA Inductive == Spec => []IndInv
<1>1. IndInv /\ [Next]_busVars => IndInv'
  BY TypeStep, CloseStep, ShapeStep, AccountStep DEF IndInv
<1> QED BY <1>1, InitIndInv, PTL DEF Spec

(* The variables of the bus keep their types.                              *)
THEOREM TypeCorrect == Spec => []TypeOK
BY Inductive, PTL DEF IndInv

(* Publish, Subscription.deliver and Bus.Replay's bookkeeping: for every   *)
(* number of publishers, subscriptions and queue depth, an event that a    *)
(* registered subscription neither received nor holds nor is about to be   *)
(* given has been counted in Lagged().                                     *)
THEOREM NothingIsLostUncounted == Spec => []LossIsCounted
BY Inductive, PTL DEF IndInv

(* Bus.Close and Subscription.Close, in any interleaving, close a channel  *)
(* once.                                                                   *)
THEOREM ChannelsCloseOnce == Spec => []ClosedAtMostOnce
BY Inductive, PTL DEF IndInv

(* No step of Publish's delivery loop adds to a channel that is closed.    *)
LEMMA NoSendStep ==
  IndInv /\ [Next]_busVars =>
    [\A s \in Subs : state[s] = "closed" => Len(ch'[s]) <= Len(ch[s])]_busVars
<1> SUFFICES ASSUME IndInv, [Next]_busVars, NEW s \in Subs, state[s] = "closed"
             PROVE  Len(ch'[s]) <= Len(ch[s])
  OBVIOUS
<1> USE DEF IndInv
<1>1. ch[s] \in Seq(1..MaxSeq) /\ Len(ch[s]) \in Nat
  BY LenProperties DEF TypeOK
<1>2. ASSUME ch'[s] = ch[s] PROVE Len(ch'[s]) <= Len(ch[s])
  BY <1>1, <1>2
<1>3. ASSUME ch' = ch PROVE Len(ch'[s]) <= Len(ch[s])
  BY <1>2, <1>3
<1>4. ASSUME NEW p \in Publishers, NEW t \in pub[p].targets, Deliver(p, t)
      PROVE  ch'[s] = ch[s]
  BY <1>4 DEF TypeOK, Deliver
<1>5. ASSUME NEW t \in Subs, Receive(t) PROVE Len(ch'[s]) <= Len(ch[s])
  BY <1>1, <1>2, <1>5, HeadTailProperties DEF TypeOK, Receive
<1>6. ASSUME NEW t \in leaving, Shutdown(t) PROVE Len(ch'[s]) <= Len(ch[s])
  BY <1>1, <1>2, <1>6 DEF TypeOK, Shutdown
<1> QED BY <1>2, <1>3, <1>4, <1>5, <1>6
        DEF Next, Publish, Subscribe, Unregister, Close, CloseOne, busVars, subVars

(* A publisher that chose its targets before a Close finds them closed.    *)
THEOREM NeverSendsOnClosed == Spec => NoSendOnClosed
BY NoSendStep, Inductive, PTL DEF Spec, NoSendOnClosed

-----------------------------------------------------------------------------
(* The ring and the live view (EventStream)                                *)

(* Where the ring keeps the i-th of the events it retains.                 *)
Slot(i) ==
  LET x == historyNext - historyLen + i - 1 IN IF x < 0 THEN x + HistorySize ELSE x

(* The ring holds the newest events, oldest first.                         *)
RingOK ==
  /\ historyLen = IF seq < HistorySize THEN seq ELSE HistorySize
  /\ seq < HistorySize => historyNext = seq
  /\ \A i \in 1..historyLen : history[Slot(i)] = seq - historyLen + i

(* Nothing is under way that was not published, and a subscription drops   *)
(* no more than that.                                                      *)
OnlyPublished ==
  /\ \A s \in Subs : Elements(ch[s]) \subseteq 1..seq
  /\ \A p \in Publishers : pub[p].targets # {} => pub[p].ev \in 1..seq
  /\ \A s \in Subs : lagged[s] + Cardinality(Pending(s)) <= seq

(* The subscription of a handler: registered until the handler returns or  *)
(* the bus is closed, and nobody else's.                                   *)
HandlerHolds(c) ==
  /\ pc[c] # "away" => conn[c] \in 1..MaxConns
  /\ pc[c] \in {"subscribed", "replaying", "live", "returning"} =>
       /\ state[Sub(c)] # "new" /\ Sub(c) \notin leaving
       /\ ~closed => Sub(c) \in subscribers
  /\ pc[c] = "closing" => Sub(c) \in leaving
  /\ \A k \in 1..MaxConns : conn[c] < k => state[<<c, k>>] = "new"
  /\ \A k \in 1..MaxConns : k < conn[c] \/ (pc[c] = "away" /\ k = conn[c]) =>
       state[<<c, k>>] = "closed" /\ <<c, k>> \notin leaving

(* What a handler has read: its position was the console's, and what the   *)
(* console has been sent since comes after it.                             *)
HandlerKnows(c) ==
  /\ since[c] <= position[c]
  /\ pc[c] = "subscribed" => since[c] = position[c]
  /\ pc[c] # "away" => position[c] = since[c] \/ position[c] \in 1..seq
  /\ pc[c] # "replaying" => toWrite[c] = <<>>
  /\ \A i \in 1..Len(toWrite[c]) : toWrite[c][i] \in 1..seq /\ since[c] < toWrite[c][i]
  /\ \A i, j \in 1..Len(toWrite[c]) : i < j => toWrite[c][i] < toWrite[c][j]
  /\ pc[c] \in {"away", "subscribed", "replaying"} => baseline[c] = 0
  /\ pc[c] = "live" => baseline[c] <= lagged[Sub(c)]
  /\ owed[c] \subseteq 1..seq

(* What the console lacks comes after its position, and is on its way, was *)
(* dropped, or is newer than the whole replay.                             *)
Told(c) ==
  /\ position[c] <= seq
  /\ \A ev \in owed[c] : ev > position[c]
  /\ Streaming(c) => owed[c] \subseteq OnItsWay(c) \/ lagged[Sub(c)] # baseline[c]
  /\ \A ev \in owed[c] : \/ ev \in Elements(toWrite[c])
                         \/ \A i \in 1..Len(toWrite[c]) : ev > toWrite[c][i]

(* The parts of the inductive invariant: the bus, and each client.         *)
BusInv == IndInv /\ RingOK /\ OnlyPublished

ClientInv(c) ==
  /\ HandlerHolds(c)
  /\ HandlerKnows(c)
  /\ excused[c] \/ closed \/ Told(c)

StreamInv ==
  /\ BusInv
  /\ StreamTypeOK
  /\ \A c \in Clients : ClientInv(c)

-----------------------------------------------------------------------------
(* A set of numbers that is not empty has a least one.                     *)
LEMMA LeastNumber ==
  ASSUME NEW S \in SUBSET Nat, S # {}
  PROVE  \E m \in S : \A n \in S : m <= n
<1> DEFINE R == OpToRel(<, Nat)
<1>1. IsWellFoundedOn(R, Nat)
  BY NatLessThanWellFounded
<1>2. \A x, y \in Nat : x < y => <<x, y>> \in R
  BY DEF OpToRel
<1> HIDE DEF R
<1>3. PICK x \in S : \A y \in S : ~ (<<y, x>> \in R)
  BY <1>1, WFMin
<1>4. ASSUME NEW y \in S PROVE x <= y
  <2>1. x \in Nat /\ y \in Nat /\ ~(y < x)
    BY <1>2, <1>3
  <2> QED BY <2>1
<1> QED BY <1>4

(* A number below twice the ring's size wraps round once (Bus.Replay).     *)
LEMMA WrapOnce ==
  ASSUME NEW m \in Nat \ {0}, NEW x \in Nat, x < m + m
  PROVE  x % m = IF x < m THEN x ELSE x - m
<1> DEFINE q == x \div m
           r == x % m
<1>1. r \in 0..(m - 1) /\ q \in Int /\ r = x - m * q
  OBVIOUS
<1> HIDE DEF q, r
<1>2. q >= 0
  <2> SUFFICES ASSUME q <= -1 PROVE FALSE
    BY <1>1
  <2>1. m * q <= m * (-1)
    BY <1>1
  <2> QED BY <1>1, <2>1
<1>3. q <= 1
  <2> SUFFICES ASSUME q >= 2 PROVE FALSE
    BY <1>1
  <2>1. m * q >= m * 2
    BY <1>1
  <2> QED BY <1>1, <2>1
<1>4. q = 0 \/ q = 1
  BY <1>1, <1>2, <1>3
<1>5. CASE q = 0
  <2>1. r = x
    BY <1>1, <1>5
  <2> QED BY <1>1, <2>1 DEF r
<1>6. CASE q = 1
  <2>1. r = x - m
    BY <1>1, <1>6
  <2> QED BY <1>1, <2>1 DEF r
<1> QED BY <1>4, <1>5, <1>6

(* What Replay reads from the ring: the newest historyLen events in order. *)
LEMMA RetainedIs ==
  ASSUME TypeOK, RingOK
  PROVE  /\ Retained = [i \in 1..historyLen |-> seq - historyLen + i]
         /\ historyLen > 0 => history[Start] = seq - historyLen + 1
         /\ historyLen \in Nat /\ seq \in Nat /\ historyLen <= seq
<1> USE BusAssumption
<1>1. /\ historyLen \in 0..HistorySize /\ historyNext \in 0..(HistorySize - 1) /\ seq \in Nat
      /\ HistorySize \in Nat \ {0}
  BY DEF TypeOK
<1>2. Start = Slot(1) /\ Start \in 0..(HistorySize - 1)
  <2> DEFINE x == historyNext - historyLen + HistorySize
  <2>1. x \in Nat /\ x < HistorySize + HistorySize
    BY <1>1
  <2>2. Start = x % HistorySize
    BY DEF Start
  <2> HIDE DEF x
  <2>3. Start = IF x < HistorySize THEN x ELSE x - HistorySize
    BY <1>1, <2>1, <2>2, WrapOnce
  <2> QED BY <1>1, <2>3 DEF Slot, x
<1>3. ASSUME NEW i \in 1..historyLen
      PROVE  (Start + i - 1) % HistorySize = Slot(i)
  <2> DEFINE x == Start + i - 1
  <2>1. x \in Nat /\ x < HistorySize + HistorySize
    BY <1>1, <1>2
  <2> HIDE DEF x
  <2>2. x % HistorySize = IF x < HistorySize THEN x ELSE x - HistorySize
    BY <1>1, <2>1, WrapOnce
  <2> QED BY <1>1, <1>2, <2>2 DEF Slot, x
<1>4. ASSUME NEW i \in 1..historyLen
      PROVE  history[(Start + i - 1) % HistorySize] = seq - historyLen + i
  BY <1>3 DEF RingOK
<1>5. historyLen <= seq
  BY <1>1 DEF RingOK
<1>6. historyLen > 0 => history[Start] = seq - historyLen + 1
  BY <1>1, <1>2 DEF RingOK
<1> QED BY <1>1, <1>4, <1>5, <1>6 DEF Retained

(* What Replay's loop has collected after each slot, if it looks for what  *)
(* is newer than n.                                                        *)
Collects(out, n) ==
  out = [i \in 0..historyLen |->
           IF i = 0 THEN <<>>
           ELSE IF Retained[i] > n THEN Append(out[i - 1], Retained[i]) ELSE out[i - 1]]

(* The numbers from a + 1 to a + k.                                        *)
After(a, k) == [j \in 1..(IF k > 0 THEN k ELSE 0) |-> a + j]

LEMMA AfterIsSeq ==
  ASSUME NEW a \in Int, NEW k \in Int
  PROVE  /\ k <= 0 => After(a, k) = <<>>
         /\ k >= 0 => /\ After(a, k) \in Seq(Int) /\ Len(After(a, k)) = k
                      /\ Append(After(a, k), a + k + 1) = After(a, k + 1)
<1>1. k <= 0 => After(a, k) = <<>>
  BY DEF After
<1>2. ASSUME k >= 0
      PROVE  /\ After(a, k) \in Seq(Int) /\ Len(After(a, k)) = k
             /\ Append(After(a, k), a + k + 1) = After(a, k + 1)
  <2>1. After(a, k) = [j \in 1..k |-> a + j] /\ After(a, k + 1) = [j \in 1..(k + 1) |-> a + j]
    BY <1>2 DEF After
  <2>2. After(a, k) \in Seq(Int) /\ Len(After(a, k)) = k
    BY <1>2, <2>1
  <2>3. Append(After(a, k), a + k + 1) = [j \in 1..(k + 1) |-> a + j]
    BY <1>2, <2>1, <2>2
  <2> QED BY <2>1, <2>2, <2>3
<1> QED BY <1>1, <1>2

(* Replay hands back the retained events that are newer than n, in order.  *)
LEMMA ReplayedIs ==
  ASSUME TypeOK, RingOK, NEW n \in Nat
  PROVE  Replayed(n) = IF n > seq - historyLen THEN After(n, seq - n)
                                               ELSE After(seq - historyLen, historyLen)
<1> DEFINE o == seq - historyLen
           d == IF n > o THEN n - o ELSE 0
           G == [i \in 0..historyLen |-> After(o + d, i - d)]
<1>1. /\ Retained = [i \in 1..historyLen |-> o + i]
      /\ historyLen \in Nat /\ seq \in Nat /\ o \in Nat /\ d \in Nat
  BY RetainedIs
<1>2. n > o => o + d = n
  BY <1>1
<1>3. n <= o => d = 0
  BY <1>1
<1>4. \A i \in 1..historyLen : Retained[i] = o + i /\ (o + i > n <=> i > d)
  BY <1>1
<1> HIDE DEF o, d
<1>5. Collects(G, n)
  <2>1. ASSUME NEW i \in 1..historyLen
        PROVE  After(o + d, i - d) = IF Retained[i] > n THEN Append(After(o + d, i - 1 - d), Retained[i])
                                                        ELSE After(o + d, i - 1 - d)
    <3>1. CASE i > d
      <4> DEFINE k == i - 1 - d
      <4>1. k \in Int /\ k >= 0 /\ i - d = k + 1 /\ Retained[i] = o + d + k + 1 /\ o + d \in Int
        BY <1>1, <1>4, <3>1
      <4> HIDE DEF k
      <4>2. Append(After(o + d, k), o + d + k + 1) = After(o + d, k + 1)
        BY <4>1, AfterIsSeq
      <4> QED BY <1>4, <3>1, <4>1, <4>2 DEF k
    <3>2. CASE ~(i > d)
      <4>1. i - d <= 0 /\ i - 1 - d <= 0 /\ i - d \in Int /\ i - 1 - d \in Int /\ o + d \in Int
        BY <1>1, <3>2
      <4>2. After(o + d, i - d) = <<>> /\ After(o + d, i - 1 - d) = <<>>
        BY <4>1, AfterIsSeq
      <4> QED BY <1>4, <3>2, <4>2
    <3> QED BY <3>1, <3>2
  <2>2. After(o + d, 0 - d) = <<>>
    BY <1>1, AfterIsSeq
  <2>3. ASSUME NEW i \in 0..historyLen
        PROVE  G[i] = IF i = 0 THEN <<>>
                      ELSE IF Retained[i] > n THEN Append(G[i - 1], Retained[i]) ELSE G[i - 1]
    <3>1. CASE i = 0
      BY <1>1, <2>2, <3>1
    <3>2. CASE i # 0
      <4>1. i \in 1..historyLen /\ i - 1 \in 0..historyLen
        BY <1>1, <3>2
      <4>2. G[i] = After(o + d, i - d) /\ G[i - 1] = After(o + d, i - 1 - d)
        BY <4>1
      <4> HIDE DEF G
      <4> QED BY <2>1, <3>2, <4>1, <4>2
    <3> QED BY <3>1, <3>2
  <2> DEFINE H == [i \in 0..historyLen |->
                     IF i = 0 THEN <<>>
                     ELSE IF Retained[i] > n THEN Append(G[i - 1], Retained[i]) ELSE G[i - 1]]
  <2>4. G = [i \in 0..historyLen |-> G[i]]
    OBVIOUS
  <2> HIDE DEF G
  <2>5. G = H
    BY <2>3, <2>4
  <2> QED BY <2>5 DEF Collects
<1>6. ASSUME NEW F, Collects(F, n) PROVE F[historyLen] = G[historyLen]
  <2> DEFINE S == {i \in 0..historyLen : F[i] # G[i]}
  <2>0. ASSUME NEW i \in 0..historyLen
        PROVE  F[i] = IF i = 0 THEN <<>>
                      ELSE IF Retained[i] > n THEN Append(F[i - 1], Retained[i]) ELSE F[i - 1]
    BY <1>6 DEF Collects
  <2>1. ASSUME NEW i \in 0..historyLen
        PROVE  G[i] = IF i = 0 THEN <<>>
                      ELSE IF Retained[i] > n THEN Append(G[i - 1], Retained[i]) ELSE G[i - 1]
    <3> HIDE DEF G
    <3> QED BY <1>5 DEF Collects
  <2> HIDE DEF G
  <2> SUFFICES ASSUME S # {} PROVE FALSE
    BY <1>1
  <2>2. PICK m \in S : \A k \in S : m <= k
    <3>1. S \in SUBSET Nat
      BY <1>1
    <3> HIDE DEF S
    <3> QED BY <3>1, LeastNumber
  <2>3. m \in 0..historyLen /\ F[m] # G[m]
    BY <2>2
  <2>4. CASE m = 0
    BY <2>0, <2>1, <2>3, <2>4
  <2>5. CASE m # 0
    <3>1. m - 1 \in 0..historyLen /\ m - 1 < m
      BY <1>1, <2>3, <2>5
    <3>2. F[m - 1] = G[m - 1]
      BY <2>2, <3>1
    <3> QED BY <2>0, <2>1, <2>3, <2>5, <3>2
  <2> QED BY <2>4, <2>5
<1>7. Replayed(n) = G[historyLen]
  <2> DEFINE out == CHOOSE x : Collects(x, n)
  <2>1. Replayed(n) = out[historyLen]
    BY DEF Replayed, Collects
  <2>2. \E x : Collects(x, n)
    <3> HIDE DEF G
    <3> QED BY <1>5
  <2>3. Collects(out, n)
    BY <2>2, Zenon
  <2> HIDE DEF out, G
  <2> QED BY <2>1, <2>3, <1>6
<1>8. G[historyLen] = After(o + d, historyLen - d)
  BY <1>1
<1> HIDE DEF G
<1>9. CASE n > o
  <2>1. o + d = n /\ historyLen - d = seq - n
    BY <1>1, <1>2, <1>9 DEF o
  <2> QED BY <1>7, <1>8, <1>9, <2>1 DEF o
<1>10. CASE ~(n > o)
  <2>1. o + d = o /\ historyLen - d = historyLen
    BY <1>1, <1>3, <1>10
  <2> QED BY <1>7, <1>8, <1>10, <2>1 DEF o
<1> QED BY <1>9, <1>10

(* Bus.Replay says truly whether it hands back all there is after a        *)
(* position.                                                               *)
LEMMA ReplayTellsTheTruth ==
  ASSUME TypeOK, RingOK
  PROVE  ReplayIsHonest
<1> SUFFICES ASSUME NEW n \in 0..(MaxSeq + 1)
             PROVE  Complete(n) <=> Replayed(n) = [i \in 1..(IF n < seq THEN seq - n ELSE 0) |-> n + i]
  BY DEF ReplayIsHonest
<1> DEFINE o == seq - historyLen
<1>1. n \in Nat /\ historyLen \in Nat /\ seq \in Nat /\ o \in Nat
  BY RetainedIs, BusAssumption
<1>2. Complete(n) <=> n >= seq \/ n >= o
  <2>1. historyLen > 0 => history[Start] = o + 1
    BY RetainedIs
  <2>2. historyLen = 0 => o = seq
    BY <1>1
  <2> HIDE DEF o
  <2> QED BY <1>1, <2>1, <2>2 DEF Complete
<1>3. [i \in 1..(IF n < seq THEN seq - n ELSE 0) |-> n + i] = After(n, seq - n)
  <2>1. (IF n < seq THEN seq - n ELSE 0) = (IF seq - n > 0 THEN seq - n ELSE 0)
    BY <1>1
  <2> QED BY <2>1 DEF After
<1>4. CASE n > o
  BY <1>1, <1>2, <1>3, <1>4, ReplayedIs
<1>5. CASE n = o
  <2>1. Replayed(n) = After(o, historyLen) /\ historyLen = seq - o
    BY <1>1, <1>5, ReplayedIs
  <2> QED BY <1>1, <1>2, <1>3, <1>5, <2>1
<1>6. CASE n < o
  <2>1. Replayed(n) = After(o, historyLen)
    BY <1>1, <1>6, ReplayedIs
  <2>2. Len(After(o, historyLen)) = historyLen
    BY <1>1, AfterIsSeq
  <2>3. Len(After(n, seq - n)) = seq - n
    <3> DEFINE k == seq - n
    <3>1. k \in Int /\ k >= 0 /\ n \in Int
      BY <1>1, <1>6
    <3> HIDE DEF k
    <3>2. Len(After(n, k)) = k
      BY <3>1, AfterIsSeq
    <3> QED BY <3>2 DEF k
  <2>4. historyLen # seq - n
    BY <1>1, <1>6
  <2> QED BY <1>1, <1>2, <1>3, <1>6, <2>1, <2>2, <2>3, <2>4
<1> QED BY <1>1, <1>4, <1>5, <1>6

(* Publish overwrites the oldest event of a full ring.                     *)
LEMMA RingStep ==
  ASSUME TypeOK, RingOK, NEW p \in Publishers, Publish(p)
  PROVE  RingOK'
<1> USE BusAssumption
<1>1. /\ historyLen \in 0..HistorySize /\ historyNext \in 0..(HistorySize - 1) /\ seq \in Nat
      /\ HistorySize \in Nat \ {0} /\ history \in [0..(HistorySize - 1) -> 0..MaxSeq]
  BY DEF TypeOK
<1>2. historyNext' = IF historyNext + 1 < HistorySize THEN historyNext + 1 ELSE 0
  <2> DEFINE x == historyNext + 1
  <2>1. x \in Nat /\ x < HistorySize + HistorySize /\ x <= HistorySize
    BY <1>1
  <2>2. historyNext' = x % HistorySize
    BY DEF Publish
  <2> HIDE DEF x
  <2>3. historyNext' = IF x < HistorySize THEN x ELSE x - HistorySize
    BY <1>1, <2>1, <2>2, WrapOnce
  <2> QED BY <1>1, <2>1, <2>3 DEF x
<1>3. /\ seq' = seq + 1 /\ history' = [history EXCEPT ![historyNext] = seq + 1]
      /\ historyLen' = IF historyLen < HistorySize THEN historyLen + 1 ELSE historyLen
  BY DEF Publish
<1>a. \A j \in 1..historyLen : history[Slot(j)] = seq - historyLen + j
  BY DEF RingOK
<1>4. CASE seq < HistorySize
  <2>1. historyLen = seq /\ historyNext = seq /\ historyLen' = seq + 1
    BY <1>1, <1>3, <1>4 DEF RingOK
  <2>2. ASSUME NEW i \in 1..(seq + 1) PROVE Slot(i)' = i - 1
    BY <1>1, <1>2, <1>3, <1>4, <2>1 DEF Slot
  <2>3. ASSUME NEW i \in 1..seq PROVE Slot(i) = i - 1 /\ history[i - 1] = i
    <3>1. Slot(i) = i - 1
      BY <1>1, <1>4, <2>1 DEF Slot
    <3> QED BY <1>1, <1>a, <2>1, <3>1
  <2>4. ASSUME NEW i \in 1..(seq + 1) PROVE history'[i - 1] = i
    BY <1>1, <1>3, <1>4, <2>1, <2>3
  <2> QED BY <1>1, <1>2, <1>3, <1>4, <2>1, <2>2, <2>4 DEF RingOK
<1>5. CASE ~(seq < HistorySize)
  <2>1. historyLen = HistorySize /\ historyLen' = HistorySize
    BY <1>1, <1>3, <1>5 DEF RingOK
  <2>2. ASSUME NEW i \in 1..HistorySize, i < HistorySize
        PROVE  /\ Slot(i)' = Slot(i + 1) /\ Slot(i + 1) # historyNext
               /\ Slot(i + 1) \in 0..(HistorySize - 1)
    BY <1>1, <1>2, <1>3, <2>1, <2>2 DEF Slot
  <2>3. Slot(HistorySize)' = historyNext
    BY <1>1, <1>2, <1>3, <2>1 DEF Slot
  <2>4. ASSUME NEW i \in 1..HistorySize PROVE history'[Slot(i)'] = seq' - HistorySize + i
    <3>1. CASE i < HistorySize
      <4>1. history[Slot(i + 1)] = seq - HistorySize + (i + 1)
        <5> DEFINE j == i + 1
        <5>1. j \in 1..historyLen
          BY <1>1, <2>1, <3>1
        <5> HIDE DEF j
        <5>2. history[Slot(j)] = seq - HistorySize + j
          BY <1>a, <2>1, <5>1
        <5> QED BY <5>2 DEF j
      <4> QED BY <1>1, <1>3, <2>2, <3>1, <4>1
    <3>2. CASE i = HistorySize
      BY <1>1, <1>3, <2>3, <3>2
    <3> QED BY <3>1, <3>2
  <2> QED BY <1>1, <1>3, <1>5, <2>1, <2>4 DEF RingOK
<1> QED BY <1>4, <1>5

(* What a queue holds, as it grows and shrinks.                            *)
LEMMA ElementsOf ==
  ASSUME NEW S, NEW q \in Seq(S)
  PROVE  /\ Elements(q) \subseteq S /\ Elements(<<>>) = {}
         /\ \A e \in S : Elements(Append(q, e)) = Elements(q) \cup {e}
         /\ q # <<>> => /\ Head(q) \in S /\ Tail(q) \in Seq(S)
                        /\ Elements(q) = {Head(q)} \cup Elements(Tail(q))
<1>1. Elements(q) \subseteq S /\ Elements(<<>>) = {}
  BY DEF Elements
<1>2. ASSUME NEW e \in S PROVE Elements(Append(q, e)) = Elements(q) \cup {e}
  <2>1. /\ Len(q) \in Nat /\ DOMAIN q = 1..Len(q)
        /\ DOMAIN Append(q, e) = 1..(Len(q) + 1)
        /\ \A i \in 1..Len(q) : Append(q, e)[i] = q[i]
        /\ Append(q, e)[Len(q) + 1] = e
    BY AppendProperties, LenProperties
  <2> QED BY <2>1 DEF Elements
<1>3. ASSUME q # <<>>
      PROVE  /\ Head(q) \in S /\ Tail(q) \in Seq(S)
             /\ Elements(q) = {Head(q)} \cup Elements(Tail(q))
  <2>1. /\ Len(q) \in Nat \ {0} /\ DOMAIN q = 1..Len(q) /\ Head(q) = q[1] /\ Head(q) \in S
        /\ Tail(q) \in Seq(S) /\ DOMAIN Tail(q) = 1..(Len(q) - 1)
        /\ \A i \in 1..(Len(q) - 1) : Tail(q)[i] = q[i + 1]
    BY <1>3, HeadTailProperties, LenProperties
  <2>2. \A i \in 1..Len(q) : i = 1 \/ i - 1 \in 1..(Len(q) - 1)
    BY <2>1
  <2>3. \A i \in 1..Len(q) : i = 1 \/ q[i] = Tail(q)[i - 1]
    BY <2>1
  <2>4. \A i \in 1..(Len(q) - 1) : i + 1 \in 1..Len(q)
    BY <2>1
  <2>5. Elements(q) \subseteq {Head(q)} \cup Elements(Tail(q))
    <3> SUFFICES ASSUME NEW i \in 1..Len(q) PROVE q[i] \in {Head(q)} \cup Elements(Tail(q))
      BY <2>1 DEF Elements
    <3> QED BY <2>1, <2>2, <2>3 DEF Elements
  <2>6. Elements(Tail(q)) \subseteq Elements(q)
    BY <2>1, <2>4 DEF Elements
  <2>7. Head(q) \in Elements(q)
    BY <2>1 DEF Elements
  <2> QED BY <2>1, <2>5, <2>6, <2>7
<1> QED BY <1>1, <1>2, <1>3

LEMMA AppendElements ==
  ASSUME NEW S, NEW q \in Seq(S), NEW e \in S
  PROVE  Elements(Append(q, e)) = Elements(q) \cup {e}
BY ElementsOf

(* Nothing is queued that was not published.                               *)
LEMMA PublishedStep ==
  ASSUME IndInv, OnlyPublished, [Next]_busVars
  PROVE  OnlyPublished'
<1> USE BusAssumption
<1>0. TypeOK /\ Delivering /\ seq \in Nat
  BY DEF IndInv, TypeOK
<1>a. \A s \in Subs : ch[s] \in Seq(1..MaxSeq) /\ lagged[s] \in Nat /\ Cardinality(Pending(s)) \in Nat
  BY <1>0, PendingFinite DEF TypeOK
<1>b. Elements(<<>>) = {}
  BY DEF Elements
<1>1. ASSUME NEW p \in Publishers, Publish(p) PROVE OnlyPublished'
  <2>1. ASSUME NEW s \in Subs PROVE Elements(ch'[s]) \subseteq 1..seq'
    BY <1>0, <1>1 DEF OnlyPublished, Publish, subVars
  <2>2. ASSUME NEW q \in Publishers, pub'[q].targets # {} PROVE pub'[q].ev \in 1..seq'
    <3>1. CASE q = p
      <4>1. pub'[p] = Idle \/ pub'[p].ev = seq + 1
        BY <1>0, <1>1 DEF Publish, TypeOK
      <4>2. seq' = seq + 1 /\ seq + 1 \in 1..(seq + 1)
        BY <1>0, <1>1 DEF Publish
      <4> QED BY <2>2, <3>1, <4>1, <4>2 DEF Idle
    <3>2. CASE q # p
      <4>1. pub'[q] = pub[q] /\ seq' = seq + 1
        BY <1>0, <1>1, <3>2 DEF Publish, TypeOK
      <4> QED BY <1>0, <2>2, <4>1 DEF OnlyPublished
    <3> QED BY <3>1, <3>2
  <2>3. ASSUME NEW s \in Subs PROVE lagged'[s] + Cardinality(Pending(s)') <= seq'
    <3>1. CASE s \in subscribers
      <4>1. Cardinality(Pending(s)') = Cardinality(Pending(s)) + 1
        BY <1>0, <1>1, <3>1, PublishPending
      <4>2. lagged[s] + Cardinality(Pending(s)) <= seq /\ lagged' = lagged /\ seq' = seq + 1
        BY <1>1 DEF OnlyPublished, Publish, subVars
      <4> QED BY <1>0, <1>a, <4>1, <4>2
    <3>2. CASE s \notin subscribers
      <4>1. Pending(s)' = Pending(s)
        <5>1. ASSUME NEW q \in Publishers PROVE s \in pub'[q].targets <=> s \in pub[q].targets
          <6>1. CASE q = p
            BY <1>0, <1>1, <3>2, <6>1 DEF Publish, TypeOK, Idle
          <6>2. CASE q # p
            BY <1>0, <1>1, <6>2 DEF Publish, TypeOK
          <6> QED BY <6>1, <6>2
        <5> QED BY <5>1 DEF Pending
      <4>2. lagged[s] + Cardinality(Pending(s)) <= seq /\ lagged' = lagged /\ seq' = seq + 1
        BY <1>1 DEF OnlyPublished, Publish, subVars
      <4> QED BY <1>0, <1>a, <4>1, <4>2
    <3> QED BY <3>1, <3>2
  <2> QED BY <2>1, <2>2, <2>3 DEF OnlyPublished
<1>2. ASSUME NEW p \in Publishers, NEW s \in pub[p].targets, Deliver(p, s)
      PROVE  OnlyPublished'
  <2>0. s \in Subs /\ pub[p].ev \in 1..seq /\ pub[p].ev \in 1..MaxSeq /\ seq' = seq
    BY <1>0, <1>2 DEF OnlyPublished, Delivering, TypeOK, Deliver
  <2>1. ASSUME NEW t \in Subs PROVE Elements(ch'[t]) \subseteq 1..seq'
    <3>1. Elements(Append(ch[s], pub[p].ev)) = Elements(ch[s]) \cup {pub[p].ev}
      BY <1>a, <2>0, ElementsOf
    <3>2. ch'[t] = ch[t] \/ (t = s /\ ch'[t] = Append(ch[s], pub[p].ev))
      BY <1>0, <1>2, <2>0 DEF Deliver, TypeOK
    <3>3. CASE ch'[t] = ch[t]
      BY <2>0, <3>3 DEF OnlyPublished
    <3>4. CASE t = s /\ ch'[t] = Append(ch[s], pub[p].ev)
      <4>1. Elements(ch[s]) \subseteq 1..seq
        BY <2>0 DEF OnlyPublished
      <4> QED BY <2>0, <3>1, <3>4, <4>1
    <3> QED BY <3>2, <3>3, <3>4
  <2>2. ASSUME NEW q \in Publishers, pub'[q].targets # {} PROVE pub'[q].ev \in 1..seq'
    BY <1>0, <1>2, <2>0, <2>2, ServedTargets DEF OnlyPublished, Deliver
  <2>3. ASSUME NEW t \in Subs PROVE lagged'[t] + Cardinality(Pending(t)') <= seq'
    <3>1. CASE t = s
      <4>1. Cardinality(Pending(s)') = Cardinality(Pending(s)) - 1
        BY <1>0, <1>2, DeliverPending
      <4>2. lagged[s] + Cardinality(Pending(s)) <= seq
        BY <2>0 DEF OnlyPublished
      <4>3. lagged'[s] = lagged[s] \/ lagged'[s] = lagged[s] + 1
        BY <1>0, <1>2, <2>0 DEF Deliver, TypeOK
      <4> QED BY <1>0, <1>a, <2>0, <3>1, <4>1, <4>2, <4>3
    <3>2. CASE t # s
      <4>1. Pending(t)' = Pending(t) /\ lagged'[t] = lagged[t]
        <5>1. Pending(t)' = Pending(t)
          BY <1>0, <1>2, <3>2, DeliverPending
        <5>2. lagged'[t] = lagged[t]
          BY <1>0, <1>2, <2>0, <3>2 DEF Deliver, TypeOK
        <5> QED BY <5>1, <5>2
      <4> QED BY <2>0, <4>1 DEF OnlyPublished
    <3> QED BY <3>1, <3>2
  <2> QED BY <2>1, <2>2, <2>3 DEF OnlyPublished
<1>3. ASSUME NEW s \in Subs, Subscribe(s) PROVE OnlyPublished'
  BY <1>3 DEF OnlyPublished, Subscribe, Pending
<1>4. ASSUME NEW s \in Subs, Receive(s) PROVE OnlyPublished'
  <2>1. Elements(Tail(ch[s])) \subseteq Elements(ch[s])
    BY <1>4, <1>a, ElementsOf DEF Receive
  <2>2. \A t \in Subs : Elements(ch'[t]) \subseteq Elements(ch[t])
    BY <1>0, <1>4, <2>1 DEF Receive, TypeOK
  <2>3. \A t \in Subs : Pending(t)' = Pending(t)
    BY <1>4 DEF Receive, Pending
  <2> QED BY <1>4, <2>2, <2>3 DEF OnlyPublished, Receive
<1>5. ASSUME NEW s \in Subs, Unregister(s) PROVE OnlyPublished'
  BY <1>5 DEF OnlyPublished, Unregister, Pending, subVars
<1>6. ASSUME NEW s \in leaving, Shutdown(s) PROVE OnlyPublished'
  <2>1. \A t \in Subs : Elements(ch'[t]) \subseteq Elements(ch[t])
    BY <1>0, <1>6, <1>b DEF Shutdown, TypeOK
  <2>2. \A t \in Subs : Pending(t)' = Pending(t) /\ lagged'[t] <= lagged[t] /\ lagged'[t] \in Nat
    BY <1>0, <1>6, <1>a DEF Shutdown, Pending, TypeOK
  <2>3. \A t \in Subs : lagged'[t] + Cardinality(Pending(t)') <= seq
    BY <1>0, <1>a, <2>2 DEF OnlyPublished
  <2> QED BY <1>6, <2>1, <2>3 DEF OnlyPublished, Shutdown
<1>7. ASSUME Close PROVE OnlyPublished'
  BY <1>7 DEF OnlyPublished, Close, Pending, subVars
<1>8. ASSUME NEW s \in closing, CloseOne(s) PROVE OnlyPublished'
  BY <1>8 DEF OnlyPublished, CloseOne, Pending
<1>9. ASSUME UNCHANGED busVars PROVE OnlyPublished'
  BY <1>9 DEF OnlyPublished, Pending, busVars, subVars
<1> QED BY <1>1, <1>2, <1>3, <1>4, <1>5, <1>6, <1>7, <1>8, <1>9 DEF Next

-----------------------------------------------------------------------------
(* A step of the bus keeps the bus's part of the invariant.                *)
LEMMA BusStep ==
  ASSUME BusInv, [Next]_busVars
  PROVE  BusInv'
<1>0. TypeOK /\ RingOK /\ IndInv
  BY DEF BusInv, IndInv
<1>1. IndInv'
  BY TypeStep, CloseStep, ShapeStep, AccountStep DEF IndInv, BusInv
<1>2. OnlyPublished'
  BY PublishedStep DEF BusInv
<1>3. RingOK'
  <2>1. ASSUME NEW p \in Publishers, Publish(p) PROVE RingOK'
    BY <1>0, <2>1, RingStep
  <2>2. ASSUME UNCHANGED <<seq, history, historyNext, historyLen>> PROVE RingOK'
    BY <1>0, <2>2 DEF RingOK, Slot
  <2> QED BY <2>1, <2>2 DEF Next, Deliver, Subscribe, Receive, Unregister, Shutdown, Close,
               CloseOne, busVars, ringVars
<1> QED BY <1>1, <1>2, <1>3 DEF BusInv

(* A new process starts with an empty bus.                                 *)
LEMMA InitBusInv == Init => BusInv
<1> SUFFICES ASSUME Init PROVE BusInv
  OBVIOUS
<1>1. IndInv
  BY InitIndInv
<1>2. RingOK
  BY BusAssumption DEF Init, RingOK
<1>3. OnlyPublished
  <2>1. \A s \in Subs : Pending(s) = {}
    BY DEF Init, Pending, Idle
  <2>2. Elements(<<>>) = {}
    BY DEF Elements
  <2>3. \A s \in Subs : ch[s] = <<>> /\ lagged[s] + Cardinality(Pending(s)) = 0 /\ seq = 0
    <3>1. \A s \in Subs : Cardinality(Pending(s)) = 0
      BY <2>1, FS_EmptySet
    <3>2. \A s \in Subs : ch[s] = <<>> /\ lagged[s] = 0 /\ seq = 0
      BY DEF Init
    <3> QED BY <3>1, <3>2
  <2>4. \A s \in Subs : Elements(ch[s]) \subseteq 1..seq
    BY <2>2, <2>3
  <2>5. \A s \in Subs : lagged[s] + Cardinality(Pending(s)) <= seq
    BY <2>3
  <2>6. \A p \in Publishers : pub[p].targets = {}
    BY DEF Init, Idle
  <2> QED BY <2>4, <2>5, <2>6 DEF OnlyPublished
<1> QED BY <1>1, <1>2, <1>3 DEF BusInv

LEMMA RestartBus ==
  ASSUME BusInv, Restart
  PROVE  BusInv'
<1>1. Init'
  <2>1. DOMAIN history = 0..(HistorySize - 1)
    BY DEF BusInv, IndInv, TypeOK
  <2> QED BY <2>1 DEF Restart, Init
<1> QED BY <1>1, InitBusInv, PTL

(* The subscriptions are the clients'.                                     *)
LEMMA SubIs ==
  ASSUME NEW c \in Clients, NEW k \in 1..MaxConns
  PROVE  <<c, k>> \in Subs
BY StreamAssumption DEF AllSubs

(* Every step of the live view is a step of the bus, but for a restart.    *)
LEMMA StreamSteps ==
  ASSUME StreamInv, [StreamNext]_vars
  PROVE  [Next]_busVars \/ Restart
<1>0. StreamTypeOK /\ MaxConns \in Nat
  BY StreamAssumption DEF StreamInv
<1>1. ASSUME NEW c \in Clients, pc[c] # "away" PROVE Sub(c) \in Subs
  BY <1>1, SubIs DEF StreamInv, ClientInv, HandlerHolds, Sub
<1>2. ASSUME NEW p \in Publishers, StreamPublish(p) PROVE Next
  BY <1>2 DEF StreamPublish, Next
<1>3. ASSUME Bus PROVE Next
  BY <1>3 DEF Bus, Next
<1>4. ASSUME NEW c \in Clients, Connect(c) PROVE Next
  <2>1. conn[c] + 1 \in 1..MaxConns
    BY <1>0, <1>4 DEF Connect, StreamTypeOK
  <2>2. <<c, conn[c] + 1>> \in Subs
    BY <2>1, SubIs
  <2> QED BY <1>4, <2>2 DEF Connect, Next
<1>5. ASSUME NEW c \in Clients, Live(c) PROVE Next
  <2>1. Sub(c) \in Subs /\ Receive(Sub(c))
    BY <1>1, <1>5 DEF Live
  <2> QED BY <2>1 DEF Next
<1>6. ASSUME NEW c \in Clients, Leave(c) PROVE Next
  <2>1. Sub(c) \in Subs /\ Unregister(Sub(c))
    BY <1>1, <1>6 DEF Leave
  <2> QED BY <2>1 DEF Next
<1>7. ASSUME NEW c \in Clients, Left(c) PROVE Next
  <2>1. Sub(c) \in leaving /\ Shutdown(Sub(c))
    BY <1>7 DEF Left, Shutdown
  <2> QED BY <2>1 DEF Next
<1>8. ASSUME NEW c \in Clients,
             Replay(c) \/ WriteReplayed(c) \/ Flush(c) \/ ChannelClosed(c) \/ HangUp(c)
      PROVE  UNCHANGED busVars
  BY <1>8 DEF Replay, WriteReplayed, Flush, ChannelClosed, HangUp
<1>9. ASSUME UNCHANGED vars PROVE UNCHANGED busVars
  BY <1>9 DEF vars
<1> QED BY <1>2, <1>3, <1>4, <1>5, <1>6, <1>7, <1>8, <1>9 DEF StreamNext, Handler

-----------------------------------------------------------------------------
(* What a step may leave alone, as a client sees it: its handler, ...      *)
HandlerKept(d) ==
  /\ pc'[d] = pc[d] /\ conn'[d] = conn[d] /\ position'[d] = position[d]
  /\ since'[d] = since[d] /\ toWrite'[d] = toWrite[d] /\ baseline'[d] = baseline[d]
  /\ owed'[d] = owed[d] /\ excused'[d] = excused[d]

(* ... its subscriptions, ...                                              *)
SubsKept(d) ==
  /\ closed => closed'
  /\ \A k \in 1..MaxConns :
       /\ state'[<<d, k>>] = "new" <=> state[<<d, k>>] = "new"
       /\ state[<<d, k>>] = "closed" => state'[<<d, k>>] = "closed"
       /\ <<d, k>> \in leaving' <=> <<d, k>> \in leaving
       /\ ~closed' /\ <<d, k>> \in subscribers => <<d, k>> \in subscribers'

(* ... and what is on its way to it.                                       *)
MailKept(d) ==
  /\ seq' = seq
  /\ \A k \in 1..MaxConns : k = conn[d] /\ pc[d] # "away" =>
       /\ ch'[<<d, k>>] = ch[<<d, k>>]
       /\ lagged'[<<d, k>>] = lagged[<<d, k>>]
       /\ \A q \in Publishers :
            /\ <<d, k>> \in pub'[q].targets <=> <<d, k>> \in pub[q].targets
            /\ <<d, k>> \in pub[q].targets => pub'[q].ev = pub[q].ev

(* A handler that is left alone still holds its subscription, ...          *)
LEMMA HoldsKept ==
  ASSUME NEW d \in Clients, HandlerHolds(d), pc'[d] = pc[d], conn'[d] = conn[d], SubsKept(d)
  PROVE  HandlerHolds(d)'
<1>1. Sub(d)' = Sub(d)
  BY DEF Sub
<1>2. pc[d] # "away" => conn[d] \in 1..MaxConns /\ Sub(d) = <<d, conn[d]>>
  BY DEF HandlerHolds, Sub
<1> QED BY <1>1, <1>2 DEF HandlerHolds, SubsKept

(* ... a bus that changes nothing for it leaves it with what it knew, ...  *)
LEMMA KnowsKept ==
  ASSUME NEW d \in Clients, HandlerHolds(d), HandlerKnows(d), HandlerKept(d), MailKept(d)
  PROVE  HandlerKnows(d)'
<1>1. Sub(d)' = Sub(d) /\ seq' = seq
  BY DEF Sub, HandlerKept, MailKept
<1>2. pc[d] # "away" => lagged'[Sub(d)] = lagged[Sub(d)]
  BY DEF HandlerHolds, Sub, MailKept
<1> QED BY <1>1, <1>2 DEF HandlerKnows, HandlerKept

(* ... and what it lacked is still on its way.                             *)
LEMMA ToldKept ==
  ASSUME NEW d \in Clients, HandlerHolds(d), Told(d), HandlerKept(d), MailKept(d)
  PROVE  Told(d)'
<1>1. Sub(d)' = Sub(d) /\ seq' = seq /\ Streaming(d)' = Streaming(d)
  BY DEF Sub, HandlerKept, MailKept, Streaming
<1>2. ASSUME Streaming(d)
      PROVE  lagged'[Sub(d)] = lagged[Sub(d)] /\ OnItsWay(d)' = OnItsWay(d)
  <2>1. conn[d] \in 1..MaxConns /\ Sub(d) = <<d, conn[d]>>
    BY <1>2 DEF HandlerHolds, Sub, Streaming
  <2>0. pc[d] # "away"
    BY <1>2 DEF Streaming
  <2>2. lagged'[Sub(d)] = lagged[Sub(d)] /\ ch'[Sub(d)] = ch[Sub(d)] /\ toWrite'[d] = toWrite[d]
    BY <2>0, <2>1 DEF MailKept, HandlerKept
  <2>3. \A q \in Publishers : /\ Sub(d) \in pub'[q].targets <=> Sub(d) \in pub[q].targets
                              /\ Sub(d) \in pub[q].targets => pub'[q].ev = pub[q].ev
    BY <2>0, <2>1 DEF MailKept
  <2>4. {pub'[p].ev : p \in {q \in Publishers : Sub(d) \in pub'[q].targets}}
          = {pub[p].ev : p \in {q \in Publishers : Sub(d) \in pub[q].targets}}
    BY <2>3
  <2> QED BY <1>1, <2>2, <2>4 DEF OnItsWay
<1> QED BY <1>1, <1>2 DEF Told, HandlerKept

LEMMA ClientKept ==
  ASSUME NEW d \in Clients, ClientInv(d), HandlerKept(d), SubsKept(d), MailKept(d)
  PROVE  ClientInv(d)'
<1>1. HandlerHolds(d)'
  BY HoldsKept DEF ClientInv, HandlerKept
<1>2. HandlerKnows(d)'
  BY KnowsKept DEF ClientInv
<1>3. Told(d) => Told(d)'
  BY ToldKept DEF ClientInv
<1> QED BY <1>1, <1>2, <1>3 DEF ClientInv, HandlerKept, SubsKept

(* A step of one client's subscription leaves the others' alone.           *)
LEMMA BusIdle ==
  ASSUME NEW d \in Clients, UNCHANGED busVars
  PROVE  SubsKept(d) /\ MailKept(d)
BY DEF busVars, subVars, ringVars, SubsKept, MailKept

LEMMA BusOther ==
  ASSUME TypeOK, NEW s \in Subs, NEW d \in Clients, \A k \in 1..MaxConns : <<d, k>> # s,
         Subscribe(s) \/ Receive(s) \/ Unregister(s) \/ Shutdown(s)
  PROVE  SubsKept(d) /\ MailKept(d)
<1>0. /\ \A k \in 1..MaxConns : <<d, k>> \in Subs /\ <<d, k>> # s
      /\ state \in [Subs -> {"new", "open", "closed"}]
      /\ lagged \in [Subs -> Nat] /\ ch \in [Subs -> Seq(1..MaxSeq)]
  BY SubIs DEF TypeOK
<1>1. CASE Subscribe(s)
  <2>1. SubsKept(d)
    BY <1>0, <1>1 DEF Subscribe, SubsKept
  <2>2. MailKept(d)
    BY <1>0, <1>1 DEF Subscribe, MailKept
  <2> QED BY <2>1, <2>2
<1>2. CASE Receive(s)
  <2>1. SubsKept(d)
    BY <1>0, <1>2 DEF Receive, SubsKept
  <2>2. MailKept(d)
    BY <1>0, <1>2 DEF Receive, MailKept
  <2> QED BY <2>1, <2>2
<1>3. CASE Unregister(s)
  <2>1. SubsKept(d)
    BY <1>0, <1>3 DEF Unregister, SubsKept, subVars
  <2>2. MailKept(d)
    BY <1>0, <1>3 DEF Unregister, MailKept, subVars
  <2> QED BY <2>1, <2>2
<1>4. CASE Shutdown(s)
  <2>1. SubsKept(d)
    BY <1>0, <1>4 DEF Shutdown, ShutdownOne, SubsKept
  <2>2. MailKept(d)
    BY <1>0, <1>4 DEF Shutdown, MailKept
  <2> QED BY <2>1, <2>2
<1> QED BY <1>1, <1>2, <1>3, <1>4

(* A step of one client is none of another client's.                       *)
ClientStep(c) ==
  \/ Connect(c) \/ Handler(c) \/ HangUp(c)

LEMMA OthersKept ==
  ASSUME StreamInv, NEW c \in Clients, NEW d \in Clients, d # c, ClientStep(c)
  PROVE  ClientInv(d)'
<1>0. /\ TypeOK /\ ClientInv(d) /\ ClientInv(c) /\ MaxConns \in Nat
      /\ pc \in [Clients -> {"away", "subscribed", "replaying", "live", "returning", "closing"}]
      /\ conn \in [Clients -> 0..MaxConns]
      /\ position \in [Clients -> None..MaxSeq] /\ since \in [Clients -> None..MaxSeq]
      /\ toWrite \in [Clients -> Seq(1..MaxSeq)] /\ baseline \in [Clients -> 0..MaxSeq]
      /\ owed \in [Clients -> SUBSET (1..MaxSeq)] /\ excused \in [Clients -> BOOLEAN]
  BY StreamAssumption DEF StreamInv, StreamTypeOK, BusInv, IndInv
<1>1. HandlerKept(d)
  <2>1. CASE Connect(c)
    BY <1>0, <2>1 DEF Connect, WriteNothing, HandlerKept
  <2>2. CASE Replay(c)
    BY <1>0, <2>2 DEF Replay, WriteNothing, WriteResync, HandlerKept
  <2>3. CASE WriteReplayed(c)
    BY <1>0, <2>3 DEF WriteReplayed, WriteEvent, HandlerKept
  <2>4. CASE Flush(c)
    BY <1>0, <2>4 DEF Flush, HandlerKept
  <2>5. CASE Live(c)
    BY <1>0, <2>5 DEF Live, WriteEvent, WriteNothing, WriteResync, HandlerKept
  <2>6. CASE ChannelClosed(c)
    BY <1>0, <2>6 DEF ChannelClosed, WriteResync, HandlerKept
  <2>7. CASE HangUp(c)
    BY <1>0, <2>7 DEF HangUp, HandlerKept
  <2>8. CASE Leave(c)
    BY <1>0, <2>8 DEF Leave, HandlerKept
  <2>9. CASE Left(c)
    BY <1>0, <2>9 DEF Left, HandlerKept
  <2> QED BY <2>1, <2>2, <2>3, <2>4, <2>5, <2>6, <2>7, <2>8, <2>9 DEF ClientStep, Handler
<1>2. SubsKept(d) /\ MailKept(d)
  <2>1. CASE Connect(c)
    <3>1. conn[c] + 1 \in 1..MaxConns /\ Subscribe(<<c, conn[c] + 1>>)
      BY <1>0, <2>1 DEF Connect
    <3>2. <<c, conn[c] + 1>> \in Subs
      BY <3>1, SubIs
    <3> QED BY <1>0, <3>1, <3>2, BusOther
  <2>2. CASE Live(c) \/ Leave(c) \/ Left(c)
    <3>1. conn[c] \in 1..MaxConns
      BY <1>0, <2>2 DEF Live, Leave, Left, ClientInv, HandlerHolds
    <3>2. Sub(c) \in Subs /\ \A k \in 1..MaxConns : <<d, k>> # Sub(c)
      BY <3>1, SubIs DEF Sub
    <3>3. Receive(Sub(c)) \/ Unregister(Sub(c)) \/ Shutdown(Sub(c))
      BY <2>2 DEF Live, Leave, Left
    <3> QED BY <1>0, <3>2, <3>3, BusOther
  <2>3. CASE UNCHANGED busVars
    BY <2>3, BusIdle
  <2> QED BY <2>1, <2>2, <2>3
          DEF ClientStep, Handler, Replay, WriteReplayed, Flush, ChannelClosed, HangUp
<1> QED BY <1>0, <1>1, <1>2, ClientKept

-----------------------------------------------------------------------------
(* What the parts of the invariant say of one client, in one place.        *)
LEMMA ClientFacts ==
  ASSUME StreamInv, NEW d \in Clients
  PROVE  /\ TypeOK /\ IndInv /\ OnlyPublished /\ RingOK /\ MaxConns \in Nat /\ MaxSeq \in Nat
         /\ HandlerHolds(d) /\ HandlerKnows(d)
         /\ excused[d] \/ closed \/ Told(d)
         /\ seq \in 0..MaxSeq /\ position[d] \in Int /\ since[d] \in Int /\ baseline[d] \in Nat
         /\ toWrite[d] \in Seq(1..MaxSeq) /\ Len(toWrite[d]) \in Nat
         /\ owed[d] \subseteq 1..seq /\ excused[d] \in BOOLEAN /\ conn[d] \in 0..MaxConns
         /\ pc[d] # "away" => /\ Sub(d) \in Subs /\ lagged[Sub(d)] \in Nat
                              /\ ch[Sub(d)] \in Seq(1..MaxSeq)
<1>1. /\ TypeOK /\ IndInv /\ OnlyPublished /\ RingOK /\ MaxConns \in Nat /\ MaxSeq \in Nat
      /\ HandlerHolds(d) /\ HandlerKnows(d) /\ (excused[d] \/ closed \/ Told(d))
  BY StreamAssumption, BusAssumption DEF StreamInv, BusInv, IndInv, ClientInv
<1>2. /\ seq \in 0..MaxSeq /\ position[d] \in Int /\ since[d] \in Int /\ baseline[d] \in Nat
      /\ excused[d] \in BOOLEAN /\ conn[d] \in 0..MaxConns
  BY <1>1 DEF TypeOK, StreamInv, StreamTypeOK, None
<1>3. toWrite[d] \in Seq(1..MaxSeq) /\ Len(toWrite[d]) \in Nat /\ owed[d] \subseteq 1..seq
  BY <1>1, LenProperties DEF StreamInv, StreamTypeOK, HandlerKnows
<1>4. ASSUME pc[d] # "away"
      PROVE  Sub(d) \in Subs /\ lagged[Sub(d)] \in Nat /\ ch[Sub(d)] \in Seq(1..MaxSeq)
  <2>1. Sub(d) \in Subs
    BY <1>1, <1>4, SubIs DEF HandlerHolds, Sub
  <2> QED BY <1>1, <2>1 DEF TypeOK
<1> QED BY <1>1, <1>2, <1>3, <1>4

(* A streaming handler's subscription is a target of every publisher.      *)
LEMMA StreamingIsRegistered ==
  ASSUME StreamInv, NEW d \in Clients, Streaming(d), ~closed
  PROVE  Sub(d) \in subscribers /\ state[Sub(d)] = "open" /\ pc[d] # "away"
BY ClientFacts DEF Streaming, HandlerHolds, IndInv, ClosedAtMostOnce

(* What is published is owed to every client, and on its way to those that *)
(* are streaming.                                                          *)
LEMMA PublishClients ==
  ASSUME StreamInv, NEW p \in Publishers, StreamPublish(p), NEW d \in Clients
  PROVE  ClientInv(d)'
<1>0. Publish(p) /\ ~closed /\ seq' = seq + 1 /\ closed' = closed
  BY DEF StreamPublish, Publish
<1>a. /\ pc' = pc /\ conn' = conn /\ position' = position /\ since' = since /\ toWrite' = toWrite
      /\ baseline' = baseline /\ excused' = excused /\ owed'[d] = owed[d] \cup {seq + 1}
      /\ ch' = ch /\ lagged' = lagged /\ Sub(d)' = Sub(d)
  BY DEF StreamPublish, Publish, subVars, Sub
<1>b. /\ seq \in Nat /\ HandlerHolds(d) /\ HandlerKnows(d) /\ (excused[d] \/ Told(d))
      /\ position[d] \in Int /\ since[d] \in Int /\ owed[d] \subseteq 1..seq
      /\ toWrite[d] \in Seq(1..MaxSeq) /\ Len(toWrite[d]) \in Nat /\ TypeOK
  BY <1>0, ClientFacts
<1>1. HandlerHolds(d)'
  <2>1. SubsKept(d)
    BY <1>0 DEF Publish, subVars, SubsKept
  <2> QED BY <1>a, <1>b, <2>1, HoldsKept
<1>2. HandlerKnows(d)'
  <2>1. \A i \in 1..Len(toWrite[d]) : toWrite[d][i] \in 1..(seq + 1) /\ since[d] < toWrite[d][i]
    BY <1>b DEF HandlerKnows
  <2>2. pc[d] # "away" => position[d] = since[d] \/ position[d] \in 1..(seq + 1)
    BY <1>b DEF HandlerKnows
  <2>3. owed'[d] \subseteq 1..(seq + 1)
    BY <1>a, <1>b
  <2> QED BY <1>0, <1>a, <1>b, <2>1, <2>2, <2>3 DEF HandlerKnows
<1>3. ASSUME Told(d) PROVE Told(d)'
  <2>1. position'[d] <= seq' /\ \A ev \in owed'[d] : ev > position'[d]
    BY <1>0, <1>a, <1>b, <1>3 DEF Told
  <2>2. \A ev \in owed'[d] : \/ ev \in Elements(toWrite'[d])
                             \/ \A i \in 1..Len(toWrite'[d]) : ev > toWrite'[d][i]
    <3>1. \A i \in 1..Len(toWrite[d]) : seq + 1 > toWrite[d][i]
      BY <1>b DEF HandlerKnows
    <3> QED BY <1>a, <1>3, <3>1 DEF Told
  <2>3. ASSUME Streaming(d)
        PROVE  owed'[d] \subseteq OnItsWay(d)' \/ lagged'[Sub(d)] # baseline'[d]
    <3>1. Sub(d) \in subscribers
      BY <1>0, <2>3, StreamingIsRegistered
    <3>2. pub'[p] = [ev |-> seq + 1, targets |-> subscribers] /\ pub[p] = Idle
      BY <1>0, <1>b, <3>1 DEF Publish, TypeOK
    <3>3. \A q \in Publishers : q # p => pub'[q] = pub[q]
      BY <1>0, <1>b DEF Publish, TypeOK
    <3>4. seq + 1 \in OnItsWay(d)'
      BY <1>a, <3>1, <3>2 DEF OnItsWay
    <3>5. OnItsWay(d) \subseteq OnItsWay(d)'
      <4>1. \A q \in Publishers : Sub(d) \in pub[q].targets => pub'[q] = pub[q]
        BY <3>2, <3>3 DEF Idle
      <4>2. {pub[r].ev : r \in {q \in Publishers : Sub(d) \in pub[q].targets}}
              \subseteq {pub'[r].ev : r \in {q \in Publishers : Sub(d) \in pub'[q].targets}}
        BY <4>1
      <4> QED BY <1>a, <4>2 DEF OnItsWay
    <3> QED BY <1>a, <1>3, <2>3, <3>4, <3>5 DEF Told
  <2> QED BY <1>a, <2>1, <2>2, <2>3 DEF Told, Streaming
<1> QED BY <1>a, <1>b, <1>1, <1>2, <1>3 DEF ClientInv

(* A delivery moves an event from its publisher to the queue, or counts it *)
(* where the handler looks.                                                *)
LEMMA DeliverClients ==
  ASSUME StreamInv, NEW p \in Publishers, NEW s \in pub[p].targets, Deliver(p, s),
         UNCHANGED streamVars, NEW d \in Clients
  PROVE  ClientInv(d)'
<1>0. /\ pc' = pc /\ conn' = conn /\ position' = position /\ since' = since /\ toWrite' = toWrite
      /\ baseline' = baseline /\ excused' = excused /\ owed' = owed /\ Sub(d)' = Sub(d)
      /\ seq' = seq /\ closed' = closed
  BY DEF streamVars, Deliver, Sub
<1>a. /\ TypeOK /\ HandlerHolds(d) /\ HandlerKnows(d) /\ (excused[d] \/ closed \/ Told(d))
      /\ ClientInv(d) /\ s \in Subs /\ pub[p].ev \in 1..MaxSeq
  BY ClientFacts DEF StreamInv, IndInv, TypeOK, Delivering
<1>b. HandlerKept(d) /\ SubsKept(d)
  BY <1>0 DEF HandlerKept, SubsKept, Deliver
<1>1. CASE pc[d] = "away" \/ Sub(d) # s
  <2>1. ASSUME NEW k \in 1..MaxConns, k = conn[d], pc[d] # "away"
        PROVE  /\ ch'[<<d, k>>] = ch[<<d, k>>] /\ lagged'[<<d, k>>] = lagged[<<d, k>>]
               /\ \A q \in Publishers :
                    /\ <<d, k>> \in pub'[q].targets <=> <<d, k>> \in pub[q].targets
                    /\ <<d, k>> \in pub[q].targets => pub'[q].ev = pub[q].ev
    <3>1. <<d, k>> # s /\ <<d, k>> \in Subs
      BY <1>1, <2>1, SubIs DEF Sub
    <3>2. ch'[<<d, k>>] = ch[<<d, k>>] /\ lagged'[<<d, k>>] = lagged[<<d, k>>]
      BY <1>a, <3>1 DEF Deliver, TypeOK
    <3>3. ASSUME NEW q \in Publishers
          PROVE  /\ <<d, k>> \in pub'[q].targets <=> <<d, k>> \in pub[q].targets
                 /\ <<d, k>> \in pub[q].targets => pub'[q].ev = pub[q].ev
      <4>1. CASE q = p
        BY <1>a, <3>1, <4>1, ServedTargets DEF Deliver
      <4>2. CASE q # p
        BY <1>a, <4>2, ServedTargets DEF Deliver
      <4> QED BY <4>1, <4>2
    <3> QED BY <3>2, <3>3
  <2>2. MailKept(d)
    BY <1>0, <2>1 DEF MailKept
  <2> QED BY <1>a, <1>b, <2>2, ClientKept
<1>2. CASE pc[d] # "away" /\ Sub(d) = s
  <2>0. /\ lagged[s] \in Nat /\ ch[s] \in Seq(1..MaxSeq) /\ Len(ch[s]) \in Nat
        /\ SubscriberBuffer \in Nat /\ baseline[d] \in Nat
    BY <1>2, ClientFacts, LenProperties, BusAssumption
  <2>1. HandlerHolds(d)'
    BY <1>0, <1>a, <1>b, HoldsKept
  <2>2. lagged'[s] = lagged[s] \/ lagged'[s] = lagged[s] + 1
    BY <1>a DEF Deliver, TypeOK
  <2>3. HandlerKnows(d)'
    <3>1. pc[d] = "live" => baseline[d] <= lagged'[s]
      BY <1>2, <1>a, <2>0, <2>2 DEF HandlerKnows
    <3> QED BY <1>0, <1>2, <1>a, <3>1 DEF HandlerKnows
  <2>4. ASSUME Told(d), ~closed PROVE Told(d)'
    <3>1. ASSUME Streaming(d)
          PROVE  owed[d] \subseteq OnItsWay(d)' \/ lagged'[s] # baseline[d]
      <4>0. state[s] = "open"
        BY <1>2, <2>4, <3>1, StreamingIsRegistered
      <4>1. CASE Len(ch[s]) < SubscriberBuffer
        <5>1. ch'[s] = Append(ch[s], pub[p].ev) /\ lagged' = lagged
          BY <1>a, <2>0, <4>0, <4>1 DEF Deliver, TypeOK
        <5>2. Elements(ch'[s]) = Elements(ch[s]) \cup {pub[p].ev}
          <6>1. Elements(Append(ch[s], pub[p].ev)) = Elements(ch[s]) \cup {pub[p].ev}
            <7> DEFINE S == 1..MaxSeq
            <7>1. ch[s] \in Seq(S) /\ pub[p].ev \in S
              BY <1>a, <2>0
            <7> HIDE DEF S
            <7> QED BY <7>1, AppendElements
          <6> QED BY <5>1, <6>1
        <5>3. \A q \in Publishers : q # p => pub'[q] = pub[q]
          BY <1>a, ServedTargets DEF Deliver
        <5>4. {pub[r].ev : r \in {q \in Publishers : s \in pub[q].targets}}
                \subseteq {pub[p].ev}
                  \cup {pub'[r].ev : r \in {q \in Publishers : s \in pub'[q].targets}}
          BY <5>3
        <5>5. OnItsWay(d) \subseteq OnItsWay(d)'
          BY <1>0, <1>2, <5>2, <5>4 DEF OnItsWay
        <5> QED BY <1>2, <2>4, <3>1, <5>1, <5>5 DEF Told
      <4>2. CASE ~(Len(ch[s]) < SubscriberBuffer)
        <5>1. lagged'[s] = lagged[s] + 1
          BY <1>a, <2>0, <4>0, <4>2 DEF Deliver, TypeOK
        <5>2. baseline[d] <= lagged[s]
          BY <1>2, <1>a, <2>0, <3>1 DEF HandlerKnows, Streaming
        <5> QED BY <2>0, <5>1, <5>2
      <4> QED BY <4>1, <4>2
    <3> QED BY <1>0, <1>2, <2>4, <3>1 DEF Told, Streaming
  <2> QED BY <1>0, <1>a, <2>1, <2>3, <2>4 DEF ClientInv
<1> QED BY <1>1, <1>2

LEMMA BusClients ==
  ASSUME StreamInv, Bus, NEW d \in Clients
  PROVE  ClientInv(d)'
<1>0. UNCHANGED streamVars /\ ClientInv(d)
  BY DEF Bus, StreamInv
<1>1. HandlerKept(d)
  BY <1>0 DEF streamVars, HandlerKept
<1>2. CASE Close
  <2>1. SubsKept(d) /\ MailKept(d)
    BY <1>2 DEF Close, SubsKept, MailKept, subVars
  <2> QED BY <1>0, <1>1, <2>1, ClientKept
<1>3. ASSUME NEW s \in closing, CloseOne(s) PROVE ClientInv(d)'
  <2>1. s \in Subs /\ state[s] # "new" /\ state \in [Subs -> {"new", "open", "closed"}]
    BY <1>3 DEF StreamInv, BusInv, IndInv, TypeOK, Fresh
  <2>2. SubsKept(d)
    <3>1. \A k \in 1..MaxConns : <<d, k>> \in Subs
      BY SubIs
    <3>2. \A t \in Subs : state'[t] = IF t = s THEN "closed" ELSE state[t]
      BY <1>3, <2>1 DEF CloseOne, ShutdownOne
    <3> QED BY <1>3, <2>1, <3>1, <3>2 DEF CloseOne, SubsKept
  <2>3. MailKept(d)
    BY <1>3 DEF CloseOne, MailKept
  <2> QED BY <1>0, <1>1, <2>2, <2>3, ClientKept
<1>4. ASSUME NEW p \in Publishers, NEW s \in pub[p].targets, Deliver(p, s)
      PROVE  ClientInv(d)'
  BY <1>0, <1>4, DeliverClients
<1> QED BY <1>2, <1>3, <1>4 DEF Bus

-----------------------------------------------------------------------------
(* The steps of a client's own handler.                                    *)

(* While the handler runs it keeps its subscription.                       *)
Running == {"subscribed", "replaying", "live", "returning"}

LEMMA RunningHolds ==
  ASSUME NEW c \in Clients, HandlerHolds(c), pc[c] \in Running, pc'[c] \in Running,
         conn'[c] = conn[c], SubsKept(c)
  PROVE  HandlerHolds(c)'
<1>1. Sub(c)' = Sub(c) /\ conn[c] \in 1..MaxConns /\ Sub(c) = <<c, conn[c]>>
  BY DEF Sub, HandlerHolds, Running
<1> QED BY <1>1 DEF HandlerHolds, SubsKept, Running

(* Connect: the stream starts at the position the console brings.          *)
LEMMA ConnectStep ==
  ASSUME StreamInv, NEW c \in Clients, Connect(c)
  PROVE  ClientInv(c)'
<1> DEFINE n == conn[c] + 1
           s == <<c, n>>
<1>0. /\ TypeOK /\ IndInv /\ HandlerHolds(c) /\ HandlerKnows(c)
      /\ (excused[c] \/ closed \/ Told(c)) /\ conn[c] \in 0..MaxConns /\ MaxConns \in Nat
      /\ position[c] \in Int /\ seq \in Nat
  BY ClientFacts
<1>1. /\ pc[c] = "away" /\ n \in 1..MaxConns /\ Subscribe(s) /\ s \in Subs
      /\ pc'[c] = "subscribed" /\ conn'[c] = n /\ since'[c] = position[c]
      /\ position' = position /\ owed' = owed /\ excused' = excused
      /\ toWrite' = toWrite /\ baseline' = baseline /\ Sub(c)' = s
  BY <1>0, SubIs DEF Connect, WriteNothing, StreamInv, StreamTypeOK, Sub
<1>2. /\ state[s] = "new" /\ s \notin leaving /\ leaving' = leaving
      /\ closed' = closed /\ seq' = seq
  BY <1>0, <1>1 DEF Subscribe, IndInv, Fresh
<1>3. state'[s] # "new" /\ (~closed' => s \in subscribers')
  BY <1>0, <1>1, <1>2 DEF Subscribe, TypeOK
<1>4. \A k \in 1..MaxConns : k # n => state'[<<c, k>>] = state[<<c, k>>]
  BY <1>0, <1>1, SubIs DEF Subscribe, TypeOK
<1>5. HandlerHolds(c)'
  <2>1. \A k \in 1..MaxConns : n < k => state'[<<c, k>>] = "new"
    BY <1>0, <1>4 DEF HandlerHolds
  <2>2. \A k \in 1..MaxConns : k < n => state'[<<c, k>>] = "closed" /\ <<c, k>> \notin leaving'
    BY <1>0, <1>1, <1>2, <1>4 DEF HandlerHolds
  <2> HIDE DEF n, s
  <2> QED BY <1>1, <1>2, <1>3, <2>1, <2>2 DEF HandlerHolds
<1>6. HandlerKnows(c)'
  <2>1. toWrite[c] = <<>> /\ baseline[c] = 0 /\ owed[c] \subseteq 1..seq
    BY <1>0, <1>1 DEF HandlerKnows
  <2> QED BY <1>0, <1>1, <1>2, <2>1 DEF HandlerKnows
<1>7. Told(c) => Told(c)'
  BY <1>1, <1>2 DEF Told, Streaming
<1> QED BY <1>0, <1>1, <1>2, <1>5, <1>6, <1>7 DEF ClientInv

(* What Replay hands back, and whether it is all there is.                 *)
LEMMA ReplayGives ==
  ASSUME TypeOK, RingOK, NEW n \in Nat
  PROVE  /\ Replayed(n) \in Seq(1..MaxSeq)
         /\ \A i \in 1..Len(Replayed(n)) : Replayed(n)[i] \in 1..seq /\ n < Replayed(n)[i]
         /\ \A i, j \in 1..Len(Replayed(n)) : i < j => Replayed(n)[i] < Replayed(n)[j]
         /\ Complete(n) => \A e \in 1..seq : e > n => e \in Elements(Replayed(n))
         /\ ~Complete(n) => n < seq
<1> DEFINE o == seq - historyLen
           m == IF n > o THEN n ELSE o
           k == seq - m
           r == After(m, k)
<1>1. historyLen \in Nat /\ seq \in 0..MaxSeq /\ o \in Nat /\ m \in Nat /\ k \in Int /\ m >= n
        /\ MaxSeq \in Nat
  BY RetainedIs, BusAssumption DEF TypeOK
<1>2. Replayed(n) = r
  <2>1. CASE n > o
    BY <2>1, ReplayedIs
  <2>2. CASE ~(n > o)
    <3>1. k = historyLen
      BY <1>1, <2>2
    <3> QED BY <2>2, <3>1, ReplayedIs
  <2> QED BY <2>1, <2>2
<1>3. Complete(n) <=> n >= seq \/ n >= o
  <2>1. historyLen > 0 => history[Start] = o + 1
    BY RetainedIs
  <2>2. historyLen = 0 => o = seq
    BY <1>1
  <2> HIDE DEF o
  <2> QED BY <1>1, <2>1, <2>2 DEF Complete
<1>4. ~Complete(n) => n < seq
  BY <1>1, <1>3
<1>5. /\ r \in Seq(1..MaxSeq) /\ Len(r) = (IF k > 0 THEN k ELSE 0)
      /\ \A i \in 1..Len(r) : r[i] = m + i
  <2> DEFINE b == IF k > 0 THEN k ELSE 0
  <2>1. r = [j \in 1..b |-> m + j]
    BY DEF After
  <2>2. \A j \in 1..b : m + j \in 1..MaxSeq
    BY <1>1
  <2>3. b \in Nat
    BY <1>1
  <2> HIDE DEF b, m, r
  <2>4. r \in Seq(1..MaxSeq) /\ Len(r) = b /\ \A i \in 1..b : r[i] = m + i
    BY <2>1, <2>2, <2>3
  <2> QED BY <2>4 DEF b
<1>6. \A i \in 1..Len(r) : r[i] \in 1..seq /\ n < r[i]
  <2> HIDE DEF r
  <2> QED BY <1>1, <1>5
<1>7. \A i, j \in 1..Len(r) : i < j => r[i] < r[j]
  <2> HIDE DEF r, m, k, o
  <2> QED BY <1>1, <1>5
<1>8. ASSUME Complete(n), NEW e \in 1..seq, e > n PROVE e \in Elements(r)
  <2>1. m = n /\ e - n \in 1..k
    BY <1>1, <1>3, <1>8
  <2>2. e - n \in 1..Len(r) /\ r[e - n] = e
    <3> HIDE DEF r
    <3> QED BY <1>1, <1>5, <2>1
  <2>3. DOMAIN r = 1..Len(r)
    <3> HIDE DEF r
    <3> QED BY <1>5, LenProperties
  <2> HIDE DEF r
  <2> QED BY <2>2, <2>3 DEF Elements
<1> HIDE DEF r
<1> QED BY <1>2, <1>4, <1>5, <1>6, <1>7, <1>8


(* Replay: what the console lacks is in the replay, or a resync tells it.  *)
LEMMA ReplayStep ==
  ASSUME StreamInv, NEW c \in Clients, Replay(c)
  PROVE  ClientInv(c)' /\ toWrite'[c] \in Seq(1..MaxSeq)
<1>0. /\ TypeOK /\ RingOK /\ HandlerHolds(c) /\ HandlerKnows(c)
      /\ (excused[c] \/ closed \/ Told(c)) /\ seq \in Nat
      /\ position[c] \in Int /\ since[c] \in Int /\ owed[c] \subseteq 1..seq
  BY ClientFacts
<1>1. /\ pc[c] = "subscribed" /\ pc'[c] = "replaying" /\ conn' = conn /\ since' = since
      /\ baseline' = baseline /\ position' = position /\ UNCHANGED busVars /\ Sub(c)' = Sub(c)
      /\ toWrite[c] = <<>> /\ since[c] = position[c] /\ baseline[c] = 0
  BY <1>0 DEF Replay, StreamInv, StreamTypeOK, WriteNothing, WriteResync, Sub, HandlerKnows
<1>a. seq' = seq /\ closed' = closed
  BY <1>1 DEF busVars
<1>2. HandlerHolds(c)'
  BY <1>0, <1>1, BusIdle, RunningHolds DEF Running
<1>3. CASE since[c] = None
  <2>1. toWrite'[c] = <<>> /\ owed'[c] = {} /\ position'[c] = -1
    BY <1>1, <1>3 DEF Replay, WriteResync, None, StreamInv, StreamTypeOK
  <2>2. HandlerKnows(c)'
    BY <1>1, <1>a, <2>1, <1>3 DEF HandlerKnows, None
  <2>3. Told(c)'
    BY <1>0, <1>a, <2>1 DEF Told
  <2>4. <<>> \in Seq(1..MaxSeq)
    OBVIOUS
  <2> QED BY <1>2, <2>1, <2>2, <2>3, <2>4 DEF ClientInv
<1>4. CASE since[c] # None
  <2> DEFINE r == Replayed(since[c])
  <2>0. since[c] \in Nat
    BY <1>4 DEF StreamInv, StreamTypeOK, None
  <2>1. /\ r \in Seq(1..MaxSeq)
        /\ \A i \in 1..Len(r) : r[i] \in 1..seq /\ since[c] < r[i]
        /\ \A i, j \in 1..Len(r) : i < j => r[i] < r[j]
        /\ Complete(since[c]) => \A e \in 1..seq : e > since[c] => e \in Elements(r)
        /\ ~Complete(since[c]) => since[c] < seq
    BY <1>0, <2>0, ReplayGives
  <2>2. toWrite'[c] = r
    BY <1>4 DEF Replay, StreamInv, StreamTypeOK
  <2> HIDE DEF r
  <2>3. (owed'[c] = owed[c] /\ excused'[c] = excused[c] /\ Complete(since[c]))
          \/ (owed'[c] = {} /\ ~Complete(since[c]))
    BY <1>4 DEF Replay, WriteNothing, WriteResync, StreamInv, StreamTypeOK
  <2>4. HandlerKnows(c)'
    <3>1. owed'[c] \subseteq 1..seq
      BY <1>0, <2>3
    <3> QED BY <1>0, <1>1, <1>a, <2>1, <2>2, <3>1 DEF HandlerKnows
  <2>5. CASE owed'[c] = owed[c] /\ excused'[c] = excused[c] /\ Complete(since[c])
    <3>1. ASSUME Told(c) PROVE Told(c)'
      <4>1. owed[c] \subseteq Elements(r)
        BY <1>0, <1>1, <2>1, <2>5, <3>1 DEF Told
      <4>2. owed'[c] \subseteq OnItsWay(c)'
        BY <2>2, <2>5, <4>1 DEF OnItsWay
      <4> QED BY <1>1, <1>a, <2>2, <2>5, <3>1, <4>1, <4>2 DEF Told
    <3> QED BY <1>0, <1>a, <1>2, <2>1, <2>2, <2>4, <2>5, <3>1 DEF ClientInv
  <2>6. CASE owed'[c] = {} /\ ~Complete(since[c])
    <3>1. position'[c] <= seq'
      BY <1>0, <1>1, <1>a, <2>1, <2>6
    <3>2. Told(c)'
      BY <2>6, <3>1 DEF Told
    <3> QED BY <1>2, <2>1, <2>2, <2>4, <3>2 DEF ClientInv
  <2> QED BY <2>3, <2>5, <2>6
<1> QED BY <1>3, <1>4

(* The head of a sequence of ascending numbers is its least.               *)
LEMMA Ascending ==
  ASSUME NEW q \in Seq(Int), q # <<>>,
         \A i, j \in 1..Len(q) : i < j => q[i] < q[j]
  PROVE  /\ \A e \in Elements(Tail(q)) : Head(q) < e
         /\ \A i \in 1..Len(Tail(q)) : \E j \in 1..Len(q) : Tail(q)[i] = q[j]
         /\ \A i, j \in 1..Len(Tail(q)) : i < j => Tail(q)[i] < Tail(q)[j]
<1>1. /\ Len(q) \in Nat /\ Len(q) >= 1 /\ Head(q) = q[1] /\ Tail(q) \in Seq(Int)
      /\ Len(Tail(q)) = Len(q) - 1 /\ DOMAIN Tail(q) = 1..Len(Tail(q))
      /\ \A i \in 1..Len(Tail(q)) : Tail(q)[i] = q[i + 1]
  BY HeadTailProperties, LenProperties
<1>2. \A i \in 1..Len(Tail(q)) : i + 1 \in 1..Len(q) /\ 1 < i + 1 /\ 1 \in 1..Len(q)
  BY <1>1
<1>3. \A e \in Elements(Tail(q)) : Head(q) < e
  BY <1>1, <1>2 DEF Elements
<1>4. \A i \in 1..Len(Tail(q)) : \E j \in 1..Len(q) : Tail(q)[i] = q[j]
  BY <1>1, <1>2
<1>5. ASSUME NEW i \in 1..Len(Tail(q)), NEW j \in 1..Len(Tail(q)), i < j
      PROVE  Tail(q)[i] < Tail(q)[j]
  BY <1>1, <1>2, <1>5
<1> QED BY <1>3, <1>4, <1>5


(* A write of the replay brings the console to the next event it lacks.    *)
LEMMA WriteReplayedStep ==
  ASSUME StreamInv, NEW c \in Clients, WriteReplayed(c)
  PROVE  /\ ClientInv(c)' /\ toWrite'[c] \in Seq(1..MaxSeq)
         /\ position'[c] \in None..MaxSeq /\ owed'[c] \in SUBSET (1..MaxSeq)
<1> DEFINE q == toWrite[c]
           ev == Head(q)
<1>0. /\ HandlerHolds(c) /\ HandlerKnows(c) /\ MaxSeq \in Nat
      /\ (excused[c] \/ closed \/ Told(c)) /\ seq \in 0..MaxSeq
      /\ position[c] \in Int /\ since[c] \in Int /\ owed[c] \subseteq 1..seq
      /\ q \in Seq(1..MaxSeq)
  BY ClientFacts
<1>1. /\ pc[c] = "replaying" /\ pc' = pc /\ conn' = conn /\ since' = since
      /\ baseline' = baseline /\ UNCHANGED busVars /\ Sub(c)' = Sub(c) /\ q # <<>>
      /\ position'[c] = ev /\ owed'[c] = owed[c] \ {ev} /\ toWrite'[c] = Tail(q)
      /\ excused'[c] = (excused[c] \/ Overtaken(c, ev))
  BY DEF WriteReplayed, WriteEvent, StreamInv, StreamTypeOK, Sub
<1>a. seq' = seq /\ closed' = closed /\ ch' = ch /\ pub' = pub /\ lagged' = lagged
  BY <1>1 DEF busVars, subVars
<1>2. HandlerHolds(c)'
  BY <1>0, <1>1, BusIdle, HoldsKept
<1>3. /\ Tail(q) \in Seq(1..MaxSeq) /\ Elements(q) = {ev} \cup Elements(Tail(q))
      /\ ev = q[1] /\ 1 \in 1..Len(q)
  <2> DEFINE S == 1..MaxSeq
  <2>1. q \in Seq(S) /\ q # <<>>
    BY <1>0, <1>1
  <2> HIDE DEF S, q
  <2>2. Tail(q) \in Seq(S) /\ Elements(q) = {ev} \cup Elements(Tail(q))
    BY <2>1, ElementsOf
  <2>3. ev = q[1] /\ 1 \in 1..Len(q)
    BY <2>1, HeadTailProperties, LenProperties
  <2> QED BY <2>2, <2>3 DEF S
<1>4. /\ \A e \in Elements(Tail(q)) : ev < e
      /\ \A i \in 1..Len(Tail(q)) : \E j \in 1..Len(q) : Tail(q)[i] = q[j]
      /\ \A i, j \in 1..Len(Tail(q)) : i < j => Tail(q)[i] < Tail(q)[j]
  <2>1. q \in Seq(Int)
    BY <1>0, SeqMonotonic
  <2>2. \A i, j \in 1..Len(q) : i < j => q[i] < q[j]
    BY <1>0 DEF HandlerKnows
  <2> HIDE DEF q, ev
  <2>3. /\ \A e \in Elements(Tail(q)) : Head(q) < e
        /\ \A i \in 1..Len(Tail(q)) : \E j \in 1..Len(q) : Tail(q)[i] = q[j]
        /\ \A i, j \in 1..Len(Tail(q)) : i < j => Tail(q)[i] < Tail(q)[j]
    BY <1>1, <2>1, <2>2, Ascending
  <2> QED BY <2>3 DEF ev
<1>5. ev \in 1..seq /\ since[c] < ev
  BY <1>0, <1>3 DEF HandlerKnows
<1> HIDE DEF ev
<1>6. HandlerKnows(c)'
  <2>1. \A i \in 1..Len(Tail(q)) : Tail(q)[i] \in 1..seq /\ since[c] < Tail(q)[i]
    BY <1>0, <1>4 DEF HandlerKnows
  <2>2. owed'[c] \subseteq 1..seq
    BY <1>0, <1>1
  <2>3. baseline[c] = 0
    BY <1>0, <1>1 DEF HandlerKnows
  <2>4. since'[c] <= position'[c] /\ position'[c] \in 1..seq
    BY <1>0, <1>1, <1>5
  <2> HIDE DEF q
  <2> QED BY <1>1, <1>a, <1>4, <2>1, <2>2, <2>3, <2>4 DEF HandlerKnows
<1>7. ASSUME Told(c) PROVE Told(c)'
  <2>1. \A e \in owed[c] : e \in Elements(q) \/ \A i \in 1..Len(q) : e > q[i]
    BY <1>7 DEF Told
  <2>2. \A e \in owed'[c] : e \in Elements(Tail(q)) \/ \A i \in 1..Len(q) : e > q[i]
    BY <1>1, <1>3, <2>1
  <2>3. \A e \in owed'[c] : e > ev
    BY <1>0, <1>3, <1>4, <1>5, <2>2
  <2>4. \A e \in owed'[c] : e \in Elements(Tail(q)) \/ \A i \in 1..Len(Tail(q)) : e > Tail(q)[i]
    BY <1>4, <2>2
  <2>5. OnItsWay(c) \subseteq OnItsWay(c)' \cup {ev}
    BY <1>1, <1>a, <1>3 DEF OnItsWay
  <2>6. owed'[c] \subseteq OnItsWay(c)' \/ lagged'[Sub(c)'] # baseline'[c]
    BY <1>1, <1>a, <1>7, <2>5 DEF Told, Streaming
  <2>7. position'[c] <= seq'
    BY <1>0, <1>1, <1>a, <1>5
  <2> HIDE DEF q
  <2> QED BY <1>1, <2>3, <2>4, <2>6, <2>7 DEF Told
<1>8. position'[c] \in None..MaxSeq /\ owed'[c] \in SUBSET (1..MaxSeq)
  BY <1>0, <1>1, <1>5 DEF None
<1> QED BY <1>0, <1>1, <1>a, <1>2, <1>3, <1>6, <1>7, <1>8 DEF ClientInv

(* The flush takes the lag so far for the baseline; with a lag, that is    *)
(* one of the known gaps.                                                  *)
LEMMA FlushStep ==
  ASSUME StreamInv, NEW c \in Clients, Flush(c)
  PROVE  ClientInv(c)' /\ baseline'[c] \in 0..MaxSeq
<1>0. /\ HandlerHolds(c) /\ HandlerKnows(c) /\ OnlyPublished
      /\ (excused[c] \/ closed \/ Told(c)) /\ seq \in 0..MaxSeq /\ MaxSeq \in Nat
      /\ owed[c] \subseteq 1..seq
  BY ClientFacts
<1>1. /\ pc[c] = "replaying" /\ pc'[c] = "live" /\ conn' = conn /\ since' = since
      /\ position' = position /\ owed' = owed /\ toWrite' = toWrite /\ toWrite[c] = <<>>
      /\ UNCHANGED busVars /\ Sub(c)' = Sub(c) /\ baseline'[c] = lagged[Sub(c)]
      /\ excused'[c] = (excused[c] \/ lagged[Sub(c)] > 0) /\ baseline[c] = 0
  BY <1>0 DEF Flush, StreamInv, StreamTypeOK, Sub, HandlerKnows
<1>a. seq' = seq /\ closed' = closed /\ ch' = ch /\ pub' = pub /\ lagged' = lagged
  BY <1>1 DEF busVars, subVars
<1>2. HandlerHolds(c)'
  BY <1>0, <1>1, BusIdle, RunningHolds DEF Running
<1>3. Sub(c) \in Subs /\ lagged[Sub(c)] \in Nat
  BY <1>1, ClientFacts
<1>4. lagged[Sub(c)] \in 0..MaxSeq
  <2>1. Cardinality(Pending(Sub(c))) \in Nat
    BY PendingFinite
  <2>2. lagged[Sub(c)] + Cardinality(Pending(Sub(c))) <= seq
    BY <1>0, <1>3 DEF OnlyPublished
  <2> QED BY <1>0, <1>3, <2>1, <2>2
<1>5. HandlerKnows(c)'
  BY <1>0, <1>1, <1>a, <1>3 DEF HandlerKnows
<1>6. ASSUME Told(c), ~(lagged[Sub(c)] > 0) PROVE Told(c)'
  <2>1. lagged[Sub(c)] = baseline[c]
    BY <1>1, <1>3, <1>6
  <2>2. owed[c] \subseteq OnItsWay(c)
    BY <1>1, <1>6, <2>1 DEF Told, Streaming
  <2>3. OnItsWay(c)' = OnItsWay(c)
    BY <1>1, <1>a DEF OnItsWay
  <2> QED BY <1>1, <1>a, <1>6, <2>2, <2>3 DEF Told
<1> QED BY <1>0, <1>1, <1>a, <1>2, <1>4, <1>5, <1>6 DEF ClientInv


(* One event from the queue: had already, written in its turn, or the end  *)
(* of a stream that fell behind.                                           *)
LEMMA LiveStep ==
  ASSUME StreamInv, NEW c \in Clients, Live(c)
  PROVE  /\ ClientInv(c)' /\ position'[c] \in None..MaxSeq /\ owed'[c] \in SUBSET (1..MaxSeq)
<1> DEFINE s == Sub(c)
           ev == Head(ch[s])
<1>0. /\ TypeOK /\ OnlyPublished /\ HandlerHolds(c) /\ HandlerKnows(c) /\ MaxSeq \in Nat
      /\ (excused[c] \/ closed \/ Told(c)) /\ seq \in 0..MaxSeq
      /\ position[c] \in Int /\ since[c] \in Int /\ owed[c] \subseteq 1..seq
  BY ClientFacts
<1>1. /\ pc[c] = "live" /\ Receive(s) /\ conn' = conn /\ since' = since
      /\ baseline' = baseline /\ toWrite' = toWrite /\ Sub(c)' = s /\ pc'[c] \in Running
      /\ toWrite[c] = <<>>
  BY <1>0 DEF Live, Sub, HandlerKnows, StreamInv, StreamTypeOK, Running
<1>2. /\ s \in Subs /\ ch[s] \in Seq(1..MaxSeq) /\ lagged[s] \in Nat
      /\ ch[s] # <<>> /\ ch'[s] = Tail(ch[s]) /\ UNCHANGED <<seq, closed, pub, lagged>>
      /\ None \in Int
  BY <1>0, <1>1, ClientFacts DEF Receive, TypeOK, None
<1>3. /\ ev \in 1..seq /\ Elements(ch[s]) = {ev} \cup Elements(ch'[s])
  <2> DEFINE S == 1..MaxSeq
             h == ch[s]
  <2>1. h \in Seq(S) /\ h # <<>>
    BY <1>2
  <2>2. Elements(h) \subseteq 1..seq
    BY <1>0, <1>2 DEF OnlyPublished
  <2> HIDE DEF S, h
  <2>3. Elements(h) = {Head(h)} \cup Elements(Tail(h))
    BY <2>1, ElementsOf
  <2> QED BY <1>2, <2>2, <2>3 DEF h
<1>4. HandlerHolds(c)'
  <2>1. SubsKept(c)
    BY <1>1 DEF Receive, SubsKept
  <2> QED BY <1>0, <1>1, <2>1, RunningHolds DEF Running
<1>5. OnItsWay(c) \subseteq OnItsWay(c)' \cup {ev}
  BY <1>1, <1>2, <1>3 DEF OnItsWay
<1>6. CASE since[c] # None /\ ev <= since[c] /\ WriteNothing /\ UNCHANGED pc
  <2>1. position' = position /\ owed' = owed /\ excused' = excused
    BY <1>6 DEF WriteNothing
  <2>2. HandlerKnows(c)'
    BY <1>0, <1>1, <1>2, <1>6, <2>1 DEF HandlerKnows
  <2>3. ASSUME Told(c) PROVE Told(c)'
    <3>1. since[c] <= position[c]
      BY <1>0 DEF HandlerKnows
    <3>2. ev \notin owed[c]
      BY <1>0, <1>3, <1>6, <2>3, <3>1 DEF Told
    <3>3. owed'[c] \subseteq OnItsWay(c)' \/ lagged'[s] # baseline'[c]
      BY <1>1, <1>2, <1>5, <2>1, <2>3, <3>2 DEF Told, Streaming
    <3> QED BY <1>1, <1>2, <2>1, <2>3, <3>3 DEF Told
  <2>4. position'[c] \in None..MaxSeq /\ owed'[c] \in SUBSET (1..MaxSeq)
    BY <2>1 DEF StreamInv, StreamTypeOK
  <2> QED BY <1>0, <1>2, <1>4, <2>1, <2>2, <2>3, <2>4 DEF ClientInv
<1>7. CASE ~(since[c] # None /\ ev <= since[c]) /\ WriteResync(c)
             /\ pc' = [pc EXCEPT ![c] = "returning"]
  <2>1. position' = position /\ owed'[c] = {} /\ pc'[c] = "returning"
    BY <1>7 DEF WriteResync, StreamInv, StreamTypeOK
  <2>2. HandlerKnows(c)'
    BY <1>0, <1>1, <1>2, <2>1 DEF HandlerKnows
  <2>3. position[c] <= seq
    <3>1. position[c] = since[c] \/ position[c] \in 1..seq
      BY <1>0, <1>1 DEF HandlerKnows
    <3> QED BY <1>0, <1>2, <1>3, <1>7, <3>1 DEF None
  <2>4. Told(c)'
    BY <1>2, <2>1, <2>3 DEF Told
  <2>5. position'[c] \in None..MaxSeq /\ owed'[c] \in SUBSET (1..MaxSeq)
    BY <2>1 DEF StreamInv, StreamTypeOK
  <2> QED BY <1>4, <2>2, <2>4, <2>5 DEF ClientInv
<1>8. CASE /\ ~(since[c] # None /\ ev <= since[c]) /\ lagged[s] = baseline[c]
           /\ WriteEvent(c, ev) /\ UNCHANGED pc
  <2>1. /\ position'[c] = ev /\ owed'[c] = owed[c] \ {ev}
        /\ excused'[c] = (excused[c] \/ Overtaken(c, ev))
    BY <1>8 DEF WriteEvent, StreamInv, StreamTypeOK
  <2>2. since[c] <= ev
    BY <1>0, <1>2, <1>3, <1>8 DEF None
  <2> HIDE DEF ev
  <2>3. HandlerKnows(c)'
    BY <1>0, <1>1, <1>2, <1>3, <1>8, <2>1, <2>2 DEF HandlerKnows
  <2>4. ASSUME Told(c), ~Overtaken(c, ev) PROVE Told(c)'
    <3>1. owed[c] \subseteq OnItsWay(c)
      BY <1>1, <1>8, <2>4 DEF Told, Streaming
    <3>2. \A e \in owed[c] : ~(e < ev)
      BY <2>4, <3>1 DEF Overtaken
    <3>3. \A e \in owed'[c] : e > ev
      BY <1>0, <1>3, <2>1, <3>2
    <3>4. owed'[c] \subseteq OnItsWay(c)'
      BY <1>5, <2>1, <3>1
    <3>5. position'[c] <= seq'
      BY <1>0, <1>2, <1>3, <2>1
    <3> QED BY <1>1, <2>1, <3>3, <3>4, <3>5 DEF Told
  <2>5. position'[c] \in None..MaxSeq /\ owed'[c] \in SUBSET (1..MaxSeq)
    BY <1>0, <1>3, <2>1 DEF None
  <2> QED BY <1>0, <1>2, <1>4, <2>1, <2>3, <2>4, <2>5 DEF ClientInv
<1> QED BY <1>6, <1>7, <1>8 DEF Live


(* A drained, closed channel is the closed bus's: the handler says so.     *)
LEMMA ChannelClosedStep ==
  ASSUME StreamInv, NEW c \in Clients, ChannelClosed(c)
  PROVE  ClientInv(c)'
<1>0. /\ IndInv /\ HandlerHolds(c) /\ HandlerKnows(c) /\ MaxConns \in Nat
  BY ClientFacts
<1>1. /\ pc[c] = "live" /\ state[Sub(c)] = "closed" /\ pc'[c] = "returning" /\ conn' = conn
      /\ since' = since /\ baseline' = baseline /\ toWrite' = toWrite /\ Sub(c)' = Sub(c)
      /\ UNCHANGED busVars /\ position' = position /\ owed'[c] = {}
  BY DEF ChannelClosed, WriteResync, Sub, StreamInv, StreamTypeOK
<1>2. closed
  BY <1>0, <1>1 DEF HandlerHolds, IndInv, ClosedAtMostOnce
<1>3. seq' = seq /\ closed'
  BY <1>1, <1>2 DEF busVars
<1>4. HandlerHolds(c)'
  BY <1>0, <1>1, BusIdle, RunningHolds DEF Running
<1>5. HandlerKnows(c)'
  BY <1>0, <1>1, <1>3 DEF HandlerKnows
<1> QED BY <1>3, <1>4, <1>5 DEF ClientInv

(* A client that hangs up keeps its position.                              *)
LEMMA HangUpStep ==
  ASSUME StreamInv, NEW c \in Clients, HangUp(c)
  PROVE  ClientInv(c)'
<1>0. /\ HandlerHolds(c) /\ HandlerKnows(c) /\ (excused[c] \/ closed \/ Told(c))
  BY ClientFacts
<1>1. /\ pc[c] \in Running /\ pc'[c] = "returning" /\ conn' = conn
      /\ since' = since /\ baseline' = baseline /\ toWrite'[c] = <<>> /\ Sub(c)' = Sub(c)
      /\ UNCHANGED busVars /\ position' = position /\ owed' = owed /\ excused' = excused
      /\ pc[c] # "away"
  BY DEF HangUp, Sub, Running, StreamInv, StreamTypeOK
<1>3. seq' = seq /\ closed' = closed
  BY <1>1 DEF busVars
<1>4. HandlerHolds(c)'
  BY <1>0, <1>1, BusIdle, RunningHolds DEF Running
<1>5. HandlerKnows(c)'
  BY <1>0, <1>1, <1>3 DEF HandlerKnows
<1>6. Told(c) => Told(c)'
  BY <1>1, <1>3 DEF Told, Streaming
<1> QED BY <1>0, <1>1, <1>3, <1>4, <1>5, <1>6 DEF ClientInv

(* The deferred Close: first off the list, ...                             *)
LEMMA LeaveStep ==
  ASSUME StreamInv, NEW c \in Clients, Leave(c)
  PROVE  ClientInv(c)'
<1>0. /\ HandlerHolds(c) /\ HandlerKnows(c) /\ (excused[c] \/ closed \/ Told(c))
      /\ conn[c] \in 0..MaxConns /\ MaxConns \in Nat
  BY ClientFacts
<1>1. /\ pc[c] = "returning" /\ pc'[c] = "closing" /\ conn' = conn
      /\ since' = since /\ baseline' = baseline /\ toWrite' = toWrite /\ Sub(c)' = Sub(c)
      /\ Unregister(Sub(c)) /\ position' = position /\ owed' = owed /\ excused' = excused
  BY DEF Leave, Sub, StreamInv, StreamTypeOK
<1>3. /\ seq' = seq /\ closed' = closed /\ state' = state /\ leaving' = leaving \cup {Sub(c)}
  BY <1>1 DEF Unregister, subVars
<1>4. HandlerHolds(c)'
  <2>1. \A k \in 1..MaxConns : k < conn[c] => <<c, k>> # Sub(c)
    BY <1>0 DEF Sub
  <2> QED BY <1>0, <1>1, <1>3, <2>1 DEF HandlerHolds
<1>5. HandlerKnows(c)'
  BY <1>0, <1>1, <1>3 DEF HandlerKnows
<1>6. Told(c) => Told(c)'
  BY <1>1, <1>3 DEF Told, Streaming
<1> QED BY <1>0, <1>1, <1>3, <1>4, <1>5, <1>6 DEF ClientInv

(* ... then shut, and the handler is gone.                                 *)
LEMMA LeftStep ==
  ASSUME StreamInv, NEW c \in Clients, Left(c)
  PROVE  ClientInv(c)'
<1>0. /\ TypeOK /\ HandlerHolds(c) /\ HandlerKnows(c) /\ (excused[c] \/ closed \/ Told(c))
      /\ conn[c] \in 0..MaxConns /\ MaxConns \in Nat /\ position[c] >= -1
  BY ClientFacts DEF StreamInv, StreamTypeOK, None
<1>1. /\ pc[c] = "closing" /\ pc'[c] = "away" /\ conn' = conn
      /\ since'[c] = -1 /\ baseline'[c] = 0 /\ toWrite' = toWrite /\ Sub(c)' = Sub(c)
      /\ Shutdown(Sub(c)) /\ position' = position /\ owed' = owed /\ excused' = excused
  BY DEF Left, Sub, StreamInv, StreamTypeOK, None
<1>2. Sub(c) \in Subs
  BY <1>1, ClientFacts
<1>3. /\ seq' = seq /\ closed' = closed /\ leaving' = leaving \ {Sub(c)}
      /\ \A k \in 1..MaxConns :
           state'[<<c, k>>] = IF <<c, k>> = Sub(c) THEN "closed" ELSE state[<<c, k>>]
  BY <1>0, <1>1, <1>2, SubIs DEF Shutdown, ShutdownOne, TypeOK
<1>4. HandlerHolds(c)'
  <2>1. \A k \in 1..MaxConns : <<c, k>> = Sub(c) <=> k = conn[c]
    BY <1>0 DEF Sub
  <2> QED BY <1>0, <1>1, <1>3, <2>1 DEF HandlerHolds
<1>5. HandlerKnows(c)'
  <2>1. toWrite[c] = <<>> /\ owed[c] \subseteq 1..seq
    BY <1>0, <1>1 DEF HandlerKnows
  <2> QED BY <1>0, <1>1, <1>3, <2>1 DEF HandlerKnows
<1>6. Told(c) => Told(c)'
  BY <1>1, <1>3 DEF Told, Streaming
<1> QED BY <1>0, <1>1, <1>3, <1>4, <1>5, <1>6 DEF ClientInv

(* A restart ends the handlers, and a position from before it is excused.  *)
LEMMA RestartStep ==
  ASSUME StreamInv, Restart, NEW c \in Clients
  PROVE  ClientInv(c)'
<1>1. /\ pc'[c] = "away" /\ conn'[c] = 0 /\ since'[c] = -1 /\ toWrite'[c] = <<>>
      /\ baseline'[c] = 0 /\ owed'[c] = {} /\ excused'[c] = (position[c] # -1)
      /\ position' = position /\ seq' = 0 /\ leaving' = {} /\ closed' = FALSE
      /\ \A k \in 1..MaxConns : state'[<<c, k>>] = "new"
  BY SubIs DEF Restart, None
<1>2. position[c] \in Int /\ position[c] >= -1 /\ MaxConns \in Nat
  BY StreamAssumption, BusAssumption DEF StreamInv, StreamTypeOK, None
<1>3. HandlerHolds(c)'
  BY <1>1, <1>2 DEF HandlerHolds
<1>4. HandlerKnows(c)'
  BY <1>1, <1>2 DEF HandlerKnows
<1>5. position[c] = -1 => Told(c)'
  BY <1>1 DEF Told, Streaming
<1> QED BY <1>1, <1>3, <1>4, <1>5 DEF ClientInv

(* Every step keeps the locals of the handlers in their types.             *)
LEMMA StreamTypeStep ==
  ASSUME StreamInv, StreamNext
  PROVE  StreamTypeOK'
<1> USE DEF StreamTypeOK
<1>0. StreamTypeOK /\ MaxConns \in Nat /\ MaxSeq \in Nat /\ MaxRestarts \in Nat /\ seq \in 0..MaxSeq
  BY StreamAssumption, BusAssumption DEF StreamInv, BusInv, IndInv, TypeOK
<1>1. ASSUME NEW p \in Publishers, StreamPublish(p) PROVE StreamTypeOK'
  <2>1. seq + 1 \in 1..MaxSeq
    BY <1>0, <1>1 DEF StreamPublish, Publish
  <2> QED BY <1>0, <1>1, <2>1 DEF StreamPublish
<1>2. ASSUME Bus PROVE StreamTypeOK'
  BY <1>0, <1>2 DEF Bus, streamVars
<1>3. ASSUME NEW c \in Clients, Connect(c) PROVE StreamTypeOK'
  BY <1>0, <1>3 DEF Connect, WriteNothing
<1>4. ASSUME NEW c \in Clients, Replay(c) PROVE StreamTypeOK'
  <2>1. toWrite'[c] \in Seq(1..MaxSeq)
    BY <1>4, ReplayStep
  <2>2. toWrite' \in [Clients -> Seq(1..MaxSeq)]
    BY <1>0, <1>4, <2>1 DEF Replay
  <2> QED BY <1>0, <1>4, <2>2 DEF Replay, WriteNothing, WriteResync
<1>5. ASSUME NEW c \in Clients, WriteReplayed(c) PROVE StreamTypeOK'
  <2>1. /\ toWrite'[c] \in Seq(1..MaxSeq) /\ position'[c] \in None..MaxSeq
        /\ owed'[c] \in SUBSET (1..MaxSeq)
    BY <1>5, WriteReplayedStep
  <2>2. toWrite' \in [Clients -> Seq(1..MaxSeq)] /\ position' \in [Clients -> None..MaxSeq]
          /\ owed' \in [Clients -> SUBSET (1..MaxSeq)]
    BY <1>0, <1>5, <2>1 DEF WriteReplayed, WriteEvent
  <2>3. excused' \in [Clients -> BOOLEAN]
    BY <1>0, <1>5 DEF WriteReplayed, WriteEvent, Overtaken
  <2> QED BY <1>0, <1>5, <2>2, <2>3 DEF WriteReplayed
<1>6. ASSUME NEW c \in Clients, Flush(c) PROVE StreamTypeOK'
  <2>1. baseline'[c] \in 0..MaxSeq
    BY <1>6, FlushStep
  <2>2. baseline' \in [Clients -> 0..MaxSeq] /\ excused' \in [Clients -> BOOLEAN]
    BY <1>0, <1>6, <2>1 DEF Flush
  <2> QED BY <1>0, <1>6, <2>2 DEF Flush
<1>7. ASSUME NEW c \in Clients, Live(c) PROVE StreamTypeOK'
  <2>1. position'[c] \in None..MaxSeq /\ owed'[c] \in SUBSET (1..MaxSeq)
    BY <1>7, LiveStep
  <2>2. position' \in [Clients -> None..MaxSeq] /\ owed' \in [Clients -> SUBSET (1..MaxSeq)]
    BY <1>0, <1>7, <2>1 DEF Live, WriteEvent, WriteNothing, WriteResync
  <2>3. excused' \in [Clients -> BOOLEAN] /\ pc' \in [Clients -> {"away", "subscribed", "replaying",
          "live", "returning", "closing"}]
    BY <1>0, <1>7 DEF Live, WriteEvent, WriteNothing, WriteResync, Overtaken
  <2> QED BY <1>0, <1>7, <2>2, <2>3 DEF Live
<1>8. ASSUME NEW c \in Clients, ChannelClosed(c) PROVE StreamTypeOK'
  BY <1>0, <1>8 DEF ChannelClosed, WriteResync
<1>9. ASSUME NEW c \in Clients, HangUp(c) PROVE StreamTypeOK'
  BY <1>0, <1>9 DEF HangUp
<1>10. ASSUME NEW c \in Clients, Leave(c) PROVE StreamTypeOK'
  BY <1>0, <1>10 DEF Leave
<1>11. ASSUME NEW c \in Clients, Left(c) PROVE StreamTypeOK'
  BY <1>0, <1>11 DEF Left, None
<1>12. ASSUME Restart PROVE StreamTypeOK'
  <2>1. <<>> \in Seq(1..MaxSeq)
    OBVIOUS
  <2> QED BY <1>0, <1>12, <2>1 DEF Restart, None
<1> QED BY <1>1, <1>2, <1>3, <1>4, <1>5, <1>6, <1>7, <1>8, <1>9, <1>10, <1>11, <1>12
        DEF StreamNext, Handler

-----------------------------------------------------------------------------
(* The invariant of the live view holds initially, ...                     *)
LEMMA StreamInitInv == StreamInit => StreamInv
<1> SUFFICES ASSUME StreamInit PROVE StreamInv
  OBVIOUS
<1>0. Init /\ MaxConns \in Nat /\ MaxSeq \in Nat /\ MaxRestarts \in Nat
  BY StreamAssumption, BusAssumption DEF StreamInit
<1>1. BusInv
  BY <1>0, InitBusInv
<1>2. StreamTypeOK
  <2>1. <<>> \in Seq(1..MaxSeq)
    OBVIOUS
  <2> QED BY <1>0, <2>1 DEF StreamInit, StreamTypeOK, None
<1>3. ASSUME NEW c \in Clients PROVE ClientInv(c)
  <2>1. /\ pc[c] = "away" /\ conn[c] = 0 /\ position[c] \in {-1, 0} /\ since[c] = -1
        /\ toWrite[c] = <<>> /\ baseline[c] = 0 /\ owed[c] = {} /\ seq = 0
        /\ \A k \in 1..MaxConns : state[<<c, k>>] = "new"
    BY <1>0, SubIs DEF StreamInit, Init, None
  <2>2. HandlerHolds(c)
    BY <1>0, <2>1 DEF HandlerHolds
  <2>3. HandlerKnows(c)
    BY <2>1 DEF HandlerKnows
  <2>4. Told(c)
    BY <2>1 DEF Told, Streaming
  <2> QED BY <2>2, <2>3, <2>4 DEF ClientInv
<1> QED BY <1>1, <1>2, <1>3 DEF StreamInv

(* ... and every step of a publisher, a handler, a client, the shutdown or *)
(* a restart keeps it.                                                     *)
LEMMA StreamInvStep ==
  ASSUME StreamInv, [StreamNext]_vars
  PROVE  StreamInv'
<1>1. BusInv'
  BY StreamSteps, BusStep, RestartBus DEF StreamInv
<1>2. StreamTypeOK'
  <2>1. CASE StreamNext
    BY <2>1, StreamTypeStep
  <2>2. CASE UNCHANGED vars
    BY <2>2 DEF StreamInv, StreamTypeOK, vars, streamVars
  <2> QED BY <2>1, <2>2
<1>3. ASSUME NEW d \in Clients PROVE ClientInv(d)'
  <2>1. ASSUME NEW p \in Publishers, StreamPublish(p) PROVE ClientInv(d)'
    BY <2>1, PublishClients
  <2>2. CASE Bus
    BY <2>2, BusClients
  <2>3. ASSUME NEW c \in Clients, ClientStep(c), d # c PROVE ClientInv(d)'
    BY <2>3, OthersKept
  <2>4. ASSUME ClientStep(d) PROVE ClientInv(d)'
    BY <2>4, ConnectStep, ReplayStep, WriteReplayedStep, FlushStep, LiveStep,
       ChannelClosedStep, HangUpStep, LeaveStep, LeftStep DEF ClientStep, Handler
  <2>5. CASE Restart
    BY <2>5, RestartStep
  <2>6. CASE UNCHANGED vars
    <3>1. HandlerKept(d) /\ UNCHANGED busVars
      BY <2>6 DEF vars, streamVars, HandlerKept
    <3> QED BY <3>1, BusIdle, ClientKept DEF StreamInv
  <2>7. ASSUME NEW c \in Clients, ClientStep(c) PROVE ClientInv(d)'
    BY <2>3, <2>4, <2>7
  <2> QED BY <2>1, <2>2, <2>5, <2>6, <2>7 DEF StreamNext, ClientStep
<1> QED BY <1>1, <1>2, <1>3 DEF StreamInv

LEMMA StreamInductive == StreamSpec => []StreamInv
BY StreamInitInv, StreamInvStep, PTL DEF StreamSpec

(* The invariant says what the live view promises.                         *)
LEMMA ToldIsEnough ==
  ASSUME StreamInv
  PROVE  LossIsToldOtherwise
<1>1. StreamTypeOK /\ TypeOK /\ RingOK
  BY DEF StreamInv, BusInv, IndInv
<1>2. ReplayIsHonest
  BY <1>1, ReplayTellsTheTruth
<1>3. ASSUME NEW c \in Clients, ~excused[c] PROVE ViewComplete(c) /\ PositionHonest(c)
  BY <1>3, ClientFacts DEF Told, ViewComplete, PositionHonest
<1> QED BY <1>1, <1>2, <1>3 DEF LossIsToldOtherwise

(* server/events.go, for every number of publishers, consoles, streams and *)
(* restarts, every ring and every queue: but for the three known gaps, a   *)
(* console that lacks an event will get it, or be told to reload, or comes *)
(* back with a position from before it; and what Bus.Replay says of the    *)
(* events it hands back is true for every position.                        *)
THEOREM ViewIsCompleteOrTold == StreamSpec => []LossIsToldOtherwise
BY StreamInductive, ToldIsEnough, PTL

(* Publish and Subscription.deliver keep the account of every stream, also *)
(* across restarts of the process.                                         *)
THEOREM StreamsAreCounted == StreamSpec => []LossIsCounted
<1>1. StreamInv => LossIsCounted
  BY DEF StreamInv, BusInv, IndInv
<1> QED BY <1>1, StreamInductive, PTL

(* Neither a delivery, nor a handler, nor a restart adds to a channel that *)
(* is closed.                                                              *)
THEOREM StreamsNeverSendOnClosed == StreamSpec => NoSendOnClosed
<1> DEFINE Kept == \A s \in Subs : state[s] = "closed" => Len(ch'[s]) <= Len(ch[s])
<1>1. IndInv /\ [Next]_busVars => [Kept]_busVars
  BY NoSendStep
<1>2. StreamInv /\ Restart => Kept
  <2> SUFFICES ASSUME StreamInv, Restart, NEW s \in Subs PROVE Len(ch'[s]) <= Len(ch[s])
    OBVIOUS
  <2>1. ch[s] \in Seq(1..MaxSeq) /\ Len(ch[s]) \in Nat
    BY LenProperties DEF StreamInv, BusInv, IndInv, TypeOK
  <2>2. ch'[s] = <<>>
    BY DEF Restart
  <2> QED BY <2>1, <2>2
<1>3. StreamInv /\ [StreamNext]_vars => [Kept]_busVars
  BY <1>1, <1>2, StreamSteps DEF StreamInv, BusInv
<1> QED BY <1>3, StreamInductive, PTL DEF StreamSpec, NoSendOnClosed

=============================================================================
