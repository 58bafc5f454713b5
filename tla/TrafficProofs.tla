--------------------------- MODULE TrafficProofs ---------------------------
(***************************************************************************)
(* Proofs about Traffic, with its attachments and its call tracker, for any*)
(* number of peers, radios, streams and talkgroups and for every limit.    *)
(***************************************************************************)
EXTENDS Traffic, FiniteSetTheorems, SequenceTheorems, WellFoundedInduction, TLAPS

-----------------------------------------------------------------------------
(* Attachments                                                             *)

Recent(q, n) == q # Never /\ n - q <= AttachmentTimeout

(* The talkgroups some setting names.                                      *)
Named(k) == \E s \in Subscriptions : k \in s.static

(* What holds of an attachment a that was last asked for at q, at time n:  *)
(* it is static if the setting says so, its time of use is q if it is      *)
(* known, and it is known if no setting names the talkgroup.               *)
Fits(k, a, q, s, n) ==
  /\ a \in [held : BOOLEAN, static : BOOLEAN, used : 0..n] /\ q \in 0..n
  /\ a.static <=> k \in s.static
  /\ a.used # Never => a.held /\ a.used = q
  /\ ~Named(k) => a.used = q \/ ~Recent(q, n)

AttachmentsFit ==
  /\ now \in Nat \ {0} /\ subscription \in Subscriptions
  /\ attachments = [k \in Attachable |-> attachments[k]] /\ DOMAIN asked = Attachable
  /\ \A k \in Attachable : Fits(k, attachments[k], asked[k], subscription, now)

LEMMA TheSettings ==
  /\ \A s \in Subscriptions : s.enabled \in BOOLEAN /\ s.static \subseteq Attachable
  /\ AttachmentTimeout \in Nat /\ Never = 0
BY AttachmentAssumption DEF AttachmentAssumption, Never

LEMMA AttachmentsHeard ==
  AttachmentsFit => StaticIsHeard /\ HeardIsAsked /\ AskedIsHeard
<1> SUFFICES ASSUME AttachmentsFit PROVE StaticIsHeard /\ HeardIsAsked /\ AskedIsHeard
  OBVIOUS
<1>0. \A k \in Attachable : Fits(k, attachments[k], asked[k], subscription, now)
  BY DEF AttachmentsFit
<1>1. StaticIsHeard
  BY <1>0 DEF Fits, StaticIsHeard, Attached
<1>2. HeardIsAsked
  BY <1>0 DEF Fits, HeardIsAsked, Attached, Within
<1>3. ASSUME NEW k \in Attachable \ UNION {s.static : s \in Subscriptions},
             Within(asked[k], AttachmentTimeout)
      PROVE  Attached(k)
  <2>1. ~Named(k)
    BY DEF Named
  <2>2. Recent(asked[k], now) /\ asked[k] # Never
    BY <1>3 DEF Recent, Within
  <2>3. attachments[k].used = asked[k] /\ attachments[k].held
    BY <1>0, <2>1, <2>2 DEF Fits
  <2> QED BY <1>3, <2>3 DEF Attached
<1>4. AskedIsHeard
  BY <1>3 DEF AskedIsHeard
<1> QED BY <1>1, <1>2, <1>4

LEMMA DetachedFits ==
  ASSUME NEW k, NEW s, k \notin s.static, NEW n \in Nat, NEW q \in 0..n, Named(k) \/ ~Recent(q, n)
  PROVE  Fits(k, Detached, q, s, n)
<1>1. Detached.held = FALSE /\ Detached.static = FALSE /\ Detached.used = 0
  BY DEF Detached, Never
<1>2. Detached \in [held : BOOLEAN, static : BOOLEAN, used : 0..n]
  BY DEF Detached, Never
<1> QED BY <1>1, <1>2 DEF Fits, Never

LEMMA StaticFits ==
  ASSUME NEW s \in Subscriptions, NEW k \in s.static, NEW n \in Nat, NEW q \in 0..n
  PROVE  Fits(k, Static, q, s, n)
<1>1. Static.held = TRUE /\ Static.static = TRUE /\ Static.used = 0
  BY DEF Static, Never
<1>2. Static \in [held : BOOLEAN, static : BOOLEAN, used : 0..n]
  BY DEF Static, Never
<1>3. Named(k)
  BY DEF Named
<1> QED BY <1>1, <1>2, <1>3 DEF Fits, Never

LEMMA UsedFits ==
  ASSUME NEW k, NEW a, NEW q, NEW s, NEW n \in Nat \ {0}, Fits(k, a, q, s, n),
         NEW b \in [held : BOOLEAN, static : BOOLEAN, used : 0..n],
         b.held, b.static = a.static, b.used = n
  PROVE  Fits(k, b, n, s, n)
BY DEF Fits

LEMMA DemotedFits ==
  ASSUME NEW k, NEW a, NEW q, NEW s, NEW t, k \notin t.static, NEW n \in Nat, Fits(k, a, q, s, n)
  PROVE  Fits(k, [a EXCEPT !.static = FALSE], q, t, n)
<1> DEFINE b == [a EXCEPT !.static = FALSE]
<1>1. a \in [held : BOOLEAN, static : BOOLEAN, used : 0..n]
  BY DEF Fits
<1>2. /\ b \in [held : BOOLEAN, static : BOOLEAN, used : 0..n]
      /\ b.held = a.held /\ b.static = FALSE /\ b.used = a.used
  BY <1>1
<1> HIDE DEF b
<1>3. Fits(k, b, q, t, n)
  BY <1>2 DEF Fits
<1> QED BY <1>3 DEF b

LEMMA AttachmentsStart ==
  ASSUME AttachmentInit, now = 1
  PROVE  AttachmentsFit
<1>1. /\ attachments = [k \in Attachable |-> attachments[k]] /\ DOMAIN asked = Attachable /\ subscription \in Subscriptions
      /\ \A k \in Attachable : /\ attachments[k] = IF k \in subscription.static THEN Static ELSE Detached
                              /\ asked[k] = Never
  BY DEF AttachmentInit, Seeded
<1>2. \A k \in Attachable : Fits(k, attachments[k], asked[k], subscription, now)
  <2> TAKE k \in Attachable
  <2>1. 0 \in 0..1 /\ asked[k] = 0 /\ ~Recent(0, 1)
    BY <1>1 DEF Never, Recent
  <2>2. CASE k \in subscription.static
    BY <1>1, <2>1, <2>2, StaticFits
  <2>3. CASE k \notin subscription.static
    BY <1>1, <2>1, <2>3, DetachedFits
  <2> QED BY <2>2, <2>3
<1> QED BY <1>1, <1>2 DEF AttachmentsFit

(* A keyup, with or without an unlink.                                     *)
LEMMA UsesFits ==
  ASSUME AttachmentsFit, NEW k, NEW drops \in BOOLEAN, Uses(k, drops), now' = now
  PROVE  AttachmentsFit'
<1> DEFINE b == Attach(attachments, k)
           e == subscription.enabled
<1>1. /\ subscription' = subscription /\ subscription \in Subscriptions /\ e \in BOOLEAN
      /\ now \in Nat \ {0} /\ attachments = [j \in Attachable |-> attachments[j]]
      /\ \A j \in Attachable : Fits(j, attachments[j], asked[j], subscription, now)
  BY TheSettings DEF Uses, AttachmentsFit
<1>2. /\ b = [j \in Attachable |-> b[j]]
      /\ \A j \in Attachable : ~(e /\ j = k) => b[j] = attachments[j]
      /\ e /\ k \in Attachable =>
           /\ b[k] \in [held : BOOLEAN, static : BOOLEAN, used : 0..now]
           /\ b[k].held /\ b[k].static = attachments[k].static /\ b[k].used = now
  <2>1. CASE ~e
    BY <1>1, <2>1 DEF Attach
  <2>2. CASE e
    <3>1. b = [attachments EXCEPT ![k].held = TRUE, ![k].used = now]
      BY <2>2 DEF Attach
    <3>2. /\ k \in Attachable => attachments[k] \in [held : BOOLEAN, static : BOOLEAN, used : 0..now]
          /\ now \in 0..now
      BY <1>1 DEF Fits
    <3> HIDE DEF b
    <3> QED BY <1>1, <2>2, <3>1, <3>2
  <2> QED BY <2>1, <2>2
<1>3. /\ attachments' = [j \in Attachable |-> attachments'[j]]
      /\ \A j \in Attachable :
           attachments'[j] = IF drops /\ j[1] = k[1] /\ ~b[j].static THEN Detached ELSE b[j]
  BY <1>2 DEF Uses, DropAttachments
<1>4. /\ DOMAIN asked' = Attachable
      /\ \A j \in Attachable :
           asked'[j] = IF drops /\ j[1] = k[1] /\ ~attachments[j].static THEN Never
                       ELSE IF j = k /\ e THEN now ELSE asked[j]
  BY DEF Uses
<1>5. \A j \in Attachable : b[j].static = attachments[j].static
  BY <1>2
<1> HIDE DEF b, e
<1>7. ASSUME NEW j \in Attachable
      PROVE  Fits(j, attachments'[j], asked'[j], subscription, now)
  <2>1. CASE drops /\ j[1] = k[1] /\ ~attachments[j].static
    <3>1. attachments'[j] = Detached /\ asked'[j] = Never
      BY <1>3, <1>4, <1>5, <2>1
    <3>2. j \notin subscription.static /\ Never \in 0..now /\ ~Recent(Never, now)
      BY <1>1, <2>1 DEF Fits, Never, Recent
    <3> QED BY <1>1, <3>1, <3>2, DetachedFits
  <2>2. CASE ~(drops /\ j[1] = k[1] /\ ~attachments[j].static) /\ j = k /\ e
    <3>1. attachments'[j] = b[k] /\ asked'[j] = now
      BY <1>2, <1>3, <1>4, <1>5, <2>2
    <3>2. Fits(j, attachments[j], asked[j], subscription, now)
      BY <1>1
    <3>3. Fits(j, b[k], now, subscription, now)
      BY <1>1, <1>2, <2>2, <3>2, UsedFits
    <3> QED BY <3>1, <3>3
  <2>3. CASE ~(drops /\ j[1] = k[1] /\ ~attachments[j].static) /\ ~(j = k /\ e)
    <3>1. attachments'[j] = attachments[j] /\ asked'[j] = asked[j]
      BY <1>2, <1>3, <1>4, <1>5, <2>3
    <3> QED BY <1>1, <3>1
  <2> QED BY <2>1, <2>2, <2>3
<1> QED BY <1>1, <1>3, <1>4, <1>7 DEF AttachmentsFit

(* The sweep, after a save or not.                                         *)
LEMMA SweepFits ==
  ASSUME AttachmentsFit, NEW s \in Subscriptions, NEW saved \in BOOLEAN,
         saved \/ s = subscription, SweepAttachments(s, saved), now' = now
  PROVE  AttachmentsFit'
<1> DEFINE b == IF saved THEN SetSubscription(s, attachments) ELSE attachments
<1>1. /\ subscription' = s /\ asked' = asked /\ attachments' = ExpireAttachments(b) /\ now \in Nat \ {0}
      /\ DOMAIN asked = Attachable
      /\ \A j \in Attachable : Fits(j, attachments[j], asked[j], subscription, now)
  BY DEF SweepAttachments, AttachmentsFit
<1>2. ASSUME NEW j \in Attachable
      PROVE  Fits(j, b[j], asked[j], s, now)
  <2>1. CASE ~saved
    BY <1>1, <2>1
  <2>2. CASE saved /\ j \in s.static
    <3>1. b[j] = Static
      BY <2>2 DEF SetSubscription, Seeded
    <3>2. asked[j] \in 0..now
      BY <1>1 DEF Fits
    <3> QED BY <1>1, <2>2, <3>1, <3>2, StaticFits
  <2>3. CASE saved /\ j \notin s.static
    <3>1. b[j] = [attachments[j] EXCEPT !.static = FALSE]
      BY <2>3 DEF SetSubscription, Seeded
    <3> QED BY <1>1, <2>3, <3>1, DemotedFits
  <2> QED BY <2>1, <2>2, <2>3
<1> HIDE DEF b
<1>3. /\ attachments' = [j \in Attachable |-> attachments'[j]]
      /\ \A j \in Attachable :
           attachments'[j] = IF b[j].static \/ Within(b[j].used, AttachmentTimeout)
                             THEN b[j] ELSE Detached
  BY <1>1 DEF ExpireAttachments
<1>4. ASSUME NEW j \in Attachable
      PROVE  Fits(j, attachments'[j], asked[j], s, now)
  <2>1. CASE b[j].static \/ Within(b[j].used, AttachmentTimeout)
    BY <1>2, <1>3, <2>1
  <2>2. CASE ~(b[j].static \/ Within(b[j].used, AttachmentTimeout))
    <3>1. attachments'[j] = Detached
      BY <1>3, <2>2
    <3>2. Named(j) \/ ~Recent(asked[j], now)
      BY <1>2, <2>2 DEF Fits, Recent, Within
    <3>3. asked[j] \in 0..now /\ j \notin s.static
      BY <1>2, <2>2 DEF Fits
    <3> QED BY <1>1, <3>1, <3>2, <3>3, DetachedFits
  <2> QED BY <2>1, <2>2
<1> QED BY <1>1, <1>3, <1>4 DEF AttachmentsFit

(* Time passes, or something else happens.                                 *)
LEMMA RestFits ==
  ASSUME AttachmentsFit, UNCHANGED attachmentVars, now' = now \/ now' = now + 1
  PROVE  AttachmentsFit'
<1>1. subscription' = subscription /\ attachments' = attachments /\ asked' = asked
  BY DEF attachmentVars
<1>2. now \in Nat \ {0} /\ now' \in Nat \ {0} /\ now <= now'
  BY DEF AttachmentsFit
<1>3. ASSUME NEW k \in Attachable
      PROVE  Fits(k, attachments[k], asked[k], subscription, now')
  <2>1. Fits(k, attachments[k], asked[k], subscription, now)
    BY DEF AttachmentsFit
  <2>2. attachments[k].used \in 0..now' /\ asked[k] \in 0..now'
    BY <1>2, <2>1 DEF Fits
  <2>3. Recent(asked[k], now') => Recent(asked[k], now)
    BY <1>2, <2>1, TheSettings DEF Recent, Fits
  <2> QED BY <2>1, <2>2, <2>3 DEF Fits
<1> QED BY <1>1, <1>2, <1>3 DEF AttachmentsFit

-----------------------------------------------------------------------------
(* The calls a peer has open                                               *)

OpenType(n) == [stream : Streams, source : Radios, target : Talkgroups \cup Radios,
                group : BOOLEAN, seen : 1..n, adopted : Streams \cup {NoStream}]

(* A caller that the frames of a stream name.                              *)
Backed(p, s, r) == \E f \in Frames : f.peer = p /\ f.stream = s /\ f.source = r

Apart(O) == \A c, d \in O : c # d => {c.stream, c.adopted} \cap {d.stream, d.adopted} \subseteq {NoStream}

(* The calls O a peer may have open at time n.                             *)
OpenFits(p, O, n) ==
  /\ O \subseteq OpenType(n) /\ \A c \in O : Backed(p, c.stream, c.source)
  /\ IsFiniteSet(O) /\ Cardinality(O) <= MaxOpenCalls
  /\ Apart(O)

LEMMA TheTraffic ==
  /\ LinkedPeers \subseteq Peers /\ Frames \subseteq FrameType /\ Streams \subseteq Nat \ {0}
  /\ Bans \subseteq SUBSET Radios
  /\ MaxOpenCalls \in Nat \ {0} /\ SubscriberTimeout \in Nat /\ StreamTimeout \in Nat
  /\ AnswerInterval \in Nat /\ MaxAnswered \in Nat /\ MaxTime \in Nat \ {0}
  /\ MaxActive \in Nat \ {0} /\ History \in Nat \ {0} /\ Never = 0 /\ NoStream = 0
BY TrafficAssumption, CallAssumption DEF TrafficAssumption, CallAssumption, Never, NoStream

LEMMA TheFrames ==
  ASSUME NEW f \in Frames
  PROVE  /\ f.peer \in Peers /\ f.stream \in Streams /\ f.source \in Radios
         /\ f.target \in Talkgroups \cup Radios /\ f.group \in BOOLEAN /\ f.kind \in Kinds
         /\ f \in FrameType /\ CallKey(f) \in CallKeys /\ Backed(f.peer, f.stream, f.source)
         /\ f.stream # NoStream
BY TheTraffic DEF FrameType, CallKey, CallKeys, Backed

LEMMA PartFits ==
  ASSUME NEW p, NEW O, NEW n \in Nat, OpenFits(p, O, n), NEW S, S \subseteq O
  PROVE  OpenFits(p, S, n)
<1>1. IsFiniteSet(O) /\ Cardinality(O) \in Nat /\ Cardinality(O) <= MaxOpenCalls
  BY FS_CardinalityType DEF OpenFits
<1>2. IsFiniteSet(S) /\ Cardinality(S) \in Nat /\ Cardinality(S) <= Cardinality(O)
  BY <1>1, FS_Subset, FS_CardinalityType
<1>3. Cardinality(S) <= MaxOpenCalls
  BY <1>1, <1>2, TheTraffic
<1> QED BY <1>2, <1>3 DEF OpenFits, Apart

(* continuing finds at most one call for a frame, and labels it by it.     *)
LEMMA CallOfFrame ==
  ASSUME NEW f \in Frames, now \in Nat \ {0}, OpenFits(f.peer, open[f.peer], now)
  PROVE  \/ /\ CallsOf(f) = {} /\ CarriedAs(f) = f
            /\ IsUserData(f) \/ KnownTo(f) = {}
         \/ /\ ~IsUserData(f)
            /\ \E c \in StillOpen(f.peer) :
                 /\ CallsOf(f) = {c}
                 /\ c.stream = f.stream => CarriedAs(f) = f
                 /\ c.stream # f.stream => CarriedAs(f) = Relabel(f, c)
                 /\ \/ f.stream \in {c.stream, c.adopted}
                    \/ StillOpen(f.peer) = {c} /\ KnownTo(f) = {} /\ ~IsHeader(f)
<1> DEFINE S == StillOpen(f.peer)
           C == CallsOf(f)
           Other == {c \in C : c.stream # f.stream}
<1>1. CASE IsUserData(f)
  BY <1>1 DEF CallsOf, CarriedAs
<1>2. CASE ~IsUserData(f)
  <2>0. S \subseteq open[f.peer] /\ Apart(open[f.peer]) /\ f.stream # NoStream
    BY TheFrames DEF StillOpen, OpenFits
  <2>1. CASE Joins(f)
    <3>1. C = S /\ KnownTo(f) = {} /\ ~IsHeader(f) /\ Cardinality(S) = 1
      BY <1>2, <2>1 DEF CallsOf, Joins
    <3>2. IsFiniteSet(S)
      BY <2>0, FS_Subset DEF OpenFits
    <3>3. PICK c : S = {c}
      BY <3>1, <3>2, FS_Singleton
    <3>4. f.stream \notin {c.stream, c.adopted}
      BY <3>1, <3>3 DEF KnownTo
    <3>5. CarriedAs(f) = Relabel(f, c)
      BY <3>1, <3>3, <3>4 DEF CarriedAs
    <3> QED BY <1>2, <3>1, <3>3, <3>4, <3>5
  <2>2. CASE ~Joins(f) /\ KnownTo(f) = {}
    BY <1>2, <2>2 DEF CallsOf, CarriedAs
  <2>3. CASE ~Joins(f) /\ KnownTo(f) # {}
    <3>1. PICK c \in KnownTo(f) : TRUE
      BY <2>3
    <3>2. c \in S /\ f.stream \in {c.stream, c.adopted}
      BY <3>1 DEF KnownTo
    <3>3. ASSUME NEW d \in KnownTo(f) PROVE d = c
      <4>1. d \in S /\ f.stream \in {d.stream, d.adopted}
        BY <3>3 DEF KnownTo
      <4> QED BY <2>0, <3>2, <4>1 DEF Apart
    <3>4. C = {c}
      BY <1>2, <2>3, <3>1, <3>3 DEF CallsOf
    <3>5. CASE c.stream = f.stream
      <4>1. CarriedAs(f) = f
        BY <3>4, <3>5 DEF CarriedAs
      <4> QED BY <1>2, <3>2, <3>4, <3>5, <4>1
    <3>6. CASE c.stream # f.stream
      <4>1. CarriedAs(f) = Relabel(f, c)
        BY <3>4, <3>6 DEF CarriedAs
      <4> QED BY <1>2, <3>2, <3>4, <3>6, <4>1
    <3> QED BY <3>5, <3>6
  <2> QED BY <2>1, <2>2, <2>3
<1> QED BY <1>1, <1>2

(* The frame as it is carried: the same kind of frame of the same peer, in *)
(* its own call or in the one it was put back into, under a caller of that *)
(* stream.                                                                 *)
LEMMA CarriedFrame ==
  ASSUME NEW f \in Frames, now \in Nat \ {0}, OpenFits(f.peer, open[f.peer], now)
  PROVE  /\ CarriedAs(f).peer = f.peer /\ CarriedAs(f).kind = f.kind
         /\ CarriedAs(f) \in FrameType
         /\ Backed(f.peer, CarriedAs(f).stream, CarriedAs(f).source)
         /\ \/ CarriedAs(f) = f
            \/ \E c \in open[f.peer] : CarriedAs(f).source = c.source
         /\ \A c \in CallsOf(f) : CarriedAs(f).stream = c.stream
<1> DEFINE g == CarriedAs(f)
<1>1. CASE g = f /\ \A c \in CallsOf(f) : c.stream = f.stream
  BY <1>1, TheFrames
<1>2. ASSUME NEW c \in StillOpen(f.peer), g = Relabel(f, c), CallsOf(f) = {c}
      PROVE  /\ g.peer = f.peer /\ g.kind = f.kind /\ g \in FrameType
             /\ Backed(f.peer, g.stream, g.source)
             /\ \E d \in open[f.peer] : g.source = d.source
             /\ g.stream = c.stream
  <2> HIDE DEF g
  <2>1. c \in open[f.peer] /\ c \in OpenType(now) /\ Backed(f.peer, c.stream, c.source)
    BY DEF StillOpen, OpenFits
  <2>2. /\ c.stream \in Streams /\ c.source \in Radios /\ c.target \in Talkgroups \cup Radios
        /\ c.group \in BOOLEAN
    BY <2>1 DEF OpenType
  <2>3. /\ f.peer \in Peers /\ f.kind \in Kinds /\ f \in FrameType
    BY TheFrames
  <2>4. /\ g.peer = f.peer /\ g.kind = f.kind /\ g.stream = c.stream /\ g.source = c.source
        /\ g \in FrameType
    BY <1>2, <2>2, <2>3 DEF Relabel, FrameType
  <2> QED BY <2>1, <2>4
<1>3. CASE CallsOf(f) = {} /\ g = f
  BY <1>1, <1>3
<1>4. CASE \E c \in StillOpen(f.peer) : /\ CallsOf(f) = {c}
                                        /\ c.stream = f.stream => g = f
                                        /\ c.stream # f.stream => g = Relabel(f, c)
  <2>1. PICK c \in StillOpen(f.peer) : /\ CallsOf(f) = {c}
                                       /\ c.stream = f.stream => g = f
                                       /\ c.stream # f.stream => g = Relabel(f, c)
    BY <1>4
  <2>2. CASE c.stream = f.stream
    BY <1>1, <2>1, <2>2
  <2>3. CASE c.stream # f.stream
    BY <1>2, <2>1, <2>3
  <2> QED BY <2>2, <2>3
<1> QED BY <1>3, <1>4, CallOfFrame

(* What is open when a frame has been taken: what it is no part of, the    *)
(* call it is part of, unless it ended it, or a call of its own.           *)
LEMMA ContinuingIs ==
  ASSUME NEW f \in Frames, ~IsUserData(f), NEW d \in Continuing(f)
  PROVE  \/ d \in StillOpen(f.peer) \ CallsOf(f)
         \/ ~IsTerminator(f) /\ \E c \in CallsOf(f) : d = Heard(f, c)
         \/ ~IsTerminator(f) /\ CallsOf(f) = {} /\ d = OpenCall(f)
BY DEF Continuing

LEMMA HeardCall ==
  ASSUME NEW f \in Frames, now \in Nat \ {0}, NEW c \in OpenType(now)
  PROVE  /\ Heard(f, c) \in OpenType(now) /\ Heard(f, c).seen = now
         /\ Heard(f, c).stream = c.stream /\ Heard(f, c).source = c.source
         /\ Heard(f, c).adopted = IF c.stream = f.stream THEN c.adopted ELSE f.stream
<1> DEFINE x == IF c.stream = f.stream THEN c.adopted ELSE f.stream
<1>1. x \in Streams \cup {NoStream} /\ now \in 1..now
  BY TheFrames DEF OpenType
<1>2. Heard(f, c) = [c EXCEPT !.seen = now, !.adopted = x]
  BY DEF Heard
<1> HIDE DEF x
<1>3. /\ Heard(f, c) \in OpenType(now) /\ Heard(f, c).seen = now
      /\ Heard(f, c).stream = c.stream /\ Heard(f, c).source = c.source
      /\ Heard(f, c).adopted = x
  BY <1>1, <1>2 DEF OpenType
<1> QED BY <1>3 DEF x

LEMMA CallOpened ==
  ASSUME NEW f \in Frames, now \in Nat \ {0}
  PROVE  /\ OpenCall(f) \in OpenType(now) /\ OpenCall(f).seen = now /\ OpenCall(f).adopted = NoStream
         /\ OpenCall(f).stream = f.stream /\ OpenCall(f).source = f.source
<1>1. now \in 1..now
  OBVIOUS
<1> QED BY <1>1, TheFrames DEF OpenType, OpenCall

LEMMA OneMore ==
  ASSUME NEW p, NEW O, NEW n \in Nat, OpenFits(p, O, n), Cardinality(O) < MaxOpenCalls,
         NEW d \in OpenType(n), Backed(p, d.stream, d.source),
         \A c \in O : {c.stream, c.adopted} \cap {d.stream, d.adopted} \subseteq {NoStream}
  PROVE  OpenFits(p, O \cup {d}, n)
<1>1. IsFiniteSet(O) /\ Cardinality(O) \in Nat
  BY FS_CardinalityType DEF OpenFits
<1>2. IsFiniteSet(O \cup {d}) /\ Cardinality(O \cup {d}) <= MaxOpenCalls
  <2>1. CASE d \in O
    <3>1. O \cup {d} = O
      BY <2>1
    <3> QED BY <1>1, <3>1 DEF OpenFits
  <2>2. CASE d \notin O
    <3>1. IsFiniteSet(O \cup {d}) /\ Cardinality(O \cup {d}) = Cardinality(O) + 1
      BY <1>1, <2>2, FS_AddElement
    <3> QED BY <1>1, <3>1, TheTraffic
  <2> QED BY <2>1, <2>2
<1>3. Apart(O \cup {d})
  <2> SUFFICES ASSUME NEW a \in O \cup {d}, NEW b \in O \cup {d}, a # b
               PROVE  {a.stream, a.adopted} \cap {b.stream, b.adopted} \subseteq {NoStream}
    BY DEF Apart
  <2>1. CASE a \in O /\ b \in O
    BY <2>1 DEF OpenFits, Apart
  <2>2. CASE a \in O /\ b = d
    BY <2>2
  <2>3. CASE a = d /\ b \in O
    BY <2>3
  <2> QED BY <2>1, <2>2, <2>3
<1> QED BY <1>2, <1>3 DEF OpenFits

(* continuing keeps the calls within their limit and apart.                *)
LEMMA ContinuingFits ==
  ASSUME NEW f \in Frames, now \in Nat \ {0}, OpenFits(f.peer, open[f.peer], now)
  PROVE  OpenFits(f.peer, Continuing(f), now)
<1> DEFINE S == StillOpen(f.peer)
           C == CallsOf(f)
           rest == S \ C
<1>1. CASE IsUserData(f)
  BY <1>1 DEF Continuing
<1>2. CASE ~IsUserData(f)
  <2>1. S \subseteq open[f.peer] /\ rest \subseteq open[f.peer]
    BY DEF StillOpen
  <2>2. OpenFits(f.peer, S, now) /\ OpenFits(f.peer, rest, now)
    BY <2>1, PartFits
  <2>3. CASE IsTerminator(f)
    <3>1. Continuing(f) = rest
      BY <1>2, <2>3 DEF Continuing
    <3> QED BY <2>2, <3>1
  <2>4. CASE ~IsTerminator(f) /\ C = {}
    <3>1. rest = S /\ KnownTo(f) = {}
      BY <1>2, <2>4, CallOfFrame
    <3>2. Continuing(f) = IF Cardinality(rest) >= MaxOpenCalls THEN rest ELSE rest \cup {OpenCall(f)}
      BY <1>2, <2>4 DEF Continuing
    <3>3. CASE Cardinality(rest) >= MaxOpenCalls
      BY <2>2, <3>2, <3>3
    <3>4. CASE ~(Cardinality(rest) >= MaxOpenCalls)
      <4>1. Cardinality(S) < MaxOpenCalls
        <5>1. IsFiniteSet(S) /\ Cardinality(S) \in Nat
          BY <2>2, FS_CardinalityType DEF OpenFits
        <5>2. ~(Cardinality(S) >= MaxOpenCalls)
          BY <3>1, <3>4
        <5> HIDE DEF S
        <5> QED BY <5>1, <5>2, TheTraffic
      <4>2. OpenCall(f) \in OpenType(now) /\ Backed(f.peer, OpenCall(f).stream, OpenCall(f).source)
        BY CallOpened, TheFrames
      <4>3. \A c \in S : {c.stream, c.adopted} \cap {OpenCall(f).stream, OpenCall(f).adopted} \subseteq {NoStream}
        <5>1. \A c \in S : f.stream \notin {c.stream, c.adopted}
          BY <3>1 DEF KnownTo
        <5> QED BY <5>1, CallOpened
      <4>4. OpenFits(f.peer, S \cup {OpenCall(f)}, now)
        BY <2>2, <4>1, <4>2, <4>3, OneMore
      <4> QED BY <3>1, <3>2, <3>4, <4>4
    <3> QED BY <3>3, <3>4
  <2>5. CASE ~IsTerminator(f) /\ C # {}
    <3>1. PICK c \in S : /\ C = {c}
                         /\ \/ f.stream \in {c.stream, c.adopted}
                            \/ S = {c} /\ KnownTo(f) = {} /\ ~IsHeader(f)
      BY <2>5, CallOfFrame
    <3>2. Continuing(f) = rest \cup {Heard(f, c)}
      BY <1>2, <2>5, <3>1 DEF Continuing
    <3>3. c \in OpenType(now) /\ Backed(f.peer, c.stream, c.source) /\ Apart(S) /\ IsFiniteSet(S)
      BY <2>2 DEF OpenFits
    <3>4. Cardinality(rest) < MaxOpenCalls
      <4>1. rest = S \ {c}
        BY <3>1
      <4>2. Cardinality(S \ {c}) = Cardinality(S) - 1 /\ Cardinality(S) \in Nat /\ Cardinality(S) <= MaxOpenCalls
        BY <2>2, <3>3, FS_RemoveElement, FS_CardinalityType DEF OpenFits
      <4>3. Cardinality(S) - 1 < MaxOpenCalls
        <5> HIDE DEF S
        <5> QED BY <4>2, TheTraffic
      <4> QED BY <4>1, <4>2, <4>3
    <3>5. /\ Heard(f, c) \in OpenType(now) /\ Backed(f.peer, Heard(f, c).stream, Heard(f, c).source)
          /\ Heard(f, c).stream = c.stream
          /\ Heard(f, c).adopted = IF c.stream = f.stream THEN c.adopted ELSE f.stream
      BY <3>3, HeardCall
    <3>6. ASSUME NEW d \in rest
          PROVE  {d.stream, d.adopted} \cap {Heard(f, c).stream, Heard(f, c).adopted} \subseteq {NoStream}
      <4>1. d \in S /\ d # c
        BY <3>1
      <4>2. {d.stream, d.adopted} \cap {c.stream, c.adopted} \subseteq {NoStream}
        BY <3>3, <4>1 DEF Apart
      <4>3. f.stream \in {c.stream, c.adopted}
        BY <3>1, <4>1
      <4> QED BY <3>5, <4>2, <4>3
    <3>7. OpenFits(f.peer, rest \cup {Heard(f, c)}, now)
      BY <2>2, <3>4, <3>5, <3>6, OneMore
    <3> QED BY <3>2, <3>7
  <2> QED BY <2>3, <2>4, <2>5
<1> QED BY <1>1, <1>2

(* A call gone by a frame is the one it ended, or had gone quiet.          *)
LEMMA ContinuingKeeps ==
  ASSUME NEW f \in Frames, now \in Nat \ {0}, OpenFits(f.peer, open[f.peer], now),
         NEW c \in StillOpen(f.peer)
  PROVE  \/ c \in Continuing(f)
         \/ ~IsTerminator(f) /\ Heard(f, c) \in Continuing(f)
         \/ IsTerminator(f) /\ CarriedAs(f).stream = c.stream
<1>1. c \in open[f.peer]
  BY DEF StillOpen
<1>2. CASE IsUserData(f)
  BY <1>1, <1>2 DEF Continuing
<1>3. CASE ~IsUserData(f) /\ c \notin CallsOf(f)
  BY <1>3 DEF Continuing
<1>4. CASE ~IsUserData(f) /\ c \in CallsOf(f)
  <2>1. CASE IsTerminator(f)
    BY <1>4, <2>1, CarriedFrame
  <2>2. CASE ~IsTerminator(f)
    BY <1>4, <2>2 DEF Continuing
  <2> QED BY <2>1, <2>2
<1> QED BY <1>2, <1>3, <1>4


-----------------------------------------------------------------------------
(* The call tracker                                                        *)

ActiveType(n) == [source : Radios, target : Talkgroups \cup Radios, group : BOOLEAN,
                  started : 1..n, seen : 1..n, frames : {1, 2}, voice : BOOLEAN]

(* A call in progress, of a stream that names its caller.                  *)
ActiveFits(k, a, n) ==
  a # NoCall => a \in ActiveType(n) /\ a.started <= a.seen /\ Backed(k[1], k[2], a.source)

LineType == [key : CallKeys, source : Radios, target : Talkgroups \cup Radios, group : BOOLEAN,
             started : Nat, ended : Nat, frames : {1, 2}, voice : BOOLEAN,
             reason : {"terminated", "timed_out"}]

LineFits(l, rows) ==
  /\ l \in LineType /\ l.started <= l.ended
  /\ l.voice /\ l.reason = "terminated" => l \in rows

HistoryFits(h, rows) ==
  /\ h \in Seq(LineType) /\ Len(h) <= History
  /\ \A i \in 1..Len(h) : LineFits(h[i], rows)

TrackerFits ==
  /\ active = [k \in CallKeys |-> active[k]]
  /\ \A k \in CallKeys : ActiveFits(k, active[k], now)
  /\ IsFiniteSet(InProgress) /\ Cardinality(InProgress) <= MaxActive
  /\ HistoryFits(history, stored)

(* Every set of numbers has a least one: what induction rests on here.     *)
LEMMA LeastNumber ==
  ASSUME NEW S \in SUBSET Nat, S # {}
  PROVE  \E m \in S : \A n \in S : m <= n
<1> DEFINE R == OpToRel(<, Nat)
<1>1. IsWellFoundedOn(R, Nat)
  BY NatLessThanWellFounded
<1>2. \A x, y \in Nat : x < y => <<x, y>> \in R
  BY DEF OpToRel
<1> HIDE DEF R
<1>3. PICK x \in S : \A y \in S : ~ (<<y, x>> \in R)
  BY <1>1, WFMin
<1>4. ASSUME NEW y \in S PROVE x <= y
  <2>1. x \in Nat /\ y \in Nat /\ ~(y < x)
    BY <1>2, <1>3
  <2> QED BY <2>1
<1> QED BY <1>4

LEMMA MergedFits ==
  ASSUME NEW rows, NEW prev, NEW c, LineFits(prev, rows), LineFits(c, rows), ~prev.voice
  PROVE  LineFits(Merged(prev, c), rows)
<1> DEFINE e == Later(prev.ended, c.ended)
<1>1. prev \in LineType /\ prev.ended \in Nat /\ c.ended \in Nat /\ prev.started \in Nat
      /\ prev.started <= prev.ended /\ c.reason \in {"terminated", "timed_out"}
  BY DEF LineFits, LineType
<1>2. e \in Nat /\ prev.ended <= e
  BY <1>1 DEF Later
<1>3. Merged(prev, c) = [prev EXCEPT !.frames = 2, !.ended = e, !.reason = c.reason]
  BY DEF Merged
<1> HIDE DEF e
<1>4. /\ Merged(prev, c) \in LineType /\ Merged(prev, c).voice = prev.voice
      /\ Merged(prev, c).started = prev.started /\ Merged(prev, c).ended = e
  BY <1>1, <1>2, <1>3 DEF LineType
<1>5. prev.started <= e
  BY <1>1, <1>2
<1> QED BY <1>4, <1>5 DEF LineFits

(* finish keeps the history within its limit, and every line of it right.  *)
LEMMA KeptFits ==
  ASSUME NEW rows, NEW h, HistoryFits(h, rows), NEW c, LineFits(c, rows)
  PROVE  HistoryFits(Kept(h, c), rows)
<1>1. h \in Seq(LineType) /\ Len(h) \in Nat /\ Len(h) <= History /\ c \in LineType
      /\ \A i \in 1..Len(h) : h[i] \in LineType /\ LineFits(h[i], rows)
  BY DEF HistoryFits, LineFits
<1>2. CASE Mergeable(h, c)
  <2>1. h # <<>> /\ ~Last(h).voice /\ Last(h) = h[Len(h)]
    BY <1>2 DEF Mergeable, Last
  <2>2. Len(h) \in 1..Len(h)
    BY <1>1, <2>1
  <2> DEFINE m == Merged(Last(h), c)
  <2>3. LineFits(m, rows)
    BY <1>1, <2>1, <2>2, MergedFits
  <2>4. Kept(h, c) = [h EXCEPT ![Len(h)] = m]
    BY <1>2 DEF Kept
  <2>5. m \in LineType
    BY <2>3 DEF LineFits
  <2> HIDE DEF m
  <2>6. /\ Kept(h, c) \in Seq(LineType) /\ Len(Kept(h, c)) = Len(h)
        /\ \A i \in 1..Len(h) : Kept(h, c)[i] = IF i = Len(h) THEN m ELSE h[i]
    BY <1>1, <2>2, <2>4, <2>5
  <2> QED BY <1>1, <2>3, <2>6 DEF HistoryFits
<1>3. CASE ~Mergeable(h, c)
  <2> DEFINE all == Append(h, c)
             n == Len(h) + 1
             m == Later(1, n - History + 1)
  <2>1. /\ all \in Seq(LineType) /\ Len(all) = n
        /\ \A i \in 1..n : LineFits(all[i], rows)
    BY <1>1
  <2>2. Kept(h, c) = SubSeq(all, m, n)
    BY <1>3, <2>1 DEF Kept
  <2>3. n \in Nat /\ m \in 1..n /\ n - m + 1 <= History /\ n - m + 1 \in Nat
    BY <1>1, TheTraffic DEF Later
  <2> HIDE DEF all, n, m
  <2>4. /\ SubSeq(all, m, n) \in Seq(LineType) /\ Len(SubSeq(all, m, n)) = n - m + 1
        /\ \A i \in 1..(n - m + 1) : SubSeq(all, m, n)[i] = all[m + i - 1]
    BY <2>1, <2>3, SubSeqProperties
  <2>5. \A i \in 1..(n - m + 1) : m + i - 1 \in 1..n
    BY <2>3
  <2> QED BY <2>1, <2>2, <2>3, <2>4, <2>5 DEF HistoryFits
<1> QED BY <1>2, <1>3

(* The histories as one call after the other is finished.                  *)
Histories(g, h, calls, n) ==
  g = [i \in 0..n |-> IF i = 0 THEN h ELSE Kept(g[i - 1], calls[i])]

LEMMA HistoriesExist ==
  ASSUME NEW h, NEW calls
  PROVE  \A n \in Nat : \E g : Histories(g, h, calls, n)
<1> DEFINE S == {n \in Nat : ~\E g : Histories(g, h, calls, n)}
<1> SUFFICES ASSUME S # {} PROVE FALSE
  OBVIOUS
<1>1. PICK m \in S : \A n \in S : m <= n
  BY LeastNumber
<1>2. m # 0
  <2>1. Histories([i \in 0..0 |-> h], h, calls, 0)
    BY DEF Histories
  <2> QED BY <1>1, <2>1
<1>3. m - 1 \in Nat /\ m - 1 \notin S
  BY <1>1, <1>2
<1>4. PICK g : Histories(g, h, calls, m - 1)
  BY <1>3
<1> DEFINE x == [i \in 0..m |-> IF i = m THEN Kept(g[m - 1], calls[m]) ELSE g[i]]
<1>5. /\ \A i \in 0..(m - 1) : x[i] = g[i]
      /\ x[m] = Kept(g[m - 1], calls[m])
  BY <1>3
<1>6. ASSUME NEW i \in 0..m PROVE x[i] = IF i = 0 THEN h ELSE Kept(x[i - 1], calls[i])
  <2>1. CASE i = m
    <3>1. m - 1 \in 0..(m - 1)
      BY <1>3
    <3> HIDE DEF x
    <3> QED BY <1>2, <1>5, <2>1, <3>1
  <2>2. CASE i # m /\ i # 0
    <3>1. i \in 0..(m - 1) /\ i - 1 \in 0..(m - 1)
      BY <1>3, <2>2
    <3>2. g[i] = Kept(g[i - 1], calls[i])
      BY <1>4, <2>2, <3>1 DEF Histories
    <3> HIDE DEF x
    <3> QED BY <1>5, <2>2, <3>1, <3>2
  <2>3. CASE i # m /\ i = 0
    <3>1. 0 \in 0..(m - 1)
      BY <1>3
    <3>2. g[0] = h
      BY <1>4, <3>1 DEF Histories
    <3> HIDE DEF x
    <3> QED BY <1>5, <2>3, <3>1, <3>2
  <2> QED BY <2>1, <2>2, <2>3
<1>7. Histories(x, h, calls, m)
  BY <1>6 DEF Histories
<1> QED BY <1>1, <1>7

(* So does finish, of any number of calls one after the other.             *)
LEMMA KeptInOrderFits ==
  ASSUME NEW rows, NEW h, HistoryFits(h, rows), NEW calls, Len(calls) \in Nat,
         \A i \in 1..Len(calls) : LineFits(calls[i], rows)
  PROVE  HistoryFits(KeptInOrder(h, calls), rows)
<1> DEFINE N == Len(calls)
           g == CHOOSE x : Histories(x, h, calls, N)
<1>1. \E x : Histories(x, h, calls, N)
  BY HistoriesExist
<1>2. Histories(g, h, calls, N)
  BY <1>1, Zenon
<1>3. KeptInOrder(h, calls)
        = (CHOOSE x : x = [i \in 0..N |-> IF i = 0 THEN h ELSE Kept(x[i - 1], calls[i])])[N]
  BY DEF KeptInOrder
<1>4. g = CHOOSE x : x = [i \in 0..N |-> IF i = 0 THEN h ELSE Kept(x[i - 1], calls[i])]
  BY Zenon DEF Histories
<1>5. KeptInOrder(h, calls) = g[N]
  BY <1>3, <1>4
<1> HIDE DEF g, N
<1>6. N \in Nat /\ \A i \in 0..N : g[i] = IF i = 0 THEN h ELSE Kept(g[i - 1], calls[i])
  BY <1>2 DEF Histories, N
<1> DEFINE S == {i \in 0..N : ~HistoryFits(g[i], rows)}
<1>7. S = {}
  <2> SUFFICES ASSUME S # {} PROVE FALSE
    OBVIOUS
  <2>1. PICK m \in S : \A i \in S : m <= i
    <3>1. S \in SUBSET Nat
      BY <1>6
    <3> HIDE DEF S
    <3> QED BY <3>1, LeastNumber
  <2>2. m \in 0..N /\ ~HistoryFits(g[m], rows)
    BY <2>1
  <2>3. m # 0
    BY <1>6, <2>2
  <2>4. m - 1 \in 0..N /\ m \in 1..N /\ m - 1 \notin S
    BY <1>6, <2>1, <2>3
  <2>5. HistoryFits(g[m - 1], rows) /\ LineFits(calls[m], rows)
    BY <2>4 DEF N
  <2>6. g[m] = Kept(g[m - 1], calls[m])
    BY <1>6, <2>2, <2>3
  <2> QED BY <2>2, <2>5, <2>6, KeptFits
<1>8. N \in 0..N
  BY <1>6
<1> QED BY <1>5, <1>7, <1>8


LEMMA MoreRows ==
  ASSUME NEW h, NEW rows, NEW more, rows \subseteq more, HistoryFits(h, rows)
  PROVE  HistoryFits(h, more)
BY DEF HistoryFits, LineFits

LEMMA FinishedFits ==
  ASSUME NEW k \in CallKeys, NEW n \in Nat, NEW a \in ActiveType(n), NEW at \in Nat, a.started <= at,
         NEW reason \in {"terminated", "timed_out"}, NEW rows,
         reason = "terminated" => Finished(k, a, at, reason) \in rows
  PROVE  LineFits(Finished(k, a, at, reason), rows)
<1>1. /\ a.source \in Radios /\ a.target \in Talkgroups \cup Radios /\ a.group \in BOOLEAN
      /\ a.started \in Nat /\ a.frames \in {1, 2} /\ a.voice \in BOOLEAN
  BY DEF ActiveType
<1>2. Finished(k, a, at, reason) \in LineType
  BY <1>1 DEF Finished, LineType
<1>3. /\ Finished(k, a, at, reason).started = a.started /\ Finished(k, a, at, reason).ended = at
      /\ Finished(k, a, at, reason).reason = reason
  BY DEF Finished
<1> QED BY <1>2, <1>3 DEF LineFits

LEMMA NoCallIsNone ==
  ASSUME NEW n, NEW a \in ActiveType(n)
  PROVE  a # NoCall
<1>1. a.frames # 0 /\ NoCall.frames = 0
  BY DEF ActiveType, NoCall
<1> QED BY <1>1

(* Tracker.Update: only the frame's own call is touched; unless the frame  *)
(* ends it or the tracker is full, it is in progress and just heard.       *)
LEMMA UpdateFits ==
  ASSUME TrackerFits, now \in Nat \ {0}, now' = now,
         NEW g \in FrameType, Backed(g.peer, g.stream, g.source), Update(g)
  PROVE  /\ TrackerFits' /\ turned \subseteq turned'
         /\ \A k \in CallKeys : k # CallKey(g) => active'[k] = active[k]
         /\ IsTerminator(g) \/ CallKey(g) \in turned'
              \/ (active'[CallKey(g)] # NoCall /\ active'[CallKey(g)].seen = now)
<1> DEFINE k == CallKey(g)
           c == IF active[k] = NoCall THEN Started(g) ELSE Continued(active[k], g)
           done == Finished(k, c, now, "terminated")
<1>1. /\ g.peer \in Peers /\ g.stream \in Streams /\ g.source \in Radios
      /\ g.target \in Talkgroups \cup Radios /\ g.group \in BOOLEAN
  BY DEF FrameType
<1>2. k \in CallKeys /\ k[1] = g.peer /\ k[2] = g.stream
  BY <1>1 DEF CallKey, CallKeys
<1>t. /\ active = [j \in CallKeys |-> active[j]] /\ \A j \in CallKeys : ActiveFits(j, active[j], now)
      /\ IsFiniteSet(InProgress) /\ Cardinality(InProgress) <= MaxActive /\ HistoryFits(history, stored)
      /\ Cardinality(InProgress) \in Nat /\ now \in 1..now
  BY FS_CardinalityType DEF TrackerFits
<1>3. c \in ActiveType(now) /\ c.seen = now /\ c.started <= now /\ Backed(k[1], k[2], c.source)
  <2>1. CASE active[k] = NoCall
    <3>1. c = Started(g)
      BY <2>1
    <3>2. /\ Started(g) \in ActiveType(now) /\ Started(g).seen = now /\ Started(g).started = now
          /\ Started(g).source = g.source
      BY <1>1, <1>t DEF Started, ActiveType, IsVoice
    <3> QED BY <1>2, <3>1, <3>2
  <2>2. CASE active[k] # NoCall
    <3> DEFINE a == active[k]
               v == a.voice \/ IsVoice(g)
    <3>1. a \in ActiveType(now) /\ a.started <= a.seen /\ Backed(k[1], k[2], a.source)
      BY <1>2, <1>t, <2>2 DEF ActiveFits
    <3>2. c = [a EXCEPT !.seen = now, !.frames = 2, !.voice = v]
      BY <2>2 DEF Continued
    <3>3. v \in BOOLEAN /\ a.started \in 1..now
      BY <3>1 DEF ActiveType, IsVoice
    <3> HIDE DEF v, a, c
    <3>4. c \in ActiveType(now) /\ c.seen = now /\ c.started = a.started /\ c.source = a.source
      BY <1>t, <3>1, <3>2, <3>3 DEF ActiveType
    <3> QED BY <3>1, <3>3, <3>4
  <2> QED BY <2>1, <2>2
<1>4. c # NoCall
  BY <1>3, NoCallIsNone
<1>u. \/ /\ active[k] = NoCall /\ Cardinality(InProgress) >= MaxActive
         /\ turned' = turned \cup {k} /\ UNCHANGED <<active, history, stored>>
      \/ /\ IsTerminator(g) /\ active' = [active EXCEPT ![k] = NoCall]
         /\ history' = Kept(history, done) /\ stored' = stored \cup {done} /\ UNCHANGED turned
      \/ /\ active[k] # NoCall \/ ~(Cardinality(InProgress) >= MaxActive)
         /\ active' = [active EXCEPT ![k] = c] /\ UNCHANGED <<history, stored, turned>>
  BY DEF Update
<1> HIDE DEF c
<1>5. CASE turned' = turned \cup {k} /\ UNCHANGED <<active, history, stored>>
  <2>1. TrackerFits'
    BY <1>5 DEF TrackerFits, InProgress
  <2> QED BY <1>5, <2>1
<1>6. CASE /\ IsTerminator(g) /\ active' = [active EXCEPT ![k] = NoCall]
           /\ history' = Kept(history, done) /\ stored' = stored \cup {done} /\ UNCHANGED turned
  <2>1. /\ active' = [j \in CallKeys |-> active'[j]]
        /\ \A j \in CallKeys : active'[j] = IF j = k THEN NoCall ELSE active[j]
    BY <1>2, <1>6, <1>t
  <2>2. InProgress' \subseteq InProgress
    BY <2>1 DEF InProgress
  <2>3. IsFiniteSet(InProgress') /\ Cardinality(InProgress') <= MaxActive
    <3>1. /\ IsFiniteSet(InProgress') /\ Cardinality(InProgress') \in Nat
          /\ Cardinality(InProgress') <= Cardinality(InProgress)
      BY <1>t, <2>2, FS_Subset, FS_CardinalityType
    <3> QED BY <1>t, <3>1, TheTraffic
  <2>4. \A j \in CallKeys : ActiveFits(j, active'[j], now)
    BY <1>t, <2>1 DEF ActiveFits
  <2>5. LineFits(done, stored')
    BY <1>2, <1>3, <1>6, FinishedFits
  <2>6. HistoryFits(history, stored')
    BY <1>6, <1>t, MoreRows
  <2>7. HistoryFits(history', stored')
    BY <1>6, <2>5, <2>6, KeptFits
  <2>8. TrackerFits'
    BY <2>1, <2>3, <2>4, <2>7 DEF TrackerFits
  <2> QED BY <1>6, <2>1, <2>8
<1>7. CASE /\ active[k] # NoCall \/ ~(Cardinality(InProgress) >= MaxActive)
           /\ active' = [active EXCEPT ![k] = c] /\ UNCHANGED <<history, stored, turned>>
  <2>1. /\ active' = [j \in CallKeys |-> active'[j]]
        /\ \A j \in CallKeys : active'[j] = IF j = k THEN c ELSE active[j]
    BY <1>2, <1>7, <1>t
  <2>2. InProgress' = InProgress \cup {k}
    BY <1>2, <1>4, <2>1 DEF InProgress
  <2>3. IsFiniteSet(InProgress') /\ Cardinality(InProgress') <= MaxActive
    <3>1. CASE k \in InProgress
      <4>1. InProgress' = InProgress
        BY <2>2, <3>1
      <4> QED BY <1>t, <4>1
    <3>2. CASE k \notin InProgress
      <4>1. IsFiniteSet(InProgress') /\ Cardinality(InProgress') = Cardinality(InProgress) + 1
        BY <1>t, <2>2, <3>2, FS_AddElement
      <4>2. ~(Cardinality(InProgress) >= MaxActive)
        BY <1>2, <1>7, <3>2 DEF InProgress
      <4> QED BY <1>t, <4>1, <4>2, TheTraffic
    <3> QED BY <3>1, <3>2
  <2>4. \A j \in CallKeys : ActiveFits(j, active'[j], now)
    BY <1>3, <1>t, <2>1 DEF ActiveFits
  <2>5. HistoryFits(history', stored')
    BY <1>7, <1>t
  <2>6. TrackerFits'
    BY <2>1, <2>3, <2>4, <2>5 DEF TrackerFits
  <2> QED BY <1>2, <1>3, <1>4, <1>7, <2>1, <2>6
<1> QED BY <1>5, <1>6, <1>7, <1>u

(* Tracker.Expire ends the calls that fell silent, and no other.           *)
LEMMA ExpireFits ==
  ASSUME TrackerFits, now \in Nat \ {0}, now' = now, ExpireCalls
  PROVE  /\ TrackerFits' /\ turned' = turned
         /\ \A k \in CallKeys : active[k] # NoCall /\ Within(active[k].seen, StreamTimeout)
              => active'[k] = active[k]
<1>1. PICK order \in ByLastFrame :
        /\ active' = [k \in CallKeys |-> IF k \in Lost THEN NoCall ELSE active[k]]
        /\ history' = KeptInOrder(history, [i \in DOMAIN order |-> Silenced(order[i])])
        /\ UNCHANGED <<stored, turned>>
  BY DEF ExpireCalls
<1>t. /\ active = [j \in CallKeys |-> active[j]] /\ \A j \in CallKeys : ActiveFits(j, active[j], now)
      /\ IsFiniteSet(InProgress) /\ Cardinality(InProgress) <= MaxActive /\ HistoryFits(history, stored)
      /\ Cardinality(InProgress) \in Nat
  BY FS_CardinalityType DEF TrackerFits
<1> DEFINE N == Cardinality(Lost)
           calls == [i \in DOMAIN order |-> Silenced(order[i])]
<1>2. Lost \subseteq InProgress /\ IsFiniteSet(Lost) /\ N \in Nat
  <2>1. Lost \subseteq InProgress
    BY DEF Lost
  <2> QED BY <1>t, <2>1, FS_Subset, FS_CardinalityType
<1>3. order \in [1..N -> Lost]
  BY DEF ByLastFrame, SetToSeqs
<1>4. /\ DOMAIN calls = 1..N /\ calls = [i \in 1..N |-> Silenced(order[i])]
  BY <1>3
<1> HIDE DEF N
<1>5. Len(calls) = N /\ Len(calls) \in Nat
  <2>1. calls \in Seq({Silenced(k) : k \in Lost})
    BY <1>2, <1>3, <1>4
  <2>2. Len(calls) \in Nat /\ DOMAIN calls = 1..Len(calls)
    BY <2>1
  <2> HIDE DEF calls
  <2> QED BY <1>2, <1>4, <2>2
<1>6. ASSUME NEW i \in 1..Len(calls) PROVE LineFits(calls[i], stored)
  <2> DEFINE k == order[i]
             a == active[k]
  <2>1. k \in Lost /\ k \in CallKeys /\ a # NoCall /\ calls[i] = Silenced(k)
    BY <1>2, <1>3, <1>4, <1>5, <1>6 DEF Lost, InProgress
  <2>2. a \in ActiveType(now) /\ a.started <= a.seen
    BY <1>t, <2>1 DEF ActiveFits
  <2>3. a.seen \in Nat
    BY <2>2 DEF ActiveType
  <2>4. LineFits(Finished(k, a, a.seen, "timed_out"), stored)
    BY <2>1, <2>2, <2>3, FinishedFits
  <2> QED BY <2>1, <2>4 DEF Silenced
<1>7. HistoryFits(history', stored')
  <2>1. HistoryFits(KeptInOrder(history, calls), stored)
    <3> HIDE DEF calls
    <3> QED BY <1>5, <1>6, <1>t, KeptInOrderFits
  <2> QED BY <1>1, <2>1
<1>8. /\ active' = [j \in CallKeys |-> active'[j]]
      /\ \A j \in CallKeys : active'[j] = IF j \in Lost THEN NoCall ELSE active[j]
  BY <1>1
<1>9. InProgress' \subseteq InProgress
  BY <1>8 DEF InProgress
<1>10. IsFiniteSet(InProgress') /\ Cardinality(InProgress') <= MaxActive
  <2>1. /\ IsFiniteSet(InProgress') /\ Cardinality(InProgress') \in Nat
        /\ Cardinality(InProgress') <= Cardinality(InProgress)
    BY <1>t, <1>9, FS_Subset, FS_CardinalityType
  <2> QED BY <1>t, <2>1, TheTraffic
<1>11. \A j \in CallKeys : ActiveFits(j, active'[j], now)
  BY <1>t, <1>8 DEF ActiveFits
<1>12. TrackerFits'
  BY <1>7, <1>8, <1>10, <1>11 DEF TrackerFits
<1>13. \A k \in CallKeys : active[k] # NoCall /\ Within(active[k].seen, StreamTimeout)
         => active'[k] = active[k]
  BY <1>8 DEF Lost
<1> QED BY <1>1, <1>12, <1>13


-----------------------------------------------------------------------------
(* The whole                                                               *)

(* A call that is open is one the tracker follows and heard no earlier, if *)
(* it was not turned away.                                                 *)
Followed ==
  \A p \in Peers : \A c \in open[p] :
    Within(c.seen, StreamTimeout) =>
      \/ <<p, c.stream>> \in turned
      \/ active[<<p, c.stream>>] # NoCall /\ c.seen <= active[<<p, c.stream>>].seen

(* A stream with a header has a call of its own, heard no earlier.         *)
KeyedFits ==
  /\ keyed = [k \in CallKeys |-> keyed[k]] /\ \A k \in CallKeys : keyed[k] \in 0..now
  /\ \A p \in Peers, s \in Streams :
       Within(keyed[<<p, s>>], StreamTimeout) =>
         \E c \in open[p] : c.stream = s /\ keyed[<<p, s>>] <= c.seen

(* Whoever holds a call or is somewhere spoke while permitted.             *)
SpokeFits ==
  /\ \A p \in Peers : \A c \in open[p] : c.source \in spoke
  /\ DOMAIN subscribers = Radios
  /\ \A r \in Radios : subscribers[r] = Nowhere \/ (subscribers[r].peer \in Peers /\ r \in spoke)

(* Who was told to log in is remembered while it matters.                  *)
AnsweredFits ==
  /\ DOMAIN answered = Peers /\ DOMAIN nakked = Peers
  /\ \A p \in Peers : answered[p] \in 0..now /\ nakked[p] \in 0..now
  /\ \A p \in Peers : nakked[p] # Never => answered[p] = nakked[p] \/ now - nakked[p] >= AnswerInterval

OpensFit == open = [p \in Peers |-> open[p]] /\ \A p \in Peers : OpenFits(p, open[p], now)

TrafficInv ==
  /\ now \in 1..MaxTime /\ pc \in {"read", "sweep"} /\ banned \in Bans
  /\ AttachmentsFit /\ OpensFit /\ TrackerFits
  /\ Followed /\ KeyedFits /\ SpokeFits /\ AnsweredFits

LEMMA TrafficStarts == Init => TrafficInv
<1> SUFFICES ASSUME Init PROVE TrafficInv
  OBVIOUS
<1>1. now \in 1..MaxTime /\ now = 1 /\ pc \in {"read", "sweep"} /\ banned \in Bans
  BY TheTraffic DEF Init
<1>2. AttachmentsFit
  BY <1>1, AttachmentsStart DEF Init
<1>3. OpensFit
  <2>1. IsFiniteSet({}) /\ Cardinality({}) = 0
    BY FS_EmptySet
  <2>2. \A p \in Peers : open[p] = {} /\ open = [q \in Peers |-> open[q]]
    BY DEF Init
  <2> QED BY <2>1, <2>2, TheTraffic DEF Init, OpensFit, OpenFits, Apart
<1>4. TrackerFits
  <2>1. IsFiniteSet({}) /\ Cardinality({}) = 0
    BY FS_EmptySet
  <2>2. active = [k \in CallKeys |-> NoCall] /\ history = <<>>
    BY DEF Init, CallInit
  <2>3. InProgress = {}
    BY <2>2 DEF InProgress
  <2>4. HistoryFits(history, stored)
    BY <2>2, TheTraffic DEF HistoryFits
  <2> QED BY <2>1, <2>2, <2>3, <2>4, TheTraffic DEF TrackerFits, ActiveFits
<1>5. Followed /\ SpokeFits
  BY DEF Init, Followed, SpokeFits
<1>6. KeyedFits
  <2>1. keyed = [k \in CallKeys |-> 0] /\ Never = 0 /\ 0 \in 0..now
    BY <1>1 DEF Init, Never
  <2>2. \A p \in Peers, s \in Streams : <<p, s>> \in CallKeys
    BY DEF CallKeys
  <2> QED BY <2>1, <2>2 DEF KeyedFits, Within
<1>7. AnsweredFits
  BY <1>1, TheTraffic DEF Init, AnsweredFits
<1> QED BY <1>1, <1>2, <1>3, <1>4, <1>5, <1>6, <1>7 DEF TrafficInv

(* A radio that is located spoke while permitted, a stream with a header   *)
(* is carried as itself, and what is open is tracked under its caller.     *)
LEMMA KeyedIsItself ==
  ASSUME TrafficInv, NEW f \in Frames, Within(keyed[CallKey(f)], StreamTimeout), ~IsUserData(f)
  PROVE  /\ CarriedAs(f) = f
         /\ \E c \in StillOpen(f.peer) : c.stream = f.stream /\ CallsOf(f) = {c}
<1>1. PICK c \in open[f.peer] : c.stream = f.stream /\ keyed[CallKey(f)] <= c.seen
  BY TheFrames DEF TrafficInv, KeyedFits, CallKey
<1>2. OpenFits(f.peer, open[f.peer], now) /\ now \in Nat \ {0} /\ keyed[CallKey(f)] \in Nat
      /\ StreamTimeout \in Nat
  BY TheFrames, TheTraffic DEF TrafficInv, OpensFit, KeyedFits
<1>3. c.seen \in 1..now
  BY <1>1, <1>2 DEF OpenFits, OpenType
<1>4. c \in StillOpen(f.peer)
  BY <1>1, <1>2, <1>3 DEF StillOpen, Within, Never
<1>5. c \in KnownTo(f)
  BY <1>1, <1>4 DEF KnownTo
<1>6. PICK d \in StillOpen(f.peer) :
        /\ CallsOf(f) = {d}
        /\ d.stream = f.stream => CarriedAs(f) = f
        /\ f.stream \in {d.stream, d.adopted}
  BY <1>2, <1>5, CallOfFrame
<1>7. d = c
  <2>1. c \in CallsOf(f)
    BY <1>5 DEF CallsOf, Joins
  <2> QED BY <1>6, <2>1
<1> QED BY <1>1, <1>4, <1>6, <1>7

LEMMA TrafficSafety == TrafficInv => TrafficTypeOK /\ HeaderIsTheLine /\ OpenIsTracked
                                      /\ HistoryIsSane /\ EndedIsRecorded /\ HeardAsAsked
<1> SUFFICES ASSUME TrafficInv
             PROVE  TrafficTypeOK /\ HeaderIsTheLine /\ OpenIsTracked
                    /\ HistoryIsSane /\ EndedIsRecorded /\ HeardAsAsked
  OBVIOUS
<1>0. now \in Nat \ {0} /\ now <= MaxTime
  BY TheTraffic DEF TrafficInv
<1>1. TrafficTypeOK
  <2>1. attachments \in [Attachable -> AttachmentType]
    <3>1. attachments = [k \in Attachable |-> attachments[k]]
      BY DEF TrafficInv, AttachmentsFit
    <3>2. ASSUME NEW k \in Attachable PROVE attachments[k] \in AttachmentType
      <4>1. attachments[k] \in [held : BOOLEAN, static : BOOLEAN, used : 0..now]
        BY DEF TrafficInv, AttachmentsFit, Fits
      <4>2. 0..now \subseteq 0..MaxTime
        BY <1>0, TheTraffic
      <4> QED BY <4>1, <4>2 DEF AttachmentType
    <3> QED BY <3>1, <3>2
  <2>2. ASSUME NEW p \in Peers
        PROVE  open[p] \subseteq CallRecords /\ Cardinality(open[p]) <= MaxOpenCalls /\ Apart(open[p])
    <3>1. OpenFits(p, open[p], now)
      BY DEF TrafficInv, OpensFit
    <3>2. 1..now \subseteq 1..MaxTime
      BY <1>0, TheTraffic
    <3>3. OpenType(now) \subseteq CallRecords
      BY <3>2 DEF OpenType, CallRecords
    <3> QED BY <3>1, <3>3 DEF OpenFits
  <2>3. \A r \in Radios : subscribers[r] = Nowhere \/ subscribers[r].peer \in Peers
    BY DEF TrafficInv, SpokeFits
  <2>4. now \in 1..MaxTime /\ pc \in {"read", "sweep"} /\ subscription \in Subscriptions /\ banned \in Bans
    BY DEF TrafficInv, AttachmentsFit
  <2> QED BY <2>1, <2>2, <2>3, <2>4 DEF TrafficTypeOK, Apart
<1>2. HeaderIsTheLine
  <2> SUFFICES ASSUME NEW f \in Frames, Within(keyed[CallKey(f)], StreamTimeout) PROVE CarriedAs(f) = f
    BY DEF HeaderIsTheLine
  <2>1. CASE IsUserData(f)
    BY <2>1 DEF CarriedAs, CallsOf
  <2>2. CASE ~IsUserData(f)
    BY <2>2, KeyedIsItself
  <2> QED BY <2>1, <2>2
<1>3. OpenIsTracked
  <2> SUFFICES ASSUME NEW p \in Peers, NEW c \in StillOpen(p), <<p, c.stream>> \notin turned
               PROVE  /\ active[<<p, c.stream>>] # NoCall
                      /\ active[<<p, c.stream>>].source = c.source
    BY DEF OpenIsTracked
  <2>1. c \in open[p] /\ Within(c.seen, StreamTimeout)
    BY DEF StillOpen
  <2>2. active[<<p, c.stream>>] # NoCall
    BY <2>1 DEF TrafficInv, Followed
  <2>3. Backed(p, c.stream, c.source) /\ c.stream \in Streams
    BY <2>1 DEF TrafficInv, OpensFit, OpenFits, OpenType
  <2>4. <<p, c.stream>> \in CallKeys
    BY <2>3 DEF CallKeys
  <2>5. Backed(p, c.stream, active[<<p, c.stream>>].source)
    BY <2>2, <2>4 DEF TrafficInv, TrackerFits, ActiveFits
  <2> QED BY <2>2, <2>3, <2>5, StreamAssumption DEF Backed
<1>4. HistoryIsSane /\ EndedIsRecorded
  <2>1. HistoryFits(history, stored) /\ Cardinality(InProgress) <= MaxActive
    BY DEF TrafficInv, TrackerFits
  <2>2. DOMAIN history = 1..Len(history)
    BY <2>1 DEF HistoryFits
  <2> QED BY <2>1, <2>2 DEF HistoryFits, LineFits, HistoryIsSane, EndedIsRecorded
<1>5. HeardAsAsked
  <2>1. ASSUME NEW r \in Radios, Located(r) PROVE r \in spoke
    <3>1. subscribers[r] # Nowhere
      BY <2>1 DEF Located, Within, Nowhere
    <3> QED BY <3>1 DEF TrafficInv, SpokeFits
  <2> QED BY <2>1, AttachmentsHeard DEF TrafficInv, HeardAsAsked, LocatedWasPermitted
<1> QED BY <1>1, <1>2, <1>3, <1>4, <1>5


LEMMA AttachOrDropFits ==
  ASSUME AttachmentsFit, NEW g, g.group \in BOOLEAN, AttachOrDrop(g), now' = now
  PROVE  AttachmentsFit'
<1>1. CASE g.group
  <2>1. Uses(<<g.peer, g.target>>, UnlinksNow(g))
    BY <1>1 DEF AttachOrDrop
  <2>2. UnlinksNow(g) \in BOOLEAN
    BY DEF UnlinksNow, Unlinks
  <2> QED BY <2>1, <2>2, UsesFits
<1>2. CASE ~g.group
  BY <1>2, RestFits DEF AttachOrDrop
<1> QED BY <1>1, <1>2

(* A frame that is carried (handleData).                                   *)
LEMMA DataKeepsFollowed ==
  ASSUME TrafficInv, NEW f \in Frames, Data(f)
  PROVE  TrackerFits' /\ Followed'
<1> DEFINE g == CarriedAs(f)
           p == f.peer
<1>0. /\ now \in Nat \ {0} /\ now' = now /\ p \in Peers
      /\ OpenFits(p, open[p], now) /\ OpensFit /\ TrackerFits /\ Followed
      /\ open' = [open EXCEPT ![p] = Continuing(f)]
  BY TheFrames, TheTraffic DEF TrafficInv, OpensFit, Data
<1>1. /\ \A q \in Peers : open'[q] = IF q = p THEN Continuing(f) ELSE open[q]
  BY <1>0 DEF OpensFit
<1>2. /\ g.peer = p /\ g.kind = f.kind /\ g \in FrameType /\ Backed(g.peer, g.stream, g.source)
      /\ \A c \in CallsOf(f) : g.stream = c.stream
  BY <1>0, CarriedFrame
<1>3. Update(g)
  BY DEF Data
<1> HIDE DEF g
<1>4. /\ TrackerFits' /\ turned \subseteq turned'
      /\ \A k \in CallKeys : k # CallKey(g) => active'[k] = active[k]
      /\ IsTerminator(g) \/ CallKey(g) \in turned'
           \/ (active'[CallKey(g)] # NoCall /\ active'[CallKey(g)].seen = now)
  BY <1>0, <1>2, <1>3, UpdateFits
<1>5. CallKey(g) = <<p, g.stream>> /\ (IsTerminator(g) <=> IsTerminator(f))
  BY <1>2 DEF CallKey, IsTerminator
<1>6. OpenFits(p, Continuing(f), now)
  BY <1>0, ContinuingFits
<1>7. ASSUME NEW q \in Peers, NEW d \in open[q], Within(d.seen, StreamTimeout),
             q # p \/ d.stream # g.stream
      PROVE  \/ <<q, d.stream>> \in turned'
             \/ active'[<<q, d.stream>>] # NoCall /\ d.seen <= active'[<<q, d.stream>>].seen
  <2>1. d.stream \in Streams
    BY <1>0, <1>7 DEF OpensFit, OpenFits, OpenType
  <2>2. <<q, d.stream>> \in CallKeys /\ <<q, d.stream>> # CallKey(g)
    BY <1>5, <1>7, <2>1 DEF CallKeys
  <2> QED BY <1>0, <1>4, <1>7, <2>2 DEF Followed
<1>8. ASSUME NEW d \in Continuing(f), Within(d.seen, StreamTimeout)
      PROVE  \/ <<p, d.stream>> \in turned'
             \/ active'[<<p, d.stream>>] # NoCall /\ d.seen <= active'[<<p, d.stream>>].seen
  <2>1. d.seen \in 1..now
    BY <1>6, <1>8 DEF OpenFits, OpenType
  <2>2. CASE d.stream = g.stream /\ ~IsTerminator(f)
    BY <1>0, <1>4, <1>5, <2>1, <2>2
  <2>3. CASE d.stream # g.stream /\ d \in open[p]
    BY <1>0, <1>7, <1>8, <2>3
  <2>4. CASE d.stream # g.stream /\ d \notin open[p]
    <3>1. ~IsUserData(f)
      BY <2>4, <1>8 DEF Continuing
    <3>2. d \notin StillOpen(p)
      BY <2>4 DEF StillOpen
    <3>3. CASE \E c \in CallsOf(f) : d = Heard(f, c)
      <4>1. PICK c \in CallsOf(f) : d = Heard(f, c)
        BY <3>3
      <4>2. c \in open[p]
        BY <4>1 DEF CallsOf, KnownTo, StillOpen
      <4>3. c \in OpenType(now)
        BY <1>0, <4>2 DEF OpenFits
      <4>4. d.stream = c.stream
        BY <1>0, <4>1, <4>3, HeardCall
      <4> QED BY <1>2, <2>4, <4>1, <4>4
    <3>4. CASE CallsOf(f) = {} /\ d = OpenCall(f)
      <4>1. g = f
        BY <1>0, <3>4, CallOfFrame DEF g
      <4> QED BY <1>0, <2>4, <3>4, <4>1, CallOpened
    <3> QED BY <1>8, <3>1, <3>2, <3>3, <3>4, ContinuingIs
  <2>5. CASE d.stream = g.stream /\ IsTerminator(f)
    <3>1. ~IsUserData(f)
      BY <2>5 DEF IsTerminator, IsUserData
    <3>2. d \in StillOpen(p) /\ d \notin CallsOf(f)
      BY <1>8, <2>5, <3>1, ContinuingIs
    <3>3. CASE CallsOf(f) = {}
      <4>1. g = f /\ KnownTo(f) = {}
        BY <1>0, <3>1, <3>3, CallOfFrame DEF g
      <4> QED BY <2>5, <3>2, <4>1 DEF KnownTo
    <3>4. CASE CallsOf(f) # {}
      <4>1. PICK c \in CallsOf(f) : TRUE
        BY <3>4
      <4>2. c \in open[p] /\ d \in open[p] /\ c # d
        BY <3>2, <4>1 DEF CallsOf, KnownTo, StillOpen
      <4>3. c.stream = d.stream /\ c.stream # NoStream
        <5>1. c.stream = g.stream /\ c.stream \in Streams
          BY <1>0, <1>2, <4>1, <4>2 DEF OpenFits, OpenType
        <5> QED BY <2>5, <5>1, TheTraffic
      <4> QED BY <1>0, <4>2, <4>3 DEF OpenFits, Apart
    <3> QED BY <3>3, <3>4
  <2> QED BY <2>2, <2>3, <2>4, <2>5
<1>9. Followed'
  <2> SUFFICES ASSUME NEW q \in Peers, NEW d \in open'[q], Within(d.seen, StreamTimeout)'
               PROVE  \/ <<q, d.stream>> \in turned'
                      \/ active'[<<q, d.stream>>] # NoCall /\ d.seen <= active'[<<q, d.stream>>].seen
    BY DEF Followed
  <2>1. Within(d.seen, StreamTimeout)
    BY <1>0 DEF Within
  <2>2. CASE q = p
    BY <1>1, <1>8, <2>1, <2>2
  <2>3. CASE q # p
    BY <1>1, <1>7, <2>1, <2>3
  <2> QED BY <2>2, <2>3
<1> QED BY <1>4, <1>9

LEMMA DataKeepsKeyed ==
  ASSUME TrafficInv, NEW f \in Frames, Data(f)
  PROVE  KeyedFits'
<1> DEFINE g == CarriedAs(f)
           p == f.peer
           kf == CallKey(f)
           kg == CallKey(g)
           header == IsHeader(f) /\ KnownTo(f) = {} /\ Cardinality(StillOpen(p)) < MaxOpenCalls
           x == IF Within(keyed[kf], StreamTimeout) \/ header THEN now ELSE Never
<1>0. /\ now \in Nat \ {0} /\ now' = now /\ p \in Peers
      /\ OpenFits(p, open[p], now) /\ OpensFit /\ KeyedFits
      /\ open' = [open EXCEPT ![p] = Continuing(f)]
  BY TheFrames, TheTraffic DEF TrafficInv, OpensFit, Data
<1>1. /\ \A q \in Peers : open'[q] = IF q = p THEN Continuing(f) ELSE open[q]
  BY <1>0 DEF OpensFit
<1>2. g.peer = p /\ g.kind = f.kind /\ g \in FrameType
  BY <1>0, CarriedFrame
<1>3. /\ kf \in CallKeys /\ kf = <<p, f.stream>> /\ kg = <<p, g.stream>> /\ kg \in CallKeys
      /\ (IsTerminator(g) <=> IsTerminator(f))
  <2>1. g.stream \in Streams
    BY <1>2 DEF FrameType
  <2> QED BY <1>0, <1>2, <2>1, TheFrames DEF CallKey, CallKeys, IsTerminator
<1>4. /\ keyed = [k \in CallKeys |-> keyed[k]] /\ \A k \in CallKeys : keyed[k] \in 0..now
      /\ x \in 0..now /\ Never = 0 /\ Never \in 0..now
  BY <1>0 DEF KeyedFits, Never
<1>5. CASE IsUserData(f)
  <2>0. keyed' = [k \in CallKeys |-> keyed[k]]
    BY <1>3, <1>5 DEF Data, Noted, IsUserData, IsTerminator
  <2>1. keyed' = keyed /\ Continuing(f) = open[p]
    BY <1>4, <1>5, <2>0 DEF Continuing
  <2>2. \A q \in Peers : open'[q] = open[q]
    BY <1>1, <2>1
  <2> QED BY <1>0, <2>1, <2>2 DEF KeyedFits, Within
<1>6. CASE ~IsUserData(f)
  <2>1. keyed' = [k \in CallKeys |-> IF k = kg /\ IsTerminator(g) THEN Never
                                   ELSE IF k = kf THEN x ELSE keyed[k]]
    BY <1>6 DEF Data, Noted, Keys
  <2> HIDE DEF x
  <2>2. /\ keyed' = [k \in CallKeys |-> keyed'[k]]
        /\ \A k \in CallKeys : keyed'[k] = IF k = kg /\ IsTerminator(f) THEN Never
                                           ELSE IF k = kf THEN x ELSE keyed[k]
    BY <1>3, <2>1
  <2>3. \A k \in CallKeys : keyed'[k] \in 0..now'
    BY <1>0, <1>4, <2>2
  <2>4. ASSUME NEW q \in Peers, NEW s \in Streams, Within(keyed'[<<q, s>>], StreamTimeout)
        PROVE  \E c \in open'[q] : c.stream = s /\ keyed'[<<q, s>>] <= c.seen
    <3> DEFINE k == <<q, s>>
    <3>0. k \in CallKeys /\ ~(k = kg /\ IsTerminator(f))
      BY <2>2, <2>4 DEF CallKeys, Within
    <3>1. CASE q # p
      <4>1. keyed'[k] = keyed[k] /\ open'[q] = open[q]
        BY <1>1, <1>3, <2>2, <3>0, <3>1
      <4> QED BY <1>0, <2>4, <4>1 DEF KeyedFits
    <3>2. CASE q = p /\ s = f.stream
      <4>1. keyed'[k] = x /\ x # Never
        BY <1>3, <2>2, <2>4, <3>0, <3>2 DEF Within
      <4>2. x = now /\ (Within(keyed[kf], StreamTimeout) \/ header)
        BY <4>1 DEF x
      <4>3. CASE Within(keyed[kf], StreamTimeout)
        <5>1. PICK c \in StillOpen(p) : c.stream = f.stream /\ CallsOf(f) = {c} /\ g = f
          BY <1>6, <4>3, KeyedIsItself
        <5>2. ~IsTerminator(f)
          BY <1>3, <3>0, <3>2, <5>1
        <5>3. Heard(f, c) \in Continuing(f)
          BY <1>6, <5>1, <5>2 DEF Continuing
        <5>4. c \in OpenType(now)
          BY <1>0, <5>1 DEF OpenFits, StillOpen
        <5>5. Heard(f, c).stream = s /\ Heard(f, c).seen = now
          BY <1>0, <3>2, <5>1, <5>4, HeardCall
        <5> QED BY <1>0, <1>1, <3>2, <4>1, <4>2, <5>3, <5>5
      <4>4. CASE header
        <5>1. CallsOf(f) = {}
          BY <1>6, <4>4 DEF CallsOf, Joins
        <5>2. ~IsTerminator(f)
          BY <4>4 DEF IsHeader, IsTerminator
        <5>3. ~(Cardinality(StillOpen(p)) >= MaxOpenCalls)
          <6>1. StillOpen(p) \subseteq open[p]
            BY DEF StillOpen
          <6>2. Cardinality(StillOpen(p)) \in Nat
            BY <1>0, <6>1, FS_Subset, FS_CardinalityType DEF OpenFits
          <6> QED BY <4>4, <6>2, TheTraffic
        <5>4. StillOpen(p) \ {} = StillOpen(p)
          OBVIOUS
        <5>5. OpenCall(f) \in Continuing(f)
          BY <1>6, <5>1, <5>2, <5>3, <5>4 DEF Continuing
        <5>6. OpenCall(f).stream = s /\ OpenCall(f).seen = now
          BY <1>0, <3>2, CallOpened
        <5> QED BY <1>0, <1>1, <3>2, <4>1, <4>2, <5>5, <5>6
      <4> QED BY <4>2, <4>3, <4>4
    <3>3. CASE q = p /\ s # f.stream
      <4>1. keyed'[k] = keyed[k]
        BY <1>3, <2>2, <3>0, <3>3
      <4>2. PICK c \in open[p] : c.stream = s /\ keyed[k] <= c.seen
        BY <1>0, <2>4, <3>3, <4>1 DEF KeyedFits
      <4>3. c \in OpenType(now) /\ c.seen \in 1..now /\ keyed[k] \in 0..now
        BY <1>0, <1>4, <3>0, <4>2 DEF OpenFits, OpenType
      <4>4. c \in StillOpen(p)
        BY <1>0, <2>4, <4>1, <4>2, <4>3, TheTraffic DEF StillOpen, Within
      <4>5. CASE c \in Continuing(f)
        BY <1>1, <3>3, <4>1, <4>2, <4>5
      <4>6. CASE Heard(f, c) \in Continuing(f)
        <5>1. Heard(f, c).stream = s /\ Heard(f, c).seen = now
          BY <1>0, <4>2, <4>3, HeardCall
        <5> QED BY <1>0, <1>1, <3>3, <4>1, <4>3, <4>6, <5>1
      <4>7. CASE IsTerminator(f) /\ g.stream = c.stream
        BY <1>3, <3>0, <3>3, <4>2, <4>7
      <4> QED BY <1>0, <4>4, <4>5, <4>6, <4>7, ContinuingKeeps
    <3> QED BY <3>1, <3>2, <3>3
  <2> QED BY <1>0, <2>2, <2>3, <2>4 DEF KeyedFits, Within
<1> QED BY <1>5, <1>6

LEMMA DataKeepsSpoke ==
  ASSUME TrafficInv, NEW f \in Frames, Data(f)
  PROVE  SpokeFits'
<1> DEFINE g == CarriedAs(f)
           p == f.peer
<1>0. /\ now \in Nat \ {0} /\ p \in Peers /\ OpenFits(p, open[p], now) /\ OpensFit /\ SpokeFits
      /\ open' = [open EXCEPT ![p] = Continuing(f)] /\ spoke' = spoke \cup {f.source}
      /\ subscribers' = [subscribers EXCEPT ![g.source] = [peer |-> g.peer, heard |-> now]]
  BY TheFrames, TheTraffic DEF TrafficInv, OpensFit, Data, Noted, Observe
<1>1. \A q \in Peers : open'[q] = IF q = p THEN Continuing(f) ELSE open[q]
  BY <1>0 DEF OpensFit
<1>2. g.peer = p /\ (g.source = f.source \/ \E c \in open[p] : g.source = c.source)
  BY <1>0, CarriedFrame
<1>3. g.source \in spoke'
  BY <1>0, <1>2 DEF SpokeFits
<1>4. ASSUME NEW d \in Continuing(f) PROVE d.source \in spoke'
  <2>1. CASE d \in open[p]
    BY <1>0, <2>1 DEF SpokeFits
  <2>2. CASE d \notin open[p]
    <3>1. ~IsUserData(f) /\ d \notin StillOpen(p)
      BY <1>4, <2>2 DEF Continuing, StillOpen
    <3>2. CASE \E c \in CallsOf(f) : d = Heard(f, c)
      <4>1. PICK c \in CallsOf(f) : d = Heard(f, c)
        BY <3>2
      <4>2. c \in open[p]
        BY <4>1 DEF CallsOf, KnownTo, StillOpen
      <4>3. c \in OpenType(now)
        BY <1>0, <4>2 DEF OpenFits
      <4>4. d.source = c.source
        BY <1>0, <4>1, <4>3, HeardCall
      <4> QED BY <1>0, <4>2, <4>4 DEF SpokeFits
    <3>3. CASE d = OpenCall(f)
      BY <1>0, <3>3, CallOpened
    <3> QED BY <1>4, <3>1, <3>2, <3>3, ContinuingIs
  <2> QED BY <2>1, <2>2
<1> HIDE DEF g
<1>5. \A r \in Radios : subscribers'[r] = Nowhere \/ (subscribers'[r].peer \in Peers /\ r \in spoke')
  BY <1>0, <1>2, <1>3 DEF SpokeFits
<1>6. DOMAIN subscribers' = Radios
  BY <1>0 DEF SpokeFits
<1>7. ASSUME NEW q \in Peers, NEW d \in open'[q] PROVE d.source \in spoke'
  BY <1>0, <1>1, <1>4, <1>7 DEF SpokeFits
<1> QED BY <1>5, <1>6, <1>7 DEF SpokeFits

LEMMA DataKeeps ==
  ASSUME TrafficInv, NEW f \in Frames, Data(f)
  PROVE  TrafficInv'
<1>0. /\ now \in Nat \ {0} /\ now' = now /\ f.peer \in Peers
      /\ OpenFits(f.peer, open[f.peer], now) /\ OpensFit /\ AttachmentsFit
      /\ open' = [open EXCEPT ![f.peer] = Continuing(f)] /\ pc' = "sweep" /\ banned' = banned
      /\ answered' = answered /\ nakked' = nakked
  BY TheFrames, TheTraffic DEF TrafficInv, OpensFit, Data, Reads
<1>1. OpensFit'
  <2>1. OpenFits(f.peer, Continuing(f), now)
    BY <1>0, ContinuingFits
  <2>2. /\ open' = [q \in Peers |-> open'[q]]
        /\ \A q \in Peers : open'[q] = IF q = f.peer THEN Continuing(f) ELSE open[q]
    BY <1>0 DEF OpensFit
  <2>3. \A q \in Peers : OpenFits(q, open'[q], now')
    BY <1>0, <2>1, <2>2 DEF OpensFit
  <2> QED BY <2>2, <2>3 DEF OpensFit
<1>2. AttachmentsFit'
  <2>1. CarriedAs(f) \in FrameType
    BY <1>0, CarriedFrame
  <2>2. CarriedAs(f).group \in BOOLEAN
    BY <2>1 DEF FrameType
  <2>3. AttachOrDrop(CarriedAs(f))
    BY DEF Data
  <2> QED BY <1>0, <2>2, <2>3, AttachOrDropFits
<1>3. AnsweredFits'
  BY <1>0 DEF TrafficInv, AnsweredFits
<1>4. now' \in 1..MaxTime /\ pc' \in {"read", "sweep"} /\ banned' \in Bans
  BY <1>0 DEF TrafficInv
<1>5. TrackerFits' /\ Followed' /\ KeyedFits' /\ SpokeFits'
  BY DataKeepsFollowed, DataKeepsKeyed, DataKeepsSpoke
<1> QED BY <1>1, <1>2, <1>3, <1>4, <1>5 DEF TrafficInv


LEMMA SoonerIsNearer == \A m, n, t, d \in Nat : m <= n /\ n - t <= d => m - t <= d
OBVIOUS

(* Nothing but the time, or the settings, changed.                         *)
LEMMA QuietKeeps ==
  ASSUME TrafficInv, now' \in 1..MaxTime, now' = now \/ now' = now + 1,
         UNCHANGED <<attachmentVars, callVars, masterVars, pastVars>>, pc' \in {"read", "sweep"}
  PROVE  TrafficInv'
<1>0. /\ now \in Nat \ {0} /\ now' \in Nat \ {0} /\ now <= now' /\ StreamTimeout \in Nat
      /\ active' = active /\ history' = history /\ stored' = stored /\ turned' = turned
      /\ open' = open /\ banned' = banned /\ subscribers' = subscribers /\ answered' = answered
      /\ spoke' = spoke /\ keyed' = keyed /\ nakked' = nakked
  BY TheTraffic DEF TrafficInv, callVars, masterVars, pastVars
<1>1. AttachmentsFit'
  BY RestFits DEF TrafficInv
<1>2. ASSUME NEW t \in 0..now, Within(t, StreamTimeout)' PROVE Within(t, StreamTimeout)
  <2>1. t # Never /\ now' - t <= StreamTimeout /\ t \in Nat
    BY <1>2 DEF Within
  <2>2. now \in Nat /\ now' \in Nat /\ now <= now' /\ StreamTimeout \in Nat
    BY <1>0
  <2>3. now - t <= StreamTimeout
    BY <2>1, <2>2, SoonerIsNearer
  <2> QED BY <2>1, <2>3 DEF Within
<1>3. OpensFit'
  <2>1. 1..now \subseteq 1..now'
    BY <1>0
  <2>2. OpenType(now) \subseteq OpenType(now')
    BY <2>1 DEF OpenType
  <2>3. ASSUME NEW p \in Peers PROVE OpenFits(p, open[p], now')
    BY <2>2 DEF TrafficInv, OpensFit, OpenFits
  <2> QED BY <1>0, <2>3 DEF TrafficInv, OpensFit
<1>4. TrackerFits'
  <2>1. 1..now \subseteq 1..now'
    BY <1>0
  <2>2. ActiveType(now) \subseteq ActiveType(now')
    BY <2>1 DEF ActiveType
  <2>3. ASSUME NEW k \in CallKeys PROVE ActiveFits(k, active[k], now')
    BY <2>2 DEF TrafficInv, TrackerFits, ActiveFits
  <2>4. InProgress' = InProgress
    BY <1>0 DEF InProgress
  <2> QED BY <1>0, <2>3, <2>4 DEF TrafficInv, TrackerFits
<1>5. Followed'
  <2> SUFFICES ASSUME NEW p \in Peers, NEW c \in open[p], Within(c.seen, StreamTimeout)'
               PROVE  \/ <<p, c.stream>> \in turned
                      \/ active[<<p, c.stream>>] # NoCall /\ c.seen <= active[<<p, c.stream>>].seen
    BY <1>0 DEF Followed
  <2>1. c.seen \in 0..now
    BY <1>0 DEF TrafficInv, OpensFit, OpenFits, OpenType
  <2> QED BY <1>2, <2>1 DEF TrafficInv, Followed
<1>6. KeyedFits'
  <2>1. ASSUME NEW p \in Peers, NEW s \in Streams, Within(keyed[<<p, s>>], StreamTimeout)'
        PROVE  \E c \in open[p] : c.stream = s /\ keyed[<<p, s>>] <= c.seen
    <3>1. <<p, s>> \in CallKeys
      BY DEF CallKeys
    <3>2. keyed[<<p, s>>] \in 0..now
      BY <3>1 DEF TrafficInv, KeyedFits
    <3>3. Within(keyed[<<p, s>>], StreamTimeout)
      BY <1>0, <2>1, <3>2 DEF Within
    <3> QED BY <3>3 DEF TrafficInv, KeyedFits
  <2>2. \A k \in CallKeys : keyed[k] \in 0..now'
    BY <1>0 DEF TrafficInv, KeyedFits
  <2>3. keyed = [k \in CallKeys |-> keyed[k]]
    BY DEF TrafficInv, KeyedFits
  <2> QED BY <1>0, <2>1, <2>2, <2>3 DEF KeyedFits
<1>7. SpokeFits'
  BY <1>0 DEF TrafficInv, SpokeFits
<1>8. AnsweredFits'
  BY <1>0, TheTraffic DEF TrafficInv, AnsweredFits
<1> QED BY <1>0, <1>1, <1>3, <1>4, <1>5, <1>6, <1>7, <1>8 DEF TrafficInv

(* A stranger is told to log in (shouldAnswerUnregistered).                *)
LEMMA UnregisteredKeeps ==
  ASSUME TrafficInv, NEW f \in Frames, Unregistered(f)
  PROVE  /\ TrafficInv'
         /\ \A p \in Peers : nakked'[p] # nakked[p] /\ nakked[p] # Never => now - nakked[p] >= AnswerInterval
<1> DEFINE p == f.peer
<1>0. /\ now \in Nat \ {0} /\ now' = now /\ p \in Peers /\ pc' = "sweep"
      /\ answered[p] = Never \/ now - answered[p] >= AnswerInterval
      /\ answered' = [Pruned EXCEPT ![p] = now] /\ nakked' = [nakked EXCEPT ![p] = now]
      /\ UNCHANGED <<now, attachmentVars, callVars, state, open, banned, subscribers, lastUnlink,
                     edits, spoke, keyed>>
  BY TheFrames, TheTraffic DEF TrafficInv, Unregistered, Reads
<1>1. /\ DOMAIN answered = Peers /\ DOMAIN nakked = Peers
      /\ \A q \in Peers : /\ answered[q] \in 0..now /\ nakked[q] \in 0..now
                          /\ nakked[q] # Never => answered[q] = nakked[q] \/ now - nakked[q] >= AnswerInterval
  BY DEF TrafficInv, AnsweredFits
<1>2. /\ DOMAIN Pruned = Peers
      /\ \A q \in Peers : Pruned[q] = answered[q] \/ (Pruned[q] = Never /\ now - answered[q] >= AnswerInterval)
  BY DEF Pruned
<1>3. /\ DOMAIN answered' = Peers /\ DOMAIN nakked' = Peers
      /\ answered'[p] = now /\ nakked'[p] = now
      /\ \A q \in Peers \ {p} : answered'[q] = Pruned[q] /\ nakked'[q] = nakked[q]
  BY <1>0, <1>1, <1>2
<1>4. AnsweredFits'
  <2>1. ASSUME NEW q \in Peers
        PROVE  /\ answered'[q] \in 0..now /\ nakked'[q] \in 0..now
               /\ nakked'[q] # Never => answered'[q] = nakked'[q] \/ now - nakked'[q] >= AnswerInterval
    <3>1. CASE q = p
      BY <1>0, <1>3, <3>1
    <3>2. CASE q # p
      BY <1>0, <1>1, <1>2, <1>3, <3>2, TheTraffic
    <3> QED BY <3>1, <3>2
  <2> QED BY <1>0, <1>3, <2>1 DEF AnsweredFits
<1>5. \A q \in Peers : nakked'[q] # nakked[q] /\ nakked[q] # Never => now - nakked[q] >= AnswerInterval
  BY <1>0, <1>1, <1>3, TheTraffic
<1>6. AttachmentsFit'
  BY <1>0, RestFits DEF TrafficInv
<1>7. OpensFit' /\ TrackerFits' /\ Followed' /\ KeyedFits' /\ SpokeFits'
  BY <1>0 DEF TrafficInv, callVars, OpensFit, TrackerFits, InProgress, Followed, KeyedFits, SpokeFits, Within
<1>8. now' \in 1..MaxTime /\ pc' \in {"read", "sweep"} /\ banned' \in Bans
  BY <1>0 DEF TrafficInv
<1> QED BY <1>4, <1>5, <1>6, <1>7, <1>8 DEF TrafficInv

(* The sweep: a save, if one waits, and every expiry.                      *)
LEMMA SweepKeeps ==
  ASSUME TrafficInv, NEW s \in Subscriptions, NEW b \in Bans, NEW saved \in BOOLEAN, Sweep(s, b, saved)
  PROVE  TrafficInv'
<1>0. /\ now \in Nat \ {0} /\ now' = now /\ pc' = "read" /\ (saved \/ s = subscription)
      /\ SweepAttachments(s, saved) /\ banned' = b /\ ExpireCalls
      /\ subscribers' = [r \in Radios |->
           IF Within(subscribers[r].heard, SubscriberTimeout) THEN subscribers[r] ELSE Nowhere]
      /\ open' = open /\ answered' = answered /\ spoke' = spoke /\ keyed' = keyed /\ nakked' = nakked
  BY TheTraffic DEF TrafficInv, Sweep, pastVars
<1>1. AttachmentsFit'
  BY <1>0, SweepFits DEF TrafficInv
<1>2. /\ TrackerFits' /\ turned' = turned
      /\ \A k \in CallKeys : active[k] # NoCall /\ Within(active[k].seen, StreamTimeout)
           => active'[k] = active[k]
  BY <1>0, ExpireFits DEF TrafficInv
<1>3. Followed'
  <2> SUFFICES ASSUME NEW p \in Peers, NEW c \in open[p], Within(c.seen, StreamTimeout),
                      <<p, c.stream>> \notin turned
               PROVE  active'[<<p, c.stream>>] # NoCall /\ c.seen <= active'[<<p, c.stream>>].seen
    BY <1>0, <1>2 DEF Followed, Within
  <2> DEFINE k == <<p, c.stream>>
  <2>1. active[k] # NoCall /\ c.seen <= active[k].seen
    BY DEF TrafficInv, Followed
  <2>2. c.seen \in 1..now /\ c.stream \in Streams
    BY DEF TrafficInv, OpensFit, OpenFits, OpenType
  <2>3. k \in CallKeys
    BY <2>2 DEF CallKeys
  <2>4. active[k].seen \in 1..now
    BY <2>1, <2>3 DEF TrafficInv, TrackerFits, ActiveFits, ActiveType
  <2>5. Within(active[k].seen, StreamTimeout)
    BY <1>0, <2>1, <2>2, <2>4, TheTraffic DEF Within
  <2> QED BY <1>2, <2>1, <2>3, <2>5
<1>4. OpensFit' /\ KeyedFits' /\ AnsweredFits'
  BY <1>0 DEF TrafficInv, OpensFit, KeyedFits, AnsweredFits, Within
<1>5. SpokeFits'
  BY <1>0 DEF TrafficInv, SpokeFits
<1>6. now' \in 1..MaxTime /\ pc' \in {"read", "sweep"} /\ banned' \in Bans
  BY <1>0 DEF TrafficInv
<1> QED BY <1>1, <1>2, <1>3, <1>4, <1>5, <1>6 DEF TrafficInv

LEMMA RegistrationKeeps ==
  ASSUME TrafficInv, NEW p \in Peers, NEW next \in {"gone", "known", "ready"}, Registration(p, next)
  PROVE  TrafficInv'
<1>0. /\ now \in Nat \ {0} /\ now' = now /\ pc' = pc
      /\ open' = IF next = "gone" THEN [open EXCEPT ![p] = {}] ELSE open
      /\ keyed' = [k \in CallKeys |-> IF next = "gone" /\ k[1] = p THEN Never ELSE keyed[k]]
      /\ UNCHANGED <<attachmentVars, callVars, banned, subscribers, answered, spoke, nakked>>
  BY TheTraffic DEF TrafficInv, Registration
<1>1. /\ open' = [q \in Peers |-> open'[q]]
      /\ \A q \in Peers : open'[q] = IF next = "gone" /\ q = p THEN {} ELSE open[q]
  BY <1>0 DEF TrafficInv, OpensFit
<1>2. OpensFit'
  <2>1. IsFiniteSet({}) /\ Cardinality({}) = 0
    BY FS_EmptySet
  <2>2. \A q \in Peers : OpenFits(q, {}, now)
    BY <2>1, TheTraffic DEF OpenFits, Apart
  <2> QED BY <1>0, <1>1, <2>2 DEF TrafficInv, OpensFit
<1>3. AttachmentsFit'
  BY <1>0, RestFits DEF TrafficInv
<1>4. KeyedFits'
  <2>1. \A q \in Peers, s \in Streams :
          <<q, s>> \in CallKeys /\ keyed'[<<q, s>>] = IF next = "gone" /\ q = p THEN Never ELSE keyed[<<q, s>>]
    BY <1>0 DEF CallKeys
  <2>2. \A k \in CallKeys : keyed'[k] \in 0..now
    BY <1>0 DEF TrafficInv, KeyedFits, Never
  <2>3. ASSUME NEW q \in Peers, NEW s \in Streams, Within(keyed'[<<q, s>>], StreamTimeout)
        PROVE  \E c \in open'[q] : c.stream = s /\ keyed'[<<q, s>>] <= c.seen
    <3>1. ~(next = "gone" /\ q = p)
      BY <2>1, <2>3 DEF Within
    <3>2. keyed'[<<q, s>>] = keyed[<<q, s>>] /\ open'[q] = open[q]
      BY <1>1, <2>1, <3>1
    <3> QED BY <2>3, <3>2 DEF TrafficInv, KeyedFits
  <2>4. keyed' = [k \in CallKeys |-> keyed'[k]]
    BY <1>0
  <2> QED BY <1>0, <2>2, <2>3, <2>4 DEF KeyedFits, Within
<1>5. TrackerFits' /\ AnsweredFits'
  BY <1>0 DEF TrafficInv, callVars, TrackerFits, InProgress, AnsweredFits
<1>6. Followed' /\ SpokeFits'
  BY <1>0, <1>1 DEF TrafficInv, callVars, Followed, SpokeFits, Within
<1>7. now' \in 1..MaxTime /\ pc' \in {"read", "sweep"} /\ banned' \in Bans
  BY <1>0 DEF TrafficInv
<1> QED BY <1>2, <1>3, <1>4, <1>5, <1>6, <1>7 DEF TrafficInv

LEMMA TrafficKeeps == TrafficInv /\ [Next]_vars => TrafficInv'
<1> SUFFICES ASSUME TrafficInv, [Next]_vars PROVE TrafficInv'
  OBVIOUS
<1>0. now \in 1..MaxTime /\ pc \in {"read", "sweep"} /\ now \in Nat
  BY DEF TrafficInv
<1>1. CASE Datagram(Frames)
  <2>1. PICK f \in Frames : Data(f) \/ Refused(f) \/ Unregistered(f)
    BY <1>1 DEF Datagram
  <2>2. CASE Refused(f)
    BY <1>0, <2>2, QuietKeeps DEF Refused, Reads
  <2> QED BY <2>1, <2>2, DataKeeps, UnregisteredKeeps
<1>2. CASE ReadTimesOut
  BY <1>0, <1>2, QuietKeeps DEF ReadTimesOut
<1>3. CASE Sweeps
  BY <1>3, SweepKeeps DEF Sweeps
<1>4. CASE Registrations
  BY <1>4, RegistrationKeeps DEF Registrations
<1>5. CASE Passes
  <2>1. now' = now + 1 /\ now' \in 1..MaxTime
    BY <1>0, <1>5, TheTraffic DEF Passes, Tick
  <2> QED BY <1>0, <1>5, <2>1, QuietKeeps DEF Passes
<1>6. CASE UNCHANGED vars
  BY <1>0, <1>6, QuietKeeps DEF vars
<1> QED BY <1>1, <1>2, <1>3, <1>4, <1>5, <1>6 DEF Next

LEMMA TrafficInvHolds == Spec => []TrafficInv
BY TrafficStarts, TrafficKeeps, PTL DEF Spec

(* The stream that began a line keeps it, what a peer has open is what the *)
(* console shows, and what ended is in the history, in order and within    *)
(* its limit, and recorded, for any stations (handleData, continuing,      *)
(* Tracker.Update and Expire).                                             *)
THEOREM CallsStayWhole == Spec => []CallsAreWhole
BY TrafficInvHolds, TrafficSafety, PTL DEF CallsAreWhole

(* What a peer hears is what is configured or what it asked for, through   *)
(* saves and expiry, and nobody is reachable that did not speak while      *)
(* permitted (attachments.go, subscribers.go).                             *)
THEOREM PeersHearWhatTheyAsked == Spec => []HeardAsAsked
BY TrafficInvHolds, TrafficSafety, PTL

LEMMA AnswersStep ==
  TrafficInv /\ [Next]_vars =>
    [\A p \in Peers : nakked'[p] # nakked[p] /\ nakked[p] # Never => now - nakked[p] >= AnswerInterval]_vars
<1> SUFFICES ASSUME TrafficInv, Next, NEW p \in Peers, nakked'[p] # nakked[p], nakked[p] # Never
             PROVE  now - nakked[p] >= AnswerInterval
  OBVIOUS
<1>1. CASE \E f \in Frames : Unregistered(f)
  BY <1>1, UnregisteredKeeps
<1>2. CASE ~\E f \in Frames : Unregistered(f)
  BY <1>2 DEF Next, Datagram, Data, Refused, ReadTimesOut, Sweeps, Sweep, Registrations, Registration,
              Passes, pastVars
<1> QED BY <1>1, <1>2

(* However many strangers there are, each is told to log in at most once   *)
(* per interval (shouldAnswerUnregistered).                                *)
THEOREM StrangersAreAnsweredOnce == Spec => AnsweredOnce
<1>1. Spec => [][\A p \in Peers : nakked'[p] # nakked[p] /\ nakked[p] # Never
                                    => now - nakked[p] >= AnswerInterval]_vars
  BY TrafficInvHolds, AnswersStep, PTL DEF Spec
<1> QED BY <1>1 DEF AnsweredOnce


=============================================================================
