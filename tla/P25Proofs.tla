----------------------------- MODULE P25Proofs ------------------------------
(***************************************************************************)
(* Proofs about the P25 side.  For any number of gateways and tunnels, the *)
(* relaying of V24 implements Line: every repeater is sent whole calls.    *)
(* For any hold, lateness and stall, the schedule of Pacer spaces voice    *)
(* records evenly.                                                         *)
(***************************************************************************)
EXTENDS V24, Pacer, SequenceTheorems, TLAPS

-----------------------------------------------------------------------------
(* Pacing. *)

PacerSpec == PacerInit /\ [][PacerNext]_pacerVars

PacerTypeOK ==
  /\ schedule \in [next : Int, last : Int, after : Nat]
  /\ spoken \in Nat /\ arrived \in Nat /\ left \in Nat /\ gap \in Int
  /\ count \in Nat /\ behind \in BOOLEAN /\ numbered \in Nat \ {0}

(* What the schedule hands from one record to the next, and from one call  *)
(* to the next: the line is free again an interval after the last record   *)
(* left.  In a call, the next record is spoken early enough to arrive by   *)
(* then when nothing is later than Hold.                                   *)
ScheduleFollows == Hold > 0 =>
  /\ arrived <= left
  /\ count = 0 => schedule.next = Unset
  /\ numbered + count > 1 => schedule.after = left + RecordInterval
  /\ count > 0 => /\ schedule.next = left + RecordInterval /\ schedule.last = arrived
                  /\ spoken <= arrived + RecordInterval
                  /\ spoken + Hold <= left + RecordInterval

(* What EvenlyPaced is inductive with. *)
PacerInv == PacerTypeOK /\ ScheduleFollows /\ EvenlyPaced

LEMMA FreshIs ==
  ASSUME NEW after \in Nat
  PROVE  /\ Fresh(after) \in [next : Int, last : Int, after : Nat]
         /\ Fresh(after).next = Unset /\ Fresh(after).after = after
BY DEF Fresh, Unset

LEMMA PacerInitInv == PacerInit => PacerInv
<1> SUFFICES ASSUME PacerInit PROVE PacerInv
  OBVIOUS
<1>1. RecordInterval \in Nat
  BY PacerAssumption
<1>2. schedule \in [next : Int, last : Int, after : Nat] /\ schedule.next = Unset
  BY FreshIs DEF PacerInit
<1>3. behind \in BOOLEAN
  BY Zenon DEF PacerInit
<1>4. PacerTypeOK
  BY <1>1, <1>2, <1>3 DEF PacerInit, PacerTypeOK
<1>5. ScheduleFollows /\ EvenlyPaced
  BY <1>1, <1>2 DEF PacerInit, ScheduleFollows, EvenlyPaced
<1> QED BY <1>4, <1>5 DEF PacerInv

LEMMA VoiceRecordPreserves ==
  ASSUME NEW late \in 0..Late, NEW stall \in 0..MaxStall, PacerInv, VoiceRecord(late, stall)
  PROVE  PacerInv'
<1> DEFINE arrival == Later(arrived, spoken + late)
           now == Later(arrival, left) + stall
           s == IF schedule.next # Unset /\ arrival - schedule.last > Quiet
                THEN Fresh(schedule.after) ELSE schedule
           at == IF Hold > 0 THEN Due(s, arrival, now) ELSE now
<1>0. /\ RecordInterval \in Nat \ {0} /\ Hold \in Nat /\ Late \in Nat /\ MaxStall \in Nat /\ Quiet \in Nat
      /\ RecordInterval + Hold <= Quiet /\ late \in Nat /\ late <= Late /\ stall \in Nat
  BY PacerAssumption
<1>1. PacerTypeOK /\ ScheduleFollows
  BY DEF PacerInv
<1>2. /\ arrival \in Nat /\ arrival >= arrived /\ arrival >= spoken + late
      /\ (arrival = arrived \/ arrival = spoken + late)
  BY <1>0, <1>1 DEF Later, PacerTypeOK
<1>3. now \in Nat /\ now >= arrival /\ now >= left /\ (stall = 0 => now = arrival \/ now = left)
  BY <1>0, <1>1, <1>2 DEF Later, PacerTypeOK
<1>4. /\ s.next \in Int /\ s.after = schedule.after /\ s.after \in Nat
      /\ s.next \in {Unset, schedule.next}
  BY <1>1 DEF PacerTypeOK, Fresh, Unset
<1>5. /\ schedule' = IF Hold > 0 THEN [next |-> at + RecordInterval, last |-> arrival, after |-> at + RecordInterval]
                     ELSE schedule
      /\ arrived' = arrival /\ left' = at /\ gap' = at - left
      /\ behind' = (behind \/ stall > 0)
      /\ count' = count + 1 /\ spoken' = spoken + RecordInterval
      /\ numbered' = numbered
  BY DEF VoiceRecord
<1> HIDE DEF arrival, now
<1>9. CASE ~(Hold > 0)
  <2>1. at = now /\ schedule' = schedule
    BY <1>5, <1>9
  <2> HIDE DEF s, at
  <2>2. at \in Nat /\ at - left \in Int /\ count + 1 \in Nat /\ spoken + RecordInterval \in Nat
    BY <1>0, <1>1, <1>3, <2>1 DEF PacerTypeOK
  <2>3. behind' \in BOOLEAN
    BY <1>5, Zenon
  <2>4. PacerTypeOK'
    BY <1>1, <1>2, <1>5, <2>1, <2>2, <2>3 DEF PacerTypeOK
  <2> QED BY <1>9, <2>4 DEF PacerInv, ScheduleFollows, EvenlyPaced
<1> SUFFICES ASSUME Hold > 0 PROVE PacerInv'
  BY <1>9
<1>6. /\ at \in Int /\ at >= now /\ at >= schedule.after
      /\ s.next = Unset => at >= arrival + Hold
      /\ s.next # Unset => at >= s.next
      /\ s.next # Unset => at = s.next \/ at = arrival \/ at = now \/ at = schedule.after
  <2> HIDE DEF s
  <2> QED BY <1>0, <1>2, <1>3, <1>4 DEF Due, Later
<1>7. CASE count = 0
  <2>1. schedule.next = Unset /\ s.next = Unset
    BY <1>1, <1>7 DEF ScheduleFollows, Unset, Fresh
  <2> HIDE DEF s, at
  <2>2. PacerTypeOK'
    BY <1>0, <1>1, <1>2, <1>3, <1>5, <1>6 DEF PacerTypeOK
  <2>3. ScheduleFollows'
    BY <1>0, <1>1, <1>2, <1>3, <1>5, <1>6, <1>7, <2>1 DEF PacerTypeOK, ScheduleFollows
  <2>4. EvenlyPaced'
    BY <1>0, <1>1, <1>3, <1>5, <1>6, <1>7, <2>1 DEF PacerTypeOK, ScheduleFollows, EvenlyPaced
  <2> QED BY <2>2, <2>3, <2>4 DEF PacerInv
<1>8. CASE count # 0
  <2>1. /\ count > 0 /\ count \in Nat /\ numbered + count > 1
        /\ schedule.after = left + RecordInterval
        /\ schedule.next = left + RecordInterval /\ schedule.last = arrived
        /\ spoken <= arrived + RecordInterval /\ spoken + Hold <= left + RecordInterval
    BY <1>1, <1>8 DEF PacerTypeOK, ScheduleFollows
  <2>2. Late <= Hold => arrival <= left + RecordInterval /\ arrival - arrived <= Quiet
    BY <1>0, <1>1, <1>2, <2>1 DEF PacerTypeOK, ScheduleFollows
  <2>3. Late <= Hold => s.next = left + RecordInterval /\ s.next # Unset
    BY <1>0, <1>1, <1>2, <2>1, <2>2 DEF Unset, PacerTypeOK
  <2> HIDE DEF s, at
  <2>4. PacerTypeOK'
    BY <1>0, <1>1, <1>2, <1>3, <1>5, <1>6 DEF PacerTypeOK
  <2>5. ScheduleFollows'
    BY <1>0, <1>1, <1>2, <1>3, <1>5, <1>6, <2>1 DEF PacerTypeOK, ScheduleFollows
  <2>6. gap' >= RecordInterval
    BY <1>0, <1>1, <1>5, <1>6, <2>1 DEF PacerTypeOK
  <2>7. ~behind' /\ Late <= Hold => gap' = RecordInterval
    <3> SUFFICES ASSUME ~behind', Late <= Hold PROVE gap' = RecordInterval
      OBVIOUS
    <3>1. stall = 0
      <4>1. ~(stall > 0)
        BY <1>5, Zenon
      <4> QED BY <1>0, <4>1
    <3>2. now \in Int /\ arrival \in Int /\ now <= left + RecordInterval
      BY <1>0, <1>1, <1>2, <1>3, <2>2, <3>1 DEF PacerTypeOK
    <3>3. at = left + RecordInterval
      BY <1>0, <1>1, <1>6, <2>1, <2>2, <2>3, <3>2 DEF PacerTypeOK
    <3> QED BY <1>0, <1>1, <1>5, <3>3 DEF PacerTypeOK
  <2> QED BY <2>4, <2>5, <2>6, <2>7 DEF PacerInv, EvenlyPaced
<1> QED BY <1>7, <1>8

LEMMA ResetPreserves ==
  ASSUME PacerInv, (\E pause \in 0..Hold : EndRecord(pause)) \/ (\E discarded \in 0..PerCall : WriteFails(discarded))
  PROVE  PacerInv'
<1>0. Hold \in Nat /\ PerCall \in Nat /\ RecordInterval \in Nat
  BY PacerAssumption
<1>1. /\ spoken' \in Nat
      /\ schedule' = Fresh(schedule.after) /\ count > 0
      /\ count' = 0 /\ behind' = FALSE /\ numbered' = numbered + 1
      /\ UNCHANGED <<arrived, left, gap>>
  <2>1. CASE \E pause \in 0..Hold : EndRecord(pause)
    BY <1>0, <2>1 DEF PacerInv, PacerTypeOK, EndRecord, Later
  <2>2. ASSUME NEW discarded \in 0..PerCall, WriteFails(discarded)
        PROVE  /\ spoken' \in Nat
               /\ schedule' = Fresh(schedule.after) /\ count > 0
               /\ count' = 0 /\ behind' = FALSE /\ numbered' = numbered + 1
               /\ UNCHANGED <<arrived, left, gap>>
    <3>1. discarded \in Nat /\ spoken \in Nat /\ spoken' = spoken + discarded * RecordInterval
      BY <1>0, <2>2 DEF PacerInv, PacerTypeOK, WriteFails
    <3>2. discarded * RecordInterval \in Nat
      BY <1>0, <3>1
    <3> QED BY <2>2, <3>1, <3>2 DEF WriteFails
  <2> QED BY <2>1, <2>2
<1>2. PacerTypeOK'
  <2>1. schedule.after \in Nat
    BY DEF PacerInv, PacerTypeOK
  <2>2. schedule' \in [next : Int, last : Int, after : Nat]
    BY <1>1, <2>1, FreshIs
  <2>5. behind' \in BOOLEAN
    BY <1>1, Zenon
  <2> QED BY <1>1, <2>2, <2>5 DEF PacerInv, PacerTypeOK
<1>3. ScheduleFollows'
  BY <1>0, <1>1, FreshIs DEF PacerInv, PacerTypeOK, ScheduleFollows
<1>4. EvenlyPaced'
  BY <1>0, <1>1 DEF PacerInv, PacerTypeOK, EvenlyPaced
<1> QED BY <1>2, <1>3, <1>4 DEF PacerInv

(* Whatever the hold, the lateness of the records and the stalls and       *)
(* failures of the writer, records that are held never leave closer        *)
(* together than they are spoken, also across two calls queued together;   *)
(* and without a stall records no later than Hold leave exactly as they    *)
(* were spoken (pacer.go, schedule.due).                                   *)
THEOREM PacingIsEven == PacerSpec => []EvenlyPaced
<1>1. PacerInv /\ [PacerNext]_pacerVars => PacerInv'
  <2> SUFFICES ASSUME PacerInv, [PacerNext]_pacerVars PROVE PacerInv'
    OBVIOUS
  <2>1. CASE PacerNext
    BY <2>1, VoiceRecordPreserves, ResetPreserves DEF PacerNext
  <2>2. CASE UNCHANGED pacerVars
    BY <2>2 DEF pacerVars, PacerInv, PacerTypeOK, ScheduleFollows, EvenlyPaced
  <2> QED BY <2>1, <2>2
<1>2. PacerInv => EvenlyPaced
  BY DEF PacerInv
<1> QED BY PacerInitInv, <1>1, <1>2, PTL DEF PacerSpec

-----------------------------------------------------------------------------
(* Reading what a repeater is sent.  Line reads a write with a recursive   *)
(* function; ReadsAs says that the function exists and where it ends, and  *)
(* is built up record by record.                                           *)

IsRun(f, w, recs) ==
  f = [n \in 0..Len(recs) |-> IF n = 0 THEN w ELSE Lines!Reads(f[n - 1], recs[n])]

ReadsAs(w, recs, v) ==
  /\ \E f : IsRun(f, w, recs)
  /\ \A f : IsRun(f, w, recs) => f[Len(recs)] = v

LEMMA ReadingIs ==
  ASSUME NEW w, NEW recs, NEW v, ReadsAs(w, recs, v)
  PROVE  Lines!Reading(w, recs) = v
<1> DEFINE at == CHOOSE f : IsRun(f, w, recs)
<1>1. IsRun(at, w, recs)
  BY DEF ReadsAs
<1>2. at[Len(recs)] = v
  BY <1>1 DEF ReadsAs
<1> QED BY <1>2 DEF Lines!Reading, IsRun

LEMMA ReadsNothing == ASSUME NEW w PROVE ReadsAs(w, <<>>, w)
<1>1. IsRun([n \in 0..0 |-> w], w, <<>>)
  BY DEF IsRun
<1>2. ASSUME NEW f, IsRun(f, w, <<>>) PROVE f[0] = w
  BY <1>2 DEF IsRun
<1> QED BY <1>1, <1>2 DEF ReadsAs

LEMMA ReadsOneMore ==
  ASSUME NEW w, NEW R, NEW recs \in Seq(R), NEW v, NEW r \in R, ReadsAs(w, recs, v)
  PROVE  ReadsAs(w, recs \o <<r>>, Lines!Reads(v, r))
<1> DEFINE n == Len(recs)
           more == recs \o <<r>>
<1>1. n \in Nat /\ more \in Seq(R) /\ Len(more) = n + 1 /\ more[n + 1] = r /\ \A k \in 1..n : more[k] = recs[k]
  OBVIOUS
<1>2. \E f : IsRun(f, w, more)
  <2>1. PICK f : IsRun(f, w, recs)
    BY DEF ReadsAs
  <2> DEFINE g == [k \in 0..(n + 1) |-> IF k <= n THEN f[k] ELSE Lines!Reads(f[n], r)]
  <2>2. \A k \in 0..n : f[k] = IF k = 0 THEN w ELSE Lines!Reads(f[k - 1], recs[k])
    BY <2>1 DEF IsRun
  <2>3. \A k \in 0..(n + 1) : g[k] = IF k = 0 THEN w ELSE Lines!Reads(g[k - 1], more[k])
    <3> SUFFICES ASSUME NEW k \in 0..(n + 1)
                 PROVE  g[k] = IF k = 0 THEN w ELSE Lines!Reads(g[k - 1], more[k])
      OBVIOUS
    <3> HIDE DEF more
    <3>1. CASE k <= n
      <4>1. k \in 0..n /\ g[k] = f[k] /\ (k # 0 => k - 1 \in 0..(n + 1) /\ g[k - 1] = f[k - 1] /\ more[k] = recs[k])
        BY <1>1, <3>1
      <4> QED BY <2>2, <4>1
    <3>2. CASE k = n + 1
      <4>1. k # 0 /\ k - 1 = n /\ n \in 0..(n + 1) /\ g[k] = Lines!Reads(f[n], r) /\ g[n] = f[n] /\ more[k] = r
        BY <1>1, <3>2
      <4> QED BY <4>1
    <3> QED BY <1>1, <3>1, <3>2
  <2>4. g = [k \in 0..(n + 1) |-> g[k]]
    OBVIOUS
  <2> HIDE DEF g, more
  <2>5. IsRun(g, w, more)
    BY <1>1, <2>3, <2>4 DEF IsRun
  <2> QED BY <2>5
<1>3. ASSUME NEW f, IsRun(f, w, more) PROVE f[n + 1] = Lines!Reads(v, r)
  <2> HIDE DEF more
  <2> DEFINE g == [k \in 0..n |-> f[k]]
  <2>1. \A k \in 0..(n + 1) : f[k] = IF k = 0 THEN w ELSE Lines!Reads(f[k - 1], more[k])
    BY <1>1, <1>3 DEF IsRun
  <2>2. \A k \in 0..n : g[k] = IF k = 0 THEN w ELSE Lines!Reads(g[k - 1], recs[k])
    <3> SUFFICES ASSUME NEW k \in 0..n
                 PROVE  g[k] = IF k = 0 THEN w ELSE Lines!Reads(g[k - 1], recs[k])
      OBVIOUS
    <3>1. k \in 0..(n + 1) /\ g[k] = f[k] /\ (k # 0 => k - 1 \in 0..n /\ g[k - 1] = f[k - 1] /\ more[k] = recs[k])
      BY <1>1
    <3> QED BY <2>1, <3>1
  <2>3. g = [k \in 0..n |-> g[k]] /\ g[n] = f[n]
    BY <1>1
  <2> HIDE DEF g
  <2>4. IsRun(g, w, recs)
    BY <2>2, <2>3 DEF IsRun
  <2>5. f[n] = v
    BY <2>3, <2>4 DEF ReadsAs
  <2>6. n + 1 \in 0..(n + 1) /\ n + 1 # 0 /\ (n + 1) - 1 = n
    BY <1>1
  <2> QED BY <1>1, <2>1, <2>5, <2>6
<1> QED BY <1>1, <1>2, <1>3 DEF ReadsAs

-----------------------------------------------------------------------------
(* The relaying. *)

V24Next == Talk \/ Opens \/ Drops \/ Registering \/ Housekeeping
V24Spec == FloorInit /\ P25Init /\ V24Init /\ [][V24Next]_v24Vars

Kinds == {"start", "header", "voice", "end"}
Records == [kind : Kinds, of : Talkers]
Links == [theirs : BOOLEAN, ours : BOOLEAN, heard : BOOLEAN, said : BOOLEAN, up : BOOLEAN]

V24TypeOK ==
  /\ tunnels \in Seq(Tunnels)
  /\ link \in [Tunnels -> Links]
  /\ call \in [Tunnels -> Nat \cup {None}]
  /\ relaying \subseteq Tunnels
  /\ receiving \in [Tunnels -> Talkers \cup {None}]
  /\ sent \in [Tunnels -> Seq(Records)]
  /\ again \in Tunnels \cup {None}

(* A link that is up belongs to an open tunnel: what is sent to Linked is  *)
(* sent to every repeater that is listening.                               *)
UpIsOpen == \A s \in Tunnels : link[s].up => s \in Open

(* A repeater is on another repeater's call only while that call is being  *)
(* carried, so whoever ends the call knows whom to tell.                   *)
OnACarriedCall == \A o \in Linked : receiving[o] \in Tunnels => receiving[o] \in relaying

(* A carried call is a call in progress, and one that is about to begin    *)
(* again is a call in progress that is not carried.                        *)
CarriedIsInProgress == \A s \in relaying : call[s] # None
AgainIsNotCarried == again # None => again \notin relaying /\ call[again] # None

(* What the refinement needs. *)
V24Inv == V24TypeOK /\ UpIsOpen /\ OnACarriedCall /\ CarriedIsInProgress /\ AgainIsNotCarried

LEMMA LinkedIs ==
  ASSUME V24Inv
  PROVE  Linked = {s \in Tunnels : link[s].up}
<1>1. Open \subseteq Tunnels
  BY DEF V24Inv, V24TypeOK, Open, Range
<1> QED BY <1>1 DEF V24Inv, UpIsOpen, Linked

LEMMA TalkersAre == /\ None \notin Talkers /\ "ending" \notin Talkers /\ None # "ending"
                    /\ Tunnels \subseteq Talkers /\ GatewayFloor \in Talkers /\ GatewayFloor \notin Tunnels
BY FloorAssumption, V24Assumption DEF Talkers

(* How a repeater reads the records of a call. *)
LEMMA ReadsRecord ==
  ASSUME NEW t \in Talkers
  PROVE  /\ Lines!Reads(None, Rec("start", t)) = t
         /\ \A k \in {"header", "voice"} : Lines!Reads(t, Rec(k, t)) = t
         /\ Lines!Reads(t, Rec("end", t)) = "ending"
         /\ Lines!Reads("ending", Rec("end", t)) = None
         /\ \A k \in Kinds : Rec(k, t) \in Records
BY TalkersAre DEF Lines!Reads, Rec, Kinds, Records

LEMMA EndsAre ==
  ASSUME NEW w \in Talkers \cup {None}
  PROVE  Ends(w) \in Seq(Records) /\ ReadsAs(w, Ends(w), None)
<1>1. CASE w = None
  BY <1>1, ReadsNothing DEF Ends
<1>2. CASE w # None
  <2> DEFINE e == Rec("end", w)
  <2>1. w \in Talkers /\ e \in Records /\ Lines!Reads(w, e) = "ending" /\ Lines!Reads("ending", e) = None
    BY <1>2, ReadsRecord DEF Kinds
  <2>2. Ends(w) = <<e, e>>
    BY <1>2 DEF Ends
  <2> HIDE DEF e
  <2>3. <<>> \in Seq(Records) /\ <<e>> \in Seq(Records) /\ <<>> \o <<e>> = <<e>> /\ <<e>> \o <<e>> = <<e, e>>
    <3>1. <<e>> \in Seq(Records) /\ <<e, e>> \in Seq(Records) /\ <<e>> \o <<e>> \in Seq(Records)
      BY <2>1
    <3>2. /\ Len(<<e>> \o <<e>>) = 2 /\ Len(<<e, e>>) = 2
          /\ \A i \in 1..2 : (<<e>> \o <<e>>)[i] = <<e, e>>[i]
      OBVIOUS
    <3>3. <<e>> \o <<e>> = <<e, e>>
      BY <3>1, <3>2, SeqEqual
    <3> QED BY <3>1, <3>3, ConcatEmptySeq
  <2>4. ReadsAs(w, <<e>>, "ending")
    BY <2>1, <2>3, ReadsNothing, ReadsOneMore
  <2>5. ReadsAs(w, <<e, e>>, None)
    BY <2>1, <2>3, <2>4, ReadsOneMore
  <2> QED BY <2>1, <2>2, <2>5
<1> QED BY <1>1, <1>2

(* What toRepeaters sends is read as the talker's call, from whatever call *)
(* the repeater was on, unless a start of the same call is repeated.       *)
LEMMA OpeningReads ==
  ASSUME NEW o \in Tunnels, NEW t \in Talkers, NEW kind \in {"start", "header", "voice"}, NEW header \in BOOLEAN,
         receiving[o] \in Talkers \cup {None}, kind = "start" => receiving[o] # t
  PROVE  /\ Opening(o, t, kind, header) \o <<Rec(kind, t)>> \in Seq(Records)
         /\ ReadsAs(receiving[o], Opening(o, t, kind, header) \o <<Rec(kind, t)>>, t)
<1> DEFINE w == receiving[o]
           k == Rec(kind, t)
           st == Rec("start", t)
           h == Rec("header", t)
<1>1. k \in Records /\ st \in Records /\ h \in Records
  BY ReadsRecord DEF Kinds
<1>2. Lines!Reads(None, st) = t /\ Lines!Reads(t, h) = t /\ (kind # "start" => Lines!Reads(t, k) = t)
  BY ReadsRecord
<1>3. Ends(w) \in Seq(Records) /\ ReadsAs(w, Ends(w), None)
  BY EndsAre
<1>4. CASE w = t
  <2>1. Opening(o, t, kind, header) = <<>>
    BY <1>4 DEF Opening
  <2> HIDE DEF w, k
  <2>2. <<>> \o <<k>> \in Seq(Records) /\ ReadsAs(w, <<>> \o <<k>>, t)
    <3>1. <<>> \in Seq(Records) /\ <<>> \o <<k>> \in Seq(Records)
      BY <1>1
    <3>2. kind # "start"
      BY <1>4 DEF w
    <3> QED BY <1>1, <1>2, <1>4, <3>1, <3>2, ReadsNothing, ReadsOneMore
  <2> QED BY <2>1, <2>2 DEF w, k
<1>5. CASE w # t /\ kind = "start"
  <2>1. Opening(o, t, kind, header) = Ends(w) \o <<>> /\ k = st
    BY <1>5 DEF Opening
  <2> HIDE DEF w, k, st
  <2>2. Ends(w) \o <<>> = Ends(w) /\ Ends(w) \o <<st>> \in Seq(Records) /\ ReadsAs(w, Ends(w) \o <<st>>, t)
    BY <1>1, <1>2, <1>3, ReadsOneMore
  <2> QED BY <2>1, <2>2 DEF w, k
<1>6. CASE w # t /\ kind # "start"
  <2> DEFINE a == Ends(w) \o <<st>>
             b == a \o <<h>>
             c == b \o <<h>>
  <2>1. Opening(o, t, kind, header) = Ends(w) \o (<<st>> \o (IF header THEN <<h, h>> ELSE <<>>))
    BY <1>6 DEF Opening
  <2> HIDE DEF w, k, st, h
  <2>2. a \in Seq(Records) /\ ReadsAs(w, a, t)
    BY <1>1, <1>2, <1>3, ReadsOneMore
  <2> HIDE DEF a
  <2>3. b \in Seq(Records) /\ ReadsAs(w, b, t)
    BY <1>1, <1>2, <2>2, ReadsOneMore
  <2> HIDE DEF b
  <2>4. c \in Seq(Records) /\ ReadsAs(w, c, t)
    BY <1>1, <1>2, <2>3, ReadsOneMore
  <2> HIDE DEF c
  <2>5. Opening(o, t, kind, header) = IF header THEN c ELSE a
    BY <1>1, <1>3, <2>1 DEF a, b, c
  <2>6. /\ a \o <<k>> \in Seq(Records) /\ ReadsAs(w, a \o <<k>>, t)
        /\ c \o <<k>> \in Seq(Records) /\ ReadsAs(w, c \o <<k>>, t)
    BY <1>1, <1>2, <1>6, <2>2, <2>4, ReadsOneMore
  <2> QED BY <2>5, <2>6 DEF w, k
<1> QED BY <1>4, <1>5, <1>6

(* A write that is read as the call the repeater is on afterwards is a     *)
(* step of its line, and so is none.                                       *)
LEMMA HearsIs ==
  ASSUME NEW s \in Tunnels, link' = link, receiving'[s] \in Talkers \cup {None},
         ReadsAs(receiving[s], sent'[s], receiving'[s])
  PROVE  Lines!Hears(s)
BY ReadingIs DEF Lines!Hears

LEMMA QuietIs ==
  ASSUME NEW s \in Tunnels, link' = link, receiving'[s] = receiving[s], sent'[s] = sent[s]
  PROVE  Lines!Idle(s)
BY DEF Lines!Idle

LEMMA DownIs ==
  ASSUME NEW s \in Tunnels, link' = link, ~link[s].up
  PROVE  Lines!WhileDown(s)
BY DEF Lines!WhileDown

(* toRepeaters and endAtRepeaters, as steps of the lines. *)
LEMMA ToRepeatersIsHeard ==
  ASSUME V24Inv, link' = link,
         NEW t \in Talkers, NEW except, NEW kind \in {"start", "header", "voice"}, NEW header \in BOOLEAN,
         NEW moved, ToRepeaters(t, except, kind, header, moved),
         kind = "start" => \A o \in Linked : receiving[o] # t
  PROVE  /\ Lines!LineNext
         /\ receiving' \in [Tunnels -> Talkers \cup {None}]
         /\ sent' \in [Tunnels -> Seq(Records)]
         /\ \A o \in Linked : receiving'[o] \in {receiving[o], None, t}
<1>1. /\ \A o \in Tunnels : receiving[o] \in Talkers \cup {None} /\ sent[o] \in Seq(Records)
      /\ Linked = {s \in Tunnels : link[s].up}
  BY LinkedIs DEF V24Inv, V24TypeOK
<1>2. ASSUME NEW o \in Tunnels
      PROVE  /\ Lines!Idle(o) \/ Lines!Hears(o) \/ Lines!Relinks(o) \/ Lines!WhileDown(o)
             /\ receiving'[o] \in Talkers \cup {None} /\ sent'[o] \in Seq(Records)
             /\ receiving'[o] \in {receiving[o], None, t}
  <2>1. CASE o \in Linked \ except
    <3>1. receiving'[o] = t /\ sent'[o] = Opening(o, t, kind, header) \o <<Rec(kind, t)>>
      BY <2>1 DEF ToRepeaters
    <3>2. sent'[o] \in Seq(Records) /\ ReadsAs(receiving[o], sent'[o], t)
      BY <1>1, <2>1, <3>1, OpeningReads
    <3> QED BY <3>1, <3>2, HearsIs
  <2>2. CASE o \notin Linked \ except /\ o \in moved
    <3>1. receiving'[o] = None
      BY <2>2 DEF ToRepeaters
    <3>2. CASE receiving[o] = None
      <4>1. sent'[o] = sent[o]
        BY <2>2, <3>2 DEF ToRepeaters
      <4> QED BY <1>1, <3>1, <3>2, <4>1, QuietIs
    <3>3. CASE receiving[o] # None /\ o \in Linked
      <4>1. sent'[o] = Ends(receiving[o])
        BY <2>2, <3>3 DEF ToRepeaters
      <4>2. sent'[o] \in Seq(Records) /\ ReadsAs(receiving[o], sent'[o], None)
        BY <1>1, <4>1, EndsAre
      <4> QED BY <3>1, <4>2, HearsIs
    <3>4. CASE receiving[o] # None /\ o \notin Linked
      <4>1. sent'[o] = <<>>
        BY <2>2, <3>4 DEF ToRepeaters
      <4> QED BY <1>1, <3>1, <3>4, <4>1, DownIs
    <3> QED BY <3>2, <3>3, <3>4
  <2>3. CASE o \notin Linked \ except /\ o \notin moved
    <3>1. receiving'[o] = receiving[o] /\ sent'[o] = sent[o]
      BY <2>3 DEF ToRepeaters
    <3> QED BY <1>1, <3>1, QuietIs
  <2> QED BY <2>1, <2>2, <2>3
<1>3. receiving' = [o \in Tunnels |-> receiving'[o]] /\ sent' = [o \in Tunnels |-> sent'[o]]
  BY DEF ToRepeaters
<1>4. receiving' \in [Tunnels -> Talkers \cup {None}] /\ sent' \in [Tunnels -> Seq(Records)]
  BY <1>2, <1>3
<1>5. Lines!LineNext
  BY <1>2 DEF Lines!LineNext
<1> QED BY <1>1, <1>2, <1>4, <1>5

LEMMA EndAtRepeatersIsHeard ==
  ASSUME V24Inv, link' = link, NEW t \in Talkers, EndAtRepeaters(t)
  PROVE  /\ Lines!LineNext
         /\ receiving' \in [Tunnels -> Talkers \cup {None}]
         /\ sent' \in [Tunnels -> Seq(Records)]
         /\ \A o \in Linked : receiving'[o] # t /\ receiving'[o] \in {receiving[o], None}
<1>1. /\ \A o \in Tunnels : receiving[o] \in Talkers \cup {None} /\ sent[o] \in Seq(Records)
      /\ Linked = {s \in Tunnels : link[s].up}
  BY LinkedIs DEF V24Inv, V24TypeOK
<1>2. ASSUME NEW o \in Tunnels
      PROVE  /\ Lines!Idle(o) \/ Lines!Hears(o) \/ Lines!Relinks(o) \/ Lines!WhileDown(o)
             /\ receiving'[o] \in Talkers \cup {None} /\ sent'[o] \in Seq(Records)
             /\ o \in Linked => receiving'[o] # t
             /\ receiving'[o] \in {receiving[o], None}
  <2>1. CASE o \in Linked /\ receiving[o] = t
    <3>1. receiving'[o] = None /\ sent'[o] = Ends(t)
      BY <2>1 DEF EndAtRepeaters
    <3>2. sent'[o] \in Seq(Records) /\ ReadsAs(receiving[o], sent'[o], None)
      BY <1>1, <2>1, <3>1, EndsAre
    <3> QED BY <3>1, <3>2, HearsIs, TalkersAre
  <2>2. CASE ~(o \in Linked /\ receiving[o] = t)
    <3>1. receiving'[o] = receiving[o] /\ sent'[o] = sent[o]
      BY <2>2 DEF EndAtRepeaters
    <3> QED BY <1>1, <2>2, <3>1, QuietIs
  <2> QED BY <2>1, <2>2
<1>3. receiving' = [o \in Tunnels |-> receiving'[o]] /\ sent' = [o \in Tunnels |-> sent'[o]]
  BY DEF EndAtRepeaters
<1>4. receiving' \in [Tunnels -> Talkers \cup {None}] /\ sent' \in [Tunnels -> Seq(Records)]
  BY <1>2, <1>3
<1>5. Lines!LineNext
  BY <1>2 DEF Lines!LineNext
<1> QED BY <1>1, <1>2, <1>4, <1>5

LEMMA UnheardIs ==
  ASSUME UNCHANGED <<link, receiving, sent>>
  PROVE  Lines!LineNext
BY QuietIs DEF Lines!LineNext

-----------------------------------------------------------------------------
(* Steps that leave the tunnels and their links alone. *)
LEMMA CallStep ==
  ASSUME V24Inv, UNCHANGED <<tunnels, link>>,
         call' \in [Tunnels -> Nat \cup {None}], relaying' \subseteq Tunnels,
         receiving' \in [Tunnels -> Talkers \cup {None}], sent' \in [Tunnels -> Seq(Records)],
         again' \in Tunnels \cup {None},
         \A o \in Linked : receiving'[o] \in Tunnels => receiving'[o] \in relaying',
         \A s \in relaying' : call'[s] # None,
         again' # None => again' \notin relaying' /\ call'[again'] # None
  PROVE  V24Inv'
BY DEF V24Inv, V24TypeOK, UpIsOpen, OnACarriedCall, CarriedIsInProgress, AgainIsNotCarried, Linked, Open

(* endRelay leaves nobody on the call it ends. *)
LEMMA EndRelayIs ==
  ASSUME V24Inv, link' = link, NEW s \in Tunnels, EndRelay(s)
  PROVE  /\ Lines!LineNext
         /\ receiving' \in [Tunnels -> Talkers \cup {None}] /\ sent' \in [Tunnels -> Seq(Records)]
         /\ relaying' = relaying \ {s}
         /\ \A o \in Linked : receiving'[o] \in Tunnels => receiving'[o] \in relaying'
<1>0. /\ receiving \in [Tunnels -> Talkers \cup {None}] /\ sent \in [Tunnels -> Seq(Records)]
      /\ \A o \in Linked : receiving[o] \in Tunnels => receiving[o] \in relaying
  BY DEF V24Inv, V24TypeOK, OnACarriedCall
<1>1. CASE s \notin relaying
  <2>1. UNCHANGED <<relaying, receiving, sent>>
    BY <1>1 DEF EndRelay
  <2> QED BY <1>0, <1>1, <2>1, UnheardIs
<1>2. CASE s \in relaying
  <2>1. relaying' = relaying \ {s} /\ EndAtRepeaters(s) /\ s \in Talkers
    BY <1>2, TalkersAre DEF EndRelay
  <2>2. /\ Lines!LineNext
        /\ receiving' \in [Tunnels -> Talkers \cup {None}] /\ sent' \in [Tunnels -> Seq(Records)]
        /\ \A o \in Linked : receiving'[o] # s /\ receiving'[o] \in {receiving[o], None}
    BY <2>1, EndAtRepeatersIsHeard
  <2>3. None \notin Tunnels
    BY V24Assumption
  <2> QED BY <1>0, <2>1, <2>2, <2>3
<1> QED BY <1>1, <1>2

(* A call begins: nobody is on a call of the same talker yet, so the start *)
(* is the first thing of it that anyone is sent.                           *)
LEMMA BeginIs ==
  ASSUME V24Inv, link' = link, NEW s \in Tunnels, s \notin relaying, NEW kind \in {"start", "header", "voice"},
         Begin(s, kind)
  PROVE  /\ Lines!LineNext
         /\ receiving' \in [Tunnels -> Talkers \cup {None}] /\ sent' \in [Tunnels -> Seq(Records)]
         /\ relaying' \subseteq relaying \cup {s}
         /\ \A o \in Linked : receiving'[o] \in Tunnels => receiving'[o] \in relaying'
<1>0. /\ receiving \in [Tunnels -> Talkers \cup {None}] /\ sent \in [Tunnels -> Seq(Records)]
      /\ \A o \in Linked : receiving[o] \in Tunnels => receiving[o] \in relaying
  BY DEF V24Inv, V24TypeOK, OnACarriedCall
<1>1. CASE relaying' = relaying \cup {s} /\ ToRepeaters(s, {s}, kind, FALSE, {s})
  <2>1. \A o \in Linked : receiving[o] # s
    BY <1>0
  <2>2. /\ Lines!LineNext
        /\ receiving' \in [Tunnels -> Talkers \cup {None}] /\ sent' \in [Tunnels -> Seq(Records)]
        /\ \A o \in Linked : receiving'[o] \in {receiving[o], None, s}
    BY <1>1, <2>1, ToRepeatersIsHeard, TalkersAre
  <2> QED BY <1>0, <1>1, <2>2, V24Assumption
<1>2. CASE relaying' = relaying \ {s} /\ UNCHANGED <<receiving, sent>>
  BY <1>0, <1>2, UnheardIs
<1> QED BY <1>1, <1>2 DEF Begin

LEMMA ContinueIs ==
  ASSUME V24Inv, link' = link, NEW s \in Tunnels, NEW kind \in {"header", "voice"}, Continue(s, kind)
  PROVE  /\ Lines!LineNext
         /\ receiving' \in [Tunnels -> Talkers \cup {None}] /\ sent' \in [Tunnels -> Seq(Records)]
         /\ relaying' \subseteq relaying
         /\ \A o \in Linked : receiving'[o] \in Tunnels => receiving'[o] \in relaying'
<1>0. /\ receiving \in [Tunnels -> Talkers \cup {None}] /\ sent \in [Tunnels -> Seq(Records)]
      /\ \A o \in Linked : receiving[o] \in Tunnels => receiving[o] \in relaying
  BY DEF V24Inv, V24TypeOK, OnACarriedCall
<1>1. CASE UNCHANGED <<relaying, receiving, sent>>
  BY <1>0, <1>1, UnheardIs
<1>2. CASE s \in relaying /\ UNCHANGED relaying /\ ToRepeaters(s, {s}, kind, FALSE, {})
  <2>1. /\ Lines!LineNext
        /\ receiving' \in [Tunnels -> Talkers \cup {None}] /\ sent' \in [Tunnels -> Seq(Records)]
        /\ \A o \in Linked : receiving'[o] \in {receiving[o], None, s}
    <3>1. s \in Talkers /\ kind \in {"start", "header", "voice"} /\ kind # "start" /\ FALSE \in BOOLEAN
      BY TalkersAre
    <3> QED BY <1>2, <3>1, ToRepeatersIsHeard
  <2> QED BY <1>0, <1>2, <2>1, V24Assumption
<1>3. CASE EndRelay(s)
  BY <1>3, EndRelayIs
<1> QED BY <1>1, <1>2, <1>3 DEF Continue

LEMMA RecordHeardIs ==
  ASSUME V24Inv, NEW s \in Tunnels, NEW kind \in Kinds, RecordHeard(s, kind)
  PROVE  V24Inv' /\ Lines!LineNext
<1>0. /\ UNCHANGED <<tunnels, link>> /\ again = None
      /\ call' = [call EXCEPT ![s] = IF kind = "end" THEN None ELSE 0]
      /\ again' = IF kind = "start" /\ call[s] # None THEN s ELSE None
      /\ call \in [Tunnels -> Nat \cup {None}] /\ relaying \subseteq Tunnels /\ None # 0
      /\ \A o \in relaying : call[o] # None
  BY FloorAssumption DEF RecordHeard, lineState, callFree, V24Inv, V24TypeOK, CarriedIsInProgress
<1>1. /\ call' \in [Tunnels -> Nat \cup {None}] /\ again' \in Tunnels \cup {None}
      /\ \A o \in Tunnels \ {s} : call'[o] = call[o]
      /\ kind = "end" => call'[s] = None
      /\ kind # "end" => call'[s] # None
  BY <1>0
<1>2. CASE EndRelay(s) /\ kind \in {"end", "start"}
  <2>1. /\ Lines!LineNext
        /\ receiving' \in [Tunnels -> Talkers \cup {None}] /\ sent' \in [Tunnels -> Seq(Records)]
        /\ relaying' = relaying \ {s}
        /\ \A o \in Linked : receiving'[o] \in Tunnels => receiving'[o] \in relaying'
    BY <1>0, <1>2, EndRelayIs
  <2>2. again' # None => again' = s /\ kind = "start"
    BY <1>0
  <2> QED BY <1>0, <1>1, <2>1, <2>2, CallStep
<1>3. CASE kind \in {"start", "header", "voice"} /\ call[s] = None /\ Begin(s, kind)
  <2>1. s \notin relaying /\ again' = None
    BY <1>0, <1>3
  <2>2. /\ Lines!LineNext
        /\ receiving' \in [Tunnels -> Talkers \cup {None}] /\ sent' \in [Tunnels -> Seq(Records)]
        /\ relaying' \subseteq relaying \cup {s}
        /\ \A o \in Linked : receiving'[o] \in Tunnels => receiving'[o] \in relaying'
    BY <1>0, <1>3, <2>1, BeginIs
  <2>3. \A o \in relaying' : call'[o] # None
    BY <1>0, <1>1, <1>3, <2>2
  <2> QED BY <1>0, <1>1, <2>1, <2>2, <2>3, CallStep
<1>4. CASE kind \in {"header", "voice"} /\ Continue(s, kind)
  <2>1. /\ Lines!LineNext
        /\ receiving' \in [Tunnels -> Talkers \cup {None}] /\ sent' \in [Tunnels -> Seq(Records)]
        /\ relaying' \subseteq relaying
        /\ \A o \in Linked : receiving'[o] \in Tunnels => receiving'[o] \in relaying'
    BY <1>0, <1>4, ContinueIs
  <2>2. again' = None /\ \A o \in relaying' : call'[o] # None
    BY <1>0, <1>1, <1>4, <2>1
  <2> QED BY <1>0, <1>1, <2>1, <2>2, CallStep
<1>5. \/ EndRelay(s) /\ kind \in {"end", "start"}
      \/ kind \in {"start", "header", "voice"} /\ call[s] = None /\ Begin(s, kind)
      \/ kind \in {"header", "voice"} /\ Continue(s, kind)
  BY DEF RecordHeard, Kinds
<1> QED BY <1>2, <1>3, <1>4, <1>5

LEMMA BeginAgainIs == V24Inv /\ BeginAgain => V24Inv' /\ Lines!LineNext
<1> SUFFICES ASSUME V24Inv, BeginAgain PROVE V24Inv' /\ Lines!LineNext
  OBVIOUS
<1>1. /\ UNCHANGED <<tunnels, link, call>> /\ again # None /\ again' = None /\ Begin(again, "start")
      /\ call \in [Tunnels -> Nat \cup {None}] /\ relaying \subseteq Tunnels
      /\ again \in Tunnels /\ again \notin relaying /\ call[again] # None
      /\ \A o \in relaying : call[o] # None
  BY DEF BeginAgain, lineState, V24Inv, V24TypeOK, CarriedIsInProgress, AgainIsNotCarried
<1>2. /\ Lines!LineNext
      /\ receiving' \in [Tunnels -> Talkers \cup {None}] /\ sent' \in [Tunnels -> Seq(Records)]
      /\ relaying' \subseteq relaying \cup {again}
      /\ \A o \in Linked : receiving'[o] \in Tunnels => receiving'[o] \in relaying'
  BY <1>1, BeginIs
<1> QED BY <1>1, <1>2, CallStep

LEMMA ExpireIs == ASSUME V24Inv, NEW s \in Tunnels, Expire(s) PROVE V24Inv' /\ Lines!LineNext
<1>1. /\ UNCHANGED <<tunnels, link, again>> /\ again = None /\ EndRelay(s)
      /\ call' = [call EXCEPT ![s] = None]
      /\ call \in [Tunnels -> Nat \cup {None}] /\ relaying \subseteq Tunnels
      /\ \A o \in relaying : call[o] # None
  BY DEF Expire, lineState, callFree, V24Inv, V24TypeOK, CarriedIsInProgress
<1>2. /\ Lines!LineNext
      /\ receiving' \in [Tunnels -> Talkers \cup {None}] /\ sent' \in [Tunnels -> Seq(Records)]
      /\ relaying' = relaying \ {s}
      /\ \A o \in Linked : receiving'[o] \in Tunnels => receiving'[o] \in relaying'
  BY <1>1, EndRelayIs
<1> QED BY <1>1, <1>2, CallStep

(* A gateway's frame, or its call's end, on its way to the repeaters. *)
LEMMA FromGatewayIs ==
  ASSUME V24Inv, UNCHANGED <<tunnels, link, call, relaying, again>>,
         \/ ToRepeaters(GatewayFloor, {}, "voice", SendHeader, {})
         \/ EndAtRepeaters(GatewayFloor)
         \/ UNCHANGED <<receiving, sent>>
  PROVE  V24Inv' /\ Lines!LineNext
<1>0. /\ receiving \in [Tunnels -> Talkers \cup {None}] /\ sent \in [Tunnels -> Seq(Records)]
      /\ \A o \in Linked : receiving[o] \in Tunnels => receiving[o] \in relaying
  BY DEF V24Inv, V24TypeOK, OnACarriedCall
<1>1. /\ Lines!LineNext
      /\ receiving' \in [Tunnels -> Talkers \cup {None}] /\ sent' \in [Tunnels -> Seq(Records)]
      /\ \A o \in Linked : receiving'[o] \in {receiving[o], None, GatewayFloor}
  <2>1. GatewayFloor \in Talkers /\ "voice" \in {"start", "header", "voice"} /\ "voice" # "start" /\ SendHeader \in BOOLEAN
    BY TalkersAre, V24Assumption
  <2>2. CASE ToRepeaters(GatewayFloor, {}, "voice", SendHeader, {})
    BY <2>1, <2>2, ToRepeatersIsHeard
  <2>3. CASE EndAtRepeaters(GatewayFloor)
    BY <2>1, <2>3, EndAtRepeatersIsHeard
  <2>4. CASE UNCHANGED <<receiving, sent>>
    BY <1>0, <2>4, UnheardIs
  <2> QED BY <2>2, <2>3, <2>4
<1>2. \A o \in Linked : receiving'[o] \in Tunnels => receiving'[o] \in relaying
  BY <1>0, <1>1, TalkersAre
<1> QED BY <1>1, <1>2, CallStep DEF V24Inv, V24TypeOK, CarriedIsInProgress, AgainIsNotCarried

LEMMA TimePassesIs == V24Inv /\ TimePasses => V24Inv' /\ Lines!LineNext
<1> SUFFICES ASSUME V24Inv, TimePasses PROVE V24Inv' /\ Lines!LineNext
  OBVIOUS
<1>1. /\ UNCHANGED <<tunnels, link, relaying, receiving, sent, again>>
      /\ call' = [s \in Tunnels |-> Older(call[s], CallTimeout)]
      /\ call \in [Tunnels -> Nat \cup {None}]
  BY DEF TimePasses, lineState, V24Inv, V24TypeOK
<1>2. \A s \in Tunnels : call'[s] \in Nat \cup {None} /\ (call[s] # None => call'[s] # None)
  BY <1>1, FloorAssumption, V24Assumption DEF Older
<1>3. call' \in [Tunnels -> Nat \cup {None}]
  BY <1>1, <1>2
<1> QED BY <1>1, <1>2, <1>3, CallStep, UnheardIs
        DEF V24Inv, V24TypeOK, OnACarriedCall, CarriedIsInProgress, AgainIsNotCarried

-----------------------------------------------------------------------------
(* Steps of the tunnels and their links. *)
LEMMA AcceptIs == ASSUME V24Inv, NEW s \in Tunnels, Accept(s) PROVE V24Inv' /\ Lines!LineNext
<1>1. /\ UNCHANGED <<link, call, relaying, receiving, sent, again>> /\ tunnels' = Append(tunnels, s)
      /\ tunnels \in Seq(Tunnels)
  BY DEF Accept, callState, V24Inv, V24TypeOK
<1>2. tunnels' \in Seq(Tunnels) /\ Open \subseteq Open'
  BY <1>1 DEF Open, Range
<1>3. Linked' = Linked
  <2>1. Linked = {o \in Tunnels : link[o].up}
    BY LinkedIs
  <2>2. Open' \subseteq Tunnels
    BY <1>2 DEF Open, Range
  <2> QED BY <1>1, <1>2, <2>1, <2>2 DEF Linked
<1> QED BY <1>1, <1>2, <1>3, UnheardIs
        DEF V24Inv, V24TypeOK, UpIsOpen, OnACarriedCall, CarriedIsInProgress, AgainIsNotCarried

LEMMA AfterIs ==
  ASSUME NEW l \in Links, NEW kind \in {"request", "acceptance", "introduction", "ready"}
  PROVE  After(l, kind) \in Links /\ NotLinked \in Links
<1>1. NotLinked \in Links
  BY DEF NotLinked, Links
<1>2. CASE kind = "request"
  BY <1>1, <1>2 DEF After, NotLinked, Links
<1>3. CASE kind = "acceptance"
  BY <1>1, <1>3 DEF After, Links
<1>4. CASE kind = "introduction"
  BY <1>1, <1>4 DEF After, Links
<1>5. CASE kind = "ready"
  BY <1>1, <1>5 DEF After, Links
<1> QED BY <1>2, <1>3, <1>4, <1>5

LEMMA LinkFrameIs ==
  ASSUME V24Inv, NEW s \in Tunnels, NEW kind \in {"request", "acceptance", "introduction", "ready"},
         NEW late \in BOOLEAN, LinkFrame(s, kind, late)
  PROVE  V24Inv' /\ Lines!LineNext
<1> DEFINE next == After(link[s], kind)
<1>1. /\ UNCHANGED <<tunnels, call, relaying, again>> /\ link' = [link EXCEPT ![s] = next]
      /\ link \in [Tunnels -> Links] /\ s \in Open
      /\ receiving \in [Tunnels -> Talkers \cup {None}] /\ sent \in [Tunnels -> Seq(Records)]
      /\ late => link[s].up
  BY DEF LinkFrame, V24Inv, V24TypeOK
<1>2. link' \in [Tunnels -> Links] /\ \A o \in Tunnels \ {s} : link'[o] = link[o]
  BY <1>1, AfterIs
<1>3. link'[s] = next
  BY <1>1
<1>4. CASE next.up # link[s].up /\ receiving' = [receiving EXCEPT ![s] = IF late THEN @ ELSE None]
           /\ sent' = [sent EXCEPT ![s] = <<>>]
  <2>1. /\ receiving' \in [Tunnels -> Talkers \cup {None}] /\ sent' \in [Tunnels -> Seq(Records)]
        /\ \A o \in Tunnels \ {s} : receiving'[o] = receiving[o] /\ sent'[o] = sent[o]
        /\ sent'[s] = <<>> /\ (~late => receiving'[s] = None)
    BY <1>1, <1>4
  <2>2. link'[s].up # link[s].up /\ (link'[s].up => ~late)
    <3>1. link'[s] \in Links /\ link[s] \in Links
      BY <1>1, <1>2
    <3>2. link'[s].up \in BOOLEAN /\ link[s].up \in BOOLEAN
      BY <3>1 DEF Links
    <3> QED BY <1>1, <1>3, <1>4, <3>2
  <2>3. Lines!LineNext
    <3>1. Lines!Relinks(s)
      BY <2>1, <2>2 DEF Lines!Relinks
    <3>2. ASSUME NEW o \in Tunnels \ {s} PROVE Lines!Idle(o)
      BY <1>2, <2>1 DEF Lines!Idle
    <3> QED BY <3>1, <3>2 DEF Lines!LineNext
  <2>4. UpIsOpen'
    BY <1>1, <1>2 DEF V24Inv, UpIsOpen, Open
  <2>5. OnACarriedCall'
    <3> SUFFICES ASSUME NEW o \in Linked', receiving'[o] \in Tunnels PROVE receiving'[o] \in relaying'
      BY DEF OnACarriedCall
    <3>1. o \in Open /\ o \in Tunnels /\ link'[o].up
      BY <1>1 DEF Linked, Open, Range, V24Inv, V24TypeOK
    <3>2. o # s
      BY <2>1, <2>2, <3>1, V24Assumption
    <3> QED BY <1>1, <1>2, <2>1, <3>1, <3>2 DEF V24Inv, OnACarriedCall, Linked
  <2> QED BY <1>1, <1>2, <2>1, <2>3, <2>4, <2>5
          DEF V24Inv, V24TypeOK, CarriedIsInProgress, AgainIsNotCarried
<1>5. CASE next.up = link[s].up /\ UNCHANGED <<receiving, sent>>
  <2>1. \A o \in Tunnels : link'[o].up = link[o].up
    BY <1>2, <1>3, <1>5
  <2>2. Lines!LineNext
    BY <1>5, <2>1 DEF Lines!LineNext, Lines!Idle
  <2>3. Open' = Open /\ Open \subseteq Tunnels
    BY <1>1 DEF Open, Range, V24Inv, V24TypeOK
  <2>4. Linked' = Linked
    BY <2>1, <2>3 DEF Linked
  <2> QED BY <1>1, <1>2, <1>5, <2>1, <2>2, <2>3, <2>4
          DEF V24Inv, V24TypeOK, UpIsOpen, OnACarriedCall, CarriedIsInProgress, AgainIsNotCarried
<1> QED BY <1>4, <1>5 DEF LinkFrame

(* A sequence without one of its elements. *)
LEMMA RemoveAtIs ==
  ASSUME NEW R, NEW seq \in Seq(R), NEW i \in 1..Len(seq)
  PROVE  RemoveAt(seq, i) \in Seq(R) /\ Range(seq) \ {seq[i]} \subseteq Range(RemoveAt(seq, i))
<1> DEFINE a == SubSeq(seq, 1, i - 1)
           b == SubSeq(seq, i + 1, Len(seq))
           n == Len(seq)
<1>1. n \in Nat /\ i \in Nat /\ 1 <= i /\ i <= n
  OBVIOUS
<1>2. a \in Seq(R) /\ Len(a) = i - 1 /\ \A k \in 1..(i - 1) : a[k] = seq[k]
  BY <1>1
<1>3. b \in Seq(R) /\ Len(b) = n - i /\ \A k \in 1..(n - i) : b[k] = seq[i + k]
  BY <1>1
<1> HIDE DEF a, b
<1> DEFINE c == a \o b
<1>4. c \in Seq(R) /\ DOMAIN c = 1..(n - 1)
  <2>1. c \in Seq(R) /\ Len(c) = Len(a) + Len(b)
    BY <1>2, <1>3, ConcatProperties
  <2>2. Len(c) = n - 1
    BY <1>1, <1>2, <1>3, <2>1
  <2> QED BY <2>1, <2>2
<1>5. ASSUME NEW k \in 1..(i - 1) PROVE c[k] = seq[k]
  BY <1>1, <1>2, <1>3
<1>6. ASSUME NEW k \in i..(n - 1) PROVE c[k] = seq[k + 1]
  <2>1. k - (i - 1) \in 1..(n - i) /\ k \in 1..(Len(a) + Len(b)) /\ k > Len(a) /\ i + (k - (i - 1)) = k + 1
    BY <1>1, <1>2, <1>3
  <2>2. c[k] = b[k - (i - 1)]
    BY <1>1, <1>2, <1>3, <2>1
  <2> QED BY <1>3, <2>1, <2>2
<1> HIDE DEF c
<1>7. ASSUME NEW x \in Range(seq) \ {seq[i]} PROVE x \in Range(c)
  <2>1. PICK k \in 1..n : x = seq[k] /\ k # i
    BY DEF Range
  <2>2. CASE k < i
    <3>1. k \in 1..(i - 1) /\ k \in DOMAIN c
      BY <1>1, <1>4, <2>1, <2>2
    <3> QED BY <1>5, <2>1, <3>1 DEF Range
  <2>3. CASE k > i
    <3>1. k - 1 \in i..(n - 1) /\ k - 1 \in DOMAIN c /\ (k - 1) + 1 = k
      BY <1>1, <1>4, <2>1, <2>3
    <3>2. c[k - 1] = x
      BY <1>6, <2>1, <3>1
    <3> QED BY <3>1, <3>2 DEF Range
  <2> QED BY <1>1, <2>1, <2>2, <2>3
<1> QED BY <1>4, <1>7 DEF RemoveAt, a, b, c

LEMMA TunnelClosesIs == ASSUME V24Inv, NEW s \in Tunnels, TunnelCloses(s) PROVE V24Inv' /\ Lines!LineNext
<1>1. /\ again' = again /\ again = None /\ s \in Open
      /\ link' = [link EXCEPT ![s] = NotLinked] /\ call' = [call EXCEPT ![s] = None]
      /\ tunnels' = RemoveAt(tunnels, CHOOSE i \in DOMAIN tunnels : tunnels[i] = s)
  BY DEF TunnelCloses, callFree
<1>2. /\ tunnels \in Seq(Tunnels) /\ link \in [Tunnels -> Links]
      /\ call \in [Tunnels -> Nat \cup {None}] /\ relaying \subseteq Tunnels
      /\ receiving \in [Tunnels -> Talkers \cup {None}] /\ sent \in [Tunnels -> Seq(Records)]
      /\ \A o \in Linked : receiving[o] \in Tunnels => receiving[o] \in relaying
      /\ \A o \in relaying : call[o] # None
  BY DEF V24Inv, V24TypeOK, OnACarriedCall, CarriedIsInProgress
<1>3. tunnels' \in Seq(Tunnels) /\ Open \ {s} \subseteq Open' /\ Open' \subseteq Tunnels
  <2> DEFINE i == CHOOSE k \in DOMAIN tunnels : tunnels[k] = s
  <2>1. \E k \in DOMAIN tunnels : tunnels[k] = s
    BY <1>1 DEF Open, Range
  <2>2. i \in DOMAIN tunnels /\ tunnels[i] = s
    BY <2>1
  <2>3. i \in 1..Len(tunnels)
    BY <1>2, <2>2
  <2>4. tunnels' = RemoveAt(tunnels, i)
    BY <1>1
  <2> HIDE DEF i
  <2>5. tunnels' \in Seq(Tunnels) /\ Open \ {s} \subseteq Open'
    BY <1>2, <2>2, <2>3, <2>4, RemoveAtIs DEF Open
  <2> QED BY <2>5 DEF Open, Range
<1>4. /\ link' \in [Tunnels -> Links] /\ ~link'[s].up /\ \A o \in Tunnels \ {s} : link'[o] = link[o]
      /\ call' \in [Tunnels -> Nat \cup {None}] /\ \A o \in Tunnels \ {s} : call'[o] = call[o]
  <2>1. NotLinked \in Links /\ ~NotLinked.up
    BY DEF NotLinked, Links
  <2> QED BY <1>1, <1>2, <2>1
<1>5. Linked = {o \in Tunnels : link[o].up}
  BY LinkedIs
<1>6. UpIsOpen'
  BY <1>3, <1>4 DEF V24Inv, UpIsOpen
<1>7. /\ relaying' = relaying \ {s} /\ receiving'[s] = None /\ sent'[s] = <<>>
      /\ receiving' \in [Tunnels -> Talkers \cup {None}] /\ sent' \in [Tunnels -> Seq(Records)]
      /\ \A o \in Tunnels \ {s} :
           \/ receiving'[o] = receiving[o] /\ sent'[o] = sent[o] /\ (o \in Linked => receiving[o] # s)
           \/ s \in relaying /\ o \in Linked /\ receiving[o] = s /\ receiving'[o] = None /\ sent'[o] = Ends(s)
  <2>1. CASE s \notin relaying
    <3>1. /\ UNCHANGED relaying /\ receiving' = [receiving EXCEPT ![s] = None]
          /\ sent' = [sent EXCEPT ![s] = <<>>]
      BY <2>1 DEF TunnelCloses
    <3>2. \A o \in Linked : receiving[o] # s
      BY <1>2, <2>1
    <3> QED BY <1>2, <2>1, <3>1, <3>2
  <2>2. CASE s \in relaying
    <3> DEFINE on == {o \in Linked \ {s} : receiving[o] = s}
    <3>1. /\ relaying' = relaying \ {s}
          /\ receiving' = [o \in Tunnels |-> IF o \in on \cup {s} THEN None ELSE receiving[o]]
          /\ sent' = [o \in Tunnels |-> IF o = s THEN <<>> ELSE IF o \in on THEN Ends(s) ELSE sent[o]]
      BY <2>2 DEF TunnelCloses
    <3>2. Ends(s) \in Seq(Records) /\ <<>> \in Seq(Records)
      BY EndsAre, TalkersAre
    <3> QED BY <1>2, <2>2, <3>1, <3>2
  <2> QED BY <2>1, <2>2
<1>8. Lines!LineNext
  <2>1. Lines!Relinks(s) \/ Lines!WhileDown(s)
    <3>1. link[s].up \in BOOLEAN /\ link'[s].up \in BOOLEAN
      BY <1>2, <1>4 DEF Links
    <3> QED BY <1>4, <1>7, <3>1 DEF Lines!Relinks, Lines!WhileDown
  <2>2. ASSUME NEW o \in Tunnels \ {s} PROVE Lines!Idle(o) \/ Lines!Hears(o)
    <3>1. CASE receiving'[o] = receiving[o] /\ sent'[o] = sent[o]
      BY <1>4, <3>1 DEF Lines!Idle
    <3>2. CASE receiving[o] = s /\ receiving'[o] = None /\ sent'[o] = Ends(s)
      <4>1. Lines!Reading(receiving[o], sent'[o]) = None
        BY <3>2, EndsAre, ReadingIs, TalkersAre
      <4> QED BY <1>4, <3>2, <4>1 DEF Lines!Hears
    <3> QED BY <1>7, <3>1, <3>2
  <2> QED BY <2>1, <2>2 DEF Lines!LineNext
<1>9. OnACarriedCall'
  <2> SUFFICES ASSUME NEW o \in Linked', receiving'[o] \in Tunnels PROVE receiving'[o] \in relaying'
    BY DEF OnACarriedCall
  <2>1. o \in Tunnels \ {s} /\ o \in Linked
    BY <1>3, <1>4, <1>5 DEF Linked
  <2> QED BY <1>2, <1>7, <2>1, V24Assumption
<1>10. CarriedIsInProgress' /\ AgainIsNotCarried'
  BY <1>1, <1>2, <1>4, <1>7 DEF CarriedIsInProgress, AgainIsNotCarried
<1> QED BY <1>1, <1>3, <1>4, <1>6, <1>7, <1>8, <1>9, <1>10 DEF V24Inv, V24TypeOK

-----------------------------------------------------------------------------
LEMMA V24InitIs == V24Init => V24Inv /\ Lines!LineInit
<1> SUFFICES ASSUME V24Init PROVE V24Inv /\ Lines!LineInit
  OBVIOUS
<1>1. NotLinked \in Links /\ ~NotLinked.up
  BY DEF NotLinked, Links
<1>2. /\ tunnels \in Seq(Tunnels) /\ link = [s \in Tunnels |-> NotLinked] /\ call \in [Tunnels -> Nat \cup {None}]
      /\ relaying = {} /\ receiving = [s \in Tunnels |-> None] /\ sent = [s \in Tunnels |-> <<>>] /\ again = None
      /\ sent \in [Tunnels -> Seq(Records)]
  BY DEF V24Init
<1>3. V24TypeOK
  BY <1>1, <1>2 DEF V24TypeOK
<1>4. UpIsOpen /\ OnACarriedCall /\ CarriedIsInProgress /\ AgainIsNotCarried
  BY <1>1, <1>2, V24Assumption
     DEF UpIsOpen, OnACarriedCall, CarriedIsInProgress, AgainIsNotCarried, Linked, Open, Range
<1>5. [s \in Tunnels |-> link[s].up] \in [Tunnels -> BOOLEAN]
  BY <1>1, <1>2 DEF Links
<1> QED BY <1>2, <1>3, <1>4, <1>5 DEF V24Inv, Lines!LineInit

LEMMA V24Step == V24Inv /\ [V24Next]_v24Vars => V24Inv' /\ Lines!LineNext
<1> SUFFICES ASSUME V24Inv, [V24Next]_v24Vars PROVE V24Inv' /\ Lines!LineNext
  OBVIOUS
<1>1. ASSUME UNCHANGED <<lineState, callState>> PROVE V24Inv' /\ Lines!LineNext
  BY <1>1, FromGatewayIs DEF lineState, callState
<1>2. CASE UNCHANGED v24Vars
  BY <1>1, <1>2 DEF v24Vars
<1>3. CASE Talk
  BY <1>1, <1>3, RecordHeardIs DEF Talk, gatewayStep, Kinds
<1>4. CASE Opens
  BY <1>4, AcceptIs, LinkFrameIs DEF Opens
<1>5. CASE Drops
  BY <1>5, TunnelClosesIs, LinkFrameIs DEF Drops
<1>6. CASE Registering
  BY <1>1, <1>6 DEF Registering, gatewayStep
<1>7. CASE Housekeeping
  <2>1. CASE PassOn
    BY <2>1, FromGatewayIs DEF PassOn, lineState
  <2>2. CASE WatchInbound
    BY <2>2, FromGatewayIs DEF WatchInbound, lineState
  <2> QED BY <1>1, <1>7, <2>1, <2>2, BeginAgainIs, TimePassesIs, ExpireIs DEF Housekeeping, gatewayStep
<1> QED BY <1>2, <1>3, <1>4, <1>5, <1>6, <1>7 DEF V24Next

(* relay.go implements what it promises the repeaters: however calls of    *)
(* repeaters and gateways, takeovers of the floor, links that open and     *)
(* drop, tunnels that close and replace one another and lost terminators   *)
(* interleave, each repeater is sent whole calls, one after another, while *)
(* its link is up.  For any set of gateways and tunnels.                   *)
THEOREM V24ImplementsLine == V24Spec => LinesAreWhole
<1>1. V24Init => V24Inv /\ Lines!LineInit
  BY V24InitIs
<1>2. V24Inv /\ [V24Next]_v24Vars => V24Inv' /\ [Lines!LineNext]_Lines!lineVars
  BY V24Step
<1> QED BY <1>1, <1>2, PTL DEF V24Spec, LinesAreWhole, Lines!LineSpec
=============================================================================
