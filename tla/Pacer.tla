------------------------------- MODULE Pacer --------------------------------
(***************************************************************************)
(* When each voice record leaves for a repeater (internal/v24link/pacer.go,*)
(* schedule and pacer.run).  Records are spoken RecordInterval apart and   *)
(* arrive in order, each up to Late after it was spoken; the goroutine that*)
(* writes them may itself be held up by a slow tunnel (a stall).  Other    *)
(* records do not go through the schedule; an end resets it, and so does a *)
(* write that fails.                                                       *)
(***************************************************************************)
EXTENDS Integers

CONSTANTS RecordInterval, Hold, Late, MaxStall, Quiet, PerCall, Calls

(* pacer.go's RecordInterval, MaxHold and CallTimeout: 20, 200, 1000 ms. *)
ASSUME PacerAssumption ==
  /\ RecordInterval \in Nat \ {0} /\ {Hold, Late, MaxStall, Quiet, PerCall, Calls} \subseteq Nat
  /\ RecordInterval + Hold <= Quiet

VARIABLES schedule,  \* [next, last, after]; next = Unset between calls
          spoken,    \* when the next record is spoken
          arrived,   \* when the last record arrived
          left,      \* when the last record left
          gap,       \* how long after the one before it that was
          count,     \* records of this call so far
          behind,    \* a write of this call was held up
          numbered   \* calls so far, and what a failed write left of one

pacerVars == <<schedule, spoken, arrived, left, gap, count, behind, numbered>>

Unset == -1
Fresh(after) == [next |-> Unset, last |-> Unset, after |-> after]

PacerInit == /\ schedule = Fresh(0)
             /\ spoken = RecordInterval /\ arrived = 0 /\ left = 0
             /\ gap = RecordInterval
             /\ count = 0 /\ behind = FALSE /\ numbered = 1

Later(a, b) == IF a < b THEN b ELSE a

(* Mutant: a call may begin while the one before is still leaving. *)
DueNextCallLevel(s, arrival, now) ==
  LET at == IF s.next = Unset THEN arrival + Hold ELSE Later(s.next, arrival)
  IN  Later(at, now)

(* schedule.due: the first record of a call waits Hold, each after it is a *)
(* RecordInterval behind the one before, and one that has missed its moment*)
(* leaves at once and moves the schedule with it.                          *)
Due(s, arrival, now) ==
  LET at == IF s.next = Unset THEN arrival + Hold ELSE Later(s.next, arrival)
  IN  Later(Later(at, now), s.after)

(* pacer.run: the next record, taken off the queue when the last has left. *)
(* With no hold nothing is scheduled.                                      *)
VoiceRecord(late, stall) ==
  LET arrival == Later(arrived, spoken + late)
      now == Later(arrival, left) + stall
      s == IF schedule.next # Unset /\ arrival - schedule.last > Quiet
           THEN Fresh(schedule.after) ELSE schedule
      at == IF Hold > 0 THEN Due(s, arrival, now) ELSE now
  IN  /\ count < PerCall
      /\ schedule' = IF Hold > 0 THEN [next |-> at + RecordInterval, last |-> arrival,
                                       after |-> at + RecordInterval]
                     ELSE schedule
      /\ arrived' = arrival /\ left' = at /\ gap' = at - left
      /\ behind' = (behind \/ stall > 0)
      /\ count' = count + 1 /\ spoken' = spoken + RecordInterval
      /\ UNCHANGED numbered

(* An end is written: the next call begins after a pause. *)
EndRecord(pause) ==
  /\ count > 0 /\ numbered < Calls
  /\ schedule' = Fresh(schedule.after)
  /\ spoken' = Later(spoken + pause, arrived)
  /\ count' = 0 /\ behind' = FALSE /\ numbered' = numbered + 1
  /\ UNCHANGED <<arrived, left, gap>>

(* The write of that record fails: what has been queued is discarded, and  *)
(* the next record there is counts as the first.                           *)
WriteFails(discarded) ==
  /\ count > 0 /\ numbered < Calls
  /\ schedule' = Fresh(schedule.after)
  /\ spoken' = spoken + discarded * RecordInterval
  /\ count' = 0 /\ behind' = FALSE /\ numbered' = numbered + 1
  /\ UNCHANGED <<arrived, left, gap>>

PacerNext == \/ \E late \in 0..Late, stall \in 0..MaxStall : VoiceRecord(late, stall)
             \/ \E pause \in 0..Hold : EndRecord(pause)
             \/ \E discarded \in 0..PerCall : WriteFails(discarded)

(* "A record up to Hold late is sent on time", and "nothing is sent faster *)
(* to catch up": records never leave closer together than they are spoken, *)
(* across a stall, a failed write and two calls queued together, and after *)
(* the first of a call they leave exactly as they are spoken unless a write*)
(* stalled.  With no hold they leave as they come.                         *)
EvenlyPaced == Hold > 0 =>
  /\ numbered + count > 2 => gap >= RecordInterval
  /\ count > 1 /\ ~behind /\ Late <= Hold => gap = RecordInterval
=============================================================================
