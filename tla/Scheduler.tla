----------------------------- MODULE Scheduler -----------------------------
(***************************************************************************)
(* Which bridges the calendar opens at an instant (internal/scheduler).    *)
(*                                                                         *)
(* A window is a time of day in a zone, on some days of the week, and a    *)
(* length of real time.  A zone's clock changes once, forward or back; its *)
(* local time is the instant plus an offset.  Days and weeks are as short  *)
(* as a run makes them.                                                    *)
(***************************************************************************)
EXTENDS Integers, FiniteSets

CONSTANTS Bridges,
          Zones,
          DayLength, WeekLength,
          ClockChange,                \* of a zone, the instant its clock changes
          OffsetBefore, OffsetAfter,  \* of a zone
          MaxWindowDuration

Windows == [bridge : Bridges, zone : Zones, days : SUBSET (0..WeekLength - 1),
            start : 0..DayLength - 1, duration : 1..MaxWindowDuration, enabled : BOOLEAN]

ASSUME SchedulerAssumption ==
  /\ DayLength \in Nat \ {0} /\ WeekLength \in Nat \ {0}
  /\ \A z \in Zones : /\ ClockChange[z] \in Int
                      /\ OffsetBefore[z] \in Int /\ OffsetAfter[z] \in Int
                      /\ OffsetAfter[z] - OffsetBefore[z] \in (1 - DayLength)..(DayLength - 1)
  /\ MaxWindowDuration \in 1..(DayLength \div 2)

Offset(z, t) == IF t < ClockChange[z] THEN OffsetBefore[z] ELSE OffsetAfter[z]

Local(z, t) == t + Offset(z, t)

(* time.Date of Go's library, for a local reading l: the offset is looked  *)
(* up as if l were an instant, and again at the instant that gives if the  *)
(* first one is not in force there.  An offset of zero is not questioned.  *)
Date(z, l) ==
  LET o == Offset(z, l)
  IN  IF o = 0 \/ (l - o < ClockChange[z] <=> l < ClockChange[z]) THEN l - o
      ELSE l - Offset(z, l - o)

RunsOn(w, day) == day % WeekLength \in w.days

(* occurrenceOn: the instants a window is open when it starts on that day. *)
(* One whose start resolves to another time of day is skipped.             *)
OccurrenceOn(w, day) ==
  LET start == Date(w.zone, day * DayLength + w.start)
  IN  IF Local(w.zone, start) % DayLength # w.start THEN {}
      ELSE start..(start + w.duration - 1)

Today(w, t) == Local(w.zone, t) \div DayLength

Lookback == 2

(* Mutant: a window that runs past midnight is forgotten.                  *)
OccurrencesAroundToday(w, t) ==
  {OccurrenceOn(w, day) : day \in {d \in {Today(w, t)} : RunsOn(w, d)}}

OccurrencesAround(w, t) ==
  {OccurrenceOn(w, day) : day \in {d \in (Today(w, t) - Lookback)..Today(w, t) : RunsOn(w, d)}}

OpenAt(w, t) == w.enabled /\ t \in UNION OccurrencesAround(w, t)

(* Schedule.ActiveAt                                                       *)
ScheduledAt(windows, t) == {w.bridge : w \in {v \in windows : OpenAt(v, t)}}
-----------------------------------------------------------------------------
(* The calendar as an operator reads it, for the properties: the instants  *)
(* at which the clock on the wall comes to a window's start on a day that  *)
(* it runs.  When the clock goes back it may do so twice.                  *)
ReadsStart(w, t) == /\ Local(w.zone, t) % DayLength = w.start
                    /\ RunsOn(w, Local(w.zone, t) \div DayLength)

(* The other instants with the same reading, for a clock that moves by     *)
(* less than a day.                                                        *)
Again(w, t) == {r \in (t - DayLength)..(t + DayLength) : r # t /\ Local(w.zone, r) = Local(w.zone, t)}

(* The starts of a window that would have it open at t.                    *)
Starts(w, t) == {s \in (t - w.duration + 1)..t : ReadsStart(w, s)}
=============================================================================
