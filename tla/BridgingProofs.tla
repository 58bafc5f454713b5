--------------------------- MODULE BridgingProofs ---------------------------
(***************************************************************************)
(* What is carried where, for every configuration, number of saves and     *)
(* interleaving of the goroutines: no save is lost or overtaken by an      *)
(* earlier one, the calendar is kept, and a bridge is open when it is      *)
(* asked for (Bridging); and an outgoing link that was closed says nothing *)
(* more (Link).                                                            *)
(***************************************************************************)
EXTENDS Bridging, Link, TLAPS

(* A reload is under way exactly between the two steps of applyPending.    *)
UnderWay == pc = "install" <=> reload # None

(* The newest save is in one of three places: it waits, it is being        *)
(* installed, or it is in force.                                           *)
NewestIsKept ==
  /\ pending # None => pending.of = Len(saved)
  /\ pending = None /\ reload # None => reload.of = Len(saved)
  /\ pending = None /\ reload = None => rebuild = Len(saved)

IndInv ==
  /\ saved \in Seq(Configs)
  /\ UnderWay
  /\ NewestIsKept

LEMMA InitIndInv == Init => IndInv
<1> SUFFICES ASSUME Init PROVE IndInv
  OBVIOUS
<1>1. PICK c \in Configs : saved = <<c>>
  BY DEF Init
<1>2. saved \in Seq(Configs) /\ Len(saved) = 1
  BY <1>1
<1>3. UnderWay
  BY DEF Init, UnderWay
<1>4. pending = None /\ reload = None /\ rebuild = 1
  BY DEF Init
<1>5. NewestIsKept
  BY <1>2, <1>4 DEF NewestIsKept
<1> QED
  BY <1>2, <1>3, <1>5 DEF IndInv

LEMMA NextIndInv == IndInv /\ [Next]_vars => IndInv'
<1> SUFFICES ASSUME IndInv, [Next]_vars PROVE IndInv'
  OBVIOUS
<1> USE DEF IndInv
<1>1. ASSUME NEW c \in Configs, Save(c) PROVE IndInv'
  <2>1. saved' \in Seq(Configs) /\ Len(saved') = Len(saved) + 1 /\ Len(saved) \in Nat
    BY <1>1 DEF Save
  <2>2. pending'.of = Len(saved')
    BY <1>1, <2>1 DEF Save
  <2>3. pending' # None
    BY <2>1, <2>2 DEF None
  <2>4. UnderWay'
    BY <1>1 DEF Save, UnderWay
  <2> QED
    BY <2>1, <2>2, <2>3, <2>4 DEF NewestIsKept
<1>2. ASSUME UNCHANGED <<saved, pending, reload, rebuild>>, UnderWay' PROVE IndInv'
  BY <1>2 DEF NewestIsKept
<1>3. CASE Frame
  BY <1>2, <1>3 DEF Frame, UnderWay, cfgVars
<1>4. CASE ReadTimesOut
  BY <1>2, <1>4 DEF ReadTimesOut, UnderWay, cfgVars
<1>5. CASE FrameFromIPSC
  BY <1>2, <1>5 DEF FrameFromIPSC, UnderWay, cfgVars
<1>6. CASE InstallTable
  <2>1. /\ saved' = saved /\ rebuild' = rebuild /\ reload' = pending /\ pending' = None
        /\ reload = None
        /\ IF pending = None THEN pc' = "expire" ELSE pc' = "install"
    BY <1>6 DEF InstallTable, UnderWay, cfgVars
  <2>2. UnderWay'
    BY <2>1 DEF UnderWay
  <2> QED
    BY <2>1, <2>2 DEF NewestIsKept
<1>7. CASE InstallRest
  <2>1. /\ saved' = saved /\ pending' = pending /\ reload' = None
        /\ rebuild' = reload.of /\ pc' = "expire" /\ reload # None
    BY <1>7 DEF InstallRest, UnderWay
  <2>2. UnderWay'
    BY <2>1 DEF UnderWay
  <2> QED
    BY <2>1, <2>2 DEF NewestIsKept
<1>8. CASE ExpireTriggers
  BY <1>2, <1>8 DEF ExpireTriggers, UnderWay, cfgVars
<1>9. CASE Sweep
  BY <1>2, <1>9 DEF Sweep, UnderWay, cfgVars
<1>10. CASE TimePasses
  BY <1>2, <1>10 DEF TimePasses, UnderWay, cfgVars
<1>11. CASE UNCHANGED vars
  BY <1>2, <1>11 DEF vars, UnderWay, cfgVars
<1> QED
  BY <1>1, <1>3, <1>4, <1>5, <1>6, <1>7, <1>8, <1>9, <1>10, <1>11 DEF Next, Saves

(* The last save is the one in force once nothing waits, however saves,    *)
(* frames and sweeps interleave (Listener.Apply, applyPending).            *)
THEOREM TheLastSaveIsInForce == Spec => []LastSaveWins
<1>1. IndInv => LastSaveWins
  BY DEF IndInv, NewestIsKept, LastSaveWins
<1> QED
  BY <1>1, InitIndInv, NextIndInv, PTL DEF Spec
-----------------------------------------------------------------------------
(* The calendar                                                            *)

(* A number is so many days and a time of day, in one way.                 *)
LEMMA DayAndTime ==
  ASSUME NEW D \in Nat \ {0}, NEW x \in Int
  PROVE  /\ x % D \in 0 .. D - 1 /\ x \div D \in Int
         /\ x = (x \div D) * D + (x % D)
<1> DEFINE q == x \div D
           m == x % D
<1>1. m \in 0 .. D - 1 /\ q \in Int
  OBVIOUS
<1>2. m = x - D * q
  OBVIOUS
<1> HIDE DEF q, m
<1>3. x = q * D + m
  BY <1>1, <1>2
<1> QED BY <1>1, <1>3 DEF q, m

LEMMA DayAndTimeOnce ==
  ASSUME NEW D \in Nat \ {0}, NEW d \in Int, NEW e \in Int, NEW r \in 0 .. D - 1, NEW q \in 0 .. D - 1,
         d * D + r = e * D + q
  PROVE  d = e /\ r = q
<1>1. CASE d < e
  <2>1. (d + 1) * D <= e * D
    BY <1>1
  <2>2. (d + 1) * D = d * D + D
    OBVIOUS
  <2> QED BY <2>1, <2>2
<1>2. CASE e < d
  <2>1. (e + 1) * D <= d * D
    BY <1>2
  <2>2. (e + 1) * D = e * D + D
    OBVIOUS
  <2> QED BY <2>1, <2>2
<1> QED BY <1>1, <1>2

LEMMA DayOf ==
  ASSUME NEW D \in Nat \ {0}, NEW d \in Int, NEW r \in 0 .. D - 1, NEW x \in Int, x = d * D + r
  PROVE  x \div D = d /\ x % D = r
<1>1. x \div D \in Int /\ x % D \in 0 .. D - 1 /\ (x \div D) * D + (x % D) = d * D + r
  BY DayAndTime
<1> QED BY <1>1, DayAndTimeOnce

(* Two readings with the same time of day are whole days apart.            *)
LEMMA NearbySame ==
  ASSUME NEW D \in Nat \ {0}, NEW x \in Int, NEW y \in Int, x % D = y % D, y - x \in (1 - D) .. (D - 1)
  PROVE  x = y
<1> DEFINE d == x \div D
           e == y \div D
           r == x % D
<1>1. d \in Int /\ e \in Int /\ r \in 0 .. D - 1 /\ x = d * D + r /\ y = e * D + r
  BY DayAndTime
<1> HIDE DEF d, e, r
<1>2. CASE d < e
  <2>1. (d + 1) * D <= e * D
    BY <1>1, <1>2
  <2>2. (d + 1) * D = d * D + D
    BY <1>1
  <2> QED BY <1>1, <2>1, <2>2
<1>3. CASE e < d
  <2>1. (e + 1) * D <= d * D
    BY <1>1, <1>3
  <2>2. (e + 1) * D = e * D + D
    BY <1>1
  <2> QED BY <1>1, <2>1, <2>2
<1> QED BY <1>1, <1>2, <1>3

(* A zone's clock, with its names shortened.                               *)
LEMMA ClockOf ==
  ASSUME NEW z \in Zones
  PROVE  /\ ClockChange[z] \in Int /\ OffsetBefore[z] \in Int /\ OffsetAfter[z] \in Int
         /\ OffsetAfter[z] - OffsetBefore[z] \in (1 - DayLength) .. (DayLength - 1)
         /\ DayLength \in Nat \ {0}
BY SchedulerAssumption

(* time.Date gives an instant whose reading is within a day of the one     *)
(* asked for, and the instant asked for when there is one.                 *)
LEMMA DateReads ==
  ASSUME NEW z \in Zones, NEW l \in Int
  PROVE  /\ Date(z, l) \in Int /\ Local(z, Date(z, l)) \in Int
         /\ Local(z, Date(z, l)) - l \in (1 - DayLength) .. (DayLength - 1)
         /\ \A s \in Int : Local(z, s) = l => Local(z, Date(z, l)) = l
<1> DEFINE c == ClockChange[z]
           b == OffsetBefore[z]
           a == OffsetAfter[z]
<1>1. c \in Int /\ b \in Int /\ a \in Int /\ a - b \in (1 - DayLength) .. (DayLength - 1) /\ DayLength \in Nat \ {0}
  BY ClockOf
<1>2. \A t : Local(z, t) = t + (IF t < c THEN b ELSE a)
  BY DEF Local, Offset
<1>3. CASE l < c
  <2>1. Date(z, l) = IF b = 0 \/ l - b < c THEN l - b ELSE l - a
    BY <1>1, <1>3 DEF Date, Offset
  <2> HIDE DEF a, b, c
  <2>2. CASE b = 0 \/ l - b < c
    BY <1>1, <1>2, <1>3, <2>1, <2>2
  <2>3. CASE ~(b = 0 \/ l - b < c)
    BY <1>1, <1>2, <1>3, <2>1, <2>3
  <2> QED BY <2>2, <2>3
<1>4. CASE ~(l < c)
  <2>1. Date(z, l) = IF a = 0 \/ ~(l - a < c) THEN l - a ELSE l - b
    BY <1>1, <1>4 DEF Date, Offset
  <2> HIDE DEF a, b, c
  <2>2. CASE a = 0 \/ ~(l - a < c)
    BY <1>1, <1>2, <1>4, <2>1, <2>2
  <2>3. CASE ~(a = 0 \/ ~(l - a < c))
    BY <1>1, <1>2, <1>4, <2>1, <2>3
  <2> QED BY <2>2, <2>3
<1> QED BY <1>3, <1>4


(* What a window is, as far as the calendar goes.                          *)
LEMMA WindowType ==
  ASSUME NEW w \in Windows
  PROVE  /\ w.zone \in Zones /\ w.start \in 0 .. DayLength - 1 /\ w.duration \in 1 .. MaxWindowDuration
         /\ MaxWindowDuration \in Nat /\ 2 * MaxWindowDuration <= DayLength
         /\ DayLength \in Nat \ {0}
<1>1. DayLength \in Nat \ {0} /\ MaxWindowDuration \in 1 .. (DayLength \div 2)
  BY SchedulerAssumption
<1>2. 2 * MaxWindowDuration <= DayLength /\ MaxWindowDuration \in Nat
  BY <1>1
<1> QED BY <1>1, <1>2 DEF Windows

(* A window's occurrence of a day begins when the clock on the wall reads  *)
(* its start on that day, or there is none.                                *)
LEMMA OccurrenceStarts ==
  ASSUME NEW w \in Windows, NEW day \in Int, NEW t \in OccurrenceOn(w, day), RunsOn(w, day)
  PROVE  \E s \in Int : s <= t /\ t <= s + w.duration - 1 /\ ReadsStart(w, s)
<1> DEFINE D == DayLength
           z == w.zone
           l == day * D + w.start
           s == Date(z, l)
           x == Local(z, s)
<1>0. z \in Zones /\ D \in Nat \ {0} /\ w.start \in 0 .. D - 1 /\ l \in Int
  BY WindowType
<1>1. x % D = w.start /\ t \in s .. (s + w.duration - 1)
  BY DEF OccurrenceOn
<1>2. s \in Int /\ x \in Int /\ x - l \in (1 - D) .. (D - 1)
  BY <1>0, DateReads
<1>3. l \div D = day /\ l % D = w.start
  BY <1>0, DayOf
<1> HIDE DEF l, s, x, z
<1>4. x = l
  <2>1. l % D = x % D
    BY <1>1, <1>3
  <2> QED BY <1>0, <1>2, <2>1, NearbySame
<1>5. ReadsStart(w, s)
  BY <1>1, <1>3, <1>4 DEF ReadsStart, x, z
<1> QED BY <1>1, <1>2, <1>5

LEMMA OpenMeansStarted ==
  ASSUME NEW w \in Windows, NEW t \in Int, OpenAt(w, t)
  PROVE  Starts(w, t) # {}
<1>1. Today(w, t) \in Int
  <2>1. Local(w.zone, t) \in Int
    BY WindowType, ClockOf DEF Local, Offset
  <2> QED BY <2>1, WindowType, DayAndTime DEF Today
<1>2. PICK day \in (Today(w, t) - Lookback) .. Today(w, t) : RunsOn(w, day) /\ t \in OccurrenceOn(w, day)
  BY DEF OpenAt, OccurrencesAround
<1>3. day \in Int
  BY <1>1, <1>2 DEF Lookback
<1>4. PICK s \in Int : s <= t /\ t <= s + w.duration - 1 /\ ReadsStart(w, s)
  BY <1>2, <1>3, OccurrenceStarts
<1>5. s \in (t - w.duration + 1) .. t
  BY <1>4, WindowType
<1> QED BY <1>4, <1>5 DEF Starts

(* An instant that is the only one with its reading is the one time.Date   *)
(* finds.                                                                  *)
LEMMA DateFinds ==
  ASSUME NEW w \in Windows, NEW s \in Int, Again(w, s) = {}
  PROVE  Date(w.zone, Local(w.zone, s)) = s
<1> DEFINE z == w.zone
           D == DayLength
           l == Local(z, s)
           r == Date(z, l)
           c == ClockChange[z]
           b == OffsetBefore[z]
           a == OffsetAfter[z]
<1>1. c \in Int /\ b \in Int /\ a \in Int /\ a - b \in (1 - D) .. (D - 1) /\ D \in Nat \ {0} /\ z \in Zones
  BY WindowType, ClockOf
<1>2. \A t : Local(z, t) = t + (IF t < c THEN b ELSE a)
  BY DEF Local, Offset
<1>3. l \in Int
  BY <1>1, <1>2
<1>4. r \in Int /\ Local(z, r) = l
  BY <1>1, <1>3, DateReads
<1>5. l = s + (IF s < c THEN b ELSE a) /\ l = r + (IF r < c THEN b ELSE a)
  BY <1>2, <1>4
<1>6. r = s \/ r \notin (s - D) .. (s + D)
  BY <1>4 DEF Again
<1> HIDE DEF r, l, z, D, a, b, c
<1>7. r \in (s - D) .. (s + D)
  BY <1>1, <1>3, <1>4, <1>5
<1> QED BY <1>6, <1>7 DEF r, l, z

LEMMA StartedMeansOpen ==
  ASSUME NEW w \in Windows, w.enabled, NEW t \in Int, NEW s \in Starts(w, t), Again(w, s) = {}
  PROVE  OpenAt(w, t)
<1> DEFINE z == w.zone
           D == DayLength
           l == Local(z, s)
           m == Local(z, t)
           day == l \div D
           today == m \div D
           hour == m % D
           c == ClockChange[z]
           b == OffsetBefore[z]
           a == OffsetAfter[z]
<1>0. w.duration \in Nat /\ 1 <= w.duration /\ 2 * w.duration <= D
  BY WindowType
<1>1. c \in Int /\ b \in Int /\ a \in Int /\ a - b \in (1 - D) .. (D - 1) /\ D \in Nat \ {0} /\ z \in Zones
  BY WindowType, ClockOf
<1>2. s \in Int /\ s <= t /\ t <= s + w.duration - 1 /\ l % D = w.start /\ RunsOn(w, day)
  BY <1>0 DEF Starts, ReadsStart
<1>3. l = s + (IF s < c THEN b ELSE a) /\ m = t + (IF t < c THEN b ELSE a) /\ l \in Int /\ m \in Int
  BY <1>1, <1>2 DEF Local, Offset
<1>4. day \in Int /\ today \in Int /\ l = day * D + w.start
      /\ m = today * D + hour /\ hour \in 0 .. D - 1 /\ w.start \in 0 .. D - 1
  BY <1>1, <1>2, <1>3, DayAndTime
<1>5. t \in OccurrenceOn(w, day)
  <2>1. Date(z, day * D + w.start) = s
    BY <1>2, <1>4, DateFinds
  <2> QED BY <1>0, <1>2, <2>1 DEF OccurrenceOn
<1>6. \A r \in Int : r \in (s - D) .. (s + D) /\ r # s => r + (IF r < c THEN b ELSE a) # l
  BY <1>2 DEF Again, Local, Offset
<1>7. today <= day + 2
  <2>1. m - l < 2 * D
    <3> HIDE DEF m, l, a, b, c, D
    <3> QED BY <1>0, <1>1, <1>2, <1>3
  <2> HIDE DEF m, l, today, hour, day, D
  <2>2. CASE today > day + 2
    <3>1. (day + 3) * D <= today * D
      BY <1>1, <1>4, <2>2
    <3>2. (day + 3) * D = day * D + 3 * D
      BY <1>1, <1>4
    <3> QED BY <1>1, <1>3, <1>4, <2>1, <3>1, <3>2
  <2> QED BY <1>4, <2>2
<1>8. day <= today
  <2> SUFFICES ASSUME today < day PROVE FALSE
    BY <1>4
  <2>1. m < l
    <3> HIDE DEF m, l, today, hour, day, D
    <3>1. (today + 1) * D <= day * D
      BY <1>1, <1>4
    <3>2. (today + 1) * D = today * D + D
      BY <1>1, <1>4
    <3> QED BY <1>1, <1>3, <1>4, <3>1, <3>2
  <2> HIDE DEF m, l, today, hour, day, D, a, b, c
  <2>2. s < c /\ ~(t < c) /\ a < b
    BY <1>1, <1>2, <1>3, <2>1
  <2> DEFINE r == l - a
  <2>3. r \in Int /\ r # s /\ r \in (s - D) .. (s + D) /\ ~(r < c)
    BY <1>1, <1>2, <1>3, <2>1, <2>2
  <2>4. r + a = l
    BY <1>1, <1>3
  <2> QED BY <1>6, <2>3, <2>4
<1>9. day \in (Today(w, t) - Lookback) .. Today(w, t)
  <2>1. Today(w, t) = today
    BY DEF Today
  <2> HIDE DEF today, day
  <2> QED BY <1>4, <1>7, <1>8, <2>1 DEF Lookback
<1>10. OccurrenceOn(w, day) \in OccurrencesAround(w, t)
  BY <1>2, <1>9 DEF OccurrencesAround
<1> QED BY <1>5, <1>10 DEF OpenAt

(* A window is open only within its duration of a moment at which the      *)
(* clock on the wall read its start, and always when it read it just once; *)
(* for every calendar, every zone whose clock moves by less than a day,    *)
(* and every instant (Schedule.ActiveAt, occurrenceOn, time.Date).         *)
THEOREM TheScheduleIsKept == Spec => []ScheduleIsKept
<1> DEFINE Clock == now \in Int
<1>1. Init => Clock
  BY DEF Init
<1>2. Clock /\ [Next]_vars => Clock'
  <2> SUFFICES ASSUME now \in Int, [Next]_vars PROVE now' \in Int
    OBVIOUS
  <2>1. now' = now \/ now' = now + 1
    BY DEF Next, Saves, Save, Frame, ReadTimesOut, FrameFromIPSC, InstallTable, InstallRest, ExpireTriggers,
           Sweep, TimePasses, vars
  <2> QED BY <2>1
<1>3. IndInv /\ Clock => ScheduleIsKept
  <2> SUFFICES ASSUME IndInv, now \in Int, NEW v \in DOMAIN saved, NEW w \in saved[v].windows
               PROVE  /\ OpenAt(w, now) => Starts(w, now) # {}
                      /\ w.enabled /\ (\E s \in Starts(w, now) : Again(w, s) = {}) => OpenAt(w, now)
    BY DEF ScheduleIsKept
  <2>1. saved[v] \in Configs
    BY DEF IndInv
  <2>2. w \in Windows
    BY <2>1, BridgingAssumption
  <2> QED BY <2>2, OpenMeansStarted, StartedMeansOpen
<1> HIDE DEF Clock
<1> QED BY <1>1, <1>2, <1>3, InitIndInv, NextIndInv, PTL DEF Spec


-----------------------------------------------------------------------------
(* What is open                                                            *)

Uses == [Bridges -> Nat \cup {Unused}]

(* The table of configuration n when the calendar and the triggers ask for *)
(* the bridges S.                                                          *)
TableOf(n, S) ==
  [of |-> n, open |-> (S \cap Controlled(saved[n])) \cup (saved[n].on \ Controlled(saved[n]))]

(* Configurations are installed in the order they were saved, what decides *)
(* is never newer than the one in force, and the triggers of one that is   *)
(* not yet installed have not been used.                                   *)
InOrder ==
  /\ now \in Nat /\ lastUsed \in Seq(Uses) /\ Len(lastUsed) = Len(saved)
  /\ rebuild \in 1 .. Len(saved) /\ triggers \in 0 .. rebuild /\ stateOf \in 0 .. rebuild
  /\ reload # None => reload.of \in rebuild + 1 .. Len(saved)
  /\ pending # None => pending.of \in rebuild + 1 .. Len(saved)
  /\ pending # None /\ reload # None => reload.of < pending.of
  /\ triggers = rebuild => HasTriggers(saved[rebuild])
  /\ stateOf = rebuild \/ Controlled(saved[rebuild]) = {}
  /\ \A n \in 1 .. Len(saved) : n > triggers => lastUsed[n] = NeverUsed

(* Outside an installation, the table is the one scheduleState was rebuilt *)
(* for, and has every bridge that is held open open.                       *)
TableFollows ==
  /\ stateOf = 0 => scheduleState = {}
  /\ pc # "install" /\ scheduleState # {} => table = TableOf(rebuild, scheduleState)
  /\ pc # "install" /\ triggers = rebuild =>
       HeldAt(saved[rebuild], lastUsed[rebuild], now) \subseteq table.open

BridgeInv == IndInv /\ InOrder /\ TableFollows

(* What is on at all is one mechanism's.                                   *)
LEMMA HeldIsControlled ==
  ASSUME NEW c, NEW used, NEW t
  PROVE  /\ HeldAt(c, used, t) \subseteq Controlled(c) /\ HeldAt(c, used, t) \subseteq StateAt(c, used, t)
         /\ HeldAt(c, NeverUsed, t) = {}
BY DEF HeldAt, Controlled, StateAt, NeverUsed

LEMMA RebuiltIs ==
  ASSUME BridgeInv, NEW used, stateOf # 0
  PROVE  [of |-> rebuild, open |-> OpenIn(saved[rebuild], used[rebuild], now)] =
           TableOf(rebuild, StateAt(saved[stateOf], used[stateOf], now))
<1>1. CASE stateOf = rebuild
  BY <1>1 DEF OpenIn, TableOf
<1>2. CASE Controlled(saved[rebuild]) = {}
  BY <1>2 DEF OpenIn, TableOf
<1> QED BY <1>1, <1>2 DEF BridgeInv, InOrder

(* applySchedule leaves the table that scheduleState asks for.             *)
LEMMA ApplyOK ==
  ASSUME BridgeInv, NEW used, ApplySchedule(used)
  PROVE  /\ stateOf = 0 => scheduleState' = {}
         /\ pc # "install" /\ scheduleState' # {} => table' = TableOf(rebuild, scheduleState')
         /\ stateOf # 0 => \/ scheduleState' = scheduleState /\ table' = table
                           \/ table' = TableOf(rebuild, StateAt(saved[stateOf], used[stateOf], now))
         /\ stateOf # 0 => scheduleState' = StateAt(saved[stateOf], used[stateOf], now)
<1>1. CASE stateOf = 0
  BY <1>1 DEF ApplySchedule, BridgeInv, TableFollows
<1>2. CASE stateOf # 0
  <2> DEFINE want == StateAt(saved[stateOf], used[stateOf], now)
  <2>1. \/ scheduleState = want /\ UNCHANGED <<scheduleState, table>>
        \/ scheduleState' = want
           /\ table' = [of |-> rebuild, open |-> OpenIn(saved[rebuild], used[rebuild], now)]
    BY <1>2 DEF ApplySchedule, SameState
  <2>2. [of |-> rebuild, open |-> OpenIn(saved[rebuild], used[rebuild], now)] = TableOf(rebuild, want)
    BY <1>2, RebuiltIs
  <2> HIDE DEF want
  <2>3. pc # "install" /\ scheduleState # {} => table = TableOf(rebuild, scheduleState)
    BY DEF BridgeInv, TableFollows
  <2> QED BY <1>2, <2>1, <2>2, <2>3 DEF want
<1> QED BY <1>1, <1>2

(* The triggers in force are a configuration's own only when it has some,  *)
(* and then it is decided by its own bridgeState.                          *)
LEMMA TriggersDecide ==
  ASSUME BridgeInv, triggers = rebuild
  PROVE  stateOf = rebuild /\ stateOf # 0 /\ triggers # 0
<1>1. HasTriggers(saved[rebuild]) /\ rebuild \in 1 .. Len(saved)
  BY DEF BridgeInv, InOrder
<1>2. Controlled(saved[rebuild]) # {}
  BY <1>1 DEF HasTriggers, Controlled
<1> QED BY <1>1, <1>2 DEF BridgeInv, InOrder

(* trigger, for a station's frame: what it matches is open, and everything *)
(* that is held is.                                                        *)
LEMMA TriggerOK ==
  ASSUME BridgeInv, NEW s, Trigger(s), triggers = rebuild, pc # "install"
  PROVE  /\ Matching(s) \subseteq HeldAt(saved[rebuild], lastUsed'[rebuild], now)
         /\ HeldAt(saved[rebuild], lastUsed'[rebuild], now) \subseteq table'.open
<1> DEFINE c == saved[rebuild]
           used == lastUsed[rebuild]
           after == [b \in Bridges |-> IF b \in Matching(s) THEN now ELSE used[b]]
<1>0. stateOf = rebuild /\ stateOf # 0 /\ triggers # 0
  BY TriggersDecide
<1>1. /\ now \in Nat /\ HangTime \in Nat /\ rebuild \in 1 .. Len(saved) /\ c \in Configs
      /\ used \in Uses /\ lastUsed \in Seq(Uses) /\ Len(lastUsed) = Len(saved)
  BY BridgingAssumption DEF BridgeInv, InOrder, IndInv
<1>2. lastUsed' = [lastUsed EXCEPT ![rebuild] = after]
  BY <1>0 DEF Trigger
<1>3. lastUsed'[rebuild] = after
  BY <1>1, <1>2
<1>4. ASSUME NEW b \in Matching(s)
      PROVE  b \in Bridges /\ \E g \in c.triggers : g.enabled /\ g.bridge = b
  <2>1. PICK g \in c.triggers : g.enabled /\ s \in g.on /\ g.bridge = b
    BY DEF Matching
  <2>2. g \in Triggers
    BY <1>1, BridgingAssumption
  <2> QED BY <2>1, <2>2 DEF Triggers
<1>5. Matching(s) \subseteq HeldAt(c, after, now)
  <2> SUFFICES ASSUME NEW b \in Matching(s) PROVE b \in HeldAt(c, after, now)
    OBVIOUS
  <2>1. b \in Bridges /\ after[b] = now
    BY <1>4
  <2>2. now # Unused /\ now - now <= HangTime
    BY <1>1 DEF Unused
  <2> QED BY <1>4, <2>1, <2>2 DEF HeldAt
<1>6. CASE Opened(s) = {}
  <2>1. table' = table
    BY <1>0, <1>6 DEF Trigger
  <2>2. HeldAt(c, used, now) \subseteq table.open
    BY DEF BridgeInv, TableFollows
  <2>3. Matching(s) \subseteq HeldAt(c, used, now)
    <3> SUFFICES ASSUME NEW b \in Matching(s) PROVE b \in HeldAt(c, used, now)
      OBVIOUS
    <3>1. b \in Bridges /\ (used[b] = Unused \/ used[b] \in Nat)
      BY <1>1, <1>4 DEF Uses
    <3>2. ~(used[b] = Unused \/ now - used[b] > HangTime)
      BY <1>6 DEF Opened
    <3>3. used[b] # Unused /\ now - used[b] <= HangTime
      BY <1>1, <3>1, <3>2
    <3> QED BY <1>4, <3>3 DEF HeldAt
  <2>4. HeldAt(c, after, now) \subseteq HeldAt(c, used, now) \cup Matching(s)
    BY DEF HeldAt
  <2> QED BY <1>3, <1>5, <2>1, <2>2, <2>3, <2>4
<1>7. CASE Opened(s) # {}
  <2>1. ApplySchedule(lastUsed')
    BY <1>0, <1>7 DEF Trigger
  <2> DEFINE want == StateAt(c, after, now)
  <2>2. StateAt(saved[stateOf], lastUsed'[stateOf], now) = want
    BY <1>0, <1>3
  <2> DEFINE u == lastUsed'
  <2>3. /\ scheduleState' = StateAt(saved[stateOf], u[stateOf], now)
        /\ scheduleState' # {} => table' = TableOf(rebuild, scheduleState')
    <3>1. ApplySchedule(u)
      BY <2>1
    <3> HIDE DEF u
    <3> QED BY <1>0, <3>1, ApplyOK
  <2>4. HeldAt(c, after, now) \subseteq want /\ HeldAt(c, after, now) \subseteq Controlled(c)
    BY HeldIsControlled
  <2>5. Matching(s) # {}
    BY <1>7 DEF Opened
  <2>6. want # {}
    BY <1>5, <2>4, <2>5
  <2>7. table'.open = (want \cap Controlled(c)) \cup (c.on \ Controlled(c))
    BY <2>2, <2>3, <2>6 DEF TableOf
  <2> QED BY <1>3, <1>5, <2>4, <2>7
<1> QED BY <1>6, <1>7


LEMMA BridgeInit == Init => BridgeInv
<1> SUFFICES ASSUME Init PROVE InOrder /\ TableFollows
  BY InitIndInv DEF BridgeInv
<1>1. PICK c \in Configs :
       /\ saved = <<c>>
       /\ triggers = IF HasTriggers(c) THEN 1 ELSE 0
       /\ stateOf = IF HasTriggers(c) \/ HasSchedule(c) THEN 1 ELSE 0
  BY DEF Init
<1>2. lastUsed = <<NeverUsed>> /\ pending = None /\ reload = None /\ rebuild = 1 /\ scheduleState = {} /\ now = 0
  BY DEF Init
<1>3. NeverUsed \in Uses
  BY DEF NeverUsed, Uses
<1>4. lastUsed \in Seq(Uses) /\ Len(lastUsed) = 1 /\ lastUsed[1] = NeverUsed /\ Len(saved) = 1 /\ saved[1] = c
  BY <1>1, <1>2, <1>3
<1>5. stateOf = rebuild \/ Controlled(saved[rebuild]) = {}
  BY <1>1, <1>2, <1>4 DEF HasTriggers, HasSchedule, Controlled
<1>6. InOrder
  BY <1>1, <1>2, <1>4, <1>5 DEF InOrder
<1> QED BY <1>2, <1>4, <1>6, HeldIsControlled DEF TableFollows

(* What stays when nothing of the order changes.                           *)
LEMMA OrderStays ==
  ASSUME InOrder, now' \in Nat, lastUsed' \in Seq(Uses), Len(lastUsed') = Len(saved),
         UNCHANGED <<saved, pending, reload, cfgVars>>,
         \A n \in 1 .. Len(saved) : n > triggers => lastUsed'[n] = lastUsed[n]
  PROVE  InOrder'
BY DEF InOrder, cfgVars, HasTriggers, Controlled

LEMMA TriggerOrder ==
  ASSUME IndInv, InOrder, NEW s, Trigger(s), UNCHANGED <<now, saved, pending, reload, cfgVars>>
  PROVE  InOrder'
<1>1. CASE triggers = 0
  <2>1. lastUsed' = lastUsed
    BY <1>1 DEF Trigger, openVars
  <2> QED BY <2>1, OrderStays DEF InOrder
<1>2. CASE triggers # 0
  <2> DEFINE after == [b \in Bridges |-> IF b \in Matching(s) THEN now ELSE lastUsed[triggers][b]]
  <2>1. lastUsed' = [lastUsed EXCEPT ![triggers] = after]
    BY <1>2 DEF Trigger
  <2>2. triggers \in 1 .. Len(lastUsed) /\ now \in Nat /\ lastUsed \in Seq(Uses) /\ Len(lastUsed) = Len(saved)
    BY <1>2 DEF InOrder
  <2>3. after \in Uses
    <3>1. lastUsed[triggers] \in Uses
      BY <2>2
    <3> QED BY <2>2, <3>1 DEF Uses
  <2> HIDE DEF after
  <2>4. /\ lastUsed' \in Seq(Uses) /\ Len(lastUsed') = Len(saved)
        /\ \A n \in 1 .. Len(saved) : n # triggers => lastUsed'[n] = lastUsed[n]
    BY <2>1, <2>2, <2>3
  <2> QED BY <2>2, <2>4, OrderStays
<1> QED BY <1>1, <1>2

(* A frame is triggered on either listener.                                *)
LEMMA TriggerStep ==
  ASSUME BridgeInv, NEW s, Trigger(s), UNCHANGED <<now, saved, pending, reload, cfgVars>>,
         (pc = "install") = (pc' = "install")
  PROVE  InOrder' /\ TableFollows'
<1>1. InOrder'
  BY TriggerOrder DEF BridgeInv
<1>2. /\ stateOf = 0 => scheduleState' = {}
      /\ pc # "install" /\ scheduleState' # {} => table' = TableOf(rebuild, scheduleState')
  <2>1. CASE UNCHANGED <<scheduleState, table>>
    BY <2>1 DEF BridgeInv, TableFollows
  <2>2. CASE ApplySchedule(lastUsed')
    <3> DEFINE u == lastUsed'
    <3>1. ApplySchedule(u)
      BY <2>2
    <3> HIDE DEF u
    <3> QED BY <3>1, ApplyOK
  <2> QED BY <2>1, <2>2 DEF Trigger, openVars
<1>3. pc # "install" /\ triggers = rebuild => HeldAt(saved[rebuild], lastUsed'[rebuild], now) \subseteq table'.open
  BY TriggerOK
<1>4. TableFollows'
  BY <1>2, <1>3 DEF TableFollows, cfgVars, TableOf, Controlled, HeldAt
<1> QED BY <1>1, <1>4

LEMMA BridgeStep == BridgeInv /\ [Next]_vars => BridgeInv'
<1> SUFFICES ASSUME BridgeInv, [Next]_vars PROVE InOrder' /\ TableFollows'
  BY NextIndInv DEF BridgeInv
<1>0. IndInv /\ InOrder /\ TableFollows
  BY DEF BridgeInv
<1>t. /\ saved \in Seq(Configs) /\ lastUsed \in Seq(Uses) /\ Len(lastUsed) = Len(saved) /\ now \in Nat
      /\ Len(saved) \in Nat /\ HangTime \in Nat
      /\ rebuild \in 1 .. Len(saved) /\ triggers \in 0 .. rebuild /\ stateOf \in 0 .. rebuild
  BY <1>0, BridgingAssumption DEF IndInv, InOrder
<1>1. ASSUME NEW c \in Configs, Save(c) PROVE InOrder' /\ TableFollows'
  <2>1. /\ saved' = Append(saved, c) /\ lastUsed' = Append(lastUsed, NeverUsed)
        /\ pending'.of = Len(saved) + 1
        /\ UNCHANGED <<now, pc, reload, triggers, stateOf, rebuild, scheduleState, table>>
    BY <1>1 DEF Save, cfgVars
  <2>2. NeverUsed \in Uses
    BY DEF NeverUsed, Uses
  <2>3. /\ Len(saved') = Len(saved) + 1 /\ Len(lastUsed') = Len(saved') /\ lastUsed' \in Seq(Uses)
        /\ \A n \in 1 .. Len(saved) : saved'[n] = saved[n] /\ lastUsed'[n] = lastUsed[n]
        /\ lastUsed'[Len(saved) + 1] = NeverUsed
    BY <1>t, <2>1, <2>2
  <2>4. \A n \in 1 .. Len(saved') : n > triggers => lastUsed'[n] = NeverUsed
    BY <1>0, <1>t, <2>3 DEF InOrder
  <2>5. InOrder'
    <3>1. /\ reload' # None => reload'.of \in rebuild' + 1 .. Len(saved')
          /\ pending'.of \in rebuild' + 1 .. Len(saved')
          /\ reload' # None => reload'.of < pending'.of
      BY <1>0, <1>t, <2>1, <2>3 DEF InOrder
    <3>2. saved'[rebuild'] = saved[rebuild]
      BY <1>t, <2>1, <2>3
    <3>3. /\ triggers' = rebuild' => HasTriggers(saved'[rebuild'])
          /\ stateOf' = rebuild' \/ Controlled(saved'[rebuild']) = {}
      BY <1>0, <2>1, <3>2 DEF InOrder
    <3>4. rebuild' \in 1 .. Len(saved') /\ triggers' \in 0 .. rebuild' /\ stateOf' \in 0 .. rebuild' /\ now' \in Nat
      BY <1>t, <2>1, <2>3
    <3> QED BY <2>3, <2>1, <2>4, <3>1, <3>3, <3>4 DEF InOrder, HasTriggers, Controlled
  <2>6. TableFollows'
    BY <1>0, <1>t, <2>1, <2>3 DEF TableFollows, TableOf, Controlled, HeldAt
  <2> QED BY <2>5, <2>6
<1>2. ASSUME UNCHANGED <<saved, pending, reload, cfgVars, openVars>>, now' \in Nat, now' >= now,
             pc' # "install" => pc # "install"
      PROVE  InOrder' /\ TableFollows'
  <2>1. InOrder'
    BY <1>0, <1>2, <1>t, OrderStays DEF openVars
  <2>2. ASSUME triggers = rebuild
        PROVE  HeldAt(saved[rebuild], lastUsed[rebuild], now') \subseteq HeldAt(saved[rebuild], lastUsed[rebuild], now)
    <3>1. lastUsed[rebuild] \in Uses
      BY <1>t
    <3>2. \A b \in Bridges : lastUsed[rebuild][b] = Unused \/ lastUsed[rebuild][b] \in Nat
      BY <3>1 DEF Uses
    <3>3. \A x \in Nat : now' - x <= HangTime => now - x <= HangTime
      <4>1. now \in Nat /\ HangTime \in Nat
        BY <1>t
      <4>2. now' \in Nat /\ now' >= now
        BY <1>2
      <4> DEFINE later == now'
      <4>3. later \in Nat /\ later >= now
        BY <4>2
      <4> HIDE DEF later
      <4>4. \A x \in Nat : later - x <= HangTime => now - x <= HangTime
        BY <4>1, <4>3
      <4> QED BY <4>4 DEF later
    <3> QED BY <3>2, <3>3 DEF HeldAt
  <2>3. /\ saved' = saved /\ triggers' = triggers /\ rebuild' = rebuild /\ stateOf' = stateOf
        /\ lastUsed' = lastUsed /\ scheduleState' = scheduleState /\ table' = table
    BY <1>2 DEF cfgVars, openVars
  <2>4. pc' # "install" /\ triggers = rebuild => HeldAt(saved[rebuild], lastUsed[rebuild], now') \subseteq table.open
    BY <1>0, <1>2, <2>2 DEF TableFollows
  <2>5. HeldAt(saved[rebuild], lastUsed[rebuild], now)' = HeldAt(saved[rebuild], lastUsed[rebuild], now')
    BY <2>3 DEF HeldAt
  <2>6. TableOf(rebuild, scheduleState)' = TableOf(rebuild, scheduleState)
    BY <2>3 DEF TableOf, Controlled
  <2>7. TableFollows'
    BY <1>0, <1>2, <2>3, <2>4, <2>5, <2>6 DEF TableFollows
  <2> QED BY <2>1, <2>7
<1>3. CASE Frame
  BY <1>3, TriggerStep DEF Frame
<1>4. CASE ReadTimesOut
  BY <1>2, <1>4, <1>t DEF ReadTimesOut
<1>5. CASE FrameFromIPSC
  BY <1>5, TriggerStep DEF FrameFromIPSC
<1>6. CASE InstallTable
  <2>1. /\ saved' = saved /\ lastUsed' = lastUsed /\ now' = now /\ scheduleState' = scheduleState
        /\ triggers' = triggers /\ stateOf' = stateOf /\ rebuild' = rebuild
        /\ reload' = pending /\ pending' = None /\ pc = "pending"
        /\ IF pending = None THEN pc' = "expire" /\ table' = table ELSE pc' = "install" /\ table' = pending
    BY <1>6 DEF InstallTable, cfgVars
  <2>2. InOrder'
    BY <1>0, <2>1 DEF InOrder, HasTriggers, Controlled
  <2>3. TableFollows'
    BY <1>0, <2>1 DEF TableFollows, TableOf, Controlled, HeldAt
  <2> QED BY <2>2, <2>3
<1>7. CASE InstallRest
  <2> DEFINE n == reload.of
             c == saved[n]
  <2>1. /\ saved' = saved /\ pending' = pending /\ lastUsed' = lastUsed /\ now' = now /\ table' = table
        /\ reload' = None /\ scheduleState' = {} /\ pc' = "expire" /\ rebuild' = n
        /\ triggers' = (IF HasTriggers(c) THEN n ELSE triggers)
        /\ stateOf' = (IF HasTriggers(c) \/ HasSchedule(c) THEN n ELSE stateOf)
    BY <1>7 DEF InstallRest
  <2>2. reload # None
    BY <1>0, <1>7 DEF InstallRest, IndInv, UnderWay
  <2>3. n \in rebuild + 1 .. Len(saved) /\ lastUsed[n] = NeverUsed
        /\ (pending # None => pending.of \in n + 1 .. Len(saved))
    BY <1>0, <1>t, <2>2 DEF InOrder
  <2>4. stateOf' = n \/ Controlled(c) = {}
    BY <2>1 DEF HasTriggers, HasSchedule, Controlled
  <2> HIDE DEF n
  <2>5. triggers' = n => HasTriggers(c)
    BY <1>t, <2>1, <2>3
  <2>6. triggers' >= triggers /\ triggers' \in 0 .. n /\ stateOf' \in 0 .. n /\ n \in 1 .. Len(saved)
    BY <1>t, <2>1, <2>3
  <2>7. \A i \in 1 .. Len(saved) : i > triggers' => lastUsed[i] = NeverUsed
    BY <1>0, <1>t, <2>6 DEF InOrder
  <2>8. HasTriggers(saved'[rebuild']) = HasTriggers(c) /\ Controlled(saved'[rebuild']) = Controlled(c)
    BY <2>1
  <2>9. InOrder'
    BY <1>t, <2>1, <2>3, <2>4, <2>5, <2>6, <2>7, <2>8 DEF InOrder, HasTriggers, Controlled
  <2>10. HeldAt(saved[rebuild], lastUsed[rebuild], now)' = {}
    <3>1. HeldAt(c, NeverUsed, now) = {}
      BY HeldIsControlled
    <3> QED BY <2>1, <2>3, <3>1 DEF HeldAt
  <2>11. TableFollows'
    BY <2>1, <2>10 DEF TableFollows
  <2> QED BY <2>9, <2>11
<1>8. CASE ExpireTriggers
  <2>1. /\ saved' = saved /\ pending' = pending /\ reload' = reload /\ now' = now
        /\ triggers' = triggers /\ stateOf' = stateOf /\ rebuild' = rebuild
        /\ scheduleState' = scheduleState /\ table' = table /\ pc = "expire" /\ pc' = "apply"
    BY <1>8 DEF ExpireTriggers, cfgVars
  <2>2. CASE triggers = 0
    BY <1>2, <1>8, <1>t, <2>1, <2>2 DEF ExpireTriggers, openVars, cfgVars
  <2>3. CASE triggers # 0
    <3> DEFINE after == Forgotten(lastUsed[triggers])
    <3>1. lastUsed' = [lastUsed EXCEPT ![triggers] = after]
      BY <1>8, <2>3 DEF ExpireTriggers
    <3>2. triggers \in 1 .. Len(lastUsed) /\ lastUsed[triggers] \in Uses
      BY <1>t, <2>3
    <3>3. after \in Uses
      BY <3>2 DEF Forgotten, Uses
    <3>4. HeldAt(saved[triggers], after, now) \subseteq HeldAt(saved[triggers], lastUsed[triggers], now)
      BY DEF HeldAt, Forgotten
    <3> HIDE DEF after
    <3>5. /\ lastUsed' \in Seq(Uses) /\ Len(lastUsed') = Len(saved) /\ lastUsed'[triggers] = after
          /\ \A i \in 1 .. Len(saved) : i # triggers => lastUsed'[i] = lastUsed[i]
      BY <1>t, <3>1, <3>2, <3>3
    <3>6. InOrder'
      BY <1>0, <1>t, <2>1, <3>5, OrderStays DEF cfgVars
    <3>7. triggers = rebuild => HeldAt(saved[rebuild], lastUsed'[rebuild], now) \subseteq table.open
      BY <1>0, <2>1, <3>4, <3>5 DEF TableFollows
    <3>8. TableFollows'
      BY <1>0, <2>1, <3>7 DEF TableFollows, TableOf, Controlled, HeldAt
    <3> QED BY <3>6, <3>8
  <2> QED BY <2>2, <2>3
<1>9. CASE Sweep
  <2>1. /\ saved' = saved /\ pending' = pending /\ reload' = reload /\ now' = now /\ lastUsed' = lastUsed
        /\ triggers' = triggers /\ stateOf' = stateOf /\ rebuild' = rebuild
        /\ pc = "apply" /\ pc' = "read" /\ ApplySchedule(lastUsed)
    BY <1>9 DEF Sweep, cfgVars
  <2>2. InOrder'
    BY <1>0, <1>t, <2>1, OrderStays DEF cfgVars
  <2>3. /\ stateOf = 0 => scheduleState' = {}
        /\ scheduleState' # {} => table' = TableOf(rebuild, scheduleState')
        /\ stateOf # 0 => \/ scheduleState' = scheduleState /\ table' = table
                          \/ table' = TableOf(rebuild, StateAt(saved[stateOf], lastUsed[stateOf], now))
    BY <2>1, ApplyOK
  <2>4. triggers = rebuild => HeldAt(saved[rebuild], lastUsed[rebuild], now) \subseteq table'.open
    <3> SUFFICES ASSUME triggers = rebuild
                 PROVE  HeldAt(saved[rebuild], lastUsed[rebuild], now) \subseteq table'.open
      OBVIOUS
    <3>1. stateOf = rebuild /\ stateOf # 0
      BY TriggersDecide
    <3>2. CASE table' = table
      BY <1>0, <2>1, <3>2 DEF TableFollows
    <3>3. CASE table' = TableOf(rebuild, StateAt(saved[rebuild], lastUsed[rebuild], now))
      BY <3>3, HeldIsControlled DEF TableOf
    <3> QED BY <2>3, <3>1, <3>2, <3>3
  <2>5. TableFollows'
    BY <2>1, <2>3, <2>4 DEF TableFollows, TableOf, Controlled, HeldAt
  <2> QED BY <2>2, <2>5
<1>10. CASE TimePasses
  BY <1>2, <1>10, <1>t DEF TimePasses
<1>11. CASE UNCHANGED vars
  BY <1>2, <1>11, <1>t DEF vars
<1> QED
  BY <1>1, <1>3, <1>4, <1>5, <1>6, <1>7, <1>8, <1>9, <1>10, <1>11 DEF Next, Saves


LEMMA SweepLeaves ==
  ASSUME BridgeInv, [Next]_vars, pc = "apply", pc' = "read", scheduleState' # {}
  PROVE  table' = Current'
<1>1. Sweep
  BY DEF Next, Saves, Save, Frame, ReadTimesOut, FrameFromIPSC, InstallTable, InstallRest, ExpireTriggers,
         TimePasses, vars
<1>2. /\ saved' = saved /\ now' = now /\ lastUsed' = lastUsed /\ rebuild' = rebuild /\ ApplySchedule(lastUsed)
  BY <1>1 DEF Sweep, cfgVars
<1>3. /\ stateOf = 0 => scheduleState' = {}
      /\ scheduleState' # {} => table' = TableOf(rebuild, scheduleState')
      /\ stateOf # 0 => scheduleState' = StateAt(saved[stateOf], lastUsed[stateOf], now)
  BY <1>2, ApplyOK
<1>4. stateOf # 0
  BY <1>3
<1>5. table' = [of |-> rebuild, open |-> OpenIn(saved[rebuild], lastUsed[rebuild], now)]
  BY <1>3, <1>4, RebuiltIs
<1>6. Current' = [of |-> rebuild, open |-> OpenIn(saved[rebuild], lastUsed[rebuild], now)]
  BY <1>2 DEF Current, OpenIn, StateAt, HeldAt, ScheduledAt, Controlled
<1> QED BY <1>5, <1>6

(* A bridge is open when it is asked for: a frame on a bridge that is      *)
(* opened on demand finds it open, whoever holds it and however a save is  *)
(* being installed beside it, and a sweep that finds a bridge to keep open *)
(* leaves the table the configuration in force asks for (trigger,          *)
(* applySchedule).                                                         *)
THEOREM BridgesAreOpenWhenAsked == Spec => BridgesFollow
<1>1. BridgeInv /\ [Next]_vars =>
        [\A s \in Stations :
           Trigger(s) /\ UNCHANGED <<now, saved, cfgVars>> /\ triggers = rebuild /\ pc # "install"
           => Matching(s) \subseteq table'.open]_vars
  <2> SUFFICES ASSUME BridgeInv, NEW s \in Stations, Trigger(s), triggers = rebuild, pc # "install"
               PROVE  Matching(s) \subseteq table'.open
    OBVIOUS
  <2> QED BY TriggerOK
<1>2. BridgeInv /\ [Next]_vars =>
        [pc = "apply" /\ pc' = "read" /\ scheduleState' # {} => table' = Current']_vars
  BY SweepLeaves
<1> QED BY <1>1, <1>2, BridgeInit, BridgeStep, PTL DEF Spec, BridgesFollow, FirstFrameIsCarried, SweepCorrects



-----------------------------------------------------------------------------
(* Link: a closed link is quiet.  Close puts the state machine to rest, but *)
(* a late refusal may still move it to a backoff, so the invariant has to   *)
(* say why the ticker that was awake then finds a delay that has not run    *)
(* out.                                                                    *)

Fits(l) ==
  /\ DOMAIN l = {"state", "since", "heard", "ping", "retry", "backoff", "salt", "ever"}
  /\ l.backoff \in Nat \ {0} /\ l.retry \in Int

(* At rest: nothing to do, or not yet. *)
AtRest(l) == l.state = "idle" \/ (l.state = "backoff" /\ l.retry > 0)

Closed == closer \in {"apply", "socket", "done"}

LinkInv ==
  /\ Fits(link) /\ DOMAIN out = Actors
  /\ closer # "none" => ~running
  /\ Closed => link.state \in {"idle", "backoff"}
  /\ Closed /\ ticker = "tick" => AtRest(link)

(* A retry always waits for some time (Link.fail, jittered).               *)
LEMMA JitteredWaits ==
  ASSUME NEW d \in Nat \ {0}, NEW w \in Jittered(d)
  PROVE  w \in Nat \ {0}
<1> DEFINE q == d \div 5
<1>1. q \in Nat /\ q <= d
  OBVIOUS
<1>2. CASE q = 0
  BY <1>2 DEF Jittered
<1>3. CASE q # 0
  <2>1. w \in (d - q + 1)..d
    BY <1>3 DEF Jittered
  <2> HIDE DEF q
  <2> QED BY <1>1, <2>1
<1> QED BY <1>2, <1>3

(* A link that fails waits in a backoff that stays positive (Link.fail).   *)
LEMMA FailWaits ==
  ASSUME NEW l, Fits(l), NEW w \in Jittered(l.backoff)
  PROVE  /\ Fits(fail(l, w))
         /\ fail(l, w).state = "backoff" /\ fail(l, w).retry = w /\ w \in Nat \ {0}
<1>1. w \in Nat \ {0}
  BY JitteredWaits DEF Fits
<1>2. Doubled(l.backoff) \in Nat \ {0}
  BY LinkTimes DEF Doubled, Fits
<1> QED BY <1>1, <1>2 DEF fail, Enter, Fits

(* A datagram that comes to a link that is idle or in a backoff is not     *)
(* answered, and leaves it so (Link.Handle, handleAck).                    *)
LEMMA HandleAtRest ==
  ASSUME NEW l, Fits(l), NEW m, NEW r \in Handle(l, m)
  PROVE  /\ Fits(r[1])
         /\ l.state \in {"idle", "backoff"} =>
              /\ r[2] = <<>> /\ r[1].state \in {"idle", "backoff"}
              /\ AtRest(l) => AtRest(r[1])
<1> DEFINE h == [l EXCEPT !.heard = 0]
<1>1. /\ Fits(h) /\ h.state = l.state /\ h.backoff = l.backoff /\ h.retry = l.retry
  BY DEF Fits
<1>2. CASE m.kind = "ACK"
  <2>1. r = handleAck(h, m)
    BY <1>2 DEF Handle
  <2> HIDE DEF h
  <2>2. Fits(r[1])
    BY <1>1, <2>1, LinkTimes DEF handleAck, Enter, Fits
  <2>3. ASSUME l.state \in {"idle", "backoff"} PROVE r = <<h, <<>>>>
    BY <1>1, <2>1, <2>3 DEF handleAck
  <2> QED BY <1>1, <2>2, <2>3 DEF AtRest
<1>3. CASE m.kind \in {"NAK", "MSTCL"}
  <2>1. PICK w \in Jittered(l.backoff) : r = <<fail(h, w), <<>>>>
    BY <1>3 DEF Handle
  <2> HIDE DEF h
  <2>2. /\ Fits(fail(h, w)) /\ fail(h, w).state = "backoff" /\ fail(h, w).retry = w
        /\ w \in Nat \ {0}
    BY <1>1, FailWaits
  <2> QED BY <2>1, <2>2 DEF AtRest
<1>4. CASE m.kind \notin {"ACK", "NAK", "MSTCL"}
  <2>1. r = <<h, <<>>>>
    BY <1>4 DEF Handle
  <2> QED BY <1>1, <2>1 DEF AtRest
<1> QED BY <1>2, <1>3, <1>4

(* A tick of a link at rest does nothing (Link.Tick).                      *)
LEMMA TickAtRest ==
  ASSUME NEW l, Fits(l), NEW r \in Tick(l)
  PROVE  /\ Fits(r[1])
         /\ AtRest(l) => r[1] = l /\ r[2] = <<>>
<1>1. ASSUME AtRest(l) PROVE r = <<l, <<>>>>
  BY <1>1 DEF AtRest, Tick, Fits
<1>2. ASSUME NEW w \in Jittered(l.backoff), r = <<fail(l, w), <<>>>> PROVE Fits(r[1])
  BY <1>2, FailWaits
<1>3. \/ r = <<l, <<>>>>
      \/ r = <<login(l), <<Msg("RPTL", NoSalt)>>>>
      \/ r = <<[l EXCEPT !.ping = 0], <<Msg("RPTPING", NoSalt)>>>>
      \/ \E w \in Jittered(l.backoff) : r = <<fail(l, w), <<>>>>
  BY DEF Tick
<1>4. Fits(login(l)) /\ Fits([l EXCEPT !.ping = 0])
  BY DEF login, Enter, Fits
<1> QED BY <1>1, <1>2, <1>3, <1>4

(* What every step of the link keeps, and that no goroutine is handed      *)
(* anything once the link is closed.                                       *)
LEMMA LinkStep ==
  ASSUME LinkInv, [LinkNext]_linkVars
  PROVE  /\ LinkInv'
         /\ Closed => \A a \in Actors : out'[a] = out[a] \/ out'[a] = <<>>
<1> DEFINE Quiet == Closed => \A a \in Actors : out'[a] = out[a] \/ out'[a] = <<>>
<1> SUFFICES LinkInv' /\ Quiet
  OBVIOUS
<1>0. /\ Fits(link) /\ DOMAIN out = Actors
      /\ closer # "none" => ~running
      /\ Closed => link.state \in {"idle", "backoff"}
      /\ Closed /\ ticker = "tick" => AtRest(link)
  BY DEF LinkInv
<1>1. ASSUME UNCHANGED <<link, running, ticker, closer, out>> PROVE LinkInv' /\ Quiet
  BY <1>0, <1>1 DEF LinkInv, Closed, Fits, AtRest
<1>2. ASSUME NEW a \in Actors, Write(a) PROVE DOMAIN out' = Actors /\ Quiet
  BY <1>0, <1>2 DEF Write
<1>3. CASE TickerWakes
  BY <1>0, <1>3 DEF TickerWakes, LinkInv, Closed, Fits, AtRest
<1>4. CASE TickerTicks
  <2>1. PICK r \in Tick(link) : link' = r[1] /\ out' = [out EXCEPT !["ticker"] = r[2]]
    BY <1>4 DEF TickerTicks
  <2>2. Fits(r[1]) /\ (AtRest(link) => r[1] = link /\ r[2] = <<>>)
    BY <1>0, TickAtRest
  <2>3. /\ ticker = "tick" /\ ticker' = "apply" /\ closer' = closer /\ running' = running
    BY <1>4 DEF TickerTicks
  <2>4. Closed => link' = link /\ out' = [out EXCEPT !["ticker"] = <<>>]
    BY <1>0, <2>1, <2>2, <2>3
  <2>5. DOMAIN out' = Actors /\ Fits(link')
    BY <1>0, <2>1, <2>2 DEF Fits
  <2> QED BY <1>0, <2>3, <2>4, <2>5 DEF LinkInv, Closed
<1>5. CASE TickerApplies
  BY <1>0, <1>2, <1>5 DEF TickerApplies, LinkInv, Closed, Fits, AtRest, Actors
<1>6. CASE TickerKeeps \/ TickerRedials \/ LookupFails
  BY <1>0, <1>6 DEF TickerKeeps, TickerRedials, LookupFails, LinkInv, Closed, Fits, AtRest
<1>7. ASSUME NEW m \in toUs, NEW again \in BOOLEAN, Read(m, again) PROVE LinkInv' /\ Quiet
  <2>1. UNCHANGED <<running, ticker, closer>>
    BY <1>7 DEF Read
  <2>2. CASE UNCHANGED <<link, out>>
    BY <1>1, <2>1, <2>2
  <2>3. CASE \E r \in Handle(link, m) : link' = r[1] /\ out' = [out EXCEPT !["reader"] = r[2]]
    <3>1. PICK r \in Handle(link, m) : link' = r[1] /\ out' = [out EXCEPT !["reader"] = r[2]]
      BY <2>3
    <3>2. /\ Fits(r[1])
          /\ link.state \in {"idle", "backoff"} =>
               /\ r[2] = <<>> /\ r[1].state \in {"idle", "backoff"}
               /\ AtRest(link) => AtRest(r[1])
      BY <1>0, HandleAtRest
    <3>3. DOMAIN out' = Actors /\ Fits(link')
      BY <1>0, <3>1, <3>2 DEF Fits
    <3>4. AtRest(link) /\ Closed => AtRest(link')
      BY <1>0, <3>1, <3>2
    <3>5. LinkInv'
      BY <1>0, <2>1, <3>1, <3>2, <3>3, <3>4 DEF LinkInv, Closed, AtRest
    <3> QED BY <1>0, <3>1, <3>2, <3>5
  <2> QED BY <1>7, <2>2, <2>3 DEF Read
<1>8. CASE ReaderApplies
  BY <1>0, <1>2, <1>8 DEF ReaderApplies, LinkInv, Closed, Fits, AtRest, Actors
<1>9. CASE CloseBegins
  BY <1>0, <1>9 DEF CloseBegins, LinkInv, Closed, Fits, AtRest
<1>10. CASE CloseLinks
  <2>1. CloseLink(link)[1].state = "idle" /\ Fits(CloseLink(link)[1])
    BY <1>0 DEF CloseLink, Enter, Fits
  <2> QED BY <1>0, <1>10, <2>1 DEF CloseLinks, LinkInv, Closed, Fits, AtRest
<1>11. CASE CloseApplies
  BY <1>0, <1>2, <1>11 DEF CloseApplies, LinkInv, Closed, Fits, AtRest, Actors
<1>12. CASE CloseSocket
  BY <1>0, <1>12 DEF CloseSocket, LinkInv, Closed, Fits, AtRest
<1>13. CASE Pass
  <2>1. Fits(Passed(link)) /\ Passed(link).state = link.state
    BY <1>0 DEF Passed, Fits
  <2>2. /\ ticker # "tick" /\ link' = Passed(link)
        /\ UNCHANGED <<running, ticker, closer, out>>
    BY <1>13 DEF Pass
  <2> QED BY <1>0, <2>1, <2>2 DEF LinkInv, Closed, Fits
<1>14. ASSUME NEW m \in toFar, NEW again \in BOOLEAN, FarReads(m, again) PROVE LinkInv' /\ Quiet
  BY <1>1, <1>14 DEF FarReads, clientVars
<1>15. ASSUME NEW m \in toFar, Missed(m) PROVE LinkInv' /\ Quiet
  BY <1>1, <1>15 DEF Missed
<1>16. CASE Send \/ Loses \/ FarRestarts \/ FarSpeaks \/ NameFollows
  BY <1>1, <1>16 DEF Send, Loses, FarRestarts, FarSpeaks, NameFollows, clientVars
<1>17. CASE UNCHANGED linkVars
  BY <1>1, <1>17 DEF linkVars, clientVars
<1> HIDE DEF Quiet
<1>18. CASE Delivers
  <2>1. CASE \E m \in toUs : Read(m, FALSE)
    BY <1>7, <2>1
  <2>2. CASE \E m \in toFar : FarReads(m, FALSE) \/ Missed(m)
    BY <1>14, <1>15, <2>2
  <2> QED BY <1>18, <2>1, <2>2 DEF Delivers
<1>19. CASE \/ \E m \in toUs : Read(m, TRUE)
            \/ \E m \in toFar : FarReads(m, TRUE)
  BY <1>7, <1>14, <1>19
<1>20. CASE TickerMoves \/ CloserMoves
  BY <1>3, <1>4, <1>5, <1>6, <1>10, <1>11, <1>12, <1>20 DEF TickerMoves, CloserMoves
<1>21. QED
  <2>1. CASE LinkNext
    BY <1>6, <1>8, <1>9, <1>13, <1>16, <1>18, <1>19, <1>20, <2>1 DEF LinkNext
  <2> QED BY <1>17, <2>1

(* Once Close has put an outgoing link's state machine to rest, neither    *)
(* the ticker nor the reader is handed anything more to write, whatever    *)
(* was lost, late or repeated: for any intervals and backoff, any number   *)
(* of addresses and disturbances (PeerLink.Close).                         *)
THEOREM AClosedLinkIsQuiet == LinkSpec => ClosedIsQuiet
<1>1. LinkInit => LinkInv
  BY LinkTimes DEF LinkInit, LinkInv, Fits, Closed, AtRest
<1>2. LinkInv /\ [LinkNext]_linkVars => LinkInv'
  BY LinkStep
<1>3. LinkInv /\ [LinkNext]_linkVars =>
        [(closer \in {"apply", "socket", "done"}) =>
           \A a \in Actors : out'[a] = out[a] \/ out'[a] = <<>>]_linkVars
  BY LinkStep DEF Closed
<1> QED BY <1>1, <1>2, <1>3, PTL DEF LinkSpec, ClosedIsQuiet

=============================================================================
