------------------------------ MODULE Bridging ------------------------------
(***************************************************************************)
(* Which bridges are open (internal/peers: trigger, applySchedule,         *)
(* applyPending; internal/routing: Triggers; cmd/qsp: bridgeState,         *)
(* buildTable, applyToListener): a bridge follows the calendar, opens on   *)
(* demand and closes itself, or is simply on, and a saved configuration    *)
(* replaces all of it while people talk.                                   *)
(*                                                                         *)
(* Three goroutines meet here.  The console's saves hand over a reload; the*)
(* DMR listener handles its frames and sweeps; the Motorola listener       *)
(* handles its frames at any moment.  schedMu makes each of their steps    *)
(* one step, but installing a reload takes two and a sweep takes two.      *)
(*                                                                         *)
(* The closures ScheduleState and Rebuild, and the object Triggers, belong *)
(* to the configuration they were built from and are named by its number.  *)
(***************************************************************************)
EXTENDS Scheduler, Sequences

CONSTANTS Configs,    \* the configurations an operator may save
          HangTime,
          MaxTime,    \* bound: the last instant of a behaviour
          MaxSaves    \* bound: saves in a behaviour

Hotspot  == "hotspot"   \* heard by the DMR listener
Repeater == "repeater"  \* heard by the Motorola listener
Stations == {Hotspot, Repeater}

Triggers == [bridge : Bridges, on : SUBSET Stations, enabled : BOOLEAN]

ASSUME BridgingAssumption ==
  /\ Configs \subseteq [windows : SUBSET Windows, triggers : SUBSET Triggers,
                        on : SUBSET Bridges]
  /\ HangTime \in Nat

VARIABLES
  now,
  pc,             \* where the loop of Listener.serve is
  saved,          \* the configurations there have been
  lastUsed,       \* Triggers.lastUsed, of the triggers of each configuration
  pending,        \* Listener.pending: a configuration and its table, or none
  reload,         \* applyPending's r
  triggers,       \* Listener.cfg.Triggers, 0 when nil
  stateOf,        \* Listener.cfg.ScheduleState, 0 when nil
  rebuild,        \* Listener.cfg.Rebuild
  scheduleState,  \* Listener.scheduleState
  table           \* Core.table: the configuration it is of, and what is open

cfgVars == <<triggers, stateOf, rebuild>>
openVars == <<lastUsed, scheduleState, table>>
vars == <<now, pc, saved, pending, reload, cfgVars, openVars>>

Unused == -1
None   == [of |-> 0, open |-> {}]

NeverUsed == [b \in Bridges |-> Unused]

HasTriggers(c) == c.triggers # {}
HasSchedule(c) == c.windows # {}

(* Triggers.ActiveAt, of the triggers of a configuration.                  *)
HeldAt(c, used, t) ==
  {b \in Bridges : /\ used[b] # Unused /\ t - used[b] <= HangTime
                   /\ \E g \in c.triggers : g.enabled /\ g.bridge = b}

(* bridgeState: either mechanism is enough.                                *)
StateAt(c, used, t) == ScheduledAt(c.windows, t) \cup HeldAt(c, used, t)

Controlled(c) == {w.bridge : w \in c.windows} \cup {g.bridge : g \in c.triggers}

(* buildTable: one mechanism decides each bridge.                          *)
OpenIn(c, used, t) == (StateAt(c, used, t) \cap Controlled(c)) \cup (c.on \ Controlled(c))

Init ==
  /\ now = 0 /\ pc = "read"
  /\ \E c \in Configs :
       /\ saved = <<c>>
       /\ triggers = IF HasTriggers(c) THEN 1 ELSE 0
       /\ stateOf = IF HasTriggers(c) \/ HasSchedule(c) THEN 1 ELSE 0
       /\ table = [of |-> 1, open |-> OpenIn(c, NeverUsed, now)]
  /\ lastUsed = <<NeverUsed>>
  /\ pending = None /\ reload = None /\ rebuild = 1 /\ scheduleState = {}

(* configManager.Save and applyToListener, up to Listener.Apply.           *)
Save(c) ==
  /\ Len(saved) <= MaxSaves
  /\ saved' = Append(saved, c)
  /\ lastUsed' = Append(lastUsed, NeverUsed)
  /\ pending' = [of |-> Len(saved) + 1, open |-> OpenIn(c, NeverUsed, now)]
  /\ UNCHANGED <<now, pc, reload, cfgVars, scheduleState, table>>
-----------------------------------------------------------------------------
(* Mutant: as many bridges open as before is taken for no change.          *)
SameSize(a, b) == Cardinality(a) = Cardinality(b)

SameState(a, b) == a = b

(* applyScheduleLocked: what should be open, and a new table if that       *)
(* changed.                                                                *)
ApplySchedule(used) ==
  \/ /\ stateOf = 0
     /\ UNCHANGED <<scheduleState, table>>
  \/ /\ stateOf # 0
     /\ LET want == StateAt(saved[stateOf], used[stateOf], now)
        IN  IF SameState(scheduleState, want) THEN UNCHANGED <<scheduleState, table>>
            ELSE /\ scheduleState' = want
                 /\ table' = [of |-> rebuild, open |-> OpenIn(saved[rebuild], used[rebuild], now)]

(* Triggers.Observe: the bridges a station's transmission is on, and those *)
(* of them that it opens.                                                  *)
Matching(s) == {g.bridge : g \in {h \in saved[triggers].triggers : h.enabled /\ s \in h.on}}

Opened(s) == {b \in Matching(s) : \/ lastUsed[triggers][b] = Unused
                                  \/ now - lastUsed[triggers][b] > HangTime}

(* trigger, before the frame is routed.                                    *)
Trigger(s) ==
  \/ triggers = 0 /\ UNCHANGED openVars
  \/ /\ triggers # 0
     /\ lastUsed' = [lastUsed EXCEPT ![triggers] =
                        [b \in Bridges |-> IF b \in Matching(s) THEN now ELSE @[b]]]
     /\ IF Opened(s) = {} THEN UNCHANGED <<scheduleState, table>>
        ELSE ApplySchedule(lastUsed')

(* The read in serve: a frame of a hotspot, or the deadline.               *)
Frame ==
  /\ pc = "read" /\ pc' = "pending"
  /\ Trigger(Hotspot)
  /\ UNCHANGED <<now, saved, pending, reload, cfgVars>>

ReadTimesOut ==
  /\ pc = "read" /\ pc' = "pending"
  /\ UNCHANGED <<now, saved, pending, reload, cfgVars, openVars>>

(* A frame of a Motorola repeater, on that listener's goroutine            *)
(* (DeliverFromIPSC).                                                      *)
FrameFromIPSC ==
  /\ Trigger(Repeater)
  /\ UNCHANGED <<now, pc, saved, pending, reload, cfgVars>>

(* applyPending takes the reload and installs its table ...                *)
InstallTable ==
  /\ pc = "pending"
  /\ reload' = pending /\ pending' = None
  /\ IF pending = None THEN pc' = "expire" /\ UNCHANGED table
     ELSE pc' = "install" /\ table' = pending
  /\ UNCHANGED <<now, saved, lastUsed, cfgVars, scheduleState>>

(* Mutant: the pending reload is cleared when it has been installed.       *)
InstallRestClears ==
  /\ pc = "install" /\ pc' = "expire"
  /\ LET c == saved[reload.of]
     IN  /\ triggers' = IF HasTriggers(c) THEN reload.of ELSE triggers
         /\ stateOf' = IF HasTriggers(c) \/ HasSchedule(c) THEN reload.of ELSE stateOf
         /\ rebuild' = reload.of
  /\ scheduleState' = {}
  /\ reload' = None /\ pending' = None
  /\ UNCHANGED <<now, saved, lastUsed, table>>

(* ... and, under schedMu, what it is decided by.  What the new            *)
(* configuration has none of is left alone.                                *)
InstallRest ==
  /\ pc = "install" /\ pc' = "expire"
  /\ LET c == saved[reload.of]
     IN  /\ triggers' = IF HasTriggers(c) THEN reload.of ELSE triggers
         /\ stateOf' = IF HasTriggers(c) \/ HasSchedule(c) THEN reload.of ELSE stateOf
         /\ rebuild' = reload.of
  /\ scheduleState' = {}
  /\ reload' = None
  /\ UNCHANGED <<now, saved, pending, lastUsed, table>>

Forgotten(used) == [b \in Bridges |-> IF used[b] # Unused /\ now - used[b] > HangTime
                                      THEN Unused ELSE used[b]]

(* The sweep: expireTriggers and then applySchedule, each under schedMu.   *)
ExpireTriggers ==
  /\ pc = "expire" /\ pc' = "apply"
  /\ lastUsed' = IF triggers = 0 THEN lastUsed
                 ELSE [lastUsed EXCEPT ![triggers] = Forgotten(@)]
  /\ UNCHANGED <<now, saved, pending, reload, cfgVars, scheduleState, table>>

Sweep ==
  /\ pc = "apply" /\ pc' = "read"
  /\ ApplySchedule(lastUsed)
  /\ UNCHANGED <<now, saved, pending, reload, cfgVars, lastUsed>>

TimePasses ==
  /\ now < MaxTime /\ now' = now + 1
  /\ UNCHANGED <<pc, saved, pending, reload, cfgVars, openVars>>

Saves == \E c \in Configs : Save(c)

Next == Saves \/ Frame \/ ReadTimesOut \/ FrameFromIPSC \/ InstallTable \/ InstallRest
        \/ ExpireTriggers \/ Sweep \/ TimePasses

Spec == Init /\ [][Next]_vars
-----------------------------------------------------------------------------
(* A window is open only within its duration of a moment at which the      *)
(* clock on the wall read its start, and always when it read it just once, *)
(* across midnight and across a change of the clock (Schedule.ActiveAt).   *)
ScheduleIsKept ==
  \A w \in UNION {saved[v].windows : v \in DOMAIN saved} :
    /\ OpenAt(w, now) => Starts(w, now) # {}
    /\ w.enabled /\ (\E s \in Starts(w, now) : Again(w, s) = {}) => OpenAt(w, now)

(* "the frame which opened a bridge is itself relayed" (trigger): when the *)
(* triggers in force are the configuration's own, a frame on a bridge that *)
(* is opened on demand finds it open, whether this frame opened it, it was *)
(* about to close, or the calendar had closed it.                          *)
FirstFrameIsCarried ==
  [][\A s \in Stations :
       Trigger(s) /\ UNCHANGED <<now, saved, cfgVars>> /\ triggers = rebuild /\ pc # "install"
       => Matching(s) \subseteq table'.open]_vars

(* The table the configuration in force asks for at this instant.          *)
Current == [of |-> rebuild, open |-> OpenIn(saved[rebuild], lastUsed[rebuild], now)]

(* A sweep that finds a bridge to keep open leaves the table the           *)
(* configuration in force asks for, whatever saves, Motorola frames and    *)
(* late sweeps went before (applySchedule).                                *)
SweepCorrects == [][pc = "apply" /\ pc' = "read" /\ scheduleState' # {} => table' = Current']_vars

(* A bridge is open when it is asked for: by a frame, at that frame, and   *)
(* by the calendar or a call, after each sweep that finds one.             *)
BridgesFollow == FirstFrameIsCarried /\ SweepCorrects

(* "Two saves a half-second apart should leave the instance running the    *)
(* later one" (Apply): when nothing waits to be installed, the last save   *)
(* is in force, also when it came while another was being installed.       *)
LastSaveWins == pending = None /\ reload = None => rebuild = Len(saved)
=============================================================================
