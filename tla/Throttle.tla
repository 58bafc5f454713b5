------------------------------ MODULE Throttle ------------------------------
(***************************************************************************)
(* The table of failed logins of internal/peers/throttle.go, as the Master *)
(* uses it: who is being ignored, what a failure and a success do to the   *)
(* table, who is pushed out of a full one.  The table has an entry for a   *)
(* host, never for a repeater ID or a port.  Its log texts (first, reasons,*)
(* warned) are left out.                                                   *)
(***************************************************************************)
EXTENDS Integers, FiniteSets

CONSTANTS Hosts,        \* netip.Addr: source addresses without their port
          MaxFailures,  \* throttle.max
          Lockout,      \* throttle.lockout
          Window,       \* loginFailureWindow
          MaxSources,   \* maxTrackedSources
          MaxTime       \* bound: the last instant of a behaviour

(* DefaultLoginLockout (5 minutes) is within loginFailureWindow (15).      *)
ASSUME ThrottleAssumption ==
  /\ IsFiniteSet(Hosts)
  /\ MaxFailures \in Nat \ {0}
  /\ Lockout \in Nat \ {0}
  /\ Window \in Nat /\ Lockout <= Window
  /\ MaxSources \in Nat \ {0}
  /\ MaxTime \in Nat \ {0}

VARIABLES
  attempts,  \* throttle.attempts: an entry for each host, or Untracked
  now        \* Master.cfg.Now(); 0 is Go's zero time

(* No entry in the map.  A real entry's last is never the zero time.       *)
Untracked == [failures |-> 0, last |-> 0, until |-> 0]

Entries == [failures : Nat, last : Nat, until : Nat]

Tracked == {h \in Hosts : attempts[h] # Untracked}

ThrottleInit == attempts = [h \in Hosts |-> Untracked] /\ now = 1

Tick == now < MaxTime /\ now' = now + 1

(* throttle.locked                                                         *)
Locked(h) == now < attempts[h].until

(* throttle.expire: neither locked nor recent.                             *)
Lapsed == {h \in Tracked : ~Locked(h) /\ now - attempts[h].last > Window}

Forgetting(H) == [h \in Hosts |-> IF h \in H THEN Untracked ELSE attempts[h]]

ExpireAttempts == attempts' = Forgetting(Lapsed)

Quietest(H) == {h \in H : \A g \in H : attempts[h].last <= attempts[g].last}

SoonestFree(H) == {h \in H : \A g \in H : attempts[h].until <= attempts[g].until}

(* Mutant: locked hosts are as good a victim as any.                       *)
VictimsAny(H) == Quietest(H)

(* makeRoom's choice among the hosts H that have not lapsed.  The map is   *)
(* iterated in no particular order: a tie may go either way.               *)
Victims(H) ==
  LET unproven == {h \in H : attempts[h].failures = 0}
      unlocked == {h \in H \ unproven : ~Locked(h)}
  IN  IF unproven # {} THEN Quietest(unproven)
      ELSE IF unlocked # {} THEN Quietest(unlocked)
      ELSE SoonestFree(H)

(* makeRoom for a failure that proves its address: the tables it may leave.*)
RoomMade ==
  LET kept == Tracked \ Lapsed
  IN  IF Cardinality(kept) < MaxSources THEN {Forgetting(Lapsed)}
      ELSE {Forgetting(Lapsed \cup {v}) : v \in Victims(kept)}

(* fail's entry: a run that has gone quiet starts again; only a failure    *)
(* that proves its address is counted, and may lock.                       *)
Extended(a, proves) ==
  LET run == IF now - a.last > Window THEN Untracked ELSE a
      n == run.failures + (IF proves THEN 1 ELSE 0)
  IN  [failures |-> n, last |-> now,
       until |-> IF proves /\ n >= MaxFailures THEN now + Lockout ELSE run.until]

Counted(table, h, proves) == [table EXCEPT ![h] = Extended(table[h], proves)]

(* throttle.fail: a wrong password or an unknown ID answers a challenge    *)
(* sent to the host, so it proves its address; a digest nobody asked for,  *)
(* or one from elsewhere, does not, and is turned away from a full table.  *)
Fail(h, proves) ==
  LET hasPlace == attempts[h] # Untracked \/ Cardinality(Tracked) < MaxSources
  IN  \/ hasPlace /\ attempts' = Counted(attempts, h, proves)
      \/ /\ ~hasPlace /\ proves
         /\ \E t \in RoomMade : attempts' = Counted(t, h, proves)
      \/ ~hasPlace /\ ~proves /\ UNCHANGED attempts

(* throttle.succeed                                                        *)
Succeed(h) == attempts' = Forgetting({h})
=============================================================================
