----------------------------- MODULE MCThrottle -----------------------------
(***************************************************************************)
(* The login throttle on its own: every host may fail, succeed or be swept *)
(* at any instant, with more hosts than the table has places.  A failure   *)
(* is recorded only for a host that is not locked, as handleKey does it.   *)
(***************************************************************************)
EXTENDS Throttle

VARIABLE tries  \* history variable: the failures of each host that proved its
                \* address, within the last Lockout and since it was last
                \* forgotten: when, and the how manieth of that instant

mcVars == <<attempts, now, tries>>

MCInit == ThrottleInit /\ tries = [h \in Hosts |-> {}]

ThisTry(h) == [at |-> now, nth |-> Cardinality({t \in tries[h] : t.at = now}) + 1]

(* A host whose entry another one's place was made from starts afresh.     *)
Noted(h, proves) ==
  [g \in Hosts |-> IF g = h THEN (IF proves THEN tries[h] \cup {ThisTry(h)} ELSE tries[h])
                   ELSE IF attempts'[g] = Untracked THEN {} ELSE tries[g]]

MCFail(h, proves) == ~Locked(h) /\ Fail(h, proves) /\ tries' = Noted(h, proves)
                     /\ UNCHANGED now

(* handleConfig asks nothing of the lockout.                               *)
MCSucceed(h) == Succeed(h) /\ tries' = [tries EXCEPT ![h] = {}]
                /\ UNCHANGED now

MCExpire == ExpireAttempts /\ UNCHANGED <<now, tries>>

MCTick ==
  /\ Tick
  /\ tries' = [h \in Hosts |-> {t \in tries[h] : t.at > now' - Lockout}]
  /\ UNCHANGED attempts

MCNext ==
  \/ \E h \in Hosts, proves \in BOOLEAN : MCFail(h, proves)
  \/ \E h \in Hosts : MCSucceed(h)
  \/ MCExpire
  \/ MCTick

MCSpec == MCInit /\ [][MCNext]_mcVars

(* The table holds well-formed entries and never more than it has places   *)
(* (throttle.go, maxTrackedSources), whoever fails and however often.      *)
TableBounded ==
  /\ attempts \in [Hosts -> Entries]
  /\ Cardinality(Tracked) <= MaxSources
  /\ \A h \in Tracked : attempts[h].last \in 1..now

(* The limit is a rate: within any Lockout a host has at most MaxFailures  *)
(* answers looked at (DefaultLoginLockout's comment), and one that proved  *)
(* its address is on record, even when the table is full of others.        *)
GuessRate ==
  \A h \in Hosts : /\ Cardinality(tries[h]) <= MaxFailures
                   /\ tries[h] # {} => attempts[h].failures > 0

(* A lockout runs its time.  It ends early only when a station at the same *)
(* host completes its login, or when every place is held by a locked host  *)
(* and another's proven failure needs one; then the one nearest its end    *)
(* goes (makeRoom).                                                        *)
LockoutHolds ==
  [][\A h \in Hosts :
       Locked(h) /\ now' < attempts[h].until /\ ~Locked(h)' =>
         \/ MCSucceed(h)
         \/ /\ Cardinality(Tracked) = MaxSources
            /\ \A g \in Tracked : Locked(g) /\ attempts[h].until <= attempts[g].until
    ]_mcVars

(* The lockout does what it is for, with more hosts than places: the table *)
(* stays bounded, nobody has more guesses looked at than the rate allows,  *)
(* and nobody's lockout is cut short by others.                            *)
ThrottleHolds == []TableBounded /\ []GuessRate /\ LockoutHolds
=============================================================================
