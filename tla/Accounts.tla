------------------------------ MODULE Accounts ------------------------------
(***************************************************************************)
(* Console accounts, sign-in and sessions: internal/auth (accounts.go,     *)
(* throttle.go, sqlrepo.go), the handlers of internal/server (login.go,    *)
(* users.go, setup.go) and `qsp adduser`, `qsp unlock`, which are other    *)
(* processes on the same database.  A request is a process: it reads the   *)
(* database, works on what it read (a password takes a third of a second   *)
(* to check) and writes.  Each statement or transaction is one step, so    *)
(* what was read may be stale when it is used, and a client that goes away *)
(* ends its request between two of them.  A sign-in's first two reads, the *)
(* account and the throttle, are one step.  A password is a name and a hash*)
(* is the password with whether it was made by weaker settings.            *)
(***************************************************************************)
EXTENDS Integers, FiniteSets

CONSTANTS Nobody,          \* no account, no token
          Usernames,           \* usernames, as NormaliseUsername folds them
          Sources,         \* throttleKey: an address, or an IPv6 /64
          Passwords,
          Requests,        \* the requests there can be at once
          Tokens,          \* session tokens there can be
          SignInFailures, SignInLockout,   \* Policy.MaxFailures, Policy.Lockout
          SessionLifetime,
          MaxThrottled,    \* maxThrottledSources
          MaxClock, MaxIds, MaxStarts   \* bounds

ASSUME AccountsAssumption ==
  /\ SignInFailures \in Nat \ {0} /\ SignInLockout \in Nat \ {0}
  /\ SessionLifetime \in Nat \ {0} /\ MaxThrottled \in Nat \ {0}
  /\ IsFiniteSet(Requests)
  /\ MaxIds \in Nat /\ 2 <= MaxIds   \* the two ids a behaviour may begin with

VARIABLES users,     \* name -> [id, pw, weak, locked], or Nobody
          sessions,  \* token -> [id, pw, expires, excused], or Nobody
          sources,   \* source -> the throttle's entry, or Nobody
          setup,     \* [token, done]: the setup page of a server with no account
          req,       \* request -> what it is doing
          clock, ids, starts,
          passed,    \* history: account id -> the password last set for it
          undone,    \* history: ids whose password an upgrade put back
          wrong      \* history: source -> wrong passwords it has sent

dbVars == <<users, sessions>>
accountVars == <<dbVars, sources, setup, req, clock, ids, starts, passed, undone, wrong>>

NoRequest == [op |-> "none"]
Administrators == {n \in Usernames : users[n] # Nobody}
Holder(id) == {n \in Administrators : users[n].id = id}
FreeTokens == {t \in Tokens : sessions[t] = Nobody}

(* SQLRepository: the row of one account, by its id, and UpdateAttempts. *)
SetUser(id, f(_)) ==
  users' = [n \in Usernames |-> IF n \in Holder(id) THEN f(users[n]) ELSE users[n]]
UpdateAttempts(id, until) == SetUser(id, LAMBDA u : [u EXCEPT !.locked = until])

(***************************************************************************)
(* throttle.go: failures are counted against the address they came from.   *)
(* `at` is when the request began: the code reads the clock once.          *)
(***************************************************************************)
Unsuspected == Nobody
Cooled(s, at) == IF sources[s].until # 0 THEN at >= sources[s].until
                 ELSE at - sources[s].first >= SignInLockout
Refused(s, at) == sources[s] # Unsuspected /\ ~Cooled(s, at) /\ sources[s].until # 0

(* What asking leaves of the entry: a lapsed one goes, a refused one is    *)
(* noted as having asked.                                                  *)
Asked(s, at) ==
  IF sources[s] = Unsuspected THEN sources
  ELSE IF Cooled(s, at) THEN [sources EXCEPT ![s] = Unsuspected]
  ELSE IF Refused(s, at) THEN [sources EXCEPT ![s].last = at]
  ELSE sources

Fresh(at) == [failures |-> 0, first |-> at, last |-> at, until |-> 0, marked |-> 0]
Tallied(e, at) ==
  [e EXCEPT !.failures = e.failures + 1, !.last = at,
            !.until = IF e.failures + 1 >= SignInFailures THEN at + SignInLockout ELSE e.until]

(* makeRoom: the lapsed go, and if none had, the one quiet for longest. *)
Suspects == {s \in Sources : sources[s] # Unsuspected}
Pruned(at) ==
  LET kept == {s \in Suspects : ~Cooled(s, at)}
      oldest == {s \in kept : \A o \in kept : sources[s].last <= sources[o].last}
      without(S) == [s \in Sources |-> IF s \in kept \ S THEN sources[s] ELSE Unsuspected]
  IN  IF Cardinality(Suspects) < MaxThrottled THEN {sources}
      ELSE IF Cardinality(kept) < MaxThrottled THEN {without({})}
      ELSE {without({s}) : s \in oldest}

(* Mutant: a failure counts against every address known. *)
NoteFailureOfAll(s, at) ==
  /\ sources' = [o \in Sources |->
        Tallied(IF sources[o] = Unsuspected THEN Fresh(at) ELSE sources[o], at)]
  /\ wrong' = [wrong EXCEPT ![s] = @ + 1]

NoteFailure(s, at) ==
  /\ IF sources[s] # Unsuspected /\ ~Cooled(s, at)
     THEN sources' = [sources EXCEPT ![s] = Tallied(@, at)]
     ELSE \E t \in Pruned(at) : sources' = [t EXCEPT ![s] = Tallied(Fresh(at), at)]
  /\ wrong' = [wrong EXCEPT ![s] = @ + 1]

ForgetSource(s) == sources' = [sources EXCEPT ![s] = Unsuspected]

(***************************************************************************)
(* A request's life.                                                       *)
(***************************************************************************)
Begins(r, record) == /\ req[r].op = "none" /\ starts < MaxStarts
                    /\ req' = [req EXCEPT ![r] = record]
                    /\ starts' = starts + 1
Step(r, record) == req' = [req EXCEPT ![r] = record]
Done(r) == Step(r, NoRequest)
Doing(r, op, pc) == req[r].op = op /\ req[r].pc = pc

(* `qsp unlock` and `qsp adduser` are processes of their own. *)
OwnProcess(r) == req[r].op = "unlock" \/ (req[r].op = "create" /\ req[r].by = "adduser")

(* The client goes away: the statement it was at is not run. *)
Abandons(r) == /\ req[r].op # "none" /\ ~OwnProcess(r)
               /\ Done(r)
               /\ UNCHANGED <<dbVars, sources, setup, clock, ids, starts, passed, undone, wrong>>

rest == <<setup, clock, ids>>

(* accounts.go Authenticate, as far as checking the password.  A refused   *)
(* source that marked this account is let through once the mark is gone.   *)
SignIn(n, s, p) == [op |-> "signin", pc |-> "verify", name |-> n, acct |-> users[n],
                    raced |-> FALSE, source |-> s, pw |-> p, at |-> clock, until |-> 0]

Arrives(r, n, s, p) ==
  LET a == users[n]
      cleared == a # Nobody /\ sources[s].marked = a.id /\ a.locked = 0
      turnedAway == Refused(s, clock) /\ ~cleared
  IN  /\ Begins(r, [SignIn(n, s, p) EXCEPT !.pc = IF turnedAway THEN "locked out" ELSE "verify"])
      /\ sources' = IF Refused(s, clock) /\ cleared
                    THEN [sources EXCEPT ![s] = Unsuspected] ELSE Asked(s, clock)
      /\ UNCHANGED <<dbVars, rest, passed, undone, wrong>>

(* The answer to one that is turned away (429). *)
LockedOut(r) ==
  /\ req[r].op \in {"signin", "change"} /\ req[r].pc = "locked out"
  /\ Done(r)
  /\ UNCHANGED <<dbVars, sources, rest, starts, passed, undone, wrong>>

(* The password checked against the hash that was read, or a decoy. *)
Right(r) == req[r].acct # Nobody /\ req[r].acct.pw = req[r].pw

SignInFails(r) ==
  LET q == req[r]
      until == sources'[q.source].until
      later == IF q.acct.locked > until THEN q.acct.locked ELSE until
  IN  /\ Doing(r, "signin", "verify") /\ ~Right(r)
      /\ NoteFailure(q.source, q.at)
      /\ IF q.acct # Nobody /\ until # 0
         THEN Step(r, [q EXCEPT !.pc = "mark", !.until = later]) ELSE Done(r)
      /\ UNCHANGED <<dbVars, rest, starts, passed, undone>>

(* The refusal is written to the account it named, so that unlock can find *)
(* it, and the throttle remembers which that was.                          *)
Marks(r) ==
  LET q == req[r]
      s == q.source
  IN  /\ Doing(r, "signin", "mark")
      /\ UpdateAttempts(q.acct.id, q.until)
      /\ sources' = IF sources[s] # Unsuspected /\ sources[s].until # 0
                    THEN [sources EXCEPT ![s].marked = q.acct.id] ELSE sources
      /\ Done(r)
      /\ UNCHANGED <<sessions, rest, starts, passed, undone, wrong>>

SignInSucceeds(r) ==
  /\ Doing(r, "signin", "verify") /\ Right(r)
  /\ ForgetSource(req[r].source)
  /\ Step(r, [req[r] EXCEPT !.pc = "record"])
  /\ UNCHANGED <<dbVars, rest, starts, passed, undone, wrong>>

(* UpdateAttempts: the mark that was read is written back. *)
RecordsSignIn(r) ==
  LET q == req[r]
      mark == IF q.at >= q.acct.locked THEN 0 ELSE q.acct.locked
  IN  /\ Doing(r, "signin", "record")
      /\ UpdateAttempts(q.acct.id, mark)
      /\ Step(r, [q EXCEPT !.pc = IF q.acct.weak THEN "upgrade" ELSE "open"])
      /\ UNCHANGED <<sessions, sources, rest, starts, passed, undone, wrong>>

(* UpgradeHash: the password that signed in, under today's settings. *)
Upgrades(r) ==
  LET q == req[r] IN
  /\ Doing(r, "signin", "upgrade")
  /\ SetUser(q.acct.id, LAMBDA u : [u EXCEPT !.pw = q.pw, !.weak = FALSE])
  /\ undone' = IF passed[q.acct.id] # q.pw THEN undone \cup {q.acct.id} ELSE undone
  /\ Step(r, [q EXCEPT !.pc = "open"])
  /\ UNCHANGED <<sessions, sources, rest, starts, passed, wrong>>

(* CreateSession: the account must still be there (the foreign key). *)
OpensSession(r) ==
  LET q == req[r] IN
  /\ Doing(r, "signin", "open")
  /\ IF Holder(q.acct.id) = {} THEN UNCHANGED sessions
     ELSE \E t \in FreeTokens :
            sessions' = [sessions EXCEPT ![t] =
               [id |-> q.acct.id, pw |-> q.pw, expires |-> q.at + SessionLifetime,
                excused |-> q.raced]]
  /\ Done(r)
  /\ UNCHANGED <<users, sources, rest, starts, passed, undone, wrong>>

(* Session, and requireSession (login.go), which every administrator's     *)
(* request passes first.  An expired session is removed when presented.    *)
ValidSession(t) == sessions[t] # Nobody /\ clock < sessions[t].expires
SignedIn(t) == ValidSession(t)
Ending(T) == sessions' = [t \in Tokens |-> IF t \in T THEN Nobody ELSE sessions[t]]

ExpiredPresented(t) ==
  /\ sessions[t] # Nobody /\ ~ValidSession(t)
  /\ Ending({t})
  /\ UNCHANGED <<users, sources, setup, req, clock, ids, starts, passed, undone, wrong>>
SweepSessions ==
  /\ \E t \in Tokens : sessions[t] # Nobody /\ ~ValidSession(t)
  /\ Ending({t \in Tokens : sessions[t] # Nobody /\ ~ValidSession(t)})
  /\ UNCHANGED <<users, sources, setup, req, clock, ids, starts, passed, undone, wrong>>
Logout(t) ==
  /\ sessions[t] # Nobody
  /\ Ending({t})
  /\ UNCHANGED <<users, sources, setup, req, clock, ids, starts, passed, undone, wrong>>

(* Mutant: the sessions of the old password stay open. *)
SetPasswordOnly(r, id, p, keep) ==
  /\ SetUser(id, LAMBDA u : [u EXCEPT !.pw = p, !.weak = FALSE, !.locked = 0])
  /\ passed' = [passed EXCEPT ![id] = p]
  /\ undone' = undone \ {id}
  /\ Done(r)
  /\ UNCHANGED sessions

(* SetPassword, one transaction: the hash, the lockout and every session   *)
(* of the account but the one that asked.  Sign-ins of the account that are*)
(* under way are noted.                                                    *)
SetPassword(r, id, p, keep) ==
  /\ SetUser(id, LAMBDA u : [u EXCEPT !.pw = p, !.weak = FALSE, !.locked = 0])
  /\ sessions' = [t \in Tokens |->
        IF sessions[t] = Nobody \/ sessions[t].id # id THEN sessions[t]
        ELSE IF t = keep THEN [sessions[t] EXCEPT !.excused = TRUE] ELSE Nobody]
  /\ passed' = [passed EXCEPT ![id] = p]
  /\ undone' = undone \ {id}
  /\ req' = [o \in Requests |->
        IF o = r THEN NoRequest
        ELSE IF req[o].op = "signin" /\ req[o].acct # Nobody /\ req[o].acct.id = id
        THEN [req[o] EXCEPT !.raced = TRUE] ELSE req[o]]

(* ChangePassword, by somebody signed in who proves the current one. *)
AsksChange(r, t, s, p, q) ==
  /\ SignedIn(t)
  /\ \E n \in Holder(sessions[t].id) :
       Begins(r, [op |-> "change", pc |-> IF Refused(s, clock) THEN "locked out" ELSE "verify",
                  name |-> n, acct |-> users[n],
                  source |-> s, pw |-> p, at |-> clock, to |-> q, keep |-> t])
  /\ sources' = Asked(s, clock)
  /\ UNCHANGED <<dbVars, rest, passed, undone, wrong>>
ChangeFails(r) ==
  /\ Doing(r, "change", "verify") /\ ~Right(r)
  /\ NoteFailure(req[r].source, req[r].at)
  /\ Done(r)
  /\ UNCHANGED <<dbVars, rest, starts, passed, undone>>
ChangeVerified(r) ==
  /\ Doing(r, "change", "verify") /\ Right(r)
  /\ IF req[r].to = req[r].pw THEN Done(r) ELSE Step(r, [req[r] EXCEPT !.pc = "set"])
  /\ UNCHANGED <<dbVars, sources, rest, starts, passed, undone, wrong>>
Changes(r) ==
  /\ Doing(r, "change", "set")
  /\ SetPassword(r, req[r].acct.id, req[r].to, req[r].keep)
  /\ UNCHANGED <<sources, rest, starts, wrong>>

(* users.go handleResetPassword: a new password for any account; the       *)
(* administrator's own session is kept when the account is their own.      *)
AsksReset(r, t, n, p) ==
  /\ SignedIn(t) /\ users[n] # Nobody
  /\ Begins(r, [op |-> "reset", pc |-> "set", name |-> n, acct |-> users[n],
               to |-> p, keep |-> IF sessions[t].id = users[n].id THEN t ELSE Nobody])
  /\ UNCHANGED <<dbVars, sources, rest, passed, undone, wrong>>
Resets(r) ==
  /\ Doing(r, "reset", "set")
  /\ SetPassword(r, req[r].acct.id, req[r].to, req[r].keep)
  /\ UNCHANGED <<sources, rest, starts, wrong>>

(* RemoveAccount: the accounts are counted, then one is looked up and      *)
(* deleted with its sessions.                                              *)
AsksRemove(r, t, n) ==
  /\ SignedIn(t) /\ Cardinality(Administrators) > 1
  /\ Begins(r, [op |-> "remove", pc |-> "delete", name |-> n])
  /\ UNCHANGED <<dbVars, sources, rest, passed, undone, wrong>>
Removes(r) ==
  LET n == req[r].name IN
  /\ Doing(r, "remove", "delete")
  /\ IF users[n] = Nobody THEN UNCHANGED dbVars
     ELSE /\ users' = [users EXCEPT ![n] = Nobody]
          /\ Ending({t \in Tokens : sessions[t] # Nobody /\ sessions[t].id = users[n].id})
  /\ Done(r)
  /\ UNCHANGED <<sources, rest, starts, passed, undone, wrong>>

(* CreateAccount: a name nobody holds when it is looked up, and still      *)
(* nobody's when it is inserted (the unique index).                        *)
CreateAccount(r, n, p, by) ==
  /\ users[n] = Nobody
  /\ Begins(r, [op |-> "create", pc |-> "insert", name |-> n, to |-> p, by |-> by])
  /\ UNCHANGED <<dbVars, sources, rest, passed, undone, wrong>>

(* It is asked for by an administrator, by `qsp adduser`, or by the setup  *)
(* page with the token the server printed.                                 *)
AsksCreate(r, t, n, p) == SignedIn(t) /\ CreateAccount(r, n, p, "administrator")
AddUser(r, n, p) == CreateAccount(r, n, p, "adduser")
SetsUp(r, n, p) == /\ ~setup.done /\ setup.token /\ Administrators = {}
                   /\ CreateAccount(r, n, p, "setup")
Creates(r) ==
  LET n == req[r].name IN
  /\ Doing(r, "create", "insert") /\ ids < MaxIds
  /\ IF users[n] # Nobody THEN UNCHANGED <<users, ids, passed, setup>>
     ELSE /\ ids' = ids + 1
          /\ users' = [users EXCEPT ![n] = [id |-> ids + 1, pw |-> req[r].to,
                                            weak |-> FALSE, locked |-> 0]]
          /\ passed' = [passed EXCEPT ![ids + 1] = req[r].to]
          /\ setup' = IF req[r].by = "setup" THEN [token |-> FALSE, done |-> TRUE] ELSE setup
  /\ Done(r)
  /\ UNCHANGED <<sessions, sources, clock, starts, undone, wrong>>

(* setup.go setupNeeded: the first request that finds an account closes the*)
(* page; PrepareSetup prints a token at the start of a server with none.   *)
SetupNoticed ==
  /\ ~setup.done /\ Administrators # {}
  /\ setup' = [token |-> FALSE, done |-> TRUE]
  /\ UNCHANGED <<dbVars, sources, req, clock, ids, starts, passed, undone, wrong>>

(* `qsp unlock`, by its own process. *)
AsksUnlock(r, n) ==
  /\ users[n] # Nobody
  /\ Begins(r, [op |-> "unlock", pc |-> "clear", name |-> n, acct |-> users[n]])
  /\ UNCHANGED <<dbVars, sources, rest, passed, undone, wrong>>
Unlocks(r) ==
  /\ Doing(r, "unlock", "clear")
  /\ UpdateAttempts(req[r].acct.id, 0)
  /\ Done(r)
  /\ UNCHANGED <<sessions, sources, rest, starts, passed, undone, wrong>>

(* The daemon restarts: what was in memory is gone, the database is not. *)
DaemonRestarts ==
  /\ sources' = [s \in Sources |-> Unsuspected]
  /\ req' = [r \in Requests |-> IF OwnProcess(r) THEN req[r] ELSE NoRequest]
  /\ setup' = [token |-> Administrators = {}, done |-> Administrators # {}]
  /\ wrong' = [s \in Sources |-> 0]
  /\ UNCHANGED <<dbVars, clock, ids, starts, passed, undone>>

ClockTicks == /\ clock < MaxClock /\ clock' = clock + 1
         /\ UNCHANGED <<dbVars, sources, setup, req, ids, starts, passed, undone, wrong>>

AccountsInit ==
  /\ users \in [Usernames -> {Nobody} \cup [id : 1..2, pw : Passwords, weak : BOOLEAN, locked : {0}]]
  /\ \A m, n \in Administrators : users[m].id = users[n].id => m = n
  /\ sessions = [t \in Tokens |-> Nobody]
  /\ sources = [s \in Sources |-> Unsuspected]
  /\ setup = [token |-> Administrators = {}, done |-> Administrators # {}]
  /\ req = [r \in Requests |-> NoRequest]
  /\ clock = 1 /\ starts = 0
  /\ ids = Cardinality(Administrators)
  /\ \A n \in Administrators : users[n].id <= ids
  /\ passed = [i \in 1..MaxIds |-> IF Holder(i) = {} THEN Nobody
                                   ELSE users[CHOOSE n \in Holder(i) : TRUE].pw]
  /\ undone = {}
  /\ wrong = [s \in Sources |-> 0]

(* Guessing and being let in again: sign-ins from several addresses, and   *)
(* `qsp unlock`.                                                           *)
SigningIn ==
  \/ \E r \in Requests :
       \/ \E n \in Usernames, s \in Sources, p \in Passwords : Arrives(r, n, s, p)
       \/ \E n \in Usernames : AsksUnlock(r, n)
       \/ LockedOut(r) \/ SignInFails(r) \/ Marks(r) \/ SignInSucceeds(r)
       \/ RecordsSignIn(r) \/ Upgrades(r) \/ OpensSession(r) \/ Unlocks(r) \/ Abandons(r)
  \/ ClockTicks

(* What administrators do to accounts, while people sign in to them. *)
Administering ==
  \E r \in Requests :
    \/ \E t \in Tokens, s \in Sources, p, q \in Passwords : AsksChange(r, t, s, p, q)
    \/ \E t \in Tokens, n \in Usernames, p \in Passwords : AsksReset(r, t, n, p)
    \/ \E t \in Tokens, n \in Usernames : AsksRemove(r, t, n)
    \/ \E n \in Usernames, p \in Passwords :
         AddUser(r, n, p) \/ SetsUp(r, n, p) \/ \E t \in Tokens : AsksCreate(r, t, n, p)
    \/ ChangeFails(r) \/ ChangeVerified(r) \/ Changes(r) \/ Resets(r)
    \/ Removes(r) \/ Creates(r)

Ageing ==
  \/ \E t \in Tokens : ExpiredPresented(t) \/ Logout(t)
  \/ SweepSessions \/ SetupNoticed \/ DaemonRestarts

(***************************************************************************)
(* Properties.                                                             *)
(***************************************************************************)
(* "Nobody else is affected" (login.go): an address is turned away only    *)
(* after it has itself sent SignInFailures wrong passwords since the daemon*)
(* started, whoever else guesses, at whichever account, and whichever      *)
(* entries were pushed out of the full table.                              *)
LockoutIsOwn ==
  \A r \in Requests :
    req[r].op \in {"signin", "change"} /\ req[r].pc = "locked out" =>
      wrong[req[r].source] >= SignInFailures

(* Passwords are checked after the throttle was asked, so those that were  *)
(* waiting when the limit was reached are still checked: a source has its  *)
(* limit and the requests under way, and no more, checked in one lockout.  *)
GuessesBounded ==
  \A s \in Suspects : sources[s].failures < SignInFailures + Cardinality(Requests)

(* Guessing is slowed for whoever guesses, and for nobody else.            *)
SignInIsGuarded == LockoutIsOwn /\ GuessesBounded

(* A new password signs everybody else out (users.go): no session is held  *)
(* on a password the account no longer has, but the one that changed it,   *)
(* one whose sign-in was under way while it was changed, and those of an   *)
(* account whose old password a sign-in under way put back (UpgradeHash).  *)
OldPasswordSignedOut ==
  \A t \in Tokens : sessions[t] # Nobody =>
    \/ sessions[t].pw = passed[sessions[t].id]
    \/ sessions[t].excused
    \/ sessions[t].id \in undone
=============================================================================
