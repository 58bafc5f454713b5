------------------------------ MODULE Registry ------------------------------
(***************************************************************************)
(* The Homebrew master's registry of peers (internal/peers: Master): the   *)
(* login handshake RPTL / RPTK / RPTC, keepalives, closing, bans and       *)
(* expiry, with the login throttle it consults.                            *)
(*                                                                         *)
(* One goroutine owns the Master (Listener.serve).  Each turn of its loop  *)
(* reads at most one datagram ("read"), then installs a configuration that *)
(* is waiting and sweeps ("sweep").  The network may deliver any message   *)
(* from any address, late, twice or out of order: a handler's inputs are   *)
(* quantified over.  A handler that only answers or drops leaves the       *)
(* registry alone and is a Quiet turn.                                     *)
(*                                                                         *)
(* A salt is the serial number of the challenge (randomSalt's collisions   *)
(* are left out), 0 the cleared one.  An answer to the challenge checked   *)
(* is right when its digest was computed over that very salt with the      *)
(* password the server has for the ID, and wrong otherwise; either may     *)
(* arrive at any time, so both are possible wherever one is checked.       *)
(* MasterConfig.Password reads a file the operator may edit at any time:   *)
(* whether it knows an ID is an input of the handler, a login for an ID it *)
(* does not know is a Quiet turn, and an answer for one a wrong answer.    *)
(***************************************************************************)
EXTENDS Throttle, Sequences, TLC

CONSTANTS Ids,           \* hbp.RepeaterID, the valid ones
          Ports,         \* source ports
          MaxPeers,      \* MasterConfig.MaxPeers
          MaxHalfOpen,   \* maxHalfOpen
          MaxRelogins,   \* maxRelogins
          LoginTimeout,  \* MasterConfig.LoginTimeout
          PeerTimeout,   \* MasterConfig.PeerTimeout
          MaxSalts,      \* bound: challenges issued in a behaviour
          MaxEdits       \* bound: times the operator edits the registration list

ASSUME RegistryAssumption ==
  /\ IsFiniteSet(Ids)
  /\ MaxPeers \in Nat \ {0}
  /\ MaxHalfOpen \in Nat \ {0}
  /\ MaxRelogins \in Nat \ {0}
  /\ LoginTimeout \in Nat /\ PeerTimeout \in Nat
  /\ MaxSalts \in Nat /\ MaxEdits \in Nat

VARIABLES
  peers,         \* Master.peers
  waiting,       \* Master.waiting
  halfOpen,      \* Master.halfOpen, in the order of its challenges
  registration,  \* Master.cfg.Access.Registration: the IDs it allows
  evicted,       \* Master.evicted: peers whose departure is still to be told
  phase,         \* where Listener.serve is in its loop
  edits,         \* how often the operator has edited the list
  issued,        \* history variable: who each challenge was sent to, and how
                 \* often its answer was accepted
  proof,         \* history variable: the challenge each registration answered
  announced      \* history variable: peers last announced as connected

entryVars == <<peers, waiting, halfOpen>>
operVars  == <<registration, evicted, edits>>
histVars  == <<issued, proof, announced>>
vars == <<attempts, now, entryVars, operVars, phase, histVars>>

Addrs == Hosts \X Ports
Host(addr) == addr[1]
NoAddr == <<>>

NoPeer == [state |-> "none", addr |-> NoAddr, salt |-> 0, first |-> 0,
           heard |-> 0, relogins |-> {}]

Init ==
  /\ ThrottleInit
  /\ peers = [id \in Ids |-> NoPeer]
  /\ waiting = 0 /\ halfOpen = {}
  /\ registration = Ids
  /\ evicted = {} /\ edits = 0
  /\ phase = "read"
  /\ issued = <<>>
  /\ proof = [id \in Ids |-> 0]
  /\ announced = {}

-----------------------------------------------------------------------------
(* Views of the registry and the helpers that keep it.                     *)

InState(S)  == {id \in Ids : peers[id].state \in S}
Challenged  == InState({"challenged"})
Configured  == InState({"configured"})
Working     == InState({"authenticated", "configured"})
Known       == InState({"challenged", "authenticated", "configured"})

(* Master.stations                                                         *)
Stations == Cardinality(Known) - waiting

(* The test of evictHalfOpen and tidyHalfOpen: still the login that was    *)
(* listed, and still waiting.                                              *)
StillWaiting(h) == h.id \in Challenged /\ peers[h.id].first = h.began

Listed(id) == \E h \in halfOpen : h.id = id /\ StillWaiting(h)

(* The first of a list kept in the order its challenges were issued.       *)
Oldest(S) == {r \in S : \A q \in S : r.salt <= q.salt}

(* Master.forget, of each of S.                                            *)
Forget(S) ==
  /\ peers' = [id \in Ids |-> IF id \in S THEN NoPeer ELSE peers[id]]
  /\ waiting' = waiting - Cardinality(S \cap Challenged)
  /\ proof' = [id \in Ids |-> IF id \in S THEN 0 ELSE proof[id]]

(* Mutant: a failed login takes the others for the same ID down with it.   *)
AbandonAll(id) == Forget({id})

(* Master.abandon: the oldest login beside a failed one takes its place.   *)
Abandon(id) ==
  LET p == peers[id]
  IN  \/ p.relogins = {} /\ Forget({id})
      \/ /\ \E next \in Oldest(p.relogins) :
              peers' = [peers EXCEPT ![id] =
                [state |-> p.state, addr |-> next.addr, salt |-> next.salt,
                 first |-> p.first, heard |-> next.at, relogins |-> p.relogins \ {next}]]
         /\ UNCHANGED <<waiting, proof>>

(* Master.evictHalfOpen: the login that goes, if one is still waiting, and *)
(* what is left of halfOpen: all that was listed before it goes too.       *)
Evicted == Oldest({h \in halfOpen : StillWaiting(h)})

Evictee == {h.id : h \in Evicted}

AfterEviction == {g \in halfOpen : \E h \in Evicted : h.salt < g.salt}

(* Peer.offerRelogin: one challenge per address, the oldest goes when full.*)
Offered(relogins, from, salt) ==
  LET kept == {r \in relogins : r.addr # from /\ now - r.at <= LoginTimeout}
      new  == [addr |-> from, salt |-> salt, at |-> now]
  IN  IF Cardinality(kept) < MaxRelogins THEN {kept \cup {new}}
      ELSE {(kept \ {r}) \cup {new} : r \in Oldest(kept)}

(* Peer.takeRelogin: the challenges outstanding for an address (there is   *)
(* at most one), and the others.                                           *)
Mine(id, from)   == {r \in peers[id].relogins : r.addr = from}
Others(id, from) == {r \in peers[id].relogins : r.addr # from}

(* The entry with other challenges beside it.                              *)
Beside(id, list) ==
  [state |-> peers[id].state, addr |-> peers[id].addr, salt |-> peers[id].salt,
   first |-> peers[id].first, heard |-> peers[id].heard, relogins |-> list]

Issue(id, from) == issued' = Append(issued, [id |-> id, addr |-> from, uses |-> 0])

NextSalt == Len(issued) + 1

Accept(id, salt) ==
  /\ issued' = [issued EXCEPT ![salt] = [id |-> issued[salt].id,
                 addr |-> issued[salt].addr, uses |-> issued[salt].uses + 1]]
  /\ proof' = [proof EXCEPT ![id] = salt]

-----------------------------------------------------------------------------
(* RPTL                                                                    *)

(* handleLogin up to the look at the registry.                             *)
MayLogin(id, from) ==
  /\ phase = "read"
  /\ ~Locked(Host(from))
  /\ id \in registration

(* handleLogin for an ID nobody holds.  tidyHalfOpen runs before the new   *)
(* entry is stored, so it drops the login just listed as well.             *)
LoginNew(id, from) ==
  /\ MayLogin(id, from)
  /\ id \notin Known
  /\ Stations < MaxPeers
  /\ NextSalt <= MaxSalts
  /\ Issue(id, from)
  /\ LET full == waiting >= MaxHalfOpen
         out  == IF full THEN Evictee ELSE {}
         rest == IF full THEN AfterEviction ELSE halfOpen
         list == rest \cup {[id |-> id, began |-> now, salt |-> NextSalt]}
     IN  /\ halfOpen' = IF Cardinality(list) > 4 * MaxHalfOpen
                        THEN {h \in rest : StillWaiting(h) /\ h.id \notin out}
                        ELSE list
         /\ waiting' = waiting - Cardinality(out) + 1
         /\ peers' = [i \in Ids |->
              IF i = id THEN [state |-> "challenged", addr |-> from, salt |-> NextSalt,
                              first |-> now, heard |-> now, relogins |-> {}]
              ELSE IF i \in out THEN NoPeer ELSE peers[i]]
  /\ phase' = "sweep"
  /\ UNCHANGED <<attempts, now, operVars, proof, announced>>

(* The same, when no salt can be had: the place was made all the same.     *)
LoginNoSalt(id, from) ==
  /\ MayLogin(id, from)
  /\ id \notin Known
  /\ Stations < MaxPeers
  /\ waiting >= MaxHalfOpen
  /\ Forget(Evictee)
  /\ halfOpen' = AfterEviction
  /\ phase' = "sweep"
  /\ UNCHANGED <<attempts, now, operVars, issued, announced>>

(* handleLogin asked again by the address that is already logging in.      *)
LoginAgain(id, from) ==
  /\ MayLogin(id, from)
  /\ id \in Challenged /\ peers[id].addr = from
  /\ NextSalt <= MaxSalts
  /\ Issue(id, from)
  /\ peers' = [peers EXCEPT ![id] =
       [state |-> "challenged", addr |-> from, salt |-> NextSalt,
        first |-> peers[id].first, heard |-> now, relogins |-> peers[id].relogins]]
  /\ phase' = "sweep"
  /\ UNCHANGED <<attempts, now, waiting, halfOpen, operVars, proof, announced>>

(* Mutant: a login for a registered ID replaces the registration.          *)
LoginReplaces(id, from) ==
  /\ MayLogin(id, from) /\ id \in Known
  /\ NextSalt <= MaxSalts /\ Issue(id, from)
  /\ peers' = [peers EXCEPT ![id] =
       [state |-> "challenged", addr |-> from, salt |-> NextSalt,
        first |-> peers[id].first, heard |-> now, relogins |-> {}]]
  /\ phase' = "sweep"
  /\ UNCHANGED <<attempts, now, waiting, halfOpen, operVars, proof, announced>>

(* handleLogin for an ID that is registered, or being logged in from       *)
(* somewhere else: the challenge is kept beside what is there.             *)
LoginBeside(id, from) ==
  /\ MayLogin(id, from)
  /\ id \in Known
  /\ id \notin Challenged \/ peers[id].addr # from
  /\ NextSalt <= MaxSalts
  /\ Issue(id, from)
  /\ \E list \in Offered(peers[id].relogins, from, NextSalt) :
       peers' = [peers EXCEPT ![id] = Beside(id, list)]
  /\ phase' = "sweep"
  /\ UNCHANGED <<attempts, now, waiting, halfOpen, operVars, proof, announced>>

Login(id, from) ==
  \/ LoginNew(id, from)
  \/ LoginNoSalt(id, from)
  \/ LoginAgain(id, from)
  \/ LoginBeside(id, from)

-----------------------------------------------------------------------------
(* RPTK                                                                    *)

MayAnswer(id, from) == phase = "read" /\ ~Locked(Host(from))

(* handleKey with no login for the ID, or none from that address.          *)
KeyUnsolicited(id, from) ==
  /\ MayAnswer(id, from)
  /\ \/ id \notin Known
     \/ id \in Challenged /\ peers[id].addr # from /\ Mine(id, from) = {}
  /\ Fail(Host(from), FALSE)
  /\ phase' = "sweep"
  /\ UNCHANGED <<now, entryVars, operVars, histVars>>

(* handleKey at the address the entry's own challenge went to.             *)
Answering(id, from) == MayAnswer(id, from) /\ id \in Challenged /\ peers[id].addr = from

KeyWrong(id, from) ==
  /\ Answering(id, from)
  /\ Abandon(id)
  /\ Fail(Host(from), TRUE)
  /\ phase' = "sweep"
  /\ UNCHANGED <<now, halfOpen, operVars, issued, announced>>

KeyFull(id, from) ==
  /\ Answering(id, from)
  /\ Stations >= MaxPeers
  /\ Abandon(id)
  /\ phase' = "sweep"
  /\ UNCHANGED <<attempts, now, halfOpen, operVars, issued, announced>>

KeyRight(id, from) ==
  /\ Answering(id, from)
  /\ Stations < MaxPeers
  /\ waiting' = waiting - 1
  /\ peers' = [peers EXCEPT ![id] =
       [state |-> "authenticated", addr |-> from, salt |-> 0, first |-> peers[id].first,
        heard |-> now, relogins |-> peers[id].relogins]]
  /\ Accept(id, peers[id].salt)
  /\ phase' = "sweep"
  /\ UNCHANGED <<attempts, now, halfOpen, operVars, announced>>

(* handleReloginKey, with a challenge outstanding for that address; it is  *)
(* taken whatever comes of it.                                             *)
Relogging(id, from) ==
  /\ MayAnswer(id, from)
  /\ id \in Working \/ (id \in Challenged /\ peers[id].addr # from)

InTime(r) == now - r.at <= LoginTimeout

Taken(id, from) == peers' = [peers EXCEPT ![id] = Beside(id, Others(id, from))]

ReloginStale(id, from) ==
  /\ Relogging(id, from)
  /\ \E r \in Mine(id, from) : ~InTime(r)
  /\ Taken(id, from)
  /\ phase' = "sweep"
  /\ UNCHANGED <<attempts, now, waiting, halfOpen, operVars, histVars>>

ReloginWrong(id, from) ==
  /\ Relogging(id, from)
  /\ \E r \in Mine(id, from) : InTime(r)
  /\ Taken(id, from)
  /\ Fail(Host(from), TRUE)
  /\ phase' = "sweep"
  /\ UNCHANGED <<now, waiting, halfOpen, operVars, histVars>>

ReloginFull(id, from) ==
  /\ Relogging(id, from)
  /\ \E r \in Mine(id, from) : InTime(r)
  /\ id \in Challenged /\ Stations >= MaxPeers
  /\ Taken(id, from)
  /\ phase' = "sweep"
  /\ UNCHANGED <<attempts, now, waiting, halfOpen, operVars, histVars>>

(* Mutant: the challenge that was answered stays beside the registration.  *)
ReloginRightKept(id, from) ==
  /\ Relogging(id, from)
  /\ id \in Challenged => Stations < MaxPeers
  /\ waiting' = IF id \in Challenged THEN waiting - 1 ELSE waiting
  /\ peers' = [peers EXCEPT ![id].state = "authenticated", ![id].addr = from,
                            ![id].salt = 0, ![id].heard = now]
  /\ \E r \in Mine(id, from) : InTime(r) /\ Accept(id, r.salt)
  /\ phase' = "sweep"
  /\ UNCHANGED <<attempts, now, halfOpen, operVars, announced>>

(* The registration moves to the address that proved it.                   *)
ReloginRight(id, from) ==
  /\ Relogging(id, from)
  /\ id \in Challenged => Stations < MaxPeers
  /\ waiting' = IF id \in Challenged THEN waiting - 1 ELSE waiting
  /\ peers' = [peers EXCEPT ![id] =
       [state |-> "authenticated", addr |-> from, salt |-> 0, first |-> peers[id].first,
        heard |-> now, relogins |-> {}]]
  /\ \E r \in Mine(id, from) : InTime(r) /\ Accept(id, r.salt)
  /\ phase' = "sweep"
  /\ UNCHANGED <<attempts, now, halfOpen, operVars, announced>>

Key(id, from) ==
  \/ KeyUnsolicited(id, from)
  \/ KeyWrong(id, from)
  \/ KeyFull(id, from)
  \/ KeyRight(id, from)
  \/ ReloginStale(id, from)
  \/ ReloginWrong(id, from)
  \/ ReloginFull(id, from)
  \/ ReloginRight(id, from)

-----------------------------------------------------------------------------
(* RPTC, keepalives and traffic, RPTCL                                     *)

(* Mutant: the state is set before it is asked whether this is the first.  *)
ConfigUnannounced(id, from) ==
  /\ phase = "read" /\ id \in Working /\ peers[id].addr = from
  /\ peers' = [peers EXCEPT ![id].state = "configured", ![id].heard = now]
  /\ Succeed(Host(from))
  /\ phase' = "sweep"
  /\ UNCHANGED <<now, waiting, halfOpen, operVars, histVars>>

(* handleConfig                                                            *)
Config(id, from) ==
  /\ phase = "read"
  /\ id \in Working /\ peers[id].addr = from
  /\ peers' = [peers EXCEPT ![id] =
       [state |-> "configured", addr |-> from, salt |-> peers[id].salt,
        first |-> peers[id].first, heard |-> now, relogins |-> peers[id].relogins]]
  /\ Succeed(Host(from))
  /\ announced' = announced \cup {id}
  /\ phase' = "sweep"
  /\ UNCHANGED <<now, waiting, halfOpen, operVars, issued, proof>>

(* handlePing, handleTalkerAlias and handleData, as far as the registry    *)
(* goes: the peer was heard from.                                          *)
Heard(id, from) ==
  /\ phase = "read"
  /\ id \in Configured /\ peers[id].addr = from
  /\ peers' = [peers EXCEPT ![id] =
       [state |-> "configured", addr |-> from, salt |-> peers[id].salt,
        first |-> peers[id].first, heard |-> now, relogins |-> peers[id].relogins]]
  /\ phase' = "sweep"
  /\ UNCHANGED <<attempts, now, waiting, halfOpen, operVars, histVars>>

(* handleClose                                                             *)
Close(id, from) ==
  /\ phase = "read"
  /\ id \in Known /\ peers[id].addr = from
  /\ Forget({id})
  /\ announced' = announced \ (Configured \cap {id})
  /\ phase' = "sweep"
  /\ UNCHANGED <<attempts, now, halfOpen, operVars, issued>>

(* A read that timed out, or a datagram that was answered or dropped and   *)
(* changed nothing.                                                        *)
Quiet ==
  /\ phase = "read"
  /\ phase' = "sweep"
  /\ UNCHANGED <<attempts, now, entryVars, operVars, histVars>>

-----------------------------------------------------------------------------
(* The rest of the turn                                                    *)

(* SetAccess, from applyPending: a ban takes effect now.                   *)
SetAccess(allowed) ==
  /\ phase = "sweep"
  /\ edits < MaxEdits /\ edits' = edits + 1
  /\ registration' = allowed
  /\ Forget(Known \ allowed)
  /\ evicted' = evicted \cup (Configured \ allowed)
  /\ UNCHANGED <<attempts, now, halfOpen, phase, issued, announced>>

Limit(id) == IF id \in Configured THEN PeerTimeout ELSE LoginTimeout

Stale == {id \in Known : now - peers[id].heard > Limit(id)}

(* Master.Expire, and the events the listener publishes from it.           *)
Expire ==
  /\ phase = "sweep"
  /\ ExpireAttempts
  /\ Forget(Stale)
  /\ evicted' = {}
  /\ announced' = announced \ (evicted \cup (Stale \cap Configured))
  /\ phase' = "read"
  /\ UNCHANGED <<now, halfOpen, registration, edits, issued>>

Clock == Tick /\ UNCHANGED <<attempts, entryVars, operVars, phase, histVars>>

Next ==
  \/ \E id \in Ids, from \in Addrs :
       \/ Login(id, from)
       \/ Key(id, from)
       \/ Config(id, from)
       \/ Heard(id, from)
       \/ Close(id, from)
  \/ Quiet
  \/ \E S \in SUBSET Ids : SetAccess(S)
  \/ Expire
  \/ Clock

Spec == Init /\ [][Next]_vars

-----------------------------------------------------------------------------
(* Properties                                                              *)

Challenges == [addr : Addrs, salt : Nat, at : Nat]

PeerRecords ==
  [state : {"none", "challenged", "authenticated", "configured"},
   addr : Addrs \cup {NoAddr}, salt : Nat, first : Nat, heard : Nat,
   relogins : SUBSET Challenges]

(* An ID without a registration has nothing left behind, and no more       *)
(* challenges are kept beside a registration than maxRelogins (peer.go).   *)
PeersOK ==
  /\ peers \in [Ids -> PeerRecords]
  /\ \A id \in Ids : /\ peers[id].state = "none" => peers[id] = NoPeer
                     /\ peers[id].state # "none" => peers[id].addr \in Addrs
                     /\ Cardinality(peers[id].relogins) <= MaxRelogins

(* Every variable has its type, and the entries of the registry (Master,   *)
(* Peer) are well formed.                                                  *)
RegistryTypeOK ==
  /\ PeersOK
  /\ attempts \in [Hosts -> Entries] /\ now \in Nat
  /\ waiting \in Int
  /\ halfOpen \in SUBSET [id : Ids, began : Nat, salt : Nat]
  /\ registration \subseteq Ids
  /\ evicted \subseteq Ids /\ edits \in Nat
  /\ phase \in {"read", "sweep"}
  /\ issued \in Seq([id : Ids, addr : Addrs, uses : Nat])
  /\ proof \in [Ids -> Nat]
  /\ announced \subseteq Ids

(* waiting, which is only ever stepped up and down, is how many logins are *)
(* waiting on their challenge, so that stations() is how many are logged   *)
(* in, and that is never above MaxPeers (handleLogin, handleKey and        *)
(* handleReloginKey each ask).                                             *)
WithinLimits ==
  /\ waiting = Cardinality(Challenged)
  /\ Cardinality(Working) <= MaxPeers

(* Of the logins that wait on their challenge, those the eviction list     *)
(* still names are never more than maxHalfOpen.                            *)
ListedWithinLimit == Cardinality({id \in Challenged : Listed(id)}) <= MaxHalfOpen

(* A registration that works was proved from the very address it works     *)
(* from, by the answer to a challenge sent to that address for that ID,    *)
(* and no answer was ever accepted twice (handleKey, handleReloginKey).    *)
ProvedHere ==
  /\ \A id \in Working :
       /\ proof[id] \in 1..Len(issued)
       /\ issued[proof[id]].id = id
       /\ issued[proof[id]].addr = peers[id].addr
       /\ issued[proof[id]].uses = 1
  /\ \A s \in 1..Len(issued) : issued[s].uses <= 1

(* A host's counted failures are wrong answers to challenges that were     *)
(* sent to it: traffic that merely claims its address cannot lock it out   *)
(* (throttle.go, provesAddress).                                           *)
LockoutIsEarned ==
  \A h \in Hosts : attempts[h].failures <=
    Cardinality({s \in 1..Len(issued) : Host(issued[s].addr) = h})

(* A peer that passes traffic was announced as connected after whatever    *)
(* departure was announced last (handleConfig, handleClose, Expire).       *)
ConfiguredIsAnnounced == Configured \subseteq announced

(* What the master keeps beside its entries agrees with them, whatever     *)
(* order logins, answers, closes and sweeps come in: the counters that     *)
(* limit stations and half-open logins, the failures held against a host,  *)
(* and who was announced.                                                  *)
BooksAgree ==
  WithinLimits /\ ListedWithinLimit /\ LockoutIsEarned /\ ConfiguredIsAnnounced

(* A station that passes traffic keeps its registration and its address    *)
(* until somebody proves the password from elsewhere, it closes, it is     *)
(* banned, or it has been silent for PeerTimeout.  In particular a login,  *)
(* or a wrong answer, from anywhere leaves it alone (handleLogin).         *)
NotKnockedOff ==
  [][\A id \in Configured :
       \/ peers'[id].state = "configured" /\ peers'[id].addr = peers[id].addr
       \/ proof'[id] \notin {0, proof[id]}
       \/ Close(id, peers[id].addr)
       \/ id \notin registration'
       \/ now - peers[id].heard > PeerTimeout]_vars

(* The challenges outstanding for an ID.                                   *)
Outstanding(id) ==
  {r.salt : r \in peers[id].relogins} \cup {peers[i].salt : i \in Challenged \cap {id}}

(* What may end a login that is waiting on challenge s for the ID: its own *)
(* address acts; somebody proves the password; a ban; the entry, or what it*)
(* stands beside, closes or times out; the limit on half-open logins, or   *)
(* on the challenges beside an entry, is reached.                          *)
MayEnd(id, s) ==
  \/ Login(id, issued[s].addr)
  \/ Key(id, issued[s].addr)
  \/ proof'[id] \notin {0, proof[id]}
  \/ id \notin registration'
  \/ Close(id, peers[id].addr)
  \/ now - peers[id].heard > Limit(id)
  \/ \E r \in peers[id].relogins :
       /\ r.salt = s
       /\ \/ now - r.at > LoginTimeout
          \/ /\ r \in Oldest(peers[id].relogins)
             /\ Cardinality(peers[id].relogins) = MaxRelogins
             /\ \E from \in Addrs : LoginBeside(id, from)
  \/ /\ waiting >= MaxHalfOpen /\ id \in Evictee
     /\ \E i \in Ids, from \in Addrs : LoginNew(i, from) \/ LoginNoSalt(i, from)

(* A login in progress is not wiped by somebody else's for the same ID:    *)
(* each address can finish its own (handleLogin, abandon).                 *)
OwnLoginSurvives ==
  [][\A id \in Ids : \A s \in Outstanding(id) \ Outstanding(id)' : MayEnd(id, s)]_vars

(* Repeater IDs and hosts are interchangeable. *)
Symmetry == Permutations(Ids) \cup Permutations(Hosts)
=============================================================================
