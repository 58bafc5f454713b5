--------------------------- MODULE RegistryProofs ---------------------------
(***************************************************************************)
(* Proofs about Registry, and about the login throttle on its own          *)
(* (MCThrottle), for any number of stations, hosts and places.             *)
(***************************************************************************)
EXTENDS Registry, MCThrottle, FiniteSetTheorems, SequenceTheorems, TLAPS

-----------------------------------------------------------------------------
(* The login throttle keeps the type of its table.                         *)

(* Forgetting hosts leaves a table (throttle.expire, succeed).             *)
LEMMA ForgettingType ==
  ASSUME attempts \in [Hosts -> Entries], NEW H
  PROVE  Forgetting(H) \in [Hosts -> Entries]
BY DEF Forgetting, Entries, Untracked

(* Counting a failure leaves a table (throttle.fail).                      *)
LEMMA CountedType ==
  ASSUME now \in Nat, NEW t \in [Hosts -> Entries], NEW h \in Hosts, NEW b \in BOOLEAN
  PROVE  Counted(t, h, b) \in [Hosts -> Entries]
<1> DEFINE run == IF now - t[h].last > Window THEN Untracked ELSE t[h]
           n == run.failures + (IF b THEN 1 ELSE 0)
           u == IF b /\ n >= MaxFailures THEN now + Lockout ELSE run.until
<1>1. run \in Entries
  BY DEF Entries, Untracked
<1>2. n \in Nat /\ u \in Nat
  <2>1. run.failures \in Nat /\ run.until \in Nat
    BY <1>1 DEF Entries
  <2> HIDE DEF run
  <2>2. n \in Nat
    BY <2>1
  <2> HIDE DEF n
  <2> QED
    BY <2>1, <2>2, ThrottleAssumption DEF ThrottleAssumption
<1>3. Extended(t[h], b) = [failures |-> n, last |-> now, until |-> u]
  BY DEF Extended
<1> HIDE DEF n, u
<1>4. Extended(t[h], b) \in Entries
  BY <1>2, <1>3 DEF Entries
<1> QED
  BY <1>4 DEF Counted

(* Recording a failure leaves a table, full or not (throttle.fail).        *)
LEMMA FailType ==
  ASSUME attempts \in [Hosts -> Entries], now \in Nat,
         NEW h \in Hosts, NEW b \in BOOLEAN, Fail(h, b)
  PROVE  attempts' \in [Hosts -> Entries]
<1>1. ASSUME NEW t \in RoomMade PROVE t \in [Hosts -> Entries]
  BY ForgettingType DEF RoomMade
<1> QED
  BY <1>1, CountedType DEF Fail

-----------------------------------------------------------------------------
(* The entries of the registry stay well formed.                           *)

(* An entry that a handler may store.                                      *)
Sound(p) ==
  /\ p \in PeerRecords
  /\ p.state # "none"
  /\ p.addr \in Addrs
  /\ Cardinality(p.relogins) <= MaxRelogins

(* Storing a sound entry keeps the registry well formed.                   *)
LEMMA StoreOK ==
  ASSUME PeersOK, NEW id \in Ids, NEW p, Sound(p), peers' = [peers EXCEPT ![id] = p]
  PROVE  PeersOK'
BY DEF PeersOK, Sound

(* An entry that is there is sound.                                        *)
LEMMA KnownSound ==
  ASSUME PeersOK, NEW id \in Known
  PROVE  id \in Ids /\ Sound(peers[id])
<1>1. id \in Ids /\ peers[id].state # "none"
  BY DEF Known, InState
<1> QED
  BY <1>1 DEF PeersOK, Sound

(* The cleared entry is an entry.                                          *)
LEMMA NoPeerOK == NoPeer \in PeerRecords /\ Cardinality(NoPeer.relogins) <= MaxRelogins
<1>1. NoPeer \in PeerRecords
  BY DEF NoPeer, PeerRecords, Challenges, NoAddr
<1>2. Cardinality(NoPeer.relogins) = 0
  BY FS_EmptySet DEF NoPeer
<1> QED
  BY <1>1, <1>2, RegistryAssumption DEF RegistryAssumption

(* Forgetting entries keeps the registry well formed (Master.forget).      *)
LEMMA ForgetOK ==
  ASSUME PeersOK, NEW S,
         peers' = [id \in Ids |-> IF id \in S THEN NoPeer ELSE peers[id]]
  PROVE  PeersOK'
<1>1. ASSUME NEW id \in Ids
      PROVE  /\ peers'[id] \in PeerRecords
             /\ peers'[id].state = "none" => peers'[id] = NoPeer
             /\ peers'[id].state # "none" => peers'[id].addr \in Addrs
             /\ Cardinality(peers'[id].relogins) <= MaxRelogins
  <2>1. CASE id \in S
    <3>1. peers'[id] = NoPeer
      BY <2>1
    <3> QED
      BY <3>1, NoPeerOK DEF NoPeer
  <2>2. CASE id \notin S
    BY <2>2 DEF PeersOK
  <2> QED
    BY <2>1, <2>2
<1>2. peers' \in [Ids -> PeerRecords]
  BY <1>1
<1> QED
  BY <1>1, <1>2 DEF PeersOK

(* Every list of challenges beside an entry is finite, as is its Go slice. *)
ListsFinite == \A id \in Ids : IsFiniteSet(peers[id].relogins)

(* offerRelogin keeps the list typed, finite and within maxRelogins.       *)
LEMMA OfferedOK ==
  ASSUME NEW L \in SUBSET Challenges, IsFiniteSet(L), Cardinality(L) <= MaxRelogins,
         now \in Nat, NEW from \in Addrs, NEW salt \in Nat,
         NEW new, new \in Offered(L, from, salt)
  PROVE  /\ new \in SUBSET Challenges
         /\ IsFiniteSet(new)
         /\ Cardinality(new) <= MaxRelogins
<1> DEFINE kept == {r \in L : r.addr # from /\ now - r.at <= LoginTimeout}
           c == [addr |-> from, salt |-> salt, at |-> now]
<1>1. c \in Challenges
  BY DEF Challenges
<1>2. kept \subseteq L /\ IsFiniteSet(kept)
  BY FS_Subset
<1>3. CASE Cardinality(kept) < MaxRelogins
  <2>1. new = kept \cup {c}
    BY <1>3 DEF Offered
  <2> HIDE DEF kept, c
  <2>2. /\ IsFiniteSet(new)
        /\ Cardinality(new) = IF c \in kept THEN Cardinality(kept) ELSE Cardinality(kept) + 1
    BY <1>2, <2>1, FS_AddElement
  <2>3. Cardinality(kept) \in Nat
    BY <1>2, FS_CardinalityType
  <2> QED
    BY <1>1, <1>2, <1>3, <2>1, <2>2, <2>3, RegistryAssumption DEF RegistryAssumption
<1>4. CASE ~(Cardinality(kept) < MaxRelogins)
  <2>1. PICK r \in Oldest(kept) : new = (kept \ {r}) \cup {c}
    BY <1>4 DEF Offered
  <2>2. r \in kept
    BY <2>1 DEF Oldest
  <2>3. Cardinality(kept) <= Cardinality(L)
    BY <1>2, FS_Subset
  <2> HIDE DEF kept, c
  <2>4. /\ IsFiniteSet(kept \ {r})
        /\ Cardinality(kept \ {r}) = Cardinality(kept) - 1
    BY <1>2, <2>2, FS_RemoveElement
  <2>5. /\ IsFiniteSet(new)
        /\ Cardinality(new) = IF c \in kept \ {r} THEN Cardinality(kept \ {r})
                              ELSE Cardinality(kept \ {r}) + 1
    BY <2>1, <2>4, FS_AddElement
  <2>6. Cardinality(kept) \in Nat /\ Cardinality(L) \in Nat
    BY <1>2, FS_CardinalityType
  <2> QED
    BY <1>1, <1>2, <2>1, <2>3, <2>4, <2>5, <2>6, RegistryAssumption DEF RegistryAssumption
<1> QED
  BY <1>3, <1>4

(* Taking challenges away keeps the list typed, finite and within its      *)
(* bound (takeRelogin, abandon).                                           *)
LEMMA FewerOK ==
  ASSUME NEW L \in SUBSET Challenges, IsFiniteSet(L), Cardinality(L) <= MaxRelogins,
         NEW K \in SUBSET L
  PROVE  /\ K \in SUBSET Challenges
         /\ IsFiniteSet(K)
         /\ Cardinality(K) <= MaxRelogins
<1>1. IsFiniteSet(K) /\ Cardinality(K) <= Cardinality(L)
  BY FS_Subset
<1>2. Cardinality(K) \in Nat /\ Cardinality(L) \in Nat
  BY <1>1, FS_CardinalityType
<1> QED
  BY <1>1, <1>2, RegistryAssumption DEF RegistryAssumption

(* Storing a sound entry with a finite list keeps the lists finite.        *)
LEMMA StoreFinite ==
  ASSUME PeersOK, ListsFinite, NEW id \in Ids, NEW p, IsFiniteSet(p.relogins),
         peers' = [peers EXCEPT ![id] = p]
  PROVE  ListsFinite'
BY DEF PeersOK, ListsFinite

(* Forgetting entries keeps the lists finite.                              *)
LEMMA ForgetFinite ==
  ASSUME ListsFinite, NEW S,
         peers' = [id \in Ids |-> IF id \in S THEN NoPeer ELSE peers[id]]
  PROVE  ListsFinite'
BY FS_EmptySet DEF ListsFinite, NoPeer

(* The entries a handler stores.                                           *)
EntriesOK == PeersOK /\ ListsFinite

(* handleLogin stores a sound entry in each of its cases.                  *)
LEMMA LoginEntries ==
  ASSUME EntriesOK, now \in Nat, issued \in Seq([id : Ids, addr : Addrs, uses : Nat]),
         NEW id \in Ids, NEW from \in Addrs, Login(id, from)
  PROVE  EntriesOK'
<1> USE DEF EntriesOK
<1> DEFINE fresh(f, L) == [state |-> "challenged", addr |-> from, salt |-> NextSalt,
                           first |-> f, heard |-> now, relogins |-> L]
<1>0. NextSalt \in Nat
  BY LenProperties DEF NextSalt
<1>1. ASSUME NEW f \in Nat, NEW L \in SUBSET Challenges, Cardinality(L) <= MaxRelogins
      PROVE  Sound(fresh(f, L))
  BY <1>0, <1>1 DEF Sound, PeerRecords
<1>2. CASE LoginNew(id, from)
  <2> DEFINE out == IF waiting >= MaxHalfOpen THEN Evictee ELSE {}
             mid == [i \in Ids |-> IF i \in out THEN NoPeer ELSE peers[i]]
  <2>1. peers' = [i \in Ids |-> IF i = id THEN fresh(now, {})
                                ELSE IF i \in out THEN NoPeer ELSE peers[i]]
    BY <1>2 DEF LoginNew
  <2> HIDE DEF out
  <2>2. Sound(fresh(now, {}))
    <3>1. Cardinality({}) <= MaxRelogins
      BY FS_EmptySet, RegistryAssumption DEF RegistryAssumption
    <3> QED
      BY <1>1, <3>1
  <2>3. ASSUME NEW i \in Ids
        PROVE  /\ peers'[i] \in PeerRecords
               /\ peers'[i].state = "none" => peers'[i] = NoPeer
               /\ peers'[i].state # "none" => peers'[i].addr \in Addrs
               /\ Cardinality(peers'[i].relogins) <= MaxRelogins
               /\ IsFiniteSet(peers'[i].relogins)
    <3>1. CASE i = id
      <4>1. peers'[i] = fresh(now, {})
        BY <2>1, <3>1
      <4>2. IsFiniteSet(fresh(now, {}).relogins)
        BY FS_EmptySet
      <4> HIDE DEF fresh
      <4> QED
        BY <4>1, <4>2, <2>2 DEF Sound
    <3>2. CASE i # id /\ i \in out
      <4>1. peers'[i] = NoPeer
        BY <2>1, <3>2
      <4>2. IsFiniteSet(NoPeer.relogins)
        BY FS_EmptySet DEF NoPeer
      <4> QED
        BY <4>1, <4>2, NoPeerOK DEF NoPeer
    <3>3. CASE i # id /\ i \notin out
      <4>1. peers'[i] = peers[i]
        BY <2>1, <3>3
      <4> QED
        BY <4>1 DEF PeersOK, ListsFinite
    <3> QED
      BY <3>1, <3>2, <3>3
  <2>4. peers' \in [Ids -> PeerRecords]
    BY <2>1, <2>3
  <2> QED
    BY <2>3, <2>4 DEF PeersOK, ListsFinite
<1>3. CASE LoginNoSalt(id, from)
  BY <1>3, ForgetOK, ForgetFinite DEF LoginNoSalt, Forget
<1>4. CASE LoginAgain(id, from)
  <2>1. id \in Known
    BY <1>4 DEF LoginAgain, Challenged, Known, InState
  <2>2. Sound(peers[id]) /\ IsFiniteSet(peers[id].relogins)
    BY <2>1, KnownSound DEF ListsFinite
  <2>3. peers' = [peers EXCEPT ![id] = fresh(peers[id].first, peers[id].relogins)]
    BY <1>4 DEF LoginAgain
  <2>4. Sound(fresh(peers[id].first, peers[id].relogins))
    BY <1>1, <2>2 DEF Sound, PeerRecords
  <2>5. IsFiniteSet(fresh(peers[id].first, peers[id].relogins).relogins)
    BY <2>2
  <2> HIDE DEF fresh
  <2> QED
    BY <2>3, <2>4, <2>5, StoreOK, StoreFinite
<1>5. CASE LoginBeside(id, from)
  <2>1. id \in Known
    BY <1>5 DEF LoginBeside
  <2>2. Sound(peers[id]) /\ IsFiniteSet(peers[id].relogins)
    BY <2>1, KnownSound DEF ListsFinite
  <2>3. PICK L \in Offered(peers[id].relogins, from, NextSalt) :
           peers' = [peers EXCEPT ![id] = Beside(id, L)]
    BY <1>5 DEF LoginBeside
  <2>4. L \in SUBSET Challenges /\ IsFiniteSet(L) /\ Cardinality(L) <= MaxRelogins
    <3>1. /\ peers[id].relogins \in SUBSET Challenges
          /\ Cardinality(peers[id].relogins) <= MaxRelogins
      BY <2>2 DEF Sound, PeerRecords
    <3> QED
      BY <3>1, <2>2, <2>3, <1>0, OfferedOK
  <2>5. Sound(Beside(id, L)) /\ IsFiniteSet(Beside(id, L).relogins)
    BY <2>2, <2>4 DEF Sound, PeerRecords, Beside
  <2> QED
    BY <2>3, <2>5, StoreOK, StoreFinite
<1> QED
  BY <1>2, <1>3, <1>4, <1>5 DEF Login

(* Abandoning a login leaves sound entries (Master.abandon).               *)
LEMMA AbandonEntries ==
  ASSUME EntriesOK, NEW id \in Known, Abandon(id)
  PROVE  EntriesOK'
<1> USE DEF EntriesOK
<1>1. id \in Ids /\ Sound(peers[id]) /\ IsFiniteSet(peers[id].relogins)
  BY KnownSound DEF ListsFinite
<1>2. CASE Forget({id})
  BY <1>2, ForgetOK, ForgetFinite DEF Forget
<1>3. CASE \E next \in Oldest(peers[id].relogins) :
             peers' = [peers EXCEPT ![id] =
               [state |-> peers[id].state, addr |-> next.addr, salt |-> next.salt,
                first |-> peers[id].first, heard |-> next.at,
                relogins |-> peers[id].relogins \ {next}]]
  <2>1. PICK next \in Oldest(peers[id].relogins) :
             peers' = [peers EXCEPT ![id] =
               [state |-> peers[id].state, addr |-> next.addr, salt |-> next.salt,
                first |-> peers[id].first, heard |-> next.at,
                relogins |-> peers[id].relogins \ {next}]]
    BY <1>3
  <2> DEFINE L == peers[id].relogins \ {next}
             p == [state |-> peers[id].state, addr |-> next.addr, salt |-> next.salt,
                   first |-> peers[id].first, heard |-> next.at, relogins |-> L]
  <2>2. next \in Challenges
    BY <1>1 DEF Oldest, Sound, PeerRecords
  <2>3. L \in SUBSET Challenges /\ IsFiniteSet(L) /\ Cardinality(L) <= MaxRelogins
    <3>1. /\ peers[id].relogins \in SUBSET Challenges
          /\ Cardinality(peers[id].relogins) <= MaxRelogins
      BY <1>1 DEF Sound, PeerRecords
    <3>2. L \in SUBSET peers[id].relogins
      OBVIOUS
    <3> QED
      BY <3>1, <3>2, <1>1, FewerOK
  <2> HIDE DEF L
  <2>4. Sound(p) /\ IsFiniteSet(p.relogins)
    BY <1>1, <2>2, <2>3 DEF Sound, PeerRecords, Challenges
  <2>5. peers' = [peers EXCEPT ![id] = p]
    BY <2>1 DEF L
  <2> HIDE DEF p
  <2> QED
    BY <1>1, <2>4, <2>5, StoreOK, StoreFinite
<1> QED
  BY <1>2, <1>3 DEF Abandon

(* Taking a challenge from beside an entry leaves sound entries            *)
(* (takeRelogin).                                                          *)
LEMMA TakenEntries ==
  ASSUME EntriesOK, NEW id \in Known, NEW from, Taken(id, from)
  PROVE  EntriesOK'
<1> USE DEF EntriesOK
<1>1. id \in Ids /\ Sound(peers[id]) /\ IsFiniteSet(peers[id].relogins)
  BY KnownSound DEF ListsFinite
<1> DEFINE L == Others(id, from)
<1>2. L \in SUBSET Challenges /\ IsFiniteSet(L) /\ Cardinality(L) <= MaxRelogins
  <2>1. /\ peers[id].relogins \in SUBSET Challenges
        /\ Cardinality(peers[id].relogins) <= MaxRelogins
    BY <1>1 DEF Sound, PeerRecords
  <2>2. L \in SUBSET peers[id].relogins
    BY DEF Others
  <2> QED
    BY <2>1, <2>2, <1>1, FewerOK
<1>3. peers' = [peers EXCEPT ![id] = Beside(id, L)]
  BY DEF Taken
<1> HIDE DEF L
<1>4. Sound(Beside(id, L)) /\ IsFiniteSet(Beside(id, L).relogins)
  BY <1>1, <1>2 DEF Sound, PeerRecords, Beside
<1> QED
  BY <1>1, <1>3, <1>4, StoreOK, StoreFinite

(* A registration that is there, moved on to a later state.                *)
LEMMA MovedEntries ==
  ASSUME EntriesOK, now \in Nat, NEW id \in Known, NEW from \in Addrs,
         NEW st \in {"authenticated", "configured"}, NEW salt \in Nat,
         NEW L, L = peers[id].relogins \/ L = {},
         peers' = [peers EXCEPT ![id] =
           [state |-> st, addr |-> from, salt |-> salt, first |-> peers[id].first,
            heard |-> now, relogins |-> L]]
  PROVE  EntriesOK'
<1> USE DEF EntriesOK
<1>1. id \in Ids /\ Sound(peers[id]) /\ IsFiniteSet(peers[id].relogins)
  BY KnownSound DEF ListsFinite
<1> DEFINE p == [state |-> st, addr |-> from, salt |-> salt, first |-> peers[id].first,
                 heard |-> now, relogins |-> L]
<1>2. L \in SUBSET Challenges /\ IsFiniteSet(L) /\ Cardinality(L) <= MaxRelogins
  <2>1. L \in SUBSET peers[id].relogins
    OBVIOUS
  <2>2. /\ peers[id].relogins \in SUBSET Challenges
        /\ Cardinality(peers[id].relogins) <= MaxRelogins
    BY <1>1 DEF Sound, PeerRecords
  <2> QED
    BY <2>1, <2>2, <1>1, FewerOK
<1>3. Sound(p) /\ IsFiniteSet(p.relogins)
  BY <1>1, <1>2 DEF Sound, PeerRecords
<1> HIDE DEF p
<1>4. peers' = [peers EXCEPT ![id] = p]
  BY DEF p
<1> QED
  BY <1>1, <1>3, <1>4, StoreOK, StoreFinite

(* The states of an entry that is there.                                   *)
LEMMA KnownSplit ==
  /\ Known = Challenged \cup Working
  /\ Challenged \cap Working = {}
  /\ Configured \subseteq Working
  /\ Known \subseteq Ids
BY DEF Known, Challenged, Working, Configured, InState

(* Every step leaves sound entries.                                        *)
LEMMA EntriesStep ==
  ASSUME EntriesOK, now \in Nat, issued \in Seq([id : Ids, addr : Addrs, uses : Nat]),
         [Next]_vars
  PROVE  EntriesOK'
<1>1. ASSUME NEW id \in Ids, NEW from \in Addrs, Key(id, from) PROVE EntriesOK'
  <2>1. CASE KeyUnsolicited(id, from)
    BY <2>1 DEF KeyUnsolicited, entryVars, EntriesOK, PeersOK, ListsFinite
  <2>2. CASE KeyWrong(id, from)
    BY <2>2, AbandonEntries, KnownSplit DEF KeyWrong, Answering
  <2>3. CASE KeyFull(id, from)
    BY <2>3, AbandonEntries, KnownSplit DEF KeyFull, Answering
  <2>4. CASE KeyRight(id, from)
    <3>1. id \in Known
      BY <2>4, KnownSplit DEF KeyRight, Answering
    <3> QED
      BY <2>4, <3>1, MovedEntries DEF KeyRight
  <2>5. CASE ReloginStale(id, from)
    BY <2>5, TakenEntries, KnownSplit DEF ReloginStale, Relogging
  <2>6. CASE ReloginWrong(id, from)
    BY <2>6, TakenEntries, KnownSplit DEF ReloginWrong, Relogging
  <2>7. CASE ReloginFull(id, from)
    BY <2>7, TakenEntries, KnownSplit DEF ReloginFull, Relogging
  <2>8. CASE ReloginRight(id, from)
    <3>1. id \in Known
      BY <2>8, KnownSplit DEF ReloginRight, Relogging
    <3> QED
      BY <2>8, <3>1, MovedEntries DEF ReloginRight
  <2> QED
    BY <1>1, <2>1, <2>2, <2>3, <2>4, <2>5, <2>6, <2>7, <2>8 DEF Key
<1>2. ASSUME NEW id \in Ids, NEW from \in Addrs, Config(id, from) PROVE EntriesOK'
  <2>1. id \in Known /\ peers[id].salt \in Nat
    BY <1>2, KnownSplit DEF Config, EntriesOK, PeersOK, PeerRecords
  <2> QED
    BY <1>2, <2>1, MovedEntries DEF Config
<1>3. ASSUME NEW id \in Ids, NEW from \in Addrs, Heard(id, from) PROVE EntriesOK'
  <2>1. id \in Known /\ peers[id].salt \in Nat
    BY <1>3, KnownSplit DEF Heard, EntriesOK, PeersOK, PeerRecords
  <2> QED
    BY <1>3, <2>1, MovedEntries DEF Heard
<1>4. ASSUME NEW S, Forget(S) PROVE EntriesOK'
  BY <1>4, ForgetOK, ForgetFinite DEF Forget, EntriesOK
<1>5. ASSUME NEW id \in Ids, NEW from \in Addrs, Close(id, from) PROVE EntriesOK'
  BY <1>4, <1>5 DEF Close
<1>6. ASSUME NEW S, SetAccess(S) PROVE EntriesOK'
  BY <1>4, <1>6 DEF SetAccess
<1>7. CASE Expire
  BY <1>4, <1>7 DEF Expire
<1>8. CASE UNCHANGED peers
  BY <1>8 DEF EntriesOK, PeersOK, ListsFinite
<1> QED
  BY <1>1, <1>2, <1>3, <1>5, <1>6, <1>7, <1>8, LoginEntries
     DEF Next, Quiet, Clock, vars, entryVars

-----------------------------------------------------------------------------
(* Every challenge that is outstanding was sent to the address it is kept  *)
(* for, and has not been used.                                             *)

Sent(ledger, id, addr, salt) ==
  salt \in 1..Len(ledger) /\ ledger[salt] = [id |-> id, addr |-> addr, uses |-> 0]

(* One address has at most one challenge for an ID.                        *)
HeldOK(id) ==
  /\ \A r \in peers[id].relogins : Sent(issued, id, r.addr, r.salt)
  /\ \A q, r \in peers[id].relogins : q.addr = r.addr => q = r
  /\ peers[id].state = "challenged" =>
       /\ Sent(issued, id, peers[id].addr, peers[id].salt)
       /\ \A r \in peers[id].relogins : r.addr # peers[id].addr

ChallengesOK == \A id \in Ids : HeldOK(id)

Ledger == [id : Ids, addr : Addrs, uses : Nat]

(* Counting an accepted answer keeps the ledger of challenges typed.       *)
LEMMA AcceptType ==
  ASSUME issued \in Seq(Ledger), NEW salt \in 1..Len(issued), NEW id \in Ids,
         proof \in [Ids -> Nat], Accept(id, salt)
  PROVE  /\ issued' \in Seq(Ledger)
         /\ Len(issued') = Len(issued)
         /\ proof' \in [Ids -> Nat]
         /\ \A s \in 1..Len(issued) : s # salt => issued'[s] = issued[s]
         /\ issued'[salt] = [id |-> issued[salt].id, addr |-> issued[salt].addr,
                             uses |-> issued[salt].uses + 1]
<1> DEFINE e == [id |-> issued[salt].id, addr |-> issued[salt].addr,
                 uses |-> issued[salt].uses + 1]
<1>1. issued[salt] \in Ledger
  BY ElementOfSeq
<1>2. e \in Ledger
  BY <1>1 DEF Ledger
<1>3. issued' = [issued EXCEPT ![salt] = e]
  BY DEF Accept
<1> HIDE DEF e
<1>4. issued' \in Seq(Ledger) /\ Len(issued') = Len(issued)
  BY <1>2, <1>3, ExceptSeq
<1>5. /\ \A s \in 1..Len(issued) : s # salt => issued'[s] = issued[s]
      /\ issued'[salt] = e
  BY <1>3, LenProperties
<1>6. proof' \in [Ids -> Nat]
  BY DEF Accept
<1> QED
  BY <1>4, <1>5, <1>6 DEF e

(* Issuing a challenge keeps the ledger typed and what is in it.           *)
LEMMA IssueType ==
  ASSUME issued \in Seq(Ledger), NEW id \in Ids, NEW from \in Addrs, Issue(id, from)
  PROVE  /\ issued' \in Seq(Ledger)
         /\ Len(issued') = Len(issued) + 1
         /\ \A s \in 1..Len(issued) : issued'[s] = issued[s]
         /\ issued'[NextSalt] = [id |-> id, addr |-> from, uses |-> 0]
         /\ NextSalt \in 1..Len(issued')
BY AppendProperties, LenProperties DEF Issue, NextSalt, Ledger

(* An ID nobody touches keeps its challenges.                              *)
LEMMA HeldStays ==
  ASSUME NEW j \in Ids, HeldOK(j), peers'[j] = peers[j],
         \A a, s : Sent(issued, j, a, s) => Sent(issued', j, a, s)
  PROVE  HeldOK(j)'
BY DEF HeldOK

(* An ID that was forgotten has none.                                      *)
LEMMA HeldGone ==
  ASSUME NEW j \in Ids, peers'[j] = NoPeer
  PROVE  HeldOK(j)'
BY DEF HeldOK, NoPeer

(* Challenges stay on the ledger when it is left alone or added to, and    *)
(* when the answer to another one is accepted.                             *)
LEMMA SentStays ==
  ASSUME NEW j, NEW a, NEW s, Sent(issued, j, a, s), issued \in Seq(Ledger),
         \/ UNCHANGED issued
         \/ \E id \in Ids, from \in Addrs : Issue(id, from)
  PROVE  Sent(issued', j, a, s)
<1>1. CASE UNCHANGED issued
  BY <1>1 DEF Sent
<1>2. ASSUME NEW id \in Ids, NEW from \in Addrs, Issue(id, from) PROVE Sent(issued', j, a, s)
  <2>1. Len(issued) \in Nat /\ Len(issued') = Len(issued) + 1
    BY <1>2, IssueType, LenProperties
  <2>2. \A t \in 1..Len(issued) : issued'[t] = issued[t]
    BY <1>2, IssueType
  <2>3. s \in 1..Len(issued) /\ issued[s] = [id |-> j, addr |-> a, uses |-> 0]
    BY DEF Sent
  <2>4. s \in 1..Len(issued') /\ issued'[s] = issued[s]
    BY <2>1, <2>2, <2>3
  <2> QED
    BY <2>3, <2>4 DEF Sent
<1> QED
  BY <1>1, <1>2

(* An entry whose list of challenges was cut down keeps them.              *)
LEMMA HeldFewer ==
  ASSUME NEW id \in Ids, HeldOK(id), UNCHANGED issued,
         peers'[id].relogins \subseteq peers[id].relogins,
         \/ peers'[id].state # "challenged"
         \/ /\ peers[id].state = "challenged"
            /\ peers'[id].addr = peers[id].addr /\ peers'[id].salt = peers[id].salt
  PROVE  HeldOK(id)'
BY DEF HeldOK, Sent

(* What offerRelogin leaves beside an entry.                               *)
LEMMA OfferedMembers ==
  ASSUME NEW L, NEW from, NEW salt, NEW new \in Offered(L, from, salt)
  PROVE  \A r \in new : \/ r \in L /\ r.addr # from
                        \/ r = [addr |-> from, salt |-> salt, at |-> now]
<1> DEFINE kept == {r \in L : r.addr # from /\ now - r.at <= LoginTimeout}
           c == [addr |-> from, salt |-> salt, at |-> now]
<1>1. \/ new = kept \cup {c}
      \/ \E q \in Oldest(kept) : new = (kept \ {q}) \cup {c}
  BY Zenon DEF Offered
<1>2. new \subseteq kept \cup {c}
  BY <1>1
<1> QED
  BY <1>2

(* handleLogin keeps the challenges right.                                 *)
LEMMA LoginChallenges ==
  ASSUME EntriesOK, ChallengesOK, issued \in Seq(Ledger),
         NEW id \in Ids, NEW from \in Addrs, Login(id, from)
  PROVE  ChallengesOK'
<1>1. ASSUME NEW j \in Ids, peers'[j] = peers[j] PROVE HeldOK(j)'
  BY <1>1, HeldStays, SentStays
     DEF ChallengesOK, Login, LoginNew, LoginNoSalt, LoginAgain, LoginBeside
<1>2. ASSUME Issue(id, from) PROVE Sent(issued', id, from, NextSalt)
  BY <1>2, IssueType DEF Sent
<1>3. CASE LoginNew(id, from)
  <2> DEFINE out == IF waiting >= MaxHalfOpen THEN Evictee ELSE {}
             p == [state |-> "challenged", addr |-> from, salt |-> NextSalt,
                   first |-> now, heard |-> now, relogins |-> {}]
  <2>1. peers' = [i \in Ids |-> IF i = id THEN p
                                ELSE IF i \in out THEN NoPeer ELSE peers[i]]
    BY <1>3 DEF LoginNew
  <2> HIDE DEF out
  <2>2. \A j \in Ids : j # id => peers'[j] = peers[j] \/ peers'[j] = NoPeer
    BY <2>1
  <2>3. peers'[id] = p /\ Issue(id, from)
    BY <1>3, <2>1 DEF LoginNew
  <2>4. HeldOK(id)'
    BY <1>2, <2>3 DEF HeldOK
  <2> QED
    BY <1>1, <2>2, <2>4, HeldGone DEF ChallengesOK
<1>4. CASE LoginNoSalt(id, from)
  <2>1. \A j \in Ids : peers'[j] = peers[j] \/ peers'[j] = NoPeer
    BY <1>4 DEF LoginNoSalt, Forget
  <2> QED
    BY <1>1, <2>1, HeldGone DEF ChallengesOK
<1>5. CASE LoginAgain(id, from)
  <2> DEFINE p == [state |-> "challenged", addr |-> from, salt |-> NextSalt,
                   first |-> peers[id].first, heard |-> now,
                   relogins |-> peers[id].relogins]
  <2>1. peers' = [peers EXCEPT ![id] = p] /\ Issue(id, from)
    BY <1>5 DEF LoginAgain
  <2>2. peers[id].state = "challenged" /\ peers[id].addr = from
    BY <1>5 DEF LoginAgain, Challenged, InState
  <2>3. peers'[id] = p /\ \A j \in Ids : j # id => peers'[j] = peers[j]
    BY <2>1 DEF EntriesOK, PeersOK
  <2>4. HeldOK(id)'
    <3>1. HeldOK(id)
      BY DEF ChallengesOK
    <3>2. Sent(issued', id, from, NextSalt)
      BY <1>2, <2>1
    <3>3. \A r \in peers[id].relogins : Sent(issued', id, r.addr, r.salt)
      BY <3>1, <2>1, SentStays DEF HeldOK
    <3> QED
      BY <3>1, <3>2, <3>3, <2>2, <2>3 DEF HeldOK
  <2> QED
    BY <1>1, <2>3, <2>4 DEF ChallengesOK
<1>6. CASE LoginBeside(id, from)
  <2>1. Issue(id, from)
    BY <1>6 DEF LoginBeside
  <2>2. PICK L \in Offered(peers[id].relogins, from, NextSalt) :
           peers' = [peers EXCEPT ![id] = Beside(id, L)]
    BY <1>6 DEF LoginBeside
  <2>3. \A r \in L : \/ r \in peers[id].relogins /\ r.addr # from
                     \/ r = [addr |-> from, salt |-> NextSalt, at |-> now]
    BY OfferedMembers
  <2>4. peers'[id] = Beside(id, L) /\ \A j \in Ids : j # id => peers'[j] = peers[j]
    BY <2>2 DEF EntriesOK, PeersOK
  <2>5. peers'[id].relogins = L /\ peers'[id].state = peers[id].state
        /\ peers'[id].addr = peers[id].addr /\ peers'[id].salt = peers[id].salt
    BY <2>4 DEF Beside
  <2>6. HeldOK(id)'
    <3>1. HeldOK(id)
      BY DEF ChallengesOK
    <3>2. Sent(issued', id, from, NextSalt)
      BY <1>2, <2>1
    <3>3. \A r \in L : Sent(issued', id, r.addr, r.salt)
      BY <3>1, <3>2, <2>1, <2>3, SentStays DEF HeldOK
    <3>4. \A q, r \in L : q.addr = r.addr => q = r
      BY <3>1, <2>3 DEF HeldOK
    <3>5. peers[id].state = "challenged" =>
            /\ Sent(issued', id, peers[id].addr, peers[id].salt)
            /\ \A r \in L : r.addr # peers[id].addr
      <4>1. peers[id].state = "challenged" => peers[id].addr # from
        BY <1>6 DEF LoginBeside, Challenged, InState
      <4>2. peers[id].state = "challenged" => Sent(issued, id, peers[id].addr, peers[id].salt)
        BY <3>1 DEF HeldOK
      <4> QED
        BY <3>1, <4>1, <4>2, <2>1, <2>3, SentStays DEF HeldOK
    <3> QED
      BY <3>3, <3>4, <3>5, <2>5 DEF HeldOK
  <2> QED
    BY <1>1, <2>4, <2>6 DEF ChallengesOK
<1> QED
  BY <1>3, <1>4, <1>5, <1>6 DEF Login

(* Abandoning a login keeps the challenges right (Master.abandon).         *)
LEMMA AbandonChallenges ==
  ASSUME EntriesOK, ChallengesOK, UNCHANGED issued, NEW id \in Challenged, Abandon(id)
  PROVE  ChallengesOK'
<1>0. id \in Ids
  BY KnownSplit
<1>1. CASE Forget({id})
  <2>1. \A j \in Ids : peers'[j] = peers[j] \/ peers'[j] = NoPeer
    BY <1>1 DEF Forget
  <2> QED
    BY <2>1, HeldStays, HeldGone DEF ChallengesOK
<1>2. ASSUME NEW next \in Oldest(peers[id].relogins),
             peers' = [peers EXCEPT ![id] =
               [state |-> peers[id].state, addr |-> next.addr, salt |-> next.salt,
                first |-> peers[id].first, heard |-> next.at,
                relogins |-> peers[id].relogins \ {next}]]
      PROVE  ChallengesOK'
  <2>1. \A j \in Ids : j # id => peers'[j] = peers[j]
    BY <1>2 DEF EntriesOK, PeersOK
  <2>2. /\ peers'[id].relogins = peers[id].relogins \ {next}
        /\ peers'[id].addr = next.addr /\ peers'[id].salt = next.salt
    BY <1>0, <1>2 DEF EntriesOK, PeersOK
  <2>3. next \in peers[id].relogins
    BY <1>2 DEF Oldest
  <2>4. HeldOK(id)
    BY <1>0 DEF ChallengesOK
  <2>5. HeldOK(id)'
    BY <2>2, <2>3, <2>4 DEF HeldOK
  <2> QED
    BY <2>1, <2>5, HeldStays DEF ChallengesOK
<1> QED
  BY <1>1, <1>2 DEF Abandon

(* Accepting an answer keeps the other challenges right: they were sent    *)
(* for another ID, or to another address.                                  *)
LEMMA AcceptChallenges ==
  ASSUME EntriesOK, ChallengesOK, issued \in Seq(Ledger), proof \in [Ids -> Nat],
         NEW id \in Ids, NEW from, NEW salt, Sent(issued, id, from, salt),
         Accept(id, salt), NEW p, p.state = "authenticated",
         p.relogins \subseteq peers[id].relogins,
         \A r \in p.relogins : r.addr # from,
         peers' = [peers EXCEPT ![id] = p]
  PROVE  ChallengesOK'
<1>1. salt \in 1..Len(issued) /\ issued[salt] = [id |-> id, addr |-> from, uses |-> 0]
  BY DEF Sent
<1>2. /\ Len(issued') = Len(issued)
      /\ \A s \in 1..Len(issued) : s # salt => issued'[s] = issued[s]
  BY <1>1, AcceptType
<1>3. ASSUME NEW j, NEW a, NEW s, Sent(issued, j, a, s), j # id \/ a # from
      PROVE  Sent(issued', j, a, s)
  <2>1. s \in 1..Len(issued) /\ issued[s] = [id |-> j, addr |-> a, uses |-> 0]
    BY <1>3 DEF Sent
  <2>2. s # salt
    <3>1. issued[s].id = j /\ issued[s].addr = a
      BY <2>1
    <3>2. issued[salt].id = id /\ issued[salt].addr = from
      BY <1>1
    <3> QED
      BY <1>3, <3>1, <3>2
  <2> QED
    BY <1>2, <2>1, <2>2 DEF Sent
<1>4. peers'[id] = p /\ \A j \in Ids : j # id => peers'[j] = peers[j]
  BY DEF EntriesOK, PeersOK
<1>5. HeldOK(id)'
  <2>1. HeldOK(id)
    BY DEF ChallengesOK
  <2> QED
    BY <1>3, <1>4, <2>1 DEF HeldOK
<1> QED
  BY <1>3, <1>4, <1>5, HeldStays DEF ChallengesOK

(* Every step keeps the challenges right.                                  *)
LEMMA ChallengesStep ==
  ASSUME EntriesOK, ChallengesOK, issued \in Seq(Ledger), proof \in [Ids -> Nat],
         [Next]_vars
  PROVE  ChallengesOK'
<1>1. ASSUME NEW id \in Ids, NEW p, peers' = [peers EXCEPT ![id] = p], UNCHANGED issued,
             p.relogins \subseteq peers[id].relogins,
             \/ p.state # "challenged"
             \/ /\ peers[id].state = "challenged"
                /\ p.addr = peers[id].addr /\ p.salt = peers[id].salt
      PROVE  ChallengesOK'
  <2>1. peers'[id] = p /\ \A j \in Ids : j # id => peers'[j] = peers[j]
    BY <1>1 DEF EntriesOK, PeersOK
  <2>2. HeldOK(id)'
    BY <1>1, <2>1, HeldFewer DEF ChallengesOK
  <2> QED
    BY <1>1, <2>1, <2>2, HeldStays DEF ChallengesOK
<1>2. ASSUME NEW id \in Ids, NEW from, Taken(id, from), UNCHANGED issued
      PROVE  ChallengesOK'
  <2>1. Others(id, from) \subseteq peers[id].relogins
    BY DEF Others
  <2> QED
    BY <1>1, <1>2, <2>1 DEF Taken, Beside
<1>3. ASSUME NEW S, Forget(S), UNCHANGED issued PROVE ChallengesOK'
  <2>1. \A j \in Ids : peers'[j] = peers[j] \/ peers'[j] = NoPeer
    BY <1>3 DEF Forget
  <2> QED
    BY <1>3, <2>1, HeldStays, HeldGone DEF ChallengesOK
<1>4. CASE UNCHANGED <<peers, issued>>
  BY <1>4, HeldStays DEF ChallengesOK
<1>5. ASSUME NEW id \in Ids, NEW from \in Addrs, Key(id, from) PROVE ChallengesOK'
  <2>1. CASE KeyUnsolicited(id, from)
    BY <2>1, <1>4 DEF KeyUnsolicited, entryVars, histVars
  <2>2. CASE KeyWrong(id, from)
    BY <2>2, AbandonChallenges DEF KeyWrong, Answering
  <2>3. CASE KeyFull(id, from)
    BY <2>3, AbandonChallenges DEF KeyFull, Answering
  <2>4. CASE KeyRight(id, from)
    <3> DEFINE p == [state |-> "authenticated", addr |-> from, salt |-> 0,
                     first |-> peers[id].first, heard |-> now,
                     relogins |-> peers[id].relogins]
    <3>1. peers' = [peers EXCEPT ![id] = p] /\ Accept(id, peers[id].salt)
      BY <2>4 DEF KeyRight
    <3>2. peers[id].state = "challenged" /\ peers[id].addr = from
      BY <2>4 DEF KeyRight, Answering, Challenged, InState
    <3>3. /\ Sent(issued, id, from, peers[id].salt)
          /\ \A r \in peers[id].relogins : r.addr # from
      BY <3>2 DEF ChallengesOK, HeldOK
    <3>4. p.state = "authenticated" /\ p.relogins = peers[id].relogins
      OBVIOUS
    <3> HIDE DEF p
    <3> QED
      BY <3>1, <3>3, <3>4, AcceptChallenges
  <2>5. CASE ReloginStale(id, from)
    BY <2>5, <1>2 DEF ReloginStale, histVars
  <2>6. CASE ReloginWrong(id, from)
    BY <2>6, <1>2 DEF ReloginWrong, histVars
  <2>7. CASE ReloginFull(id, from)
    BY <2>7, <1>2 DEF ReloginFull, histVars
  <2>8. CASE ReloginRight(id, from)
    <3> DEFINE p == [state |-> "authenticated", addr |-> from, salt |-> 0,
                     first |-> peers[id].first, heard |-> now, relogins |-> {}]
    <3>1. peers' = [peers EXCEPT ![id] = p]
      BY <2>8 DEF ReloginRight
    <3>2. PICK r \in Mine(id, from) : Accept(id, r.salt)
      BY <2>8 DEF ReloginRight
    <3>3. Sent(issued, id, from, r.salt)
      BY <3>2 DEF ChallengesOK, HeldOK, Mine
    <3>4. p.state = "authenticated" /\ p.relogins = {}
      OBVIOUS
    <3> HIDE DEF p
    <3> QED
      BY <3>1, <3>2, <3>3, <3>4, AcceptChallenges
  <2> QED
    BY <1>5, <2>1, <2>2, <2>3, <2>4, <2>5, <2>6, <2>7, <2>8 DEF Key
<1>6. ASSUME NEW id \in Ids, NEW from \in Addrs, Config(id, from) \/ Heard(id, from)
      PROVE  ChallengesOK'
  <2> DEFINE p == [state |-> "configured", addr |-> from, salt |-> peers[id].salt,
                   first |-> peers[id].first, heard |-> now,
                   relogins |-> peers[id].relogins]
  <2>1. peers' = [peers EXCEPT ![id] = p] /\ UNCHANGED issued
    BY <1>6 DEF Config, Heard, histVars
  <2>2. p.state # "challenged" /\ p.relogins \subseteq peers[id].relogins
    OBVIOUS
  <2> HIDE DEF p
  <2> QED
    BY <1>1, <2>1, <2>2
<1>7. ASSUME NEW id \in Ids, NEW from \in Addrs, Close(id, from) PROVE ChallengesOK'
  BY <1>3, <1>7 DEF Close
<1>8. ASSUME NEW S, SetAccess(S) PROVE ChallengesOK'
  BY <1>3, <1>8 DEF SetAccess
<1>9. CASE Expire
  BY <1>3, <1>9 DEF Expire
<1> QED
  BY <1>4, <1>5, <1>6, <1>7, <1>8, <1>9, LoginChallenges
     DEF Next, Quiet, Clock, vars, entryVars, histVars

-----------------------------------------------------------------------------
(* The counts: waiting is exact and the stations are within MaxPeers.      *)

(* What storing an entry does to the sets the counts are of.               *)
LEMMA StoreSets ==
  ASSUME PeersOK, NEW id \in Ids, NEW p, peers' = [peers EXCEPT ![id] = p]
  PROVE  /\ p.state = "challenged" => Challenged' = Challenged \cup {id}
         /\ p.state # "challenged" => Challenged' = Challenged \ {id}
         /\ p.state \in {"authenticated", "configured"} => Working' = Working \cup {id}
         /\ p.state \notin {"authenticated", "configured"} => Working' = Working \ {id}
<1>1. peers'[id] = p /\ \A j \in Ids : j # id => peers'[j] = peers[j]
  BY DEF PeersOK
<1> QED
  BY <1>1 DEF Challenged, Working, InState

(* What forgetting entries does to them.                                   *)
LEMMA ForgetSets ==
  ASSUME NEW S, peers' = [id \in Ids |-> IF id \in S THEN NoPeer ELSE peers[id]]
  PROVE  Challenged' = Challenged \ S /\ Working' = Working \ S
BY DEF Challenged, Working, InState, NoPeer

(* The sets are finite, and Stations counts one of them (Master.stations). *)
LEMMA Counting ==
  /\ IsFiniteSet(Challenged) /\ IsFiniteSet(Working)
  /\ Cardinality(Challenged) \in Nat /\ Cardinality(Working) \in Nat
  /\ waiting = Cardinality(Challenged) => Stations = Cardinality(Working)
<1>1. Challenged \in SUBSET Ids /\ Working \in SUBSET Ids
  BY DEF Challenged, Working, InState
<1>2. IsFiniteSet(Challenged) /\ IsFiniteSet(Working)
  BY <1>1, FS_Subset, RegistryAssumption DEF RegistryAssumption
<1>3. Cardinality(Challenged) \in Nat /\ Cardinality(Working) \in Nat
  BY <1>2, FS_CardinalityType
<1>4. Cardinality(Known) = Cardinality(Challenged) + Cardinality(Working)
  <2>1. Cardinality(Challenged \cup Working) =
          Cardinality(Challenged) + Cardinality(Working) - Cardinality(Challenged \cap Working)
    BY <1>2, FS_Union
  <2>2. Cardinality(Challenged \cap Working) = 0
    BY KnownSplit, FS_EmptySet
  <2> QED
    BY <1>3, <2>1, <2>2, KnownSplit
<1> QED
  BY <1>2, <1>3, <1>4 DEF Stations

(* Forgetting entries keeps the counts (Master.forget).                    *)
LEMMA ForgetCounts ==
  ASSUME WithinLimits, NEW S, Forget(S)
  PROVE  WithinLimits'
<1>1. Challenged' = Challenged \ S /\ Working' = Working \ S
  BY ForgetSets DEF Forget
<1>2. /\ Cardinality(Challenged \ S) = Cardinality(Challenged) - Cardinality(Challenged \cap S)
      /\ IsFiniteSet(Working \ S) /\ Cardinality(Working \ S) <= Cardinality(Working)
  BY Counting, FS_Difference, FS_Subset
<1>3. Cardinality(Working \ S) \in Nat
  BY <1>2, FS_CardinalityType
<1>4. waiting' = waiting - Cardinality(Challenged \cap S)
  <2>1. S \cap Challenged = Challenged \cap S
    OBVIOUS
  <2> QED
    BY <2>1 DEF Forget
<1> QED
  BY <1>1, <1>2, <1>3, <1>4, Counting, RegistryAssumption DEF WithinLimits, RegistryAssumption

(* A login in progress that is accepted moves from one count to the other; *)
(* the limit was asked.                                                    *)
LEMMA AcceptedCounts ==
  ASSUME PeersOK, WithinLimits, NEW id \in Ids, NEW p, p.state = "authenticated",
         id \in Challenged \/ id \in Working,
         id \in Challenged => Stations < MaxPeers,
         waiting' = IF id \in Challenged THEN waiting - 1 ELSE waiting,
         peers' = [peers EXCEPT ![id] = p]
  PROVE  WithinLimits'
<1>1. Challenged' = Challenged \ {id} /\ Working' = Working \cup {id}
  BY StoreSets
<1>2. CASE id \in Challenged
  <2>1. id \notin Working
    BY <1>2, KnownSplit
  <2>2. /\ Cardinality(Challenged \ {id}) = Cardinality(Challenged) - 1
        /\ Cardinality(Working \cup {id}) = Cardinality(Working) + 1
    BY <1>2, <2>1, Counting, FS_AddElement, FS_RemoveElement
  <2>3. Stations = Cardinality(Working)
    BY Counting DEF WithinLimits
  <2> QED
    BY <1>1, <1>2, <2>2, <2>3, Counting, RegistryAssumption
       DEF WithinLimits, RegistryAssumption
<1>3. CASE id \notin Challenged
  <2>1. Challenged' = Challenged /\ Working' = Working
    BY <1>1, <1>3
  <2> QED
    BY <1>3, <2>1 DEF WithinLimits
<1> QED
  BY <1>2, <1>3

(* A step that leaves every state as it was keeps the counts.              *)
LEMMA SameCounts ==
  ASSUME PeersOK, WithinLimits, NEW id \in Ids, NEW p,
         p.state = peers[id].state, peers' = [peers EXCEPT ![id] = p], UNCHANGED waiting
  PROVE  WithinLimits'
<1>1. Challenged' = Challenged /\ Working' = Working
  <2>1. peers'[id] = p /\ \A j \in Ids : j # id => peers'[j] = peers[j]
    BY DEF PeersOK
  <2> QED
    BY <2>1 DEF Challenged, Working, InState
<1> QED
  BY <1>1 DEF WithinLimits

(* A new login is one more waiting, less the one it pushed out             *)
(* (handleLogin, evictHalfOpen).                                           *)
LEMMA LoginNewCounts ==
  ASSUME PeersOK, WithinLimits, NEW id \in Ids, NEW from, LoginNew(id, from)
  PROVE  WithinLimits'
<1> DEFINE out == IF waiting >= MaxHalfOpen THEN Evictee ELSE {}
           p == [state |-> "challenged", addr |-> from, salt |-> NextSalt,
                 first |-> now, heard |-> now, relogins |-> {}]
<1>1. /\ peers' = [i \in Ids |-> IF i = id THEN p
                                 ELSE IF i \in out THEN NoPeer ELSE peers[i]]
      /\ waiting' = waiting - Cardinality(out) + 1
      /\ id \notin Known
  BY DEF LoginNew
<1>2. out \subseteq Challenged
  BY DEF Evictee, Evicted, Oldest, StillWaiting
<1>3. id \notin Challenged /\ id \notin Working
  BY <1>1, KnownSplit
<1> HIDE DEF out
<1>4. Challenged' = (Challenged \ out) \cup {id} /\ Working' = Working
  <2>1. \A j \in Ids : /\ j = id => peers'[j].state = "challenged"
                       /\ j # id /\ j \in out => peers'[j].state = "none"
                       /\ j # id /\ j \notin out => peers'[j].state = peers[j].state
    BY <1>1 DEF NoPeer
  <2>2. Challenged' = (Challenged \ out) \cup {id}
    BY <2>1 DEF Challenged, InState
  <2>3. \A j \in out : j \notin Working
    BY <1>2, KnownSplit
  <2>4. Working' = Working
    BY <1>3, <2>1, <2>3 DEF Working, InState
  <2> QED
    BY <2>2, <2>4
<1>5. /\ IsFiniteSet(Challenged \ out)
      /\ Cardinality(Challenged \ out) = Cardinality(Challenged) - Cardinality(out)
  <2>1. Challenged \cap out = out
    BY <1>2
  <2> QED
    BY <2>1, Counting, FS_Difference
<1>6. Cardinality((Challenged \ out) \cup {id}) = Cardinality(Challenged \ out) + 1
  BY <1>3, <1>5, FS_AddElement
<1>7. IsFiniteSet(out) /\ Cardinality(out) \in Nat
  BY <1>2, Counting, FS_Subset, FS_CardinalityType
<1> QED
  BY <1>1, <1>4, <1>5, <1>6, <1>7, Counting DEF WithinLimits

(* Abandoning a login keeps the counts (Master.abandon).                   *)
LEMMA AbandonCounts ==
  ASSUME PeersOK, WithinLimits, NEW id \in Ids, Abandon(id)
  PROVE  WithinLimits'
<1>1. ASSUME NEW next,
             peers' = [peers EXCEPT ![id] =
               [state |-> peers[id].state, addr |-> next.addr, salt |-> next.salt,
                first |-> peers[id].first, heard |-> next.at,
                relogins |-> peers[id].relogins \ {next}]],
             UNCHANGED waiting
      PROVE  WithinLimits'
  BY <1>1, SameCounts
<1> QED
  BY <1>1, ForgetCounts DEF Abandon

(* Every step keeps the counts.                                            *)
LEMMA CountsStep ==
  ASSUME PeersOK, WithinLimits, [Next]_vars
  PROVE  WithinLimits'
<1>1. CASE UNCHANGED <<peers, waiting>>
  BY <1>1 DEF WithinLimits, Challenged, Working, InState
<1>2. ASSUME NEW id \in Ids, NEW L, peers' = [peers EXCEPT ![id] = Beside(id, L)],
             UNCHANGED waiting
      PROVE  WithinLimits'
  <2>1. Beside(id, L).state = peers[id].state
    BY DEF Beside
  <2> QED
    BY <1>2, <2>1, SameCounts
<1>3. ASSUME NEW id \in Ids, NEW from \in Addrs, Login(id, from) PROVE WithinLimits'
  <2>1. CASE LoginNew(id, from)
    BY <2>1, LoginNewCounts
  <2>2. CASE LoginNoSalt(id, from)
    BY <2>2, ForgetCounts DEF LoginNoSalt
  <2>3. CASE LoginAgain(id, from)
    <3> DEFINE p == [state |-> "challenged", addr |-> from, salt |-> NextSalt,
                     first |-> peers[id].first, heard |-> now,
                     relogins |-> peers[id].relogins]
    <3>1. peers' = [peers EXCEPT ![id] = p] /\ UNCHANGED waiting
      BY <2>3 DEF LoginAgain
    <3>2. p.state = peers[id].state
      BY <2>3 DEF LoginAgain, Challenged, InState
    <3> HIDE DEF p
    <3> QED
      BY <3>1, <3>2, SameCounts
  <2>4. CASE LoginBeside(id, from)
    BY <2>4, <1>2 DEF LoginBeside
  <2> QED
    BY <1>3, <2>1, <2>2, <2>3, <2>4 DEF Login
<1>4. ASSUME NEW id \in Ids, NEW from \in Addrs, Key(id, from) PROVE WithinLimits'
  <2>1. CASE KeyUnsolicited(id, from)
    BY <2>1, <1>1 DEF KeyUnsolicited, entryVars
  <2>2. CASE KeyWrong(id, from)
    BY <2>2, AbandonCounts DEF KeyWrong
  <2>3. CASE KeyFull(id, from)
    BY <2>3, AbandonCounts DEF KeyFull
  <2>4. CASE KeyRight(id, from)
    <3> DEFINE p == [state |-> "authenticated", addr |-> from, salt |-> 0,
                     first |-> peers[id].first, heard |-> now,
                     relogins |-> peers[id].relogins]
    <3>1. /\ peers' = [peers EXCEPT ![id] = p] /\ waiting' = waiting - 1
          /\ id \in Challenged /\ Stations < MaxPeers
      BY <2>4 DEF KeyRight, Answering
    <3>2. p.state = "authenticated"
      OBVIOUS
    <3> HIDE DEF p
    <3> QED
      BY <3>1, <3>2, AcceptedCounts
  <2>5. CASE ReloginStale(id, from)
    BY <2>5, <1>2 DEF ReloginStale, Taken
  <2>6. CASE ReloginWrong(id, from)
    BY <2>6, <1>2 DEF ReloginWrong, Taken
  <2>7. CASE ReloginFull(id, from)
    BY <2>7, <1>2 DEF ReloginFull, Taken
  <2>8. CASE ReloginRight(id, from)
    <3> DEFINE p == [state |-> "authenticated", addr |-> from, salt |-> 0,
                     first |-> peers[id].first, heard |-> now, relogins |-> {}]
    <3>1. /\ peers' = [peers EXCEPT ![id] = p]
          /\ waiting' = IF id \in Challenged THEN waiting - 1 ELSE waiting
          /\ id \in Challenged \/ id \in Working
          /\ id \in Challenged => Stations < MaxPeers
      BY <2>8 DEF ReloginRight, Relogging
    <3>2. p.state = "authenticated"
      OBVIOUS
    <3> HIDE DEF p
    <3> QED
      BY <3>1, <3>2, AcceptedCounts
  <2> QED
    BY <1>4, <2>1, <2>2, <2>3, <2>4, <2>5, <2>6, <2>7, <2>8 DEF Key
<1>5. ASSUME NEW id \in Ids, NEW from \in Addrs, Config(id, from) \/ Heard(id, from)
      PROVE  WithinLimits'
  <2> DEFINE p == [state |-> "configured", addr |-> from, salt |-> peers[id].salt,
                   first |-> peers[id].first, heard |-> now,
                   relogins |-> peers[id].relogins]
  <2>1. peers' = [peers EXCEPT ![id] = p] /\ UNCHANGED waiting /\ id \in Working
    BY <1>5, KnownSplit DEF Config, Heard
  <2>2. p.state = "configured"
    OBVIOUS
  <2> HIDE DEF p
  <2>3. Challenged' = Challenged \ {id} /\ Working' = Working \cup {id}
    BY <2>1, <2>2, StoreSets
  <2>4. Challenged' = Challenged /\ Working' = Working
    BY <2>1, <2>3, KnownSplit
  <2> QED
    BY <2>1, <2>4 DEF WithinLimits
<1>6. ASSUME NEW id \in Ids, NEW from \in Addrs, Close(id, from) PROVE WithinLimits'
  BY <1>6, ForgetCounts DEF Close
<1>7. ASSUME NEW S, SetAccess(S) PROVE WithinLimits'
  BY <1>7, ForgetCounts DEF SetAccess
<1>8. CASE Expire
  BY <1>8, ForgetCounts DEF Expire
<1> QED
  BY <1>1, <1>3, <1>4, <1>5, <1>6, <1>7, <1>8 DEF Next, Quiet, Clock, vars, entryVars

-----------------------------------------------------------------------------
(* Every registration that works was proved where it works.                *)

ProofOK(id) ==
  peers[id].state \in {"authenticated", "configured"} =>
    /\ proof[id] \in 1..Len(issued)
    /\ issued[proof[id]].id = id
    /\ issued[proof[id]].addr = peers[id].addr
    /\ issued[proof[id]].uses = 1

UsedOnce == \A s \in 1..Len(issued) : issued[s].uses <= 1

(* ProvedHere, one ID and one challenge at a time.                         *)
LEMMA ProvedHereParts == ProvedHere <=> (\A id \in Ids : ProofOK(id)) /\ UsedOnce
BY DEF ProvedHere, ProofOK, UsedOnce, Working, InState

(* A step that leaves the ledger alone, and moves no registration that     *)
(* works, keeps every proof.                                               *)
LEMMA ProofsStay ==
  ASSUME ProvedHere, UNCHANGED issued,
         \A id \in Ids :
           \/ peers'[id].state \notin {"authenticated", "configured"}
           \/ /\ peers[id].state \in {"authenticated", "configured"}
              /\ peers'[id].addr = peers[id].addr
              /\ proof'[id] = proof[id]
  PROVE  ProvedHere'
<1>1. \A id \in Ids : ProofOK(id)'
  BY ProvedHereParts DEF ProofOK
<1>2. UsedOnce'
  BY ProvedHereParts DEF UsedOnce
<1> QED
  BY <1>1, <1>2 DEF ProvedHere, ProofOK, UsedOnce, Working, InState

(* So does one that sends a challenge.                                     *)
LEMMA ProofsIssued ==
  ASSUME ProvedHere, issued \in Seq(Ledger), UNCHANGED proof,
         NEW i \in Ids, NEW from \in Addrs, Issue(i, from),
         \A id \in Ids :
           \/ peers'[id].state \notin {"authenticated", "configured"}
           \/ /\ peers[id].state \in {"authenticated", "configured"}
              /\ peers'[id].addr = peers[id].addr
  PROVE  ProvedHere'
<1>1. /\ Len(issued) \in Nat /\ Len(issued') = Len(issued) + 1
      /\ \A s \in 1..Len(issued) : issued'[s] = issued[s]
      /\ issued'[NextSalt] = [id |-> i, addr |-> from, uses |-> 0]
      /\ NextSalt = Len(issued) + 1
  BY IssueType, LenProperties DEF NextSalt
<1>2. ASSUME NEW id \in Ids PROVE ProofOK(id)'
  <2>1. SUFFICES ASSUME peers'[id].state \in {"authenticated", "configured"}
                 PROVE  /\ proof'[id] \in 1..Len(issued')
                        /\ issued'[proof'[id]].id = id
                        /\ issued'[proof'[id]].addr = peers'[id].addr
                        /\ issued'[proof'[id]].uses = 1
    BY DEF ProofOK
  <2>2. ProofOK(id) /\ peers[id].state \in {"authenticated", "configured"}
        /\ peers'[id].addr = peers[id].addr
    BY <2>1, ProvedHereParts
  <2>3. proof[id] \in 1..Len(issued)
    BY <2>2 DEF ProofOK
  <2>4. proof[id] \in 1..Len(issued') /\ issued'[proof[id]] = issued[proof[id]]
    BY <1>1, <2>3
  <2> QED
    BY <2>2, <2>4 DEF ProofOK
<1>3. UsedOnce'
  <2>1. ASSUME NEW s \in 1..Len(issued') PROVE issued'[s].uses <= 1
    <3>1. CASE s \in 1..Len(issued)
      BY <1>1, <3>1, ProvedHereParts DEF UsedOnce
    <3>2. CASE s = NextSalt
      <4>1. issued'[s].uses = 0
        BY <1>1, <3>2
      <4> QED
        BY <4>1
    <3> QED
      BY <1>1, <3>1, <3>2
  <2> QED
    BY <2>1 DEF UsedOnce
<1> QED
  BY <1>2, <1>3 DEF ProvedHere, ProofOK, UsedOnce, Working, InState

(* And one that accepts the answer to a challenge, unused until then.      *)
LEMMA ProofsAccepted ==
  ASSUME PeersOK, ProvedHere, issued \in Seq(Ledger), proof \in [Ids -> Nat],
         NEW id \in Ids, NEW from, NEW salt, Sent(issued, id, from, salt),
         Accept(id, salt), NEW p, p.addr = from, peers' = [peers EXCEPT ![id] = p]
  PROVE  ProvedHere'
<1>1. salt \in 1..Len(issued) /\ issued[salt] = [id |-> id, addr |-> from, uses |-> 0]
  BY DEF Sent
<1>2. /\ Len(issued') = Len(issued)
      /\ \A s \in 1..Len(issued) : s # salt => issued'[s] = issued[s]
      /\ issued'[salt] = [id |-> issued[salt].id, addr |-> issued[salt].addr,
                          uses |-> issued[salt].uses + 1]
  BY <1>1, AcceptType
<1>3. issued'[salt] = [id |-> id, addr |-> from, uses |-> 1]
  BY <1>1, <1>2
<1>4. proof'[id] = salt /\ \A j \in Ids : j # id => proof'[j] = proof[j]
  BY DEF Accept
<1>5. peers'[id] = p /\ \A j \in Ids : j # id => peers'[j] = peers[j]
  BY DEF PeersOK
<1>6. ProofOK(id)'
  BY <1>1, <1>2, <1>3, <1>4, <1>5 DEF ProofOK
<1>7. ASSUME NEW j \in Ids, j # id PROVE ProofOK(j)'
  <2>1. SUFFICES ASSUME peers[j].state \in {"authenticated", "configured"}
                 PROVE  /\ proof[j] \in 1..Len(issued)
                        /\ issued'[proof[j]] = issued[proof[j]]
    BY <1>2, <1>4, <1>5, <1>7, ProvedHereParts DEF ProofOK
  <2>2. proof[j] \in 1..Len(issued) /\ issued[proof[j]].id = j
    BY <2>1, ProvedHereParts DEF ProofOK
  <2>3. issued[salt].id = id
    BY <1>1
  <2>4. proof[j] # salt
    BY <1>7, <2>2, <2>3
  <2> QED
    BY <1>2, <2>2, <2>4
<1>8. UsedOnce'
  <2>1. ASSUME NEW s \in 1..Len(issued) PROVE issued'[s].uses <= 1
    <3>1. CASE s = salt
      <4>1. issued'[s].uses = 1
        BY <1>3, <3>1
      <4> QED
        BY <4>1
    <3>2. CASE s # salt
      BY <1>2, <3>2, ProvedHereParts DEF UsedOnce
    <3> QED
      BY <3>1, <3>2
  <2> QED
    BY <1>2, <2>1 DEF UsedOnce
<1> QED
  BY <1>6, <1>7, <1>8 DEF ProvedHere, ProofOK, UsedOnce, Working, InState

(* Every step keeps every proof.                                           *)
LEMMA ProofsStep ==
  ASSUME PeersOK, ChallengesOK, ProvedHere, issued \in Seq(Ledger),
         proof \in [Ids -> Nat], [Next]_vars
  PROVE  ProvedHere'
<1>1. ASSUME NEW S, Forget(S), UNCHANGED issued PROVE ProvedHere'
  <2>1. \A id \in Ids : \/ peers'[id].state = "none"
                        \/ peers'[id] = peers[id] /\ proof'[id] = proof[id]
    BY <1>1 DEF Forget, NoPeer
  <2> QED
    BY <1>1, <2>1, ProofsStay
<1>2. ASSUME NEW id \in Ids, NEW p, peers' = [peers EXCEPT ![id] = p],
             UNCHANGED <<issued, proof>>,
             \/ p.state = peers[id].state
             \/ peers[id].state \in {"authenticated", "configured"},
             p.state = "challenged" \/ p.addr = peers[id].addr
      PROVE  ProvedHere'
  <2>1. peers'[id] = p /\ \A j \in Ids : j # id => peers'[j] = peers[j]
    BY <1>2 DEF PeersOK
  <2> QED
    BY <1>2, <2>1, ProofsStay
<1>3. ASSUME NEW id \in Ids, NEW from, Taken(id, from), UNCHANGED <<issued, proof>>
      PROVE  ProvedHere'
  BY <1>2, <1>3 DEF Taken, Beside
<1>4. ASSUME NEW id \in Challenged, Abandon(id), UNCHANGED issued PROVE ProvedHere'
  <2>1. id \in Ids /\ peers[id].state = "challenged"
    BY <1>4 DEF Challenged, InState
  <2>2. ASSUME NEW next,
               peers' = [peers EXCEPT ![id] =
                 [state |-> peers[id].state, addr |-> next.addr, salt |-> next.salt,
                  first |-> peers[id].first, heard |-> next.at,
                  relogins |-> peers[id].relogins \ {next}]],
               UNCHANGED proof
        PROVE  ProvedHere'
    BY <1>2, <1>4, <2>1, <2>2
  <2> QED
    BY <1>1, <1>4, <2>1, <2>2 DEF Abandon
<1>5. CASE UNCHANGED <<peers, issued, proof>>
  BY <1>5, ProofsStay
<1>6. ASSUME NEW id \in Ids, NEW from \in Addrs, Login(id, from) PROVE ProvedHere'
  <2>1. CASE LoginNew(id, from)
    <3>1. \A j \in Ids : \/ peers'[j].state \notin {"authenticated", "configured"}
                         \/ peers'[j] = peers[j]
      <4> DEFINE out == IF waiting >= MaxHalfOpen THEN Evictee ELSE {}
                 p == [state |-> "challenged", addr |-> from, salt |-> NextSalt,
                       first |-> now, heard |-> now, relogins |-> {}]
      <4>1. peers' = [i \in Ids |-> IF i = id THEN p
                                    ELSE IF i \in out THEN NoPeer ELSE peers[i]]
        BY <2>1 DEF LoginNew
      <4> HIDE DEF out
      <4> QED
        BY <4>1 DEF NoPeer
    <3> QED
      BY <2>1, <3>1, ProofsIssued DEF LoginNew
  <2>2. CASE LoginNoSalt(id, from)
    BY <2>2, <1>1 DEF LoginNoSalt
  <2>3. CASE LoginAgain(id, from)
    <3>1. \A j \in Ids : \/ peers'[j].state = "challenged"
                         \/ peers'[j] = peers[j]
      BY <2>3 DEF LoginAgain, PeersOK
    <3> QED
      BY <2>3, <3>1, ProofsIssued DEF LoginAgain
  <2>4. CASE LoginBeside(id, from)
    <3>1. \A j \in Ids : peers'[j].state = peers[j].state /\ peers'[j].addr = peers[j].addr
      BY <2>4 DEF LoginBeside, PeersOK, Beside
    <3> QED
      BY <2>4, <3>1, ProofsIssued DEF LoginBeside
  <2> QED
    BY <1>6, <2>1, <2>2, <2>3, <2>4 DEF Login
<1>7. ASSUME NEW id \in Ids, NEW from \in Addrs, Key(id, from) PROVE ProvedHere'
  <2>1. CASE KeyUnsolicited(id, from)
    BY <2>1, <1>5 DEF KeyUnsolicited, entryVars, histVars
  <2>2. CASE KeyWrong(id, from)
    BY <2>2, <1>4 DEF KeyWrong, Answering
  <2>3. CASE KeyFull(id, from)
    BY <2>3, <1>4 DEF KeyFull, Answering
  <2>4. CASE KeyRight(id, from)
    <3> DEFINE p == [state |-> "authenticated", addr |-> from, salt |-> 0,
                     first |-> peers[id].first, heard |-> now,
                     relogins |-> peers[id].relogins]
    <3>1. peers' = [peers EXCEPT ![id] = p] /\ Accept(id, peers[id].salt)
      BY <2>4 DEF KeyRight
    <3>2. peers[id].state = "challenged" /\ peers[id].addr = from
      BY <2>4 DEF KeyRight, Answering, Challenged, InState
    <3>3. Sent(issued, id, from, peers[id].salt)
      BY <3>2 DEF ChallengesOK, HeldOK
    <3>4. p.addr = from
      OBVIOUS
    <3> HIDE DEF p
    <3> QED
      BY <3>1, <3>3, <3>4, ProofsAccepted
  <2>5. CASE ReloginStale(id, from)
    BY <2>5, <1>3 DEF ReloginStale, histVars
  <2>6. CASE ReloginWrong(id, from)
    BY <2>6, <1>3 DEF ReloginWrong, histVars
  <2>7. CASE ReloginFull(id, from)
    BY <2>7, <1>3 DEF ReloginFull, histVars
  <2>8. CASE ReloginRight(id, from)
    <3> DEFINE p == [state |-> "authenticated", addr |-> from, salt |-> 0,
                     first |-> peers[id].first, heard |-> now, relogins |-> {}]
    <3>1. peers' = [peers EXCEPT ![id] = p]
      BY <2>8 DEF ReloginRight
    <3>2. PICK r \in Mine(id, from) : Accept(id, r.salt)
      BY <2>8 DEF ReloginRight
    <3>3. Sent(issued, id, from, r.salt)
      BY <3>2 DEF ChallengesOK, HeldOK, Mine
    <3>4. p.addr = from
      OBVIOUS
    <3> HIDE DEF p
    <3> QED
      BY <3>1, <3>2, <3>3, <3>4, ProofsAccepted
  <2> QED
    BY <1>7, <2>1, <2>2, <2>3, <2>4, <2>5, <2>6, <2>7, <2>8 DEF Key
<1>8. ASSUME NEW id \in Ids, NEW from \in Addrs, Config(id, from) \/ Heard(id, from)
      PROVE  ProvedHere'
  <2> DEFINE p == [state |-> "configured", addr |-> from, salt |-> peers[id].salt,
                   first |-> peers[id].first, heard |-> now,
                   relogins |-> peers[id].relogins]
  <2>1. peers' = [peers EXCEPT ![id] = p] /\ UNCHANGED <<issued, proof>>
    BY <1>8 DEF Config, Heard, histVars
  <2>2. peers[id].state \in {"authenticated", "configured"} /\ peers[id].addr = from
    BY <1>8 DEF Config, Heard, Working, Configured, InState
  <2>3. p.addr = from
    OBVIOUS
  <2> HIDE DEF p
  <2> QED
    BY <1>2, <2>1, <2>2, <2>3
<1>9. ASSUME NEW id \in Ids, NEW from \in Addrs, Close(id, from) PROVE ProvedHere'
  BY <1>1, <1>9 DEF Close
<1>10. ASSUME NEW S, SetAccess(S) PROVE ProvedHere'
  BY <1>1, <1>10 DEF SetAccess
<1>11. CASE Expire
  BY <1>1, <1>11 DEF Expire
<1> QED
  BY <1>5, <1>6, <1>7, <1>8, <1>9, <1>10, <1>11
     DEF Next, Quiet, Clock, vars, entryVars, histVars

-----------------------------------------------------------------------------
(* The inductive invariant.                                                *)

IndInv ==
  /\ RegistryTypeOK
  /\ ListsFinite
  /\ ChallengesOK
  /\ WithinLimits
  /\ ProvedHere

(* It holds of the empty registry.                                         *)
LEMMA InitIndInv == Init => IndInv
<1> SUFFICES ASSUME Init PROVE IndInv
  OBVIOUS
<1>1. peers = [id \in Ids |-> NoPeer] /\ issued = <<>> /\ proof = [id \in Ids |-> 0]
      /\ waiting = 0
  BY DEF Init
<1>2. \A id \in Ids : peers[id] = NoPeer /\ peers[id].state = "none" /\ peers[id].relogins = {}
  BY <1>1 DEF NoPeer
<1>3. PeersOK
  BY <1>1, <1>2, NoPeerOK DEF PeersOK
<1>4. RegistryTypeOK
  <2>1. attempts \in [Hosts -> Entries] /\ now \in Nat
    BY DEF Init, ThrottleInit, Entries, Untracked
  <2>2. issued \in Seq([id : Ids, addr : Addrs, uses : Nat])
    BY <1>1, EmptySeq
  <2> QED
    BY <1>1, <1>3, <2>1, <2>2 DEF RegistryTypeOK, Init
<1>5. ListsFinite
  BY <1>2, FS_EmptySet DEF ListsFinite
<1>6. ChallengesOK
  BY <1>2 DEF ChallengesOK, HeldOK
<1>7. WithinLimits
  <2>1. Challenged = {} /\ Working = {}
    BY <1>2 DEF Challenged, Working, InState
  <2> QED
    BY <1>1, <2>1, FS_EmptySet, RegistryAssumption DEF WithinLimits, RegistryAssumption
<1>8. ProvedHere
  <2>1. Working = {} /\ Len(issued) = 0
    BY <1>1, <1>2, EmptySeq DEF Working, InState
  <2> QED
    BY <2>1 DEF ProvedHere
<1> QED
  BY <1>4, <1>5, <1>6, <1>7, <1>8 DEF IndInv

(* The list of half-open logins keeps its type (handleLogin).              *)
LEMMA HalfOpenType ==
  ASSUME halfOpen \in SUBSET [id : Ids, began : Nat, salt : Nat], now \in Nat,
         issued \in Seq(Ledger), NEW id \in Ids, NEW from, Login(id, from)
  PROVE  halfOpen' \in SUBSET [id : Ids, began : Nat, salt : Nat]
<1>1. AfterEviction \subseteq halfOpen
  BY DEF AfterEviction
<1>2. NextSalt \in Nat
  BY LenProperties DEF NextSalt
<1>3. [id |-> id, began |-> now, salt |-> NextSalt] \in [id : Ids, began : Nat, salt : Nat]
  BY <1>2
<1>4. CASE LoginNew(id, from)
  <2>1. \/ halfOpen' \subseteq halfOpen \cup {[id |-> id, began |-> now, salt |-> NextSalt]}
        \/ halfOpen' \subseteq halfOpen
    BY <1>1, <1>4 DEF LoginNew
  <2> QED
    BY <1>3, <2>1
<1>5. CASE LoginNoSalt(id, from)
  BY <1>1, <1>5 DEF LoginNoSalt
<1> QED
  BY <1>4, <1>5 DEF Login, LoginAgain, LoginBeside

(* Every step keeps the ledger and the proofs typed.                       *)
LEMMA LedgerStep ==
  ASSUME ChallengesOK, issued \in Seq(Ledger), proof \in [Ids -> Nat], [Next]_vars
  PROVE  issued' \in Seq(Ledger) /\ proof' \in [Ids -> Nat]
<1>1. ASSUME NEW S, Forget(S) PROVE proof' \in [Ids -> Nat]
  BY <1>1 DEF Forget
<1>2. ASSUME NEW id \in Ids, NEW from \in Addrs, Login(id, from)
      PROVE  issued' \in Seq(Ledger) /\ proof' \in [Ids -> Nat]
  BY <1>1, <1>2, IssueType DEF Login, LoginNew, LoginNoSalt, LoginAgain, LoginBeside
<1>3. ASSUME NEW id \in Ids, Abandon(id) PROVE proof' \in [Ids -> Nat]
  BY <1>1, <1>3 DEF Abandon
<1>4. ASSUME NEW id \in Ids, NEW from \in Addrs, Key(id, from)
      PROVE  issued' \in Seq(Ledger) /\ proof' \in [Ids -> Nat]
  <2>1. CASE KeyRight(id, from)
    <3>1. peers[id].salt \in 1..Len(issued)
      BY <2>1 DEF KeyRight, Answering, Challenged, InState, ChallengesOK, HeldOK, Sent
    <3> QED
      BY <2>1, <3>1, AcceptType DEF KeyRight
  <2>2. CASE ReloginRight(id, from)
    <3>1. PICK r \in Mine(id, from) : Accept(id, r.salt)
      BY <2>2 DEF ReloginRight
    <3>2. r.salt \in 1..Len(issued)
      BY <3>1 DEF Mine, ChallengesOK, HeldOK, Sent
    <3> QED
      BY <3>1, <3>2, AcceptType
  <2>3. CASE KeyWrong(id, from) \/ KeyFull(id, from)
    BY <1>3, <2>3 DEF KeyWrong, KeyFull
  <2>4. CASE \/ KeyUnsolicited(id, from) \/ ReloginStale(id, from)
             \/ ReloginWrong(id, from) \/ ReloginFull(id, from)
    BY <2>4 DEF KeyUnsolicited, ReloginStale, ReloginWrong, ReloginFull, histVars
  <2> QED
    BY <1>4, <2>1, <2>2, <2>3, <2>4 DEF Key
<1>5. ASSUME NEW id \in Ids, NEW from \in Addrs,
             Config(id, from) \/ Heard(id, from) \/ Close(id, from)
      PROVE  issued' \in Seq(Ledger) /\ proof' \in [Ids -> Nat]
  BY <1>1, <1>5 DEF Config, Heard, Close, histVars
<1>6. CASE Expire \/ Quiet \/ Clock \/ UNCHANGED vars
  BY <1>1, <1>6 DEF Expire, Quiet, Clock, vars, histVars
<1>7. ASSUME NEW S, SetAccess(S)
      PROVE  issued' \in Seq(Ledger) /\ proof' \in [Ids -> Nat]
  BY <1>1, <1>7 DEF SetAccess
<1> QED
  BY <1>2, <1>4, <1>5, <1>6, <1>7 DEF Next

(* Every step keeps the throttle's table and the clock typed.              *)
LEMMA ThrottleStep ==
  ASSUME attempts \in [Hosts -> Entries], now \in Nat, [Next]_vars
  PROVE  attempts' \in [Hosts -> Entries] /\ now' \in Nat
<1>0. ASSUME NEW from \in Addrs PROVE Host(from) \in Hosts
  BY DEF Addrs, Host
<1>1. ASSUME NEW id \in Ids, NEW from \in Addrs, Login(id, from)
      PROVE  UNCHANGED <<attempts, now>>
  BY <1>1 DEF Login, LoginNew, LoginNoSalt, LoginAgain, LoginBeside
<1>2. ASSUME NEW id \in Ids, NEW from \in Addrs, Key(id, from)
      PROVE  attempts' \in [Hosts -> Entries] /\ UNCHANGED now
  BY <1>0, <1>2, FailType
     DEF Key, KeyUnsolicited, KeyWrong, KeyFull, KeyRight,
         ReloginStale, ReloginWrong, ReloginFull, ReloginRight
<1>3. ASSUME NEW id \in Ids, NEW from \in Addrs,
             Config(id, from) \/ Heard(id, from) \/ Close(id, from)
      PROVE  attempts' \in [Hosts -> Entries] /\ UNCHANGED now
  BY <1>3, ForgettingType DEF Config, Heard, Close, Succeed
<1>4. CASE Quiet \/ Expire \/ UNCHANGED vars \/ \E S \in SUBSET Ids : SetAccess(S)
  BY <1>4, ForgettingType DEF Quiet, Expire, ExpireAttempts, SetAccess, vars
<1>5. CASE Clock
  BY <1>5 DEF Clock, Tick
<1> QED
  BY <1>1, <1>2, <1>3, <1>4, <1>5 DEF Next

(* Every step keeps the rest of the state typed.                           *)
LEMMA RestStep ==
  ASSUME RegistryTypeOK, [Next]_vars
  PROVE  /\ halfOpen' \in SUBSET [id : Ids, began : Nat, salt : Nat]
         /\ registration' \subseteq Ids /\ evicted' \subseteq Ids /\ edits' \in Nat
         /\ phase' \in {"read", "sweep"}
         /\ announced' \subseteq Ids
<1> USE DEF RegistryTypeOK
<1>1. ASSUME NEW id \in Ids, NEW from \in Addrs, Login(id, from)
      PROVE  /\ halfOpen' \in SUBSET [id : Ids, began : Nat, salt : Nat]
             /\ UNCHANGED <<operVars, announced>> /\ phase' = "sweep"
  <2>1. halfOpen' \in SUBSET [id : Ids, began : Nat, salt : Nat]
    BY <1>1, HalfOpenType DEF Ledger
  <2> QED
    BY <1>1, <2>1 DEF Login, LoginNew, LoginNoSalt, LoginAgain, LoginBeside
<1>2. ASSUME NEW id \in Ids, NEW from \in Addrs, Key(id, from)
      PROVE  UNCHANGED <<halfOpen, operVars, announced>> /\ phase' = "sweep"
  BY <1>2 DEF Key, KeyUnsolicited, KeyWrong, KeyFull, KeyRight, ReloginStale,
              ReloginWrong, ReloginFull, ReloginRight, entryVars, histVars
<1>3. ASSUME NEW id \in Ids, NEW from \in Addrs,
             Config(id, from) \/ Heard(id, from) \/ Close(id, from)
      PROVE  /\ UNCHANGED <<halfOpen, operVars>> /\ phase' = "sweep"
             /\ announced' \subseteq announced \cup {id}
  BY <1>3 DEF Config, Heard, Close, histVars
<1>4. ASSUME NEW S \in SUBSET Ids, SetAccess(S)
      PROVE  /\ UNCHANGED <<halfOpen, phase, announced>> /\ edits' \in Nat
             /\ registration' \subseteq Ids /\ evicted' \subseteq Ids
  BY <1>4 DEF SetAccess, Configured, InState
<1>5. CASE Expire
  BY <1>5 DEF Expire
<1>6. CASE Quiet \/ Clock \/ UNCHANGED vars
  BY <1>6 DEF Quiet, Clock, vars, entryVars, operVars, histVars
<1> QED
  BY <1>1, <1>2, <1>3, <1>4, <1>5, <1>6 DEF Next, operVars

(* The invariant is inductive.                                             *)
LEMMA Inductive == IndInv /\ [Next]_vars => IndInv'
<1> SUFFICES ASSUME IndInv, [Next]_vars PROVE IndInv'
  OBVIOUS
<1>0. /\ EntriesOK /\ PeersOK /\ now \in Nat /\ issued \in Seq(Ledger)
      /\ proof \in [Ids -> Nat] /\ attempts \in [Hosts -> Entries]
      /\ ChallengesOK /\ WithinLimits /\ ProvedHere /\ RegistryTypeOK
  BY DEF IndInv, EntriesOK, RegistryTypeOK, Ledger
<1>1. EntriesOK'
  BY <1>0, EntriesStep DEF Ledger
<1>2. ChallengesOK'
  BY <1>0, ChallengesStep
<1>3. WithinLimits'
  BY <1>0, CountsStep
<1>4. ProvedHere'
  BY <1>0, ProofsStep
<1>5. issued' \in Seq(Ledger) /\ proof' \in [Ids -> Nat]
  BY <1>0, LedgerStep
<1>6. waiting' \in Int
  <2>1. Challenged' \in SUBSET Ids
    BY DEF Challenged, InState
  <2>2. Cardinality(Challenged') \in Nat
    BY <2>1, FS_Subset, FS_CardinalityType, RegistryAssumption DEF RegistryAssumption
  <2> QED
    BY <1>3, <2>2 DEF WithinLimits
<1>7. attempts' \in [Hosts -> Entries] /\ now' \in Nat
  BY <1>0, ThrottleStep
<1>8. RegistryTypeOK'
  BY <1>0, <1>1, <1>5, <1>6, <1>7, RestStep DEF RegistryTypeOK, EntriesOK, Ledger
<1> QED
  BY <1>1, <1>2, <1>3, <1>4, <1>8 DEF IndInv, EntriesOK

(* The invariant holds always.                                             *)
LEMMA Invariant == Spec => []IndInv
BY InitIndInv, Inductive, PTL DEF Spec

(* The registry's types: every entry is well formed, and no more           *)
(* challenges are kept beside a registration than maxRelogins.             *)
THEOREM RegistryTypeCorrect == Spec => []RegistryTypeOK
<1>1. IndInv => RegistryTypeOK
  BY DEF IndInv
<1> QED
  BY <1>1, Invariant, PTL

(* Master.waiting never drifts, and never are more stations logged in than *)
(* MaxPeers, whatever is sent from wherever, lost, repeated or reordered.  *)
THEOREM LimitsHold == Spec => []WithinLimits
<1>1. IndInv => WithinLimits
  BY DEF IndInv
<1> QED
  BY <1>1, Invariant, PTL

(* A registration works only from an address that answered a challenge     *)
(* sent to that address for that ID, and no challenge is answered twice.   *)
THEOREM RegistrationsAreProved == Spec => []ProvedHere
<1>1. IndInv => ProvedHere
  BY DEF IndInv
<1> QED
  BY <1>1, Invariant, PTL

-----------------------------------------------------------------------------
(* A station that passes traffic is not knocked off.                       *)

Keeps(id) == peers'[id].state = "configured" /\ peers'[id].addr = peers[id].addr

(* What NotKnockedOff says of one station.                                 *)
KnockedOffOnlyBy(id) ==
  \/ Keeps(id)
  \/ proof'[id] \notin {0, proof[id]}
  \/ Close(id, peers[id].addr)
  \/ id \notin registration'
  \/ now - peers[id].heard > PeerTimeout

(* One step leaves a station that passes traffic alone, or has cause.      *)
LEMMA KeepsStep ==
  ASSUME IndInv, Next, NEW id \in Configured
  PROVE  KnockedOffOnlyBy(id)
<1>0. /\ id \in Ids /\ id \in Working /\ id \notin Challenged
      /\ peers[id].state = "configured" /\ peers \in [Ids -> PeerRecords]
  BY KnownSplit DEF IndInv, RegistryTypeOK, PeersOK, Configured, InState
<1>1. CASE peers'[id] = peers[id]
  BY <1>0, <1>1 DEF KnockedOffOnlyBy, Keeps
<1>2. ASSUME NEW i \in Ids, i # id, NEW p, peers' = [peers EXCEPT ![i] = p]
      PROVE  peers'[id] = peers[id]
  BY <1>0, <1>2
<1>3. ASSUME NEW S, Forget(S), id \notin S PROVE peers'[id] = peers[id]
  BY <1>0, <1>3 DEF Forget
<1>4. ASSUME NEW i \in Ids, NEW from \in Addrs, Login(i, from) PROVE KnockedOffOnlyBy(id)
  <2>0. id \notin Evictee
    BY <1>0 DEF Evictee, Evicted, Oldest, StillWaiting
  <2>1. CASE LoginNew(i, from)
    <3>1. i # id
      BY <1>0, <2>1, KnownSplit DEF LoginNew
    <3>2. peers'[id] = peers[id]
      BY <1>0, <2>0, <2>1, <3>1 DEF LoginNew
    <3> QED
      BY <1>1, <3>2
  <2>2. CASE LoginNoSalt(i, from)
    BY <1>1, <1>3, <2>0, <2>2 DEF LoginNoSalt
  <2>3. CASE LoginAgain(i, from)
    BY <1>0, <1>1, <1>2, <2>3 DEF LoginAgain
  <2>4. CASE LoginBeside(i, from)
    <3>1. PICK L : peers' = [peers EXCEPT ![i] = Beside(i, L)]
      BY <2>4 DEF LoginBeside
    <3>2. i = id => Keeps(id)
      BY <1>0, <3>1 DEF Keeps, Beside
    <3> QED
      BY <1>1, <1>2, <3>1, <3>2 DEF KnockedOffOnlyBy
  <2> QED
    BY <1>4, <2>1, <2>2, <2>3, <2>4 DEF Login
<1>5. ASSUME NEW i \in Ids, NEW from \in Addrs, Key(i, from) PROVE KnockedOffOnlyBy(id)
  <2>1. CASE KeyUnsolicited(i, from)
    BY <1>1, <2>1 DEF KeyUnsolicited, entryVars
  <2>2. CASE KeyWrong(i, from) \/ KeyFull(i, from)
    <3>1. i # id /\ Abandon(i)
      BY <1>0, <2>2 DEF KeyWrong, KeyFull, Answering
    <3>2. peers'[id] = peers[id]
      BY <1>2, <1>3, <3>1 DEF Abandon
    <3> QED
      BY <1>1, <3>2
  <2>3. CASE KeyRight(i, from)
    <3>1. i # id
      BY <1>0, <2>3 DEF KeyRight, Answering
    <3> QED
      BY <1>1, <1>2, <2>3, <3>1 DEF KeyRight
  <2>4. CASE Taken(i, from)
    <3>1. i = id => Keeps(id)
      BY <1>0, <2>4 DEF Keeps, Taken, Beside
    <3> QED
      BY <1>1, <1>2, <2>4, <3>1 DEF KnockedOffOnlyBy, Taken
  <2>5. CASE ReloginRight(i, from)
    <3>1. CASE i # id
      BY <1>1, <1>2, <2>5, <3>1 DEF ReloginRight
    <3>2. CASE i = id
      <4>1. PICK r \in Mine(id, from) : Accept(id, r.salt)
        BY <2>5, <3>2 DEF ReloginRight
      <4>2. Sent(issued, id, r.addr, r.salt)
        BY <1>0, <4>1 DEF IndInv, ChallengesOK, HeldOK, Mine
      <4>3. r.salt \in 1..Len(issued) /\ issued[r.salt].uses = 0
        BY <4>2 DEF Sent
      <4>4. issued[proof[id]].uses = 1
        BY <1>0 DEF IndInv, ProvedHere
      <4>5. r.salt # proof[id] /\ r.salt # 0
        BY <4>3, <4>4
      <4>6. proof'[id] = r.salt
        BY <1>0, <4>1 DEF Accept, IndInv, RegistryTypeOK
      <4> QED
        BY <4>5, <4>6 DEF KnockedOffOnlyBy
    <3> QED
      BY <3>1, <3>2
  <2> QED
    BY <1>5, <2>1, <2>2, <2>3, <2>4, <2>5
       DEF Key, ReloginStale, ReloginWrong, ReloginFull
<1>6. ASSUME NEW i \in Ids, NEW from \in Addrs, Config(i, from) \/ Heard(i, from)
      PROVE  KnockedOffOnlyBy(id)
  <2> DEFINE p == [state |-> "configured", addr |-> from, salt |-> peers[i].salt,
                   first |-> peers[i].first, heard |-> now,
                   relogins |-> peers[i].relogins]
  <2>1. peers' = [peers EXCEPT ![i] = p] /\ peers[i].addr = from
    BY <1>6 DEF Config, Heard
  <2>2. i = id => Keeps(id)
    BY <1>0, <2>1 DEF Keeps
  <2> HIDE DEF p
  <2> QED
    BY <1>1, <1>2, <2>1, <2>2 DEF KnockedOffOnlyBy
<1>7. ASSUME NEW i \in Ids, NEW from \in Addrs, Close(i, from) PROVE KnockedOffOnlyBy(id)
  <2>1. CASE i = id
    <3>1. peers[id].addr = from
      BY <1>7, <2>1 DEF Close
    <3> QED
      BY <1>7, <2>1, <3>1 DEF KnockedOffOnlyBy
  <2>2. CASE i # id
    BY <1>1, <1>3, <1>7, <2>2 DEF Close
  <2> QED
    BY <2>1, <2>2
<1>8. ASSUME NEW S \in SUBSET Ids, SetAccess(S) PROVE KnockedOffOnlyBy(id)
  BY <1>1, <1>3, <1>8 DEF SetAccess, KnockedOffOnlyBy
<1>9. CASE Expire
  <2>1. id \in Stale => now - peers[id].heard > PeerTimeout
    BY DEF Stale, Limit
  <2> QED
    BY <1>1, <1>3, <1>9, <2>1 DEF Expire, KnockedOffOnlyBy
<1>10. CASE Quiet \/ Clock
  BY <1>1, <1>10 DEF Quiet, Clock, entryVars
<1> QED
  BY <1>4, <1>5, <1>6, <1>7, <1>8, <1>9, <1>10 DEF Next

(* A station that passes traffic keeps its registration and its address    *)
(* until the password is proved from elsewhere, it closes, is banned or    *)
(* goes silent: no login or wrong answer from anywhere can take it away.   *)
THEOREM StationsAreNotKnockedOff == Spec => NotKnockedOff
<1> DEFINE A == \A id \in Configured : KnockedOffOnlyBy(id)
<1>1. IndInv /\ [Next]_vars => [A]_vars
  BY KeepsStep
<1>2. A => \A id \in Configured :
       \/ peers'[id].state = "configured" /\ peers'[id].addr = peers[id].addr
       \/ proof'[id] \notin {0, proof[id]}
       \/ Close(id, peers[id].addr)
       \/ id \notin registration'
       \/ now - peers[id].heard > PeerTimeout
  BY DEF KnockedOffOnlyBy, Keeps
<1> QED
  BY <1>1, <1>2, Invariant, PTL DEF Spec, NotKnockedOff
-----------------------------------------------------------------------------
(* The books: who was announced, which logins may be evicted, and what is  *)
(* held against a host.                                                    *)

(* An ID waits on the challenge s.                                         *)
IsOut(j, s) ==
  \/ \E r \in peers[j].relogins : r.salt = s
  \/ peers[j].state = "challenged" /\ peers[j].salt = s

(* The challenges sent to a host that nobody waits on any more.            *)
Spent(h) ==
  {s \in 1..Len(issued) : Host(issued[s].addr) = h /\ \A j \in Ids : ~IsOut(j, s)}

FailuresAreSpent == \A h \in Hosts : attempts[h].failures <= Cardinality(Spent(h))

(* A departure that is still to be told is of a peer that is gone.         *)
DeparturesAreTold ==
  /\ ConfiguredIsAnnounced
  /\ evicted \cap Configured = {}
  /\ phase = "read" => evicted = {}

(* What a step may do to an entry, but for a login that is new: it waits   *)
(* on no challenge it did not, unless on one that is sent in this step; it *)
(* is not a half-open login it was not; and only RPTC has it pass traffic. *)
WaitsAsBefore(j) == \A s : IsOut(j, s)' => IsOut(j, s) \/ s > Len(issued)
BeganAsBefore(j) ==
  peers'[j].state = "challenged" => peers[j].state = "challenged" /\ peers'[j].first = peers[j].first
PassesAsBefore(j) == peers'[j].state = "configured" => peers[j].state = "configured"
AsBefore == \A j \in Ids : WaitsAsBefore(j) /\ BeganAsBefore(j) /\ PassesAsBefore(j)

LEMMA ForgetAsBefore ==
  ASSUME NEW S, peers' = [id \in Ids |-> IF id \in S THEN NoPeer ELSE peers[id]]
  PROVE  AsBefore
<1> SUFFICES ASSUME NEW j \in Ids PROVE WaitsAsBefore(j) /\ BeganAsBefore(j) /\ PassesAsBefore(j)
  BY DEF AsBefore
<1>1. peers'[j] = NoPeer \/ peers'[j] = peers[j]
  OBVIOUS
<1>2. NoPeer.state = "none" /\ NoPeer.relogins = {}
  BY DEF NoPeer
<1> QED BY <1>1, <1>2 DEF WaitsAsBefore, BeganAsBefore, PassesAsBefore, IsOut

LEMMA StoreAsBefore ==
  ASSUME PeersOK, NEW id \in Ids, NEW p, peers' = [peers EXCEPT ![id] = p],
         \A r \in p.relogins : r \in peers[id].relogins \/ r.salt > Len(issued),
         p.state = "challenged" =>
           /\ peers[id].state = "challenged" /\ p.first = peers[id].first
           /\ \/ p.salt = peers[id].salt \/ p.salt > Len(issued)
              \/ \E r \in peers[id].relogins : r.salt = p.salt,
         p.state = "configured" => peers[id].state = "configured"
  PROVE  AsBefore
<1> SUFFICES ASSUME NEW j \in Ids PROVE WaitsAsBefore(j) /\ BeganAsBefore(j) /\ PassesAsBefore(j)
  BY DEF AsBefore
<1>1. CASE j # id
  <2>1. peers'[j] = peers[j]
    BY <1>1 DEF PeersOK
  <2> QED BY <2>1 DEF WaitsAsBefore, BeganAsBefore, PassesAsBefore, IsOut
<1>2. CASE j = id
  <2>1. peers'[id] = p
    BY DEF PeersOK
  <2> QED BY <1>2, <2>1 DEF WaitsAsBefore, BeganAsBefore, PassesAsBefore, IsOut
<1> QED BY <1>1, <1>2

LEMMA AbandonAsBefore ==
  ASSUME PeersOK, NEW id \in Challenged, Abandon(id)
  PROVE  AsBefore
<1>1. id \in Ids /\ peers[id].state = "challenged"
  BY DEF Challenged, InState
<1>2. CASE Forget({id})
  BY <1>2, ForgetAsBefore DEF Forget
<1>3. ASSUME NEW next \in Oldest(peers[id].relogins),
             peers' = [peers EXCEPT ![id] =
                [state |-> peers[id].state, addr |-> next.addr, salt |-> next.salt,
                 first |-> peers[id].first, heard |-> next.at, relogins |-> peers[id].relogins \ {next}]]
      PROVE  AsBefore
  <2> DEFINE p == [state |-> peers[id].state, addr |-> next.addr, salt |-> next.salt,
                   first |-> peers[id].first, heard |-> next.at, relogins |-> peers[id].relogins \ {next}]
  <2>1. /\ p.state = "challenged" /\ p.first = peers[id].first /\ p.salt = next.salt
        /\ p.relogins = peers[id].relogins \ {next} /\ peers' = [peers EXCEPT ![id] = p]
    BY <1>1, <1>3
  <2>2. next \in peers[id].relogins
    BY DEF Oldest
  <2> HIDE DEF p
  <2> QED BY <1>1, <2>1, <2>2, StoreAsBefore
<1> QED BY <1>2, <1>3 DEF Abandon

(* Every step but a new login and RPTC leaves the entries as they were in  *)
(* this sense.                                                             *)
LEMMA StepAsBefore ==
  ASSUME IndInv, [Next]_vars
  PROVE  \/ AsBefore
         \/ \E id \in Ids, from \in Addrs : LoginNew(id, from) \/ Config(id, from)
<1>0. PeersOK /\ issued \in Seq(Ledger) /\ Len(issued) \in Nat
  BY LenProperties DEF IndInv, RegistryTypeOK, Ledger
<1>n. NextSalt > Len(issued)
  BY <1>0 DEF NextSalt
<1>s. ASSUME peers' = peers PROVE AsBefore
  BY <1>s DEF AsBefore, WaitsAsBefore, BeganAsBefore, PassesAsBefore, IsOut
<1>f. ASSUME NEW S, Forget(S) PROVE AsBefore
  BY <1>f, ForgetAsBefore DEF Forget
<1>t. ASSUME NEW id \in Ids, NEW from, Taken(id, from) PROVE AsBefore
  <2> DEFINE p == Beside(id, Others(id, from))
  <2>1. /\ peers' = [peers EXCEPT ![id] = p] /\ p.state = peers[id].state /\ p.first = peers[id].first
        /\ p.salt = peers[id].salt /\ p.relogins \subseteq peers[id].relogins
    BY <1>t DEF Taken, Beside, Others
  <2> HIDE DEF p
  <2> QED BY <1>0, <2>1, StoreAsBefore
<1>1. ASSUME NEW id \in Ids, NEW from \in Addrs, LoginAgain(id, from) PROVE AsBefore
  <2> DEFINE p == [state |-> "challenged", addr |-> from, salt |-> NextSalt,
                   first |-> peers[id].first, heard |-> now, relogins |-> peers[id].relogins]
  <2>1. peers' = [peers EXCEPT ![id] = p] /\ peers[id].state = "challenged"
    BY <1>1 DEF LoginAgain, Challenged, InState
  <2>2. /\ p.state = "challenged" /\ p.first = peers[id].first /\ p.salt = NextSalt
        /\ p.relogins = peers[id].relogins
    OBVIOUS
  <2> HIDE DEF p
  <2> QED BY <1>0, <1>n, <2>1, <2>2, StoreAsBefore
<1>2. ASSUME NEW id \in Ids, NEW from \in Addrs, LoginBeside(id, from) PROVE AsBefore
  <2>1. PICK list \in Offered(peers[id].relogins, from, NextSalt) :
          peers' = [peers EXCEPT ![id] = Beside(id, list)]
    BY <1>2 DEF LoginBeside
  <2>2. \A r \in list : r \in peers[id].relogins \/ r.salt > Len(issued)
    BY <1>n, OfferedMembers
  <2> DEFINE p == Beside(id, list)
  <2>3. /\ peers' = [peers EXCEPT ![id] = p] /\ p.state = peers[id].state /\ p.first = peers[id].first
        /\ p.salt = peers[id].salt /\ p.relogins = list
    BY <2>1 DEF Beside
  <2> HIDE DEF p
  <2> QED BY <1>0, <2>2, <2>3, StoreAsBefore
<1>3. ASSUME NEW id \in Ids, NEW from \in Addrs, Key(id, from) PROVE AsBefore
  <2>1. CASE KeyUnsolicited(id, from)
    BY <1>s, <2>1 DEF KeyUnsolicited, entryVars
  <2>2. CASE KeyWrong(id, from) \/ KeyFull(id, from)
    BY <1>0, <2>2, AbandonAsBefore DEF KeyWrong, KeyFull, Answering
  <2>3. CASE KeyRight(id, from)
    <3> DEFINE p == [state |-> "authenticated", addr |-> from, salt |-> 0, first |-> peers[id].first,
                     heard |-> now, relogins |-> peers[id].relogins]
    <3>1. peers' = [peers EXCEPT ![id] = p] /\ p.state = "authenticated" /\ p.relogins = peers[id].relogins
      BY <2>3 DEF KeyRight
    <3> HIDE DEF p
    <3> QED BY <1>0, <3>1, StoreAsBefore
  <2>4. CASE ReloginStale(id, from) \/ ReloginWrong(id, from) \/ ReloginFull(id, from)
    BY <1>t, <2>4 DEF ReloginStale, ReloginWrong, ReloginFull
  <2>5. CASE ReloginRight(id, from)
    <3> DEFINE p == [state |-> "authenticated", addr |-> from, salt |-> 0, first |-> peers[id].first,
                     heard |-> now, relogins |-> {}]
    <3>1. peers' = [peers EXCEPT ![id] = p] /\ p.state = "authenticated" /\ p.relogins = {}
      BY <2>5 DEF ReloginRight
    <3> HIDE DEF p
    <3> QED BY <1>0, <3>1, StoreAsBefore
  <2> QED BY <1>3, <2>1, <2>2, <2>3, <2>4, <2>5 DEF Key
<1>4. ASSUME NEW id \in Ids, NEW from \in Addrs, Heard(id, from) PROVE AsBefore
  <2> DEFINE p == [state |-> "configured", addr |-> from, salt |-> peers[id].salt,
                   first |-> peers[id].first, heard |-> now, relogins |-> peers[id].relogins]
  <2>1. /\ peers' = [peers EXCEPT ![id] = p] /\ p.state = "configured" /\ p.relogins = peers[id].relogins
        /\ peers[id].state = "configured"
    BY <1>4 DEF Heard, Configured, InState
  <2> HIDE DEF p
  <2> QED BY <1>0, <2>1, StoreAsBefore
<1>5. ASSUME NEW id \in Ids, NEW from \in Addrs, LoginNoSalt(id, from) \/ Close(id, from) PROVE AsBefore
  BY <1>f, <1>5 DEF LoginNoSalt, Close
<1>6. ASSUME NEW S, SetAccess(S) PROVE AsBefore
  BY <1>f, <1>6 DEF SetAccess
<1>7. CASE Expire
  BY <1>f, <1>7 DEF Expire
<1>8. CASE Quiet \/ Clock \/ UNCHANGED vars
  BY <1>s, <1>8 DEF Quiet, Clock, vars, entryVars
<1> QED BY <1>1, <1>2, <1>3, <1>4, <1>5, <1>6, <1>7, <1>8 DEF Next, Login


(* A peer that passes traffic was announced as connected after whatever    *)
(* departure was announced last.                                           *)
LEMMA AnnouncedStep ==
  ASSUME IndInv, DeparturesAreTold, [Next]_vars
  PROVE  DeparturesAreTold'
<1>0. PeersOK /\ phase \in {"read", "sweep"}
  BY DEF IndInv, RegistryTypeOK
<1>a. ASSUME AsBefore PROVE Configured' \subseteq Configured
  BY <1>a DEF AsBefore, PassesAsBefore, Configured, InState
<1>b. ASSUME AsBefore, announced' = announced, evicted' = evicted, phase' = "read" => phase = "read"
      PROVE  DeparturesAreTold'
  BY <1>0, <1>a, <1>b DEF DeparturesAreTold, ConfiguredIsAnnounced
<1>f. ASSUME NEW S, Forget(S) PROVE AsBefore /\ Configured' \cap S = {}
  <2>1. AsBefore
    BY <1>f, ForgetAsBefore DEF Forget
  <2>2. NoPeer.state # "configured"
    BY DEF NoPeer
  <2> QED BY <1>f, <2>1, <2>2 DEF Forget, Configured, InState
<1>1. ASSUME NEW id \in Ids, NEW from \in Addrs, LoginNew(id, from)
      PROVE  DeparturesAreTold'
  <2>1. /\ announced' = announced /\ evicted' = evicted /\ phase' = "sweep"
    BY <1>1 DEF LoginNew, operVars
  <2>2. Configured' \subseteq Configured
    <3>1. ASSUME NEW j \in Ids, peers'[j].state = "configured" PROVE peers[j].state = "configured"
      <4>1. \/ peers'[j].state = "challenged" \/ peers'[j] = NoPeer \/ peers'[j] = peers[j]
        BY <1>1 DEF LoginNew
      <4> QED BY <3>1, <4>1 DEF NoPeer
    <3> QED BY <3>1 DEF Configured, InState
  <2> QED BY <2>1, <2>2 DEF DeparturesAreTold, ConfiguredIsAnnounced
<1>2. ASSUME NEW id \in Ids, NEW from \in Addrs, Config(id, from)
      PROVE  DeparturesAreTold'
  <2>1. /\ announced' = announced \cup {id} /\ evicted' = evicted /\ phase' = "sweep" /\ phase = "read"
    BY <1>2 DEF Config, operVars
  <2>2. Configured' \subseteq Configured \cup {id}
    BY <1>0, <1>2 DEF Config, Configured, InState, PeersOK
  <2> QED BY <2>1, <2>2 DEF DeparturesAreTold, ConfiguredIsAnnounced
<1>3. ASSUME NEW id \in Ids, NEW from \in Addrs, Close(id, from)
      PROVE  DeparturesAreTold'
  <2>1. /\ announced' = announced \ (Configured \cap {id}) /\ evicted' = evicted /\ phase' = "sweep"
        /\ Forget({id})
    BY <1>3 DEF Close, operVars
  <2> QED BY <1>a, <1>f, <2>1 DEF DeparturesAreTold, ConfiguredIsAnnounced
<1>4. ASSUME NEW S \in SUBSET Ids, SetAccess(S) PROVE DeparturesAreTold'
  <2>1. /\ announced' = announced /\ evicted' = evicted \cup (Configured \ S) /\ phase' = "sweep"
        /\ Forget(Known \ S)
    BY <1>4 DEF SetAccess
  <2>2. Configured \subseteq Known
    BY DEF Configured, Known, InState
  <2> QED BY <1>a, <1>f, <2>1, <2>2 DEF DeparturesAreTold, ConfiguredIsAnnounced
<1>5. CASE Expire
  <2>1. /\ announced' = announced \ (evicted \cup (Stale \cap Configured)) /\ evicted' = {}
        /\ Forget(Stale)
    BY <1>5 DEF Expire
  <2> QED BY <1>a, <1>f, <2>1 DEF DeparturesAreTold, ConfiguredIsAnnounced
<1>6. ASSUME AsBefore PROVE DeparturesAreTold'
  <2>1. CASE UNCHANGED <<announced, evicted>> /\ (phase' = "read" => phase = "read")
    BY <1>6, <1>b, <2>1
  <2>2. ASSUME NEW id \in Ids, NEW from \in Addrs,
               \/ LoginNoSalt(id, from) \/ LoginAgain(id, from) \/ LoginBeside(id, from)
               \/ Key(id, from) \/ Heard(id, from)
        PROVE  UNCHANGED <<announced, evicted>> /\ phase' = "sweep"
    BY <2>2 DEF LoginNoSalt, LoginAgain, LoginBeside, Key, KeyUnsolicited, KeyWrong, KeyFull, KeyRight,
         ReloginStale, ReloginWrong, ReloginFull, ReloginRight, Heard, operVars, histVars
  <2>3. CASE Quiet \/ Clock \/ UNCHANGED vars
    BY <2>1, <2>3 DEF Quiet, Clock, vars, operVars, histVars
  <2> QED BY <1>1, <1>2, <1>3, <1>4, <1>5, <2>1, <2>2, <2>3 DEF Next, Login
<1> QED BY <1>1, <1>2, <1>6, StepAsBefore


-----------------------------------------------------------------------------
(* The half-open logins that may still be evicted.                         *)

Evictable == {id \in Challenged : Listed(id)}

(* RPTC leaves every entry waiting on what it waited on.                   *)
LEMMA ConfigAsBefore ==
  ASSUME PeersOK, NEW id \in Ids, NEW from \in Addrs, Config(id, from)
  PROVE  \A j \in Ids : WaitsAsBefore(j) /\ BeganAsBefore(j)
<1> SUFFICES ASSUME NEW j \in Ids PROVE WaitsAsBefore(j) /\ BeganAsBefore(j)
  OBVIOUS
<1> DEFINE p == [state |-> "configured", addr |-> from, salt |-> peers[id].salt,
                 first |-> peers[id].first, heard |-> now, relogins |-> peers[id].relogins]
<1>1. peers' = [peers EXCEPT ![id] = p] /\ p.state = "configured" /\ p.relogins = peers[id].relogins
  BY DEF Config
<1> HIDE DEF p
<1>2. peers'[j] = IF j = id THEN p ELSE peers[j]
  BY <1>1 DEF PeersOK
<1> QED BY <1>1, <1>2 DEF WaitsAsBefore, BeganAsBefore, IsOut

(* What may be evicted after a login that is new: what might before, but   *)
(* for the one that was, and the login itself.                             *)
LEMMA LoginNewEvicts ==
  ASSUME PeersOK, NEW id \in Ids, NEW from \in Addrs, LoginNew(id, from)
  PROVE  LET out == IF waiting >= MaxHalfOpen THEN Evictee ELSE {}
         IN  /\ Evictable' \subseteq (Evictable \ out) \cup {id}
             /\ waiting >= MaxHalfOpen /\ Evicted = {} => Evictable' \subseteq {id}
<1> DEFINE full == waiting >= MaxHalfOpen
           out  == IF full THEN Evictee ELSE {}
           rest == IF full THEN AfterEviction ELSE halfOpen
           c == [id |-> id, began |-> now, salt |-> NextSalt]
           p == [state |-> "challenged", addr |-> from, salt |-> NextSalt,
                 first |-> now, heard |-> now, relogins |-> {}]
<1>1. /\ halfOpen' = IF Cardinality(rest \cup {c}) > 4 * MaxHalfOpen
                     THEN {h \in rest : StillWaiting(h) /\ h.id \notin out}
                     ELSE rest \cup {c}
      /\ peers' = [i \in Ids |-> IF i = id THEN p ELSE IF i \in out THEN NoPeer ELSE peers[i]]
  BY DEF LoginNew
<1>2. c.id = id /\ NoPeer.state = "none"
  BY DEF NoPeer
<1>3. rest \subseteq halfOpen /\ (full /\ Evicted = {} => rest = {})
  BY DEF AfterEviction
<1> HIDE DEF c, p, rest, out
<1>4. ASSUME NEW j \in Evictable', j # id
      PROVE  j \in Evictable \ out /\ rest # {}
  <2>1. j \in Ids /\ peers'[j].state = "challenged"
    BY <1>4 DEF Evictable, Challenged, InState
  <2>2. j \notin out /\ peers'[j] = peers[j]
    BY <1>1, <1>2, <1>4, <2>1
  <2>3. PICK h \in halfOpen' : h.id = j /\ peers'[j].first = h.began
    BY <1>4 DEF Evictable, Listed, StillWaiting
  <2>4. h \in rest
    BY <1>1, <1>2, <1>4, <2>3
  <2>5. j \in Challenged /\ Listed(j)
    BY <1>3, <2>1, <2>2, <2>3, <2>4 DEF Challenged, InState, Listed, StillWaiting
  <2> QED BY <2>2, <2>4, <2>5 DEF Evictable
<1> QED BY <1>3, <1>4 DEF out

(* Of the logins that wait on their challenge, those the eviction list     *)
(* names stay within maxHalfOpen.                                          *)
LEMMA ListedStep ==
  ASSUME IndInv, ListedWithinLimit, [Next]_vars
  PROVE  ListedWithinLimit'
<1>0. PeersOK /\ waiting = Cardinality(Challenged)
  BY DEF IndInv, RegistryTypeOK, WithinLimits
<1>1. IsFiniteSet(Evictable) /\ Cardinality(Evictable) \in Nat
      /\ Cardinality(Evictable) <= Cardinality(Challenged)
  BY Counting, FS_Subset, FS_CardinalityType DEF Evictable
<1>2. Cardinality(Evictable) <= MaxHalfOpen
  BY DEF Evictable, ListedWithinLimit
<1>3. ASSUME NEW X, IsFiniteSet(X), Cardinality(X) <= MaxHalfOpen, Evictable' \subseteq X
      PROVE  ListedWithinLimit'
  <2>1. IsFiniteSet(Evictable') /\ Cardinality(Evictable') <= Cardinality(X)
        /\ Cardinality(X) \in Nat /\ Cardinality(Evictable') \in Nat
    BY <1>3, FS_Subset, FS_CardinalityType
  <2> QED BY <1>3, <2>1, RegistryAssumption DEF ListedWithinLimit, Evictable, RegistryAssumption
<1>4. ASSUME \A j \in Ids : BeganAsBefore(j), halfOpen' \subseteq halfOpen
      PROVE  ListedWithinLimit'
  <2>1. Evictable' \subseteq Evictable
    BY <1>4 DEF BeganAsBefore, Evictable, Listed, StillWaiting, Challenged, InState
  <2> QED BY <1>1, <1>2, <1>3, <2>1
<1>5. ASSUME NEW id \in Ids, NEW from \in Addrs, LoginNew(id, from)
      PROVE  ListedWithinLimit'
  <2>1. CASE waiting < MaxHalfOpen
    <3>1. Evictable' \subseteq Evictable \cup {id}
      BY <1>0, <1>5, LoginNewEvicts
    <3>2. IsFiniteSet(Evictable \cup {id})
          /\ Cardinality(Evictable \cup {id}) <= Cardinality(Evictable) + 1
      BY <1>1, FS_AddElement
    <3>3. Cardinality(Evictable \cup {id}) \in Nat /\ Cardinality(Challenged) \in Nat
      BY <3>2, Counting, FS_CardinalityType
    <3>4. Cardinality(Evictable \cup {id}) <= MaxHalfOpen
      BY <1>0, <1>1, <2>1, <3>2, <3>3, RegistryAssumption DEF RegistryAssumption
    <3> QED BY <1>3, <3>1, <3>2, <3>4
  <2>2. CASE waiting >= MaxHalfOpen /\ Evicted = {}
    <3>1. Evictable' \subseteq {id}
      BY <1>0, <1>5, <2>2, LoginNewEvicts
    <3>2. IsFiniteSet({id}) /\ Cardinality({id}) = 1
      BY FS_Singleton
    <3>3. 1 <= MaxHalfOpen
      BY RegistryAssumption DEF RegistryAssumption
    <3> QED BY <1>3, <3>1, <3>2, <3>3
  <2>3. CASE waiting >= MaxHalfOpen /\ Evicted # {}
    <3>1. PICK e \in Evicted : TRUE
      BY <2>3
    <3>2. e.id \in Evictable /\ e.id \in Evictee
      BY <3>1 DEF Evictee, Evicted, Oldest, Evictable, Listed, StillWaiting
    <3>3. Evictable' \subseteq (Evictable \ {e.id}) \cup {id}
      BY <1>0, <1>5, <2>3, <3>2, LoginNewEvicts
    <3>4. IsFiniteSet(Evictable \ {e.id}) /\ Cardinality(Evictable \ {e.id}) = Cardinality(Evictable) - 1
      BY <1>1, <3>2, FS_RemoveElement
    <3>5. IsFiniteSet((Evictable \ {e.id}) \cup {id})
          /\ Cardinality((Evictable \ {e.id}) \cup {id}) <= Cardinality(Evictable)
      BY <1>1, <3>4, FS_AddElement
    <3>6. Cardinality((Evictable \ {e.id}) \cup {id}) \in Nat
      BY <3>5, FS_CardinalityType
    <3> QED BY <1>1, <1>2, <1>3, <3>3, <3>5, <3>6, RegistryAssumption DEF RegistryAssumption
  <2> QED BY <1>0, <2>1, <2>2, <2>3, Counting, RegistryAssumption DEF RegistryAssumption
<1>6. ASSUME NEW id \in Ids, NEW from \in Addrs, Config(id, from)
      PROVE  ListedWithinLimit'
  BY <1>0, <1>4, <1>6, ConfigAsBefore DEF Config
<1>7. ASSUME AsBefore PROVE ListedWithinLimit'
  <2>0. \A j \in Ids : BeganAsBefore(j)
    BY <1>7 DEF AsBefore
  <2>1. ASSUME NEW id \in Ids, NEW from \in Addrs,
               \/ LoginNoSalt(id, from) \/ LoginAgain(id, from) \/ LoginBeside(id, from)
               \/ Key(id, from) \/ Heard(id, from) \/ Close(id, from)
        PROVE  halfOpen' \subseteq halfOpen
    BY <2>1 DEF LoginNoSalt, AfterEviction, LoginAgain, LoginBeside, Key, KeyUnsolicited, KeyWrong, KeyFull,
         KeyRight, ReloginStale, ReloginWrong, ReloginFull, ReloginRight, Heard, Close, entryVars
  <2>2. CASE Quiet \/ Clock \/ UNCHANGED vars \/ Expire \/ \E S \in SUBSET Ids : SetAccess(S)
    <3>1. halfOpen' = halfOpen
      BY <2>2 DEF Quiet, Clock, vars, entryVars, Expire, SetAccess
    <3> QED BY <1>4, <2>0, <3>1
  <2> QED BY <1>4, <1>5, <1>6, <2>0, <2>1, <2>2 DEF Next, Login
<1> QED BY <1>5, <1>6, <1>7, StepAsBefore


-----------------------------------------------------------------------------
(* The failures held against a host.                                       *)

(* What a failure adds to the counts: one, to its own host, if it proves   *)
(* its address (throttle.fail).                                            *)
LEMMA FailCounts ==
  ASSUME attempts \in [Hosts -> Entries], NEW h \in Hosts, NEW b \in BOOLEAN, Fail(h, b), NEW g \in Hosts
  PROVE  attempts'[g].failures <= attempts[g].failures + (IF g = h /\ b THEN 1 ELSE 0)
<1>0. \A i \in Hosts : attempts[i].failures \in Nat
  BY DEF Entries
<1>1. Untracked.failures = 0
  BY DEF Untracked
<1>2. ASSUME NEW t \in [Hosts -> Entries], \A i \in Hosts : t[i].failures <= attempts[i].failures
      PROVE  Counted(t, h, b)[g].failures <= attempts[g].failures + (IF g = h /\ b THEN 1 ELSE 0)
  <2>0. \A i \in Hosts : t[i].failures \in Nat
    BY DEF Entries
  <2>1. Extended(t[h], b).failures <= t[h].failures + (IF b THEN 1 ELSE 0)
    <3> DEFINE run == IF now - t[h].last > Window THEN Untracked ELSE t[h]
    <3>1. run.failures \in Nat /\ run.failures <= t[h].failures
      BY <1>1, <2>0
    <3>2. Extended(t[h], b).failures = run.failures + (IF b THEN 1 ELSE 0)
      BY DEF Extended
    <3> HIDE DEF run
    <3> QED BY <2>0, <3>1, <3>2
  <2>2. Extended(t[h], b).failures \in Nat
    <3> DEFINE run == IF now - t[h].last > Window THEN Untracked ELSE t[h]
    <3>1. run.failures \in Nat
      BY <1>1, <2>0
    <3>2. Extended(t[h], b).failures = run.failures + (IF b THEN 1 ELSE 0)
      BY DEF Extended
    <3> HIDE DEF run
    <3> QED BY <3>1, <3>2
  <2>3. Counted(t, h, b)[g] = IF g = h THEN Extended(t[h], b) ELSE t[g]
    BY DEF Counted
  <2> QED BY <1>0, <1>2, <2>0, <2>1, <2>2, <2>3
<1>3. ASSUME NEW H PROVE Forgetting(H) \in [Hosts -> Entries]
                         /\ \A i \in Hosts : Forgetting(H)[i].failures <= attempts[i].failures
  BY <1>0, <1>1, ForgettingType DEF Forgetting
<1>4. ASSUME NEW t \in RoomMade
      PROVE  t \in [Hosts -> Entries] /\ \A i \in Hosts : t[i].failures <= attempts[i].failures
  BY <1>3 DEF RoomMade
<1>5. \A i \in Hosts : attempts[i].failures <= attempts[i].failures
  BY <1>0
<1>6. CASE attempts' = Counted(attempts, h, b)
  BY <1>2, <1>5, <1>6
<1>7. CASE \E t \in RoomMade : attempts' = Counted(t, h, b)
  BY <1>2, <1>4, <1>7
<1>8. CASE UNCHANGED attempts
  BY <1>0, <1>8
<1> QED BY <1>6, <1>7, <1>8 DEF Fail

(* The ledger of challenges only grows, and who each was sent to stands.   *)
LEMMA LedgerGrows ==
  ASSUME IndInv, [Next]_vars
  PROVE  /\ Len(issued) \in Nat /\ Len(issued') \in Nat /\ Len(issued) <= Len(issued')
         /\ \A s \in 1..Len(issued) : issued'[s].addr = issued[s].addr
<1>0. issued \in Seq(Ledger) /\ Len(issued) \in Nat /\ ChallengesOK
  BY LenProperties DEF IndInv, RegistryTypeOK, Ledger
<1> DEFINE Grows == /\ Len(issued) \in Nat /\ Len(issued') \in Nat /\ Len(issued) <= Len(issued')
                    /\ \A s \in 1..Len(issued) : issued'[s].addr = issued[s].addr
<1>1. ASSUME NEW id \in Ids, NEW from \in Addrs, Issue(id, from) PROVE Grows
  <2>1. [id |-> id, addr |-> from, uses |-> 0] \in Ledger
    BY DEF Ledger
  <2> QED BY <1>0, <1>1, <2>1, AppendProperties DEF Issue
<1>2. ASSUME NEW id \in Ids, NEW salt \in 1..Len(issued), Accept(id, salt) PROVE Grows
  <2>1. issued' = [issued EXCEPT ![salt] = [id |-> issued[salt].id, addr |-> issued[salt].addr,
                                            uses |-> issued[salt].uses + 1]]
    BY <1>2 DEF Accept
  <2>2. Len(issued') = Len(issued)
    <3>1. DOMAIN issued' = DOMAIN issued /\ DOMAIN issued = 1..Len(issued)
      BY <1>0, <2>1
    <3>2. issued' \in Seq(Ledger)
      BY <1>0, <1>2, AcceptType DEF IndInv, RegistryTypeOK
    <3> QED BY <1>0, <3>1, <3>2, LenProperties
  <2>3. ASSUME NEW s \in 1..Len(issued) PROVE issued'[s].addr = issued[s].addr
    BY <1>0, <2>1
  <2> QED BY <1>0, <2>2, <2>3
<1>3. ASSUME issued' = issued PROVE Grows
  BY <1>0, <1>3
<1> HIDE DEF Grows
<1>4. ASSUME NEW id \in Ids, NEW from \in Addrs, Login(id, from) PROVE Grows
  BY <1>1, <1>3, <1>4 DEF Login, LoginNew, LoginNoSalt, LoginAgain, LoginBeside
<1>5. ASSUME NEW id \in Ids, NEW from \in Addrs, Key(id, from) PROVE Grows
  <2>1. CASE KeyRight(id, from)
    <3>1. peers[id].salt \in 1..Len(issued)
      BY <1>0, <2>1 DEF KeyRight, Answering, Challenged, InState, ChallengesOK, HeldOK, Sent
    <3> QED BY <1>2, <2>1, <3>1 DEF KeyRight
  <2>2. CASE ReloginRight(id, from)
    <3>1. PICK r \in Mine(id, from) : Accept(id, r.salt)
      BY <2>2 DEF ReloginRight
    <3>2. r.salt \in 1..Len(issued)
      BY <1>0, <3>1 DEF Mine, ChallengesOK, HeldOK, Sent
    <3> QED BY <1>2, <3>1, <3>2
  <2> QED BY <1>3, <1>5, <2>1, <2>2
          DEF Key, KeyUnsolicited, KeyWrong, KeyFull, ReloginStale, ReloginWrong, ReloginFull, histVars
<1>6. ASSUME NEW id \in Ids, NEW from \in Addrs, Config(id, from) \/ Heard(id, from) \/ Close(id, from)
      PROVE  Grows
  BY <1>3, <1>6 DEF Config, Heard, Close, histVars
<1>7. ASSUME Quiet \/ Clock \/ UNCHANGED vars \/ Expire \/ \E S \in SUBSET Ids : SetAccess(S)
      PROVE  Grows
  BY <1>3, <1>7 DEF Quiet, Clock, vars, histVars, Expire, SetAccess
<1>8. Grows
  BY <1>4, <1>5, <1>6, <1>7 DEF Next
<1> QED BY <1>8 DEF Grows


(* A new login waits on the challenge it is sent and on no other.          *)
LEMMA LoginNewWaits ==
  ASSUME issued \in Seq(Ledger), NEW id \in Ids, NEW from \in Addrs, LoginNew(id, from)
  PROVE  \A j \in Ids : WaitsAsBefore(j)
<1> SUFFICES ASSUME NEW j \in Ids PROVE WaitsAsBefore(j)
  OBVIOUS
<1> DEFINE p == [state |-> "challenged", addr |-> from, salt |-> NextSalt,
                 first |-> now, heard |-> now, relogins |-> {}]
<1>1. peers'[j] = p \/ peers'[j] = NoPeer \/ peers'[j] = peers[j]
  BY DEF LoginNew
<1>2. p.salt = NextSalt /\ p.relogins = {} /\ NoPeer.state = "none" /\ NoPeer.relogins = {}
  BY DEF NoPeer
<1>3. NextSalt > Len(issued)
  BY LenProperties DEF NextSalt
<1> HIDE DEF p
<1> QED BY <1>1, <1>2, <1>3 DEF WaitsAsBefore, IsOut

(* A challenge nobody waits on stays one.                                  *)
LEMMA SpentStays ==
  ASSUME IndInv, [Next]_vars, NEW h
  PROVE  /\ Spent(h) \subseteq Spent(h)'
         /\ IsFiniteSet(Spent(h)) /\ IsFiniteSet(Spent(h)')
         /\ Cardinality(Spent(h)) \in Nat /\ Cardinality(Spent(h)') \in Nat
<1>0. PeersOK /\ issued \in Seq(Ledger)
  BY DEF IndInv, RegistryTypeOK, Ledger
<1>1. \A j \in Ids : WaitsAsBefore(j)
  BY <1>0, StepAsBefore, LoginNewWaits, ConfigAsBefore DEF AsBefore
<1>2. ASSUME NEW s \in Spent(h) PROVE s \in Spent(h)'
  <2>1. s \in 1..Len(issued) /\ s \in 1..Len(issued') /\ Host(issued'[s].addr) = h
    BY LedgerGrows DEF Spent
  <2>2. ASSUME NEW j \in Ids PROVE ~IsOut(j, s)'
    BY <1>1, <2>1, LedgerGrows DEF Spent, WaitsAsBefore
  <2> QED BY <2>1, <2>2 DEF Spent
<1>3. IsFiniteSet(1..Len(issued)) /\ IsFiniteSet(1..Len(issued'))
  BY LedgerGrows, FS_Interval
<1>4. Spent(h) \in SUBSET (1..Len(issued)) /\ Spent(h)' \in SUBSET (1..Len(issued'))
  BY DEF Spent
<1>5. IsFiniteSet(Spent(h)) /\ IsFiniteSet(Spent(h)')
  BY <1>3, <1>4, FS_Subset
<1> QED BY <1>2, <1>5, FS_CardinalityType

(* A challenge says who it was sent to.                                    *)
LEMMA SentTo ==
  ASSUME NEW ledger, NEW i, NEW a, NEW s, Sent(ledger, i, a, s)
  PROVE  s \in 1..Len(ledger) /\ ledger[s].id = i /\ ledger[s].addr = a
BY DEF Sent

(* A challenge that was being waited on, and is no longer, is one more.    *)
LEMMA OneMoreSpent ==
  ASSUME IndInv, [Next]_vars, issued' = issued, AsBefore,
         NEW id \in Ids, NEW from \in Addrs, NEW s, Sent(issued, id, from, s),
         IsOut(id, s), ~IsOut(id, s)'
  PROVE  Cardinality(Spent(Host(from))) + 1 <= Cardinality(Spent(Host(from))')
<1> DEFINE h == Host(from)
<1>1. s \in 1..Len(issued) /\ issued[s].addr = from /\ issued[s].id = id /\ Len(issued) \in Nat
  BY LedgerGrows, SentTo
<1>2. s \notin Spent(h)
  BY DEF Spent
<1>3. ASSUME NEW j \in Ids, j # id PROVE ~IsOut(j, s)
  <2>1. HeldOK(j)
    BY DEF IndInv, ChallengesOK
  <2>2. ~\E a : Sent(issued, j, a, s)
    BY <1>1, <1>3, SentTo
  <2> QED BY <2>1, <2>2 DEF IsOut, HeldOK
<1>4. ASSUME NEW j \in Ids PROVE ~IsOut(j, s)'
  BY <1>1, <1>3 DEF AsBefore, WaitsAsBefore
<1>5. s \in Spent(h)'
  BY <1>1, <1>4 DEF Spent
<1> HIDE DEF h
<1>6. Cardinality(Spent(h) \cup {s}) = Cardinality(Spent(h)) + 1 /\ IsFiniteSet(Spent(h) \cup {s})
  BY <1>2, SpentStays, FS_AddElement
<1>7. Spent(h) \cup {s} \subseteq Spent(h)'
  BY <1>5, SpentStays
<1>8. Cardinality(Spent(h) \cup {s}) <= Cardinality(Spent(h)')
  BY <1>6, <1>7, SpentStays, FS_Subset
<1> QED BY <1>6, <1>8 DEF h

(* Every wrong answer that is counted uses up a challenge of its host.     *)
LEMMA FailuresStep ==
  ASSUME IndInv, FailuresAreSpent, [Next]_vars
  PROVE  FailuresAreSpent'
<1>0. /\ PeersOK /\ attempts \in [Hosts -> Entries] /\ attempts' \in [Hosts -> Entries]
      /\ \A h \in Hosts : attempts[h].failures \in Nat /\ attempts'[h].failures \in Nat
  <2>1. attempts \in [Hosts -> Entries] /\ now \in Nat /\ PeersOK
    BY DEF IndInv, RegistryTypeOK
  <2>2. attempts' \in [Hosts -> Entries]
    BY <2>1, ThrottleStep
  <2> QED BY <2>1, <2>2 DEF Entries
<1>1. \A h \in Hosts : Cardinality(Spent(h)) <= Cardinality(Spent(h)')
  BY SpentStays, FS_Subset
<1>n. \A h \in Hosts : Cardinality(Spent(h)) \in Nat /\ Cardinality(Spent(h)') \in Nat
  BY SpentStays
<1>2. ASSUME \A h \in Hosts : attempts'[h].failures <= attempts[h].failures
      PROVE  FailuresAreSpent'
  BY <1>0, <1>1, <1>n, <1>2 DEF FailuresAreSpent
<1>3. ASSUME UNCHANGED attempts PROVE FailuresAreSpent'
  BY <1>0, <1>2, <1>3
<1>4. ASSUME NEW H, attempts' = Forgetting(H) PROVE FailuresAreSpent'
  BY <1>0, <1>2, <1>4 DEF Forgetting, Untracked
<1>h. ASSUME NEW from \in Addrs PROVE Host(from) \in Hosts
  BY DEF Addrs, Host
<1>5. ASSUME NEW id \in Ids, NEW from \in Addrs, NEW s, Sent(issued, id, from, s), IsOut(id, s),
             ~IsOut(id, s)', Fail(Host(from), TRUE), issued' = issued, AsBefore
      PROVE  FailuresAreSpent'
  <2>1. ASSUME NEW g \in Hosts PROVE attempts'[g].failures <= Cardinality(Spent(g)')
    <3>1. attempts'[g].failures <= attempts[g].failures + (IF g = Host(from) THEN 1 ELSE 0)
      BY <1>0, <1>5, <1>h, FailCounts
    <3>2. g = Host(from) => Cardinality(Spent(g)) + 1 <= Cardinality(Spent(g)')
      BY <1>5, OneMoreSpent
    <3>3. attempts[g].failures <= Cardinality(Spent(g))
      BY DEF FailuresAreSpent
    <3> QED BY <1>0, <1>1, <1>n, <3>1, <3>2, <3>3
  <2> QED BY <2>1 DEF FailuresAreSpent
<1>6. ASSUME NEW id \in Ids, NEW from \in Addrs, KeyWrong(id, from) PROVE FailuresAreSpent'
  <2>0. PICK s : s = peers[id].salt
    OBVIOUS
  <2>1. /\ id \in Challenged /\ peers[id].state = "challenged" /\ peers[id].addr = from /\ Abandon(id)
        /\ Fail(Host(from), TRUE) /\ issued' = issued
    BY <1>6 DEF KeyWrong, Answering, Challenged, InState
  <2>2. AsBefore
    BY <1>0, <2>1, AbandonAsBefore
  <2>3. HeldOK(id)
    BY DEF IndInv, ChallengesOK
  <2>4. Sent(issued, id, from, s) /\ \A r \in peers[id].relogins : r.salt # s
    <3>1. Sent(issued, id, from, s) /\ \A r \in peers[id].relogins : r.addr # from
      BY <2>0, <2>1, <2>3 DEF HeldOK
    <3>2. issued[s].addr = from
      BY <3>1, SentTo
    <3>3. \A r \in peers[id].relogins : issued[r.salt].addr = r.addr
      BY <2>3, SentTo DEF HeldOK
    <3> QED BY <3>1, <3>2, <3>3
  <2>5. IsOut(id, s)
    BY <2>0, <2>1 DEF IsOut
  <2>6. ~IsOut(id, s)'
    <3>1. CASE Forget({id})
      <4>1. peers'[id] = NoPeer
        BY <3>1 DEF Forget
      <4> QED BY <4>1 DEF IsOut, NoPeer
    <3>2. ASSUME NEW next \in Oldest(peers[id].relogins),
                 peers' = [peers EXCEPT ![id] =
                    [state |-> peers[id].state, addr |-> next.addr, salt |-> next.salt,
                     first |-> peers[id].first, heard |-> next.at, relogins |-> peers[id].relogins \ {next}]]
          PROVE  ~IsOut(id, s)'
      <4>1. peers'[id].salt = next.salt /\ peers'[id].relogins \subseteq peers[id].relogins
        BY <1>0, <3>2 DEF PeersOK
      <4>2. next \in peers[id].relogins
        BY <3>2 DEF Oldest
      <4>3. \A r \in peers'[id].relogins : r.salt # s
        BY <2>4, <4>1
      <4> QED BY <2>4, <4>1, <4>2, <4>3 DEF IsOut
    <3> QED BY <2>1, <3>1, <3>2 DEF Abandon
  <2> QED BY <1>5, <2>1, <2>2, <2>4, <2>5, <2>6
<1>7. ASSUME NEW id \in Ids, NEW from \in Addrs, ReloginWrong(id, from) PROVE FailuresAreSpent'
  <2>1. PICK r \in Mine(id, from) : TRUE
    BY <1>7 DEF ReloginWrong
  <2>2. /\ Taken(id, from) /\ Fail(Host(from), TRUE) /\ issued' = issued
    BY <1>7 DEF ReloginWrong, histVars
  <2> DEFINE s == r.salt
             p == Beside(id, Others(id, from))
  <2>3. HeldOK(id)
    BY DEF IndInv, ChallengesOK
  <2>4. r \in peers[id].relogins /\ r.addr = from /\ Sent(issued, id, from, s) /\ IsOut(id, s)
    BY <2>1, <2>3 DEF Mine, HeldOK, IsOut
  <2>5. /\ peers' = [peers EXCEPT ![id] = p] /\ p.state = peers[id].state /\ p.first = peers[id].first
        /\ p.salt = peers[id].salt /\ p.relogins = Others(id, from)
    BY <2>2 DEF Taken, Beside
  <2>6. \A q \in Others(id, from) : q \in peers[id].relogins /\ q.salt # s
    <3>1. issued[s].addr = from
      BY <2>4, SentTo
    <3>2. \A q \in peers[id].relogins : issued[q.salt].addr = q.addr
      BY <2>3, SentTo DEF HeldOK
    <3> HIDE DEF s
    <3> QED BY <3>1, <3>2 DEF Others
  <2>7. peers[id].state = "challenged" => peers[id].salt # s
    BY <2>3, <2>4 DEF HeldOK, Sent
  <2> HIDE DEF s, p
  <2>8. AsBefore
    BY <1>0, <2>5, <2>6, StoreAsBefore
  <2>9. ~IsOut(id, s)'
    <3>1. peers'[id] = p
      BY <1>0, <2>5 DEF PeersOK
    <3> QED BY <2>5, <2>6, <2>7, <3>1 DEF IsOut
  <2> QED BY <1>5, <2>2, <2>4, <2>8, <2>9
<1>8. ASSUME NEW id \in Ids, NEW from \in Addrs, KeyUnsolicited(id, from) PROVE FailuresAreSpent'
  <2>1. Fail(Host(from), FALSE)
    BY <1>8 DEF KeyUnsolicited
  <2>2. ASSUME NEW g \in Hosts PROVE attempts'[g].failures <= attempts[g].failures
    <3>1. attempts'[g].failures <= attempts[g].failures + (IF g = Host(from) /\ FALSE THEN 1 ELSE 0)
      BY <1>0, <1>h, <2>1, FailCounts
    <3> QED BY <1>0, <3>1
  <2> QED BY <1>2, <2>2
<1>9. ASSUME NEW id \in Ids, NEW from \in Addrs, Login(id, from) \/ Key(id, from)
      PROVE  FailuresAreSpent'
  BY <1>3, <1>6, <1>7, <1>8, <1>9 DEF Login, LoginNew, LoginNoSalt, LoginAgain, LoginBeside, Key, KeyFull,
       KeyRight, ReloginStale, ReloginFull, ReloginRight
<1>10. ASSUME NEW id \in Ids, NEW from \in Addrs, Config(id, from) \/ Heard(id, from) \/ Close(id, from)
       PROVE  FailuresAreSpent'
  BY <1>3, <1>4, <1>10 DEF Config, Heard, Close, Succeed
<1>11. CASE Expire
  BY <1>4, <1>11 DEF Expire, ExpireAttempts
<1>12. CASE Quiet \/ Clock \/ UNCHANGED vars \/ \E S \in SUBSET Ids : SetAccess(S)
  BY <1>3, <1>12 DEF Quiet, Clock, vars, SetAccess
<1> QED BY <1>9, <1>10, <1>11, <1>12 DEF Next

(* The invariant the books add to IndInv.                                  *)
BooksInv == ListedWithinLimit /\ FailuresAreSpent /\ DeparturesAreTold

LEMMA InitBooks == Init => BooksInv
<1> SUFFICES ASSUME Init PROVE BooksInv
  OBVIOUS
<1>1. \A id \in Ids : peers[id].state = "none"
  BY DEF Init, NoPeer
<1>2. Evictable = {} /\ Configured = {}
  BY <1>1 DEF Evictable, Challenged, Configured, InState
<1>3. ListedWithinLimit
  BY <1>2, FS_EmptySet, RegistryAssumption DEF ListedWithinLimit, Evictable, RegistryAssumption
<1>4. FailuresAreSpent
  <2>1. ASSUME NEW h \in Hosts PROVE attempts[h].failures = 0 /\ Cardinality(Spent(h)) = 0
    <3>1. attempts[h].failures = 0
      BY DEF Init, ThrottleInit, Untracked
    <3>2. Spent(h) = {}
      <4>1. 1..Len(issued) = {}
        BY EmptySeq DEF Init
      <4> QED BY <4>1 DEF Spent
    <3> QED BY <3>1, <3>2, FS_EmptySet
  <2> QED BY <2>1 DEF FailuresAreSpent
<1>5. DeparturesAreTold
  BY <1>2 DEF DeparturesAreTold, ConfiguredIsAnnounced, Init
<1> QED BY <1>3, <1>4, <1>5 DEF BooksInv

(* A host's counted failures are wrong answers to challenges sent to it.   *)
LEMMA SpentIsEarned ==
  ASSUME IndInv, FailuresAreSpent
  PROVE  LockoutIsEarned
<1> SUFFICES ASSUME NEW h \in Hosts
             PROVE  attempts[h].failures <= Cardinality({s \in 1..Len(issued) : Host(issued[s].addr) = h})
  BY DEF LockoutIsEarned
<1> DEFINE T == {s \in 1..Len(issued) : Host(issued[s].addr) = h}
<1>1. Len(issued) \in Nat /\ attempts[h].failures \in Nat
  BY LenProperties DEF IndInv, RegistryTypeOK, Entries
<1>2. IsFiniteSet(T)
  <2>1. IsFiniteSet(1..Len(issued))
    BY <1>1, FS_Interval
  <2> QED BY <2>1, FS_Subset
<1>3. Spent(h) \subseteq T
  BY DEF Spent
<1> HIDE DEF T
<1>4. IsFiniteSet(Spent(h)) /\ Cardinality(Spent(h)) <= Cardinality(T)
  BY <1>2, <1>3, FS_Subset
<1>5. Cardinality(T) \in Nat /\ Cardinality(Spent(h)) \in Nat
  BY <1>2, <1>4, FS_CardinalityType
<1>6. attempts[h].failures <= Cardinality(T)
  BY <1>1, <1>4, <1>5 DEF FailuresAreSpent
<1> QED BY <1>6 DEF T

(* What the master keeps beside its entries agrees with them, whatever     *)
(* order logins, answers, closes, bans and sweeps come in (master.go):     *)
(* the counters and the eviction list within their limits, the failures    *)
(* held against a host earned, and who passes traffic announced.           *)
THEOREM BooksAlwaysAgree == Spec => []BooksAgree
<1>1. IndInv /\ BooksInv /\ [Next]_vars => BooksInv'
  BY ListedStep, FailuresStep, AnnouncedStep DEF BooksInv
<1>2. IndInv /\ BooksInv => BooksAgree
  BY SpentIsEarned DEF BooksInv, BooksAgree, IndInv, DeparturesAreTold
<1> QED BY <1>1, <1>2, InitBooks, Invariant, PTL DEF Spec


-----------------------------------------------------------------------------
(* A login in progress is ended only by what may end it.                   *)

(* An ID that is not logged in has proved nothing.                         *)
ProofsAreCurrent == \A id \in Ids : id \notin Working => proof[id] = 0

LEMMA ProofsCurrentStep ==
  ASSUME IndInv, ProofsAreCurrent, [Next]_vars
  PROVE  ProofsAreCurrent'
<1>0. peers \in [Ids -> PeerRecords] /\ PeersOK /\ proof \in [Ids -> Nat]
  BY DEF IndInv, RegistryTypeOK, PeersOK
<1>1. ASSUME proof' = proof, \A id \in Working : id \in Working' PROVE ProofsAreCurrent'
  BY <1>1 DEF ProofsAreCurrent
<1>2. ASSUME NEW S, Forget(S) PROVE ProofsAreCurrent'
  <2>1. Working' = Working \ S
    BY <1>2, ForgetSets DEF Forget
  <2> QED BY <1>2, <2>1 DEF ProofsAreCurrent, Forget
<1>3. ASSUME NEW id \in Ids, NEW p, peers' = [peers EXCEPT ![id] = p], proof' = proof,
             p.state = peers[id].state \/ p.state \in {"authenticated", "configured"} \/ id \notin Working
      PROVE  ProofsAreCurrent'
  <2>1. \A i \in Working : i \in Working'
    BY <1>0, <1>3 DEF Working, InState
  <2> QED BY <1>1, <1>3, <2>1
<1>4. ASSUME NEW id \in Ids, NEW p, peers' = [peers EXCEPT ![id] = p], p.state = "authenticated", NEW salt, Accept(id, salt)
      PROVE  ProofsAreCurrent'
  <2>1. Working' = Working \cup {id}
    BY <1>0, <1>4, StoreSets
  <2>2. \A i \in Ids : i # id => proof'[i] = proof[i]
    BY <1>0, <1>4 DEF Accept
  <2> QED BY <2>1, <2>2 DEF ProofsAreCurrent
<1>5. ASSUME NEW i \in Ids, NEW from \in Addrs, Login(i, from) PROVE ProofsAreCurrent'
  <2>1. CASE LoginNew(i, from)
    <3>1. \A j \in Working : j # i /\ j \notin Evictee
      BY <2>1, KnownSplit DEF LoginNew, Evictee, Evicted, Oldest, StillWaiting
    <3>2. \A j \in Working : j \in Ids /\ peers'[j] = peers[j]
      BY <1>0, <2>1, <3>1, KnownSplit DEF LoginNew
    <3>3. \A j \in Working : j \in Working'
      BY <3>2 DEF Working, InState
    <3> QED BY <1>1, <2>1, <3>3 DEF LoginNew
  <2>2. CASE LoginNoSalt(i, from)
    BY <1>2, <2>2 DEF LoginNoSalt
  <2>3. CASE LoginAgain(i, from)
    <3>1. i \notin Working
      BY <2>3, KnownSplit DEF LoginAgain
    <3> QED BY <1>3, <2>3, <3>1 DEF LoginAgain
  <2>4. CASE LoginBeside(i, from)
    <3>1. PICK L : peers' = [peers EXCEPT ![i] = Beside(i, L)]
      BY <2>4 DEF LoginBeside
    <3>2. Beside(i, L).state = peers[i].state
      BY DEF Beside
    <3> QED BY <1>3, <2>4, <3>1, <3>2 DEF LoginBeside
  <2> QED BY <1>5, <2>1, <2>2, <2>3, <2>4 DEF Login
<1>6. ASSUME NEW i \in Ids, NEW from \in Addrs, Key(i, from) PROVE ProofsAreCurrent'
  <2>1. CASE KeyUnsolicited(i, from)
    BY <1>1, <2>1 DEF KeyUnsolicited, entryVars, histVars, Working, InState
  <2>2. CASE KeyWrong(i, from) \/ KeyFull(i, from)
    <3>1. Abandon(i) /\ i \notin Working
      BY <2>2, KnownSplit DEF KeyWrong, KeyFull, Answering
    <3> QED BY <1>2, <1>3, <3>1 DEF Abandon
  <2>3. CASE KeyRight(i, from)
    BY <1>4, <2>3 DEF KeyRight
  <2>4. CASE Taken(i, from) /\ proof' = proof
    <3>1. Beside(i, Others(i, from)).state = peers[i].state
      BY DEF Beside
    <3> QED BY <1>3, <2>4, <3>1 DEF Taken
  <2>5. CASE ReloginRight(i, from)
    BY <1>4, <2>5 DEF ReloginRight
  <2> QED
    BY <1>6, <2>1, <2>2, <2>3, <2>4, <2>5
       DEF Key, ReloginStale, ReloginWrong, ReloginFull, histVars
<1>7. ASSUME NEW i \in Ids, NEW from \in Addrs, Config(i, from) \/ Heard(i, from)
      PROVE  ProofsAreCurrent'
  BY <1>3, <1>7 DEF Config, Heard, histVars
<1>8. ASSUME NEW i \in Ids, NEW from \in Addrs, Close(i, from) PROVE ProofsAreCurrent'
  BY <1>2, <1>8 DEF Close
<1>9. ASSUME NEW S \in SUBSET Ids, SetAccess(S) PROVE ProofsAreCurrent'
  BY <1>2, <1>9 DEF SetAccess
<1>10. CASE Expire
  BY <1>2, <1>10 DEF Expire
<1>11. CASE Quiet \/ Clock \/ UNCHANGED vars
  BY <1>1, <1>11 DEF Quiet, Clock, vars, entryVars, histVars, Working, InState
<1> QED
  BY <1>5, <1>6, <1>7, <1>8, <1>9, <1>10, <1>11 DEF Next

(* Outstanding, one challenge at a time.                                   *)
LEMMA OutstandingIsOut ==
  ASSUME NEW id \in Ids
  PROVE  /\ \A s : s \in Outstanding(id) <=> IsOut(id, s)
         /\ \A s : s \in Outstanding(id)' <=> IsOut(id, s)'
<1>1. \A s : s \in {peers[i].salt : i \in Challenged \cap {id}} <=>
             peers[id].state = "challenged" /\ peers[id].salt = s
  BY DEF Challenged, InState
<1>2. \A s : s \in {peers'[i].salt : i \in Challenged' \cap {id}} <=>
             peers'[id].state = "challenged" /\ peers'[id].salt = s
  BY DEF Challenged, InState
<1> QED BY <1>1, <1>2 DEF Outstanding, IsOut

(* A challenge that is outstanding is known by its address, and is not the *)
(* one the registration answered.                                          *)
LEMMA OutIsSent ==
  ASSUME IndInv, NEW id \in Ids, NEW s, IsOut(id, s)
  PROVE  /\ peers[id].state # "none"
         /\ peers[id].state = "challenged" /\ peers[id].salt = s => issued[s].addr = peers[id].addr
         /\ \A r \in peers[id].relogins : r.salt = s => issued[s].addr = r.addr
<1>0. HeldOK(id) /\ PeersOK
  BY DEF IndInv, ChallengesOK, RegistryTypeOK
<1>1. peers[id].state # "none"
  BY <1>0 DEF PeersOK, NoPeer, IsOut
<1>2. peers[id].state = "challenged" /\ peers[id].salt = s => issued[s].addr = peers[id].addr
  BY <1>0 DEF HeldOK, Sent
<1>3. ASSUME NEW r \in peers[id].relogins, r.salt = s PROVE issued[s].addr = r.addr
  <2>1. Sent(issued, id, r.addr, r.salt)
    BY <1>0, <1>3 DEF HeldOK
  <2>2. issued[r.salt] = [id |-> id, addr |-> r.addr, uses |-> 0]
    BY <2>1 DEF Sent
  <2>3. issued[r.salt].addr = r.addr
    BY <2>2
  <2> QED BY <1>3, <2>3
<1> QED BY <1>1, <1>2, <1>3

(* A challenge of another address that offerRelogin drops was too old, or  *)
(* the oldest of a full list.                                              *)
LEMMA OfferedDrops ==
  ASSUME NEW L, IsFiniteSet(L), Cardinality(L) <= MaxRelogins, NEW from, NEW salt,
         NEW new \in Offered(L, from, salt), NEW r \in L, r \notin new
  PROVE  \/ r.addr = from
         \/ ~(now - r.at <= LoginTimeout)
         \/ r \in Oldest(L) /\ Cardinality(L) = MaxRelogins
<1> DEFINE kept == {q \in L : q.addr # from /\ now - q.at <= LoginTimeout}
           c == [addr |-> from, salt |-> salt, at |-> now]
<1>1. \/ new = kept \cup {c}
      \/ ~(Cardinality(kept) < MaxRelogins) /\ \E q \in Oldest(kept) : new = (kept \ {q}) \cup {c}
  BY Zenon DEF Offered
<1>2. CASE r \notin kept
  BY <1>2
<1>3. CASE r \in kept
  <2>1. ~(Cardinality(kept) < MaxRelogins) /\ r \in Oldest(kept)
    BY <1>1, <1>3
  <2>2. IsFiniteSet(kept) /\ Cardinality(kept) <= Cardinality(L) /\ (Cardinality(kept) = Cardinality(L) => kept = L)
    BY FS_Subset
  <2>3. Cardinality(kept) \in Nat /\ Cardinality(L) \in Nat
    BY <2>2, FS_CardinalityType
  <2> HIDE DEF kept
  <2>4. Cardinality(L) = MaxRelogins /\ Cardinality(kept) = Cardinality(L)
    BY <2>1, <2>2, <2>3, RegistryAssumption DEF RegistryAssumption
  <2> QED BY <2>1, <2>2, <2>4
<1> QED BY <1>2, <1>3

LEMMA EndsStep ==
  ASSUME IndInv, ProofsAreCurrent, Next, NEW id \in Ids, NEW s, IsOut(id, s), ~IsOut(id, s)'
  PROVE  MayEnd(id, s)
<1>0. peers \in [Ids -> PeerRecords] /\ PeersOK
  BY DEF IndInv, RegistryTypeOK, PeersOK
<1>1. peers'[id] # peers[id]
  BY DEF IsOut
<1>s. /\ peers[id].state # "none"
      /\ peers[id].state = "challenged" /\ peers[id].salt = s => issued[s].addr = peers[id].addr
      /\ \A r \in peers[id].relogins : r.salt = s => issued[s].addr = r.addr
  BY OutIsSent
<1>2. ASSUME NEW i \in Ids, NEW p, peers' = [peers EXCEPT ![i] = p] PROVE i = id /\ peers'[id] = p
  BY <1>0, <1>1, <1>2
<1>3. ASSUME NEW S, Forget(S) PROVE id \in S
  BY <1>0, <1>1, <1>3 DEF Forget
<1>4. ASSUME NEW i \in Ids, NEW from \in Addrs, Login(i, from) PROVE MayEnd(id, s)
  <2>1. CASE LoginNew(i, from)
    <3>1. i # id
      BY <1>s, <2>1 DEF LoginNew, Known, InState, IndInv, RegistryTypeOK, PeersOK, PeerRecords
    <3>2. waiting >= MaxHalfOpen /\ id \in Evictee
      BY <1>0, <1>1, <2>1, <3>1 DEF LoginNew
    <3> QED BY <2>1, <3>2 DEF MayEnd
  <2>2. CASE LoginNoSalt(i, from)
    <3>1. waiting >= MaxHalfOpen /\ id \in Evictee
      BY <1>3, <2>2 DEF LoginNoSalt
    <3> QED BY <2>2, <3>1 DEF MayEnd
  <2>3. CASE LoginAgain(i, from)
    <3> DEFINE p == [state |-> "challenged", addr |-> from, salt |-> NextSalt,
                     first |-> peers[i].first, heard |-> now, relogins |-> peers[i].relogins]
    <3>1. peers' = [peers EXCEPT ![i] = p] /\ i \in Challenged /\ peers[i].addr = from
      BY <2>3 DEF LoginAgain
    <3>2. i = id /\ peers'[id] = p
      BY <1>2, <3>1
    <3>3. peers[id].state = "challenged" /\ peers[id].salt = s
      BY <3>1, <3>2 DEF IsOut, Challenged, InState
    <3>4. issued[s].addr = from
      BY <1>s, <3>1, <3>2, <3>3
    <3> QED BY <1>4, <3>2, <3>4 DEF MayEnd
  <2>4. CASE LoginBeside(i, from)
    <3>1. PICK L \in Offered(peers[i].relogins, from, NextSalt) : peers' = [peers EXCEPT ![i] = Beside(i, L)]
      BY <2>4 DEF LoginBeside
    <3>2. i = id /\ peers'[id] = Beside(id, L)
      BY <1>2, <3>1
    <3>3. PICK r \in peers[id].relogins : r.salt = s /\ r \notin L
      BY <3>2 DEF IsOut, Beside
    <3>4. IsFiniteSet(peers[id].relogins) /\ Cardinality(peers[id].relogins) <= MaxRelogins
      BY <1>0 DEF PeersOK, IndInv, ListsFinite
    <3>5. \/ r.addr = from
          \/ ~(now - r.at <= LoginTimeout)
          \/ r \in Oldest(peers[id].relogins) /\ Cardinality(peers[id].relogins) = MaxRelogins
      BY <3>1, <3>2, <3>3, <3>4, OfferedDrops
    <3>6. CASE r.addr = from
      <4>1. issued[s].addr = from
        BY <1>s, <3>3, <3>6
      <4> QED BY <1>4, <3>2, <4>1 DEF MayEnd
    <3>7. CASE ~(now - r.at <= LoginTimeout)
      <4>1. now \in Nat /\ LoginTimeout \in Nat /\ r.at \in Nat
        BY <1>0, <3>3, RegistryAssumption DEF RegistryAssumption, IndInv, RegistryTypeOK, PeerRecords, Challenges
      <4>2. now - r.at > LoginTimeout
        BY <3>7, <4>1
      <4> QED BY <3>3, <4>2 DEF MayEnd
    <3>8. CASE r \in Oldest(peers[id].relogins) /\ Cardinality(peers[id].relogins) = MaxRelogins
      BY <2>4, <3>2, <3>3, <3>8 DEF MayEnd
    <3> QED BY <3>5, <3>6, <3>7, <3>8
  <2> QED BY <1>4, <2>1, <2>2, <2>3, <2>4 DEF Login
<1>5. ASSUME NEW i \in Ids, NEW from \in Addrs, Key(i, from) PROVE MayEnd(id, s)
  <2>h. CASE i = id /\ issued[s].addr = from
    BY <1>5, <2>h DEF MayEnd
  <2>1. CASE KeyUnsolicited(i, from)
    BY <1>1, <2>1 DEF KeyUnsolicited, entryVars
  <2>2. CASE KeyWrong(i, from) \/ KeyFull(i, from)
    <3>1. Abandon(i) /\ i \in Challenged /\ peers[i].addr = from
      BY <2>2 DEF KeyWrong, KeyFull, Answering
    <3>2. i = id /\ peers[id].state = "challenged"
      BY <1>2, <1>3, <3>1 DEF Abandon, Challenged, InState
    <3>3. peers[id].salt = s
      <4>1. CASE peers[id].relogins = {}
        BY <4>1 DEF IsOut
      <4>2. CASE peers[id].relogins # {} /\ ~Forget({id})
        <5>1. PICK next \in Oldest(peers[id].relogins) : peers' = [peers EXCEPT ![id] =
                [state |-> peers[id].state, addr |-> next.addr, salt |-> next.salt, first |-> peers[id].first,
                 heard |-> next.at, relogins |-> peers[id].relogins \ {next}]]
          BY <3>1, <3>2, <4>2 DEF Abandon
        <5>2. /\ peers'[id].state = "challenged" /\ peers'[id].salt = next.salt
              /\ peers'[id].relogins = peers[id].relogins \ {next}
          BY <1>0, <3>2, <5>1
        <5> QED BY <3>2, <5>2 DEF IsOut
      <4>3. CASE peers[id].relogins # {} /\ Forget({id})
        <5>1. ~\E next \in peers[id].relogins : FALSE
          OBVIOUS
        <5>2. peers'[id] = NoPeer
          BY <1>0, <4>3 DEF Forget
        <5>3. PICK next \in Oldest(peers[id].relogins) : peers' = [peers EXCEPT ![id] =
                [state |-> peers[id].state, addr |-> next.addr, salt |-> next.salt, first |-> peers[id].first,
                 heard |-> next.at, relogins |-> peers[id].relogins \ {next}]]
          BY <3>1, <3>2, <4>3 DEF Abandon
        <5>4. peers'[id].state = "challenged"
          BY <1>0, <3>2, <5>3
        <5> QED BY <5>2, <5>4 DEF NoPeer
      <4> QED BY <4>1, <4>2, <4>3
    <3>4. issued[s].addr = from
      BY <1>s, <3>1, <3>2, <3>3
    <3> QED BY <2>h, <3>2, <3>4
  <2>3. CASE KeyRight(i, from)
    <3> DEFINE p == [state |-> "authenticated", addr |-> from, salt |-> 0, first |-> peers[i].first,
                     heard |-> now, relogins |-> peers[i].relogins]
    <3>1. peers' = [peers EXCEPT ![i] = p] /\ i \in Challenged /\ peers[i].addr = from
      BY <2>3 DEF KeyRight, Answering
    <3>2. i = id /\ peers'[id] = p
      BY <1>2, <3>1
    <3>3. peers[id].state = "challenged" /\ peers[id].salt = s
      BY <3>1, <3>2 DEF IsOut, Challenged, InState
    <3>4. issued[s].addr = from
      BY <1>s, <3>1, <3>2, <3>3
    <3> QED BY <2>h, <3>2, <3>4
  <2>4. CASE Taken(i, from)
    <3>1. i = id /\ peers'[id] = Beside(id, Others(id, from))
      BY <1>2, <2>4 DEF Taken
    <3>2. PICK r \in peers[id].relogins : r.salt = s /\ r.addr = from
      BY <3>1 DEF IsOut, Beside, Others
    <3>3. issued[s].addr = from
      BY <1>s, <3>2
    <3> QED BY <2>h, <3>1, <3>3
  <2>5. CASE ReloginRight(i, from)
    <3>1. i = id
      BY <1>2, <2>5 DEF ReloginRight
    <3>2. PICK r \in Mine(id, from) : Accept(id, r.salt)
      BY <2>5, <3>1 DEF ReloginRight
    <3>3. Sent(issued, id, r.addr, r.salt)
      BY <3>2 DEF IndInv, ChallengesOK, HeldOK, Mine
    <3>4. r.salt \in 1..Len(issued) /\ issued[r.salt].uses = 0
      BY <3>3 DEF Sent
    <3>5. proof'[id] = r.salt
      BY <3>2 DEF Accept, IndInv, RegistryTypeOK
    <3>6. CASE id \in Working
      <4>1. issued[proof[id]].uses = 1
        BY <3>6 DEF IndInv, ProvedHere
      <4>2. r.salt # proof[id] /\ r.salt # 0
        BY <3>4, <4>1
      <4> QED BY <3>5, <4>2 DEF MayEnd
    <3>7. CASE id \notin Working
      <4>1. proof[id] = 0
        BY <3>7 DEF ProofsAreCurrent
      <4>2. r.salt # 0
        BY <3>4
      <4> QED BY <3>5, <4>1, <4>2 DEF MayEnd
    <3> QED BY <3>6, <3>7
  <2> QED
    BY <1>5, <2>1, <2>2, <2>3, <2>4, <2>5
       DEF Key, ReloginStale, ReloginWrong, ReloginFull
<1>6. ASSUME NEW i \in Ids, NEW from \in Addrs, Config(i, from) \/ Heard(i, from)
      PROVE  MayEnd(id, s)
  <2> DEFINE p == [state |-> "configured", addr |-> from, salt |-> peers[i].salt,
                   first |-> peers[i].first, heard |-> now,
                   relogins |-> peers[i].relogins]
  <2>1. peers' = [peers EXCEPT ![i] = p] /\ i \in Working
    BY <1>6, KnownSplit DEF Config, Heard
  <2>2. i = id /\ peers'[id] = p
    BY <1>2, <2>1
  <2> QED BY <2>1, <2>2 DEF IsOut, Working, InState
<1>7. ASSUME NEW i \in Ids, NEW from \in Addrs, Close(i, from) PROVE MayEnd(id, s)
  <2>1. i = id /\ peers[id].addr = from
    BY <1>3, <1>7 DEF Close
  <2> QED BY <1>7, <2>1 DEF MayEnd
<1>8. ASSUME NEW S \in SUBSET Ids, SetAccess(S) PROVE MayEnd(id, s)
  BY <1>3, <1>8 DEF SetAccess, MayEnd
<1>9. CASE Expire
  BY <1>3, <1>9 DEF Expire, Stale, MayEnd
<1>10. CASE Quiet \/ Clock
  BY <1>1, <1>10 DEF Quiet, Clock, entryVars
<1> QED
  BY <1>4, <1>5, <1>6, <1>7, <1>8, <1>9, <1>10 DEF Next

(* A login in progress is not wiped by somebody else's for the same ID: it *)
(* ends by its own address, a proof of the password, a ban, a close, a     *)
(* timeout or a limit (handleLogin, handleKey, offerRelogin, evictHalfOpen,*)
(* abandon).                                                               *)
THEOREM LoginsAreTheirOwn == Spec => OwnLoginSurvives
<1> DEFINE A == \A id \in Ids : \A s \in Outstanding(id) \ Outstanding(id)' : MayEnd(id, s)
<1>1. IndInv /\ ProofsAreCurrent /\ [Next]_vars => [A]_vars
  BY EndsStep, OutstandingIsOut
<1>2. A => \A id \in Ids : \A s \in Outstanding(id) \ Outstanding(id)' : MayEnd(id, s)
  OBVIOUS
<1>3. Init => ProofsAreCurrent
  BY DEF Init, ProofsAreCurrent
<1>4. IndInv /\ ProofsAreCurrent /\ [Next]_vars => ProofsAreCurrent'
  BY ProofsCurrentStep
<1> HIDE DEF A
<1> QED
  BY <1>1, <1>2, <1>3, <1>4, Invariant, PTL DEF Spec, OwnLoginSurvives



-----------------------------------------------------------------------------
(* The login throttle on its own (MCThrottle).                             *)

Tries == [at : Nat, nth : Nat]

(* What is known of a host with entry e whose failures T are within the    *)
(* last Lockout: they are on record, a run that has reached the limit locks*)
(* until Lockout after the last of them, and only such a run locks.        *)
HostOK(e, T) ==
  /\ IsFiniteSet(T) /\ T \subseteq Tries
  /\ \A t \in T : /\ now < t.at + Lockout /\ t.at <= now /\ t.at <= e.last
                  /\ e.failures >= MaxFailures => t.at + Lockout <= e.until
                  /\ t.at = now => t.nth <= Cardinality({u \in T : u.at = now})
  /\ Cardinality(T) <= e.failures /\ Cardinality(T) <= MaxFailures
  /\ e.until # 0 => e.failures >= MaxFailures

ThrottleInv ==
  /\ attempts \in [Hosts -> Entries] /\ now \in Nat \ {0}
  /\ DOMAIN tries = Hosts /\ tries = [h \in Hosts |-> tries[h]]
  /\ Cardinality(Tracked) <= MaxSources
  /\ \A h \in Hosts : attempts[h] # Untracked => attempts[h].last \in 1..now
  /\ \A h \in Hosts : HostOK(attempts[h], tries[h])

LEMMA ThrottleNumbers ==
  /\ MaxFailures \in Nat \ {0} /\ Lockout \in Nat \ {0} /\ Window \in Nat /\ Lockout <= Window
  /\ MaxSources \in Nat \ {0} /\ IsFiniteSet(Hosts)
  /\ Untracked \in Entries /\ Untracked.failures = 0 /\ Untracked.last = 0 /\ Untracked.until = 0
BY ThrottleAssumption DEF ThrottleAssumption, Untracked, Entries

LEMMA TrackedFinite ==
  ASSUME NEW T \in SUBSET Hosts
  PROVE  IsFiniteSet(T) /\ Cardinality(T) \in Nat
BY ThrottleNumbers, FS_Subset, FS_CardinalityType

(* Nobody who is not on record has failures.                               *)
LEMMA NothingTried == HostOK(Untracked, {})
<1>1. IsFiniteSet({}) /\ Cardinality({}) = 0
  BY FS_EmptySet
<1> QED BY <1>1, ThrottleNumbers DEF HostOK

LEMMA QuietTriedNothing ==
  ASSUME now \in Nat, NEW e \in Entries, NEW T, HostOK(e, T),
         now - e.last > Window \/ e = Untracked \/ (~(now < e.until) /\ e.failures >= MaxFailures)
  PROVE  T = {}
<1> SUFFICES ASSUME NEW t \in T PROVE FALSE
  OBVIOUS
<1>1. t.at \in Nat /\ now < t.at + Lockout /\ t.at <= e.last
  BY DEF HostOK, Tries
<1>2. e.last \in Nat /\ e.until \in Nat /\ e.failures \in Nat
  BY DEF Entries
<1>3. CASE now - e.last > Window
  BY <1>1, <1>2, <1>3, ThrottleNumbers
<1>4. CASE e = Untracked
  <2>1. t.at = 0 /\ Cardinality(T) <= 0
    BY <1>1, <1>4, ThrottleNumbers DEF HostOK
  <2>2. IsFiniteSet(T) /\ Cardinality(T) \in Nat
    BY FS_CardinalityType DEF HostOK
  <2>3. T = {}
    BY <2>1, <2>2, FS_EmptySet
  <2> QED BY <2>3
<1>5. CASE ~(now < e.until) /\ e.failures >= MaxFailures
  <2>1. t.at + Lockout <= e.until
    BY <1>5 DEF HostOK
  <2> QED BY <1>1, <1>2, <1>5, <2>1, ThrottleNumbers
<1> QED BY <1>3, <1>4, <1>5

(* A failure of a host that is not locked.                                 *)
LEMMA FailureTried ==
  ASSUME now \in Nat \ {0}, NEW e \in Entries, NEW T, HostOK(e, T), ~(now < e.until),
         NEW b \in BOOLEAN
  PROVE  /\ Extended(e, b) \in Entries /\ Extended(e, b).last = now
         /\ HostOK(Extended(e, b),
                   IF b THEN T \cup {[at |-> now, nth |-> Cardinality({t \in T : t.at = now}) + 1]} ELSE T)
<1> DEFINE run == IF now - e.last > Window THEN Untracked ELSE e
           n == run.failures + (IF b THEN 1 ELSE 0)
           u == IF b /\ n >= MaxFailures THEN now + Lockout ELSE run.until
           x == [failures |-> n, last |-> now, until |-> u]
           Now == {t \in T : t.at = now}
           k == Cardinality(Now) + 1
           t0 == [at |-> now, nth |-> k]
<1>1. Extended(e, b) = x
  BY DEF Extended
<1>2. run \in Entries /\ (run = e \/ (run = Untracked /\ T = {}))
  BY ThrottleNumbers, QuietTriedNothing
<1>3. HostOK(run, T)
  BY <1>2, NothingTried
<1>4. run.failures \in Nat /\ run.until \in Nat /\ run.last \in Nat
  BY <1>2 DEF Entries
<1>5. IsFiniteSet(T) /\ Cardinality(T) \in Nat /\ Cardinality(T) <= run.failures /\ Cardinality(T) <= MaxFailures
  BY <1>3, FS_CardinalityType DEF HostOK
<1>6. Cardinality(T) < MaxFailures
  <2>1. CASE run.failures >= MaxFailures
    <3>1. run = e
      BY <1>2, <2>1, ThrottleNumbers
    <3>2. T = {}
      BY <2>1, <3>1, QuietTriedNothing
    <3>3. Cardinality(T) = 0
      BY <3>2, FS_EmptySet
    <3> QED BY <3>3, ThrottleNumbers
  <2>2. CASE ~(run.failures >= MaxFailures)
    BY <1>4, <1>5, <2>2, ThrottleNumbers
  <2> QED BY <2>1, <2>2
<1>7. IsFiniteSet(Now) /\ Cardinality(Now) \in Nat /\ Now \subseteq T
  BY <1>5, FS_Subset, FS_CardinalityType
<1>8. n \in Nat /\ u \in Nat /\ run.failures <= n /\ (b => n = run.failures + 1) /\ (~b => n = run.failures)
  <2>1. n \in Nat /\ run.failures <= n /\ (b => n = run.failures + 1) /\ (~b => n = run.failures)
    BY <1>4
  <2> HIDE DEF n
  <2>2. u \in Nat
    BY <1>4, <2>1, ThrottleNumbers
  <2> QED BY <2>1, <2>2
<1>r. /\ \A t \in T : /\ t.at \in Nat /\ now < t.at + Lockout /\ t.at <= now
                      /\ run.failures >= MaxFailures => t.at + Lockout <= run.until
                      /\ t.at = now => t.nth \in Nat /\ t.nth <= Cardinality(Now)
      /\ T \subseteq Tries /\ (run.until # 0 => run.failures >= MaxFailures)
  BY <1>3 DEF HostOK, Tries
<1>u. /\ b /\ n >= MaxFailures => u = now + Lockout
      /\ ~(b /\ n >= MaxFailures) => u = run.until
  OBVIOUS
<1>9. x \in Entries /\ x.last = now /\ x.failures = n /\ x.until = u
  <2> HIDE DEF n, u
  <2> QED BY <1>8 DEF Entries
<1> HIDE DEF x, n, u, run
<1>10. ASSUME ~b PROVE HostOK(x, T)
  BY <1>4, <1>5, <1>8, <1>9, <1>10, <1>r, <1>u DEF HostOK
<1>11. ASSUME b PROVE HostOK(x, T \cup {t0})
  <2> DEFINE S == T \cup {t0}
             NowS == {t \in S : t.at = now}
  <2>1. t0 \in Tries /\ t0.at = now /\ t0.nth = k /\ k \in Nat
    BY <1>7 DEF Tries
  <2>2. t0 \notin T
    BY <1>7, <1>r, <2>1
  <2> HIDE DEF t0, k
  <2>3. IsFiniteSet(S) /\ Cardinality(S) = Cardinality(T) + 1
    BY <1>5, <2>2, FS_AddElement
  <2>4. NowS = Now \cup {t0} /\ t0 \notin Now
    BY <2>1, <2>2
  <2> HIDE DEF NowS, Now
  <2>5. Cardinality(NowS) = Cardinality(Now) + 1
    BY <1>7, <2>4, FS_AddElement
  <2>6. Cardinality(NowS) = k
    BY <2>5 DEF k
  <2>7. S \subseteq Tries
    BY <1>r, <2>1
  <2>8. ASSUME NEW t \in S
        PROVE  /\ now < t.at + Lockout /\ t.at <= now /\ t.at <= x.last
               /\ x.failures >= MaxFailures => t.at + Lockout <= x.until
               /\ t.at = now => t.nth <= Cardinality(NowS)
    <3>1. CASE t \in T
      BY <1>4, <1>7, <1>8, <1>9, <1>11, <1>r, <1>u, <2>5, <3>1, ThrottleNumbers
    <3>2. CASE t = t0
      BY <1>8, <1>9, <1>11, <1>u, <2>1, <2>6, <3>2, ThrottleNumbers
    <3> QED BY <3>1, <3>2
  <2>9. Cardinality(S) <= x.failures /\ Cardinality(S) <= MaxFailures
    BY <1>4, <1>5, <1>6, <1>8, <1>9, <1>11, <2>3, ThrottleNumbers
  <2>10. x.until # 0 => x.failures >= MaxFailures
    BY <1>4, <1>8, <1>9, <1>r, <1>u, ThrottleNumbers
  <2> QED BY <2>3, <2>7, <2>8, <2>9, <2>10 DEF HostOK, NowS
<1> QED BY <1>1, <1>9, <1>10, <1>11

(* A table that has a place left has room for one more.                    *)
LEMMA RoomForOne ==
  ASSUME NEW S \in SUBSET Hosts, NEW h \in Hosts, NEW T \in SUBSET Hosts,
         T \subseteq S \cup {h}, h \in S \/ Cardinality(S) < MaxSources, Cardinality(S) <= MaxSources
  PROVE  Cardinality(T) <= MaxSources
<1>1. IsFiniteSet(S) /\ Cardinality(S) \in Nat /\ IsFiniteSet(T) /\ Cardinality(T) \in Nat
  BY TrackedFinite
<1>2. IsFiniteSet(S \cup {h}) /\ Cardinality(S \cup {h}) \in Nat
  BY TrackedFinite
<1>3. Cardinality(T) <= Cardinality(S \cup {h})
  BY <1>2, FS_Subset
<1>4. Cardinality(S \cup {h}) <= MaxSources
  <2>1. CASE h \in S
    <3>1. S \cup {h} = S
      BY <2>1
    <3> QED BY <3>1
  <2>2. CASE h \notin S
    <3>1. Cardinality(S \cup {h}) = Cardinality(S) + 1
      BY <1>1, <2>2, FS_AddElement
    <3> QED BY <1>1, <2>2, <3>1, ThrottleNumbers
  <2> QED BY <2>1, <2>2
<1> QED BY <1>1, <1>2, <1>3, <1>4, ThrottleNumbers

(* Whom makeRoom may push out of a full table: one of its hosts, and a     *)
(* locked one only when every place is a locked host's.                    *)
LEMMA VictimIsFair ==
  ASSUME ThrottleInv, Cardinality(Tracked \ Lapsed) >= MaxSources,
         NEW v \in Victims(Tracked \ Lapsed)
  PROVE  /\ v \in Tracked \ Lapsed
         /\ Locked(v) => /\ Cardinality(Tracked) = MaxSources
                         /\ \A g \in Tracked : Locked(g) /\ attempts[v].until <= attempts[g].until
<1> DEFINE kept == Tracked \ Lapsed
           unproven == {h \in kept : attempts[h].failures = 0}
           unlocked == {h \in kept \ unproven : ~Locked(h)}
<1>1. v \in (IF unproven # {} THEN Quietest(unproven)
             ELSE IF unlocked # {} THEN Quietest(unlocked) ELSE SoonestFree(kept))
  BY DEF Victims
<1>2. v \in kept
  BY <1>1 DEF Quietest, SoonestFree
<1> SUFFICES ASSUME Locked(v)
             PROVE  /\ Cardinality(Tracked) = MaxSources
                    /\ \A g \in Tracked : Locked(g) /\ attempts[v].until <= attempts[g].until
  BY <1>2
<1>3. v \in Hosts /\ attempts[v].until \in Nat /\ attempts[v].failures \in Nat /\ now \in Nat
  BY <1>2 DEF ThrottleInv, Entries, Tracked
<1>4. attempts[v].failures # 0
  BY <1>3, ThrottleNumbers DEF ThrottleInv, HostOK, Locked
<1>5. unproven = {}
  BY <1>1, <1>4 DEF Quietest
<1>6. unlocked = {}
  BY <1>1, <1>5 DEF Quietest
<1>7. v \in SoonestFree(kept)
  BY <1>1, <1>5, <1>6
<1>8. \A g \in kept : Locked(g) /\ attempts[v].until <= attempts[g].until
  BY <1>5, <1>6, <1>7 DEF SoonestFree
<1>9. /\ IsFiniteSet(Tracked) /\ Cardinality(Tracked) \in Nat /\ Cardinality(kept) \in Nat
      /\ kept \subseteq Tracked
  BY TrackedFinite DEF Tracked
<1>10. Cardinality(kept) <= Cardinality(Tracked) /\ Cardinality(Tracked) <= MaxSources
  BY <1>9, FS_Subset DEF ThrottleInv
<1>11. Cardinality(kept) = Cardinality(Tracked) /\ Cardinality(Tracked) = MaxSources
  BY <1>9, <1>10, ThrottleNumbers
<1>12. kept = Tracked
  BY <1>9, <1>11, FS_Subset
<1> QED BY <1>8, <1>11, <1>12

(* What a failure does to the table: the host's own entry is extended or,  *)
(* unproven in a full table, left alone; another's is kept or forgotten.   *)
LEMMA FailTable ==
  ASSUME ThrottleInv, NEW h \in Hosts, NEW b \in BOOLEAN, Fail(h, b), ~Locked(h)
  PROVE  /\ attempts' \in [Hosts -> Entries]
         /\ attempts'[h] = Extended(attempts[h], b) \/ (~b /\ attempts'[h] = attempts[h])
         /\ \A g \in Hosts \ {h} :
              \/ attempts'[g] = attempts[g]
              \/ /\ attempts'[g] = Untracked
                 /\ Locked(g) => /\ Cardinality(Tracked) = MaxSources
                                 /\ \A k \in Tracked : Locked(k) /\ attempts[g].until <= attempts[k].until
         /\ Cardinality(Tracked') <= MaxSources
<1> DEFINE hasPlace == attempts[h] # Untracked \/ Cardinality(Tracked) < MaxSources
<1>t. /\ attempts \in [Hosts -> Entries] /\ now \in Nat \ {0} /\ Cardinality(Tracked) <= MaxSources
      /\ Tracked \in SUBSET Hosts
  BY DEF ThrottleInv, Tracked
<1>1. CASE hasPlace /\ attempts' = Counted(attempts, h, b)
  <2>1. attempts' \in [Hosts -> Entries]
    BY <1>1, <1>t, CountedType
  <2>2. attempts'[h] = Extended(attempts[h], b) /\ \A g \in Hosts \ {h} : attempts'[g] = attempts[g]
    BY <1>1, <1>t DEF Counted
  <2>3. Tracked' \subseteq Tracked \cup {h} /\ Tracked' \in SUBSET Hosts
    BY <2>2 DEF Tracked
  <2>4. h \in Tracked \/ Cardinality(Tracked) < MaxSources
    BY <1>1 DEF Tracked
  <2>5. Cardinality(Tracked') <= MaxSources
    BY <1>t, <2>3, <2>4, RoomForOne
  <2> QED BY <2>1, <2>2, <2>5
<1>2. CASE ~hasPlace /\ b /\ \E t \in RoomMade : attempts' = Counted(t, h, b)
  <2>1. PICK t \in RoomMade : attempts' = Counted(t, h, b)
    BY <1>2
  <2> DEFINE kept == Tracked \ Lapsed
  <2>2. PICK F : /\ t = Forgetting(F)
                 /\ \/ F = Lapsed /\ Cardinality(kept) < MaxSources
                    \/ /\ Cardinality(kept) >= MaxSources
                       /\ \E v \in Victims(kept) : F = Lapsed \cup {v}
    <3>1. Cardinality(kept) \in Nat
      BY <1>t, TrackedFinite
    <3>2. CASE Cardinality(kept) < MaxSources
      BY <2>1, <3>2 DEF RoomMade
    <3>3. CASE ~(Cardinality(kept) < MaxSources)
      <4>1. t \in {Forgetting(Lapsed \cup {v}) : v \in Victims(kept)}
        BY <2>1, <3>3 DEF RoomMade
      <4>2. Cardinality(kept) >= MaxSources
        BY <3>1, <3>3, ThrottleNumbers
      <4> QED BY <4>1, <4>2
    <3> QED BY <3>2, <3>3
  <2>3. t \in [Hosts -> Entries]
    BY <1>t, <2>2, ForgettingType
  <2>4. attempts' \in [Hosts -> Entries]
    BY <1>t, <2>1, <2>3, CountedType
  <2>5. attempts[h] = Untracked
    BY <1>2
  <2>6. t[h] = Untracked /\ \A g \in Hosts : t[g] = IF g \in F THEN Untracked ELSE attempts[g]
    BY <2>2, <2>5 DEF Forgetting
  <2>7. attempts'[h] = Extended(attempts[h], b) /\ \A g \in Hosts \ {h} : attempts'[g] = t[g]
    BY <2>1, <2>3, <2>5, <2>6 DEF Counted
  <2>8. ASSUME NEW g \in Hosts \ {h}, attempts'[g] # attempts[g]
        PROVE  /\ attempts'[g] = Untracked
               /\ Locked(g) => /\ Cardinality(Tracked) = MaxSources
                               /\ \A k \in Tracked : Locked(k) /\ attempts[g].until <= attempts[k].until
    <3>1. g \in F /\ attempts'[g] = Untracked
      BY <2>6, <2>7, <2>8
    <3>2. Locked(g) => g \notin Lapsed
      BY DEF Lapsed
    <3>3. Locked(g) => Cardinality(kept) >= MaxSources /\ g \in Victims(kept)
      BY <2>2, <3>1, <3>2
    <3> QED BY <3>1, <3>3, VictimIsFair
  <2>9. Tracked' \subseteq (kept \ F) \cup {h} /\ Tracked' \in SUBSET Hosts
    <3>1. Lapsed \subseteq F
      BY <2>2
    <3>2. \A g \in Tracked' : g \in Hosts /\ (g # h => t[g] # Untracked)
      BY <2>7 DEF Tracked
    <3>3. \A g \in Tracked' : g # h => g \in Tracked /\ g \notin F
      BY <2>6, <3>2 DEF Tracked
    <3> QED BY <3>1, <3>2, <3>3
  <2>10. kept \ F \in SUBSET Hosts /\ kept \in SUBSET Hosts
    BY <1>t
  <2>11. IsFiniteSet(kept) /\ Cardinality(kept) \in Nat /\ Cardinality(kept) <= MaxSources
    <3>1. IsFiniteSet(Tracked) /\ Cardinality(Tracked) \in Nat /\ kept \subseteq Tracked
      BY <1>t, TrackedFinite
    <3>2. IsFiniteSet(kept) /\ Cardinality(kept) \in Nat /\ Cardinality(kept) <= Cardinality(Tracked)
      BY <2>10, <3>1, TrackedFinite, FS_Subset
    <3> QED BY <1>t, <3>1, <3>2, ThrottleNumbers
  <2>12. Cardinality(kept \ F) < MaxSources
    <3>1. CASE F = Lapsed /\ Cardinality(kept) < MaxSources
      <4>1. kept \ F = kept
        BY <3>1
      <4> QED BY <3>1, <4>1
    <3>2. CASE Cardinality(kept) >= MaxSources /\ \E v \in Victims(kept) : F = Lapsed \cup {v}
      <4>1. PICK v \in Victims(kept) : F = Lapsed \cup {v}
        BY <3>2
      <4>2. v \in kept
        BY <3>2, VictimIsFair
      <4>3. kept \ F = kept \ {v}
        BY <4>1
      <4>4. Cardinality(kept \ {v}) = Cardinality(kept) - 1
        BY <2>11, <4>2, FS_RemoveElement
      <4>5. Cardinality(kept) - 1 < MaxSources
        <5> HIDE DEF kept
        <5> QED BY <2>11, ThrottleNumbers
      <4> QED BY <4>3, <4>4, <4>5
    <3> QED BY <2>2, <3>1, <3>2
  <2>13. Cardinality(Tracked') <= MaxSources
    <3>1. Cardinality(kept \ F) <= MaxSources
      BY <2>10, <2>12, TrackedFinite, ThrottleNumbers
    <3> QED BY <2>9, <2>10, <2>12, <3>1, RoomForOne
  <2> QED BY <2>4, <2>7, <2>8, <2>13
<1>3. CASE ~hasPlace /\ ~b /\ UNCHANGED attempts
  BY <1>3, <1>t DEF Tracked
<1> QED BY <1>1, <1>2, <1>3 DEF Fail


LEMMA ThrottleStarts == MCInit => ThrottleInv
<1> SUFFICES ASSUME MCInit PROVE ThrottleInv
  OBVIOUS
<1>1. attempts = [h \in Hosts |-> Untracked] /\ now = 1 /\ tries = [h \in Hosts |-> {}]
  BY DEF MCInit, ThrottleInit
<1>2. Tracked = {} /\ Cardinality({}) = 0
  BY <1>1, FS_EmptySet DEF Tracked
<1>3. \A h \in Hosts : HostOK(attempts[h], tries[h])
  BY <1>1, NothingTried
<1> QED BY <1>1, <1>2, <1>3, ThrottleNumbers DEF ThrottleInv

(* A host on record, or one that failed in the last instants, stays as it  *)
(* is while no time passes and neither is touched.                         *)
LEMMA HostStays ==
  ASSUME now' = now, NEW h \in Hosts, HostOK(attempts[h], tries[h]),
         attempts'[h] = attempts[h], tries'[h] = tries[h]
  PROVE  HostOK(attempts[h], tries[h])'
BY DEF HostOK

LEMMA HostForgotten ==
  ASSUME now' = now, NEW h \in Hosts, attempts'[h] = Untracked, tries'[h] = {}
  PROVE  HostOK(attempts[h], tries[h])'
BY NothingTried DEF HostOK

LEMMA MCFailKeeps ==
  ASSUME ThrottleInv, NEW h \in Hosts, NEW b \in BOOLEAN, MCFail(h, b)
  PROVE  ThrottleInv'
<1>1. ~Locked(h) /\ Fail(h, b) /\ tries' = Noted(h, b) /\ now' = now
  BY DEF MCFail
<1>2. /\ attempts' \in [Hosts -> Entries] /\ Cardinality(Tracked') <= MaxSources
      /\ attempts'[h] = Extended(attempts[h], b) \/ (~b /\ attempts'[h] = attempts[h])
      /\ \A g \in Hosts \ {h} : attempts'[g] = attempts[g] \/ attempts'[g] = Untracked
  BY <1>1, FailTable
<1>3. /\ \A g \in Hosts : attempts[g] \in Entries /\ HostOK(attempts[g], tries[g])
      /\ \A g \in Hosts : attempts[g] # Untracked => attempts[g].last \in 1..now
      /\ now \in Nat \ {0}
  BY DEF ThrottleInv
<1> DEFINE T2 == IF b THEN tries[h] \cup {ThisTry(h)} ELSE tries[h]
<1>4. /\ DOMAIN tries' = Hosts /\ tries' = [g \in Hosts |-> tries'[g]] /\ tries'[h] = T2
      /\ \A g \in Hosts \ {h} : tries'[g] = IF attempts'[g] = Untracked THEN {} ELSE tries[g]
  BY <1>1 DEF Noted
<1>5. /\ Extended(attempts[h], b) \in Entries /\ Extended(attempts[h], b).last = now
      /\ HostOK(Extended(attempts[h], b), T2)
  BY <1>1, <1>3, FailureTried DEF Locked, ThisTry
<1>6. HostOK(attempts[h], tries[h])'
  <2>1. CASE attempts'[h] = Extended(attempts[h], b)
    <3> HIDE DEF T2
    <3> QED BY <1>1, <1>4, <1>5, <2>1 DEF HostOK
  <2>2. CASE ~b /\ attempts'[h] = attempts[h]
    BY <1>1, <1>3, <1>4, <2>2, HostStays
  <2> QED BY <1>2, <2>1, <2>2
<1>7. ASSUME NEW g \in Hosts PROVE HostOK(attempts[g], tries[g])'
  <2>1. CASE g = h
    BY <1>6, <2>1
  <2>2. CASE g # h /\ attempts'[g] = Untracked
    BY <1>1, <1>4, <2>2, HostForgotten
  <2>3. CASE g # h /\ attempts'[g] # Untracked
    BY <1>1, <1>2, <1>3, <1>4, <2>3, HostStays
  <2> QED BY <2>1, <2>2, <2>3
<1>8. ASSUME NEW g \in Hosts, attempts'[g] # Untracked PROVE attempts'[g].last \in 1..now'
  BY <1>1, <1>2, <1>3, <1>5, <1>8
<1> HIDE DEF T2
<1> QED BY <1>1, <1>2, <1>3, <1>4, <1>7, <1>8 DEF ThrottleInv, Untracked

(* Forgetting hosts, and their failures if they had any within the last    *)
(* Lockout.                                                                *)
LEMMA ForgettingKeeps ==
  ASSUME ThrottleInv, NEW F, attempts' = Forgetting(F), now' = now,
         DOMAIN tries' = Hosts, tries' = [g \in Hosts |-> tries'[g]],
         \A g \in Hosts : tries'[g] = IF g \in F THEN {} ELSE tries[g]
  PROVE  ThrottleInv'
<1>1. attempts' \in [Hosts -> Entries]
  BY ForgettingType DEF ThrottleInv
<1>2. \A g \in Hosts : attempts'[g] = IF g \in F THEN Untracked ELSE attempts[g]
  BY DEF Forgetting
<1>3. Tracked' \subseteq Tracked /\ Tracked \in SUBSET Hosts
  BY <1>2 DEF Tracked
<1>4. Cardinality(Tracked') <= MaxSources
  <2>1. Tracked' \in SUBSET Hosts
    BY <1>3
  <2>2. IsFiniteSet(Tracked) /\ Cardinality(Tracked) \in Nat /\ Cardinality(Tracked') \in Nat
    BY <1>3, <2>1, TrackedFinite
  <2>3. Cardinality(Tracked') <= Cardinality(Tracked)
    BY <1>3, <2>2, FS_Subset
  <2> QED BY <2>2, <2>3, ThrottleNumbers DEF ThrottleInv
<1>5. ASSUME NEW g \in Hosts PROVE HostOK(attempts[g], tries[g])'
  <2>1. CASE g \in F
    BY <1>2, <2>1, HostForgotten
  <2>2. CASE g \notin F
    BY <1>2, <2>2, HostStays DEF ThrottleInv
  <2> QED BY <2>1, <2>2
<1>6. ASSUME NEW g \in Hosts, attempts'[g] # Untracked PROVE attempts'[g].last \in 1..now'
  BY <1>2, <1>6 DEF ThrottleInv
<1>7. now' \in Nat \ {0}
  BY DEF ThrottleInv
<1> QED BY <1>1, <1>4, <1>5, <1>6, <1>7 DEF ThrottleInv, Untracked

LEMMA MCSucceedKeeps ==
  ASSUME ThrottleInv, NEW h \in Hosts, MCSucceed(h)
  PROVE  ThrottleInv'
<1>1. attempts' = Forgetting({h}) /\ now' = now /\ tries' = [tries EXCEPT ![h] = {}]
  BY DEF MCSucceed, Succeed
<1>2. DOMAIN tries = Hosts /\ tries = [g \in Hosts |-> tries[g]]
  BY DEF ThrottleInv
<1>3. tries' = [g \in Hosts |-> IF g = h THEN {} ELSE tries[g]]
  BY <1>1, <1>2
<1>4. /\ DOMAIN tries' = Hosts /\ tries' = [g \in Hosts |-> tries'[g]]
      /\ \A g \in Hosts : tries'[g] = IF g \in {h} THEN {} ELSE tries[g]
  BY <1>3
<1> QED BY <1>1, <1>4, ForgettingKeeps

LEMMA MCExpireKeeps ==
  ASSUME ThrottleInv, MCExpire
  PROVE  ThrottleInv'
<1>1. attempts' = Forgetting(Lapsed) /\ now' = now /\ tries' = tries
  BY DEF MCExpire, ExpireAttempts
<1>2. DOMAIN tries = Hosts /\ tries = [g \in Hosts |-> tries[g]] /\ now \in Nat
  BY DEF ThrottleInv
<1>3. ASSUME NEW g \in Lapsed PROVE tries[g] = {}
  <2>1. g \in Hosts /\ now - attempts[g].last > Window
    BY DEF Lapsed, Tracked
  <2>2. attempts[g] \in Entries /\ HostOK(attempts[g], tries[g])
    BY <2>1 DEF ThrottleInv
  <2> QED BY <1>2, <2>1, <2>2, QuietTriedNothing
<1> QED BY <1>1, <1>2, <1>3, ForgettingKeeps

LEMMA MCTickKeeps ==
  ASSUME ThrottleInv, MCTick
  PROVE  ThrottleInv'
<1>1. /\ now' = now + 1 /\ attempts' = attempts /\ now \in Nat \ {0}
      /\ tries' = [h \in Hosts |-> {t \in tries[h] : t.at > now' - Lockout}]
  BY DEF MCTick, Tick, ThrottleInv
<1>2. Tracked' = Tracked
  BY <1>1 DEF Tracked
<1>3. ASSUME NEW g \in Hosts PROVE HostOK(attempts[g], tries[g])'
  <2> DEFINE T == tries[g]
             S == {t \in T : t.at > now' - Lockout}
             e == attempts[g]
  <2>1. HostOK(e, T) /\ e \in Entries
    BY DEF ThrottleInv
  <2>2. /\ IsFiniteSet(T) /\ Cardinality(T) \in Nat /\ T \subseteq Tries
        /\ Cardinality(T) <= e.failures /\ Cardinality(T) <= MaxFailures /\ e.failures \in Nat
        /\ e.until # 0 => e.failures >= MaxFailures
    BY <2>1, FS_CardinalityType DEF HostOK, Entries
  <2>3. S \subseteq T
    OBVIOUS
  <2>4. IsFiniteSet(S) /\ Cardinality(S) \in Nat /\ Cardinality(S) <= Cardinality(T)
    BY <2>2, <2>3, FS_Subset, FS_CardinalityType
  <2>5. tries'[g] = S /\ attempts'[g] = e
    BY <1>1
  <2>6. ASSUME NEW t \in S
        PROVE  /\ now' < t.at + Lockout /\ t.at <= now' /\ t.at <= e.last
               /\ e.failures >= MaxFailures => t.at + Lockout <= e.until
               /\ t.at # now'
    <3>1. t \in T /\ t.at > now' - Lockout /\ t.at \in Nat
      BY <2>2, <2>6 DEF Tries
    <3>2. t.at <= now /\ t.at <= e.last /\ (e.failures >= MaxFailures => t.at + Lockout <= e.until)
      BY <2>1, <3>1 DEF HostOK
    <3> QED BY <1>1, <3>1, <3>2, ThrottleNumbers
  <2>7. Cardinality(S) <= e.failures /\ Cardinality(S) <= MaxFailures
    <3> HIDE DEF S, T, e
    <3> QED BY <2>2, <2>4, ThrottleNumbers
  <2>8. S \subseteq Tries
    BY <2>2
  <2> HIDE DEF S, T, e
  <2> QED BY <2>2, <2>4, <2>5, <2>6, <2>7, <2>8 DEF HostOK
<1>4. ASSUME NEW g \in Hosts, attempts'[g] # Untracked PROVE attempts'[g].last \in 1..now'
  BY <1>1, <1>4 DEF ThrottleInv
<1>5. DOMAIN tries' = Hosts /\ tries' = [h \in Hosts |-> tries'[h]]
  BY <1>1
<1>6. attempts' \in [Hosts -> Entries] /\ now' \in Nat \ {0} /\ Cardinality(Tracked') <= MaxSources
  BY <1>1, <1>2 DEF ThrottleInv
<1> QED BY <1>3, <1>4, <1>5, <1>6 DEF ThrottleInv, Untracked

LEMMA ThrottleKeeps == ThrottleInv /\ [MCNext]_mcVars => ThrottleInv'
<1> SUFFICES ASSUME ThrottleInv, [MCNext]_mcVars PROVE ThrottleInv'
  OBVIOUS
<1>1. CASE MCNext
  BY <1>1, MCFailKeeps, MCSucceedKeeps, MCExpireKeeps, MCTickKeeps DEF MCNext
<1>2. CASE UNCHANGED mcVars
  BY <1>2 DEF mcVars, ThrottleInv, Tracked, HostOK
<1> QED BY <1>1, <1>2

LEMMA ThrottleInvHolds == MCSpec => []ThrottleInv
BY ThrottleStarts, ThrottleKeeps, PTL DEF MCSpec

LEMMA ThrottleIsBounded == ThrottleInv => TableBounded /\ GuessRate
<1> SUFFICES ASSUME ThrottleInv PROVE TableBounded /\ GuessRate
  OBVIOUS
<1>1. TableBounded
  BY DEF ThrottleInv, TableBounded, Tracked
<1>2. ASSUME NEW h \in Hosts
      PROVE  Cardinality(tries[h]) <= MaxFailures /\ (tries[h] # {} => attempts[h].failures > 0)
  <2>1. /\ IsFiniteSet(tries[h]) /\ Cardinality(tries[h]) \in Nat /\ attempts[h].failures \in Nat
        /\ Cardinality(tries[h]) <= attempts[h].failures /\ Cardinality(tries[h]) <= MaxFailures
    BY FS_CardinalityType DEF ThrottleInv, HostOK, Entries
  <2>2. tries[h] # {} => Cardinality(tries[h]) # 0
    BY <2>1, FS_EmptySet
  <2> QED BY <2>1, <2>2
<1> QED BY <1>1, <1>2 DEF GuessRate

(* What a step does to a lockout that has not run its time.                *)
CutShortFairly ==
  \A h \in Hosts :
    Locked(h) /\ now' < attempts[h].until /\ ~Locked(h)' =>
      \/ MCSucceed(h)
      \/ /\ Cardinality(Tracked) = MaxSources
         /\ \A g \in Tracked : Locked(g) /\ attempts[h].until <= attempts[g].until

LEMMA LockoutStep == ThrottleInv /\ [MCNext]_mcVars => [CutShortFairly]_mcVars
<1> SUFFICES ASSUME ThrottleInv, MCNext, NEW h \in Hosts,
                    Locked(h), now' < attempts[h].until, ~Locked(h)', ~MCSucceed(h)
             PROVE  /\ Cardinality(Tracked) = MaxSources
                    /\ \A g \in Tracked : Locked(g) /\ attempts[h].until <= attempts[g].until
  BY DEF CutShortFairly
<1>1. attempts'[h] # attempts[h]
  BY DEF Locked
<1>2. ASSUME NEW g \in Hosts, NEW b \in BOOLEAN, MCFail(g, b)
      PROVE  /\ Cardinality(Tracked) = MaxSources
             /\ \A k \in Tracked : Locked(k) /\ attempts[h].until <= attempts[k].until
  <2>1. ~Locked(g) /\ Fail(g, b) /\ h # g
    BY <1>2 DEF MCFail
  <2> QED BY <1>1, <2>1, FailTable
<1>3. ASSUME NEW g \in Hosts, MCSucceed(g) PROVE FALSE
  <2>1. g # h /\ attempts' = Forgetting({g})
    BY <1>3 DEF MCSucceed, Succeed
  <2> QED BY <1>1, <2>1 DEF Forgetting
<1>4. ASSUME MCExpire PROVE FALSE
  <2>1. attempts' = Forgetting(Lapsed) /\ h \notin Lapsed
    BY <1>4 DEF MCExpire, ExpireAttempts, Lapsed
  <2> QED BY <1>1, <2>1 DEF Forgetting
<1>5. ASSUME MCTick PROVE FALSE
  BY <1>1, <1>5 DEF MCTick
<1> QED BY <1>2, <1>3, <1>4, <1>5 DEF MCNext

(* With any number of hosts and places, the table stays bounded, nobody has*)
(* more answers looked at within a Lockout than MaxFailures, and a lockout *)
(* is cut short only by a login from the host itself or, in a table full of*)
(* locked hosts, for the one nearest its end (throttle.go).                *)
THEOREM TheThrottleHolds == MCSpec => ThrottleHolds
<1>1. MCSpec => []TableBounded /\ []GuessRate
  BY ThrottleInvHolds, ThrottleIsBounded, PTL
<1>2. MCSpec => [][CutShortFairly]_mcVars
  BY ThrottleInvHolds, LockoutStep, PTL DEF MCSpec
<1>3. MCSpec => LockoutHolds
  BY <1>2 DEF LockoutHolds, CutShortFairly
<1> QED BY <1>1, <1>3 DEF ThrottleHolds


=============================================================================
