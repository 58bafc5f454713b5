------------------------------- MODULE Peering ------------------------------
(***************************************************************************)
(* Agreeing on links between servers: invitations (internal/peering), the  *)
(* offers a server remembers (server/offered.go), and what offering,       *)
(* accepting, moving, removing and refusing a link write (server/peering,  *)
(* linkoffer, linkaccept, linkaddress, linkremove, linkrefuse).  The       *)
(* operators carry tokens and passphrases between servers by hand, so a    *)
(* token may arrive late, twice or never, and a box may be left blank.     *)
(*                                                                         *)
(* A handler that edits the configuration holds its lock throughout        *)
(* (editing), so one that touches nothing else is one step; a save may fail*)
(* and the server may die between the file it writes and the configuration,*)
(* and each is an outcome of the step.  The passwords of DMR IDs are also  *)
(* written by handlers that take no lock (server/credentials.go), so what  *)
(* touches them is a request of several steps.  A secret is a name and is  *)
(* its own fingerprint; a password file is named by its stem, and          *)
(* ServerFile is the stem of dmr.password_file.  Call signs, timeslots and *)
(* talkgroups are left out.                                                *)
(***************************************************************************)
EXTENDS Integers, FiniteSets

CONSTANTS Servers, LinkNames, ServerFile, LinkIDs, Secrets,
          NoSecret,
          Admins,                  \* who may have a request about an ID under way
          Lifetime, OfferMemory,   \* peering.Lifetime, offerMemory, in days
          OfferMemoryMax,          \* offerMemoryMax
          MaxDays                  \* bound

ASSUME PeeringAssumption ==
  /\ ServerFile \in LinkNames /\ NoSecret \notin Secrets
  /\ 0 \notin LinkIDs          \* which the handlers refuse
  /\ Lifetime \in Nat /\ OfferMemory \in Nat /\ OfferMemory <= Lifetime

VARIABLES
  links,     \* server -> name -> DMR.Upstreams entry, or NoLink
  linked,   \* server -> the names of the links it opened when it started
  bridged,   \* server -> the names with a "-link" bridge
  files,     \* server -> stem -> the secret in <stem>.pass, or NoSecret
  keys,      \* server -> DMR ID -> the secret in the peer password directory
  registry,  \* server -> dmr.access.registration: [mode, ids]; "none" is no list
  offers,    \* server -> offeredPassphrases.held: a set of [secret, at]
  tokens,    \* the invitations handed to an operator
  day,
  asked,     \* server -> administrator -> the request about an ID under way
  told       \* history: server -> DMR ID -> what the answers so far said of it:
             \* of the list, and which passwords the last of them leaves possible

peeringVars == <<links, linked, bridged, files, keys, registry, offers, tokens, day, asked, told>>

NoLink == [kind |-> "none"]
Used == {t.secret : t \in tokens} \cup UNION {{o.secret : o \in offers[s]} : s \in Servers}
        \cup UNION {{keys[s][i] : i \in LinkIDs} : s \in Servers}
        \cup UNION {{asked[s][a].secret : a \in Admins} : s \in Servers}
FreshSecret == Secrets \ Used      \* NewPassphrase

(* LinkNames are compared without their case; a name is its fold here. *)
Linked(s) == {n \in LinkNames : links[s][n] # NoLink}

TypedSecrets == Secrets \cup {NoSecret}

(* A request about an ID: where its handler is, what it last wrote or will *)
(* write to the password file, what its answer will say of the list,       *)
(* whether it holds the configuration's lock, and whether another request  *)
(* has written the same file after it did.                                 *)
NothingAsked == [at |-> "none", id |-> 0, secret |-> NoSecret, says |-> "nothing",
                 locked |-> FALSE, stale |-> FALSE]
Request(at, i, k, says, locked) ==
  [at |-> at, id |-> i, secret |-> k, says |-> says, locked |-> locked, stale |-> FALSE]

(* editing *)
Unlocked(s) == \A a \in Admins : ~asked[s][a].locked

(* The handler of r writes or removes the file <id> of the directory.      *)
WritePassword(s, a, r) ==
  /\ keys' = [keys EXCEPT ![s][r.id] = r.secret]
  /\ asked' = [asked EXCEPT ![s] = [b \in Admins |->
       IF b = a THEN r ELSE [asked[s][b] EXCEPT !.stale = @ \/ asked[s][b].id = r.id]]]

Outcomes == {"saved", "refused", "died"}
(* A server that dies keeps its disk and loses its offers and the requests *)
(* under way, which are answered nothing; it is started again and opens the*)
(* links that are turned on.                                               *)
Opened(table) == {n \in LinkNames : table[n] # NoLink /\ table[n].on}
Interrupted(s) ==
  [i \in LinkIDs |->
     LET lost == {a \in Admins : asked[s][a].id = i}
     IN  [list |-> IF \E a \in lost : asked[s][a].locked THEN "nothing" ELSE told[s][i].list,
          key |-> IF lost # {} THEN TypedSecrets ELSE told[s][i].key]]
Restarted(s) ==
  /\ offers' = [offers EXCEPT ![s] = {}]
  /\ linked' = [linked EXCEPT ![s] = Opened(links'[s])]
  /\ asked' = [asked EXCEPT ![s] = [a \in Admins |-> NothingAsked]]
  /\ told' = [told EXCEPT ![s] = Interrupted(s)]
Memory(s, outcome, kept) ==
  IF outcome = "died" THEN Restarted(s)
  ELSE offers' = [offers EXCEPT ![s] = kept] /\ UNCHANGED <<linked, asked, told>>

(***************************************************************************)
(* offered.go                                                              *)
(***************************************************************************)
Held(s) == {o \in offers[s] : day - o.at <= OfferMemory}
Oldest(O) == {o \in O : \A p \in O : o.at <= p.at}
(* put: the expired go, and then the oldest while there is no room. *)
Put(s, k) ==
  LET room == IF Cardinality(Held(s)) < OfferMemoryMax THEN {Held(s)}
              ELSE {Held(s) \ {o} : o \in Oldest(Held(s))}
  IN  {O \cup {[secret |-> k, at |-> day]} : O \in room}
Peek(s, k) == \E o \in Held(s) : o.secret = k

(* Invitation.Accept *)
Acceptable(t, typed) == day <= t.issued + Lifetime /\ typed = t.secret

(***************************************************************************)
(* An OpenBridge peering: offered by one side, accepted by the other, whose*)
(* reply the first side accepts.                                           *)
(***************************************************************************)
OfferPeering(s, to, k, encodes) ==
  /\ Unlocked(s) /\ k \in FreshSecret
  /\ \E O \in Put(s, k) : offers' = [offers EXCEPT ![s] = O]
  /\ tokens' = IF encodes
               THEN tokens \cup {[kind |-> "openbridge", from |-> s, to |-> to, secret |-> k,
                                  reply |-> FALSE, answers |-> 0, issued |-> day]}
               ELSE tokens
  /\ UNCHANGED <<links, linked, bridged, files, keys, registry, day, asked, told>>

(* Mutant: any file may be written over. *)
MayWriteAny(s, n) == TRUE

(* writePassphrase: <name>.pass, unless it is another's password. *)
MayWrite(s, n) ==
  /\ n # ServerFile
  /\ \A m \in Linked(s) : links[s][m].file # n

(* closingOurOffer *)
Closing(s, t) == t.reply \/ Peek(s, t.secret)

(* reciprocalFor: the answer carries the same secret and says it is one. *)
Reciprocal(s, t) == [t EXCEPT !.from = s, !.to = t.from, !.reply = TRUE,
                              !.answers = t.answers + 1, !.issued = day]

(* handleAcceptPeering: a blank passphrase is filled in from the offer.    *)
AcceptPeering(s, t, typed, n, outcome) ==
  LET ours == Peek(s, t.secret)
      passphrase == IF typed = NoSecret /\ ours THEN t.secret ELSE typed
  IN  /\ Unlocked(s) /\ t \in tokens /\ t.kind = "openbridge" /\ t.to = s
      /\ Acceptable(t, passphrase)
      /\ n \notin Linked(s) /\ MayWrite(s, n)
      /\ outcome = "saved" => n \notin bridged[s]
      /\ files' = [files EXCEPT ![s][n] = passphrase]
      /\ IF outcome = "saved"
         THEN /\ links' = [links EXCEPT ![s][n] = [kind |-> "openbridge", on |-> TRUE,
                                     to |-> t.from, file |-> n, secret |-> t.secret]]
              /\ bridged' = [bridged EXCEPT ![s] = @ \cup {n}]
              /\ tokens' = IF Closing(s, t) THEN tokens ELSE tokens \cup {Reciprocal(s, t)}
         ELSE UNCHANGED <<links, bridged, tokens>>
      /\ Memory(s, outcome, IF outcome = "saved" /\ ours
                            THEN {o \in offers[s] : o.secret # t.secret} ELSE offers[s])
      /\ UNCHANGED <<keys, registry, day>>

(***************************************************************************)
(* A QSP link: the offering side allocates a DMR ID and a password for it, *)
(* the other side dials.                                                   *)
(***************************************************************************)
Admits(s, i) == CASE registry[s].mode = "none" -> TRUE
                  [] registry[s].mode = "permit" -> i \in registry[s].ids
                  [] registry[s].mode = "deny" -> i \notin registry[s].ids

(* idAlreadyMeansSomethingElse *)
Means(s, i) == \E n \in Linked(s) : links[s][n].kind = "qsp" /\ links[s][n].id = i

(* allowRegistration *)
Allowed(s, i) == IF Admits(s, i) THEN registry[s] ELSE [registry[s] EXCEPT !.ids = @ \cup {i}]

(* handleOfferLink: the password is written, then the configuration; when  *)
(* that is refused the password is removed.                                *)
OfferLink(s, a, i, k) ==
  /\ asked[s][a] = NothingAsked /\ Unlocked(s)
  /\ k \in FreshSecret /\ ~Means(s, i)
  /\ registry[s].mode = "deny" => Admits(s, i)
  /\ WritePassword(s, a, Request("save", i, k, "nothing", TRUE))
  /\ UNCHANGED <<links, linked, bridged, files, registry, offers, tokens, day, told>>

SaveOffer(s, a, outcome) ==
  LET r == asked[s][a]
  IN  /\ r.at = "save"
      /\ \/ /\ outcome = "saved"
            /\ registry' = [registry EXCEPT ![s] = Allowed(s, r.id)]
            /\ asked' = [asked EXCEPT ![s][a] = [r EXCEPT !.at = "answer", !.says = "admitted"]]
            /\ UNCHANGED keys
         \/ /\ outcome = "refused"
            /\ WritePassword(s, a, Request("answer", r.id, NoSecret, "nothing", TRUE))
            /\ UNCHANGED registry
      /\ UNCHANGED <<links, linked, bridged, files, offers, tokens, day, told>>

(* acceptLink, linkConfig: the password is removed if the save is refused. *)
AcceptLink(s, t, typed, n, outcome) ==
  /\ Unlocked(s) /\ t \in tokens /\ t.kind = "qsp" /\ t.to = s
  /\ Acceptable(t, typed)
  /\ n \notin Linked(s) /\ ~Means(s, t.id) /\ MayWrite(s, n)
  /\ files' = [files EXCEPT ![s][n] = IF outcome = "refused" THEN NoSecret ELSE typed]
  /\ links' = IF outcome # "saved" THEN links
              ELSE [links EXCEPT ![s][n] = [kind |-> "qsp", on |-> TRUE, to |-> t.from,
                                            file |-> n, id |-> t.id, secret |-> t.secret]]
  /\ Memory(s, outcome, offers[s])
  /\ UNCHANGED <<bridged, keys, registry, tokens, day>>

(* handleRefuseInbound: the list refuses the ID, then its password goes.   *)
(* refuseRegistration leaves a list that would permit nobody as it was.    *)
Refusing(s, i) ==
  CASE registry[s].mode = "none" -> [mode |-> "deny", ids |-> {i}]
    [] registry[s].mode = "permit" ->
         IF registry[s].ids \ {i} = {} THEN registry[s]
         ELSE [registry[s] EXCEPT !.ids = @ \ {i}]
    [] registry[s].mode = "deny" -> [registry[s] EXCEPT !.ids = @ \cup {i}]
RefuseInbound(s, a, i) ==
  /\ asked[s][a] = NothingAsked /\ Unlocked(s)
  /\ registry' = [registry EXCEPT ![s] = Refusing(s, i)]
  /\ LET refused == registry[s].mode # "permit" \/ Refusing(s, i) # registry[s]
     IN  asked' = [asked EXCEPT ![s][a] =
                     Request("remove", i, NoSecret, IF refused THEN "refused" ELSE "nothing", TRUE)]
  /\ UNCHANGED <<links, linked, bridged, files, keys, offers, tokens, day, told>>

RevokePeerPassword(s, a) ==
  LET r == asked[s][a]
  IN  /\ r.at = "remove"
      /\ WritePassword(s, a, Request("answer", r.id, NoSecret, r.says, TRUE))
      /\ UNCHANGED <<links, linked, bridged, files, registry, offers, tokens, day, told>>

(* handleIssueCredential, handleRevokeCredential: the same files, for a    *)
(* member's hotspot, without the configuration or its lock.                *)
IssueCredential(s, a, i, k) ==
  /\ asked[s][a] = NothingAsked /\ k \in FreshSecret
  /\ WritePassword(s, a, Request("answer", i, k, "nothing", FALSE))
  /\ UNCHANGED <<links, linked, bridged, files, registry, offers, tokens, day, told>>
RevokeCredential(s, a, i) ==
  /\ asked[s][a] = NothingAsked
  /\ WritePassword(s, a, Request("answer", i, NoSecret, "nothing", FALSE))
  /\ UNCHANGED <<links, linked, bridged, files, registry, offers, tokens, day, told>>

(* The answer, which gives the lock back; with an offer's goes its token.  *)
Answer(s, a, to) ==
  LET r == asked[s][a]
  IN  /\ r.at = "answer"
      /\ tokens' = IF r.says # "admitted" THEN tokens
                   ELSE tokens \cup {[kind |-> "qsp", from |-> s, to |-> to, secret |-> r.secret,
                                      id |-> r.id, issued |-> day]}
      /\ told' = [told EXCEPT ![s][r.id] =
                    [list |-> IF r.says = "nothing" THEN @.list ELSE r.says,
                     key |-> IF r.stale THEN TypedSecrets ELSE {r.secret}]]
      /\ asked' = [asked EXCEPT ![s][a] = NothingAsked]
      /\ UNCHANGED <<links, linked, bridged, files, keys, registry, offers, day>>

(***************************************************************************)
(* Links that are there.                                                   *)
(***************************************************************************)
(* handleLinkAddress *)
LinkAddress(s, n, to) ==
  /\ Unlocked(s) /\ n \in Linked(s)
  /\ links' = [links EXCEPT ![s][n].to = to]
  /\ UNCHANGED <<linked, bridged, files, keys, registry, offers, tokens, day, asked, told>>

(* handleRemoveLink: the link and its bridge, then the passphrase file; a  *)
(* QSP link's password file is left.                                       *)
RemoveLink(s, n, outcome) ==
  /\ Unlocked(s) /\ n \in Linked(s)
  /\ IF outcome = "refused" THEN UNCHANGED <<links, bridged>>
     ELSE /\ links' = [links EXCEPT ![s][n] = NoLink]
          /\ bridged' = [bridged EXCEPT ![s] = @ \ {n}]
  /\ files' = IF outcome = "saved" /\ links[s][n].kind = "openbridge"
              THEN [files EXCEPT ![s][links[s][n].file] = NoSecret] ELSE files
  /\ Memory(s, outcome, offers[s])
  /\ UNCHANGED <<keys, registry, tokens, day>>

(* The configuration page gives a link another name: its file stays.       *)
Rename(s, n, m) ==
  /\ Unlocked(s) /\ n \in Linked(s) /\ m \notin Linked(s)
  /\ links' = [links EXCEPT ![s] = [@ EXCEPT ![m] = links[s][n], ![n] = NoLink]]
  /\ UNCHANGED <<linked, bridged, files, keys, registry, offers, tokens, day, asked, told>>

(* The page turns a link on or off. *)
Toggle(s, n) ==
  /\ Unlocked(s) /\ n \in Linked(s)
  /\ links' = [links EXCEPT ![s][n].on = ~@]
  /\ UNCHANGED <<linked, bridged, files, keys, registry, offers, tokens, day, asked, told>>

(* Mutant: a link that is turned off is waiting for a restart as well. *)
LinkPendingWhateverIsOn(table, open, n) ==
  CASE n \in open /\ table[n] = NoLink -> "closes"
    [] n \notin open /\ table[n] # NoLink -> "opens"
    [] OTHER -> "nothing"

(* reconcileLinks: what the Links page says a restart would do to a link.  *)
LinkPending(table, open, n) ==
  CASE n \in open /\ table[n] = NoLink -> "closes"
    [] n \notin open /\ n \in Opened(table) -> "opens"
    [] OTHER -> "nothing"

ServerRestarts(s) ==
  /\ UNCHANGED <<links, bridged, files, keys, registry, tokens, day>>
  /\ Restarted(s)
DayPasses ==
  /\ day < MaxDays /\ day' = day + 1
  /\ UNCHANGED <<links, linked, bridged, files, keys, registry, offers, tokens, asked, told>>

PeeringInit ==
  /\ links = [s \in Servers |-> [n \in LinkNames |-> NoLink]]
  /\ linked = [s \in Servers |-> {}]
  /\ bridged = [s \in Servers |-> {}]
  /\ files = [s \in Servers |-> [n \in LinkNames |-> NoSecret]]
  /\ keys = [s \in Servers |-> [i \in LinkIDs |-> NoSecret]]
  /\ registry \in [Servers -> {[mode |-> "none", ids |-> {}]} \cup
                              [mode : {"permit"}, ids : {LinkIDs, {0}}]]
  /\ offers = [s \in Servers |-> {}]
  /\ tokens = {} /\ day = 0
  /\ asked = [s \in Servers |-> [a \in Admins |-> NothingAsked]]
  /\ told = [s \in Servers |-> [i \in LinkIDs |-> [list |-> "nothing", key |-> TypedSecrets]]]

(* OpenBridge peerings between the servers. *)
Exchanging ==
  \/ \E s, to \in Servers, k \in Secrets, encodes \in BOOLEAN :
       s # to /\ OfferPeering(s, to, k, encodes)
  \/ \E s \in Servers, t \in tokens, typed \in TypedSecrets, n \in LinkNames, outcome \in Outcomes :
       AcceptPeering(s, t, typed, n, outcome)

(* QSP links, which one server offers and another dials. *)
Dialling ==
  \E s \in Servers :
    \/ \E n \in LinkNames, to \in Servers \ {s} : LinkAddress(s, n, to)
    \/ \E t \in tokens, typed \in TypedSecrets, n \in LinkNames, outcome \in Outcomes :
         AcceptLink(s, t, typed, n, outcome)
    \/ \E a \in Admins :
         \/ \E i \in LinkIDs, k \in Secrets : OfferLink(s, a, i, k) \/ IssueCredential(s, a, i, k)
         \/ \E i \in LinkIDs : RefuseInbound(s, a, i) \/ RevokeCredential(s, a, i)
         \/ \E outcome \in Outcomes : SaveOffer(s, a, outcome)
         \/ RevokePeerPassword(s, a)
         \/ \E to \in Servers \ {s} : Answer(s, a, to)

(* What either kind meets afterwards. *)
Keeping ==
  \/ \E s \in Servers, n \in LinkNames :
       \/ \E outcome \in Outcomes : RemoveLink(s, n, outcome)
       \/ \E m \in LinkNames : Rename(s, n, m)
       \/ Toggle(s, n)
  \/ \E s \in Servers : ServerRestarts(s)
  \/ DayPasses

(***************************************************************************)
(* Properties.                                                             *)
(***************************************************************************)
(* A link's password is where it says, and is the one that was agreed: no  *)
(* other link accepted or removed, no refused save and no crash takes it   *)
(* away (writePassphrase, handleRemoveLink's "After the configuration is   *)
(* saved, never before").                                                  *)
AgreedSecretIsOnDisk ==
  \A s \in Servers : \A n \in Linked(s) : files[s][links[s][n].file] = links[s][n].secret

(* An exchange ends: an answer is never answered, whichever side restarted *)
(* or forgot its offer in between and whoever typed the passphrase         *)
(* (offered.go, "built another one, and could not stop").                  *)
ExchangesEnd ==
  \A t \in tokens : t.kind = "openbridge" => t.answers <= 1

(* What the answers said of an ID is so, whatever failed or died between:  *)
(* the list admits it after an offer and refuses it after a refusal, until *)
(* a request that changes that is under way; and the password file has what*)
(* the last answer said when no request about the ID is under way.  But an *)
(* answer is out of date when it is given if another request has written   *)
(* the file since its own did (issue and revoke take no lock).             *)
AdmitsAsTold ==
  \A s \in Servers, i \in LinkIDs :
    /\ (\A a \in Admins : asked[s][a].id = i => asked[s][a].says = "nothing") =>
         /\ told[s][i].list = "admitted" => Admits(s, i)
         /\ told[s][i].list = "refused" => ~Admits(s, i)
    /\ (\A a \in Admins : asked[s][a].id # i) => keys[s][i] \in told[s][i].key

(* Both ends of an agreement hold what they agreed on, and the exchange    *)
(* that made it comes to an end.                                           *)
AgreementsHold == AgreedSecretIsOnDisk /\ ExchangesEnd /\ AdmitsAsTold

(* A restart does to the links what the Links page said it would, to the   *)
(* ones accepted, removed, renamed or turned off since the last one; but   *)
(* of a link that is open and was turned off the page says nothing.        *)
RestartDoesAsTold ==
  [][\A s \in Servers : linked'[s] # linked[s] =>
       \A n \in LinkNames :
         LET page == LinkPending(links'[s], linked[s], n) IN
         /\ n \in linked'[s] \ linked[s] <=> page = "opens"
         /\ page = "closes" => n \notin linked'[s]
         /\ n \in linked[s] \ linked'[s] =>
              page = "closes" \/ (links'[s][n] # NoLink /\ ~links'[s][n].on)
    ]_peeringVars
=============================================================================
