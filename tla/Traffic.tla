------------------------------ MODULE Traffic ------------------------------
(***************************************************************************)
(* The data path of the DMR master (internal/peers: Master.handleData,     *)
(* Peer.continuing, Master.observe, Listener.handle): a frame of a         *)
(* registered peer is put back into the call it belongs to, its radio is   *)
(* located, its talkgroup attached, its call tracked; then an unlink is    *)
(* obeyed, and the rest is routed (module Routing).                        *)
(*                                                                         *)
(* One goroutine owns the master and reads the socket, so a datagram is    *)
(* one step and the sweep that follows it is another.  Registration is      *)
(* reduced to what the data path sees of it (module Registry has the       *)
(* rest).  Not here: triggers, the parrot, and what the drop counters and  *)
(* the log say.                                                            *)
(***************************************************************************)
EXTENDS Attachments, CallTracker

CONSTANTS LinkedPeers,       \* the peers that are QSP servers
          Frames,            \* the frames that may come
          Unlink,            \* the talkgroup that drops attachments
          Bans,              \* the subscriber lists an operator may save
          MaxOpenCalls,
          SubscriberTimeout,
          AnswerInterval,    \* unregisteredFrameInterval
          MaxAnswered,       \* maxUnregisteredTracked
          MaxFrames,         \* bound: the frames of a behaviour
          MaxEdits           \* bound: registrations and saves

ASSUME TrafficAssumption ==
  /\ LinkedPeers \subseteq Peers /\ Frames \subseteq FrameType
  /\ Streams \subseteq Nat \ {0}
  /\ Unlink \in Talkgroups
  /\ Bans \subseteq SUBSET Radios
  /\ MaxOpenCalls \in Nat \ {0} /\ SubscriberTimeout \in Nat
  /\ AnswerInterval \in Nat /\ MaxAnswered \in Nat /\ MaxTime \in Nat \ {0}

(* "StreamID identifies one transmission" of a peer (hbp/data.go), and a   *)
(* transmission has one caller.                                            *)
ASSUME StreamAssumption ==
  \A f, g \in Frames : f.peer = g.peer /\ f.stream = g.stream => f.source = g.source

VARIABLES
  pc,          \* where the loop of Listener.serve is
  state,       \* per peer: not registered, registering or ready
  open,        \* Peer.calls: the calls a peer has in progress
  banned,      \* MasterConfig.Access.Subscriber: who is refused
  subscribers, \* Master.subscribers: where a radio was last heard
  lastUnlink,  \* Listener.lastUnlink
  answered,    \* Master.answeredUnregistered
  frames,      \* how many frames have come
  edits,       \* how often registrations and settings changed
  spoke,       \* history variable: the radios that spoke while permitted
  keyed,       \* history variable: the streams with a header, and when last
               \* heard, that are not terminated
  nakked       \* history variable: when a peer was last told to log in

masterVars == <<state, open, banned, subscribers, lastUnlink, answered>>
pastVars == <<spoke, keyed, nakked>>
vars == <<now, pc, attachmentVars, callVars, masterVars, frames, edits, pastVars>>

NoStream == 0
Nowhere  == [peer |-> "nowhere", heard |-> Never]

Init ==
  /\ now = 1 /\ pc = "read"
  /\ AttachmentInit /\ CallInit
  /\ state \in [Peers -> {"gone", "ready"}]
  /\ open = [p \in Peers |-> {}]
  /\ banned \in Bans
  /\ subscribers = [r \in Radios |-> Nowhere]
  /\ lastUnlink = [p \in Peers |-> NoStream]
  /\ answered = [p \in Peers |-> Never]
  /\ frames = 0 /\ edits = 0
  /\ spoke = {}
  /\ keyed = [k \in CallKeys |-> Never]
  /\ nakked = [p \in Peers |-> Never]

-----------------------------------------------------------------------------
(* Peer.continuing                                                         *)

OpenCall(f) == [stream |-> f.stream, source |-> f.source, target |-> f.target,
                group |-> f.group, seen |-> now, adopted |-> NoStream]

(* Calls that ended are taken out at once; those gone quiet, when the next *)
(* frame comes.                                                            *)
StillOpen(p) == {c \in open[p] : Within(c.seen, StreamTimeout)}

KnownTo(f) == {c \in StillOpen(f.peer) : f.stream \in {c.stream, c.adopted}}

(* Mutant: a header makes no difference.                                   *)
JoinsHeader(f) ==
  KnownTo(f) = {} /\ f.peer \notin LinkedPeers /\ Cardinality(StillOpen(f.peer)) = 1

(* A newcomer without a header, beside exactly one open call, is that call.*)
Joins(f) ==
  /\ KnownTo(f) = {} /\ f.peer \notin LinkedPeers
  /\ ~IsHeader(f) /\ Cardinality(StillOpen(f.peer)) = 1

(* The call a frame is part of, if there is one.                           *)
CallsOf(f) ==
  IF IsUserData(f) THEN {} ELSE IF Joins(f) THEN StillOpen(f.peer) ELSE KnownTo(f)

Relabel(f, c) == [f EXCEPT !.stream = c.stream, !.source = c.source,
                           !.target = c.target, !.group = c.group]

(* The frame as it is carried.                                             *)
CarriedAs(f) ==
  IF \E c \in CallsOf(f) : c.stream # f.stream
  THEN Relabel(f, CHOOSE c \in CallsOf(f) : c.stream # f.stream)
  ELSE f

Heard(f, c) == [c EXCEPT !.seen = now, !.adopted = IF c.stream = f.stream THEN @ ELSE f.stream]

(* The calls that are open when the frame has been taken.                  *)
Continuing(f) ==
  IF IsUserData(f) THEN open[f.peer]
  ELSE LET rest == StillOpen(f.peer) \ CallsOf(f)
           own  == IF CallsOf(f) # {} THEN {Heard(f, c) : c \in CallsOf(f)}
                   ELSE IF Cardinality(rest) >= MaxOpenCalls THEN {}
                   ELSE {OpenCall(f)}
       IN  IF IsTerminator(f) THEN rest ELSE rest \cup own

-----------------------------------------------------------------------------
(* Master.observe: where the radio is.                                     *)
Observe(g) ==
  subscribers' = [subscribers EXCEPT ![g.source] = [peer |-> g.peer, heard |-> now]]

(* locate, which routing asks: a radio last heard through a peer that is   *)
(* still there.                                                            *)
Located(r) ==
  /\ Within(subscribers[r].heard, SubscriberTimeout)
  /\ state[subscribers[r].peer] = "ready"

(* Listener.unlink: once per keyup.                                        *)
Unlinks(g) == g.group /\ g.target = Unlink
UnlinksNow(g) == Unlinks(g) /\ lastUnlink[g.peer] # g.stream

(* A group call attaches its talkgroup, before an unlink is obeyed.        *)
AttachOrDrop(g) ==
  /\ lastUnlink' = IF Unlinks(g) THEN [lastUnlink EXCEPT ![g.peer] = g.stream] ELSE lastUnlink
  /\ IF g.group THEN Uses(<<g.peer, g.target>>, UnlinksNow(g)) ELSE UNCHANGED attachmentVars

(* A stream is keyed by a header that finds room, and ends with its call;  *)
(* a data burst is no part of a call.                                      *)
Keys(f) ==
  \/ Within(keyed[CallKey(f)], StreamTimeout)
  \/ IsHeader(f) /\ KnownTo(f) = {} /\ Cardinality(StillOpen(f.peer)) < MaxOpenCalls

Noted(f, g) ==
  /\ spoke' = spoke \cup {f.source}
  /\ keyed' = [k \in CallKeys |->
                 IF k = CallKey(g) /\ IsTerminator(g) THEN Never
                 ELSE IF k = CallKey(f) /\ ~IsUserData(f) THEN (IF Keys(f) THEN now ELSE Never)
                 ELSE keyed[k]]

(* A datagram: the loop reads one, and sweeps before the next.             *)
Reads == /\ pc = "read" /\ pc' = "sweep"
         /\ frames < MaxFrames /\ frames' = frames + 1

(* handleData, and what Listener.handle does with the frame.               *)
Data(f) ==
  LET g == CarriedAs(f)
  IN  /\ Reads
      /\ state[f.peer] = "ready" /\ f.source \notin banned
      /\ open' = [open EXCEPT ![f.peer] = Continuing(f)]
      /\ Observe(g)
      /\ AttachOrDrop(g)
      /\ Update(g)
      /\ Noted(f, g)
      /\ UNCHANGED <<now, state, banned, answered, edits, nakked>>

(* refuseSubscriber: the ban is asked of the frame as it arrived.          *)
Refused(f) ==
  /\ Reads
  /\ state[f.peer] = "ready" /\ f.source \in banned
  /\ UNCHANGED <<now, attachmentVars, callVars, masterVars, edits, pastVars>>

(* Mutant: making room forgets who was answered just now.                  *)
PrunedAll == [p \in Peers |-> Never]

(* shouldAnswerUnregistered: what is remembered when there are many.       *)
Pruned == [p \in Peers |->
             IF Cardinality({q \in Peers : answered[q] # Never}) >= MaxAnswered
                /\ now - answered[p] >= AnswerInterval
             THEN Never ELSE answered[p]]

(* A frame of a peer that is not registered is answered with MSTNAK.       *)
Unregistered(f) ==
  /\ Reads
  /\ state[f.peer] = "gone"
  /\ answered[f.peer] = Never \/ now - answered[f.peer] >= AnswerInterval
  /\ answered' = [Pruned EXCEPT ![f.peer] = now]
  /\ nakked' = [nakked EXCEPT ![f.peer] = now]
  /\ UNCHANGED <<now, attachmentVars, callVars, state, open, banned, subscribers, lastUnlink,
                 edits, spoke, keyed>>

-----------------------------------------------------------------------------
(* The loop of Listener.serve                                              *)

(* Nothing came before the deadline, or a datagram that is dropped and     *)
(* leaves nothing behind.                                                  *)
ReadTimesOut ==
  /\ pc = "read" /\ pc' = "sweep"
  /\ UNCHANGED <<now, attachmentVars, callVars, masterVars, frames, edits, pastVars>>

(* applyPending, expire and expireCalls.  A save is of the settings as they*)
(* are now, changed or not.                                                *)
Sweep(s, b, saved) ==
  /\ pc = "sweep" /\ pc' = "read"
  /\ saved \/ (s = subscription /\ b = banned)
  /\ saved => edits < MaxEdits
  /\ edits' = IF saved THEN edits + 1 ELSE edits
  /\ SweepAttachments(s, saved)
  /\ banned' = b
  /\ subscribers' = [r \in Radios |->
        IF Within(subscribers[r].heard, SubscriberTimeout) THEN subscribers[r] ELSE Nowhere]
  /\ ExpireCalls
  /\ UNCHANGED <<now, state, open, lastUnlink, answered, frames, pastVars>>

(* A station logs in (anew, or again), completes its login, or goes.       *)
Registration(p, next) ==
  /\ edits < MaxEdits /\ edits' = edits + 1
  /\ <<state[p], next>> \in {<<"gone", "known">>, <<"known", "ready">>, <<"ready", "known">>,
                             <<"known", "gone">>, <<"ready", "gone">>}
  /\ state' = [state EXCEPT ![p] = next]
  /\ open' = IF next = "gone" THEN [open EXCEPT ![p] = {}] ELSE open
  /\ keyed' = [k \in CallKeys |-> IF next = "gone" /\ k[1] = p THEN Never ELSE keyed[k]]
  /\ UNCHANGED <<now, pc, attachmentVars, callVars, banned, subscribers, lastUnlink, answered,
                 frames, spoke, nakked>>

Passes == Tick /\ UNCHANGED <<pc, attachmentVars, callVars, masterVars, frames, edits, pastVars>>

Datagram(set) == \E f \in set : Data(f) \/ Refused(f) \/ Unregistered(f)

Sweeps == \E s \in Subscriptions, b \in Bans, saved \in BOOLEAN : Sweep(s, b, saved)

Registrations == \E p \in Peers, next \in {"gone", "known", "ready"} : Registration(p, next)

Next == Datagram(Frames) \/ ReadTimesOut \/ Sweeps \/ Registrations \/ Passes

Spec == Init /\ [][Next]_vars

(* The loop never stops: a read has a deadline, and a sweep follows it.    *)
FairSpec == Spec /\ WF_vars(ReadTimesOut) /\ WF_vars(Sweeps)
-----------------------------------------------------------------------------
CallRecords == [stream : Streams, source : Radios, target : Talkgroups \cup Radios,
                group : BOOLEAN, seen : 1..MaxTime, adopted : Streams \cup {NoStream}]

(* Every variable has its type; the calls a peer has open are within their *)
(* limit, and no stream belongs to two of them (Peer.calls).               *)
TrafficTypeOK ==
  /\ now \in 1..MaxTime /\ pc \in {"read", "sweep"}
  /\ subscription \in Subscriptions /\ banned \in Bans
  /\ attachments \in [Attachable -> AttachmentType]
  /\ \A p \in Peers :
       /\ open[p] \subseteq CallRecords
       /\ Cardinality(open[p]) <= MaxOpenCalls
       /\ \A c, d \in open[p] :
            c # d => {c.stream, c.adopted} \cap {d.stream, d.adopted} \subseteq {NoStream}
  /\ \A r \in Radios : subscribers[r] = Nowhere \/ subscribers[r].peer \in Peers

(* "The header is the line": a stream whose header came, and that has      *)
(* neither ended nor fallen silent, is carried as itself, whoever else is  *)
(* talking on the timeslot (Peer.continuing).                              *)
HeaderIsTheLine ==
  \A f \in Frames : Within(keyed[CallKey(f)], StreamTimeout) => CarriedAs(f) = f

(* What is carried is what the console shows: a call a peer has in         *)
(* progress is one the tracker has in progress, under the same caller,     *)
(* although each keeps its own time (Peer.calls, Tracker.active); only a   *)
(* tracker that was full when the call began knows nothing of it.          *)
OpenIsTracked ==
  \A p \in Peers : \A c \in StillOpen(p) :
    \/ <<p, c.stream>> \in turned
    \/ /\ active[<<p, c.stream>>] # NoCall
       /\ active[<<p, c.stream>>].source = c.source

(* "A subscriber refused permission to transmit must not become reachable" *)
(* (handleData): a radio is only ever located if it spoke while permitted, *)
(* also when frames are put back into somebody's call.                     *)
LocatedWasPermitted == \A r \in Radios : Located(r) => r \in spoke

(* The calls are put together as they were made: the stream that began a   *)
(* line keeps it, what is carried is what is shown, what is shown ends in  *)
(* order and, when it ended with a terminator, on record.                  *)
CallsAreWhole ==
  TrafficTypeOK /\ HeaderIsTheLine /\ OpenIsTracked /\ HistoryIsSane /\ EndedIsRecorded

(* Who hears what, and who is reachable, follows from what was configured  *)
(* and what was permitted, through saves, bans and expiry.                 *)
HeardAsAsked == StaticIsHeard /\ HeardIsAsked /\ AskedIsHeard /\ LocatedWasPermitted

(* A peer that is not registered is told to log in once per interval, also *)
(* when many are (shouldAnswerUnregistered).                               *)
AnsweredOnce ==
  [][\A p \in Peers :
       nakked'[p] # nakked[p] /\ nakked[p] # Never => now - nakked[p] >= AnswerInterval]_vars
=============================================================================
