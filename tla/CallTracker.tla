---------------------------- MODULE CallTracker ----------------------------
(***************************************************************************)
(* Who is talking and who just talked (internal/calls: Tracker, Store): the*)
(* frames of a stream are put together into a call, a call ends with a     *)
(* terminator or when it falls silent, and one-frame data bursts of one    *)
(* text are merged into one line of the history.                           *)
(*                                                                         *)
(* A count of frames goes no further than "more than one".  The database   *)
(* is external and never fails here.                                       *)
(***************************************************************************)
EXTENDS Frames, SequencesExt

CONSTANTS MaxActive,        \* Options.MaxActive
          History,          \* Options.History
          DataBurstWindow

ASSUME CallAssumption ==
  /\ StreamTimeout \in Nat /\ DataBurstWindow \in Nat
  /\ MaxActive \in Nat \ {0} /\ History \in Nat \ {0}

VARIABLES active,   \* Tracker.active, with lastSeen
          history,  \* Tracker.history, oldest first
          stored,   \* the rows of the calls table
          turned    \* history variable: the calls a full tracker turned away

callVars == <<active, history, stored, turned>>

CallKeys == Peers \X Streams
CallKey(f) == <<f.peer, f.stream>>

NoCall == [frames |-> 0]

CallInit ==
  active = [k \in CallKeys |-> NoCall] /\ history = <<>> /\ stored = {} /\ turned = {}

InProgress == {k \in CallKeys : active[k] # NoCall}

Started(f) == [source |-> f.source, target |-> f.target, group |-> f.group,
               started |-> now, seen |-> now, frames |-> 1, voice |-> IsVoice(f)]

Continued(c, f) == [c EXCEPT !.seen = now, !.frames = 2, !.voice = @ \/ IsVoice(f)]

(* A finished call: what the history keeps of it.                          *)
Finished(k, c, at, reason) ==
  [key |-> k, source |-> c.source, target |-> c.target, group |-> c.group,
   started |-> c.started, ended |-> at, frames |-> c.frames, voice |-> c.voice,
   reason |-> reason]

(* mergeableData                                                           *)
Mergeable(h, c) ==
  /\ ~c.voice /\ c.frames = 1 /\ h # <<>>
  /\ LET prev == Last(h)
     IN  /\ ~prev.voice
         /\ prev.source = c.source /\ prev.target = c.target /\ prev.group = c.group
         /\ c.started - prev.ended <= DataBurstWindow

Later(s, t) == IF s > t THEN s ELSE t

Merged(prev, c) ==
  [prev EXCEPT !.frames = 2, !.ended = Later(@, c.ended), !.reason = c.reason]

(* finish: the history with one more call in it.                           *)
Kept(h, c) ==
  IF Mergeable(h, c) THEN [h EXCEPT ![Len(h)] = Merged(Last(h), c)]
  ELSE LET all == Append(h, c)
       IN  SubSeq(all, Later(1, Len(all) - History + 1), Len(all))

(* finish, of one call after the other.                                    *)
KeptInOrder(h, calls) ==
  LET after[n \in 0..Len(calls)] == IF n = 0 THEN h ELSE Kept(after[n - 1], calls[n])
  IN  after[Len(calls)]

(* Tracker.Update, and observe, which records the call it ended.  The      *)
(* preambles of texts, which observe skips, are left out.                  *)
Update(f) ==
  LET k == CallKey(f)
      c == IF active[k] = NoCall THEN Started(f) ELSE Continued(active[k], f)
      done == Finished(k, c, now, "terminated")
  IN  IF active[k] = NoCall /\ Cardinality(InProgress) >= MaxActive
      THEN turned' = turned \cup {k} /\ UNCHANGED <<active, history, stored>>
      ELSE IF IsTerminator(f) /\ c.frames > 1
      THEN /\ active' = [active EXCEPT ![k] = NoCall]
           /\ history' = Kept(history, done)
           /\ stored' = stored \cup {done}
           /\ UNCHANGED turned
      ELSE active' = [active EXCEPT ![k] = c] /\ UNCHANGED <<history, stored, turned>>

Lost == {k \in InProgress : ~Within(active[k].seen, StreamTimeout)}

(* The order in which lost calls are finished: by their last frame, and    *)
(* among equals by peer and stream, whose order is left open.              *)
ByLastFrame == {s \in SetToSeqs(Lost) :
                  \A i, j \in DOMAIN s : i < j => active[s[i]].seen <= active[s[j]].seen}

(* A lost call ended with its last frame.                                  *)
Silenced(k) == Finished(k, active[k], active[k].seen, "timed_out")

(* Mutant: data has no terminator, and is not waited for.                  *)
ExpireVoice ==
  \E order \in ByLastFrame :
    LET voice == SelectSeq(order, LAMBDA k : active[k].voice)
    IN  /\ active' = [k \in CallKeys |-> IF k \in Lost /\ active[k].voice THEN NoCall ELSE active[k]]
        /\ history' = KeptInOrder(history, [i \in DOMAIN voice |-> Silenced(voice[i])])
        /\ UNCHANGED <<stored, turned>>

(* Tracker.Expire, and expireCalls, which announces and does not record.   *)
ExpireCalls ==
  \E order \in ByLastFrame :
    /\ active' = [k \in CallKeys |-> IF k \in Lost THEN NoCall ELSE active[k]]
    /\ history' = KeptInOrder(history, [i \in DOMAIN order |-> Silenced(order[i])])
    /\ UNCHANGED <<stored, turned>>
-----------------------------------------------------------------------------
(* The calls in progress and the history stay within their limits, and no  *)
(* line of the history ends before it started ("A transmission cannot end  *)
(* before it started", finish), however texts and voice are interleaved.   *)
HistoryIsSane ==
  /\ Cardinality(InProgress) <= MaxActive
  /\ Len(history) <= History
  /\ \A i \in DOMAIN history : history[i].started <= history[i].ended

(* A call that fell silent ends without a terminator (Tracker.Expire).     *)
SilentCallsEnd == (Lost # {}) ~> (Lost = {})

(* "Completed calls are written to the database" (ADR-0033): every voice   *)
(* call that ended with a terminator and is still in the history has a row;*)
(* one that fell silent has none.                                          *)
EndedIsRecorded ==
  \A i \in DOMAIN history :
    history[i].voice /\ history[i].reason = "terminated" => history[i] \in stored
=============================================================================
