-------------------------------- MODULE Line --------------------------------
(***************************************************************************)
(* What the Motorola repeater link promises the repeater at the far end of *)
(* a tunnel (internal/v24link/relay.go, toRepeaters and endAtRepeaters):   *)
(* while its link stays up it is sent whole calls, one after another.  A   *)
(* call is a start, headers and voice of one talker, and the end twice.  A *)
(* link that is opened again begins with no call.                          *)
(***************************************************************************)
EXTENDS Naturals, Sequences

CONSTANTS None, Talkers, Listeners

VARIABLES up,    \* listener -> its link is open
          on,    \* listener -> the talker whose call it is keyed for, or None
          sent   \* listener -> the records of the last write to it

lineVars == <<up, on, sent>>

(* One record, read by a repeater that is keyed for talker w. *)
Reads(w, r) ==
  IF r.kind = "start" /\ w = None THEN r.of
  ELSE IF r.kind \in {"header", "voice"} /\ w = r.of THEN w
  ELSE IF r.kind = "end" /\ w \in Talkers THEN "ending"
  ELSE IF r.kind = "end" /\ w = "ending" THEN None
  ELSE "garbled"

(* A write, read record by record. *)
Reading(w, recs) ==
  LET at[n \in 0..Len(recs)] == IF n = 0 THEN w ELSE Reads(at[n - 1], recs[n])
  IN  at[Len(recs)]

LineInit == /\ up \in [Listeners -> BOOLEAN]
            /\ on = [s \in Listeners |-> None]
            /\ sent = [s \in Listeners |-> <<>>]

(* Nothing, or a write: it is read from where the last one left off. *)
Idle(s) == up'[s] = up[s] /\ on'[s] = on[s] /\ sent'[s] = sent[s]
Hears(s) == /\ up'[s] = up[s]
            /\ on'[s] \in Talkers \cup {None}
            /\ Reading(on[s], sent'[s]) = on'[s]

(* The link opens or drops; what is sent while it is down is not judged. *)
Relinks(s) == up'[s] # up[s] /\ sent'[s] = <<>> /\ (up'[s] => on'[s] = None)
WhileDown(s) == ~up[s] /\ ~up'[s]

LineNext == \A s \in Listeners : Idle(s) \/ Hears(s) \/ Relinks(s) \/ WhileDown(s)

LineSpec == LineInit /\ [][LineNext]_lineVars
=============================================================================
