------------------------------ MODULE MCConfig ------------------------------
(***************************************************************************)
(* Settings and ConfigStore for TLC.  The two keep to variables of their   *)
(* own, so a behaviour explores one of them: edits of a document, lists of *)
(* access entries, or saves.                                               *)
(***************************************************************************)
EXTENDS Settings, ConfigStore

VARIABLE part

Spans == {Span(lo, hi) : lo, hi \in 1..MaxID}
Given == {s \in Spans : s.lo <= s.hi}
Lists == UNION {[1..n -> Given] : n \in 0..3} \cup {<<s>> : s \in Spans}

StoreStill == StoreInit /\ backup = Nil
DocStill == doc = Default /\ edits = MaxEdits

Init ==
  \/ part = "document" /\ SettingsInit /\ StoreStill
  \/ /\ part = "lists" /\ StoreStill /\ edits = MaxEdits
     /\ \E l \in Lists : doc = [Working EXCEPT !.access.ids = l]
  \/ part = "store" /\ DocStill /\ StoreInit

Next ==
  \/ part = "document" /\ SettingsNext /\ UNCHANGED <<part, storeVars>>
  \/ part = "store" /\ StoreNext /\ UNCHANGED <<part, settingsVars>>

Spec == Init /\ [][Next]_<<part, settingsVars, storeVars>>

Browsers == Permutations(Editors)
=============================================================================
