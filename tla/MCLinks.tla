------------------------------ MODULE MCLinks -------------------------------
(***************************************************************************)
(* The two kinds of outgoing link for TLC.  They share no state, so a      *)
(* behaviour explores one of them.  The fairness is that of each module,   *)
(* asked for in the part that is explored.                                 *)
(***************************************************************************)
EXTENDS Link, OpenBridge

VARIABLE part
vars == <<part, linkVars, obVars>>

Init == /\ part \in {"peer", "bridge"}
        /\ LinkInit /\ (part = "bridge" => conn.open)
        /\ OpenBridgeInit
        /\ part = "peer" => relaying /\ theirs = "ours" /\ dest = at

Next == \/ part = "peer" /\ LinkNext /\ UNCHANGED <<part, obVars>>
        \/ part = "bridge" /\ OpenBridgeNext /\ UNCHANGED <<part, linkVars>>

Fairness ==
  /\ WF_vars(part = "peer" /\ Delivers /\ UNCHANGED <<part, obVars>>)
  /\ WF_vars(part = "peer" /\ TickerMoves /\ UNCHANGED <<part, obVars>>)
  /\ WF_vars(part = "peer" /\ ReaderApplies /\ UNCHANGED <<part, obVars>>)
  /\ WF_vars(part = "peer" /\ CloserMoves /\ UNCHANGED <<part, obVars>>)
  /\ WF_vars(part = "peer" /\ NameFollows /\ UNCHANGED <<part, obVars>>)
  /\ WF_vars(part = "peer" /\ Pass /\ UNCHANGED <<part, obVars>>)
  /\ WF_vars(part = "bridge" /\ Resolves /\ UNCHANGED <<part, linkVars>>)
  /\ WF_vars(part = "bridge" /\ CalledFollows /\ UNCHANGED <<part, linkVars>>)

Spec == Init /\ [][Next]_vars /\ Fairness

(* The properties of each kind, in the behaviours that explore it.         *)
PeerRecovers == part = "peer" => LinkRecovers
BridgeRecovers == part = "bridge" => BridgeSettles

(* A link that lost its far end, of either kind, comes back once the far   *)
(* end answers again.                                                      *)
LinksRecover == PeerRecovers /\ BridgeRecovers
=============================================================================
