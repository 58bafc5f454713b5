------------------------------ MODULE MCSignIn ------------------------------
(***************************************************************************)
(* Who may come in, for TLC: the accounts of the console, with one         *)
(* administrator and a daemon that restarts ("signin") or with several     *)
(* that change each other's accounts ("admins"), and the throttle of the   *)
(* stations' logins on its own ("throttle").                               *)
(***************************************************************************)
EXTENDS Accounts, MCThrottle, TLC

VARIABLE part
vars == <<part, accountVars, mcVars>>

(* One account of each kind is enough for the weak passwords of earlier    *)
(* versions, and all begin with the same one.                              *)
Usual == /\ \A n \in Administrators : users[n].weak => users[n].id = 1
         /\ \A n, m \in Administrators : users[n].pw = users[m].pw

Init ==
  /\ AccountsInit /\ Usual /\ MCInit
  /\ \/ part = "signin" /\ Cardinality(Administrators) = 1
     \/ part = "admins"
     \/ part = "throttle" /\ Administrators = {}

Next ==
  \/ /\ part = "signin" /\ (SigningIn \/ DaemonRestarts)
     /\ UNCHANGED <<part, mcVars>>
  \/ /\ part = "admins" /\ (SigningIn \/ Administering \/ Ageing) /\ starts' < MaxStarts
     /\ UNCHANGED <<part, mcVars>>
  \/ part = "throttle" /\ MCNext /\ UNCHANGED <<part, accountVars>>

Spec == Init /\ [][Next]_vars

Alike == Permutations(Tokens) \cup Permutations(Requests) \cup Permutations(Sources)
         \cup Permutations(Passwords)
=============================================================================
