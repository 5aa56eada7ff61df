---------------------------- MODULE MCAuthServer ----------------------------
(***************************************************************************)
(* Instances of AuthServer for TLC.  Spec starts from the empty server.     *)
(* WarmSpec starts where the users WarmUsers have registered a PD each and  *)
(* the connections WarmSessions are logged in as different ones of them, so *)
(* that the bound on messages is spent on what follows: Spec reaches these  *)
(* states by a REG per user and an Accept and a LOG per session.            *)
(***************************************************************************)
EXTENDS AuthServer

CONSTANTS WarmUsers, WarmSessions

ASSUME WarmUsers \subseteq Users /\ WarmSessions \subseteq Sessions

WarmInit ==
  \E device \in Injection(WarmUsers, PDs), login \in Injection(WarmSessions, WarmUsers), pass \in Passwords :
    /\ known = WarmUsers
    /\ pw = [u \in Users |-> IF u \in WarmUsers THEN pass ELSE None]
    /\ pd = [u \in Users |-> IF u \in WarmUsers THEN device[u] ELSE None]
    /\ isOn = [u \in Users |-> u \in WarmUsers]
    /\ isLogged = [u \in Users |-> \E s \in WarmSessions : login[s] = u]
    /\ tids = [u \in Users |-> newMap]
    /\ rids = [u \in Users |-> newMap]
    /\ r2t = [u \in Users |-> newMap]
    /\ mutex = [u \in Users |-> None]
    /\ newVC = Zero
    /\ newTID = [Zero EXCEPT ![Digits] = 1]
    /\ pc = [s \in Sessions |-> "recv"]
    /\ req = [s \in Sessions |-> None]
    /\ userID = [s \in Sessions |-> IF s \in WarmSessions THEN login[s] ELSE None]
    /\ vlc = [s \in Sessions |-> None]
    /\ tries = [s \in Sessions |-> 0]
    /\ inc = [s \in Sessions |-> StartIncr]
    /\ udpPc = "recv"
    /\ udpReq = None
    /\ inputs = 0

WarmSpec == WarmInit /\ [][Next]_vars
WarmFairSpec == WarmSpec /\ Fairness

Symmetry == Permutations(Users) \cup Permutations(PDs) \cup Permutations(Sessions)
=============================================================================
