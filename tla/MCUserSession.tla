---------------------------- MODULE MCUserSession ----------------------------
(***************************************************************************)
(* Instances of UserSession for TLC.  WarmSpec starts where the Apps in     *)
(* WarmApps have connected and logged in as different users and each holds  *)
(* the TID of a request in WarmFops that it has validated, so that the      *)
(* bound on commands is spent on what follows.  Spec reaches these states:  *)
(* login, req and val.                                                      *)
(***************************************************************************)
EXTENDS UserSession, Functions, FiniteSets

CONSTANTS WarmApps, WarmFops

ASSUME WarmAssumption == WarmApps \subseteq Apps /\ WarmFops \subseteq Fops

WarmInit ==
  \E login \in Injection(WarmApps, Users), number \in Bijection(WarmApps, 1..Cardinality(WarmApps)),
     fop \in [WarmApps -> WarmFops], r \in Rids :
    LET AppOf(u) == CHOOSE a \in WarmApps : login[a] = u
        warm == {login[a] : a \in WarmApps}
    IN /\ logged = [u \in Users |-> u \in warm]
       /\ ticket = [u \in Users |-> IF u \in warm THEN [tid |-> number[AppOf(u)], fop |-> fop[AppOf(u)]] ELSE None]
       /\ pending = [u \in Users |-> None]
       /\ newTID = Cardinality(WarmApps) + 1
       /\ session = [a \in Apps |-> "open"]
       /\ asPc = [a \in Apps |-> "recv"]
       /\ userID = [a \in Apps |-> IF a \in WarmApps THEN login[a] ELSE None]
       /\ toAS = [a \in Apps |-> None]
       /\ toApp = [a \in Apps |-> None]
       /\ pc = [a \in Apps |-> "prompt"]
       /\ uid = userID
       /\ rid = [a \in Apps |-> IF a \in WarmApps THEN r ELSE None]
       /\ tid = [a \in Apps |-> IF a \in WarmApps THEN number[a] ELSE 0]
       /\ status = [a \in Apps |-> ""]
       /\ told = [a \in Apps |-> FALSE]
       /\ fs = [a \in Apps |-> NoThread]
       /\ toUser = [a \in Apps |-> None]
       /\ vlds = {} /\ cnfs = {}
       /\ confirmed = {[uid |-> login[a], tid |-> number[a], fop |-> fop[a]] : a \in WarmApps}
       /\ removed = {}
       /\ commands = 0 /\ faults = 0

WarmSpec == WarmInit /\ [][Next]_vars
WarmFairSpec == WarmSpec /\ Fairness
=============================================================================
