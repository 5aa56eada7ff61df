------------------------------- MODULE Tickets -------------------------------
(***************************************************************************)
(* What LOG, REQ, AUT and VLD promise the User application and the file     *)
(* server together: a user has at most one ticket, a TID with the one        *)
(* operation it is for; REQ replaces it and makes a request pending whose    *)
(* code AUT exchanges once for the TID; VLD reads it and changes nothing but *)
(* the login.  AuthServer implements this while one connection is active,    *)
(* UserSession is built on it.                                              *)
(***************************************************************************)
CONSTANTS Users, Fops, Rids, Codes, Tids, None

VARIABLES
  logged,    \* the user is logged in
  ticket,    \* the user's TID with its operation, or None
  pending    \* the user's request: its RID, its code and its TID, or None

tvars == <<logged, ticket, pending>>

Ticket == [tid : Tids, fop : Fops]
Pending == [rid : Rids, vc : Codes, tid : Tids]

Init ==
  /\ logged = [u \in Users |-> FALSE]
  /\ ticket = [u \in Users |-> None]
  /\ pending = [u \in Users |-> None]

\* RLO OK
LogIn(u) ==
  /\ ~logged[u]
  /\ logged' = [logged EXCEPT ![u] = TRUE]
  /\ UNCHANGED <<ticket, pending>>

\* The connection ends, or VLD confirms an X.
LogOut(u) ==
  /\ logged' = [logged EXCEPT ![u] = FALSE]
  /\ UNCHANGED <<ticket, pending>>

\* RRQ OK
Grant(u, rid, vc, tid, fop) ==
  /\ logged[u]
  /\ ticket' = [ticket EXCEPT ![u] = [tid |-> tid, fop |-> fop]]
  /\ pending' = [pending EXCEPT ![u] = [rid |-> rid, vc |-> vc, tid |-> tid]]
  /\ UNCHANGED logged

\* RAU with the TID
Spend(u) ==
  /\ pending[u] # None
  /\ pending' = [pending EXCEPT ![u] = None]
  /\ UNCHANGED <<logged, ticket>>

Next ==
  \E u \in Users :
    \/ LogIn(u) \/ LogOut(u) \/ Spend(u)
    \/ \E rid \in Rids, vc \in Codes, tid \in Tids, fop \in Fops : Grant(u, rid, vc, tid, fop)

Spec == Init /\ [][Next]_tvars
=============================================================================
