--------------------------- MODULE DeviceRegistry ---------------------------
(***************************************************************************)
(* What REG and UNR promise together, whatever threads, locks and datagrams  *)
(* carry them out: a user has at most one personal device, a device at most  *)
(* one user, and a user's device is replaced only after it was released.     *)
(* AuthServer and Registration implement this.                               *)
(***************************************************************************)
CONSTANTS Users, PDs, None

VARIABLE pd   \* the device of a user, or None

Init == pd = [u \in Users |-> None]

\* RRG OK
Claim(u, p) ==
  /\ pd[u] = None
  /\ \A v \in Users : pd[v] # p
  /\ pd' = [pd EXCEPT ![u] = p]

\* RUN OK
Release(u) == pd' = [pd EXCEPT ![u] = None]

Next == \E u \in Users : Release(u) \/ \E p \in PDs : Claim(u, p)

Spec == Init /\ [][Next]_pd
=============================================================================
