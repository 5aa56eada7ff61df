----------------------------- MODULE AuthServer -----------------------------
(***************************************************************************)
(* The authentication server, AS.c: one thread per TCP connection of a     *)
(* User application (getUserRequests / doRequest) and one thread for the    *)
(* UDP socket (getUDPrequests / doUDPrequests), over a shared list of       *)
(* users, a mutex per user and two global counters.                         *)
(*                                                                          *)
(* Locks.  getUser() searches the list under the read lock of               *)
(* rwlockUsersList and takes the user's mutex BEFORE it releases the read   *)
(* lock, so a thread that waits for a mutex keeps the list read-locked;     *)
(* addUser() waits for the write lock.  Its critical section does not       *)
(* block and is one step here.  A handler that keeps a mutex without        *)
(* waiting for anything is one step as well; REQ keeps it while it waits    *)
(* for the personal device (PD) and is split at every access to the         *)
(* counters newVC and newTID, which no lock protects.  incrNumber() is      *)
(* split at every load and store of a digit.                                *)
(***************************************************************************)
EXTENDS StringMap

CONSTANTS
  Users,         \* UIDs that may be registered
  Passwords,     \* passwords a message may carry
  PDs,           \* PDIP/PDport pairs a REG may carry
  Sessions,      \* TCP connections, each with its thread
  Rids,          \* request IDs the User application may draw
  Fops,          \* operations with their file name: "R f", "L", "X"...
  RemoveOp,      \* the operation "X" among them
  BadFop,        \* any operation that doRequest refuses
  Digits,        \* TID_LENGTH = VALIDATION_CODE_LENGTH, 4 in the code
  Base,          \* 10 in the code
  MaxRetries,    \* retransmissions of VLC, 5 in the code
  SocketFaults,  \* whether newUDPClient() or sendto() may fail
  MaxInputs,     \* bound on messages taken from the outside
  None

ASSUME ConstantsAssumption ==
  /\ None \notin Users \cup PDs \cup Sessions
  /\ RemoveOp \in Fops
  /\ BadFop \notin Fops
  /\ Digits \in Nat \ {0}
  /\ Base \in Nat \ {0, 1}
  /\ MaxRetries \in Nat
  /\ SocketFaults \in BOOLEAN
  /\ MaxInputs \in Nat

VARIABLES
  known,      \* UIDs in the users list
  pw,         \* user->pw
  pd,         \* user->pdip, user->pdport; None when cleared
  isOn,       \* user->isOn: the user's PD is registered
  isLogged,   \* user->isLogged
  tids,       \* user->tids: TID -> operation
  rids,       \* user->rids: RID -> validation code
  r2t,        \* user->r2t:  RID -> TID
  mutex,      \* the session whose thread keeps user->mutex across steps
  newVC,      \* the next validation code, digit by digit
  newTID,     \* the next TID
  pc,         \* where each TCP thread is
  req,        \* the message it is serving
  userID,     \* getUserRequests' userID: who logged in on this connection
  vlc,        \* the validation code in sendValidationCode's buffer
  tries,      \* retransmissions of that buffer
  inc,        \* incrNumber's locals, for the thread that is in it
  udpPc,      \* where the UDP thread is
  udpReq,     \* the datagram it is serving
  inputs      \* messages taken so far

listVars    == <<known, pw, pd, isOn>>
mapVars     == <<tids, rids, r2t>>
numVars     == <<newVC, newTID>>
requestVars == <<vlc, tries, inc>>
threadVars  == <<pc, req, userID>>
udpVars     == <<udpPc, udpReq>>
vars == <<listVars, isLogged, mapVars, mutex, numVars, threadVars,
          requestVars, udpVars, inputs>>

----------------------------------------------------------------------------
\* The decimal counters.

Number == [1..Digits -> 0..(Base - 1)]

\* What a counter may hold: two unlocked increments can take a digit past
\* Base - 1.
RacyNumber == [1..Digits -> Nat]

Zero == [d \in 1..Digits |-> 0]

\* incrNumber's locals on entry: the last digit, about to be compared.
StartIncr == [digit |-> Digits, step |-> "test", val |-> 0]

IncrLocals == [digit : 1..Digits, step : {"test", "load", "store", "zero"}, val : Nat]

\* Mutant: the digit that carries is not set to 0.
IncrNumberNumNoReset(num, l) == IF l.step = "store" THEN [num EXCEPT ![l.digit] = l.val + 1] ELSE num

\* One memory access of incrNumber on the array num: compare array[i] with
\* '9'; array[i]++ as its load and its store; or array[i] = '0' and carry.
IncrNumberNum(num, l) ==
  IF l.step = "store" THEN [num EXCEPT ![l.digit] = l.val + 1]
  ELSE IF l.step = "zero" THEN [num EXCEPT ![l.digit] = 0]
  ELSE num

IncrNumberLocals(num, l) ==
  IF l.step = "test" THEN [l EXCEPT !.step = IF num[l.digit] < Base - 1 THEN "load" ELSE "zero"]
  ELSE IF l.step = "load" THEN [l EXCEPT !.step = "store", !.val = num[l.digit]]
  ELSE IF l.step = "zero" /\ l.digit > 1
       THEN [StartIncr EXCEPT !.digit = l.digit - 1]
  ELSE StartIncr

\* This access is incrNumber's last.
IncrNumberReturns(l) == l.step = "store" \/ (l.step = "zero" /\ l.digit = 1)

----------------------------------------------------------------------------
\* Messages.  A message that names a UID outside the list is answered at once
\* (RLO NOK, RRQ EUSER, RAU 0000, RUN NOK, CNF E) and changes nothing, and so
\* is a datagram whose first word is none of REG, UNR, VLD: neither is a step.

LogMsg == [op : {"LOG"}, uid : Users, pw : Passwords]
ReqMsg == [op : {"REQ"}, uid : Users, rid : Rids, fop : Fops \cup {BadFop}]
AutMsg == [op : {"AUT"}, uid : Users, rid : Rids, vc : Number]
\* Anything else.  sscanf leaves uid as it was on the stack when the line has
\* one word, so any user may be looked up before ERR is answered.
BadMsg == [op : {"ERR"}, uid : Users]
\* End of the connection: doRequest looks up userID.
EofMsg == [op : {"EOF"}, uid : Users]

UserMsg == LogMsg \cup ReqMsg \cup AutMsg \cup BadMsg

RegMsg == [op : {"REG"}, uid : Users, pw : Passwords, pd : PDs]
UnrMsg == [op : {"UNR"}, uid : Users, pw : Passwords]
VldMsg == [op : {"VLD"}, uid : Users, tid : Number]

UdpMsg == RegMsg \cup UnrMsg \cup VldMsg

\* sendValidationCode's statements after the PD's OK, in order.
CommitPcs == {"putRids", "incVC", "putTids", "putR2t", "incTID", "checkTID", "skipZero"}

\* Where a TCP thread keeps the mutex of its user between two steps.
HoldingPcs == CommitPcs \cup {"awaitRVC"}

Pcs == HoldingPcs \cup {"closed", "recv", "lockUser"}

Init ==
  /\ known = {}
  /\ pw = [u \in Users |-> None]
  /\ pd = [u \in Users |-> None]
  /\ isOn = [u \in Users |-> FALSE]
  /\ isLogged = [u \in Users |-> FALSE]
  /\ tids = [u \in Users |-> newMap]
  /\ rids = [u \in Users |-> newMap]
  /\ r2t = [u \in Users |-> newMap]
  /\ mutex = [u \in Users |-> None]
  /\ newVC = Zero
  /\ newTID = [Zero EXCEPT ![Digits] = 1]
  /\ pc = [s \in Sessions |-> "closed"]
  /\ req = [s \in Sessions |-> None]
  /\ userID = [s \in Sessions |-> None]
  /\ vlc = [s \in Sessions |-> None]
  /\ tries = [s \in Sessions |-> 0]
  /\ inc = [s \in Sessions |-> StartIncr]
  /\ udpPc = "recv"
  /\ udpReq = None
  /\ inputs = 0

----------------------------------------------------------------------------
\* Threads, locks and the end of a handler.

Input == inputs < MaxInputs /\ inputs' = inputs + 1

\* The thread waits for the next message.
Answer(s) ==
  /\ pc' = [pc EXCEPT ![s] = "recv"]
  /\ req' = [req EXCEPT ![s] = None]

Goto(s, label) == pc' = [pc EXCEPT ![s] = label]

\* Mutant: getUser() returns without waiting for the mutex.
CanLockNoWait(s, op) == pc[s] = "lockUser" /\ req[s].op = op

\* getUser() succeeds: the thread was waiting for the mutex of the message's
\* UID and can take it.
CanLock(s, op) ==
  /\ pc[s] = "lockUser"
  /\ req[s].op = op
  /\ mutex[req[s].uid] = None

\* acquire(): a new connection and its thread.
Accept(s) ==
  /\ pc[s] = "closed"
  /\ Input
  /\ Goto(s, "recv")
  /\ userID' = [userID EXCEPT ![s] = None]
  /\ UNCHANGED <<listVars, isLogged, mapVars, mutex, numVars, req, requestVars, udpVars>>

\* doRequest up to getUser(): a line arrives and its UID is in the list.
Receive(s) ==
  /\ pc[s] = "recv"
  /\ Input
  /\ \E m \in UserMsg : m.uid \in known /\ req' = [req EXCEPT ![s] = m]
  /\ Goto(s, "lockUser")
  /\ UNCHANGED <<listVars, isLogged, mapVars, mutex, numVars, userID, requestVars, udpVars>>

\* The peer closed the connection: the thread ends, after it logged userID out.
ReceiveEof(s) ==
  /\ pc[s] = "recv"
  /\ IF userID[s] \in known
     THEN Goto(s, "lockUser") /\ req' = [req EXCEPT ![s] = [op |-> "EOF", uid |-> userID[s]]]
     ELSE Goto(s, "closed") /\ UNCHANGED req
  /\ UNCHANGED <<listVars, isLogged, mapVars, mutex, numVars, userID, requestVars, udpVars, inputs>>

\* read() or the reply's write() fails: the thread ends and logs nobody out.
ReceiveError(s) ==
  /\ pc[s] = "recv"
  /\ Goto(s, "closed")
  /\ UNCHANGED <<listVars, isLogged, mapVars, mutex, numVars, req, userID, requestVars, udpVars, inputs>>

\* doRequest, n == 0, the user found.
Disconnect(s) ==
  /\ CanLock(s, "EOF")
  /\ isLogged' = [isLogged EXCEPT ![req[s].uid] = FALSE]
  /\ Goto(s, "closed")
  /\ req' = [req EXCEPT ![s] = None]
  /\ UNCHANGED <<listVars, mapVars, mutex, numVars, userID, requestVars, udpVars, inputs>>

\* doRequest, a line that is no command: ERR, once the user was locked.
Malformed(s) ==
  /\ CanLock(s, "ERR")
  /\ Answer(s)
  /\ UNCHANGED <<listVars, isLogged, mapVars, mutex, numVars, userID, requestVars, udpVars, inputs>>

----------------------------------------------------------------------------
\* LOG and AUT

\* doRequest, LOG: RLO OK, or RLO NOK with nothing changed.
Login(s) ==
  LET u == req[s].uid
      ok == ~isLogged[u] /\ req[s].pw = pw[u]
  IN /\ CanLock(s, "LOG")
     /\ isLogged' = [isLogged EXCEPT ![u] = @ \/ ok]
     /\ userID' = [userID EXCEPT ![s] = IF ok THEN u ELSE @]
     /\ Answer(s)
     /\ UNCHANGED <<listVars, mapVars, mutex, numVars, requestVars, udpVars, inputs>>

\* doRequest, AUT: RAU with the TID and the RID is forgotten, or RAU 0000.
Authenticate(s) ==
  LET u == req[s].uid
      rid == req[s].rid
      ok == HasKey(rids[u], rid) /\ get(rids[u], rid) = req[s].vc
  IN /\ CanLock(s, "AUT")
     /\ rids' = [rids EXCEPT ![u] = IF ok THEN removeElement(@, rid) ELSE @]
     /\ r2t' = [r2t EXCEPT ![u] = IF ok THEN removeElement(@, rid) ELSE @]
     /\ Answer(s)
     /\ UNCHANGED <<listVars, isLogged, tids, mutex, numVars, userID, requestVars, udpVars, inputs>>

----------------------------------------------------------------------------
\* REQ

\* Mutant: isLogged is not looked at.
RequestValidLoggedOut(s) == userID[s] = req[s].uid /\ req[s].fop \in Fops /\ isOn[req[s].uid]

\* The conditions doRequest checks before it calls sendValidationCode, and the
\* first one of sendValidationCode.
RequestValid(s) ==
  LET u == req[s].uid
  IN /\ isLogged[u]
     /\ userID[s] = u
     /\ req[s].fop \in Fops
     /\ isOn[u]

\* RRQ ELOG, EUSER, EFOP, ERR or EPD.
RefuseRequest(s) ==
  /\ CanLock(s, "REQ")
  /\ ~RequestValid(s) \/ SocketFaults
  /\ Answer(s)
  /\ UNCHANGED <<listVars, isLogged, mapVars, mutex, numVars, userID, requestVars, udpVars, inputs>>

\* sendValidationCode up to the first sendMessage: VLC goes out with the value
\* newVC has now, and the mutex stays with the thread.
SendVLC(s) ==
  /\ CanLock(s, "REQ")
  /\ RequestValid(s)
  /\ mutex' = [mutex EXCEPT ![req[s].uid] = s]
  /\ vlc' = [vlc EXCEPT ![s] = newVC]
  /\ tries' = [tries EXCEPT ![s] = 0]
  /\ Goto(s, "awaitRVC")
  /\ UNCHANGED <<listVars, isLogged, mapVars, numVars, req, userID, inc, udpVars, inputs>>

\* Mutant: the early return of sendValidationCode skips the unlock.
EndRequestNoUnlock(s) ==
  /\ vlc' = [vlc EXCEPT ![s] = None]
  /\ tries' = [tries EXCEPT ![s] = 0]
  /\ UNCHANGED mutex
  /\ Answer(s)

\* The end of REQ: doRequest unlocks the user and answers.
EndRequest(s) ==
  /\ mutex' = [mutex EXCEPT ![req[s].uid] = None]
  /\ vlc' = [vlc EXCEPT ![s] = None]
  /\ tries' = [tries EXCEPT ![s] = 0]
  /\ Answer(s)

\* Mutant: the for loop of the retransmissions has lost its bound.
RetransmitVLCForever(s) ==
  /\ pc[s] = "awaitRVC"
  /\ tries' = [tries EXCEPT ![s] = @ + 1]
  /\ UNCHANGED <<listVars, isLogged, mapVars, mutex, numVars, threadVars, vlc, inc, udpVars, inputs>>

\* receiveMessageUDPWithTimeout gives up: the same buffer is sent again.
RetransmitVLC(s) ==
  /\ pc[s] = "awaitRVC"
  /\ tries[s] < MaxRetries
  /\ tries' = [tries EXCEPT ![s] = @ + 1]
  /\ UNCHANGED <<listVars, isLogged, mapVars, mutex, numVars, threadVars, vlc, inc, udpVars, inputs>>

\* The last attempt timed out, or sendto() failed: RRQ EPD.
GiveUpVLC(s) ==
  /\ pc[s] = "awaitRVC"
  /\ tries[s] = MaxRetries \/ SocketFaults
  /\ EndRequest(s)
  /\ UNCHANGED <<listVars, isLogged, mapVars, numVars, userID, inc, udpVars, inputs>>

\* A datagram that is not "RVC uid OK" arrives: RRQ EPD.
ReceiveRefusal(s) ==
  /\ pc[s] = "awaitRVC"
  /\ EndRequest(s)
  /\ UNCHANGED <<listVars, isLogged, mapVars, numVars, userID, inc, udpVars, inputs>>

ReceiveRVC(s) ==
  /\ pc[s] = "awaitRVC"
  /\ Goto(s, "putRids")
  /\ UNCHANGED <<listVars, isLogged, mapVars, mutex, numVars, req, userID, requestVars, udpVars, inputs>>

\* Mutant: the unused request stays in r2t.
PutRidsKeepR2t(s) ==
  LET u == req[s].uid
  IN /\ pc[s] = "putRids"
     /\ rids' = [rids EXCEPT ![u] = put(removeOldest(@), req[s].rid, newVC)]
     /\ tids' = [tids EXCEPT ![u] = removeOldest(@)]
     /\ Goto(s, "incVC")
     /\ UNCHANGED <<listVars, isLogged, r2t, mutex, numVars, req, userID, requestVars, udpVars, inputs>>

\* Mutant: the unused request is not deleted before the new one is put.
PutRidsKeepRids(s) ==
  LET u == req[s].uid
  IN /\ pc[s] = "putRids"
     /\ rids' = [rids EXCEPT ![u] = put(@, req[s].rid, newVC)]
     /\ tids' = [tids EXCEPT ![u] = removeOldest(@)]
     /\ Goto(s, "incVC")
     /\ UNCHANGED <<listVars, isLogged, r2t, mutex, numVars, req, userID, requestVars, udpVars, inputs>>

\* Mutant: the oldest TID stays.
PutRidsKeepTids(s) ==
  LET u == req[s].uid
      oldRid == Head(rids[u]).key
  IN /\ pc[s] = "putRids"
     /\ rids' = [rids EXCEPT ![u] = put(removeOldest(@), req[s].rid, newVC)]
     /\ r2t' = [r2t EXCEPT ![u] = IF rids[u] = newMap THEN @ ELSE removeElement(@, oldRid)]
     /\ Goto(s, "incVC")
     /\ UNCHANGED <<listVars, isLogged, tids, mutex, numVars, req, userID, requestVars, udpVars, inputs>>

\* The unused request and the oldest TID are deleted, and put(rids, rid, newVC)
\* reads newVC again.
PutRids(s) ==
  LET u == req[s].uid
      oldRid == Head(rids[u]).key
  IN /\ pc[s] = "putRids"
     /\ rids' = [rids EXCEPT ![u] = put(removeOldest(@), req[s].rid, newVC)]
     /\ r2t' = [r2t EXCEPT ![u] = IF rids[u] = newMap THEN @ ELSE removeElement(@, oldRid)]
     /\ tids' = [tids EXCEPT ![u] = removeOldest(@)]
     /\ Goto(s, "incVC")
     /\ UNCHANGED <<listVars, isLogged, mutex, numVars, req, userID, requestVars, udpVars, inputs>>

\* incrNumber(newVC), one access.
IncrVC(s) ==
  /\ pc[s] = "incVC"
  /\ newVC' = IncrNumberNum(newVC, inc[s])
  /\ inc' = [inc EXCEPT ![s] = IncrNumberLocals(newVC, @)]
  /\ IF IncrNumberReturns(inc[s]) THEN Goto(s, "putTids") ELSE UNCHANGED pc
  /\ UNCHANGED <<listVars, isLogged, mapVars, mutex, newTID, req, userID, vlc, tries, udpVars, inputs>>

PutTids(s) ==
  /\ pc[s] = "putTids"
  /\ tids' = [tids EXCEPT ![req[s].uid] = put(@, newTID, req[s].fop)]
  /\ Goto(s, "putR2t")
  /\ UNCHANGED <<listVars, isLogged, rids, r2t, mutex, numVars, req, userID, requestVars, udpVars, inputs>>

\* put(r2t, rid, newTID) reads newTID again.
PutR2t(s) ==
  /\ pc[s] = "putR2t"
  /\ r2t' = [r2t EXCEPT ![req[s].uid] = put(@, req[s].rid, newTID)]
  /\ Goto(s, "incTID")
  /\ UNCHANGED <<listVars, isLogged, tids, rids, mutex, numVars, req, userID, requestVars, udpVars, inputs>>

\* incrNumber(newTID), one access; the second call returns from
\* sendValidationCode.
IncrTID(s) ==
  /\ pc[s] \in {"incTID", "skipZero"}
  /\ newTID' = IncrNumberNum(newTID, inc[s])
  /\ inc' = [inc EXCEPT ![s] = IncrNumberLocals(newTID, @)]
  /\ IF ~IncrNumberReturns(inc[s]) THEN UNCHANGED <<mutex, vlc, tries, pc, req>>
     ELSE IF pc[s] = "incTID" THEN Goto(s, "checkTID") /\ UNCHANGED <<mutex, vlc, tries, req>>
     ELSE EndRequest(s)
  /\ UNCHANGED <<listVars, isLogged, mapVars, newVC, userID, udpVars, inputs>>

\* Mutant: the number 0000 is not skipped.
CheckTIDNoSkip(s) ==
  /\ pc[s] = "checkTID"
  /\ EndRequest(s)
  /\ UNCHANGED <<listVars, isLogged, mapVars, numVars, userID, inc, udpVars, inputs>>

\* strcmp(newTID, "0000") == 0: the number is incremented once more.
CheckTID(s) ==
  /\ pc[s] = "checkTID"
  /\ IF newTID = Zero THEN Goto(s, "skipZero") /\ UNCHANGED <<mutex, vlc, tries, req>>
     ELSE EndRequest(s)
  /\ UNCHANGED <<listVars, isLogged, mapVars, numVars, userID, inc, udpVars, inputs>>

----------------------------------------------------------------------------
\* The UDP thread

\* getUser() holds the read lock of the list while it waits for a mutex.
ReadLocked == udpPc = "lockUser" \/ \E s \in Sessions : pc[s] = "lockUser"

\* Mutant: the scan finds nothing.
PdRegisteredNever(d) == FALSE

\* The scan of REG: some user has this PDIP and PDport.
PdRegistered(d) == \E u \in known : pd[u] = d

\* A datagram is received.  A REG of an address in use is refused (RRG NOK).
UdpReceive ==
  /\ udpPc = "recv"
  /\ Input
  /\ \E m \in UdpMsg :
       /\ udpReq' = m
       /\ IF m.uid \in known THEN udpPc' = "lockUser" ELSE udpPc' = "addUser"
       /\ m.op = "REG" => ~PdRegistered(m.pd)
       /\ m.op # "REG" => m.uid \in known
  /\ UNCHANGED <<listVars, isLogged, mapVars, mutex, numVars, threadVars, requestVars>>

UdpAnswer == udpPc' = "recv" /\ udpReq' = None

\* Mutant: getUser() returns without waiting for the mutex.
UdpCanLockNoWait(op) == udpPc = "lockUser" /\ udpReq.op = op

UdpCanLock(op) ==
  /\ udpPc = "lockUser"
  /\ udpReq.op = op
  /\ mutex[udpReq.uid] = None

\* addUser() under the write lock: RRG OK.
AddUser ==
  LET u == udpReq.uid
  IN /\ udpPc = "addUser"
     /\ ~ReadLocked
     /\ known' = known \cup {u}
     /\ pw' = [pw EXCEPT ![u] = udpReq.pw]
     /\ pd' = [pd EXCEPT ![u] = udpReq.pd]
     /\ isOn' = [isOn EXCEPT ![u] = TRUE]
     /\ isLogged' = [isLogged EXCEPT ![u] = FALSE]
     /\ tids' = [tids EXCEPT ![u] = newMap]
     /\ rids' = [rids EXCEPT ![u] = newMap]
     /\ r2t' = [r2t EXCEPT ![u] = newMap]
     /\ UdpAnswer
     /\ UNCHANGED <<mutex, numVars, threadVars, requestVars, inputs>>

\* Mutant: a user that has a device gets another.
RegisterWhileOn ==
  LET u == udpReq.uid
      ok == udpReq.pw = pw[u]
  IN /\ UdpCanLock("REG")
     /\ pd' = [pd EXCEPT ![u] = IF ok THEN udpReq.pd ELSE @]
     /\ isOn' = [isOn EXCEPT ![u] = @ \/ ok]
     /\ UdpAnswer
     /\ UNCHANGED <<known, pw, isLogged, mapVars, mutex, numVars, threadVars, requestVars, inputs>>

\* REG of a user in the list: RRG OK when it was off and the password is right.
Register ==
  LET u == udpReq.uid
      ok == ~isOn[u] /\ udpReq.pw = pw[u]
  IN /\ UdpCanLock("REG")
     /\ pd' = [pd EXCEPT ![u] = IF ok THEN udpReq.pd ELSE @]
     /\ isOn' = [isOn EXCEPT ![u] = @ \/ ok]
     /\ UdpAnswer
     /\ UNCHANGED <<known, pw, isLogged, mapVars, mutex, numVars, threadVars, requestVars, inputs>>

\* UNR: RUN OK and the PD is forgotten, or an empty answer.
Unregister ==
  LET u == udpReq.uid
      ok == udpReq.pw = pw[u]
  IN /\ UdpCanLock("UNR")
     /\ pd' = [pd EXCEPT ![u] = IF ok THEN None ELSE @]
     /\ isOn' = [isOn EXCEPT ![u] = @ /\ ~ok]
     /\ UdpAnswer
     /\ UNCHANGED <<known, pw, isLogged, mapVars, mutex, numVars, threadVars, requestVars, inputs>>

\* Mutant: the confirmed TID is deleted instead of an older one.
ValidateOnce ==
  LET u == udpReq.uid
      tid == udpReq.tid
      ok == HasKey(tids[u], tid)
  IN /\ UdpCanLock("VLD")
     /\ isLogged' = [isLogged EXCEPT ![u] = @ /\ ~(ok /\ get(tids[u], tid) = RemoveOp)]
     /\ tids' = [tids EXCEPT ![u] = IF ok /\ Head(@).key = tid THEN removeOldest(@) ELSE @]
     /\ UdpAnswer
     /\ UNCHANGED <<listVars, rids, r2t, mutex, numVars, threadVars, requestVars, inputs>>

\* VLD: CNF with the operation of the TID, or CNF E.  Confirming X logs the
\* user out; a confirmed TID that is not the oldest deletes the oldest.
Validate ==
  LET u == udpReq.uid
      tid == udpReq.tid
      ok == HasKey(tids[u], tid)
  IN /\ UdpCanLock("VLD")
     /\ isLogged' = [isLogged EXCEPT ![u] = @ /\ ~(ok /\ get(tids[u], tid) = RemoveOp)]
     /\ tids' = [tids EXCEPT ![u] = IF ok /\ Head(@).key # tid THEN removeOldest(@) ELSE @]
     /\ UdpAnswer
     /\ UNCHANGED <<listVars, rids, r2t, mutex, numVars, threadVars, requestVars, inputs>>

----------------------------------------------------------------------------

Commit(s) == PutRids(s) \/ IncrVC(s) \/ PutTids(s) \/ PutR2t(s) \/ IncrTID(s) \/ CheckTID(s)

\* What a TCP thread does by itself: all but the arrival of a message, the end
\* of the connection and the PD's answer.
ThreadStep(s) ==
  \/ Disconnect(s) \/ Malformed(s) \/ Login(s) \/ Authenticate(s)
  \/ RefuseRequest(s) \/ SendVLC(s) \/ RetransmitVLC(s) \/ GiveUpVLC(s)
  \/ Commit(s)

Environment(s) ==
  Accept(s) \/ Receive(s) \/ ReceiveEof(s) \/ ReceiveError(s) \/ ReceiveRVC(s) \/ ReceiveRefusal(s)

UdpStep == AddUser \/ Register \/ Unregister \/ Validate

Next ==
  \/ \E s \in Sessions : ThreadStep(s) \/ Environment(s)
  \/ UdpReceive
  \/ UdpStep

Spec == Init /\ [][Next]_vars

\* The scheduler runs every thread that can move, and select() returns when
\* its timeout expires.  Nothing is assumed of clients or of the PD.
Fairness ==
  /\ \A s \in Sessions : WF_vars(ThreadStep(s))
  /\ WF_vars(UdpStep)

FairSpec == Spec /\ Fairness

----------------------------------------------------------------------------
\* Properties

\* Every variable holds what the C declarations and the callers put there;
\* the digits of a counter, a code or a TID are only known to be naturals.
TypeOK ==
  /\ known \subseteq Users
  /\ pw \in [Users -> Passwords \cup {None}]
  /\ pd \in [Users -> PDs \cup {None}]
  /\ isOn \in [Users -> BOOLEAN]
  /\ isLogged \in [Users -> BOOLEAN]
  /\ tids \in [Users -> MapOf(RacyNumber, Fops)]
  /\ rids \in [Users -> MapOf(Rids, RacyNumber)]
  /\ r2t \in [Users -> MapOf(Rids, RacyNumber)]
  /\ mutex \in [Users -> Sessions \cup {None}]
  /\ newVC \in RacyNumber
  /\ newTID \in RacyNumber
  /\ pc \in [Sessions -> Pcs]
  /\ req \in [Sessions -> UserMsg \cup EofMsg \cup {None}]
  /\ userID \in [Sessions -> Users \cup {None}]
  /\ vlc \in [Sessions -> RacyNumber \cup {None}]
  /\ tries \in [Sessions -> 0..MaxRetries]
  /\ inc \in [Sessions -> IncrLocals]
  /\ udpPc \in {"recv", "lockUser", "addUser"}
  /\ udpReq \in UdpMsg \cup {None}
  /\ inputs \in 0..MaxInputs

Holds(s, u) == pc[s] \in HoldingPcs /\ req[s].uid = u

\* A user's mutex belongs to the one thread that is inside
\* sendValidationCode for the user, and to nobody when there is none: every
\* way out of a REQ unlocks, none unlocks twice.
LockInv == \A u \in Users, s \in Sessions : mutex[u] = s <=> Holds(s, u)

\* The statements of the commit that are done when the mutex of u is free or
\* its holder still waits, or at the holder's next statement.
CommitOf(u) ==
  IF mutex[u] = None \/ pc[mutex[u]] \in {"awaitRVC", "putRids"} THEN "none"
  ELSE IF pc[mutex[u]] \in {"incVC", "putTids"} THEN "rids"
  ELSE IF pc[mutex[u]] = "putR2t" THEN "tids"
  ELSE "r2t"

UserInStep(u) ==
  /\ AtMostOne(rids[u]) /\ AtMostOne(r2t[u]) /\ AtMostOne(tids[u])
  /\ CommitOf(u) \in {"none", "r2t"} =>
       /\ rids[u] = newMap <=> r2t[u] = newMap
       /\ rids[u] # newMap => Head(rids[u]).key = Head(r2t[u]).key /\ tids[u] # newMap
  /\ CommitOf(u) \in {"rids", "tids"} => r2t[u] = newMap
  /\ CommitOf(u) = "rids" => tids[u] = newMap
  /\ CommitOf(u) \in {"tids", "r2t"} => tids[u] # newMap
  /\ CommitOf(u) # "none" => rids[u] # newMap /\ Head(rids[u]).key = req[mutex[u]].rid

\* The three maps of a user stay in step (sendValidationCode deletes and puts
\* in all of them, AUT in two): at most one request is pending, it has its TID
\* in r2t, and at most one TID is alive.  So AUT never prints a NULL TID, and
\* the branch of VLD that deletes an older TID is never taken.
MapsInStep == \A u \in Users : UserInStep(u)

\* What doRequest checked before it sent VLC is still true when the PD's
\* answer is committed, up to six seconds later: the user is logged in on this
\* connection and has its PD registered.
RequestStillValid ==
  \A s \in Sessions : pc[s] \in HoldingPcs =>
    /\ req[s].uid \in known
    /\ RequestValid(s)

\* A personal device is registered for one user at a time, and isOn says
\* whether a device is: VLC is never sent to nobody or to another user's PD.
OneUserPerPD ==
  /\ \A u \in Users : isOn[u] <=> pd[u] # None
  /\ \A u, v \in Users : pd[u] = pd[v] /\ isOn[u] => u = v

Registry == INSTANCE DeviceRegistry

\* With all handlers and locks, REG and UNR change the devices in the list as
\* they are to change them, and nothing else does.
ServesRegistry == Registry!Spec

\* The ticket and the pending request of a user.  A commit counts as done from
\* its first put on: nobody reads a map of the user before its last one, and
\* newTID is the number the remaining puts will store.
ticketOf(u) ==
  IF CommitOf(u) = "rids" THEN [tid |-> newTID, fop |-> req[mutex[u]].fop]
  ELSE IF tids[u] = newMap THEN None
  ELSE [tid |-> Head(tids[u]).key, fop |-> Head(tids[u]).value]

pendingOf(u) ==
  IF rids[u] = newMap THEN None
  ELSE [rid |-> Head(rids[u]).key, vc |-> Head(rids[u]).value,
        tid |-> IF CommitOf(u) \in {"rids", "tids"} THEN newTID ELSE Head(r2t[u]).value]

TicketService == INSTANCE Tickets WITH
  Codes <- Number,
  Tids <- Number \ {Zero},
  logged <- isLogged,
  ticket <- [u \in Users |-> ticketOf(u)],
  pending <- [u \in Users |-> pendingOf(u)]

\* None is no pending request.
ASSUME TicketAssumption == None \notin TicketService!Pending

\* With its maps, counters and commits of seven statements, the AS hands out
\* tickets as one step per message would: no request without a login, no TID
\* 0000, one TID in r2t and tids, and a VLD that spends nothing.
ServesTickets == TicketService!Spec

UserRecord(u) == <<pw[u], pd[u], isOn[u], isLogged[u], tids[u], rids[u], r2t[u]>>

\* Nobody but the thread that holds a user's mutex changes the user: no other
\* handler, no re-registration and no addUser overwrites it meanwhile.
LockProtects ==
  [][\A u \in Users :
       mutex[u] # None /\ pc'[mutex[u]] = pc[mutex[u]] => UserRecord(u)' = UserRecord(u)]_vars

\* Confirming a TID keeps it: FS repeats VLD when CNF is lost, and the second
\* VLD must get the answer of the first.
ConfirmKeepsTicket == [][udpPc' # udpPc => tids' = tids \/ AddUser]_vars

\* The code under which a request is stored is the code its PD was sent
\* ("Successful request - Check VC on PD", User.c:170).
CodeStored ==
  \A s \in Sessions : pc[s] \in CommitPcs \ {"putRids"} =>
    get(rids[req[s].uid], req[s].rid) = vlc[s]

\* The TID that AUT will answer is one that VLD will confirm ("maps a rid with
\* a tid", AS.c:18, and "maps a tid with a fop", AS.c:16).
TicketKnown ==
  \A u \in Users : \A i \in DOMAIN r2t[u] : HasKey(tids[u], r2t[u][i].value)

\* No request gets TID 0000, which tells the user it failed (AS.c:512).
NoZeroTid == \A u \in Users : \A i \in DOMAIN r2t[u] : r2t[u][i].value # Zero

\* b is the number after a: the digits behind some d are the highest ones and
\* become 0, d is one higher; 0...0 comes after the highest number.
IsSuccessor(a, b) ==
  \E d \in 0..Digits :
    /\ \A i \in 1..Digits : i > d => a[i] = Base - 1 /\ b[i] = 0
    /\ \A i \in 1..Digits : i < d => b[i] = a[i]
    /\ d > 0 => a[d] < Base - 1 /\ b[d] = a[d] + 1

\* A commit uses up one code and one TID: incrNumber, a digit at a time and with
\* carries, moves each counter from the number that was stored to the next one.
CountersAdvance ==
  \A s \in Sessions :
    /\ pc[s] \in CommitPcs \ {"putRids", "incVC"} =>
         IsSuccessor(Head(rids[req[s].uid]).value, newVC)
    /\ pc[s] \in {"checkTID", "skipZero"} =>
         IsSuccessor(Head(r2t[req[s].uid]).value, newTID)

\* A thread that took a message comes back for the next one: no handler is
\* stuck behind a mutex that is never released or in the wait for the PD.
EveryRequestAnswered ==
  \A s \in Sessions : pc[s] \notin {"recv", "closed"} ~> pc[s] \in {"recv", "closed"}

\* So does the UDP thread, which a pending REQ and the readers of the list may
\* hold up.
EveryDatagramAnswered == udpPc # "recv" ~> udpPc = "recv"
=============================================================================
