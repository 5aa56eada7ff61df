------------------------- MODULE AuthServerProofs -------------------------
(***************************************************************************)
(* Safety of the authentication server for any number of users,             *)
(* connections, requests and messages, and any width of the counters.       *)
(* TypeInv is inductive by itself; with it, so is SafetyInv.                *)
(***************************************************************************)
EXTENDS AuthServer, StringMapProofs

\* The message that a thread serves has the type its place in the code needs,
\* and names a user of the list.
ReqInv ==
  \A s \in Sessions :
    /\ pc[s] = "lockUser" => req[s] \in UserMsg \cup EofMsg /\ req[s].uid \in known
    /\ pc[s] \in HoldingPcs =>
         /\ req[s] \in ReqMsg
         /\ req[s].uid \in known
         /\ req[s].fop \in Fops

\* The same for the UDP thread; a user is new until the thread adds it, and the
\* address of a REG stays free after the scan.
UdpInv ==
  /\ udpPc = "lockUser" => udpReq \in UdpMsg /\ udpReq.uid \in known
  /\ udpPc = "addUser" => udpReq \in RegMsg /\ udpReq.uid \notin known
  /\ udpPc # "recv" /\ udpReq.op = "REG" => ~PdRegistered(udpReq.pd)

TypeInv == TypeOK /\ ReqInv /\ UdpInv

\* incrNumber's accesses keep the array and the locals well typed, whatever
\* another thread wrote in between.
LEMMA IncrNumberType ==
  ASSUME NEW num \in RacyNumber, NEW l \in IncrLocals
  PROVE  IncrNumberNum(num, l) \in RacyNumber /\ IncrNumberLocals(num, l) \in IncrLocals
<1>1. Digits \in 1..Digits
  BY ConstantsAssumption
<1>2. StartIncr \in IncrLocals
  BY <1>1 DEF StartIncr, IncrLocals
<1>3. l.digit \in 1..Digits /\ l.val \in Nat
  BY DEF IncrLocals
<1>4. num[l.digit] \in Nat
  BY <1>3 DEF RacyNumber
<1>5. IncrNumberNum(num, l) \in RacyNumber
  BY <1>3 DEF IncrNumberNum, RacyNumber
<1>6. IncrNumberLocals(num, l) \in IncrLocals
  <2>1. CASE l.step = "test"
    BY <1>3, <2>1 DEF IncrNumberLocals, IncrLocals
  <2>2. CASE l.step = "load"
    BY <1>3, <1>4, <2>2 DEF IncrNumberLocals, IncrLocals
  <2>3. CASE l.step = "zero" /\ l.digit > 1
    <3>1. l.digit - 1 \in 1..Digits
      BY <1>3, <2>3, ConstantsAssumption
    <3> QED
      BY <1>2, <2>3, <3>1 DEF IncrNumberLocals, IncrLocals, StartIncr
  <2>4. CASE l.step \notin {"test", "load"} /\ ~(l.step = "zero" /\ l.digit > 1)
    BY <1>2, <2>4 DEF IncrNumberLocals
  <2> QED
    BY <2>1, <2>2, <2>3, <2>4
<1> QED
  BY <1>5, <1>6

\* processCommands starts with empty tables and with TID 0001.
LEMMA InitTypeInv == Init => TypeInv
<1> SUFFICES ASSUME Init
             PROVE  TypeInv
  OBVIOUS
<1>1. Zero \in RacyNumber /\ [Zero EXCEPT ![Digits] = 1] \in RacyNumber
  BY ConstantsAssumption DEF Zero, RacyNumber
<1>2. StartIncr \in IncrLocals
  BY ConstantsAssumption DEF StartIncr, IncrLocals
<1>3. newMap \in MapOf(RacyNumber, Fops) /\ newMap \in MapOf(Rids, RacyNumber)
  BY DEF newMap, MapOf
<1>4. TypeOK
  BY <1>1, <1>2, <1>3, ConstantsAssumption DEF TypeOK, Init, Pcs
<1>5. ReqInv /\ UdpInv
  BY DEF ReqInv, UdpInv, Init, HoldingPcs, CommitPcs
<1> QED
  BY <1>4, <1>5 DEF TypeInv

\* The bound on messages.
LEMMA InputType ==
  ASSUME inputs \in 0..MaxInputs, Input
  PROVE  inputs' \in 0..MaxInputs
BY ConstantsAssumption DEF Input

\* A locked REQ message is a ReqMsg.
LEMMA LockedReq ==
  ASSUME NEW m \in UserMsg \cup EofMsg, m.op = "REQ"
  PROVE  m \in ReqMsg
BY DEF UserMsg, LogMsg, ReqMsg, AutMsg, BadMsg, EofMsg

\* The messages that a thread leaves in req.
LEMMA MessageTypes ==
  ASSUME NEW u \in Users
  PROVE  [op |-> "EOF", uid |-> u] \in EofMsg
BY DEF EofMsg

\* The end of a REQ, from wherever in it.
LEMMA EndRequestType ==
  ASSUME TypeInv, NEW s \in Sessions, pc[s] \in HoldingPcs, EndRequest(s)
  PROVE  /\ mutex' \in [Users -> Sessions \cup {None}]
         /\ vlc' \in [Sessions -> RacyNumber \cup {None}]
         /\ tries' \in [Sessions -> 0..MaxRetries]
         /\ pc' \in [Sessions -> Pcs]
         /\ req' \in [Sessions -> UserMsg \cup EofMsg \cup {None}]
         /\ pc'[s] = "recv"
         /\ \A t \in Sessions : t # s => pc'[t] = pc[t] /\ req'[t] = req[t]
<1>1. req[s].uid \in Users
  BY DEF TypeInv, TypeOK, ReqInv
<1>2. 0 \in 0..MaxRetries
  BY ConstantsAssumption
<1> QED
  BY <1>1, <1>2 DEF TypeInv, TypeOK, EndRequest, Answer, Pcs

\* Every step of a TCP thread keeps the types of the state and of the messages
\* being served.
LEMMA TcpTypeStep ==
  ASSUME TypeInv, NEW s \in Sessions, ThreadStep(s) \/ Environment(s)
  PROVE  TypeOK' /\ ReqInv'
<1> USE DEF TypeInv, TypeOK, ReqInv, listVars, mapVars, numVars, requestVars, threadVars, udpVars,
            Goto, Answer, CanLock, Pcs, HoldingPcs, CommitPcs
<1>1. CASE Disconnect(s)
  <2>8. TypeOK'
    BY <1>1 DEF Disconnect
  <2>9. ReqInv'
    BY <1>1 DEF Disconnect
  <2> QED
    BY <2>8, <2>9
<1>2. CASE Malformed(s)
  <2>8. TypeOK'
    BY <1>2 DEF Malformed
  <2>9. ReqInv'
    BY <1>2 DEF Malformed
  <2> QED
    BY <2>8, <2>9
<1>3. CASE Login(s)
  <2>8. TypeOK'
    BY <1>3 DEF Login
  <2>9. ReqInv'
    BY <1>3 DEF Login
  <2> QED
    BY <2>8, <2>9
<1>4. CASE Authenticate(s)
  <2>0. req[s].uid \in Users
    BY <1>4 DEF Authenticate
  <2>1. /\ removeElement(rids[req[s].uid], req[s].rid) \in MapOf(Rids, RacyNumber)
        /\ removeElement(r2t[req[s].uid], req[s].rid) \in MapOf(Rids, RacyNumber)
    BY <2>0, RemoveType
  <2>8. TypeOK'
    BY <1>4, <2>0, <2>1 DEF Authenticate
  <2>9. ReqInv'
    BY <1>4 DEF Authenticate
  <2> QED
    BY <2>8, <2>9
<1>5. CASE RefuseRequest(s)
  <2>8. TypeOK'
    BY <1>5 DEF RefuseRequest
  <2>9. ReqInv'
    BY <1>5 DEF RefuseRequest
  <2> QED
    BY <2>8, <2>9
<1>6. CASE SendVLC(s)
  <2>0. req[s] \in UserMsg \cup EofMsg /\ req[s].op = "REQ" /\ req[s].fop \in Fops
    BY <1>6 DEF SendVLC, RequestValid
  <2>1. req[s] \in ReqMsg
    BY <2>0, LockedReq
  <2>2. 0 \in 0..MaxRetries
    BY ConstantsAssumption
  <2>8. TypeOK'
    BY <1>6, <2>2 DEF SendVLC
  <2>9. ReqInv'
    BY <1>6, <2>0, <2>1 DEF SendVLC
  <2> QED
    BY <2>8, <2>9
<1>7. CASE RetransmitVLC(s)
  <2>1. tries[s] + 1 \in 0..MaxRetries
    BY <1>7, ConstantsAssumption DEF RetransmitVLC
  <2>8. TypeOK'
    BY <1>7, <2>1 DEF RetransmitVLC
  <2>9. ReqInv'
    BY <1>7 DEF RetransmitVLC
  <2> QED
    BY <2>8, <2>9
<1>8. CASE GiveUpVLC(s)
  <2>1. pc[s] \in HoldingPcs /\ EndRequest(s)
    BY <1>8 DEF GiveUpVLC
  <2>8. TypeOK'
    BY <1>8, <2>1, EndRequestType DEF GiveUpVLC
  <2>9. ReqInv'
    BY <1>8, <2>1, EndRequestType DEF GiveUpVLC
  <2> QED
    BY <2>8, <2>9
<1>9. CASE PutRids(s)
  <2>0. req[s].uid \in Users /\ req[s].rid \in Rids
    BY <1>9 DEF PutRids, ReqMsg
  <2> DEFINE u == req[s].uid
  <2>1. removeOldest(rids[u]) \in MapOf(Rids, RacyNumber) /\ removeOldest(tids[u]) \in MapOf(RacyNumber, Fops)
    BY <2>0, RemoveOldestType
  <2>2. put(removeOldest(rids[u]), req[s].rid, newVC) \in MapOf(Rids, RacyNumber)
    BY <2>0, <2>1, PutType
  <2>3. removeElement(r2t[u], Head(rids[u]).key) \in MapOf(Rids, RacyNumber)
    BY <2>0, RemoveType
  <2>8. TypeOK'
    BY <1>9, <2>0, <2>1, <2>2, <2>3 DEF PutRids
  <2>9. ReqInv'
    BY <1>9, <2>0 DEF PutRids
  <2> QED
    BY <2>8, <2>9
<1>10. CASE IncrVC(s)
  <2>1. /\ IncrNumberNum(newVC, inc[s]) \in RacyNumber
        /\ IncrNumberLocals(newVC, inc[s]) \in IncrLocals
    BY IncrNumberType
  <2>8. TypeOK'
    BY <1>10, <2>1 DEF IncrVC
  <2>9. ReqInv'
    BY <1>10 DEF IncrVC
  <2> QED
    BY <2>8, <2>9
<1>11. CASE PutTids(s)
  <2>0. req[s].uid \in Users /\ req[s].fop \in Fops
    BY <1>11 DEF PutTids
  <2>1. put(tids[req[s].uid], newTID, req[s].fop) \in MapOf(RacyNumber, Fops)
    BY <2>0, PutType
  <2>8. TypeOK'
    BY <1>11, <2>0, <2>1 DEF PutTids
  <2>9. ReqInv'
    BY <1>11, <2>0 DEF PutTids
  <2> QED
    BY <2>8, <2>9
<1>12. CASE PutR2t(s)
  <2>0. req[s].uid \in Users /\ req[s].rid \in Rids
    BY <1>12 DEF PutR2t, ReqMsg
  <2>1. put(r2t[req[s].uid], req[s].rid, newTID) \in MapOf(Rids, RacyNumber)
    BY <2>0, PutType
  <2>8. TypeOK'
    BY <1>12, <2>0, <2>1 DEF PutR2t
  <2>9. ReqInv'
    BY <1>12, <2>0 DEF PutR2t
  <2> QED
    BY <2>8, <2>9
<1>13. CASE IncrTID(s)
  <2>0. pc[s] \in HoldingPcs
    BY <1>13 DEF IncrTID
  <2>1. /\ IncrNumberNum(newTID, inc[s]) \in RacyNumber
        /\ IncrNumberLocals(newTID, inc[s]) \in IncrLocals
    BY IncrNumberType
  <2>8. TypeOK'
    BY <1>13, <2>0, <2>1, EndRequestType DEF IncrTID
  <2>9. ReqInv'
    BY <1>13, <2>0, EndRequestType DEF IncrTID
  <2> QED
    BY <2>8, <2>9
<1>14. CASE CheckTID(s)
  <2>0. pc[s] \in HoldingPcs
    BY <1>14 DEF CheckTID
  <2>8. TypeOK'
    BY <1>14, <2>0, EndRequestType DEF CheckTID
  <2>9. ReqInv'
    BY <1>14, <2>0, EndRequestType DEF CheckTID
  <2> QED
    BY <2>8, <2>9
<1>15. CASE Accept(s)
  <2>1. inputs' \in 0..MaxInputs
    BY <1>15, InputType DEF Accept
  <2>8. TypeOK'
    BY <1>15, <2>1 DEF Accept
  <2>9. ReqInv'
    BY <1>15 DEF Accept
  <2> QED
    BY <2>8, <2>9
<1>16. CASE Receive(s)
  <2>1. inputs' \in 0..MaxInputs
    BY <1>16, InputType DEF Receive
  <2>8. TypeOK'
    BY <1>16, <2>1 DEF Receive
  <2>9. ReqInv'
    BY <1>16 DEF Receive
  <2> QED
    BY <2>8, <2>9
<1>17. CASE ReceiveEof(s)
  <2>1. userID[s] \in known => [op |-> "EOF", uid |-> userID[s]] \in EofMsg
    BY MessageTypes
  <2>8. TypeOK'
    BY <1>17, <2>1 DEF ReceiveEof
  <2>9. ReqInv'
    BY <1>17, <2>1 DEF ReceiveEof
  <2> QED
    BY <2>8, <2>9
<1>18. CASE ReceiveError(s)
  <2>8. TypeOK'
    BY <1>18 DEF ReceiveError
  <2>9. ReqInv'
    BY <1>18 DEF ReceiveError
  <2> QED
    BY <2>8, <2>9
<1>19. CASE ReceiveRVC(s)
  <2>8. TypeOK'
    BY <1>19 DEF ReceiveRVC
  <2>9. ReqInv'
    BY <1>19 DEF ReceiveRVC
  <2> QED
    BY <2>8, <2>9
<1>20. CASE ReceiveRefusal(s)
  <2>0. pc[s] \in HoldingPcs /\ EndRequest(s)
    BY <1>20 DEF ReceiveRefusal
  <2>8. TypeOK'
    BY <1>20, <2>0, EndRequestType DEF ReceiveRefusal
  <2>9. ReqInv'
    BY <1>20, <2>0, EndRequestType DEF ReceiveRefusal
  <2> QED
    BY <2>8, <2>9
<1> QED
  BY <1>1, <1>2, <1>3, <1>4, <1>5, <1>6, <1>7, <1>8, <1>9, <1>10, <1>11, <1>12, <1>13, <1>14, <1>15, <1>16, <1>17, <1>18, <1>19, <1>20 DEF ThreadStep, Environment, Commit

\* No TCP thread touches what the UDP thread relies on: the list, the addresses
\* in it and the datagram.
LEMMA TcpKeepsUdpInv ==
  ASSUME UdpInv, NEW s \in Sessions, ThreadStep(s) \/ Environment(s)
  PROVE  UdpInv' /\ UNCHANGED <<listVars, udpVars>>
<1>1. UNCHANGED <<listVars, udpVars>>
  BY DEF ThreadStep, Environment, Commit, Disconnect, Malformed, Login, Authenticate, RefuseRequest,
         SendVLC, RetransmitVLC, GiveUpVLC, PutRids, IncrVC, PutTids, PutR2t, IncrTID, CheckTID,
         Accept, Receive, ReceiveEof, ReceiveError, ReceiveRVC, ReceiveRefusal
<1> QED
  BY <1>1 DEF UdpInv, PdRegistered, listVars, udpVars

\* The datagrams, told apart by their first word.
LEMMA DatagramTypes ==
  ASSUME NEW m \in UdpMsg
  PROVE  /\ m.uid \in Users
         /\ m.op = "REG" => m \in RegMsg
         /\ m.op # "REG" => m.op \in {"UNR", "VLD"}
BY DEF UdpMsg, RegMsg, UnrMsg, VldMsg

\* Every step of the UDP thread keeps the types, and the facts it established
\* when the datagram arrived.
LEMMA UdpTypeStep ==
  ASSUME TypeInv, UdpReceive \/ UdpStep
  PROVE  TypeInv'
<1> USE DEF TypeInv, TypeOK, ReqInv, UdpInv, PdRegistered,
            listVars, mapVars, numVars, requestVars, threadVars, udpVars, UdpAnswer, UdpCanLock
<1>1. CASE UdpReceive
  <2>1. inputs' \in 0..MaxInputs
    BY <1>1, InputType DEF UdpReceive
  <2>2. PICK m \in UdpMsg :
          /\ udpReq' = m
          /\ udpPc' = IF m.uid \in known THEN "lockUser" ELSE "addUser"
          /\ m.op = "REG" => ~PdRegistered(m.pd)
          /\ m.op # "REG" => m.uid \in known
    BY <1>1 DEF UdpReceive
  <2>3. TypeOK'
    BY <1>1, <2>1, <2>2 DEF UdpReceive
  <2>4. ReqInv'
    BY <1>1 DEF UdpReceive
  <2>5. UdpInv'
    BY <1>1, <2>2, DatagramTypes DEF UdpReceive
  <2> QED
    BY <2>3, <2>4, <2>5
<1>2. CASE AddUser
  <2>1. udpReq.uid \in Users /\ udpReq.pw \in Passwords /\ udpReq.pd \in PDs
    BY <1>2 DEF AddUser, RegMsg
  <2>2. newMap \in MapOf(RacyNumber, Fops) /\ newMap \in MapOf(Rids, RacyNumber)
    BY DEF newMap, MapOf
  <2>3. TypeOK'
    BY <1>2, <2>1, <2>2 DEF AddUser
  <2>4. ReqInv' /\ UdpInv'
    BY <1>2 DEF AddUser
  <2> QED
    BY <2>3, <2>4
<1>3. CASE Register
  <2>1. udpReq.uid \in Users /\ udpReq.pd \in PDs
    BY <1>3, DatagramTypes DEF Register, RegMsg
  <2>2. TypeOK'
    BY <1>3, <2>1 DEF Register
  <2>3. ReqInv' /\ UdpInv'
    BY <1>3 DEF Register
  <2> QED
    BY <2>2, <2>3
<1>4. CASE Unregister
  <2>1. TypeOK'
    BY <1>4 DEF Unregister
  <2>2. ReqInv' /\ UdpInv'
    BY <1>4 DEF Unregister
  <2> QED
    BY <2>1, <2>2
<1>5. CASE Validate
  <2>1. removeOldest(tids[udpReq.uid]) \in MapOf(RacyNumber, Fops)
    BY <1>5, RemoveOldestType DEF Validate
  <2>2. TypeOK'
    BY <1>5, <2>1 DEF Validate
  <2>3. ReqInv' /\ UdpInv'
    BY <1>5 DEF Validate
  <2> QED
    BY <2>2, <2>3
<1> QED
  BY <1>1, <1>2, <1>3, <1>4, <1>5 DEF UdpStep

\* Nothing changes.
LEMMA StutterTypeInv ==
  ASSUME TypeInv, UNCHANGED vars
  PROVE  TypeInv'
BY DEF TypeInv, TypeOK, ReqInv, UdpInv, PdRegistered, vars,
       listVars, mapVars, numVars, requestVars, threadVars, udpVars

\* The type invariant is inductive.
LEMMA NextTypeInv == TypeInv /\ [Next]_vars => TypeInv'
<1> SUFFICES ASSUME TypeInv, [Next]_vars
             PROVE  TypeInv'
  OBVIOUS
<1>1. ASSUME NEW s \in Sessions, ThreadStep(s) \/ Environment(s)
      PROVE  TypeInv'
  BY <1>1, TcpTypeStep, TcpKeepsUdpInv DEF TypeInv
<1>2. CASE UdpReceive \/ UdpStep
  BY <1>2, UdpTypeStep
<1>3. CASE UNCHANGED vars
  BY <1>3, StutterTypeInv
<1> QED
  BY <1>1, <1>2, <1>3 DEF Next

\* The state and the messages being served are always well typed: every field
\* that a handler reads is there.
THEOREM TypeCorrect == Spec => []TypeInv
<1>1. Init => TypeInv
  BY InitTypeInv
<1>2. TypeInv /\ [Next]_vars => TypeInv'
  BY NextTypeInv
<1> QED
  BY <1>1, <1>2, PTL DEF Spec

\* TypeOK holds in every reachable state.
THEOREM TypeCorrectness == Spec => []TypeOK
<1>1. TypeInv => TypeOK
  BY DEF TypeInv
<1> QED
  BY <1>1, TypeCorrect, PTL

----------------------------------------------------------------------------
\* Locks

USE ConstantsAssumption

\* What a step of one thread leaves alone: the place and the message of all
\* the others, and of itself between the statements of the commit.
LEMMA ThreadFrame ==
  ASSUME TypeInv, NEW s \in Sessions, ThreadStep(s) \/ Environment(s),
         NEW t \in Sessions, t # s
  PROVE  pc'[t] = pc[t] /\ req'[t] = req[t] /\ userID'[t] = userID[t]
<1> USE DEF TypeInv, TypeOK, Goto, Answer, EndRequest, threadVars
<1>1. CASE ThreadStep(s)
  BY <1>1 DEF ThreadStep, Commit, Disconnect, Malformed, Login, Authenticate, RefuseRequest,
     SendVLC, RetransmitVLC, GiveUpVLC, PutRids, IncrVC, PutTids, PutR2t, IncrTID, CheckTID
<1>2. CASE Environment(s)
  BY <1>2 DEF Environment, Accept, Receive, ReceiveEof, ReceiveError, ReceiveRVC, ReceiveRefusal
<1> QED
  BY <1>1, <1>2

\* A thread that holds a mutex and goes on keeps it, with the same message.
KeepsLock(s) ==
  /\ pc[s] \in HoldingPcs /\ pc'[s] \in HoldingPcs
  /\ UNCHANGED <<mutex, req, userID>>

\* It releases the mutex at the end of REQ.
Releases(s) == pc[s] \in HoldingPcs /\ EndRequest(s) /\ UNCHANGED userID

\* It holds none, before and after.
HoldsNothing(s) == pc[s] \notin HoldingPcs /\ pc'[s] \notin HoldingPcs /\ UNCHANGED mutex

\* The four kinds of step with respect to the mutexes.
LEMMA LockKinds ==
  ASSUME TypeInv, NEW s \in Sessions, ThreadStep(s) \/ Environment(s)
  PROVE  HoldsNothing(s) \/ SendVLC(s) \/ KeepsLock(s) \/ Releases(s)
<1> USE DEF TypeInv, TypeOK, Goto, Answer, CanLock, threadVars, HoldingPcs, CommitPcs
<1>1. CASE Disconnect(s) \/ Malformed(s) \/ Login(s) \/ Authenticate(s) \/ RefuseRequest(s)
  BY <1>1 DEF Disconnect, Malformed, Login, Authenticate, RefuseRequest, HoldsNothing
<1>2. CASE SendVLC(s)
  BY <1>2
<1>3. CASE RetransmitVLC(s) \/ ReceiveRVC(s) \/ PutRids(s) \/ IncrVC(s) \/ PutTids(s) \/ PutR2t(s)
  BY <1>3 DEF RetransmitVLC, ReceiveRVC, PutRids, IncrVC, PutTids, PutR2t, KeepsLock
<1>4. CASE GiveUpVLC(s) \/ ReceiveRefusal(s)
  BY <1>4 DEF GiveUpVLC, ReceiveRefusal, Releases
<1>5. CASE IncrTID(s)
  BY <1>5 DEF IncrTID, KeepsLock, Releases
<1>6. CASE CheckTID(s)
  BY <1>6 DEF CheckTID, KeepsLock, Releases
<1>7. CASE Accept(s) \/ Receive(s) \/ ReceiveEof(s) \/ ReceiveError(s)
  BY <1>7 DEF Accept, Receive, ReceiveEof, ReceiveError, HoldsNothing
<1> QED
  BY <1>1, <1>2, <1>3, <1>4, <1>5, <1>6, <1>7 DEF ThreadStep, Environment, Commit

\* Every statement of a TCP thread keeps mutexes and places in step: SendVLC
\* locks, the ends of a REQ unlock, the rest does neither.
LEMMA LockStep ==
  ASSUME TypeInv, LockInv, NEW s \in Sessions, ThreadStep(s) \/ Environment(s)
  PROVE  LockInv'
<1> USE DEF TypeInv, TypeOK, LockInv, Holds
<1>1. CASE HoldsNothing(s)
  BY <1>1, ThreadFrame DEF HoldsNothing
<1>2. CASE SendVLC(s)
  BY <1>2, ThreadFrame DEF SendVLC, CanLock, Goto, HoldingPcs, CommitPcs
<1>3. CASE KeepsLock(s)
  BY <1>3, ThreadFrame DEF KeepsLock
<1>4. CASE Releases(s)
  BY <1>4, ThreadFrame DEF Releases, EndRequest, Answer, HoldingPcs, CommitPcs, ReqInv
<1> QED
  BY <1>1, <1>2, <1>3, <1>4, LockKinds

\* The mutex of a user is free when the UDP thread gets it, and nobody holds
\* the mutex of a user that is not in the list.
LEMMA UdpLockStep ==
  ASSUME TypeInv, LockInv, UdpReceive \/ UdpStep
  PROVE  LockInv' /\ UNCHANGED <<mutex, threadVars>>
<1>1. UNCHANGED <<mutex, threadVars>>
  BY DEF UdpReceive, UdpStep, AddUser, Register, Unregister, Validate
<1> QED
  BY <1>1 DEF LockInv, Holds, threadVars

\* The holder of a mutex is the thread that sent VLC for the user, and the user
\* is in the list.
LEMMA HolderKnown ==
  ASSUME TypeInv, LockInv, NEW u \in Users, mutex[u] # None
  PROVE  mutex[u] \in Sessions /\ Holds(mutex[u], u) /\ u \in known
<1>1. mutex[u] \in Sessions
  BY DEF TypeInv, TypeOK
<1>2. Holds(mutex[u], u)
  BY <1>1 DEF LockInv
<1> QED
  BY <1>1, <1>2 DEF TypeInv, ReqInv, Holds

----------------------------------------------------------------------------
\* Users and their devices

\* A user outside the list has no device.
FreshInv == \A u \in Users : u \notin known => pd[u] = None /\ ~isOn[u]

DeviceInv == OneUserPerPD /\ FreshInv

\* REG scans for the address before it stores it, and the UDP thread is alone in
\* storing addresses; UNR clears them.
LEMMA DeviceStep ==
  ASSUME TypeInv, DeviceInv, UdpReceive \/ UdpStep
  PROVE  DeviceInv'
<1> USE DEF DeviceInv, OneUserPerPD, FreshInv, TypeInv, TypeOK, UdpInv, PdRegistered, UdpCanLock
<1>1. CASE UdpReceive \/ Validate
  BY <1>1 DEF UdpReceive, Validate, listVars
<1>2. CASE AddUser
  <2>1. udpReq.uid \in Users /\ udpReq.pd \in PDs /\ udpReq.op = "REG"
    BY <1>2 DEF AddUser, RegMsg
  <2>2. udpReq.pd # None
    BY <2>1
  <2>3. \A u \in Users : pd[u] # udpReq.pd
    BY <1>2, <2>1, <2>2 DEF AddUser
  <2> QED
    BY <1>2, <2>1, <2>2, <2>3 DEF AddUser
<1>3. CASE Register
  <2>1. udpReq.uid \in Users /\ udpReq.pd \in PDs /\ udpReq.op = "REG"
    BY <1>3, DatagramTypes DEF Register, RegMsg
  <2>2. udpReq.pd # None
    BY <2>1
  <2>3. \A u \in Users : pd[u] # udpReq.pd
    BY <1>3, <2>1, <2>2 DEF Register
  <2> DEFINE ok == ~isOn[udpReq.uid] /\ udpReq.pw = pw[udpReq.uid]
  <2>4. CASE ok
    <3>1. /\ pd' = [pd EXCEPT ![udpReq.uid] = udpReq.pd]
          /\ isOn' = [isOn EXCEPT ![udpReq.uid] = TRUE]
          /\ known' = known /\ udpReq.uid \in known
      BY <1>3, <2>4 DEF Register
    <3> QED
      BY <2>1, <2>2, <2>3, <3>1
  <2>5. CASE ~ok
    <3>1. pd' = pd /\ isOn' = isOn /\ known' = known
      BY <1>3, <2>1, <2>5 DEF Register
    <3> QED
      BY <3>1
  <2> QED
    BY <2>4, <2>5
<1>4. CASE Unregister
  <2>1. udpReq.uid \in Users
    BY <1>4 DEF Unregister
  <2> DEFINE ok == udpReq.pw = pw[udpReq.uid]
  <2>2. CASE ok
    <3>1. /\ pd' = [pd EXCEPT ![udpReq.uid] = None]
          /\ isOn' = [isOn EXCEPT ![udpReq.uid] = FALSE]
          /\ known' = known
      BY <1>4, <2>2 DEF Unregister
    <3> QED
      BY <2>1, <3>1
  <2>3. CASE ~ok
    <3>1. pd' = pd /\ isOn' = isOn /\ known' = known
      BY <1>4, <2>1, <2>3 DEF Unregister
    <3> QED
      BY <3>1
  <2> QED
    BY <2>2, <2>3
<1> QED
  BY <1>1, <1>2, <1>3, <1>4 DEF UdpStep

----------------------------------------------------------------------------
\* What doRequest checked

\* Another TCP thread cannot log the user out or take the mutex while a REQ
\* waits, and the thread itself leaves its message alone.
LEMMA ValidTcpStep ==
  ASSUME TypeInv, LockInv, RequestStillValid, NEW s \in Sessions, ThreadStep(s) \/ Environment(s)
  PROVE  RequestStillValid'
<1> SUFFICES ASSUME NEW t \in Sessions, pc'[t] \in HoldingPcs
             PROVE  req'[t].uid \in known' /\ RequestValid(t)'
  BY DEF RequestStillValid
<1>0. UNCHANGED listVars
  BY TcpKeepsUdpInv DEF TypeInv
<1>1. CASE SendVLC(s) /\ t = s
  BY <1>1 DEF SendVLC, CanLock, RequestValid, TypeInv, ReqInv, listVars
<1>2. CASE ~(SendVLC(s) /\ t = s)
  <2>1. pc[t] \in HoldingPcs /\ req'[t] = req[t] /\ userID'[t] = userID[t]
    BY <1>2, ThreadFrame, LockKinds DEF KeepsLock, Releases, HoldsNothing, EndRequest, Answer,
       HoldingPcs, CommitPcs, TypeInv, TypeOK
  <2>2. /\ req[t].uid \in known /\ req[t].uid \in Users
        /\ mutex[req[t].uid] = t
        /\ RequestValid(t)
    BY <2>1 DEF RequestStillValid, LockInv, Holds, TypeInv, TypeOK, ReqInv
  <2>3. isLogged'[req[t].uid]
    <3>1. CASE Disconnect(s)
      BY <2>2, <3>1 DEF Disconnect, CanLock, TypeInv, TypeOK, RequestValid
    <3>2. CASE Login(s)
      BY <2>2, <3>2 DEF Login, CanLock, TypeInv, TypeOK, ReqInv, RequestValid
    <3>3. CASE ~Disconnect(s) /\ ~Login(s)
      <4>1. isLogged' = isLogged
        BY <3>3 DEF ThreadStep, Environment, Commit, Malformed, Authenticate, RefuseRequest,
           SendVLC, RetransmitVLC, GiveUpVLC, PutRids, IncrVC, PutTids, PutR2t, IncrTID, CheckTID,
           Accept, Receive, ReceiveEof, ReceiveError, ReceiveRVC, ReceiveRefusal
      <4> QED
        BY <2>2, <4>1 DEF RequestValid
    <3> QED
      BY <3>1, <3>2, <3>3
  <2> QED
    BY <1>0, <2>1, <2>2, <2>3 DEF RequestValid, listVars
<1> QED
  BY <1>1, <1>2

\* Nor can UNR or a confirmed X, which wait for the mutex.
LEMMA ValidUdpStep ==
  ASSUME TypeInv, LockInv, RequestStillValid, UdpReceive \/ UdpStep
  PROVE  RequestStillValid'
<1> SUFFICES ASSUME NEW t \in Sessions, pc[t] \in HoldingPcs
             PROVE  req[t].uid \in known' /\ RequestValid(t)'
  BY UdpLockStep DEF RequestStillValid, threadVars
<1>1. /\ req[t].uid \in known /\ req[t].uid \in Users
      /\ mutex[req[t].uid] = t
      /\ RequestValid(t)
  BY DEF RequestStillValid, LockInv, Holds, TypeInv, TypeOK, ReqInv
<1>2. req' = req /\ userID' = userID
  BY UdpLockStep DEF threadVars
<1> USE DEF TypeInv, TypeOK, UdpInv, UdpCanLock, RequestValid
<1>3. CASE UdpReceive
  BY <1>1, <1>2, <1>3 DEF UdpReceive, listVars
<1>4. CASE AddUser
  BY <1>1, <1>2, <1>4 DEF AddUser
<1>5. CASE Register
  BY <1>1, <1>2, <1>5 DEF Register
<1>6. CASE Unregister
  BY <1>1, <1>2, <1>6 DEF Unregister
<1>7. CASE Validate
  BY <1>1, <1>2, <1>7 DEF Validate, listVars
<1> QED
  BY <1>3, <1>4, <1>5, <1>6, <1>7 DEF UdpStep

----------------------------------------------------------------------------
\* The three maps

\* A user whose maps and whose place in the commit do not change stays in step.
LEMMA InStepFrame ==
  ASSUME NEW u \in Users, UserInStep(u),
         rids'[u] = rids[u], r2t'[u] = r2t[u], tids'[u] = tids[u],
         CommitOf(u)' = CommitOf(u),
         CommitOf(u) # "none" => req'[mutex'[u]].rid = req[mutex[u]].rid
  PROVE  UserInStep(u)'
BY DEF UserInStep

\* The end of the commit, or of a request that committed nothing.
LEMMA InStepRelease ==
  ASSUME NEW u \in Users, UserInStep(u),
         rids'[u] = rids[u], r2t'[u] = r2t[u], tids'[u] = tids[u],
         CommitOf(u) \in {"none", "r2t"}, CommitOf(u)' = "none"
  PROVE  UserInStep(u)'
BY DEF UserInStep

\* The users a thread's step is not about.
LEMMA InStepOthers ==
  ASSUME TypeInv, LockInv, MapsInStep, NEW s \in Sessions, ThreadStep(s) \/ Environment(s),
         NEW u \in Users, mutex[u] # s, mutex'[u] = mutex[u],
         rids'[u] = rids[u], r2t'[u] = r2t[u], tids'[u] = tids[u]
  PROVE  UserInStep(u)'
<1>1. mutex[u] # None =>
        mutex[u] \in Sessions /\ pc'[mutex[u]] = pc[mutex[u]] /\ req'[mutex[u]] = req[mutex[u]]
  BY HolderKnown, ThreadFrame
<1>2. CommitOf(u)' = CommitOf(u) /\ (CommitOf(u) # "none" => mutex[u] # None)
  BY <1>1 DEF CommitOf
<1> QED
  BY <1>1, <1>2, InStepFrame DEF MapsInStep

\* A step leaves the maps of a user as they are.
SameMaps(u) == rids'[u] = rids[u] /\ r2t'[u] = r2t[u] /\ tids'[u] = tids[u]

\* AUT deletes its RID, the one request there is, from both maps or from none.
LEMMA AutMaps ==
  ASSUME TypeInv, LockInv, MapsInStep, NEW s \in Sessions, Authenticate(s), NEW u \in Users
  PROVE  \/ SameMaps(u)
         \/ /\ u = req[s].uid /\ mutex[u] = None
            /\ rids[u] # newMap /\ rids'[u] = newMap /\ r2t'[u] = newMap /\ tids'[u] = tids[u]
<1>r. PICK rid : rid = req[s].rid
  OBVIOUS
<1>1. tids' = tids
  BY DEF Authenticate
<1>2. CASE u # req[s].uid
  BY <1>2 DEF Authenticate, SameMaps, TypeInv, TypeOK
<1>3. CASE u = req[s].uid /\ ~(HasKey(rids[u], rid) /\ get(rids[u], rid) = req[s].vc)
  BY <1>r, <1>3 DEF Authenticate, SameMaps, TypeInv, TypeOK
<1>4. CASE u = req[s].uid /\ HasKey(rids[u], rid) /\ get(rids[u], rid) = req[s].vc
  <2>1. mutex[u] = None
    BY <1>4 DEF Authenticate, CanLock
  <2>2. CommitOf(u) = "none" /\ UserInStep(u)
    BY <2>1 DEF CommitOf, MapsInStep
  <2>3. AtMostOne(rids[u]) /\ AtMostOne(r2t[u])
    BY <2>2 DEF UserInStep
  <2>4. rids'[u] = removeElement(rids[u], rid) /\ r2t'[u] = removeElement(r2t[u], rid)
    BY <1>r, <1>4 DEF Authenticate, TypeInv, TypeOK
  <2>5. rids[u] # newMap /\ Head(rids[u]).key = rid
    BY <1>4, <2>3, AtMostOneKey
  <2>6. r2t[u] # newMap /\ Head(r2t[u]).key = rid
    BY <2>2, <2>5 DEF UserInStep
  <2> QED
    BY <1>1, <1>4, <2>1, <2>3, <2>4, <2>5, <2>6, AtMostOneRemove
<1> QED
  BY <1>2, <1>3, <1>4

\* AUT keeps the maps in step.
LEMMA MapsAutStep ==
  ASSUME TypeInv, LockInv, MapsInStep, NEW s \in Sessions, Authenticate(s)
  PROVE  MapsInStep'
<1> SUFFICES ASSUME NEW u \in Users
             PROVE  UserInStep(u)'
  BY DEF MapsInStep
<1>1. mutex' = mutex
  BY DEF Authenticate
<1>2. CASE SameMaps(u)
  <2>1. mutex[u] # s
    BY HolderKnown DEF Authenticate, CanLock, Holds, HoldingPcs, CommitPcs
  <2> QED
    BY <1>1, <1>2, <2>1, InStepOthers DEF ThreadStep, SameMaps
<1>3. CASE mutex[u] = None /\ rids'[u] = newMap /\ r2t'[u] = newMap /\ tids'[u] = tids[u]
  <2>1. CommitOf(u)' = "none" /\ AtMostOne(tids[u])
    BY <1>1, <1>3 DEF CommitOf, MapsInStep, UserInStep
  <2> QED
    BY <1>3, <2>1, AtMostOneEmpty DEF UserInStep
<1> QED
  BY <1>2, <1>3, AutMaps

\* A thread in the commit holds the mutex of the user whose maps it changes.
LEMMA CommitHolds ==
  ASSUME TypeInv, LockInv, NEW s \in Sessions, pc[s] \in CommitPcs
  PROVE  req[s].uid \in Users /\ mutex[req[s].uid] = s /\ s # None
BY DEF TypeInv, TypeOK, ReqInv, LockInv, Holds, HoldingPcs

\* The statements of the commit put one element each into an empty list.
LEMMA CommitMaps ==
  ASSUME TypeInv, LockInv, MapsInStep, NEW s \in Sessions, PutRids(s) \/ PutTids(s) \/ PutR2t(s),
         NEW u \in Users, u = req[s].uid
  PROVE  /\ PutRids(s) => /\ rids'[u] = put(newMap, req[s].rid, newVC)
                          /\ r2t'[u] = newMap /\ tids'[u] = newMap
                          /\ CommitOf(u) = "none" /\ CommitOf(u)' = "rids"
         /\ PutTids(s) => /\ tids[u] = newMap /\ tids'[u] = put(newMap, newTID, req[s].fop)
                          /\ rids'[u] = rids[u] /\ r2t'[u] = r2t[u]
                          /\ CommitOf(u) = "rids" /\ CommitOf(u)' = "tids"
         /\ PutR2t(s) =>  /\ r2t[u] = newMap /\ r2t'[u] = put(newMap, req[s].rid, newTID)
                          /\ rids'[u] = rids[u] /\ tids'[u] = tids[u]
                          /\ CommitOf(u) = "tids" /\ CommitOf(u)' = "r2t"
<1>r. PICK rid : rid = req[s].rid
  OBVIOUS
<1>1. mutex[u] = s /\ mutex' = mutex /\ s # None
  BY CommitHolds DEF PutRids, PutTids, PutR2t, CommitPcs
<1>2. AtMostOne(rids[u]) /\ AtMostOne(r2t[u]) /\ AtMostOne(tids[u]) /\ UserInStep(u)
  BY DEF MapsInStep, UserInStep
<1>3. ASSUME PutRids(s)
      PROVE  /\ rids'[u] = put(newMap, rid, newVC)
             /\ r2t'[u] = newMap /\ tids'[u] = newMap
             /\ CommitOf(u) = "none" /\ CommitOf(u)' = "rids"
  <2>1. CommitOf(u) = "none" /\ CommitOf(u)' = "rids"
    BY <1>1, <1>3 DEF CommitOf, PutRids, Goto, TypeInv, TypeOK
  <2>2. /\ rids'[u] = put(removeOldest(rids[u]), rid, newVC)
        /\ tids'[u] = removeOldest(tids[u])
        /\ r2t'[u] = IF rids[u] = newMap THEN r2t[u] ELSE removeElement(r2t[u], Head(rids[u]).key)
    BY <1>r, <1>1, <1>3 DEF PutRids, TypeInv, TypeOK
  <2>3. rids'[u] = put(newMap, rid, newVC) /\ tids'[u] = newMap
    BY <1>2, <2>2, AtMostOneOldest
  <2>4. r2t'[u] = newMap
    <3>1. CASE rids[u] = newMap
      BY <1>2, <2>1, <2>2, <3>1 DEF UserInStep
    <3>2. CASE rids[u] # newMap
      <4>1. r2t[u] # newMap /\ Head(r2t[u]).key = Head(rids[u]).key
        BY <1>2, <2>1, <3>2 DEF UserInStep
      <4> QED
        BY <1>2, <2>2, <3>2, <4>1, AtMostOneRemove
    <3> QED
      BY <3>1, <3>2
  <2> QED
    BY <2>1, <2>3, <2>4
<1>4. ASSUME PutTids(s)
      PROVE  /\ tids[u] = newMap /\ tids'[u] = put(newMap, newTID, req[s].fop)
             /\ rids'[u] = rids[u] /\ r2t'[u] = r2t[u]
             /\ CommitOf(u) = "rids" /\ CommitOf(u)' = "tids"
  <2>1. CommitOf(u) = "rids" /\ CommitOf(u)' = "tids"
    BY <1>1, <1>4 DEF CommitOf, PutTids, Goto, TypeInv, TypeOK
  <2>2. tids[u] = newMap
    BY <1>2, <2>1 DEF UserInStep
  <2> QED
    BY <1>4, <2>1, <2>2 DEF PutTids, TypeInv, TypeOK
<1>5. ASSUME PutR2t(s)
      PROVE  /\ r2t[u] = newMap /\ r2t'[u] = put(newMap, rid, newTID)
             /\ rids'[u] = rids[u] /\ tids'[u] = tids[u]
             /\ CommitOf(u) = "tids" /\ CommitOf(u)' = "r2t"
  <2>1. CommitOf(u) = "tids" /\ CommitOf(u)' = "r2t"
    BY <1>1, <1>5 DEF CommitOf, PutR2t, Goto, TypeInv, TypeOK
  <2>2. r2t[u] = newMap
    BY <1>2, <2>1 DEF UserInStep
  <2> QED
    BY <1>r, <1>5, <2>1, <2>2 DEF PutR2t, TypeInv, TypeOK
<1> QED
  BY <1>r, <1>3, <1>4, <1>5

\* The statements of the commit leave the other users alone.
LEMMA CommitOthers ==
  ASSUME TypeInv, NEW s \in Sessions, PutRids(s) \/ PutTids(s) \/ PutR2t(s),
         NEW u \in Users, u # req[s].uid
  PROVE  SameMaps(u)
BY DEF SameMaps, PutRids, PutTids, PutR2t, TypeInv, TypeOK

\* The statements of the commit, each on the user whose mutex the thread holds.
LEMMA MapsCommitStep ==
  ASSUME TypeInv, LockInv, MapsInStep, NEW s \in Sessions, PutRids(s) \/ PutTids(s) \/ PutR2t(s)
  PROVE  MapsInStep'
<1>u. PICK u \in Users : u = req[s].uid
  BY CommitHolds DEF PutRids, PutTids, PutR2t, CommitPcs
<1>r. PICK rid : rid = req[s].rid
  OBVIOUS
<1>1. mutex[u] = s /\ mutex' = mutex /\ req' = req /\ s # None
  BY <1>u, CommitHolds DEF PutRids, PutTids, PutR2t, CommitPcs
<1>2. ASSUME NEW v \in Users, v # u
      PROVE  UserInStep(v)'
  <2>1. mutex[v] # s
    BY <1>u, <1>2, HolderKnown, <1>1 DEF Holds
  <2> QED
    BY <1>u, <1>1, <1>2, <2>1, CommitOthers, InStepOthers DEF ThreadStep, Commit, SameMaps
<1>s. SUFFICES UserInStep(u)'
  BY <1>2 DEF MapsInStep
<1>3. AtMostOne(rids[u]) /\ AtMostOne(r2t[u]) /\ AtMostOne(tids[u]) /\ UserInStep(u)
  BY DEF MapsInStep, UserInStep
<1>4. CASE PutRids(s)
  <2>1. /\ rids'[u] = put(newMap, rid, newVC) /\ r2t'[u] = newMap /\ tids'[u] = newMap
        /\ CommitOf(u)' = "rids"
    BY <1>u, <1>r, <1>4, CommitMaps
  <2>2. AtMostOne(rids'[u]) /\ rids'[u] # newMap /\ Head(rids'[u]) = [key |-> rid, value |-> newVC]
    BY <2>1, AtMostOnePut
  <2> QED
    BY <1>r, <1>1, <2>1, <2>2, AtMostOneEmpty DEF UserInStep
<1>5. CASE PutTids(s)
  <2>1. /\ tids'[u] = put(newMap, newTID, req[s].fop) /\ rids'[u] = rids[u] /\ r2t'[u] = r2t[u]
        /\ CommitOf(u) = "rids" /\ CommitOf(u)' = "tids"
    BY <1>u, <1>5, CommitMaps
  <2>2. AtMostOne(tids'[u]) /\ tids'[u] # newMap
    BY <2>1, AtMostOnePut
  <2> QED
    BY <1>1, <1>3, <2>1, <2>2 DEF UserInStep
<1>6. CASE PutR2t(s)
  <2>1. /\ r2t'[u] = put(newMap, rid, newTID) /\ rids'[u] = rids[u] /\ tids'[u] = tids[u]
        /\ CommitOf(u) = "tids" /\ CommitOf(u)' = "r2t"
    BY <1>u, <1>r, <1>6, CommitMaps
  <2>2. AtMostOne(r2t'[u]) /\ r2t'[u] # newMap /\ Head(r2t'[u]) = [key |-> rid, value |-> newTID]
    BY <2>1, AtMostOnePut
  <2>3. rids[u] # newMap /\ Head(rids[u]).key = rid /\ tids[u] # newMap
    BY <1>r, <1>1, <1>3, <2>1 DEF UserInStep
  <2> QED
    BY <1>r, <1>1, <1>3, <2>1, <2>2, <2>3 DEF UserInStep
<1> QED
  BY <1>4, <1>5, <1>6

\* The statements that put or remove nothing.
LEMMA StillMaps ==
  ASSUME NEW s \in Sessions, ThreadStep(s) \/ Environment(s),
         ~(Authenticate(s) \/ PutRids(s) \/ PutTids(s) \/ PutR2t(s))
  PROVE  rids' = rids /\ r2t' = r2t /\ tids' = tids
<1>1. UNCHANGED mapVars
  BY DEF ThreadStep, Environment, Commit, Disconnect, Malformed, Login, RefuseRequest,
     SendVLC, RetransmitVLC, GiveUpVLC, IncrVC, IncrTID, CheckTID,
     Accept, Receive, ReceiveEof, ReceiveError, ReceiveRVC, ReceiveRefusal
<1> QED
  BY <1>1 DEF mapVars

\* Where a commit is moves only with its puts, or when it ends.
LEMMA PlaceStep ==
  ASSUME TypeInv, LockInv, NEW s \in Sessions, ThreadStep(s) \/ Environment(s), NEW u \in Users,
         PutRids(s) \/ PutTids(s) \/ PutR2t(s) => u # req[s].uid
  PROVE  \/ /\ CommitOf(u)' = CommitOf(u)
            /\ CommitOf(u) # "none" => /\ mutex[u] \in Sessions /\ mutex'[u] = mutex[u]
                                       /\ req'[mutex[u]] = req[mutex[u]]
         \/ CommitOf(u) \in {"none", "r2t"} /\ CommitOf(u)' = "none"
<1>1. CASE mutex[u] # s /\ mutex'[u] = mutex[u]
  <2>1. mutex[u] # None =>
          mutex[u] \in Sessions /\ pc'[mutex[u]] = pc[mutex[u]] /\ req'[mutex[u]] = req[mutex[u]]
    BY <1>1, HolderKnown, ThreadFrame
  <2> QED
    BY <1>1, <2>1 DEF CommitOf
<1>2. CASE HoldsNothing(s)
  <2>1. mutex[u] # s
    BY <1>2, HolderKnown DEF HoldsNothing, Holds
  <2> QED
    BY <1>1, <1>2, <2>1 DEF HoldsNothing
<1>3. CASE SendVLC(s)
  <2>1. mutex[u] # s
    BY <1>3, HolderKnown DEF SendVLC, CanLock, Holds, HoldingPcs, CommitPcs
  <2>2. CASE u # req[s].uid
    BY <1>1, <1>3, <2>1, <2>2 DEF SendVLC, TypeInv, TypeOK
  <2>3. CASE u = req[s].uid
    <3>1. mutex[u] = None /\ mutex'[u] = s /\ pc'[s] = "awaitRVC"
      BY <1>3, <2>3 DEF SendVLC, CanLock, Goto, TypeInv, TypeOK
    <3> QED
      BY <3>1 DEF CommitOf
  <2> QED
    BY <2>2, <2>3
<1>4. CASE KeepsLock(s)
  <2>1. CASE mutex[u] # s
    BY <1>1, <1>4, <2>1 DEF KeepsLock
  <2>2. CASE mutex[u] = s
    <3>1. mutex' = mutex /\ req' = req /\ s # None
      BY <1>4 DEF KeepsLock
    <3>2. ~(PutRids(s) \/ PutTids(s) \/ PutR2t(s))
      BY <2>2, <3>1, HolderKnown DEF Holds
    <3>3. \/ pc'[s] = pc[s]
          \/ pc[s] = "awaitRVC" /\ pc'[s] = "putRids"
          \/ pc[s] = "incVC" /\ pc'[s] = "putTids"
          \/ pc[s] = "incTID" /\ pc'[s] = "checkTID"
          \/ pc[s] = "checkTID" /\ pc'[s] = "skipZero"
      BY <1>4, <3>2 DEF KeepsLock, HoldingPcs, CommitPcs, ThreadStep, Environment, Commit,
         Disconnect, Malformed, Login, Authenticate, RefuseRequest, SendVLC, RetransmitVLC, GiveUpVLC,
         IncrVC, IncrTID, CheckTID, Accept, Receive, ReceiveEof, ReceiveError, ReceiveRVC, ReceiveRefusal,
         CanLock, Goto, Answer, EndRequest, threadVars, TypeInv, TypeOK
    <3>4. CommitOf(u)' = CommitOf(u)
      BY <2>2, <3>1, <3>3 DEF CommitOf
    <3> QED
      BY <2>2, <3>1, <3>4
  <2> QED
    BY <2>1, <2>2
<1>5. CASE Releases(s)
  <2>1. req[s].uid \in Users /\ mutex[req[s].uid] = s
    BY <1>5 DEF Releases, LockInv, Holds, TypeInv, TypeOK, ReqInv
  <2>2. CASE mutex[u] # s
    BY <1>1, <1>5, <2>1, <2>2 DEF Releases, EndRequest, TypeInv, TypeOK
  <2>3. CASE mutex[u] = s
    <3>1. u = req[s].uid /\ mutex'[u] = None
      BY <1>5, <2>3, HolderKnown DEF Holds, Releases, EndRequest, TypeInv, TypeOK
    <3>2. pc[s] \in {"awaitRVC", "incTID", "checkTID", "skipZero"}
      <4>1. pc'[s] = "recv"
        BY <1>5 DEF Releases, EndRequest, Answer, TypeInv, TypeOK
      <4> QED
        BY <1>5, <3>1, <4>1 DEF Releases, HoldingPcs, CommitPcs, ThreadStep, Environment, Commit,
           Disconnect, Malformed, Login, Authenticate, RefuseRequest, SendVLC, RetransmitVLC, GiveUpVLC,
           IncrVC, IncrTID, CheckTID, Accept, Receive, ReceiveEof, ReceiveError, ReceiveRVC, ReceiveRefusal,
           CanLock, Goto, threadVars, TypeInv, TypeOK
    <3> QED
      BY <2>3, <3>1, <3>2 DEF CommitOf
  <2> QED
    BY <2>2, <2>3
<1> QED
  BY <1>2, <1>3, <1>4, <1>5, LockKinds

\* All the other steps of a TCP thread: they leave the maps alone, and the
\* thread's place in the commit, or they end it.
LEMMA MapsTcpStep ==
  ASSUME TypeInv, LockInv, MapsInStep, NEW s \in Sessions, ThreadStep(s) \/ Environment(s)
  PROVE  MapsInStep'
<1>1. CASE Authenticate(s)
  BY <1>1, MapsAutStep
<1>2. CASE PutRids(s) \/ PutTids(s) \/ PutR2t(s)
  BY <1>2, MapsCommitStep
<1>3. CASE ~(Authenticate(s) \/ PutRids(s) \/ PutTids(s) \/ PutR2t(s))
  <2> SUFFICES ASSUME NEW u \in Users
               PROVE  UserInStep(u)'
    BY DEF MapsInStep
  <2>1. rids' = rids /\ r2t' = r2t /\ tids' = tids /\ UserInStep(u)
    BY <1>3, StillMaps DEF MapsInStep
  <2>2. CASE /\ CommitOf(u)' = CommitOf(u)
             /\ CommitOf(u) # "none" => mutex'[u] = mutex[u] /\ req'[mutex[u]] = req[mutex[u]]
    BY <2>1, <2>2, InStepFrame
  <2>3. CASE CommitOf(u) \in {"none", "r2t"} /\ CommitOf(u)' = "none"
    BY <2>1, <2>3, InStepRelease
  <2> QED
    BY <1>3, <2>2, <2>3, PlaceStep
<1> QED
  BY <1>1, <1>2, <1>3

\* VLD finds only the one TID that is there, so its deletion never happens.
LEMMA ValidateKeepsTids ==
  ASSUME TypeInv, MapsInStep, Validate
  PROVE  tids' = tids
<1>u. PICK u \in Users : u = udpReq.uid
  BY DatagramTypes DEF Validate, UdpCanLock, TypeInv, UdpInv
<1>1. AtMostOne(tids[u])
  BY DEF MapsInStep, UserInStep
<1>2. HasKey(tids[u], udpReq.tid) => Head(tids[u]).key = udpReq.tid
  BY <1>1, AtMostOneKey
<1>3. tids' = [tids EXCEPT ![u] = tids[u]]
  BY <1>u, <1>2 DEF Validate
<1> QED
  BY <1>3 DEF TypeInv, TypeOK

\* addUser starts a user with three empty maps; VLD deletes nothing.
LEMMA MapsUdpStep ==
  ASSUME TypeInv, LockInv, MapsInStep, UdpReceive \/ UdpStep
  PROVE  MapsInStep'
<1> SUFFICES ASSUME NEW u \in Users
             PROVE  UserInStep(u)'
  BY DEF MapsInStep
<1>1. CommitOf(u)' = CommitOf(u) /\ mutex' = mutex /\ req' = req
  BY UdpLockStep DEF CommitOf, threadVars
<1>2. CASE rids' = rids /\ r2t' = r2t /\ tids' = tids
  BY <1>1, <1>2, InStepFrame DEF MapsInStep
<1>3. CASE AddUser
  <2>1. CASE u # udpReq.uid
    BY <1>1, <1>3, <2>1, InStepFrame DEF AddUser, MapsInStep, TypeInv, TypeOK
  <2>2. CASE u = udpReq.uid
    <3>1. u \notin known
      BY <1>3, <2>2 DEF AddUser, TypeInv, UdpInv
    <3>2. CommitOf(u) = "none"
      BY <3>1, HolderKnown DEF CommitOf
    <3>3. rids'[u] = newMap /\ r2t'[u] = newMap /\ tids'[u] = newMap
      BY <1>3, <2>2 DEF AddUser, TypeInv, TypeOK
    <3> QED
      BY <1>1, <3>2, <3>3, AtMostOneEmpty DEF UserInStep
  <2> QED
    BY <2>1, <2>2
<1>4. CASE UdpReceive \/ Register \/ Unregister
  BY <1>2, <1>4 DEF UdpReceive, Register, Unregister, mapVars
<1>5. CASE Validate
  BY <1>2, <1>5, ValidateKeepsTids DEF Validate
<1> QED
  BY <1>3, <1>4, <1>5 DEF UdpStep

----------------------------------------------------------------------------
\* The inductive invariant and the theorems

SafetyInv == TypeInv /\ LockInv /\ MapsInStep /\ RequestStillValid /\ DeviceInv

\* Nobody is in the list and no thread is in a handler.
LEMMA InitSafety == Init => SafetyInv
<1> SUFFICES ASSUME Init
             PROVE  SafetyInv
  OBVIOUS
<1>1. TypeInv
  BY InitTypeInv
<1>2. LockInv /\ RequestStillValid
  BY DEF Init, LockInv, Holds, RequestStillValid, HoldingPcs, CommitPcs
<1>3. \A u \in Users : CommitOf(u) = "none" /\ rids[u] = newMap /\ r2t[u] = newMap /\ tids[u] = newMap
  BY DEF Init, CommitOf
<1>4. MapsInStep
  BY <1>3, AtMostOneEmpty DEF MapsInStep, UserInStep
<1>5. DeviceInv
  BY DEF Init, DeviceInv, OneUserPerPD, FreshInv
<1> QED
  BY <1>1, <1>2, <1>4, <1>5 DEF SafetyInv

\* The safety invariant is inductive: each part needs the type invariant, and
\* the requests and the maps need the locks.
LEMMA NextSafety == SafetyInv /\ [Next]_vars => SafetyInv'
<1> SUFFICES ASSUME SafetyInv, [Next]_vars
             PROVE  SafetyInv'
  OBVIOUS
<1> USE DEF SafetyInv
<1>1. TypeInv'
  BY NextTypeInv
<1>2. ASSUME NEW s \in Sessions, ThreadStep(s) \/ Environment(s)
      PROVE  SafetyInv'
  <2>1. DeviceInv'
    BY <1>2, TcpKeepsUdpInv DEF TypeInv, DeviceInv, OneUserPerPD, FreshInv, listVars
  <2> QED
    BY <1>1, <1>2, <2>1, LockStep, MapsTcpStep, ValidTcpStep
<1>3. CASE UdpReceive \/ UdpStep
  BY <1>1, <1>3, UdpLockStep, MapsUdpStep, ValidUdpStep, DeviceStep
<1>4. CASE UNCHANGED vars
  <2>1. LockInv' /\ RequestStillValid' /\ DeviceInv'
    BY <1>4 DEF vars, LockInv, Holds, RequestStillValid, RequestValid, DeviceInv, OneUserPerPD,
       FreshInv, threadVars, listVars
  <2>2. \A u \in Users : CommitOf(u)' = CommitOf(u)
    BY <1>4 DEF vars, CommitOf, threadVars
  <2>3. MapsInStep'
    BY <1>4, <2>2, InStepFrame DEF vars, mapVars, threadVars, MapsInStep
  <2> QED
    BY <1>1, <2>1, <2>3
<1> QED
  BY <1>2, <1>3, <1>4 DEF Next

\* SafetyInv, which the properties below are conjuncts or consequences of, holds
\* in every reachable state of the AS.
THEOREM Safety == Spec => []SafetyInv
<1>1. Init => SafetyInv
  BY InitSafety
<1>2. SafetyInv /\ [Next]_vars => SafetyInv'
  BY NextSafety
<1> QED
  BY <1>1, <1>2, PTL DEF Spec

\* A user's mutex is held by exactly the thread that serves a REQ of the user,
\* and released on every way out of it.
THEOREM LocksCorrect == Spec => []LockInv
<1>1. SafetyInv => LockInv
  BY DEF SafetyInv
<1> QED
  BY <1>1, Safety, PTL

\* rids, r2t and tids of a user stay in step through every interleaving of REQ,
\* AUT and VLD.
THEOREM MapsCorrect == Spec => []MapsInStep
<1>1. SafetyInv => MapsInStep
  BY DEF SafetyInv
<1> QED
  BY <1>1, Safety, PTL

\* What REQ was allowed on still holds when it is committed.
THEOREM RequestsCorrect == Spec => []RequestStillValid
<1>1. SafetyInv => RequestStillValid
  BY DEF SafetyInv
<1> QED
  BY <1>1, Safety, PTL

\* No two users share a personal device.
THEOREM DevicesCorrect == Spec => []OneUserPerPD
<1>1. SafetyInv => OneUserPerPD
  BY DEF SafetyInv, DeviceInv
<1> QED
  BY <1>1, Safety, PTL

----------------------------------------------------------------------------
\* Action properties

\* A step of a thread changes the record of no user but the one it has locked,
\* and changes it only together with its own place in the code.
LEMMA RecordStep ==
  ASSUME SafetyInv, NEW s \in Sessions, ThreadStep(s) \/ Environment(s),
         NEW u \in Users, mutex[u] # None, pc'[mutex[u]] = pc[mutex[u]]
  PROVE  UserRecord(u)' = UserRecord(u)
<1> USE DEF SafetyInv, TypeInv, TypeOK
<1>1. mutex[u] \in Sessions /\ pc[mutex[u]] \in HoldingPcs /\ req[mutex[u]].uid = u
  BY HolderKnown DEF Holds
<1>2. pw' = pw /\ pd' = pd /\ isOn' = isOn
  BY TcpKeepsUdpInv DEF listVars
<1>3. CASE Disconnect(s) \/ Login(s) \/ Authenticate(s)
  <2>1. req[s].uid # u
    BY <1>3 DEF Disconnect, Login, Authenticate, CanLock
  <2>2. /\ isLogged'[u] = isLogged[u] /\ tids'[u] = tids[u]
        /\ rids'[u] = rids[u] /\ r2t'[u] = r2t[u]
    BY <1>3, <2>1 DEF Disconnect, Login, Authenticate, mapVars
  <2> QED
    BY <1>2, <2>2 DEF UserRecord
<1>4. CASE PutRids(s) \/ PutTids(s) \/ PutR2t(s)
  <2>1. pc'[s] # pc[s] /\ pc[s] \in HoldingPcs /\ isLogged' = isLogged
    BY <1>4 DEF PutRids, PutTids, PutR2t, Goto, HoldingPcs, CommitPcs
  <2>2. req[s].uid # u
    BY <1>1, <2>1 DEF LockInv, Holds
  <2>3. tids'[u] = tids[u] /\ rids'[u] = rids[u] /\ r2t'[u] = r2t[u]
    BY <1>4, <2>2 DEF PutRids, PutTids, PutR2t
  <2> QED
    BY <1>2, <2>1, <2>3 DEF UserRecord
<1>5. CASE ~(Disconnect(s) \/ Login(s) \/ Authenticate(s) \/ PutRids(s) \/ PutTids(s) \/ PutR2t(s))
  <2>1. isLogged' = isLogged /\ UNCHANGED mapVars
    BY <1>5 DEF ThreadStep, Environment, Commit, Malformed, RefuseRequest,
       SendVLC, RetransmitVLC, GiveUpVLC, IncrVC, IncrTID, CheckTID,
       Accept, Receive, ReceiveEof, ReceiveError, ReceiveRVC, ReceiveRefusal
  <2> QED
    BY <1>2, <2>1 DEF UserRecord, mapVars
<1> QED
  BY <1>3, <1>4, <1>5

\* The UDP thread changes only users whose mutex is free, and new ones.
LEMMA RecordUdpStep ==
  ASSUME SafetyInv, UdpReceive \/ UdpStep, NEW u \in Users, mutex[u] # None
  PROVE  UserRecord(u)' = UserRecord(u)
<1> USE DEF SafetyInv, TypeInv, TypeOK, UdpInv, UdpCanLock, UserRecord
<1>1. u \in known
  BY HolderKnown
<1>2. CASE UdpReceive
  BY <1>2 DEF UdpReceive, listVars, mapVars
<1>3. CASE AddUser
  BY <1>1, <1>3 DEF AddUser
<1>4. CASE Register \/ Unregister
  BY <1>4 DEF Register, Unregister, mapVars
<1>5. CASE Validate
  BY <1>5 DEF Validate, listVars
<1> QED
  BY <1>2, <1>3, <1>4, <1>5 DEF UdpStep

\* While a REQ holds a user's mutex, across the wait for the PD and the commit,
\* no other thread changes the user.
THEOREM LockProtectsUser == Spec => LockProtects
<1>1. SafetyInv /\ [Next]_vars =>
        [\A u \in Users :
           mutex[u] # None /\ pc'[mutex[u]] = pc[mutex[u]] => UserRecord(u)' = UserRecord(u)]_vars
  BY RecordStep, RecordUdpStep DEF Next
<1> QED
  BY <1>1, Safety, PTL DEF Spec, LockProtects

\* VLD leaves the TID it confirms, and every other, so a repeated VLD gets the
\* same answer until the user makes a new request.
THEOREM ConfirmIsRepeatable == Spec => ConfirmKeepsTicket
<1>1. SafetyInv /\ [Next]_vars => [udpPc' # udpPc => tids' = tids \/ AddUser]_vars
  <2> SUFFICES ASSUME SafetyInv, Next, udpPc' # udpPc
               PROVE  tids' = tids \/ AddUser
    OBVIOUS
  <2>1. ASSUME NEW s \in Sessions
        PROVE  ~(ThreadStep(s) \/ Environment(s))
    BY TcpKeepsUdpInv DEF SafetyInv, TypeInv, udpVars
  <2>2. CASE UdpReceive \/ Register \/ Unregister
    BY <2>2 DEF UdpReceive, Register, Unregister, mapVars
  <2>3. CASE Validate
    BY <2>3, ValidateKeepsTids DEF SafetyInv
  <2> QED
    BY <2>1, <2>2, <2>3 DEF Next, UdpStep
<1> QED
  BY <1>1, Safety, PTL DEF Spec, ConfirmKeepsTicket
----------------------------------------------------------------------------
\* The abstract registry

\* AddUser and a granted REG claim a device, UNR releases one, and no other
\* statement of the AS changes a device.
LEMMA RegistryStep == SafetyInv /\ [Next]_vars => [Registry!Next]_pd
<1> SUFFICES ASSUME SafetyInv, [Next]_vars
             PROVE  [Registry!Next]_pd
  OBVIOUS
<1> USE DEF SafetyInv, TypeInv, TypeOK, UdpInv, DeviceInv, OneUserPerPD, FreshInv, PdRegistered, UdpCanLock
<1>1. CASE UNCHANGED vars
  BY <1>1 DEF vars, listVars
<1>2. ASSUME NEW s \in Sessions, ThreadStep(s) \/ Environment(s)
      PROVE  UNCHANGED pd
  BY <1>2, TcpKeepsUdpInv DEF listVars
<1>3. CASE UdpReceive \/ Validate
  BY <1>3 DEF UdpReceive, Validate, listVars
<1>4. ASSUME NEW u \in Users, NEW p \in PDs, pd[u] = None, ~PdRegistered(p),
             pd' = [pd EXCEPT ![u] = p]
      PROVE  Registry!Next
  <2>1. p # None
    BY <1>4
  <2>2. \A v \in Users : pd[v] # p
    BY <1>4, <2>1
  <2>3. Registry!Claim(u, p)
    BY <1>4, <2>2 DEF Registry!Claim
  <2> QED
    BY <2>3 DEF Registry!Next
<1>5. CASE AddUser
  <2>1. udpReq.uid \in Users /\ udpReq.pd \in PDs /\ udpReq.op = "REG"
    BY <1>5 DEF AddUser, RegMsg
  <2> QED
    BY <1>4, <1>5, <2>1 DEF AddUser
<1>6. CASE Register
  <2>1. udpReq.uid \in Users /\ udpReq.pd \in PDs /\ udpReq.op = "REG"
    BY <1>6, DatagramTypes DEF Register, RegMsg
  <2>2. CASE ~isOn[udpReq.uid] /\ udpReq.pw = pw[udpReq.uid]
    BY <1>4, <1>6, <2>1, <2>2 DEF Register
  <2>3. CASE ~(~isOn[udpReq.uid] /\ udpReq.pw = pw[udpReq.uid])
    <3>1. pd' = pd
      BY <1>6, <2>1, <2>3 DEF Register
    <3> QED
      BY <3>1
  <2> QED
    BY <2>2, <2>3
<1>7. CASE Unregister
  <2>1. udpReq.uid \in Users
    BY <1>7 DEF Unregister
  <2>2. pd' = [pd EXCEPT ![udpReq.uid] = None] \/ pd' = pd
    BY <1>7, <2>1 DEF Unregister
  <2> QED
    BY <2>1, <2>2 DEF Registry!Next, Registry!Release
<1> QED
  BY <1>1, <1>2, <1>3, <1>5, <1>6, <1>7 DEF Next, UdpStep

\* The AS implements the registry of devices: REG and UNR, over any number of
\* threads, are atomic claims and releases.
THEOREM RegistryImplemented == Spec => ServesRegistry
<1>1. Init => Registry!Init
  BY DEF Init, Registry!Init
<1>2. SafetyInv /\ [Next]_vars => [Registry!Next]_pd
  BY RegistryStep
<1> QED
  BY <1>1, <1>2, Safety, PTL DEF Spec, ServesRegistry, Registry!Spec
=============================================================================
