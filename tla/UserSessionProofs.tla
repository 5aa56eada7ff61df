-------------------------- MODULE UserSessionProofs --------------------------
(***************************************************************************)
(* Theorems about UserSession, for any number of processes, users, tickets, *)
(* retransmissions, commands and faults.                                    *)
(***************************************************************************)
EXTENDS UserSession, TLAPS

\* A connection holds one message, for a process that waits for it; a REQ that
\* waits for the personal device is a REQ of a registered user.
LineInv == \A a \in Apps :
  /\ toAS[a] # None => toApp[a] = None /\ (session[a] = "open" => pc[a] = "AS")
  /\ toApp[a] # None => pc[a] = "AS"
  /\ asPc[a] = "challenge" => toAS[a] # None /\ toAS[a] \in ReqMsg /\ toAS[a].uid \in Users

\* There is a ticket with the TID of every pending request.
PendingInv == \A u \in Users : pending[u] # None => ticket[u] \in AS!Ticket /\ pending[u].tid = ticket[u].tid

\* TypeOK by parts, of which a step changes a few.
ASTypes ==
  /\ logged \in [Users -> BOOLEAN]
  /\ ticket \in [Users -> AS!Ticket \cup {None}]
  /\ pending \in [Users -> AS!Pending \cup {None}]
  /\ newTID \in 1..(MaxTid + 1)
  /\ userID \in [Apps -> Users \cup {None}]

LineTypes ==
  /\ asPc \in [Apps -> {"recv", "challenge", "closed"}]
  /\ session \in [Apps -> {"none", "open", "freed", "gone"}]
  /\ toAS \in [Apps -> LogMsg \cup ReqMsg \cup AutMsg \cup {None}]
  /\ toApp \in [Apps -> RLO \cup RRQ \cup RAU \cup {ERR, None}]

AppTypes ==
  /\ pc \in [Apps -> {"prompt", "AS", "FS", "dead"}]
  /\ uid \in [Apps -> Users \cup {None}]
  /\ rid \in [Apps -> Rids \cup {None}]
  /\ tid \in [Apps -> 0..MaxTid]
  /\ status \in [Apps -> Answers \cup {""}]
  /\ told \in [Apps -> BOOLEAN]

FSTypes ==
  /\ fs \in [Apps -> Thread]
  /\ toUser \in [Apps -> Answers \cup {"cut", None}]

NetTypes == vlds \subseteq VLD /\ cnfs \subseteq CNF

HistoryTypes == confirmed \subseteq [uid : Users, tid : Tids, fop : Fops] /\ removed \subseteq Users

BoundTypes == commands \in 0..MaxCommands /\ faults \in 0..MaxFaults

LEMMA TypeParts ==
  /\ TypeOK <=> /\ ASTypes /\ LineTypes /\ AppTypes /\ FSTypes
                /\ NetTypes /\ HistoryTypes /\ BoundTypes
  /\ TypeOK' <=> /\ ASTypes' /\ LineTypes' /\ AppTypes' /\ FSTypes'
                 /\ NetTypes' /\ HistoryTypes' /\ BoundTypes'
PROOF
  BY DEF TypeOK, ASTypes, LineTypes, AppTypes, FSTypes, NetTypes, HistoryTypes, BoundTypes

Types == TypeOK /\ LineInv /\ PendingInv

\* Which numbers the bounds are.
LEMMA Bounds ==
  /\ MaxRetries \in Nat /\ MaxTid \in Nat /\ MaxTid >= 1 /\ MaxCommands \in Nat /\ MaxFaults \in Nat
  /\ RemoveOp \in Fops /\ None \notin Fops /\ None \notin Users
PROOF
  BY ConstantsAssumption

\* The kind of a line tells its form.
LEMMA LineKinds ==
  ASSUME TypeOK, NEW a \in Apps, toAS[a] # None
  PROVE  /\ toAS[a].op = "LOG" => toAS[a] \in LogMsg
         /\ toAS[a].op = "REQ" => toAS[a] \in ReqMsg
         /\ toAS[a].op = "AUT" => toAS[a] \in AutMsg
PROOF
  BY DEF TypeOK, LogMsg, ReqMsg, AutMsg

LEMMA AnswerKinds ==
  ASSUME TypeOK, NEW a \in Apps, toApp[a] # None
  PROVE  toApp[a].op = "RAU" => toApp[a] \in RAU
PROOF
  <1>1. toApp[a] \in RLO \cup RRQ \cup RAU \cup {ERR}
    BY DEF TypeOK
  <1>2. CASE toApp[a] \in RLO
    BY <1>2 DEF RLO
  <1>3. CASE toApp[a] \in RRQ
    BY <1>3 DEF RRQ
  <1>4. CASE toApp[a] = ERR
    BY <1>4 DEF ERR
  <1> QED
    BY <1>1, <1>2, <1>3, <1>4

\* What the answer to a line does to the connection.
LEMMA AnswerTypes ==
  ASSUME TypeOK, NEW a \in Apps, NEW m \in RLO \cup RRQ \cup RAU \cup {ERR}, Answer(a, m)
  PROVE  /\ asPc' \in [Apps -> {"recv", "challenge", "closed"}]
         /\ toAS' \in [Apps -> LogMsg \cup ReqMsg \cup AutMsg \cup {None}]
         /\ toApp' \in [Apps -> RLO \cup RRQ \cup RAU \cup {ERR, None}]
         /\ commands' \in 0..MaxCommands /\ faults' \in 0..MaxFaults
         /\ \A b \in Apps : asPc'[b] = "challenge" => b # a /\ asPc[b] = "challenge" /\ toAS'[b] = toAS[b]
PROOF
  <1> DEFINE Line == LogMsg \cup ReqMsg \cup AutMsg \cup {None}
             Back == RLO \cup RRQ \cup RAU \cup {ERR, None}
  <1>1. /\ asPc \in [Apps -> {"recv", "challenge", "closed"}]
        /\ toAS \in [Apps -> Line] /\ toApp \in [Apps -> Back]
        /\ commands \in 0..MaxCommands /\ faults \in 0..MaxFaults
        /\ None \in Line /\ None \in Back /\ m \in Back
    BY DEF TypeOK
  <1> HIDE DEF Line, Back
  <1>2. /\ asPc' \in [Apps -> {"recv", "challenge", "closed"}]
        /\ toAS' \in [Apps -> Line] /\ toApp' \in [Apps -> Back]
        /\ commands' \in 0..MaxCommands /\ faults' \in 0..MaxFaults
        /\ \A b \in Apps : asPc'[b] = "challenge" => b # a /\ asPc[b] = "challenge" /\ toAS'[b] = toAS[b]
    BY <1>1, Bounds DEF Answer, Fault, bounds
  <1> QED
    BY <1>2 DEF Line, Back

USE DEF ticketVars, asVars, lineVars, appVars, fsVars, netVars, history, bounds

LEMMA InitTypes == Init => Types
PROOF
  <1> SUFFICES ASSUME Init PROVE Types
    OBVIOUS
  <1> DEFINE Zeros == /\ 0 \in 0..MaxTid /\ 0 \in 0..MaxRetries /\ 1 \in 1..(MaxTid + 1)
                      /\ 0 \in 0..MaxCommands /\ 0 \in 0..MaxFaults
  <1>0. Zeros
    BY Bounds
  <1>1. NoThread \in Thread
    BY Bounds DEF NoThread, Thread
  <1>2. TypeOK
    <2>1. ASTypes
      BY <1>0 DEF Init, AS!Init, ASTypes
    <2>2. LineTypes
      BY DEF Init, LineTypes
    <2>3. AppTypes
      BY <1>0 DEF Init, AppTypes
    <2>4. FSTypes
      BY <1>1 DEF Init, FSTypes
    <2>5. NetTypes /\ HistoryTypes /\ BoundTypes
      BY <1>0 DEF Init, NetTypes, HistoryTypes, BoundTypes
    <2> QED
      BY <2>1, <2>2, <2>3, <2>4, <2>5, TypeParts
  <1>3. LineInv /\ PendingInv
    BY DEF Init, AS!Init, LineInv, PendingInv
  <1> QED
    BY <1>2, <1>3 DEF Types

LEMMA TypesNow ==
  ASSUME Types
  PROVE  /\ ASTypes /\ LineTypes /\ AppTypes /\ FSTypes
         /\ NetTypes /\ HistoryTypes /\ BoundTypes /\ LineInv /\ PendingInv
PROOF
  BY TypeParts DEF Types

LEMMA TypesNext ==
  ASSUME ASTypes', LineTypes', AppTypes', FSTypes',
         NetTypes', HistoryTypes', BoundTypes', LineInv', PendingInv'
  PROVE  Types'
PROOF
  BY TypeParts DEF Types

LEMMA CommandTypes ==
  ASSUME BoundTypes, NEW a \in Apps, Command(a)
  PROVE  BoundTypes'
PROOF
  <1>1. commands < MaxCommands /\ commands' = commands + 1 /\ faults' = faults
    BY DEF Command
  <1> QED
    BY <1>1, Bounds DEF BoundTypes

LEMMA FaultTypes ==
  ASSUME BoundTypes, Fault
  PROVE  BoundTypes'
PROOF
  BY Bounds DEF BoundTypes, Fault

LEMMA AskTypes ==
  ASSUME Types, NEW a \in Apps, NEW m \in LogMsg \cup ReqMsg \cup AutMsg, AskAS(a, m),
         uid' \in [Apps -> Users \cup {None}], rid' \in [Apps -> Rids \cup {None}]
  PROVE  Types'
PROOF
  <1>1. /\ ASTypes /\ LineTypes /\ AppTypes /\ FSTypes
        /\ NetTypes /\ HistoryTypes /\ BoundTypes
    BY TypeParts DEF Types
  <1>2. ASTypes' /\ FSTypes' /\ NetTypes' /\ HistoryTypes'
    BY <1>1 DEF AskAS, ASTypes, FSTypes, NetTypes, HistoryTypes
  <1>3. LineTypes'
    BY <1>1 DEF AskAS, LineTypes
  <1>4. AppTypes'
    BY <1>1 DEF AskAS, Command, AppTypes
  <1>5. BoundTypes'
    <2>1. Command(a)
      BY DEF AskAS
    <2> QED
      BY <1>1, <2>1, CommandTypes
  <1>6. LineInv'
    BY <1>1 DEF Types, LineInv, AskAS, Command, LineTypes, AppTypes
  <1>7. PendingInv'
    BY DEF Types, PendingInv, AskAS
  <1> QED
    BY <1>2, <1>3, <1>4, <1>5, <1>6, <1>7, TypeParts, <1>1 DEF Types

LEMMA EndTypes ==
  ASSUME Types, NEW a \in Apps, End(a), BoundTypes', told' \in [Apps -> BOOLEAN]
  PROVE  Types'
PROOF
  <1>1. /\ ASTypes /\ LineTypes /\ AppTypes /\ FSTypes
        /\ NetTypes /\ HistoryTypes /\ LineInv /\ PendingInv
    BY TypesNow
  <1>2. ASTypes' /\ NetTypes' /\ HistoryTypes'
    BY <1>1 DEF End, ASTypes, NetTypes, HistoryTypes
  <1>3. LineTypes'
    BY <1>1 DEF End, LineTypes
  <1>4. AppTypes'
    <2>1. 0 \in 0..MaxTid
      BY Bounds
    <2> QED
      BY <1>1, <2>1 DEF End, AppTypes
  <1>5. FSTypes'
    BY <1>1 DEF End, FSTypes
  <1>6. LineInv'
    BY <1>1 DEF End, LineInv, LineTypes, AppTypes
  <1>7. PendingInv'
    BY <1>1 DEF End, PendingInv
  <1> QED
    BY <1>2, <1>3, <1>4, <1>5, <1>6, <1>7, TypesNext

\* Commands keep the types.
LEMMA TypeStep ==
  ASSUME Types, NEW a \in Apps, TypeCommand(a)
  PROVE  Types'
PROOF
  <1>1. /\ ASTypes /\ LineTypes /\ AppTypes /\ FSTypes
        /\ NetTypes /\ HistoryTypes /\ BoundTypes /\ LineInv /\ PendingInv
    BY TypesNow
  <1>2. CASE TypeLogin(a)
    <2>1. PICK u \in Users, right \in BOOLEAN :
            /\ AskAS(a, [op |-> "LOG", uid |-> u, right |-> right])
            /\ uid' = [uid EXCEPT ![a] = u] /\ UNCHANGED rid
      BY <1>2 DEF TypeLogin
    <2>2. [op |-> "LOG", uid |-> u, right |-> right] \in LogMsg
      BY DEF LogMsg
    <2>3. uid' \in [Apps -> Users \cup {None}] /\ rid' \in [Apps -> Rids \cup {None}]
      BY <1>1, <2>1 DEF AppTypes
    <2> QED
      BY <2>1, <2>2, <2>3, AskTypes
  <1>3. CASE TypeReq(a)
    <2>1. PICK r \in Rids, fop \in Fops :
            /\ AskAS(a, [op |-> "REQ", uid |-> uid[a], rid |-> r, fop |-> fop])
            /\ rid' = [rid EXCEPT ![a] = r] /\ UNCHANGED uid
      BY <1>3 DEF TypeReq
    <2>2. [op |-> "REQ", uid |-> uid[a], rid |-> r, fop |-> fop] \in ReqMsg
      BY <1>1 DEF ReqMsg, AppTypes
    <2>3. uid' \in [Apps -> Users \cup {None}] /\ rid' \in [Apps -> Rids \cup {None}]
      BY <1>1, <2>1 DEF AppTypes
    <2> QED
      BY <2>1, <2>2, <2>3, AskTypes
  <1>4. CASE TypeVal(a)
    <2>1. PICK vc \in Codes :
            /\ AskAS(a, [op |-> "AUT", uid |-> uid[a], rid |-> rid[a], vc |-> vc])
            /\ UNCHANGED <<uid, rid>>
      BY <1>4 DEF TypeVal
    <2>2. [op |-> "AUT", uid |-> uid[a], rid |-> rid[a], vc |-> vc] \in AutMsg
      BY <1>1 DEF AutMsg, AppTypes
    <2>3. uid' \in [Apps -> Users \cup {None}] /\ rid' \in [Apps -> Rids \cup {None}]
      BY <1>1, <2>1 DEF AppTypes
    <2> QED
      BY <2>1, <2>2, <2>3, AskTypes
  <1>5. CASE TypeFile(a)
    <2>1. PICK fop \in Fops :
            LET t == NewThread(a, fop)
            IN /\ Command(a)
               /\ pc' = [pc EXCEPT ![a] = "FS"]
               /\ fs' = [fs EXCEPT ![a] = t]
               /\ SendVLD(a, t, 0)
               /\ UNCHANGED <<ticketVars, asVars, lineVars, uid, rid, tid, status, toUser, cnfs, history>>
      BY <1>5 DEF TypeFile
    <2> DEFINE t == NewThread(a, fop)
    <2>2. t \in Thread
      <3>1. fs[a] \in Thread /\ uid[a] \in Users \cup {None} /\ tid[a] \in 0..MaxTid
        BY <1>1 DEF FSTypes, AppTypes
      <3>2. fs[a].sock \in Nat
        BY <3>1 DEF Thread
      <3>3. fs[a].sock + 1 \in Nat /\ 0 \in 0..MaxRetries
        BY <3>2, Bounds
      <3> QED
        BY <3>1, <3>3 DEF NewThread, Thread
    <2>3. [app |-> a, sock |-> t.sock, copy |-> 0, uid |-> t.uid, tid |-> t.tid] \in VLD
      <3>1. t.sock \in Nat /\ t.uid \in Users \cup {None} /\ t.tid \in 0..MaxTid /\ 0 \in 0..MaxRetries
        BY <2>2, Bounds DEF Thread
      <3> QED
        BY <3>1 DEF VLD
    <2> HIDE DEF t
    <2>4. ASTypes' /\ LineTypes' /\ HistoryTypes'
      BY <1>1, <2>1 DEF ASTypes, LineTypes, HistoryTypes
    <2>5. AppTypes'
      BY <1>1, <2>1 DEF AppTypes, Command
    <2>6. FSTypes' /\ NetTypes'
      BY <1>1, <2>1, <2>2, <2>3 DEF FSTypes, NetTypes, SendVLD, t
    <2>7. BoundTypes'
      BY <1>1, <2>1, CommandTypes
    <2>8. LineInv'
      BY <1>1, <2>1 DEF LineInv, LineTypes, AppTypes, Command
    <2>9. PendingInv'
      BY <1>1, <2>1 DEF PendingInv
    <2> QED
      BY <2>4, <2>5, <2>6, <2>7, <2>8, <2>9, TypesNext
  <1>6. CASE TypeExit(a)
    <2>1. End(a) /\ Command(a)
      BY <1>6 DEF TypeExit
    <2>2. BoundTypes' /\ told' \in [Apps -> BOOLEAN]
      BY <1>1, <2>1, CommandTypes DEF Command, AppTypes
    <2> QED
      BY <2>1, <2>2, EndTypes
  <1> QED
    BY <1>2, <1>3, <1>4, <1>5, <1>6 DEF TypeCommand

\* A process that reads an answer keeps the types.
LEMMA ReportTypes ==
  ASSUME Types, NEW a \in Apps, pc[a] = "FS", NEW st, Report(a, st)
  PROVE  /\ pc' \in [Apps -> {"prompt", "AS", "FS", "dead"}]
         /\ told' \in [Apps -> BOOLEAN]
         /\ session' \in [Apps -> {"none", "open", "freed", "gone"}]
         /\ \A b \in Apps : pc[b] = "AS" => pc'[b] = "AS"
         /\ \A b \in Apps : session'[b] = "open" => session[b] = "open"
PROOF
  <1>1. AppTypes /\ LineTypes
    BY TypesNow
  <1> QED
    BY <1>1 DEF Report, Prompt, AppTypes, LineTypes

LEMMA AppStepTypes ==
  ASSUME Types, NEW a \in Apps, AppStep(a)
  PROVE  Types'
PROOF
  <1>1. /\ ASTypes /\ LineTypes /\ AppTypes /\ FSTypes
        /\ NetTypes /\ HistoryTypes /\ BoundTypes /\ LineInv /\ PendingInv
    BY TypesNow
  <1>2. /\ UNCHANGED <<ticketVars, asVars, rid, fs, netVars, history, bounds>>
        /\ toAS' \in {toAS, [toAS EXCEPT ![a] = None]}
        /\ toApp' \in {toApp, [toApp EXCEPT ![a] = None]}
        /\ toUser' \in {toUser, [toUser EXCEPT ![a] = None]}
    BY DEF AppStep, ReceiveRLO, ReceiveRRQ, ReceiveRAU, ReceiveNothing, ReceiveRLS, ReceiveReply, ReceiveCut
  <1>3. ASTypes' /\ NetTypes' /\ HistoryTypes' /\ BoundTypes' /\ PendingInv'
    BY <1>1, <1>2 DEF ASTypes, NetTypes, HistoryTypes, BoundTypes, PendingInv
  <1>4. FSTypes'
    BY <1>1, <1>2 DEF FSTypes
  <1>5. /\ toAS' \in [Apps -> LogMsg \cup ReqMsg \cup AutMsg \cup {None}]
        /\ toApp' \in [Apps -> RLO \cup RRQ \cup RAU \cup {ERR, None}]
        /\ asPc' \in [Apps -> {"recv", "challenge", "closed"}]
        /\ rid' \in [Apps -> Rids \cup {None}]
    BY <1>1, <1>2 DEF LineTypes, AppTypes
  <1>6. CASE ReceiveRLO(a) \/ ReceiveRRQ(a)
    <2>1. LineTypes'
      BY <1>1, <1>5, <1>6 DEF LineTypes, ReceiveRLO, ReceiveRRQ
    <2>2. AppTypes'
      <3>1. pc' \in [Apps -> {"prompt", "AS", "FS", "dead"}] /\ uid' \in [Apps -> Users \cup {None}]
        BY <1>1, <1>6 DEF AppTypes, ReceiveRLO, ReceiveRRQ, Prompt
      <3>2. UNCHANGED <<tid, status, told>>
        BY <1>6 DEF ReceiveRLO, ReceiveRRQ
      <3> QED
        BY <1>1, <1>5, <3>1, <3>2 DEF AppTypes
    <2>3. LineInv'
      BY <1>1, <1>2, <1>6 DEF LineInv, ReceiveRLO, ReceiveRRQ, HasAnswer, Prompt, LineTypes, AppTypes
    <2> QED
      BY <1>3, <1>4, <2>1, <2>2, <2>3, TypesNext
  <1>7. CASE ReceiveRAU(a)
    <2>1. LineTypes'
      BY <1>1, <1>5, <1>7 DEF LineTypes, ReceiveRAU
    <2>2. toApp[a] # ERR => toApp[a].tid \in 0..MaxTid
      <3>1. toApp[a].op = "RAU" => toApp[a] \in RAU
        BY <1>7, AnswerKinds DEF Types, ReceiveRAU, HasAnswer
      <3>2. toApp[a] # None /\ toApp[a].op \in {"RAU", "ERR"} /\ toApp[a] \in RLO \cup RRQ \cup RAU \cup {ERR}
        BY <1>1, <1>7 DEF ReceiveRAU, HasAnswer, LineTypes
      <3>3. toApp[a] # ERR => toApp[a] \in RAU
        BY <3>1, <3>2 DEF RLO, RRQ
      <3> QED
        BY <3>3 DEF RAU
    <2>3. AppTypes'
      BY <1>1, <1>5, <1>7, <2>2 DEF AppTypes, ReceiveRAU, Prompt
    <2>4. LineInv'
      BY <1>1, <1>2, <1>7 DEF LineInv, ReceiveRAU, HasAnswer, Prompt, LineTypes, AppTypes
    <2> QED
      BY <1>3, <1>4, <2>1, <2>3, <2>4, TypesNext
  <1>8. CASE ReceiveNothing(a)
    <2>1. LineTypes'
      BY <1>1, <1>5, <1>8 DEF LineTypes, ReceiveNothing
    <2>2. AppTypes'
      <3>1. pc' \in [Apps -> {"prompt", "AS", "FS", "dead"}] /\ uid' \in [Apps -> Users \cup {None}]
        BY <1>1, <1>8 DEF AppTypes, ReceiveNothing, Prompt
      <3>2. UNCHANGED <<tid, status, told>>
        BY <1>8 DEF ReceiveNothing
      <3> QED
        BY <1>1, <1>5, <3>1, <3>2 DEF AppTypes
    <2>3. LineInv'
      BY <1>1, <1>2, <1>8 DEF LineInv, ReceiveNothing, Prompt, LineTypes, AppTypes
    <2> QED
      BY <1>3, <1>4, <2>1, <2>2, <2>3, TypesNext
  <1>9. CASE ReceiveRLS(a)
    <2>1. LineTypes'
      BY <1>1, <1>5, <1>9 DEF LineTypes, ReceiveRLS
    <2>2. AppTypes'
      <3>1. pc' \in [Apps -> {"prompt", "AS", "FS", "dead"}] /\ uid' \in [Apps -> Users \cup {None}]
        BY <1>1, <1>9 DEF AppTypes, ReceiveRLS, Prompt
      <3>2. UNCHANGED <<tid, status, told>>
        BY <1>9 DEF ReceiveRLS
      <3> QED
        BY <1>1, <1>5, <3>1, <3>2 DEF AppTypes
    <2>3. LineInv'
      <3>1. /\ \A b \in Apps : pc[b] = "AS" => pc'[b] = "AS"
            /\ \A b \in Apps : session'[b] = "open" => session[b] = "open"
        BY <1>1, <1>9 DEF ReceiveRLS, Prompt, LineTypes, AppTypes
      <3>2. UNCHANGED <<asPc, toAS, toApp>>
        BY <1>9 DEF ReceiveRLS
      <3> QED
        BY <1>1, <3>1, <3>2 DEF LineInv
    <2> QED
      BY <1>3, <1>4, <2>1, <2>2, <2>3, TypesNext
  <1>10. CASE ReceiveReply(a) \/ ReceiveCut(a)
    <2>1. /\ pc' \in [Apps -> {"prompt", "AS", "FS", "dead"}]
          /\ told' \in [Apps -> BOOLEAN]
          /\ session' \in [Apps -> {"none", "open", "freed", "gone"}]
          /\ \A b \in Apps : pc[b] = "AS" => pc'[b] = "AS"
          /\ \A b \in Apps : session'[b] = "open" => session[b] = "open"
      <3>1. CASE Report(a, toUser[a]) \/ Report(a, status[a])
        BY <1>10, <3>1, ReportTypes DEF ReceiveReply, ReceiveCut
      <3>2. CASE pc[a] = "FS" /\ Prompt(a) /\ UNCHANGED <<told, session>>
        BY <1>1, <3>2 DEF Prompt, AppTypes, LineTypes
      <3> QED
        BY <1>10, <3>1, <3>2 DEF ReceiveReply, ReceiveCut
    <2>2. LineTypes'
      BY <1>5, <2>1 DEF LineTypes
    <2>3. status' \in [Apps -> Answers \cup {""}]
      BY <1>1, <1>10 DEF AppTypes, ReceiveReply, ReceiveCut
    <2>4. AppTypes'
      BY <1>1, <1>5, <1>10, <2>1, <2>3 DEF AppTypes, ReceiveReply, ReceiveCut
    <2>5. LineInv'
      BY <1>1, <1>2, <1>10, <2>1 DEF LineInv, ReceiveReply, ReceiveCut, LineTypes
    <2> QED
      BY <1>3, <1>4, <2>2, <2>4, <2>5, TypesNext
  <1> QED
    BY <1>6, <1>7, <1>8, <1>9, <1>10 DEF AppStep

\* A thread of the AS that serves a line keeps the types.  The line is that of
\* a process that waits, or is gone.
LEMMA ServeTypes ==
  ASSUME Types, NEW a \in Apps, NEW m \in RLO \cup RRQ \cup RAU \cup {ERR}, Answer(a, m),
         toAS[a] # None, UNCHANGED <<session, appVars>>
  PROVE  LineTypes' /\ AppTypes' /\ BoundTypes' /\ LineInv'
PROOF
  <1>1. LineTypes /\ AppTypes /\ BoundTypes /\ LineInv
    BY TypesNow
  <1>2. LineTypes' /\ BoundTypes'
    BY <1>1, AnswerTypes DEF Types, LineTypes, BoundTypes
  <1>3. AppTypes'
    BY <1>1 DEF AppTypes
  <1>4. \A b \in Apps : asPc'[b] = "challenge" => b # a /\ asPc[b] = "challenge" /\ toAS'[b] = toAS[b]
    BY AnswerTypes DEF Types
  <1>5. \A b \in Apps : /\ toAS'[b] # None => toApp'[b] = None /\ (session[b] = "open" => pc[b] = "AS")
                        /\ toApp'[b] # None => pc[b] = "AS"
    BY <1>1 DEF LineInv, Answer, LineTypes
  <1>6. LineInv'
    BY <1>1, <1>4, <1>5 DEF LineInv
  <1> QED
    BY <1>2, <1>3, <1>6

LEMMA AnswerForms ==
  /\ \A ok \in BOOLEAN : [op |-> "RLO", ok |-> ok] \in RLO /\ [op |-> "RRQ", ok |-> ok] \in RRQ
  /\ \A n \in 0..MaxTid : [op |-> "RAU", tid |-> n] \in RAU
PROOF
  BY DEF RLO, RRQ, RAU

\* The steps of the AS that give no ticket and take none.
LEMMA PlainServeTypes ==
  ASSUME Types, NEW a \in Apps,
         ServeLog(a) \/ RefuseReq(a) \/ ChallengeFails(a) \/ ServeShortAut(a)
  PROVE  Types'
PROOF
  <1>1. /\ ASTypes /\ LineTypes /\ AppTypes /\ FSTypes
        /\ NetTypes /\ HistoryTypes /\ BoundTypes /\ LineInv /\ PendingInv
    BY TypesNow
  <1>2. toAS[a] # None
    BY <1>1 DEF LineInv, ServeLog, RefuseReq, ChallengeFails, ServeShortAut, CanServe
  <1>3. PICK m \in RLO \cup RRQ \cup RAU \cup {ERR} : Answer(a, m)
    <2>1. CASE ServeLog(a)
      <3> DEFINE ok == ~logged[toAS[a].uid] /\ toAS[a].right
      <3>1. Answer(a, [op |-> "RLO", ok |-> ok]) /\ ok \in BOOLEAN
        BY <2>1 DEF ServeLog
      <3> HIDE DEF ok
      <3> QED
        BY <3>1, AnswerForms
    <2>2. CASE ~ServeLog(a)
      BY <2>2, AnswerForms DEF RefuseReq, ChallengeFails, ServeShortAut
    <2> QED
      BY <2>1, <2>2
  <1>4. UNCHANGED <<ticket, pending, newTID, session, appVars, fsVars, netVars, history>>
    BY DEF ServeLog, RefuseReq, ChallengeFails, ServeShortAut, AS!LogIn
  <1>5. LineTypes' /\ AppTypes' /\ BoundTypes' /\ LineInv'
    BY <1>2, <1>3, <1>4, ServeTypes
  <1>6. ASTypes'
    <2>1. logged' \in [Users -> BOOLEAN] /\ userID' \in [Apps -> Users \cup {None}]
      <3>1. CASE ServeLog(a)
        <4>1. toAS[a].uid \in Users
          BY <1>2, <3>1, LineKinds DEF Types, ServeLog, CanServe, LogMsg
        <4> QED
          BY <1>1, <3>1, <4>1 DEF ASTypes, ServeLog, AS!LogIn
      <3>2. CASE ~ServeLog(a)
        BY <1>1, <3>2 DEF ASTypes, RefuseReq, ChallengeFails, ServeShortAut
      <3> QED
        BY <3>1, <3>2
    <2> QED
      BY <1>1, <1>4, <2>1 DEF ASTypes
  <1>7. FSTypes' /\ NetTypes' /\ HistoryTypes' /\ PendingInv'
    BY <1>1, <1>4 DEF FSTypes, NetTypes, HistoryTypes, PendingInv
  <1> QED
    BY <1>5, <1>6, <1>7, TypesNext

LEMMA ChallengeTypes ==
  ASSUME Types, NEW a \in Apps, Challenge(a)
  PROVE  Types'
PROOF
  <1>1. /\ ASTypes /\ LineTypes /\ AppTypes /\ FSTypes
        /\ NetTypes /\ HistoryTypes /\ BoundTypes /\ LineInv /\ PendingInv
    BY TypesNow
  <1>2. toAS[a] # None /\ toAS[a] \in ReqMsg /\ toAS[a].uid \in Users
    BY LineKinds DEF Types, Challenge, CanServe, Known
  <1>3. asPc' = [asPc EXCEPT ![a] = "challenge"]
        /\ UNCHANGED <<ticketVars, newTID, userID, lineVars, appVars, fsVars, netVars, history, bounds>>
    BY DEF Challenge
  <1>4. ASTypes' /\ AppTypes' /\ FSTypes' /\ NetTypes' /\ HistoryTypes' /\ BoundTypes' /\ PendingInv'
    BY <1>1, <1>3 DEF ASTypes, AppTypes, FSTypes, NetTypes, HistoryTypes, BoundTypes, PendingInv
  <1>5. LineTypes' /\ LineInv'
    BY <1>1, <1>2, <1>3 DEF LineTypes, LineInv
  <1> QED
    BY <1>4, <1>5, TypesNext

LEMMA DisconnectTypes ==
  ASSUME Types, NEW a \in Apps, Disconnect(a) \/ LoseConnection(a)
  PROVE  Types'
PROOF
  <1>1. /\ ASTypes /\ LineTypes /\ AppTypes /\ FSTypes
        /\ NetTypes /\ HistoryTypes /\ BoundTypes /\ LineInv /\ PendingInv
    BY TypesNow
  <1>2. asPc' = [asPc EXCEPT ![a] = "closed"]
        /\ UNCHANGED <<ticket, pending, newTID, userID, lineVars, appVars, fsVars, netVars, history>>
    BY DEF Disconnect, LoseConnection, AS!LogOut
  <1>3. ASTypes'
    <2>1. logged' \in [Users -> BOOLEAN]
      BY <1>1 DEF ASTypes, Disconnect, LoseConnection, AS!LogOut, Known
    <2> QED
      BY <1>1, <1>2, <2>1 DEF ASTypes
  <1>4. BoundTypes'
    BY <1>1, FaultTypes DEF Disconnect, LoseConnection, BoundTypes
  <1>5. AppTypes' /\ FSTypes' /\ NetTypes' /\ HistoryTypes' /\ PendingInv'
    BY <1>1, <1>2 DEF AppTypes, FSTypes, NetTypes, HistoryTypes, PendingInv
  <1>6. LineTypes' /\ LineInv'
    BY <1>1, <1>2 DEF LineTypes, LineInv
  <1> QED
    BY <1>3, <1>4, <1>5, <1>6, TypesNext

LEMMA GrantTypes ==
  ASSUME Types, NEW a \in Apps, Grant(a)
  PROVE  Types'
PROOF
  <1> DEFINE u == toAS[a].uid
             r == toAS[a].rid
             o == toAS[a].fop
  <1>1. /\ ASTypes /\ LineTypes /\ AppTypes /\ FSTypes
        /\ NetTypes /\ HistoryTypes /\ BoundTypes /\ LineInv /\ PendingInv
    BY TypesNow
  <1>2. toAS[a] # None /\ u \in Users /\ r \in Rids /\ o \in Fops
    BY <1>1 DEF LineInv, Grant, ReqMsg
  <1> HIDE DEF u, r, o
  <1>3. /\ newTID <= MaxTid /\ AS!Grant(u, r, newTID - 1, newTID, o) /\ newTID' = newTID + 1
        /\ fs' = [b \in Apps |-> [fs[b] EXCEPT !.due = @ /\ fs[b].uid # u]]
        /\ Answer(a, [op |-> "RRQ", ok |-> TRUE])
        /\ UNCHANGED <<userID, session, appVars, toUser, netVars, history>>
    BY DEF Grant, u, r, o
  <1>4. newTID \in Tids /\ newTID - 1 \in Codes /\ newTID + 1 \in 1..(MaxTid + 1)
    BY <1>1, <1>3, Bounds DEF ASTypes, Tids, Codes
  <1>5. [tid |-> newTID, fop |-> o] \in AS!Ticket /\ [rid |-> r, vc |-> newTID - 1, tid |-> newTID] \in AS!Pending
    BY <1>2, <1>4 DEF AS!Ticket, AS!Pending
  <1>6. LineTypes' /\ AppTypes' /\ BoundTypes' /\ LineInv'
    BY <1>2, <1>3, AnswerForms, ServeTypes
  <1>7. ASTypes' /\ PendingInv'
    <2>1. /\ ticket' = [ticket EXCEPT ![u] = [tid |-> newTID, fop |-> o]]
          /\ pending' = [pending EXCEPT ![u] = [rid |-> r, vc |-> newTID - 1, tid |-> newTID]]
          /\ UNCHANGED <<logged, userID>>
      BY <1>3 DEF AS!Grant
    <2>2. ticket' \in [Users -> AS!Ticket \cup {None}] /\ pending' \in [Users -> AS!Pending \cup {None}]
      BY <1>1, <1>5, <2>1 DEF ASTypes
    <2>3. ASTypes'
      BY <1>1, <1>3, <1>4, <2>1, <2>2 DEF ASTypes
    <2>4. PendingInv'
      BY <1>1, <1>2, <1>5, <2>1 DEF ASTypes, PendingInv
    <2> QED
      BY <2>3, <2>4
  <1>8. FSTypes'
    <2>1. \A b \in Apps : [fs[b] EXCEPT !.due = @ /\ fs[b].uid # u] \in Thread
      <3> TAKE b \in Apps
      <3>1. fs[b] \in Thread /\ (fs[b].due /\ fs[b].uid # u) \in BOOLEAN
        BY <1>1 DEF FSTypes, Thread
      <3> QED
        BY <3>1 DEF Thread
    <2> QED
      BY <1>1, <1>3, <2>1 DEF FSTypes
  <1>9. NetTypes' /\ HistoryTypes'
    BY <1>1, <1>3 DEF NetTypes, HistoryTypes
  <1> QED
    BY <1>6, <1>7, <1>8, <1>9, TypesNext

LEMMA ServeAutTypes ==
  ASSUME Types, NEW a \in Apps, ServeAut(a)
  PROVE  Types'
PROOF
  <1> DEFINE u == toAS[a].uid
             ok == pending[u] # None /\ pending[u].rid = toAS[a].rid /\ pending[u].vc = toAS[a].vc
  <1>1. /\ ASTypes /\ LineTypes /\ AppTypes /\ FSTypes
        /\ NetTypes /\ HistoryTypes /\ BoundTypes /\ LineInv /\ PendingInv
    BY TypesNow
  <1>2. /\ toAS[a] # None /\ u \in Users
        /\ IF ok
           THEN /\ AS!Spend(u)
                /\ confirmed' = confirmed \cup {[uid |-> u, tid |-> pending[u].tid, fop |-> ticket[u].fop]}
           ELSE UNCHANGED <<ticketVars, confirmed>>
        /\ Answer(a, [op |-> "RAU", tid |-> IF ok THEN pending[u].tid ELSE 0])
        /\ UNCHANGED <<newTID, userID, session, appVars, fsVars, netVars, removed>>
    BY DEF ServeAut, CanServe, Known
  <1>3. ok => /\ pending[u].tid \in Tids /\ ticket[u].fop \in Fops
    BY <1>1, <1>2 DEF ASTypes, PendingInv, AS!Ticket, AS!Pending
  <1> HIDE DEF u, ok
  <1>4. LineTypes' /\ AppTypes' /\ BoundTypes' /\ LineInv'
    <2>1. (IF ok THEN pending[u].tid ELSE 0) \in 0..MaxTid
      <3>1. 0 \in 0..MaxTid /\ Tids \subseteq 0..MaxTid
        BY Bounds DEF Tids
      <3> QED
        BY <1>3, <3>1
    <2> QED
      BY <1>2, <2>1, AnswerForms, ServeTypes
  <1>5. ASTypes' /\ PendingInv'
    <2>1. pending' \in {pending, [pending EXCEPT ![u] = None]} /\ UNCHANGED <<logged, ticket, newTID, userID>>
      BY <1>2 DEF AS!Spend
    <2> QED
      BY <1>1, <1>2, <2>1 DEF ASTypes, PendingInv
  <1>6. HistoryTypes'
    BY <1>1, <1>2, <1>3 DEF HistoryTypes
  <1>7. FSTypes' /\ NetTypes'
    BY <1>1, <1>2 DEF FSTypes, NetTypes
  <1> QED
    BY <1>4, <1>5, <1>6, <1>7, TypesNext

LEMMA ASStepTypes ==
  ASSUME Types, NEW a \in Apps, ASStep(a)
  PROVE  Types'
PROOF
  BY PlainServeTypes, ChallengeTypes, GrantTypes, ServeAutTypes, DisconnectTypes DEF ASStep

\* A step that only FS, UDP and the AS's answer to it take keeps the types.
LEMMA QuietTypes ==
  ASSUME Types, UNCHANGED <<ticket, pending, asVars, lineVars, appVars>>,
         logged' \in [Users -> BOOLEAN], FSTypes', NetTypes', HistoryTypes', BoundTypes'
  PROVE  Types'
PROOF
  <1>1. ASTypes /\ LineTypes /\ AppTypes /\ LineInv /\ PendingInv
    BY TypesNow
  <1>2. ASTypes' /\ LineTypes' /\ AppTypes'
    BY <1>1 DEF ASTypes, LineTypes, AppTypes
  <1>3. LineInv' /\ PendingInv'
    BY <1>1 DEF LineInv, PendingInv
  <1> QED
    BY <1>2, <1>3, TypesNext

\* What is left of a thread is a thread.
LEMMA EndedTypes ==
  ASSUME NEW t \in Thread, NEW o \in {"none", "done", "refused", "cut"}
  PROVE  /\ Ended(t, o) \in Thread /\ Ended(t, o).pc = "end" /\ Ended(t, o).outcome = o
         /\ Ended(t, o).due = FALSE /\ Ended(t, o).sock = t.sock /\ Ended(t, o).fop = t.fop
         /\ Ended(t, o).tid = 0
PROOF
  <1>1. t.fop \in Fops /\ t.sock \in Nat /\ 0 \in 0..MaxTid /\ 0 \in 0..MaxRetries
    BY Bounds DEF Thread
  <1> QED
    BY <1>1 DEF Ended, NoThread, Thread

LEMMA ReplyTypes ==
  ASSUME FSTypes, NetTypes, NEW a \in Apps, NEW answer \in Answers, Reply(a, answer)
  PROVE  FSTypes' /\ NetTypes'
PROOF
  <1>1. toUser' \in [Apps -> Answers \cup {"cut", None}]
    BY DEF FSTypes, Reply
  <1>2. fs' \in [Apps -> Thread]
    <2>1. Ended(fs[a], IF answer = "OK" THEN "done" ELSE "refused") \in Thread
      BY EndedTypes DEF FSTypes
    <2>2. fs' = [fs EXCEPT ![a] = Ended(fs[a], IF answer = "OK" THEN "done" ELSE "refused")]
      BY DEF Reply
    <2> QED
      BY <2>1, <2>2 DEF FSTypes
  <1>3. NetTypes'
    BY DEF NetTypes, Reply, OthersOf, LateCopies
  <1> QED
    BY <1>1, <1>2, <1>3 DEF FSTypes

LEMMA FSStepTypes ==
  ASSUME Types, NEW a \in Apps, FSStep(a)
  PROVE  Types'
PROOF
  <1>1. ASTypes /\ FSTypes /\ NetTypes /\ HistoryTypes /\ BoundTypes
    BY TypesNow
  <1>2. UNCHANGED <<ticketVars, asVars, lineVars, appVars, history, bounds>>
    BY DEF FSStep, Retransmit, GiveUp, Run, ReceiveCNF, ReceiveOther
  <1>3. logged' \in [Users -> BOOLEAN] /\ HistoryTypes' /\ BoundTypes'
    BY <1>1, <1>2 DEF ASTypes, HistoryTypes, BoundTypes
  <1>4. fs[a] \in Thread
    BY <1>1 DEF FSTypes
  <1>5. CASE Retransmit(a)
    <2>1. /\ fs' = [fs EXCEPT ![a].tries = @ + 1] /\ SendVLD(a, fs[a], fs[a].tries + 1)
          /\ UNCHANGED <<toUser, cnfs>>
      BY <1>5 DEF Retransmit
    <2>2. fs[a].tries + 1 \in 0..MaxRetries
      BY <1>4, <1>5, Bounds DEF Retransmit, Thread
    <2>3. [fs[a] EXCEPT !.tries = fs[a].tries + 1] \in Thread
      BY <1>4, <2>2 DEF Thread
    <2>4. [app |-> a, sock |-> fs[a].sock, copy |-> fs[a].tries + 1, uid |-> fs[a].uid, tid |-> fs[a].tid] \in VLD
      BY <1>4, <2>2 DEF Thread, VLD
    <2>5. FSTypes' /\ NetTypes'
      BY <1>1, <2>1, <2>3, <2>4 DEF FSTypes, NetTypes, SendVLD
    <2> QED
      BY <1>2, <1>3, <2>5, QuietTypes
  <1>6. CASE \E answer \in Answers : Reply(a, answer)
    BY <1>1, <1>2, <1>3, <1>6, ReplyTypes, QuietTypes
  <1>7. CASE \E c \in cnfs : ReceiveCNF(a, c)
    <2>1. fs' = [fs EXCEPT ![a].pc = "run"] /\ cnfs' = OthersOf(a) /\ UNCHANGED <<toUser, vlds>>
      BY <1>7 DEF ReceiveCNF
    <2>2. [fs[a] EXCEPT !.pc = "run"] \in Thread
      BY <1>4 DEF Thread
    <2>3. FSTypes' /\ NetTypes'
      BY <1>1, <2>1, <2>2 DEF FSTypes, NetTypes, OthersOf
    <2> QED
      BY <1>2, <1>3, <2>3, QuietTypes
  <1> QED
    BY <1>5, <1>6, <1>7 DEF FSStep, GiveUp, Run, ReceiveOther, Answers

LEMMA CrashTypes ==
  ASSUME Types, CrashFS
  PROVE  Types'
PROOF
  <1>1. ASTypes /\ FSTypes /\ NetTypes /\ HistoryTypes /\ BoundTypes
    BY TypesNow
  <1>2. UNCHANGED <<ticketVars, asVars, lineVars, appVars, history>> /\ BoundTypes'
    BY <1>1, FaultTypes DEF CrashFS
  <1>3. logged' \in [Users -> BOOLEAN] /\ HistoryTypes'
    BY <1>1, <1>2 DEF ASTypes, HistoryTypes
  <1>4. FSTypes'
    <2>1. \A a \in Apps : Ended(fs[a], "cut") \in Thread
      BY <1>1, EndedTypes DEF FSTypes
    <2> QED
      BY <1>1, <2>1 DEF FSTypes, CrashFS
  <1>5. NetTypes'
    BY <1>1 DEF NetTypes, CrashFS
  <1> QED
    BY <1>2, <1>3, <1>4, <1>5, QuietTypes

LEMMA ValidateTypes ==
  ASSUME Types, NEW d \in vlds, Validate(d)
  PROVE  Types'
PROOF
  <1> DEFINE ok == Known(d.uid) /\ ticket[d.uid] # None /\ ticket[d.uid].tid = d.tid
             fop == IF ok THEN ticket[d.uid].fop ELSE None
  <1>1. ASTypes /\ FSTypes /\ NetTypes /\ HistoryTypes /\ BoundTypes
    BY TypesNow
  <1>2. d \in VLD
    BY <1>1 DEF NetTypes
  <1>3. fop \in Fops \cup {None} /\ (fop # None => d.uid \in Users)
    BY <1>1, <1>2 DEF ASTypes, VLD, Known, AS!Ticket
  <1> HIDE DEF ok
  <1>4. /\ vlds' = vlds \ {d}
        /\ cnfs' \in {cnfs, cnfs \cup {[app |-> d.app, sock |-> d.sock, fop |-> fop]}}
        /\ IF fop = RemoveOp
           THEN AS!LogOut(d.uid) /\ removed' = removed \cup {d.uid}
           ELSE UNCHANGED <<ticketVars, removed>>
        /\ UNCHANGED <<asVars, lineVars, appVars, fsVars, confirmed, bounds>>
    BY DEF Validate, ok
  <1> HIDE DEF fop
  <1>5. NetTypes'
    <2>1. [app |-> d.app, sock |-> d.sock, fop |-> fop] \in CNF
      BY <1>2, <1>3 DEF VLD, CNF
    <2> QED
      BY <1>1, <1>4, <2>1 DEF NetTypes
  <1>6. logged' \in [Users -> BOOLEAN] /\ UNCHANGED <<ticket, pending>> /\ HistoryTypes'
    BY <1>1, <1>3, <1>4, Bounds DEF ASTypes, HistoryTypes, AS!LogOut
  <1>7. FSTypes' /\ BoundTypes'
    BY <1>1, <1>4 DEF FSTypes, BoundTypes
  <1> QED
    BY <1>4, <1>5, <1>6, <1>7, QuietTypes

LEMMA TypesStep == Types /\ [Next]_vars => Types'
PROOF
  <1> SUFFICES ASSUME Types, [Next]_vars PROVE Types'
    OBVIOUS
  <1>1. CASE UNCHANGED vars
    BY <1>1 DEF vars, Types, TypeOK, LineInv, PendingInv
  <1>2. ASSUME NEW a \in Apps, Kill(a) PROVE Types'
    <2>1. BoundTypes' /\ told' \in [Apps -> BOOLEAN] /\ End(a)
      BY <1>2, TypesNow, FaultTypes DEF Kill, AppTypes
    <2> QED
      BY <2>1, EndTypes
  <1> QED
    BY <1>1, <1>2, TypeStep, AppStepTypes, ASStepTypes, FSStepTypes, DisconnectTypes, ValidateTypes, CrashTypes
    DEF Next, Failure

\* Every variable keeps its type, and no datagram is numbered beyond the copies
\* validate() sends.
THEOREM TypeCorrectness == Spec => []TypeOK
PROOF
  <1>1. Init => Types
    BY InitTypes
  <1>2. Types /\ [Next]_vars => Types'
    BY TypesStep
  <1>3. Types => TypeOK
    BY DEF Types
  <1> QED
    BY <1>1, <1>2, <1>3, PTL DEF Spec

----------------------------------------------------------------------------
\* SuccessIsTruthful

\* A process that waits for FS, and no other, has a thread of FS or its answer,
\* and the answer is what the thread did.
ReplyInv == \A a \in Apps :
  /\ pc[a] \in {"prompt", "AS"} => fs[a].pc = "end"
  /\ toUser[a] # None => pc[a] = "FS" /\ fs[a].pc = "end"
  /\ toUser[a] = "OK" => fs[a].outcome = "done"
  /\ toUser[a] = "cut" => fs[a].outcome = "cut"
  /\ told[a] => pc[a] = "dead" \/ (pc[a] = "prompt" /\ fs[a].outcome \in {"done", "cut"})

LEMMA ReplyInit == Init => ReplyInv
PROOF
  <1> SUFFICES ASSUME Init PROVE ReplyInv
    OBVIOUS
  <1>1. NoThread.pc = "end"
    BY DEF NoThread
  <1>2. \A a \in Apps : pc[a] = "prompt" /\ fs[a].pc = "end" /\ toUser[a] = None /\ told[a] = FALSE
    BY <1>1 DEF Init
  <1> QED
    BY <1>2, NoneAssumption DEF ReplyInv, Answers

\* The variables of ReplyInv.
LEMMA ReplyVars ==
  ASSUME Types
  PROVE  /\ pc \in [Apps -> {"prompt", "AS", "FS", "dead"}] /\ told \in [Apps -> BOOLEAN]
         /\ fs \in [Apps -> Thread] /\ toUser \in [Apps -> Answers \cup {"cut", None}]
         /\ None # "OK" /\ None # "cut"
PROOF
  BY TypesNow, NoneAssumption DEF AppTypes, FSTypes, Answers

\* Steps that no process takes and that end no thread.
LEMMA ReplyFrame ==
  ASSUME Types, ReplyInv, UNCHANGED <<pc, told, toUser>>,
         \A b \in Apps : (fs'[b].pc = "end" <=> fs[b].pc = "end") /\ fs'[b].outcome = fs[b].outcome
  PROVE  ReplyInv'
PROOF
  BY DEF ReplyInv

LEMMA ReplyCommand ==
  ASSUME Types, ReplyInv, NEW a \in Apps, TypeCommand(a)
  PROVE  ReplyInv'
PROOF
  <1>1. AppTypes /\ FSTypes
    BY TypesNow
  <1>2. pc[a] = "prompt" /\ fs[a].pc = "end" /\ toUser[a] = None /\ told' = [told EXCEPT ![a] = FALSE]
    BY DEF ReplyInv, TypeCommand, TypeLogin, TypeReq, TypeVal, TypeFile, TypeExit, AskAS, Command
  <1>3. CASE UNCHANGED <<fs, toUser>>
    <2>1. pc' \in {pc, [pc EXCEPT ![a] = "AS"], [pc EXCEPT ![a] = "FS"], [pc EXCEPT ![a] = "dead"]}
      BY DEF TypeCommand, TypeLogin, TypeReq, TypeVal, TypeFile, TypeExit, AskAS, End
    <2> QED
      BY <1>2, <1>3, <2>1, ReplyVars DEF ReplyInv
  <1>4. CASE TypeFile(a)
    <2>1. PICK fop \in Fops : /\ pc' = [pc EXCEPT ![a] = "FS"]
                              /\ fs' = [fs EXCEPT ![a] = NewThread(a, fop)]
                              /\ UNCHANGED toUser
      BY <1>4 DEF TypeFile
    <2> QED
      BY <1>1, <1>2, <2>1, NoneAssumption DEF ReplyInv, AppTypes, FSTypes, Answers
  <1>5. CASE End(a)
    BY <1>1, <1>2, <1>5, NoneAssumption DEF ReplyInv, AppTypes, FSTypes, Answers, End
  <1> QED
    BY <1>3, <1>4, <1>5 DEF TypeCommand, TypeLogin, TypeReq, TypeVal, TypeExit, AskAS

LEMMA ReplyKill ==
  ASSUME Types, ReplyInv, NEW a \in Apps, Kill(a)
  PROVE  ReplyInv'
PROOF
  <1>1. AppTypes /\ FSTypes
    BY TypesNow
  <1> QED
    BY <1>1, NoneAssumption DEF ReplyInv, AppTypes, FSTypes, Answers, Kill, End

LEMMA ReplyReport ==
  ASSUME Types, ReplyInv, NEW a \in Apps, pc[a] = "FS", toUser[a] # None, NEW st, Report(a, st),
         st = "OK" => fs[a].outcome \in {"done", "cut"},
         toUser' = [toUser EXCEPT ![a] = None], UNCHANGED fs
  PROVE  ReplyInv'
PROOF
  <1>1. AppTypes /\ FSTypes
    BY TypesNow
  <1>2. pc' \in {[pc EXCEPT ![a] = "prompt"], [pc EXCEPT ![a] = "dead"]} /\ told' = [told EXCEPT ![a] = st = "OK"]
    BY DEF Report, Prompt
  <1> QED
    BY <1>2, ReplyVars DEF ReplyInv

LEMMA ReplyAppStep ==
  ASSUME Types, ReplyInv, NEW a \in Apps, AppStep(a)
  PROVE  ReplyInv'
PROOF
  <1>1. AppTypes /\ FSTypes
    BY TypesNow
  <1>2. CASE ReceiveRLO(a) \/ ReceiveRRQ(a) \/ ReceiveRAU(a) \/ ReceiveNothing(a) \/ ReceiveRLS(a)
    <2>1. /\ pc[a] \in {"AS", "FS"} /\ (pc[a] = "FS" => toUser[a] # None)
          /\ pc' \in {[pc EXCEPT ![a] = "prompt"], [pc EXCEPT ![a] = "dead"]}
          /\ toUser' \in {toUser, [toUser EXCEPT ![a] = None]} /\ (pc[a] = "FS" => toUser'[a] = None)
          /\ UNCHANGED <<told, fs>>
      BY <1>1, <1>2 DEF ReceiveRLO, ReceiveRRQ, ReceiveRAU, ReceiveNothing, ReceiveRLS, HasAnswer, Prompt, FSTypes
    <2> QED
      BY <2>1, ReplyVars DEF ReplyInv
  <1>3. CASE ReceiveReply(a)
    <2>1. toUser[a] # None
      BY <1>3, NoneAssumption DEF ReceiveReply
    <2> QED
      BY <1>3, <2>1, ReplyReport DEF ReceiveReply, ReplyInv
  <1>4. CASE ReceiveCut(a)
    <2>1. toUser[a] # None /\ fs[a].outcome = "cut" /\ pc[a] = "FS"
      BY <1>4, NoneAssumption DEF ReceiveCut, ReplyInv
    <2>2. CASE Report(a, status[a])
      BY <1>4, <2>1, <2>2, ReplyReport DEF ReceiveCut
    <2>3. CASE Prompt(a) /\ UNCHANGED told
      <3>1. toUser' = [toUser EXCEPT ![a] = None] /\ UNCHANGED fs
        BY <1>4 DEF ReceiveCut
      <3> QED
        BY <1>1, <2>1, <2>3, <3>1, NoneAssumption DEF ReplyInv, AppTypes, FSTypes, Answers, Prompt
    <2> QED
      BY <1>4, <2>2, <2>3 DEF ReceiveCut
  <1> QED
    BY <1>2, <1>3, <1>4 DEF AppStep

LEMMA ReplyFSStep ==
  ASSUME Types, ReplyInv, NEW a \in Apps, FSStep(a)
  PROVE  ReplyInv'
PROOF
  <1>1. AppTypes /\ FSTypes /\ UNCHANGED <<pc, told>>
    BY TypesNow DEF FSStep, Retransmit, GiveUp, Run, ReceiveCNF, ReceiveOther
  <1>2. fs[a] \in Thread /\ fs[a].pc # "end"
    BY <1>1 DEF FSTypes, FSStep, Retransmit, GiveUp, Run, ReceiveCNF, ReceiveOther
  <1>3. CASE Retransmit(a) \/ \E c \in cnfs : ReceiveCNF(a, c)
    <2>1. UNCHANGED toUser /\ (fs' = [fs EXCEPT ![a].pc = "run"] \/ fs' = [fs EXCEPT ![a].tries = fs[a].tries + 1])
      BY <1>3 DEF Retransmit, ReceiveCNF
    <2>2. \A b \in Apps : (fs'[b].pc = "end" <=> fs[b].pc = "end") /\ fs'[b].outcome = fs[b].outcome
      BY <1>1, <1>2, <2>1 DEF FSTypes, Thread
    <2> QED
      BY <1>1, <2>1, <2>2, ReplyFrame
  <1>4. CASE \E answer \in Answers : Reply(a, answer)
    <2>1. PICK answer \in Answers : Reply(a, answer)
      BY <1>4
    <2> DEFINE o == IF answer = "OK" THEN "done" ELSE "refused"
    <2>2. /\ toUser' = [toUser EXCEPT ![a] = IF pc[a] = "FS" THEN answer ELSE None]
          /\ fs' = [fs EXCEPT ![a] = Ended(fs[a], o)]
      BY <2>1 DEF Reply
    <2>3. Ended(fs[a], o).pc = "end" /\ Ended(fs[a], o).outcome = o
      BY <1>2, EndedTypes
    <2>4. pc[a] \in {"FS", "dead"} /\ (told[a] => pc[a] = "dead")
      BY <1>1, <1>2 DEF ReplyInv, AppTypes
    <2>5. fs'[a].pc = "end" /\ fs'[a].outcome = o /\ \A b \in Apps \ {a} : fs'[b] = fs[b]
      BY <1>1, <2>2, <2>3 DEF FSTypes
    <2>6. toUser'[a] \in {answer, None} /\ (toUser'[a] # None => pc[a] = "FS") /\ \A b \in Apps \ {a} : toUser'[b] = toUser[b]
      BY <1>1, <2>2 DEF FSTypes
    <2> QED
      BY <1>1, <2>4, <2>5, <2>6, NoneAssumption DEF ReplyInv, Answers
  <1> QED
    BY <1>3, <1>4 DEF FSStep, GiveUp, Run, ReceiveOther, Answers

LEMMA ReplyCrash ==
  ASSUME Types, ReplyInv, CrashFS
  PROVE  ReplyInv'
PROOF
  <1>1. AppTypes /\ FSTypes
    BY TypesNow
  <1>2. \A a \in Apps : Ended(fs[a], "cut").pc = "end" /\ Ended(fs[a], "cut").outcome = "cut"
    BY <1>1, EndedTypes DEF FSTypes
  <1>3. /\ \A a \in Apps : fs'[a] = IF fs[a].pc = "end" THEN fs[a] ELSE Ended(fs[a], "cut")
        /\ \A a \in Apps : toUser'[a] = IF fs[a].pc # "end" /\ pc[a] = "FS" THEN "cut" ELSE toUser[a]
        /\ UNCHANGED <<pc, told>>
    BY DEF CrashFS
  <1> QED
    BY <1>2, <1>3, ReplyVars DEF ReplyInv

LEMMA ReplyStep == Types /\ ReplyInv /\ [Next]_vars => ReplyInv'
PROOF
  <1> SUFFICES ASSUME Types, ReplyInv, [Next]_vars PROVE ReplyInv'
    OBVIOUS
  <1>1. FSTypes
    BY TypesNow
  <1>2. CASE UNCHANGED vars
    BY <1>2 DEF vars, ReplyInv
  <1>3. ASSUME NEW a \in Apps, ASStep(a) \/ LoseConnection(a) PROVE ReplyInv'
    <2>1. UNCHANGED <<pc, told, toUser>> /\ (UNCHANGED fs \/ Grant(a))
      BY <1>3 DEF ASStep, ServeLog, RefuseReq, Challenge, Grant, ChallengeFails, ServeAut, ServeShortAut, Disconnect, LoseConnection
    <2>2. \A b \in Apps : fs'[b].pc = fs[b].pc /\ fs'[b].outcome = fs[b].outcome
      BY <1>1, <2>1 DEF Grant, FSTypes, Thread
    <2> QED
      BY <2>1, <2>2, ReplyFrame
  <1>4. ASSUME NEW d \in vlds, Validate(d) PROVE ReplyInv'
    BY <1>4, ReplyFrame DEF Validate
  <1> QED
    BY <1>2, <1>3, <1>4, ReplyCommand, ReplyKill, ReplyAppStep, ReplyFSStep, ReplyCrash DEF Next, Failure

\* A command that reports success was carried out, unless FS died before it
\* answered, whatever the status of earlier commands and the order of replies.
THEOREM SuccessTruthful == Spec => []SuccessIsTruthful
PROOF
  <1> DEFINE Inv == Types /\ ReplyInv
  <1>1. Init => Inv
    BY InitTypes, ReplyInit
  <1>2. Inv /\ [Next]_vars => Inv'
    BY TypesStep, ReplyStep
  <1>3. Inv => SuccessIsTruthful
    BY DEF ReplyInv, SuccessIsTruthful
  <1> QED
    BY <1>1, <1>2, <1>3, PTL DEF Spec

----------------------------------------------------------------------------
\* OnlyConfirmed

Confirmed(u, n, fop) == [uid |-> u, tid |-> n, fop |-> fop] \in confirmed

HasTicket(u) == ticket[u] \in AS!Ticket

\* A TID names one ticket: TIDs are not used again, so that a TID that was
\* confirmed is its user's ticket, with the operation it was asked for, or
\* nobody's.
TicketInv ==
  /\ \A u \in Users : HasTicket(u) => ticket[u].tid < newTID
  /\ \A u, v \in Users : HasTicket(u) /\ HasTicket(v) /\ ticket[u].tid = ticket[v].tid => u = v
  /\ \A c \in confirmed : c.tid < newTID
  /\ \A c \in confirmed, u \in Users :
       HasTicket(u) /\ ticket[u].tid = c.tid => u = c.uid /\ ticket[u].fop = c.fop

\* What the App can have as TID.
KnownTid(n) == n = 0 \/ \E c \in confirmed : c.tid = n

\* No App, answer, thread or datagram has a TID that was not confirmed.
KnowledgeInv ==
  /\ \A a \in Apps : /\ KnownTid(tid[a]) /\ KnownTid(fs[a].tid)
                     /\ toApp[a] # None /\ toApp[a].op = "RAU" => KnownTid(toApp[a].tid)
  /\ \A d \in vlds : KnownTid(d.tid)

\* A VLD of a thread's socket asks for the thread's user and TID, and a CNF
\* allows what was confirmed for them.
DatagramInv ==
  /\ \A d \in vlds : /\ d.sock <= fs[d.app].sock
                     /\ d.sock = fs[d.app].sock /\ fs[d.app].pc = "awaitCNF" =>
                          d.uid = fs[d.app].uid /\ d.tid = fs[d.app].tid
  /\ \A c \in cnfs : /\ fs[c.app].pc = "awaitCNF"
                     /\ c.fop # None => Confirmed(fs[c.app].uid, fs[c.app].tid, c.fop)
  /\ OnlyConfirmed

LEMMA TicketInit == Init => TicketInv /\ KnowledgeInv /\ DatagramInv
PROOF
  <1> SUFFICES ASSUME Init PROVE TicketInv /\ KnowledgeInv /\ DatagramInv
    OBVIOUS
  <1>1. NoThread.pc = "end" /\ NoThread.tid = 0
    BY DEF NoThread
  <1>2. /\ \A u \in Users : ~HasTicket(u)
        /\ \A a \in Apps : fs[a].pc = "end" /\ fs[a].tid = 0 /\ tid[a] = 0 /\ toApp[a] = None
        /\ confirmed = {} /\ vlds = {} /\ cnfs = {}
    BY <1>1, NoneAssumption DEF Init, AS!Init, HasTicket
  <1> QED
    BY <1>2 DEF TicketInv, KnowledgeInv, DatagramInv, KnownTid, OnlyConfirmed

\* The variables of these invariants.
LEMMA TicketVars ==
  ASSUME Types
  PROVE  /\ newTID \in Nat /\ ticket \in [Users -> AS!Ticket \cup {None}]
         /\ None \notin AS!Ticket /\ \A k \in AS!Ticket : k.tid \in Nat /\ k.tid # 0 /\ k.fop \in Fops
         /\ \A c \in confirmed : c.uid \in Users /\ c.tid \in Nat /\ c.fop \in Fops
         /\ \A c \in confirmed : Confirmed(c.uid, c.tid, c.fop)
         /\ tid \in [Apps -> 0..MaxTid] /\ fs \in [Apps -> Thread]
         /\ vlds \subseteq VLD /\ cnfs \subseteq CNF
PROOF
  <1>1. ASTypes /\ AppTypes /\ FSTypes /\ NetTypes /\ HistoryTypes
    BY TypesNow
  <1>2. newTID \in Nat
    BY <1>1, Bounds DEF ASTypes
  <1>3. \A n \in Tids : n \in Nat /\ n # 0
    BY Bounds DEF Tids
  <1>4. \A k \in AS!Ticket : k.tid \in Nat /\ k.tid # 0 /\ k.fop \in Fops
    BY <1>3 DEF AS!Ticket
  <1>5. \A c \in confirmed : /\ c.uid \in Users /\ c.tid \in Nat /\ c.fop \in Fops
                             /\ c = [uid |-> c.uid, tid |-> c.tid, fop |-> c.fop]
    BY <1>1, <1>3 DEF HistoryTypes
  <1> QED
    BY <1>1, <1>2, <1>4, <1>5, NoneAssumption DEF ASTypes, AppTypes, FSTypes, NetTypes, Confirmed

\* Only REQ and AUT change what TicketInv is about.
LEMMA TicketStep == Types /\ TicketInv /\ [Next]_vars => TicketInv'
PROOF
  <1> SUFFICES ASSUME Types, TicketInv, [Next]_vars PROVE TicketInv'
    OBVIOUS
  <1>0. ASTypes /\ LineInv /\ PendingInv
    BY TypesNow
  <1>1. CASE UNCHANGED <<ticket, newTID, confirmed>>
    BY <1>1 DEF TicketInv, HasTicket
  <1>2. ASSUME NEW a \in Apps, Grant(a) PROVE TicketInv'
    <2> DEFINE u == toAS[a].uid
               k == [tid |-> newTID, fop |-> toAS[a].fop]
    <2>1. u \in Users /\ ticket' = [ticket EXCEPT ![u] = k] /\ newTID' = newTID + 1 /\ UNCHANGED confirmed
      BY <1>0, <1>2 DEF Grant, AS!Grant, LineInv
    <2>2. k.tid = newTID
      OBVIOUS
    <2>3. \A v \in Users : ticket'[v] = IF v = u THEN k ELSE ticket[v]
      BY <2>1, TicketVars
    <2> HIDE DEF k, u
    <2> QED
      BY <2>1, <2>2, <2>3, TicketVars DEF TicketInv, HasTicket
  <1>3. ASSUME NEW a \in Apps, ServeAut(a), ~UNCHANGED confirmed PROVE TicketInv'
    <2> DEFINE u == toAS[a].uid
               n == [uid |-> u, tid |-> pending[u].tid, fop |-> ticket[u].fop]
    <2>1. /\ u \in Users /\ pending[u] # None /\ confirmed' = confirmed \cup {n}
          /\ UNCHANGED <<ticket, newTID>>
      BY <1>3 DEF ServeAut, AS!Spend, Known
    <2>2. HasTicket(u) /\ n.uid = u /\ n.tid = ticket[u].tid /\ n.fop = ticket[u].fop
      BY <1>0, <2>1 DEF PendingInv, HasTicket
    <2> HIDE DEF u, n
    <2> QED
      BY <2>1, <2>2, TicketVars DEF TicketInv, HasTicket
  <1>4. ASSUME NEW a \in Apps, ASStep(a), ~Grant(a) PROVE UNCHANGED <<ticket, newTID>>
    BY <1>4 DEF ASStep, ServeLog, RefuseReq, Challenge, ChallengeFails, ServeAut, ServeShortAut, Disconnect,
                AS!LogIn, AS!LogOut, AS!Spend
  <1>5. ASSUME NEW a \in Apps, ASStep(a), ~ServeAut(a) PROVE UNCHANGED confirmed
    BY <1>5 DEF ASStep, ServeLog, RefuseReq, Challenge, Grant, ChallengeFails, ServeShortAut, Disconnect
  <1>6. ASSUME NEW a \in Apps, TypeCommand(a) \/ AppStep(a) \/ FSStep(a) \/ Failure(a)
        PROVE  UNCHANGED <<ticket, newTID, confirmed>>
    BY <1>6 DEF TypeCommand, TypeLogin, TypeReq, TypeVal, TypeFile, TypeExit, AskAS, End, Failure, Kill,
                LoseConnection, AppStep, ReceiveRLO, ReceiveRRQ, ReceiveRAU, ReceiveNothing, ReceiveRLS,
                ReceiveReply, ReceiveCut, FSStep, Retransmit, GiveUp, Run, ReceiveCNF, ReceiveOther
  <1>7. ASSUME NEW d \in vlds, Validate(d) PROVE UNCHANGED <<ticket, newTID, confirmed>>
    BY <1>7 DEF Validate, AS!LogOut
  <1>8. CrashFS \/ UNCHANGED vars => UNCHANGED <<ticket, newTID, confirmed>>
    BY DEF CrashFS, vars
  <1> QED
    BY <1>1, <1>2, <1>3, <1>4, <1>5, <1>6, <1>7, <1>8 DEF Next

\* Nothing that was confirmed is forgotten.
LEMMA ConfirmedGrows == [Next]_vars => confirmed \subseteq confirmed'
PROOF
  <1> SUFFICES ASSUME [Next]_vars PROVE confirmed \subseteq confirmed'
    OBVIOUS
  <1>1. ASSUME NEW a \in Apps, ASStep(a) PROVE confirmed \subseteq confirmed'
    BY <1>1 DEF ASStep, ServeLog, RefuseReq, Challenge, Grant, ChallengeFails, ServeAut, ServeShortAut, Disconnect
  <1>2. ASSUME NEW a \in Apps, TypeCommand(a) \/ AppStep(a) \/ FSStep(a) \/ Failure(a)
        PROVE  UNCHANGED confirmed
    BY <1>2 DEF TypeCommand, TypeLogin, TypeReq, TypeVal, TypeFile, TypeExit, AskAS, End, Failure, Kill,
                LoseConnection, AppStep, ReceiveRLO, ReceiveRRQ, ReceiveRAU, ReceiveNothing, ReceiveRLS,
                ReceiveReply, ReceiveCut, FSStep, Retransmit, GiveUp, Run, ReceiveCNF, ReceiveOther
  <1>3. ASSUME NEW d \in vlds, Validate(d) PROVE UNCHANGED confirmed
    BY <1>3 DEF Validate
  <1>4. CrashFS \/ UNCHANGED vars => UNCHANGED confirmed
    BY DEF CrashFS, vars
  <1> QED
    BY <1>1, <1>2, <1>3, <1>4 DEF Next

\* A command for the AS, or the end of the process.
LEMMA KnowledgeCommand ==
  ASSUME Types, KnowledgeInv, NEW a \in Apps, TypeCommand(a) \/ Kill(a), UNCHANGED confirmed
  PROVE  KnowledgeInv'
PROOF
  <1>1. toApp \in [Apps -> RLO \cup RRQ \cup RAU \cup {ERR, None}]
    BY TypesNow DEF LineTypes
  <1>2. CASE TypeFile(a)
    <2>1. PICK fop \in Fops : /\ fs' = [fs EXCEPT ![a] = NewThread(a, fop)]
                              /\ SendVLD(a, NewThread(a, fop), 0)
                              /\ UNCHANGED <<tid, toApp>>
      BY <1>2 DEF TypeFile
    <2>2. NewThread(a, fop).tid = tid[a]
      BY DEF NewThread
    <2>3. /\ \A b \in Apps : fs'[b].tid \in {fs[b].tid, tid[a]}
          /\ \A d \in vlds' : d \in vlds \/ d.tid = tid[a]
      BY <2>1, <2>2, TicketVars DEF SendVLD
    <2> QED
      BY <2>1, <2>3 DEF KnowledgeInv, KnownTid
  <1>3. CASE UNCHANGED <<tid, fs, toApp, vlds>>
    BY <1>3 DEF KnowledgeInv, KnownTid
  <1>4. CASE End(a)
    <2>1. tid' = [tid EXCEPT ![a] = 0] /\ toApp' = [toApp EXCEPT ![a] = None] /\ UNCHANGED <<fs, vlds>>
      BY <1>4 DEF End
    <2>2. \A b \in Apps : tid'[b] \in {tid[b], 0} /\ toApp'[b] \in {toApp[b], None}
      BY <1>1, <2>1, TicketVars
    <2> QED
      BY <2>1, <2>2 DEF KnowledgeInv, KnownTid
  <1> QED
    BY <1>2, <1>3, <1>4 DEF Kill, TypeCommand, TypeLogin, TypeReq, TypeVal, TypeExit, AskAS

LEMMA KnowledgeAppStep ==
  ASSUME Types, KnowledgeInv, NEW a \in Apps, AppStep(a)
  PROVE  KnowledgeInv'
PROOF
  <1>1. toApp \in [Apps -> RLO \cup RRQ \cup RAU \cup {ERR, None}]
    BY TypesNow DEF LineTypes
  <1>2. UNCHANGED <<fs, vlds, confirmed>> /\ toApp' \in {toApp, [toApp EXCEPT ![a] = None]}
    BY DEF AppStep, ReceiveRLO, ReceiveRRQ, ReceiveRAU, ReceiveNothing, ReceiveRLS, ReceiveReply, ReceiveCut
  <1>3. \A b \in Apps : toApp'[b] \in {toApp[b], None}
    BY <1>1, <1>2
  <1>4. \A b \in Apps : tid'[b] # tid[b] => tid'[b] = toApp[b].tid /\ toApp[b] # None /\ toApp[b].op = "RAU"
    <2>1. CASE ReceiveRAU(a)
      <3>1. /\ tid' = [tid EXCEPT ![a] = IF toApp[a] = ERR THEN tid[a] ELSE toApp[a].tid]
            /\ toApp[a] # None /\ toApp[a].op \in {"RAU", "ERR"}
        BY <2>1 DEF ReceiveRAU, HasAnswer
      <3>2. toApp[a] = ERR \/ toApp[a].op # "ERR"
        BY <1>1, <3>1 DEF RLO, RRQ, RAU
      <3> QED
        BY <3>1, <3>2, TicketVars
    <2>2. CASE ~ReceiveRAU(a)
      BY <2>2 DEF AppStep, ReceiveRLO, ReceiveRRQ, ReceiveNothing, ReceiveRLS, ReceiveReply, ReceiveCut
    <2> QED
      BY <2>1, <2>2
  <1> QED
    BY <1>2, <1>3, <1>4 DEF KnowledgeInv, KnownTid

LEMMA KnowledgeASStep ==
  ASSUME Types, KnowledgeInv, NEW a \in Apps, ASStep(a) \/ LoseConnection(a), [Next]_vars
  PROVE  KnowledgeInv'
PROOF
  <1>1. FSTypes /\ LineTypes /\ PendingInv
    BY TypesNow
  <1>2. confirmed \subseteq confirmed'
    BY ConfirmedGrows
  <1>3. UNCHANGED <<tid, vlds>> /\ \A b \in Apps : fs'[b].tid = fs[b].tid
    <2>1. CASE Grant(a)
      BY <1>1, <2>1 DEF Grant, FSTypes, Thread
    <2>2. CASE ~Grant(a)
      BY <2>2 DEF ASStep, ServeLog, RefuseReq, Challenge, ChallengeFails, ServeAut, ServeShortAut, Disconnect, LoseConnection
    <2> QED
      BY <2>1, <2>2
  <1>4. \A m, b : Answer(a, m) /\ b \in Apps => toApp'[b] \in {toApp[b], None, m}
    BY <1>1 DEF LineTypes, Answer
  <1>5. ASSUME NEW b \in Apps, toApp'[b] # None, toApp'[b].op = "RAU", toApp'[b] # toApp[b]
        PROVE  toApp'[b].tid = 0 \/ \E c \in confirmed' : c.tid = toApp'[b].tid
    <2>1. CASE ServeAut(a)
      <3> DEFINE u == toAS[a].uid
                 ok == pending[u] # None /\ pending[u].rid = toAS[a].rid /\ pending[u].vc = toAS[a].vc
                 n == IF ok THEN pending[u].tid ELSE 0
      <3>1. /\ Answer(a, [op |-> "RAU", tid |-> n])
            /\ ok => confirmed' = confirmed \cup {[uid |-> u, tid |-> pending[u].tid, fop |-> ticket[u].fop]}
        BY <2>1 DEF ServeAut
      <3>2. n = 0 \/ \E c \in confirmed' : c.tid = n
        <4>1. CASE ok
          <5>1. [uid |-> u, tid |-> pending[u].tid, fop |-> ticket[u].fop] \in confirmed' /\ n = pending[u].tid
            BY <3>1, <4>1
          <5> QED
            BY <5>1
        <4>2. CASE ~ok
          BY <4>2
        <4> QED
          BY <4>1, <4>2
      <3> HIDE DEF n, u
      <3>3. toApp'[b] = [op |-> "RAU", tid |-> n]
        BY <1>4, <1>5, <3>1
      <3> QED
        BY <3>2, <3>3
    <2>2. CASE ServeLog(a)
      <3>1. PICK ok : Answer(a, [op |-> "RLO", ok |-> ok])
        BY <2>2 DEF ServeLog
      <3> QED
        BY <1>4, <1>5, <3>1
    <2>3. CASE RefuseReq(a) \/ Grant(a) \/ ChallengeFails(a) \/ ServeShortAut(a)
      <3>1. PICK ok \in BOOLEAN : Answer(a, [op |-> "RRQ", ok |-> ok]) \/ Answer(a, ERR)
        BY <2>3 DEF RefuseReq, Grant, ChallengeFails, ServeShortAut
      <3> QED
        BY <1>4, <1>5, <3>1 DEF ERR
    <2>4. CASE Challenge(a) \/ Disconnect(a) \/ LoseConnection(a)
      BY <1>5, <2>4 DEF Challenge, Disconnect, LoseConnection
    <2> QED
      BY <2>1, <2>2, <2>3, <2>4 DEF ASStep
  <1> QED
    <2>1. \A b \in Apps : /\ tid[b] = 0 \/ \E c \in confirmed : c.tid = tid[b]
                          /\ fs[b].tid = 0 \/ \E c \in confirmed : c.tid = fs[b].tid
                          /\ toApp[b] # None /\ toApp[b].op = "RAU" =>
                              toApp[b].tid = 0 \/ \E c \in confirmed : c.tid = toApp[b].tid
      BY DEF KnowledgeInv, KnownTid
    <2>2. \A d \in vlds : d.tid = 0 \/ \E c \in confirmed : c.tid = d.tid
      BY DEF KnowledgeInv, KnownTid
    <2>3. \A b \in Apps : toApp'[b] # None /\ toApp'[b].op = "RAU" =>
            toApp'[b].tid = 0 \/ \E c \in confirmed' : c.tid = toApp'[b].tid
      BY <1>2, <1>5, <2>1
    <2>4. \A b \in Apps : /\ tid'[b] = 0 \/ \E c \in confirmed' : c.tid = tid'[b]
                          /\ fs'[b].tid = 0 \/ \E c \in confirmed' : c.tid = fs'[b].tid
      <3> TAKE b \in Apps
      <3>1. tid'[b] = tid[b] /\ fs'[b].tid = fs[b].tid
        BY <1>3
      <3> QED
        BY <1>2, <2>1, <3>1
    <2>5. \A d \in vlds' : d.tid = 0 \/ \E c \in confirmed' : c.tid = d.tid
      BY <1>2, <1>3, <2>2
    <2> QED
      BY <2>3, <2>4, <2>5 DEF KnowledgeInv, KnownTid

LEMMA KnowledgeFSStep ==
  ASSUME Types, KnowledgeInv, NEW a \in Apps, FSStep(a)
  PROVE  KnowledgeInv'
PROOF
  <1>1. UNCHANGED <<tid, toApp, confirmed>>
    BY DEF FSStep, Retransmit, GiveUp, Run, ReceiveCNF, ReceiveOther
  <1>2. fs \in [Apps -> Thread]
    BY TicketVars
  <1>3. /\ \A b \in Apps : fs'[b].tid \in {fs[b].tid, 0}
        /\ \A d \in vlds' : d \in vlds \/ d.tid = fs[a].tid
    <2>1. CASE Retransmit(a)
      BY <1>2, <2>1 DEF Retransmit, SendVLD, Thread
    <2>2. CASE \E c \in cnfs : ReceiveCNF(a, c)
      BY <1>2, <2>2 DEF ReceiveCNF, Thread
    <2>3. CASE \E answer \in Answers : Reply(a, answer)
      <3> DEFINE outcome(answer) == IF answer = "OK" THEN "done" ELSE "refused"
      <3>0. PICK answer \in Answers : fs' = [fs EXCEPT ![a] = Ended(fs[a], outcome(answer))]
        BY <2>3 DEF Reply
      <3>1. PICK o \in {"done", "refused"} : fs' = [fs EXCEPT ![a] = Ended(fs[a], o)]
        BY <3>0
      <3>2. Ended(fs[a], o).tid = 0
        <4>1. fs[a] \in Thread /\ o \in {"none", "done", "refused", "cut"}
          BY <1>2
        <4> QED
          BY <4>1, EndedTypes
      <3>3. vlds' \subseteq vlds
        BY <2>3 DEF Reply, LateCopies
      <3> QED
        BY <1>2, <3>1, <3>2, <3>3
    <2> QED
      BY <2>1, <2>2, <2>3 DEF FSStep, GiveUp, Run, ReceiveOther, Answers
  <1> QED
    BY <1>1, <1>3 DEF KnowledgeInv, KnownTid

LEMMA KnowledgeStep == Types /\ KnowledgeInv /\ [Next]_vars => KnowledgeInv'
PROOF
  <1> SUFFICES ASSUME Types, KnowledgeInv, [Next]_vars PROVE KnowledgeInv'
    OBVIOUS
  <1>1. CASE UNCHANGED vars
    BY <1>1 DEF vars, KnowledgeInv, KnownTid
  <1>2. ASSUME NEW d \in vlds, Validate(d) PROVE KnowledgeInv'
    BY <1>2 DEF Validate, KnowledgeInv, KnownTid
  <1>3. CASE CrashFS
    <2>1. \A a \in Apps : fs'[a].tid \in {fs[a].tid, 0}
      <3>1. \A a \in Apps : Ended(fs[a], "cut").tid = 0
        BY TicketVars, EndedTypes
      <3> QED
        BY <1>3, <3>1 DEF CrashFS
    <2> QED
      BY <1>3, <2>1 DEF CrashFS, KnowledgeInv, KnownTid
  <1>4. ASSUME NEW a \in Apps, TypeCommand(a) \/ Kill(a) PROVE KnowledgeInv'
    <2>1. UNCHANGED confirmed
      BY <1>4 DEF TypeCommand, TypeLogin, TypeReq, TypeVal, TypeFile, TypeExit, AskAS, End, Kill
    <2> QED
      BY <1>4, <2>1, KnowledgeCommand
  <1> QED
    BY <1>1, <1>2, <1>3, <1>4, KnowledgeAppStep, KnowledgeASStep, KnowledgeFSStep DEF Next, Failure

\* Steps that leave the threads' commands, and CNF, as they are.
LEMMA DatagramFrame ==
  ASSUME DatagramInv, confirmed \subseteq confirmed', vlds' \subseteq vlds, UNCHANGED cnfs,
         vlds \subseteq VLD, cnfs \subseteq CNF,
         \A b \in Apps : /\ fs'[b].pc = fs[b].pc /\ fs'[b].sock = fs[b].sock /\ fs'[b].uid = fs[b].uid
                         /\ fs'[b].tid = fs[b].tid /\ fs'[b].fop = fs[b].fop
  PROVE  DatagramInv'
PROOF
  <1>1. \A d \in vlds : d.app \in Apps
    BY DEF VLD
  <1>2. \A c \in cnfs : c.app \in Apps
    BY DEF CNF
  <1>3. \A d \in vlds' : /\ d.sock <= fs'[d.app].sock
                         /\ d.sock = fs'[d.app].sock /\ fs'[d.app].pc = "awaitCNF" =>
                              d.uid = fs'[d.app].uid /\ d.tid = fs'[d.app].tid
    BY <1>1 DEF DatagramInv
  <1>4. \A c \in cnfs' : /\ fs'[c.app].pc = "awaitCNF"
                         /\ c.fop # None => Confirmed(fs'[c.app].uid, fs'[c.app].tid, c.fop)
    BY <1>2 DEF DatagramInv
  <1>5. \A c \in cnfs' : /\ fs'[c.app].pc = "awaitCNF"
                         /\ c.fop # None => [uid |-> fs'[c.app].uid, tid |-> fs'[c.app].tid, fop |-> c.fop] \in confirmed'
    BY <1>4 DEF Confirmed
  <1>6. OnlyConfirmed'
    BY DEF DatagramInv, OnlyConfirmed
  <1> QED
    BY <1>3, <1>5, <1>6 DEF DatagramInv, Confirmed

\* The sockets, users and TIDs of datagrams are of the kinds VLD and CNF name.
LEMMA DatagramVars ==
  ASSUME Types
  PROVE  /\ \A d \in vlds : d.app \in Apps /\ d.sock \in Nat
         /\ \A c \in cnfs : c.app \in Apps
         /\ fs \in [Apps -> Thread] /\ \A b \in Apps : fs[b].sock \in Nat /\ fs[b].fop \in Fops /\ fs[b].fop # None
         /\ vlds \subseteq VLD /\ cnfs \subseteq CNF
PROOF
  <1>1. vlds \subseteq VLD /\ cnfs \subseteq CNF /\ fs \in [Apps -> Thread]
    BY TicketVars
  <1>2. \A t \in Thread : t.sock \in Nat /\ t.fop \in Fops /\ t.fop # None
    BY Bounds DEF Thread
  <1>3. \A d \in VLD : d.app \in Apps /\ d.sock \in Nat
    BY DEF VLD
  <1>4. \A c \in CNF : c.app \in Apps
    BY DEF CNF
  <1> QED
    BY <1>1, <1>2, <1>3, <1>4

LEMMA DatagramTypeFile ==
  ASSUME Types, ReplyInv, DatagramInv, NEW a \in Apps, TypeFile(a)
  PROVE  DatagramInv'
PROOF
  <1>1. PICK fop \in Fops : /\ fs' = [fs EXCEPT ![a] = NewThread(a, fop)]
                            /\ SendVLD(a, NewThread(a, fop), 0)
                            /\ UNCHANGED <<cnfs, confirmed>> /\ pc[a] = "prompt"
    BY DEF TypeFile, Command
  <1> DEFINE t == NewThread(a, fop)
             new == [app |-> a, sock |-> t.sock, copy |-> 0, uid |-> t.uid, tid |-> t.tid]
  <1>2. t.pc = "awaitCNF" /\ t.sock = fs[a].sock + 1
    BY DEF NewThread
  <1> HIDE DEF t
  <1>3. fs' = [fs EXCEPT ![a] = t] /\ vlds' = vlds \cup {new}
    BY <1>1 DEF SendVLD, t
  <1>4. fs[a].pc = "end"
    BY <1>1 DEF ReplyInv
  <1>5. fs'[a] = t /\ \A b \in Apps \ {a} : fs'[b] = fs[b]
    BY <1>3, DatagramVars
  <1>6. \A d \in vlds' : /\ d.sock <= fs'[d.app].sock
                         /\ d.sock = fs'[d.app].sock /\ fs'[d.app].pc = "awaitCNF" =>
                              d.uid = fs'[d.app].uid /\ d.tid = fs'[d.app].tid
    <2> TAKE d \in vlds'
    <2>1. CASE d = new
      <3>1. d.sock = t.sock /\ d.app = a /\ d.uid = t.uid /\ d.tid = t.tid /\ t.sock \in Nat
        BY <1>2, <2>1, DatagramVars
      <3> QED
        BY <1>5, <3>1
    <2>2. CASE d \in vlds /\ d.app = a
      <3>1. d.sock <= fs[a].sock /\ d.sock \in Nat /\ fs[a].sock \in Nat
        BY <2>2, DatagramVars DEF DatagramInv
      <3> QED
        BY <1>2, <1>5, <2>2, <3>1
    <2>3. CASE d \in vlds /\ d.app # a
      BY <1>5, <2>3, DatagramVars DEF DatagramInv
    <2> QED
      BY <1>3, <2>1, <2>2, <2>3
  <1>7. \A c \in cnfs' : c.app # a /\ c.app \in Apps /\ c \in cnfs
    BY <1>1, <1>4, DatagramVars DEF DatagramInv
  <1>8. OnlyConfirmed'
    <2>1. \A b \in Apps : fs'[b].pc = "run" => fs'[b] = fs[b]
      BY <1>2, <1>5
    <2> QED
      BY <1>1, <2>1 DEF OnlyConfirmed, DatagramInv
  <1> QED
    BY <1>1, <1>5, <1>6, <1>7, <1>8 DEF DatagramInv, Confirmed

\* A thread that ends.
LEMMA DatagramReply ==
  ASSUME Types, DatagramInv, NEW a \in Apps, NEW answer \in Answers, Reply(a, answer), UNCHANGED confirmed
  PROVE  DatagramInv'
PROOF
  <1> DEFINE t == Ended(fs[a], IF answer = "OK" THEN "done" ELSE "refused")
  <1>1. fs' = [fs EXCEPT ![a] = t] /\ cnfs' = OthersOf(a) /\ vlds' \subseteq vlds
    BY DEF Reply, LateCopies
  <1>2. t.pc = "end" /\ t.sock = fs[a].sock
    BY EndedTypes, DatagramVars
  <1> HIDE DEF t
  <1>3. fs'[a] = t /\ \A b \in Apps \ {a} : fs'[b] = fs[b]
    BY <1>1, DatagramVars
  <1>4. \A d \in vlds' : /\ d.sock <= fs'[d.app].sock
                         /\ d.sock = fs'[d.app].sock /\ fs'[d.app].pc = "awaitCNF" =>
                              d.uid = fs'[d.app].uid /\ d.tid = fs'[d.app].tid
    BY <1>1, <1>2, <1>3, DatagramVars DEF DatagramInv
  <1>5. \A c \in cnfs' : c.app # a /\ c.app \in Apps /\ c \in cnfs
    BY <1>1, DatagramVars DEF OthersOf
  <1>6. OnlyConfirmed'
    BY <1>2, <1>3 DEF OnlyConfirmed, DatagramInv
  <1> QED
    BY <1>3, <1>4, <1>5, <1>6 DEF DatagramInv, Confirmed

LEMMA DatagramFSStep ==
  ASSUME Types, DatagramInv, NEW a \in Apps, FSStep(a)
  PROVE  DatagramInv'
PROOF
  <1>1. UNCHANGED confirmed
    BY DEF FSStep, Retransmit, GiveUp, Run, ReceiveCNF, ReceiveOther
  <1>2. CASE Retransmit(a)
    <2> DEFINE new == [app |-> a, sock |-> fs[a].sock, copy |-> fs[a].tries + 1, uid |-> fs[a].uid, tid |-> fs[a].tid]
    <2>1. fs' = [fs EXCEPT ![a].tries = fs[a].tries + 1] /\ vlds' = vlds \cup {new} /\ UNCHANGED cnfs
      BY <1>2 DEF Retransmit, SendVLD
    <2>2. \A b \in Apps : /\ fs'[b].pc = fs[b].pc /\ fs'[b].sock = fs[b].sock /\ fs'[b].uid = fs[b].uid
                          /\ fs'[b].tid = fs[b].tid /\ fs'[b].fop = fs[b].fop
      BY <2>1, DatagramVars DEF Thread
    <2>3. \A d \in vlds' : /\ d.sock <= fs[d.app].sock
                           /\ d.sock = fs[d.app].sock /\ fs[d.app].pc = "awaitCNF" =>
                                d.uid = fs[d.app].uid /\ d.tid = fs[d.app].tid
      <3> TAKE d \in vlds'
      <3>1. CASE d = new
        <4>1. d.app = a /\ d.sock = fs[a].sock /\ d.uid = fs[a].uid /\ d.tid = fs[a].tid /\ fs[a].sock \in Nat
          BY <3>1, DatagramVars
        <4> QED
          BY <4>1
      <3>2. CASE d \in vlds
        BY <3>2 DEF DatagramInv
      <3> QED
        BY <2>1, <3>1, <3>2
    <2>4. \A d \in vlds' : d.app \in Apps
      BY <2>1, DatagramVars
    <2>5. \A d \in vlds' : /\ d.sock <= fs'[d.app].sock
                           /\ d.sock = fs'[d.app].sock /\ fs'[d.app].pc = "awaitCNF" =>
                                d.uid = fs'[d.app].uid /\ d.tid = fs'[d.app].tid
      BY <2>2, <2>3, <2>4
    <2>6. OnlyConfirmed'
      BY <1>1, <2>2 DEF OnlyConfirmed, DatagramInv
    <2> QED
      BY <1>1, <2>1, <2>2, <2>5, <2>6, DatagramVars DEF DatagramInv, Confirmed
  <1>3. CASE \E c \in cnfs : ReceiveCNF(a, c)
    <2>1. PICK c \in cnfs : ReceiveCNF(a, c)
      BY <1>3
    <2>2. fs' = [fs EXCEPT ![a].pc = "run"] /\ cnfs' = OthersOf(a) /\ UNCHANGED vlds /\ c.app = a /\ c.fop = fs[a].fop
      BY <2>1 DEF ReceiveCNF
    <2>3. \A b \in Apps : /\ fs'[b].pc = IF b = a THEN "run" ELSE fs[b].pc
                          /\ fs'[b].sock = fs[b].sock /\ fs'[b].uid = fs[b].uid
                          /\ fs'[b].tid = fs[b].tid /\ fs'[b].fop = fs[b].fop
      BY <2>2, DatagramVars DEF Thread
    <2>4. Confirmed(fs[a].uid, fs[a].tid, fs[a].fop)
      BY <2>2, DatagramVars DEF DatagramInv
    <2>5. OnlyConfirmed'
      BY <1>1, <2>3, <2>4 DEF OnlyConfirmed, DatagramInv, Confirmed
    <2>6. \A d \in vlds' : /\ d.sock <= fs'[d.app].sock
                           /\ d.sock = fs'[d.app].sock /\ fs'[d.app].pc = "awaitCNF" =>
                                d.uid = fs'[d.app].uid /\ d.tid = fs'[d.app].tid
      BY <2>2, <2>3, DatagramVars DEF DatagramInv
    <2>7. \A e \in cnfs' : e.app # a /\ e.app \in Apps /\ e \in cnfs
      BY <2>2, DatagramVars DEF OthersOf
    <2> QED
      BY <1>1, <2>3, <2>5, <2>6, <2>7 DEF DatagramInv, Confirmed
  <1>4. CASE \E answer \in Answers : Reply(a, answer)
    BY <1>1, <1>4, DatagramReply
  <1> QED
    BY <1>2, <1>3, <1>4 DEF FSStep, GiveUp, Run, ReceiveOther, Answers

\* The AS answers a VLD that a thread waits for: its TID was confirmed, for the
\* user and the operation of the ticket it names.
LEMMA DatagramValidate ==
  ASSUME Types, TicketInv, KnowledgeInv, DatagramInv, NEW d \in vlds, Validate(d)
  PROVE  DatagramInv'
PROOF
  <1> DEFINE ok == Known(d.uid) /\ ticket[d.uid] # None /\ ticket[d.uid].tid = d.tid
             fop == IF ok THEN ticket[d.uid].fop ELSE None
             new == [app |-> d.app, sock |-> d.sock, fop |-> fop]
  <1>1. UNCHANGED <<fs, confirmed>> /\ vlds' = vlds \ {d}
        /\ cnfs' = IF fs[d.app].sock = d.sock /\ fs[d.app].pc = "awaitCNF" THEN cnfs \cup {new} ELSE cnfs
    BY DEF Validate
  <1>2. fop # None => Confirmed(d.uid, d.tid, fop)
    <2> SUFFICES ASSUME ok PROVE Confirmed(d.uid, d.tid, ticket[d.uid].fop)
      OBVIOUS
    <2>1. d.uid \in Users /\ HasTicket(d.uid) /\ ticket[d.uid].tid = d.tid /\ d.tid # 0
      BY TicketVars DEF Known, HasTicket
    <2>2. PICK c \in confirmed : c.tid = d.tid
      BY <2>1 DEF KnowledgeInv, KnownTid
    <2>3. c.uid = d.uid /\ c.fop = ticket[d.uid].fop /\ Confirmed(c.uid, c.tid, c.fop)
      BY <2>1, <2>2, TicketVars DEF TicketInv
    <2> QED
      BY <2>2, <2>3
  <1>3. CASE cnfs' = cnfs
    BY <1>1, <1>3, DatagramFrame, DatagramVars
  <1>4. CASE cnfs' # cnfs
    <2>1. fs[d.app].sock = d.sock /\ fs[d.app].pc = "awaitCNF" /\ cnfs' = cnfs \cup {new}
      BY <1>1, <1>4
    <2>2. d.uid = fs[d.app].uid /\ d.tid = fs[d.app].tid
      BY <2>1 DEF DatagramInv
    <2>3. new.app = d.app /\ new.fop = fop
      OBVIOUS
    <2> HIDE DEF new, fop
    <2>4. \A c \in cnfs' : /\ fs[c.app].pc = "awaitCNF"
                           /\ c.fop # None => Confirmed(fs[c.app].uid, fs[c.app].tid, c.fop)
      BY <1>2, <2>1, <2>2, <2>3 DEF DatagramInv
    <2> QED
      BY <1>1, <2>4 DEF DatagramInv, Confirmed, OnlyConfirmed
  <1> QED
    BY <1>3, <1>4

LEMMA DatagramStep == Types /\ ReplyInv /\ TicketInv /\ KnowledgeInv /\ DatagramInv /\ [Next]_vars => DatagramInv'
PROOF
  <1> SUFFICES ASSUME Types, ReplyInv, TicketInv, KnowledgeInv, DatagramInv, [Next]_vars PROVE DatagramInv'
    OBVIOUS
  <1>1. confirmed \subseteq confirmed'
    BY ConfirmedGrows
  <1>2. ASSUME UNCHANGED <<fs, vlds, cnfs>> PROVE DatagramInv'
    BY <1>1, <1>2, DatagramFrame, DatagramVars
  <1>3. ASSUME NEW a \in Apps, TypeCommand(a) \/ AppStep(a) \/ Failure(a), ~TypeFile(a)
        PROVE  DatagramInv'
    <2>1. UNCHANGED <<fs, vlds, cnfs>>
      BY <1>3 DEF TypeCommand, TypeLogin, TypeReq, TypeVal, TypeExit, AskAS, End, Failure, Kill,
                  LoseConnection, AppStep, ReceiveRLO, ReceiveRRQ, ReceiveRAU, ReceiveNothing, ReceiveRLS,
                  ReceiveReply, ReceiveCut
    <2> QED
      BY <1>2, <2>1
  <1>4. ASSUME NEW a \in Apps, ASStep(a) PROVE DatagramInv'
    <2>1. CASE Grant(a)
      <3>1. \A b \in Apps : /\ fs'[b].pc = fs[b].pc /\ fs'[b].sock = fs[b].sock /\ fs'[b].uid = fs[b].uid
                            /\ fs'[b].tid = fs[b].tid /\ fs'[b].fop = fs[b].fop
        BY <2>1, DatagramVars DEF Grant, Thread
      <3>2. UNCHANGED <<vlds, cnfs>>
        BY <2>1 DEF Grant
      <3> QED
        BY <1>1, <3>1, <3>2, DatagramFrame, DatagramVars
    <2>2. CASE ~Grant(a)
      <3>1. UNCHANGED <<fs, vlds, cnfs>>
        BY <1>4, <2>2 DEF ASStep, ServeLog, RefuseReq, Challenge, ChallengeFails, ServeAut, ServeShortAut, Disconnect
      <3> QED
        BY <1>2, <3>1
    <2> QED
      BY <2>1, <2>2
  <1>5. CASE CrashFS
    <2>1. \A b \in Apps : Ended(fs[b], "cut").pc = "end" /\ Ended(fs[b], "cut").sock = fs[b].sock
      BY DatagramVars, EndedTypes
    <2>2. /\ \A b \in Apps : fs'[b].pc = "end" /\ fs'[b].sock = fs[b].sock
          /\ cnfs' = {} /\ UNCHANGED vlds
      BY <1>5, <2>1 DEF CrashFS
    <2> QED
      BY <2>2, DatagramVars DEF DatagramInv, OnlyConfirmed
  <1>6. CASE UNCHANGED vars
    BY <1>2, <1>6 DEF vars
  <1> QED
    BY <1>3, <1>4, <1>5, <1>6, DatagramTypeFile, DatagramFSStep, DatagramValidate DEF Next, TypeCommand

\* FS runs an operation only for a user, TID and operation that a REQ of the
\* user asked for and whose code an AUT brought back, for any number of
\* processes, late and repeated datagrams, and crashes.
THEOREM SecondFactor == Spec => []OnlyConfirmed
PROOF
  <1> DEFINE Inv == Types /\ ReplyInv /\ TicketInv /\ KnowledgeInv /\ DatagramInv
  <1>1. Init => Inv
    BY InitTypes, ReplyInit, TicketInit
  <1>2. Inv /\ [Next]_vars => Inv'
    BY TypesStep, ReplyStep, TicketStep, KnowledgeStep, DatagramStep
  <1>3. Inv => OnlyConfirmed
    BY DEF DatagramInv
  <1> QED
    BY <1>1, <1>2, <1>3, PTL DEF Spec

----------------------------------------------------------------------------
\* SameAnswer

\* A command is due when its user has the ticket it names.
DueInv ==
  /\ \A a \in Apps : fs[a].due =>
       /\ fs[a].uid \in Users /\ HasTicket(fs[a].uid)
       /\ ticket[fs[a].uid].tid = fs[a].tid /\ ticket[fs[a].uid].fop = fs[a].fop
  /\ SameAnswer

LEMMA DueInit == Init => DueInv
PROOF
  <1> SUFFICES ASSUME Init PROVE DueInv
    OBVIOUS
  <1>1. NoThread.due = FALSE
    BY DEF NoThread
  <1> QED
    BY <1>1 DEF Init, DueInv, SameAnswer

\* Steps after which the threads that are due have the commands, the tickets
\* and the CNF they had.
LEMMA DueFrame ==
  ASSUME Types, DueInv, cnfs' \subseteq cnfs,
         \A b \in Apps : fs'[b].due => /\ fs[b].due
                                       /\ fs'[b].uid = fs[b].uid /\ fs'[b].tid = fs[b].tid /\ fs'[b].fop = fs[b].fop
                                       /\ ticket'[fs[b].uid] = ticket[fs[b].uid]
  PROVE  DueInv'
PROOF
  <1>1. \A b \in Apps : fs'[b].due =>
          /\ fs'[b].uid \in Users /\ ticket'[fs'[b].uid] \in AS!Ticket
          /\ ticket'[fs'[b].uid].tid = fs'[b].tid /\ ticket'[fs'[b].uid].fop = fs'[b].fop
    BY DEF DueInv, HasTicket
  <1>2. SameAnswer'
    BY DatagramVars DEF DueInv, SameAnswer
  <1> QED
    BY <1>1, <1>2 DEF DueInv, HasTicket

LEMMA DueTypeFile ==
  ASSUME Types, ReplyInv, DatagramInv, DueInv, NEW a \in Apps, TypeFile(a)
  PROVE  DueInv'
PROOF
  <1>1. PICK fop \in Fops : /\ fs' = [fs EXCEPT ![a] = NewThread(a, fop)]
                            /\ UNCHANGED <<cnfs, ticket>> /\ pc[a] = "prompt"
    BY DEF TypeFile, Command
  <1> DEFINE t == NewThread(a, fop)
  <1>2. t.due => /\ t.uid \in Users /\ HasTicket(t.uid)
                 /\ ticket[t.uid].tid = t.tid /\ ticket[t.uid].fop = t.fop
    <2>1. /\ t.due => uid[a] # None /\ ticket[uid[a]] = [tid |-> tid[a], fop |-> fop]
          /\ t.uid = uid[a] /\ t.tid = tid[a] /\ t.fop = fop
      BY DEF NewThread
    <2> HIDE DEF t
    <2>2. SUFFICES ASSUME uid[a] # None, ticket[uid[a]] = [tid |-> tid[a], fop |-> fop]
                   PROVE  uid[a] \in Users /\ ticket[uid[a]] \in AS!Ticket
      BY <2>1 DEF HasTicket
    <2>3. uid[a] \in Users /\ tid[a] \in 0..MaxTid
      BY <2>2, TypesNow DEF AppTypes
    <2>4. tid[a] = 0 \/ tid[a] \in Tids
      BY <2>3, Bounds DEF Tids
    <2>5. [tid |-> tid[a], fop |-> fop] \in AS!Ticket \cup [tid : {0}, fop : Fops]
      BY <1>1, <2>4 DEF AS!Ticket
    <2>6. ticket[uid[a]] # None
      BY <2>2, <2>5, NoneAssumption
    <2> QED
      BY <2>3, <2>6, TicketVars
  <1> HIDE DEF t
  <1>3. fs'[a] = t /\ \A b \in Apps \ {a} : fs'[b] = fs[b]
    BY <1>1, DatagramVars DEF t
  <1>4. \A b \in Apps : fs'[b].due =>
          /\ fs'[b].uid \in Users /\ ticket[fs'[b].uid] \in AS!Ticket
          /\ ticket[fs'[b].uid].tid = fs'[b].tid /\ ticket[fs'[b].uid].fop = fs'[b].fop
    BY <1>2, <1>3 DEF DueInv, HasTicket
  <1>5. \A c \in cnfs : c.app # a /\ c.app \in Apps
    BY <1>1, DatagramVars DEF DatagramInv, ReplyInv
  <1>6. SameAnswer'
    BY <1>1, <1>3, <1>5 DEF SameAnswer, DueInv
  <1> QED
    BY <1>1, <1>4, <1>6 DEF DueInv, HasTicket

LEMMA DueFSStep ==
  ASSUME Types, DueInv, NEW a \in Apps, FSStep(a)
  PROVE  DueInv'
PROOF
  <1>1. UNCHANGED ticket
    BY DEF FSStep, Retransmit, GiveUp, Run, ReceiveCNF, ReceiveOther
  <1>2. CASE Retransmit(a) \/ \E c \in cnfs : ReceiveCNF(a, c)
    <2>1. (fs' = [fs EXCEPT ![a].tries = fs[a].tries + 1] \/ fs' = [fs EXCEPT ![a].pc = "run"]) /\ cnfs' \subseteq cnfs
      BY <1>2 DEF Retransmit, ReceiveCNF, OthersOf
    <2>2. \A b \in Apps : /\ fs'[b].due = fs[b].due /\ fs'[b].uid = fs[b].uid
                          /\ fs'[b].tid = fs[b].tid /\ fs'[b].fop = fs[b].fop
      BY <2>1, DatagramVars DEF Thread
    <2> QED
      BY <1>1, <2>1, <2>2, DueFrame
  <1>3. CASE \E answer \in Answers : Reply(a, answer)
    <2>1. PICK answer \in Answers : Reply(a, answer)
      BY <1>3
    <2> DEFINE t == Ended(fs[a], IF answer = "OK" THEN "done" ELSE "refused")
    <2>2. fs' = [fs EXCEPT ![a] = t] /\ cnfs' \subseteq cnfs
      BY <2>1 DEF Reply, OthersOf
    <2>3. t.due = FALSE
      BY EndedTypes, DatagramVars
    <2> HIDE DEF t
    <2>4. fs'[a].due = FALSE /\ \A b \in Apps \ {a} : fs'[b] = fs[b]
      BY <2>2, <2>3, DatagramVars
    <2>5. \A b \in Apps : fs'[b].due => fs'[b] = fs[b]
      BY <2>4
    <2> QED
      BY <1>1, <2>2, <2>5, DueFrame
  <1> QED
    BY <1>2, <1>3 DEF FSStep, GiveUp, Run, ReceiveOther, Answers

LEMMA DueValidate ==
  ASSUME Types, DatagramInv, DueInv, NEW d \in vlds, Validate(d)
  PROVE  DueInv'
PROOF
  <1> DEFINE ok == Known(d.uid) /\ ticket[d.uid] # None /\ ticket[d.uid].tid = d.tid
             fop == IF ok THEN ticket[d.uid].fop ELSE None
             new == [app |-> d.app, sock |-> d.sock, fop |-> fop]
  <1>1. UNCHANGED <<fs, ticket>>
        /\ cnfs' = IF fs[d.app].sock = d.sock /\ fs[d.app].pc = "awaitCNF" THEN cnfs \cup {new} ELSE cnfs
    BY DEF Validate, AS!LogOut
  <1>2. CASE cnfs' = cnfs
    BY <1>1, <1>2, DueFrame
  <1>3. CASE cnfs' # cnfs
    <2>1. fs[d.app].sock = d.sock /\ fs[d.app].pc = "awaitCNF" /\ cnfs' = cnfs \cup {new}
      BY <1>1, <1>3
    <2>2. d.uid = fs[d.app].uid /\ d.tid = fs[d.app].tid /\ d.app \in Apps
      BY <2>1, DatagramVars DEF DatagramInv
    <2>3. fs[d.app].due => fop = fs[d.app].fop
      BY <2>2, TicketVars DEF DueInv, HasTicket, Known
    <2>4. new.app = d.app /\ new.fop = fop
      OBVIOUS
    <2> HIDE DEF new, fop
    <2> QED
      BY <1>1, <2>1, <2>3, <2>4 DEF DueInv, SameAnswer, HasTicket
  <1> QED
    BY <1>2, <1>3

LEMMA DueGrant ==
  ASSUME Types, DueInv, NEW a \in Apps, Grant(a)
  PROVE  DueInv'
PROOF
  <1> DEFINE u == toAS[a].uid
  <1>1. /\ fs' = [b \in Apps |-> [fs[b] EXCEPT !.due = @ /\ fs[b].uid # u]]
        /\ \E k : ticket' = [ticket EXCEPT ![u] = k] /\ UNCHANGED cnfs
    BY DEF Grant, AS!Grant
  <1> HIDE DEF u
  <1>2. \A b \in Apps : /\ fs'[b].due = (fs[b].due /\ fs[b].uid # u)
                        /\ fs'[b].uid = fs[b].uid /\ fs'[b].tid = fs[b].tid /\ fs'[b].fop = fs[b].fop
    BY <1>1, DatagramVars DEF Thread
  <1>3. \A v \in Users : v # u => ticket'[v] = ticket[v]
    BY <1>1, TicketVars
  <1>4. \A b \in Apps : fs'[b].due => fs[b].due /\ ticket'[fs[b].uid] = ticket[fs[b].uid]
    BY <1>2, <1>3 DEF DueInv
  <1> QED
    BY <1>1, <1>2, <1>4, DueFrame

LEMMA DueStep == Types /\ ReplyInv /\ DatagramInv /\ DueInv /\ [Next]_vars => DueInv'
PROOF
  <1> SUFFICES ASSUME Types, ReplyInv, DatagramInv, DueInv, [Next]_vars PROVE DueInv'
    OBVIOUS
  <1>1. ASSUME UNCHANGED <<fs, ticket, cnfs>> PROVE DueInv'
    BY <1>1, DueFrame
  <1>2. ASSUME NEW a \in Apps, TypeCommand(a) \/ AppStep(a) \/ Failure(a), ~TypeFile(a)
        PROVE  DueInv'
    <2>1. UNCHANGED <<fs, ticket, cnfs>>
      BY <1>2 DEF TypeCommand, TypeLogin, TypeReq, TypeVal, TypeExit, AskAS, End, Failure, Kill,
                  LoseConnection, AppStep, ReceiveRLO, ReceiveRRQ, ReceiveRAU, ReceiveNothing, ReceiveRLS,
                  ReceiveReply, ReceiveCut
    <2> QED
      BY <1>1, <2>1
  <1>3. ASSUME NEW a \in Apps, ASStep(a), ~Grant(a) PROVE DueInv'
    <2>1. UNCHANGED <<fs, ticket, cnfs>>
      BY <1>3 DEF ASStep, ServeLog, RefuseReq, Challenge, ChallengeFails, ServeAut, ServeShortAut, Disconnect,
                  AS!LogIn, AS!LogOut, AS!Spend
    <2> QED
      BY <1>1, <2>1
  <1>4. CASE CrashFS
    <2>1. \A b \in Apps : Ended(fs[b], "cut").due = FALSE
      BY DatagramVars, EndedTypes
    <2>2. cnfs' = {} /\ UNCHANGED ticket /\ \A b \in Apps : fs'[b].due => fs'[b] = fs[b]
      BY <1>4, <2>1 DEF CrashFS
    <2> QED
      BY <2>2, DueFrame
  <1>5. CASE UNCHANGED vars
    BY <1>1, <1>5 DEF vars
  <1> QED
    BY <1>2, <1>3, <1>4, <1>5, DueTypeFile, DueGrant, DueFSStep, DueValidate DEF Next, TypeCommand

\* As long as a user's ticket is not replaced every copy of every VLD for it is
\* answered with the operation of the command, however many were answered before.
THEOREM EveryCopySameAnswer == Spec => []SameAnswer
PROOF
  <1> DEFINE Inv == Types /\ ReplyInv /\ TicketInv /\ KnowledgeInv /\ DatagramInv /\ DueInv
  <1>1. Init => Inv
    BY InitTypes, ReplyInit, TicketInit, DueInit
  <1>2. Inv /\ [Next]_vars => Inv'
    BY TypesStep, ReplyStep, TicketStep, KnowledgeStep, DatagramStep, DueStep
  <1>3. Inv => SameAnswer
    BY DEF DueInv
  <1> QED
    BY <1>1, <1>2, <1>3, PTL DEF Spec

----------------------------------------------------------------------------
\* OneSession

\* The AS has an open connection on which u logged in.
Holds(a, u) == userID[a] = u /\ asPc[a] # "closed"

\* OneSession, also for connections the App has closed and the AS has not.
HolderInv ==
  \A u \in Users \ removed, a \in Apps : Holds(a, u) =>
    logged[u] /\ \A b \in Apps : Holds(b, u) => b = a

LEMMA HolderInit == Init => HolderInv
PROOF
  <1> SUFFICES ASSUME Init PROVE HolderInv
    OBVIOUS
  <1>1. \A a \in Apps : userID[a] = None
    BY DEF Init
  <1>2. None \notin Users
    BY Bounds
  <1> QED
    BY <1>1, <1>2 DEF HolderInv, Holds

\* Steps after which no other connection is held, and who is logged in the same.
LEMMA HolderFrame ==
  ASSUME HolderInv, removed \subseteq removed', UNCHANGED logged,
         \A b \in Apps, u \in Users : Holds(b, u)' => Holds(b, u)
  PROVE  HolderInv'
PROOF
  BY DEF HolderInv

\* What the answer to a line does to the thread.
LEMMA HolderAnswer ==
  ASSUME Types, NEW a \in Apps, asPc[a] # "closed", NEW m, Answer(a, m)
  PROVE  \A b \in Apps : asPc'[b] # "closed" => asPc[b] # "closed"
PROOF
  <1>1. asPc \in [Apps -> {"recv", "challenge", "closed"}]
    BY TypesNow DEF LineTypes
  <1> QED
    BY <1>1 DEF Answer

LEMMA HolderLog ==
  ASSUME Types, HolderInv, NEW a \in Apps, ServeLog(a)
  PROVE  HolderInv'
PROOF
  <1> DEFINE u == toAS[a].uid
             ok == ~logged[u] /\ toAS[a].right
  <1>1. logged \in [Users -> BOOLEAN] /\ userID \in [Apps -> Users \cup {None}]
    BY TypesNow DEF ASTypes
  <1>2. /\ u \in Users /\ asPc[a] = "recv"
        /\ IF ok THEN AS!LogIn(u) ELSE UNCHANGED logged
        /\ userID' = [userID EXCEPT ![a] = IF ok THEN u ELSE userID[a]]
        /\ UNCHANGED removed
    <2>1. u \in Users
      BY LineKinds DEF Types, ServeLog, CanServe, LogMsg
    <2> QED
      BY <2>1 DEF ServeLog, CanServe
  <1>3. \A b \in Apps : asPc'[b] # "closed" => asPc[b] # "closed"
    BY <1>2, HolderAnswer DEF ServeLog
  <1> HIDE DEF u, ok
  <1>4. CASE ok
    <2>1. /\ ~logged[u] /\ logged' = [logged EXCEPT ![u] = TRUE] /\ userID' = [userID EXCEPT ![a] = u]
      BY <1>2, <1>4 DEF AS!LogIn
    <2>2. u \notin removed => \A b \in Apps : ~Holds(b, u)
      BY <1>2, <2>1 DEF HolderInv
    <2>3. \A v \in Users \ removed', b \in Apps : Holds(b, v)' =>
            IF b = a THEN v = u ELSE v # u /\ Holds(b, v)
      BY <1>1, <1>2, <1>3, <2>1, <2>2 DEF Holds
    <2>4. logged'[u] /\ \A v \in Users : v # u => logged'[v] = logged[v]
      BY <1>1, <1>2, <2>1
    <2> QED
      BY <1>2, <2>3, <2>4 DEF HolderInv
  <1>5. CASE ~ok
    <2>1. UNCHANGED <<logged, userID>>
      BY <1>1, <1>2, <1>5
    <2> QED
      BY <1>2, <1>3, <2>1, HolderFrame DEF Holds
  <1> QED
    BY <1>4, <1>5

LEMMA HolderDisconnect ==
  ASSUME Types, HolderInv, NEW a \in Apps, Disconnect(a)
  PROVE  HolderInv'
PROOF
  <1>1. logged \in [Users -> BOOLEAN] /\ asPc \in [Apps -> {"recv", "challenge", "closed"}]
    BY TypesNow DEF ASTypes, LineTypes
  <1>2. asPc[a] = "recv" /\ asPc' = [asPc EXCEPT ![a] = "closed"] /\ UNCHANGED <<userID, removed>>
    BY DEF Disconnect
  <1>3. \A b \in Apps, u \in Users : Holds(b, u)' => b # a /\ Holds(b, u)
    BY <1>1, <1>2 DEF Holds
  <1>4. CASE UNCHANGED logged
    BY <1>2, <1>3, <1>4, HolderFrame
  <1>5. CASE userID[a] \in Users /\ logged' = [logged EXCEPT ![userID[a]] = FALSE]
    <2>1. Holds(a, userID[a])
      BY <1>2 DEF Holds
    <2>2. \A v \in Users : v # userID[a] => logged'[v] = logged[v]
      BY <1>1, <1>5
    <2>3. \A u \in Users \ removed, b \in Apps : Holds(b, u)' => u # userID[a]
      BY <1>3, <1>5, <2>1 DEF HolderInv
    <2> QED
      BY <1>2, <1>3, <2>2, <2>3 DEF HolderInv
  <1> QED
    BY <1>4, <1>5 DEF Disconnect, Known, AS!LogOut

LEMMA HolderValidate ==
  ASSUME Types, HolderInv, NEW d \in vlds, Validate(d)
  PROVE  HolderInv'
PROOF
  <1>1. logged \in [Users -> BOOLEAN]
    BY TypesNow DEF ASTypes
  <1>2. UNCHANGED <<userID, asPc>>
    BY DEF Validate
  <1>3. UNCHANGED <<logged, removed>>
        \/ (logged' = [logged EXCEPT ![d.uid] = FALSE] /\ removed' = removed \cup {d.uid})
    BY DEF Validate, AS!LogOut
  <1>4. \A u \in Users \ removed' : u \notin removed /\ logged'[u] = logged[u]
    BY <1>1, <1>3
  <1> QED
    BY <1>2, <1>4 DEF HolderInv, Holds

LEMMA HolderStep == Types /\ HolderInv /\ [Next]_vars => HolderInv'
PROOF
  <1> SUFFICES ASSUME Types, HolderInv, [Next]_vars PROVE HolderInv'
    OBVIOUS
  <1>1. ASSUME UNCHANGED <<logged, userID, asPc, removed>> PROVE HolderInv'
    BY <1>1 DEF HolderInv, Holds
  <1>2. ASSUME NEW a \in Apps, TypeCommand(a) \/ AppStep(a) \/ FSStep(a) \/ Kill(a)
        PROVE  HolderInv'
    <2>1. UNCHANGED <<logged, userID, asPc, removed>>
      BY <1>2 DEF TypeCommand, TypeLogin, TypeReq, TypeVal, TypeFile, TypeExit, AskAS, End, Kill,
                  AppStep, ReceiveRLO, ReceiveRRQ, ReceiveRAU, ReceiveNothing, ReceiveRLS,
                  ReceiveReply, ReceiveCut, FSStep, Retransmit, GiveUp, Run, ReceiveCNF, ReceiveOther
    <2> QED
      BY <1>1, <2>1
  <1>3. ASSUME NEW a \in Apps, LoseConnection(a) \/ Challenge(a) PROVE HolderInv'
    <2>1. asPc[a] # "closed" /\ UNCHANGED <<logged, userID, removed>>
          /\ (asPc' = [asPc EXCEPT ![a] = "closed"] \/ asPc' = [asPc EXCEPT ![a] = "challenge"])
      BY <1>3 DEF LoseConnection, Challenge, CanServe
    <2>2. \A b \in Apps : asPc'[b] # "closed" => asPc[b] # "closed"
      BY <2>1, TypesNow DEF LineTypes
    <2> QED
      BY <2>1, <2>2, HolderFrame DEF Holds
  <1>4. ASSUME NEW a \in Apps,
               RefuseReq(a) \/ Grant(a) \/ ChallengeFails(a) \/ ServeAut(a) \/ ServeShortAut(a)
        PROVE  HolderInv'
    <2>1. asPc[a] # "closed" /\ UNCHANGED <<logged, userID, removed>> /\ \E m : Answer(a, m)
      BY <1>4 DEF RefuseReq, Grant, ChallengeFails, ServeAut, ServeShortAut, CanServe, AS!Grant, AS!Spend
    <2>2. \A b \in Apps : asPc'[b] # "closed" => asPc[b] # "closed"
      BY <2>1, HolderAnswer
    <2> QED
      BY <2>1, <2>2, HolderFrame DEF Holds
  <1>5. CASE CrashFS \/ UNCHANGED vars
    BY <1>1, <1>5 DEF CrashFS, vars
  <1> QED
    BY <1>2, <1>3, <1>4, <1>5, HolderLog, HolderDisconnect, HolderValidate DEF Next, ASStep, Failure

\* No two connections are logged in as the same user, and none is logged out
\* behind its user's back, unless by an X.
THEOREM OneSessionPerUser == Spec => []OneSession
PROOF
  <1> DEFINE Inv == Types /\ HolderInv
  <1>1. Init => Inv
    BY InitTypes, HolderInit
  <1>2. Inv /\ [Next]_vars => Inv'
    BY TypesStep, HolderStep
  <1>3. Inv => OneSession
    BY DEF HolderInv, OneSession, Holds, Connected
  <1> QED
    BY <1>1, <1>2, <1>3, PTL DEF Spec
=============================================================================
