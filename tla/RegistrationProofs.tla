------------------------- MODULE RegistrationProofs -------------------------
(***************************************************************************)
(* Theorems about Registration: for every number of PDs, users, retries,     *)
(* commands, requests and crashes.                                           *)
(***************************************************************************)
EXTENDS Registration, TLAPS

USE ConstantsAssumption, NoneAssumption

\* A user with a device, or with a REQ that waits, is in the list with a device.
ListInv ==
  /\ \A u \in Users : pd[u] # None => u \in known
  /\ \A u \in Users : reqSock[u] # 0 => pd[u] # None

\* The UDP thread waits for the mutex of a user in the list, and the address it
\* is about to store is still free.
UdpInv ==
  udpMsg # None =>
    /\ udpMsg.uid \in known
    /\ udpMsg.op = "REG" => ~PdRegistered(udpMsg.pd)

\* A reply under way is one to the command its PD waits with, and an RRG OK is
\* true of the user and the password in it.
ReplyInv ==
  \A m \in net : m.msg \in Reply =>
    LET c == cmd[m.msg.pd]
    IN /\ c \in Command
       /\ m.msg.op = "RRG" <=> c.op = "REG"
       /\ m.msg.op = "RRG" /\ m.msg.ok => c.uid \in known /\ pw[c.uid] = c.pw

\* No VLC has the number of a socket that is yet to be opened.
SockInv ==
  /\ \A u \in Users : reqSock[u] <= requests
  /\ \A m \in net : m.msg \in VLC => m.msg.sock <= requests

IInv ==
  /\ TypeOK /\ ListInv /\ UdpInv /\ ReplyInv /\ CredentialsKnown /\ SockInv /\ ChallengeReachesPd

----------------------------------------------------------------------------
\* The four kinds of datagram are told apart by their first word.
LEMMA Kinds ==
  /\ \A c \in Command : c \notin Reply \cup VLC \cup RVC /\ c.pd \in PDs
  /\ \A c \in Command : c.op = "REG" => c.uid \in Users /\ c.pw \in Passwords
  /\ \A c \in Command : c.op \in {"REG", "UNR"}
  /\ \A r \in Reply : r \notin Command \cup VLC \cup RVC /\ r.pd \in PDs
  /\ \A r \in Reply : r.op \in {"RRG", "RUN"} /\ r.ok \in BOOLEAN
  /\ \A r \in VLC : r \notin Command \cup Reply \cup RVC /\ r.pd \in PDs /\ r.uid \in Users
  /\ \A r \in RVC : r \notin Command \cup Reply \cup VLC /\ r.uid \in Users
BY DEF Command, Reply, VLC, RVC

\* A datagram and its content.
LEMMA Datagrams ==
  /\ \A m \in Datagram : m.msg \in Command \cup Reply \cup VLC \cup RVC
  /\ \A c \in Command \cup VLC, n \in 0..MaxRetries : Copy(c, n) \in Datagram /\ Copy(c, n).msg = c
  /\ \A r \in Reply \cup RVC : Copy(r, 0) \in Datagram /\ Copy(r, 0).msg = r
BY DEF Datagram, Copy

\* The reply to a command is a reply to its PD, or none when the socket was
\* closed.
LEMMA AnswerType ==
  ASSUME NEW c \in Command, NEW ok \in BOOLEAN
  PROVE  /\ Answer(c, ok) \subseteq Datagram
         /\ \A m \in Answer(c, ok) :
              /\ m.msg \in Reply /\ m.msg.pd = c.pd /\ cmd[c.pd] = c
              /\ m.msg.op = "RRG" <=> c.op = "REG"
              /\ m.msg.ok = ok
<1> DEFINE r == [op |-> IF c.op = "REG" THEN "RRG" ELSE "RUN", pd |-> c.pd, sock |-> c.sock, ok |-> ok]
<1>1. r \in Reply
  BY DEF Command, Reply
<1>2. r.pd = c.pd /\ r.ok = ok /\ (r.op = "RRG" <=> c.op = "REG")
  OBVIOUS
<1>3. Answer(c, ok) = IF cmd[c.pd] = c THEN {Copy(r, 0)} ELSE {}
  BY DEF Answer
<1> HIDE DEF r
<1> QED
  BY <1>1, <1>2, <1>3, Datagrams

----------------------------------------------------------------------------
\* Types

\* What a PD does by itself keeps every variable's type.
LEMMA PdTypeStep ==
  ASSUME TypeOK, NEW p \in PDs, Start(p) \/ Keyboard(p) \/ PdTimeout(p) \/ Crash(p)
  PROVE  TypeOK'
<1> USE DEF TypeOK, asVars, pdVars, inputs
<1>1. CASE Start(p)
  BY <1>1 DEF Start
<1>2. ASSUME NEW c \in Command, SendCommand(p, c)
      PROVE  TypeOK'
  <2>1. Copy(c, 0) \in Datagram
    BY Datagrams
  <2> QED
    BY <1>2, <2>1 DEF SendCommand
<1>3. CASE Keyboard(p)
  <2>0. commands < MaxCommands
    BY <1>3 DEF Keyboard, StartRegister, StartUnregister, SendCommand
  <2>1. commands + 1 \in 1..MaxCommands
    BY <2>0
  <2>2. ASSUME NEW u \in Users, NEW w \in Passwords
        PROVE  [op |-> "REG", uid |-> u, pw |-> w, pd |-> p, sock |-> commands + 1] \in Command
    BY <2>1 DEF Command
  <2>3. ASSUME NEW u \in Users \cup {None}, NEW w \in Passwords \cup {None}
        PROVE  [op |-> "UNR", uid |-> u, pw |-> w, pd |-> p, sock |-> commands + 1] \in Command
    BY <2>1 DEF Command
  <2>4. CASE StartUnregister(p)
    <3> DEFINE me == IF user[p] = None THEN [uid |-> None, pw |-> None] ELSE user[p]
    <3>1. me.uid \in Users \cup {None} /\ me.pw \in Passwords \cup {None}
      BY DEF User
    <3> QED
      BY <1>2, <2>3, <2>4, <3>1 DEF StartUnregister
  <2> QED
    BY <1>2, <1>3, <2>2, <2>4 DEF Keyboard, StartRegister
<1>4. CASE Resend(p)
  <2>1. cmd[p] \in Command /\ pdTries[p] + 1 \in 0..MaxRetries
    BY <1>4 DEF Resend
  <2>2. Copy(cmd[p], pdTries[p] + 1) \in Datagram
    BY <2>1, Datagrams
  <2>3. cmd[p].uid \in Users \cup {None}
    BY <2>1 DEF Command
  <2> QED
    BY <1>4, <2>1, <2>2, <2>3 DEF Resend
<1>5. CASE GiveUp(p)
  <2>1. cmd[p].uid \in Users \cup {None}
    BY <1>5 DEF GiveUp, Command
  <2> QED
    BY <1>5, <2>1 DEF GiveUp, EndCommand
<1>6. CASE Crash(p)
  BY <1>6 DEF Crash, EndCommand
<1> QED
  BY <1>1, <1>3, <1>4, <1>5, <1>6 DEF PdTimeout

\* So does what a PD does with a datagram.
LEMMA PdReceiveTypeStep ==
  ASSUME TypeOK, ReplyInv, NEW p \in PDs, NEW m \in net, PdReceive(p, m)
  PROVE  TypeOK'
<1> USE DEF TypeOK, asVars, pdVars, inputs, TakeReply, EndCommand
<1>1. CASE ReceiveRRG(p, m)
  <2>1. cmd[p] \in Command /\ cmd[p].op = "REG"
    BY <1>1 DEF ReceiveRRG, ReplyInv
  <2>2. [uid |-> cmd[p].uid, pw |-> cmd[p].pw] \in User
    BY <2>1, Kinds DEF User
  <2> QED
    BY <1>1, <2>2 DEF ReceiveRRG
<1>2. CASE ReceiveRUN(p, m)
  <2>1. m.msg.ok \in BOOLEAN
    BY <1>2, Kinds DEF ReceiveRUN
  <2> QED
    BY <1>2, <2>1 DEF ReceiveRUN
<1>3. CASE AnswerVLC(p, m)
  <2>1. m.msg \in VLC
    BY <1>3 DEF AnswerVLC
  <2> DEFINE r == [op |-> "RVC", uid |-> m.msg.uid, sock |-> m.msg.sock, ok |-> IsPdOf(p, m.msg.uid)]
  <2>2. r \in RVC
    BY <2>1 DEF VLC, RVC, IsPdOf
  <2>3. Copy(r, 0) \in Datagram
    BY <2>2, Datagrams
  <2>4. net' \subseteq net \cup {Copy(r, 0)}
    BY <1>3 DEF AnswerVLC
  <2> QED
    BY <1>3, <2>3, <2>4 DEF AnswerVLC
<1> QED
  BY <1>1, <1>2, <1>3 DEF PdReceive

\* So do the steps of the AS.
LEMMA AsTypeStep ==
  ASSUME TypeOK, UdpInv, ListInv,
         \/ UdpThread
         \/ \E m \in net : ServeAtOnce(m) \/ ReceiveCommand(m)
         \/ \E u \in Users : SendVLC(u) \/ RequestTimeout(u) \/ \E m \in net : ReceiveRVC(u, m)
  PROVE  TypeOK'
<1> USE DEF TypeOK, pdVars, inputs
<1>1. CASE Register
  <2> DEFINE ok == pd[udpMsg.uid] = None /\ pw[udpMsg.uid] = udpMsg.pw
  <2>1. udpMsg \in Command /\ udpMsg.pd \in PDs /\ ok \in BOOLEAN
    BY <1>1, Kinds DEF Register
  <2>2. Answer(udpMsg, ok) \subseteq Datagram
    BY <2>1, AnswerType
  <2> QED
    BY <1>1, <2>1, <2>2 DEF Register
<1>2. CASE Unregister
  <2> DEFINE ok == pw[udpMsg.uid] = udpMsg.pw
  <2>1. udpMsg \in Command /\ ok \in BOOLEAN
    BY <1>2, Kinds DEF Unregister
  <2>2. Answer(udpMsg, ok) \subseteq Datagram
    BY <2>1, AnswerType
  <2> QED
    BY <1>2, <2>1, <2>2 DEF Unregister
<1>3. ASSUME NEW m \in net, ServeAtOnce(m) PROVE TypeOK'
  <2> DEFINE c == m.msg
             ok == c.op = "REG" /\ ~PdRegistered(c.pd)
  <2>1. c \in Command /\ c.pd \in PDs /\ ok \in BOOLEAN
    BY <1>3, Kinds DEF ServeAtOnce
  <2>2. Answer(c, ok) \subseteq Datagram
    BY <2>1, AnswerType
  <2>3. ok => c.uid \in Users /\ c.pw \in Passwords
    BY <2>1, Kinds
  <2>4. /\ pw' = IF ok THEN [pw EXCEPT ![c.uid] = c.pw] ELSE pw
        /\ pd' = IF ok THEN [pd EXCEPT ![c.uid] = c.pd] ELSE pd
        /\ net' = (net \ {m}) \cup Answer(c, ok)
        /\ UNCHANGED <<udpMsg, reqSock, reqTries, pdVars, inputs, faulty>>
    BY <1>3 DEF ServeAtOnce
  <2> HIDE DEF c, ok
  <2> QED
    BY <2>1, <2>2, <2>3, <2>4
<1>4. ASSUME NEW m \in net, ReceiveCommand(m) PROVE TypeOK'
  BY <1>4 DEF ReceiveCommand
<1>5. ASSUME NEW u \in Users, SendVLC(u) PROVE TypeOK'
  <2>1. requests + 1 \in 1..MaxRequests /\ pd[u] \in PDs
    BY <1>5 DEF SendVLC
  <2>2. Challenge(u, requests + 1) \in VLC
    BY <2>1 DEF Challenge, VLC
  <2>3. Copy(Challenge(u, requests + 1), 0) \in Datagram
    BY <2>2, Datagrams
  <2> QED
    BY <1>5, <2>1, <2>3 DEF SendVLC
<1>6. ASSUME NEW u \in Users, RetransmitVLC(u) PROVE TypeOK'
  <2>1. reqSock[u] \in 1..MaxRequests /\ pd[u] \in PDs /\ reqTries[u] + 1 \in 0..MaxRetries
    BY <1>6 DEF RetransmitVLC, ListInv
  <2>2. Challenge(u, reqSock[u]) \in VLC
    BY <2>1 DEF Challenge, VLC
  <2>3. Copy(Challenge(u, reqSock[u]), reqTries[u] + 1) \in Datagram
    BY <2>1, <2>2, Datagrams
  <2> QED
    BY <1>6, <2>1, <2>3 DEF RetransmitVLC
<1>7. ASSUME NEW u \in Users, GiveUpVLC(u) \/ \E m \in net : ReceiveRVC(u, m) PROVE TypeOK'
  BY <1>7 DEF GiveUpVLC, ReceiveRVC, EndRequest
<1> QED
  BY <1>1, <1>2, <1>3, <1>4, <1>5, <1>6, <1>7 DEF UdpThread, RequestTimeout

----------------------------------------------------------------------------
\* The other invariants

OtherInvs == ListInv /\ UdpInv /\ ReplyInv /\ CredentialsKnown /\ SockInv /\ ChallengeReachesPd

\* A step of a PD that sends no VLC leaves what concerns the AS only alone.
LEMMA AsFrame ==
  ASSUME ListInv, UdpInv, SockInv, ChallengeReachesPd, UNCHANGED <<asVars, requests>>,
         \A m \in net' : m.msg \in VLC => m \in net
  PROVE  ListInv' /\ UdpInv' /\ SockInv' /\ ChallengeReachesPd'
BY DEF ListInv, UdpInv, SockInv, ChallengeReachesPd, asVars, PdRegistered, known

\* What a PD does by itself: a command goes out when no reply to the PD is
\* under way, and when the command ends the replies go with its socket.
LEMMA PdStep ==
  ASSUME TypeOK, OtherInvs, NEW p \in PDs, Start(p) \/ Keyboard(p) \/ PdTimeout(p) \/ Crash(p)
  PROVE  OtherInvs'
<1> USE DEF OtherInvs
<1>1. UNCHANGED <<asVars, requests>>
  BY DEF Start, Keyboard, StartRegister, StartUnregister, SendCommand, PdTimeout, Resend, GiveUp,
         Crash, inputs
<1>2. ASSUME NEW c \in Command, SendCommand(p, c)
      PROVE  /\ \A m \in net' : m.msg \notin Command => m \in net
             /\ ReplyInv' /\ CredentialsKnown'
  <2>1. \A m \in net' : m.msg \notin Command => m \in net
    BY <1>2, Datagrams DEF SendCommand
  <2>2. \A m \in net : m.msg \in Reply => m.msg.pd # p
    BY <1>2 DEF SendCommand, Idle, ReplyInv
  <2>3. UNCHANGED <<pw, user>> /\ \A q \in PDs : q # p => cmd'[q] = cmd[q]
    BY <1>2 DEF SendCommand, TypeOK, asVars
  <2>4. ReplyInv'
    BY <2>1, <2>2, <2>3, Kinds DEF ReplyInv, known
  <2>5. CredentialsKnown'
    BY <2>3 DEF CredentialsKnown
  <2> QED
    BY <2>1, <2>4, <2>5
<1>3. ASSUME EndCommand(p), UNCHANGED pw
      PROVE  ReplyInv' /\ \A m \in net' : m \in net
  <2>1. \A m \in net' : m \in net /\ (m.msg \in Reply => m.msg.pd # p)
    BY <1>3 DEF EndCommand
  <2>2. \A q \in PDs : q # p => cmd'[q] = cmd[q]
    BY <1>3 DEF EndCommand, TypeOK
  <2> QED
    BY <1>3, <2>1, <2>2, Kinds DEF ReplyInv, known
<1>4. CASE Start(p)
  <2>1. CredentialsKnown'
    BY <1>4 DEF Start, CredentialsKnown, TypeOK, asVars
  <2>2. ReplyInv' /\ net' = net
    BY <1>4 DEF Start, ReplyInv, known, asVars
  <2> QED
    BY <1>1, <2>1, <2>2, AsFrame
<1>5. CASE Keyboard(p)
  <2>0. commands < MaxCommands
    BY <1>5 DEF Keyboard, StartRegister, StartUnregister, SendCommand
  <2>1. commands + 1 \in 1..MaxCommands
    BY <2>0 DEF TypeOK
  <2>2. PICK c \in Command : SendCommand(p, c)
    <3>1. ASSUME NEW u \in Users, NEW w \in Passwords, StartRegister(p, u, w)
          PROVE  \E c \in Command : SendCommand(p, c)
      <4>1. [op |-> "REG", uid |-> u, pw |-> w, pd |-> p, sock |-> commands + 1] \in Command
        BY <2>1 DEF Command
      <4> QED
        BY <3>1, <4>1 DEF StartRegister
    <3>2. ASSUME StartUnregister(p)
          PROVE  \E c \in Command : SendCommand(p, c)
      <4> DEFINE me == IF user[p] = None THEN [uid |-> None, pw |-> None] ELSE user[p]
      <4>1. me.uid \in Users \cup {None} /\ me.pw \in Passwords \cup {None}
        BY DEF User, TypeOK
      <4>2. [op |-> "UNR", uid |-> me.uid, pw |-> me.pw, pd |-> p, sock |-> commands + 1] \in Command
        BY <2>1, <4>1 DEF Command
      <4> QED
        BY <3>2, <4>2 DEF StartUnregister
    <3> QED
      BY <1>5, <3>1, <3>2 DEF Keyboard
  <2>3. \A m \in net' : m.msg \in VLC => m \in net
    BY <1>2, <2>2, Kinds
  <2> QED
    BY <1>1, <1>2, <2>2, <2>3, AsFrame
<1>6. CASE Resend(p)
  <2>1. \A m \in net' : m.msg \notin Command => m \in net
    <3>1. cmd[p] \in Command /\ pdTries[p] + 1 \in 0..MaxRetries
      BY <1>6 DEF Resend, TypeOK
    <3>2. Copy(cmd[p], pdTries[p] + 1).msg \in Command
      BY <3>1, Datagrams
    <3> QED
      BY <1>6, <3>2 DEF Resend
  <2>2. UNCHANGED <<pw, user, cmd>>
    BY <1>6 DEF Resend, asVars
  <2>3. ReplyInv' /\ CredentialsKnown'
    BY <2>1, <2>2, Kinds DEF ReplyInv, CredentialsKnown, known
  <2>4. \A m \in net' : m.msg \in VLC => m \in net
    BY <2>1, Kinds
  <2> QED
    BY <1>1, <2>3, <2>4, AsFrame
<1>7. CASE GiveUp(p)
  <2>1. EndCommand(p) /\ UNCHANGED <<pw, user>>
    BY <1>7 DEF GiveUp, asVars
  <2>2. CredentialsKnown'
    BY <2>1 DEF CredentialsKnown
  <2> QED
    BY <1>1, <1>3, <2>1, <2>2, AsFrame
<1>8. CASE Crash(p)
  <2>1. EndCommand(p) /\ UNCHANGED pw /\ user' = [user EXCEPT ![p] = None]
    BY <1>8 DEF Crash, asVars
  <2>2. CredentialsKnown'
    BY <2>1 DEF CredentialsKnown, TypeOK
  <2> QED
    BY <1>1, <1>3, <2>1, <2>2, AsFrame
<1> QED
  BY <1>4, <1>5, <1>6, <1>7, <1>8 DEF PdTimeout

\* What a PD does with a datagram: an RRG OK makes it believe only what the AS
\* has in its list.
LEMMA PdReceiveStep ==
  ASSUME TypeOK, OtherInvs, NEW p \in PDs, NEW m \in net, PdReceive(p, m)
  PROVE  OtherInvs'
<1> USE DEF OtherInvs
<1>1. UNCHANGED <<asVars, requests>>
  BY DEF PdReceive, ReceiveRRG, ReceiveRUN, AnswerVLC, inputs
<1>2. ASSUME TakeReply(p, m)
      PROVE  ReplyInv' /\ \A n \in net' : n \in net
  <2>1. \A n \in net' : n \in net /\ (n.msg \in Reply => n.msg.pd # p)
    BY <1>2 DEF TakeReply, EndCommand
  <2>2. \A q \in PDs : q # p => cmd'[q] = cmd[q]
    BY <1>2 DEF TakeReply, EndCommand, TypeOK
  <2> QED
    BY <1>1, <2>1, <2>2, Kinds DEF ReplyInv, known, asVars
<1>3. CASE ReceiveRRG(p, m)
  <2>1. TakeReply(p, m) /\ m.msg \in Reply /\ m.msg.pd = p /\ m.msg.op = "RRG"
    BY <1>3 DEF ReceiveRRG, TakeReply
  <2>2. m.msg.ok => pw[cmd[p].uid] = cmd[p].pw
    BY <2>1 DEF ReplyInv
  <2>3. \/ user' = user
        \/ m.msg.ok /\ user' = [user EXCEPT ![p] = [uid |-> cmd[p].uid, pw |-> cmd[p].pw]]
    BY <1>3 DEF ReceiveRRG, TypeOK
  <2>4. CredentialsKnown'
    BY <1>1, <2>2, <2>3 DEF CredentialsKnown, TypeOK, asVars
  <2> QED
    BY <1>1, <1>2, <2>1, <2>4, AsFrame
<1>4. CASE ReceiveRUN(p, m)
  <2>1. TakeReply(p, m)
    BY <1>4 DEF ReceiveRUN
  <2>2. user' = user \/ user' = [user EXCEPT ![p] = None]
    BY <1>4 DEF ReceiveRUN, TypeOK
  <2>3. CredentialsKnown'
    BY <1>1, <2>2 DEF CredentialsKnown, TypeOK, asVars
  <2> QED
    BY <1>1, <1>2, <2>1, <2>3, AsFrame
<1>5. CASE AnswerVLC(p, m)
  <2> DEFINE r == [op |-> "RVC", uid |-> m.msg.uid, sock |-> m.msg.sock, ok |-> IsPdOf(p, m.msg.uid)]
  <2>1. m.msg \in VLC
    BY <1>5 DEF AnswerVLC
  <2>2. r \in RVC
    BY <2>1 DEF VLC, RVC, IsPdOf
  <2>3. Copy(r, 0).msg \in RVC
    BY <2>2, Datagrams
  <2>4. net' \subseteq net \cup {Copy(r, 0)}
    BY <1>5 DEF AnswerVLC
  <2> HIDE DEF r
  <2>5. \A n \in net' : n.msg \notin RVC => n \in net
    BY <2>3, <2>4
  <2>6. UNCHANGED <<pw, user, cmd>>
    BY <1>5 DEF AnswerVLC, asVars, pdVars
  <2>7. ReplyInv' /\ CredentialsKnown'
    BY <2>5, <2>6, Kinds DEF ReplyInv, CredentialsKnown, known
  <2>8. \A n \in net' : n.msg \in VLC => n \in net
    BY <2>5, Kinds
  <2> QED
    BY <1>1, <2>7, <2>8, AsFrame
<1> QED
  BY <1>3, <1>4, <1>5 DEF PdReceive

\* Passwords of known users stay, and no reply or VLC comes up but the answers
\* to a command of its PD: this is all that the AS does with a datagram.
LEMMA ServeFrame ==
  ASSUME TypeOK, OtherInvs, NEW c \in Command, NEW ok \in BOOLEAN,
         UNCHANGED <<pdVars, requests>>,
         net' \subseteq net \cup Answer(c, ok),
         \A u \in known : pw'[u] = pw[u],
         pw' \in [Users -> Passwords \cup {None}],
         c.op = "REG" /\ ok => c.uid \in known' /\ pw'[c.uid] = c.pw
  PROVE  /\ ReplyInv' /\ CredentialsKnown'
         /\ \A m \in net' : m.msg \in VLC => m \in net
<1> USE DEF OtherInvs
<1>1. UNCHANGED <<user, cmd>>
  BY DEF pdVars
<1>2. known \subseteq known'
  BY DEF known, TypeOK
<1>3. CredentialsKnown'
  <2>1. ASSUME NEW p \in PDs, user[p] # None
        PROVE  pw'[user[p].uid] = user[p].pw
    <3>1. user[p] \in User /\ pw[user[p].uid] = user[p].pw
      BY <2>1 DEF TypeOK, CredentialsKnown
    <3>2. user[p].uid \in known
      BY <3>1 DEF User, known
    <3> QED
      BY <3>1, <3>2
  <2> QED
    BY <1>1, <2>1 DEF CredentialsKnown
<1>4. ASSUME NEW m \in net', m.msg \in Reply
      PROVE  LET d == cmd[m.msg.pd]
             IN /\ d \in Command
                /\ m.msg.op = "RRG" <=> d.op = "REG"
                /\ m.msg.op = "RRG" /\ m.msg.ok => d.uid \in known' /\ pw'[d.uid] = d.pw
  <2>1. CASE m \in net
    BY <1>2, <1>4, <2>1 DEF ReplyInv
  <2>2. CASE m \in Answer(c, ok)
    BY <2>2, AnswerType
  <2> QED
    BY <2>1, <2>2
<1>5. ReplyInv'
  BY <1>1, <1>4 DEF ReplyInv, known
<1>6. \A m \in net' : m.msg \in VLC => m \in net
  BY AnswerType, Kinds
<1> QED
  BY <1>3, <1>5, <1>6

\* The UDP thread: it stores an address only while it holds the user's mutex,
\* so no VLC of a REQ that waits was sent elsewhere.
LEMMA UdpStep ==
  ASSUME TypeOK, OtherInvs,
         UdpThread \/ \E m \in net : ServeAtOnce(m) \/ ReceiveCommand(m)
  PROVE  OtherInvs'
<1> USE DEF OtherInvs
<1>1. CASE Register
  <2> DEFINE ok == pd[udpMsg.uid] = None /\ pw[udpMsg.uid] = udpMsg.pw
  <2>1. udpMsg \in Command /\ udpMsg.uid \in known /\ udpMsg.pd \in PDs /\ reqSock[udpMsg.uid] = 0
    BY <1>1, Kinds DEF Register, MutexFree, TypeOK, UdpInv
  <2>2. /\ pd' = [pd EXCEPT ![udpMsg.uid] = IF ok THEN udpMsg.pd ELSE @]
        /\ net' = net \cup Answer(udpMsg, ok)
        /\ udpMsg' = None /\ pw' = pw /\ reqSock' = reqSock
        /\ UNCHANGED <<pdVars, requests>>
    BY <1>1 DEF Register, inputs
  <2>3. /\ ReplyInv' /\ CredentialsKnown'
        /\ \A m \in net' : m.msg \in VLC => m \in net
    <3>1. ok => pw'[udpMsg.uid] = udpMsg.pw /\ udpMsg.uid \in known'
      BY <2>1, <2>2 DEF known
    <3>2. ok \in BOOLEAN /\ pw' \in [Users -> Passwords \cup {None}]
      BY <2>2 DEF TypeOK
    <3> HIDE DEF ok
    <3> QED
      BY <2>1, <2>2, <3>1, <3>2, ServeFrame
  <2>4. ListInv' /\ UdpInv'
    BY <2>1, <2>2 DEF ListInv, UdpInv, TypeOK, known
  <2>5. SockInv' /\ ChallengeReachesPd'
    BY <2>1, <2>2, <2>3 DEF SockInv, ChallengeReachesPd, TypeOK, Datagram, VLC
  <2> QED
    BY <2>3, <2>4, <2>5
<1>2. CASE Unregister
  <2> DEFINE ok == pw[udpMsg.uid] = udpMsg.pw
  <2>1. /\ udpMsg \in Command /\ udpMsg.uid \in known /\ reqSock[udpMsg.uid] = 0
        /\ udpMsg.op # "REG"
    BY <1>2 DEF Unregister, MutexFree, TypeOK, UdpInv
  <2>2. /\ pd' = [pd EXCEPT ![udpMsg.uid] = IF ok THEN None ELSE @]
        /\ net' = net \cup Answer(udpMsg, ok)
        /\ udpMsg' = None /\ pw' = pw /\ reqSock' = reqSock
        /\ UNCHANGED <<pdVars, requests>>
    BY <1>2 DEF Unregister, inputs
  <2>3. /\ ReplyInv' /\ CredentialsKnown'
        /\ \A m \in net' : m.msg \in VLC => m \in net
    <3>1. ok \in BOOLEAN /\ pw' \in [Users -> Passwords \cup {None}]
      BY <2>2 DEF TypeOK
    <3> HIDE DEF ok
    <3> QED
      BY <2>1, <2>2, <3>1, ServeFrame
  <2>4. ListInv' /\ UdpInv'
    BY <2>1, <2>2 DEF ListInv, UdpInv, TypeOK, known
  <2>5. SockInv' /\ ChallengeReachesPd'
    BY <2>1, <2>2, <2>3 DEF SockInv, ChallengeReachesPd, TypeOK, Datagram, VLC
  <2> QED
    BY <2>3, <2>4, <2>5
<1>3. ASSUME NEW m \in net, ServeAtOnce(m) PROVE OtherInvs'
  <2> DEFINE c == m.msg
             ok == c.op = "REG" /\ ~PdRegistered(c.pd)
  <2>1. c \in Command /\ ok \in BOOLEAN
    BY <1>3 DEF ServeAtOnce
  <2>2. ok => c.uid \in Users \ known /\ c.pw \in Passwords /\ c.pd \in PDs
    BY <1>3, <2>1, Kinds DEF ServeAtOnce
  <2>3. /\ pw' = IF ok THEN [pw EXCEPT ![c.uid] = c.pw] ELSE pw
        /\ pd' = IF ok THEN [pd EXCEPT ![c.uid] = c.pd] ELSE pd
        /\ net' \subseteq net \cup Answer(c, ok)
        /\ udpMsg' = None /\ reqSock' = reqSock
        /\ UNCHANGED <<pdVars, requests>>
    BY <1>3 DEF ServeAtOnce, inputs
  <2>4. c.op = "REG" /\ ok <=> ok
    OBVIOUS
  <2> HIDE DEF c, ok
  <2>5. \A u \in known : pw'[u] = pw[u]
    BY <2>2, <2>3 DEF TypeOK, known
  <2>6. pw' \in [Users -> Passwords \cup {None}]
    BY <2>2, <2>3 DEF TypeOK
  <2>7. ok => c.uid \in known' /\ pw'[c.uid] = c.pw
    BY <2>2, <2>3 DEF TypeOK, known
  <2>8. /\ ReplyInv' /\ CredentialsKnown'
        /\ \A n \in net' : n.msg \in VLC => n \in net
    BY <2>1, <2>3, <2>4, <2>5, <2>6, <2>7, ServeFrame
  <2>9. ok => pd[c.uid] = None /\ reqSock[c.uid] = 0
    BY <2>2 DEF ListInv
  <2>10. ListInv' /\ UdpInv'
    BY <2>2, <2>3, <2>9 DEF ListInv, UdpInv, TypeOK, known
  <2>11. SockInv' /\ ChallengeReachesPd'
    BY <2>2, <2>3, <2>8, <2>9 DEF SockInv, ChallengeReachesPd, TypeOK, Datagram, VLC
  <2> QED
    BY <2>8, <2>10, <2>11
<1>4. ASSUME NEW m \in net, ReceiveCommand(m) PROVE OtherInvs'
  <2>1. /\ UNCHANGED <<pw, pd, reqSock, user, cmd, requests>>
        /\ net' \subseteq net
        /\ udpMsg'.uid \in known /\ (udpMsg'.op = "REG" => ~PdRegistered(udpMsg'.pd))
    BY <1>4 DEF ReceiveCommand, pdVars, inputs
  <2> QED
    BY <2>1 DEF ListInv, UdpInv, ReplyInv, CredentialsKnown, SockInv, ChallengeReachesPd, known,
                PdRegistered
<1> QED
  BY <1>1, <1>2, <1>3, <1>4 DEF UdpThread

\* A REQ: its VLC is new, and goes to the PD that its user has.
LEMMA RequestStep ==
  ASSUME TypeOK, OtherInvs, NEW u \in Users,
         SendVLC(u) \/ RequestTimeout(u) \/ \E m \in net : ReceiveRVC(u, m)
  PROVE  OtherInvs'
<1> USE DEF OtherInvs
<1>1. UNCHANGED <<pw, pd, udpMsg, user, cmd>>
  BY DEF SendVLC, RequestTimeout, RetransmitVLC, GiveUpVLC, ReceiveRVC, pdVars
<1>2. ASSUME \A m \in net' : m.msg \in Reply => m \in net
      PROVE  ReplyInv' /\ CredentialsKnown' /\ UdpInv'
  BY <1>1, <1>2 DEF ReplyInv, CredentialsKnown, UdpInv, known, PdRegistered
<1>3. ASSUME NEW s \in 1..MaxRequests, NEW n \in 0..MaxRetries, pd[u] # None,
             net' = net \cup {Copy(Challenge(u, s), n)}
      PROVE  /\ \A m \in net' \ net : m.msg \in VLC /\ m.msg.uid = u /\ m.msg.pd = pd[u] /\ m.msg.sock = s
             /\ \A m \in net' : m.msg \in Reply => m \in net
  <2>1. Challenge(u, s) \in VLC
    BY <1>3 DEF Challenge, VLC, TypeOK
  <2>2. Challenge(u, s).uid = u /\ Challenge(u, s).pd = pd[u] /\ Challenge(u, s).sock = s
    BY DEF Challenge
  <2>3. Copy(Challenge(u, s), n).msg = Challenge(u, s)
    BY <2>1, Datagrams
  <2> QED
    BY <1>3, <2>1, <2>2, <2>3, Kinds
<1>4. CASE SendVLC(u)
  <2>0. requests < MaxRequests
    BY <1>4 DEF SendVLC
  <2>1. requests + 1 \in 1..MaxRequests /\ 0 \in 0..MaxRetries
    BY <2>0 DEF TypeOK
  <2>2. /\ pd[u] # None /\ requests' = requests + 1
        /\ reqSock' = [reqSock EXCEPT ![u] = requests + 1]
        /\ net' = net \cup {Copy(Challenge(u, requests + 1), 0)}
    BY <1>4 DEF SendVLC
  <2>3. /\ \A m \in net' \ net : /\ m.msg \in VLC /\ m.msg.uid = u /\ m.msg.pd = pd[u]
                                 /\ m.msg.sock = requests + 1
        /\ \A m \in net' : m.msg \in Reply => m \in net
    BY <2>1, <2>2, <1>3
  <2>4. ListInv'
    BY <1>1, <2>2 DEF ListInv, TypeOK, known
  <2>5. SockInv'
    BY <2>2, <2>3 DEF SockInv, TypeOK, Datagram, VLC
  <2>6. ChallengeReachesPd'
    BY <1>1, <2>2, <2>3 DEF ChallengeReachesPd, SockInv, TypeOK, Datagram, VLC
  <2> QED
    BY <1>2, <2>3, <2>4, <2>5, <2>6
<1>5. CASE RetransmitVLC(u)
  <2>1. reqSock[u] \in 1..MaxRequests /\ reqTries[u] + 1 \in 0..MaxRetries /\ pd[u] # None
    BY <1>5 DEF RetransmitVLC, TypeOK, ListInv
  <2>2. /\ UNCHANGED <<reqSock, requests>>
        /\ net' = net \cup {Copy(Challenge(u, reqSock[u]), reqTries[u] + 1)}
    BY <1>5 DEF RetransmitVLC, inputs
  <2>3. /\ \A m \in net' \ net : /\ m.msg \in VLC /\ m.msg.uid = u /\ m.msg.pd = pd[u]
                                 /\ m.msg.sock = reqSock[u]
        /\ \A m \in net' : m.msg \in Reply => m \in net
    BY <2>1, <2>2, <1>3
  <2>4. ListInv' /\ SockInv'
    BY <1>1, <2>2, <2>3 DEF ListInv, SockInv, known
  <2>5. ChallengeReachesPd'
    BY <1>1, <2>2, <2>3 DEF ChallengeReachesPd
  <2> QED
    BY <1>2, <2>3, <2>4, <2>5
<1>6. CASE GiveUpVLC(u) \/ \E m \in net : ReceiveRVC(u, m)
  <2>1. /\ reqSock' = [reqSock EXCEPT ![u] = 0] /\ requests' = requests
        /\ \A m \in net' : m \in net
    BY <1>6 DEF GiveUpVLC, ReceiveRVC, EndRequest, inputs
  <2>2. ListInv'
    BY <1>1, <2>1 DEF ListInv, TypeOK, known
  <2>3. SockInv' /\ ChallengeReachesPd'
    BY <1>1, <2>1 DEF SockInv, ChallengeReachesPd, TypeOK, Datagram, VLC
  <2> QED
    BY <1>2, <2>1, <2>2, <2>3
<1> QED
  BY <1>4, <1>5, <1>6 DEF RequestTimeout

----------------------------------------------------------------------------
\* The inductive invariant

\* Nothing is registered and nothing under way at first.
LEMMA Initially == Init => IInv
BY DEF Init, IInv, TypeOK, ListInv, UdpInv, ReplyInv, CredentialsKnown, SockInv, ChallengeReachesPd,
       known

\* The actions of Next, by who takes them.
LEMMA Actions ==
  ASSUME Next
  PROVE  \/ \E p \in PDs : Start(p) \/ Keyboard(p) \/ PdTimeout(p) \/ Crash(p)
         \/ \E p \in PDs, m \in net : PdReceive(p, m)
         \/ UdpThread \/ \E m \in net : ServeAtOnce(m) \/ ReceiveCommand(m)
         \/ \E u \in Users : SendVLC(u) \/ RequestTimeout(u) \/ \E m \in net : ReceiveRVC(u, m)
BY DEF Next

\* Every step keeps the invariant.
LEMMA Inductive == IInv /\ [Next]_vars => IInv'
<1> SUFFICES ASSUME IInv, [Next]_vars PROVE IInv'
  OBVIOUS
<1>1. TypeOK /\ ListInv /\ UdpInv /\ ReplyInv /\ OtherInvs
  BY DEF IInv, OtherInvs
<1>2. ASSUME NEW p \in PDs, Start(p) \/ Keyboard(p) \/ PdTimeout(p) \/ Crash(p)
      PROVE  TypeOK' /\ OtherInvs'
  BY <1>1, <1>2, PdTypeStep, PdStep
<1>3. ASSUME NEW p \in PDs, NEW m \in net, PdReceive(p, m)
      PROVE  TypeOK' /\ OtherInvs'
  BY <1>1, <1>3, PdReceiveTypeStep, PdReceiveStep
<1>4. ASSUME UdpThread \/ \E m \in net : ServeAtOnce(m) \/ ReceiveCommand(m)
      PROVE  TypeOK' /\ OtherInvs'
  BY <1>1, <1>4, AsTypeStep, UdpStep
<1>5. ASSUME NEW u \in Users, SendVLC(u) \/ RequestTimeout(u) \/ \E m \in net : ReceiveRVC(u, m)
      PROVE  TypeOK' /\ OtherInvs'
  BY <1>1, <1>5, AsTypeStep, RequestStep
<1>6. ASSUME UNCHANGED vars
      PROVE  TypeOK' /\ OtherInvs'
  <2>1. TypeOK'
    BY <1>1, <1>6 DEF TypeOK, vars, asVars, pdVars, inputs
  <2>2. OtherInvs'
    BY <1>1, <1>6 DEF OtherInvs, ListInv, UdpInv, ReplyInv, CredentialsKnown, SockInv,
       ChallengeReachesPd, known, PdRegistered, vars, asVars, pdVars, inputs
  <2> QED
    BY <2>1, <2>2
<1>7. TypeOK' /\ OtherInvs'
  BY <1>2, <1>3, <1>4, <1>5, <1>6, Actions
<1> QED
  BY <1>7 DEF IInv, OtherInvs

\* The invariant holds in every state of every behaviour.
THEOREM Invariance == Spec => []IInv
<1> QED
  BY Initially, Inductive, PTL DEF Spec

\* Every variable keeps its type; in particular no datagram is sent again more
\* than MaxRetries times (PD.c:53, AS.c:283).
THEOREM RegistrationTypes == Spec => []TypeOK
<1>1. IInv => TypeOK
  BY DEF IInv
<1> QED
  BY <1>1, Invariance, PTL

\* A PD's user is in the AS's list with the password the PD holds, through any
\* loss, delay or repetition (RRG OK, PD.c:65).
THEOREM CredentialsCorrect == Spec => []CredentialsKnown
<1>1. IInv => CredentialsKnown
  BY DEF IInv
<1> QED
  BY <1>1, Invariance, PTL

\* While a REQ waits its VLC names the user's present PD (AS.c:254).
THEOREM ChallengeCorrect == Spec => []ChallengeReachesPd
<1>1. IInv => ChallengeReachesPd
  BY DEF IInv
<1> QED
  BY <1>1, Invariance, PTL

----------------------------------------------------------------------------
\* Refinement

\* A step of the AS is a claim, a release or a stutter of the registry: the
\* scan of REG, done before the wait for the mutex, still holds after it.
LEMMA RegistryStep == IInv /\ [Next]_vars => [Registry!Next]_pd
<1> SUFFICES ASSUME IInv, [Next]_vars PROVE [Registry!Next]_pd
  OBVIOUS
<1> USE DEF Registry!Next, Registry!Claim, Registry!Release
<1>1. TypeOK /\ ListInv /\ UdpInv
  BY DEF IInv
<1>2. CASE Register
  <2> DEFINE ok == pd[udpMsg.uid] = None /\ pw[udpMsg.uid] = udpMsg.pw
  <2>1. /\ udpMsg.uid \in Users /\ udpMsg.pd \in PDs
        /\ \A v \in known : pd[v] # udpMsg.pd
    BY <1>1, <1>2, Kinds DEF Register, TypeOK, UdpInv, PdRegistered, known
  <2>2. \A v \in Users : pd[v] # udpMsg.pd
    BY <1>1, <2>1 DEF ListInv
  <2>3. pd' = [pd EXCEPT ![udpMsg.uid] = IF ok THEN udpMsg.pd ELSE @]
    BY <1>2 DEF Register
  <2>4. CASE ok
    BY <2>1, <2>2, <2>3, <2>4
  <2>5. CASE ~ok
    BY <1>1, <2>3, <2>5 DEF TypeOK
  <2> QED
    BY <2>4, <2>5
<1>3. CASE Unregister
  <2>1. udpMsg.uid \in Users
    BY <1>1, <1>3 DEF Unregister, UdpInv, known
  <2>2. pd' = pd \/ pd' = [pd EXCEPT ![udpMsg.uid] = None]
    BY <1>1, <1>3 DEF Unregister, TypeOK
  <2> QED
    BY <2>1, <2>2
<1>4. ASSUME NEW m \in net, ServeAtOnce(m) PROVE [Registry!Next]_pd
  <2> DEFINE c == m.msg
             ok == c.op = "REG" /\ ~PdRegistered(c.pd)
  <2>1. c \in Command /\ pd' = IF ok THEN [pd EXCEPT ![c.uid] = c.pd] ELSE pd
    BY <1>4 DEF ServeAtOnce
  <2>2. ok => c.uid \in Users \ known /\ c.pd \in PDs
    BY <1>4, <2>1, Kinds DEF ServeAtOnce
  <2>3. ok => \A v \in Users : pd[v] # c.pd
    BY <1>1, <2>2 DEF ListInv, PdRegistered
  <2>4. ok => pd[c.uid] = None
    BY <1>1, <2>2 DEF ListInv
  <2> HIDE DEF c, ok
  <2> QED
    BY <2>1, <2>2, <2>3, <2>4
<1>5. CASE pd' = pd
  BY <1>5
<1>6. \/ Register \/ Unregister \/ pd' = pd
      \/ \E m \in net : ServeAtOnce(m)
  BY DEF Next, Start, Keyboard, StartRegister, StartUnregister, SendCommand, PdTimeout, Resend, GiveUp,
         Crash, PdReceive, ReceiveRRG, ReceiveRUN, AnswerVLC, ReceiveCommand, UdpThread, SendVLC,
         RequestTimeout, RetransmitVLC, GiveUpVLC, ReceiveRVC, vars, asVars
<1> QED
  BY <1>2, <1>3, <1>4, <1>5, <1>6

\* REG and UNR over an unreliable network implement the abstract registry
\* (AS.c:155-210).
THEOREM RegistrationServes == Spec => ServesRegistry
<1>1. Init => Registry!Init
  BY DEF Init, Registry!Init
<1>2. IInv /\ [Next]_vars => [Registry!Next]_pd
  BY RegistryStep
<1> QED
  BY <1>1, <1>2, Invariance, PTL DEF Spec, ServesRegistry, Registry!Spec

----------------------------------------------------------------------------
\* Agreement.  It is not inductive: it speaks of PDs that wait for a command,
\* and what a PD will believe then hangs on the replies under way and on the
\* copies of its commands that the AS has yet to serve.

\* A PD that is not there has neither a user nor a command, and an UNR names the
\* user of its PD, or none.
DeviceInv ==
  \A p \in PDs :
    /\ ~up[p] => user[p] = None /\ cmd[p] = None
    /\ cmd[p] # None => cmd[p].pd = p
    /\ cmd[p] # None /\ cmd[p].op = "UNR" => cmd[p].uid = IF user[p] = None THEN None ELSE user[p].uid

RepliesTo(p) == {r \in net : r.msg \in Reply /\ r.msg.pd = p}

\* The PD waits with c and nothing was answered.
Unanswered(c) == cmd[c.pd] = c /\ RepliesTo(c.pd) = {}

\* A command about a user whom no fault was about is under way once, and its PD
\* waits for the one reply.
OnceInv ==
  \A u \in Users \ faulty :
    /\ \A m \in net : m.msg \in Command /\ m.msg.uid = u =>
         m.copy = 0 /\ Unanswered(m.msg) /\ udpMsg # m.msg
    /\ udpMsg # None /\ udpMsg.uid = u => Unanswered(udpMsg)
    /\ \A p \in PDs : cmd[p] # None /\ cmd[p].uid = u => \A r, s \in RepliesTo(p) : r = s

Agrees(u, p) == pd[u] = p <=> IsPdOf(p, u)

\* The AS and a PD agree but between the step of the AS that serves a command
\* and the arrival of its reply.
AgreeInv ==
  \A u \in Users \ faulty, p \in PDs :
    /\ cmd[p] = None \/ cmd[p].uid # u \/ (\A r \in RepliesTo(p) : ~r.msg.ok) => Agrees(u, p)
    /\ \A r \in RepliesTo(p) : r.msg.ok =>
         IF cmd[p].op = "REG" THEN pd[u] = p <=> cmd[p].uid = u ELSE cmd[p].uid = u => pd[u] # p

AgreementInv == DeviceInv /\ OnceInv /\ AgreeInv

\* A command is under way in one datagram or in several that its copy tells
\* apart.
LEMMA SameDatagram ==
  ASSUME NEW m \in Datagram, NEW n \in Datagram, m.msg = n.msg, m.copy = n.copy
  PROVE  m = n
BY DEF Datagram

\* Steps that leave commands and replies, what PDs believe and the list alone.
LEMMA AgreementFrame ==
  ASSUME TypeOK, AgreementInv, UNCHANGED <<pd, udpMsg, user, cmd, faulty>>, \A p \in PDs : up[p] => up'[p],
         \A m : m.msg \in Command \cup Reply => (m \in net' <=> m \in net)
  PROVE  AgreementInv'
<1>1. \A p \in PDs : RepliesTo(p)' = RepliesTo(p)
  BY DEF RepliesTo
<1>2. DeviceInv'
  BY DEF AgreementInv, DeviceInv
<1>3. OnceInv'
  <2>1. \A c \in Command : Unanswered(c)' <=> Unanswered(c)
    BY <1>1, Kinds DEF Unanswered
  <2>2. udpMsg \in Command \cup {None} /\ \A m \in net' : m.msg \in Command => m \in net
    BY DEF TypeOK
  <2> QED
    BY <1>1, <2>1, <2>2 DEF AgreementInv, OnceInv
<1>4. AgreeInv'
  BY <1>1 DEF AgreementInv, AgreeInv, Agrees, IsPdOf
<1> QED
  BY <1>2, <1>3, <1>4 DEF AgreementInv

\* A command that is typed: no reply to the PD is under way, and no command of
\* the PD about a user whom no fault was about.
LEMMA SendAgreement ==
  ASSUME TypeOK, ReplyInv, AgreementInv, NEW p \in PDs, NEW c \in Command, c.pd = p,
         c.op = "UNR" => c.uid = IF user[p] = None THEN None ELSE user[p].uid,
         SendCommand(p, c)
  PROVE  AgreementInv'
<1>1. /\ up[p] /\ cmd[p] = None /\ cmd' = [cmd EXCEPT ![p] = c] /\ net' = net \cup {Copy(c, 0)}
      /\ UNCHANGED <<pd, udpMsg, user, faulty, up>>
  BY DEF SendCommand, Idle, asVars
<1>2. cmd'[p] = c /\ \A q \in PDs \ {p} : cmd'[q] = cmd[q]
  BY <1>1 DEF TypeOK
<1>3. Copy(c, 0).msg = c /\ Copy(c, 0).copy = 0
  BY DEF Copy
<1>4. \A q \in PDs : RepliesTo(q)' = RepliesTo(q)
  BY <1>1, <1>3, Kinds DEF RepliesTo
<1>5. RepliesTo(p) = {}
  BY <1>1 DEF RepliesTo, ReplyInv
<1>6. c # None
  OBVIOUS
<1>7. DeviceInv'
  BY <1>1, <1>2, <1>6 DEF AgreementInv, DeviceInv
<1>8. OnceInv'
  <2>1. ASSUME NEW u \in Users \ faulty, NEW m \in net', m.msg \in Command, m.msg.uid = u
        PROVE  m.copy = 0 /\ Unanswered(m.msg)' /\ udpMsg' # m.msg
    <3>1. CASE m \in net
      <4>1. m.copy = 0 /\ Unanswered(m.msg) /\ udpMsg # m.msg
        BY <2>1, <3>1 DEF AgreementInv, OnceInv
      <4>2. m.msg.pd \in PDs \ {p}
        BY <1>1, <2>1, <4>1, Kinds DEF Unanswered
      <4> QED
        BY <1>1, <1>2, <1>4, <4>1, <4>2 DEF Unanswered
    <3>2. CASE m = Copy(c, 0)
      <4>1. udpMsg # c
        BY <1>1, <1>3, <2>1, <3>2 DEF AgreementInv, OnceInv, Unanswered
      <4> QED
        BY <1>1, <1>2, <1>3, <1>4, <1>5, <3>2, <4>1 DEF Unanswered
    <3> QED
      BY <1>1, <3>1, <3>2
  <2>2. ASSUME NEW u \in Users \ faulty, udpMsg # None, udpMsg.uid = u PROVE Unanswered(udpMsg)'
    <3>1. udpMsg \in Command /\ Unanswered(udpMsg)
      BY <2>2 DEF AgreementInv, OnceInv, TypeOK
    <3>2. udpMsg.pd \in PDs \ {p}
      BY <1>1, <3>1, Kinds DEF Unanswered
    <3> QED
      BY <1>1, <1>2, <1>4, <3>1, <3>2 DEF Unanswered
  <2>3. ASSUME NEW u \in Users \ faulty, NEW q \in PDs, cmd'[q] # None, cmd'[q].uid = u
        PROVE  \A r, s \in RepliesTo(q)' : r = s
    BY <1>2, <1>4, <1>5, <2>3 DEF AgreementInv, OnceInv
  <2> QED
    BY <1>1, <2>1, <2>2, <2>3 DEF OnceInv
<1>9. AgreeInv'
  <2>1. \A u \in Users, q \in PDs : Agrees(u, q)' <=> Agrees(u, q)
    BY <1>1 DEF Agrees, IsPdOf
  <2> QED
    BY <1>1, <1>2, <1>4, <1>5, <2>1 DEF AgreementInv, AgreeInv
<1> QED
  BY <1>7, <1>8, <1>9 DEF AgreementInv

\* Retransmissions are about users whom a fault was about from then on.
LEMMA ResendAgreement ==
  ASSUME TypeOK, AgreementInv, NEW p \in PDs, Resend(p)
  PROVE  AgreementInv'
<1>1. /\ cmd[p] # None /\ net' = net \cup {Copy(cmd[p], pdTries[p] + 1)}
      /\ faulty' = faulty \cup {cmd[p].uid} /\ UNCHANGED <<pd, udpMsg, user, cmd, up>>
  BY DEF Resend, asVars
<1>2. Copy(cmd[p], pdTries[p] + 1).msg = cmd[p] /\ cmd[p] \in Command
  BY <1>1 DEF Copy, TypeOK
<1>3. \A q \in PDs : RepliesTo(q)' = RepliesTo(q)
  BY <1>1, <1>2, Kinds DEF RepliesTo
<1>4. DeviceInv'
  BY <1>1 DEF AgreementInv, DeviceInv
<1>5. OnceInv'
  <2>1. \A c \in Command : Unanswered(c)' <=> Unanswered(c)
    BY <1>1, <1>3, Kinds DEF Unanswered
  <2>2. udpMsg \in Command \cup {None} /\ \A m \in net' : m.msg.uid # cmd[p].uid => m \in net
    BY <1>1, <1>2 DEF TypeOK
  <2> QED
    BY <1>1, <1>3, <2>1, <2>2 DEF AgreementInv, OnceInv
<1>6. AgreeInv'
  BY <1>1, <1>3 DEF AgreementInv, AgreeInv, Agrees, IsPdOf
<1> QED
  BY <1>4, <1>5, <1>6 DEF AgreementInv

\* A command that ends takes the replies to its PD with it.  x is what the PD
\* believes from then on.
LEMMA EndAgreement ==
  ASSUME TypeOK, AgreementInv, NEW p \in PDs, NEW x, EndCommand(p), UNCHANGED <<pd, udpMsg>>,
         user' = [user EXCEPT ![p] = x], faulty \subseteq faulty',
         \A q \in PDs : ~up'[q] => ~up[q] \/ (q = p /\ x = None),
         ~up[p] => x = None,
         cmd[p] = None \/ RepliesTo(p) # {} \/ cmd[p].uid \notin Users \ faulty',
         \A u \in Users \ faulty' : pd[u] = p <=> x # None /\ x.uid = u
  PROVE  AgreementInv'
<1>1. /\ cmd'[p] = None /\ \A q \in PDs \ {p} : cmd'[q] = cmd[q]
      /\ user'[p] = x /\ \A q \in PDs \ {p} : user'[q] = user[q]
  BY DEF EndCommand, TypeOK
<1>2. RepliesTo(p)' = {} /\ \A q \in PDs \ {p} : RepliesTo(q)' = RepliesTo(q)
  BY DEF EndCommand, RepliesTo
<1>3. DeviceInv'
  BY <1>1 DEF AgreementInv, DeviceInv
<1>4. ASSUME NEW u \in Users \ faulty', NEW c \in Command, c.uid = u, Unanswered(c)
      PROVE  Unanswered(c)'
  <2>1. c.pd \in PDs /\ c.pd # p
    BY <1>4, Kinds DEF Unanswered
  <2> QED
    BY <1>1, <1>2, <1>4, <2>1 DEF Unanswered
<1>5. OnceInv'
  <2>1. net' \subseteq net /\ udpMsg \in Command \cup {None} /\ udpMsg' = udpMsg
    BY DEF EndCommand, TypeOK
  <2>2. ASSUME NEW u \in Users \ faulty', NEW m \in net', m.msg \in Command, m.msg.uid = u
        PROVE  m.copy = 0 /\ Unanswered(m.msg)' /\ udpMsg' # m.msg
    <3>1. m \in net /\ u \in Users \ faulty
      BY <2>1
    <3>2. m.copy = 0 /\ Unanswered(m.msg) /\ udpMsg # m.msg
      BY <2>2, <3>1 DEF AgreementInv, OnceInv
    <3> QED
      BY <1>4, <2>1, <2>2, <3>2
  <2>3. ASSUME NEW u \in Users \ faulty', udpMsg # None, udpMsg.uid = u PROVE Unanswered(udpMsg)'
    <3>1. udpMsg \in Command /\ Unanswered(udpMsg)
      BY <2>1, <2>3 DEF AgreementInv, OnceInv
    <3> QED
      BY <1>4, <2>3, <3>1
  <2>4. ASSUME NEW u \in Users \ faulty', NEW q \in PDs, cmd'[q] # None, cmd'[q].uid = u
        PROVE  \A r, s \in RepliesTo(q)' : r = s
    BY <1>1, <1>2, <2>4 DEF AgreementInv, OnceInv
  <2> QED
    BY <2>1, <2>2, <2>3, <2>4 DEF OnceInv
<1>6. AgreeInv'
  <2>1. ASSUME NEW u \in Users \ faulty', NEW q \in PDs \ {p} PROVE Agrees(u, q)' <=> Agrees(u, q)
    BY <1>1 DEF Agrees, IsPdOf
  <2>2. ASSUME NEW u \in Users \ faulty' PROVE Agrees(u, p)'
    BY <1>1, <2>2 DEF Agrees, IsPdOf
  <2> QED
    BY <1>1, <1>2, <2>1, <2>2 DEF AgreementInv, AgreeInv
<1> QED
  BY <1>3, <1>5, <1>6 DEF AgreementInv

\* The ends of a command: no reply in time, a crash, RRG and RUN.
LEMMA EndsAgreement ==
  ASSUME TypeOK, ReplyInv, AgreementInv, NEW p \in PDs,
         GiveUp(p) \/ Crash(p) \/ \E m \in net : ReceiveRRG(p, m) \/ ReceiveRUN(p, m)
  PROVE  AgreementInv'
<1>1. DeviceInv /\ AgreeInv
  BY DEF AgreementInv
<1>2. CASE GiveUp(p)
  <2>1. /\ cmd[p] # None /\ EndCommand(p) /\ faulty' = faulty \cup {cmd[p].uid}
        /\ UNCHANGED <<pd, udpMsg, up>> /\ user' = [user EXCEPT ![p] = user[p]]
    BY <1>2 DEF GiveUp, asVars, TypeOK
  <2>2. \A u \in Users \ faulty' : pd[u] = p <=> user[p] # None /\ user[p].uid = u
    BY <1>1, <2>1 DEF AgreeInv, Agrees, IsPdOf
  <2>3. ~up[p] => user[p] = None
    BY <1>1 DEF DeviceInv
  <2> QED
    BY <2>1, <2>2, <2>3, EndAgreement
<1>3. CASE Crash(p)
  <2>1. /\ EndCommand(p) /\ up' = [up EXCEPT ![p] = FALSE] /\ user' = [user EXCEPT ![p] = None]
        /\ faulty' = faulty \cup {u \in Users : cmd[p] # None /\ cmd[p].uid = u} \cup {u \in Users : IsPdOf(p, u)}
        /\ UNCHANGED <<pd, udpMsg>>
    BY <1>3 DEF Crash, asVars
  <2>2. \A u \in Users \ faulty' : pd[u] # p
    BY <1>1, <2>1 DEF AgreeInv, Agrees
  <2>3. cmd[p] = None \/ cmd[p].uid \notin Users \ faulty'
    BY <2>1
  <2>4. \A q \in PDs : ~up'[q] => ~up[q] \/ q = p
    BY <2>1 DEF TypeOK
  <2> QED
    BY <2>1, <2>2, <2>3, <2>4, EndAgreement
<1>4. ASSUME NEW m \in net, ReceiveRRG(p, m) PROVE AgreementInv'
  <2> DEFINE x == IF m.msg.ok THEN [uid |-> cmd[p].uid, pw |-> cmd[p].pw] ELSE user[p]
  <2>1. /\ cmd[p] # None /\ m \in RepliesTo(p) /\ EndCommand(p)
        /\ UNCHANGED <<pd, udpMsg, up, faulty>> /\ user' = [user EXCEPT ![p] = x]
    BY <1>4 DEF ReceiveRRG, TakeReply, RepliesTo, asVars
  <2>2. cmd[p].op = "REG" /\ cmd[p] \in Command /\ up[p]
    BY <1>1, <1>4 DEF ReceiveRRG, TakeReply, ReplyInv, DeviceInv
  <2>3. ASSUME NEW u \in Users \ faulty' PROVE pd[u] = p <=> x # None /\ x.uid = u
    <3>1. CASE m.msg.ok
      <4>1. pd[u] = p <=> cmd[p].uid = u
        BY <1>1, <2>1, <2>2, <3>1 DEF AgreeInv
      <4>2. x \in User
        BY <2>2, <3>1, Kinds DEF User
      <4> QED
        BY <3>1, <4>1, <4>2
    <3>2. CASE ~m.msg.ok
      <4>1. cmd[p].uid = u => \A r \in RepliesTo(p) : r = m
        BY <2>1 DEF AgreementInv, OnceInv
      <4>2. Agrees(u, p)
        BY <1>1, <2>1, <3>2, <4>1 DEF AgreeInv
      <4> QED
        BY <3>2, <4>2 DEF Agrees, IsPdOf
    <3> QED
      BY <3>1, <3>2
  <2> HIDE DEF x
  <2> QED
    BY <2>1, <2>2, <2>3, EndAgreement
<1>5. ASSUME NEW m \in net, ReceiveRUN(p, m) PROVE AgreementInv'
  <2> DEFINE x == IF m.msg.ok THEN None ELSE user[p]
  <2>1. /\ cmd[p] # None /\ m \in RepliesTo(p) /\ EndCommand(p)
        /\ UNCHANGED <<pd, udpMsg, faulty>> /\ user' = [user EXCEPT ![p] = x]
        /\ up' = [up EXCEPT ![p] = ~m.msg.ok]
    BY <1>5 DEF ReceiveRUN, TakeReply, RepliesTo, asVars
  <2>2. cmd[p].op = "UNR" /\ cmd[p] \in Command /\ up[p] /\ m.msg.ok \in BOOLEAN
    BY <1>1, <1>5, Kinds DEF ReceiveRUN, TakeReply, ReplyInv, DeviceInv
  <2>3. ASSUME NEW u \in Users \ faulty' PROVE pd[u] = p <=> x # None /\ x.uid = u
    <3>1. CASE m.msg.ok
      <4>1. CASE cmd[p].uid = u
        BY <1>1, <2>1, <2>2, <3>1, <4>1 DEF AgreeInv
      <4>2. CASE cmd[p].uid # u
        <5>1. ~IsPdOf(p, u)
          BY <1>1, <2>1, <2>2, <4>2 DEF DeviceInv, IsPdOf
        <5>2. Agrees(u, p)
          BY <1>1, <2>1, <4>2 DEF AgreeInv
        <5> QED
          BY <3>1, <5>1, <5>2 DEF Agrees
      <4> QED
        BY <4>1, <4>2
    <3>2. CASE ~m.msg.ok
      <4>1. cmd[p].uid = u => \A r \in RepliesTo(p) : r = m
        BY <2>1 DEF AgreementInv, OnceInv
      <4>2. Agrees(u, p)
        BY <1>1, <2>1, <3>2, <4>1 DEF AgreeInv
      <4> QED
        BY <3>2, <4>2 DEF Agrees, IsPdOf
    <3> QED
      BY <3>1, <3>2
  <2>4. \A q \in PDs : ~up'[q] => ~up[q] \/ (q = p /\ x = None)
    BY <2>1, <2>2 DEF TypeOK
  <2> HIDE DEF x
  <2> QED
    BY <2>1, <2>2, <2>3, <2>4, EndAgreement
<1> QED
  BY <1>2, <1>3, <1>4, <1>5

\* The AS has served the command c, which it took from the network or had
\* waited with, and the rest of the network, N, is as it was.
LEMMA ServeAgreement ==
  ASSUME TypeOK, AgreementInv, NEW c \in Command, NEW ok \in BOOLEAN, NEW N \in SUBSET net,
         net' = N \cup Answer(c, ok), udpMsg' = None, UNCHANGED <<user, cmd, up, faulty>>,
         \A m \in net : m.msg \in Reply => m \in N,
         c.uid \in Users \ faulty => Unanswered(c) /\ \A m \in N : m.msg # c,
         \/ ~ok /\ pd' = pd
         \/ /\ ok /\ c.op = "REG" /\ c.uid \in Users /\ pd[c.uid] = None
            /\ \A v \in Users : pd[v] # c.pd
            /\ pd' = [pd EXCEPT ![c.uid] = c.pd]
         \/ ok /\ c.op = "UNR" /\ c.uid \in Users /\ pd' = [pd EXCEPT ![c.uid] = None]
  PROVE  AgreementInv'
<1>1. c.pd \in PDs /\ c # None
  BY Kinds
<1>2. DeviceInv'
  BY DEF AgreementInv, DeviceInv
<1>3. \A p \in PDs : \/ RepliesTo(p)' = RepliesTo(p)
                     \/ p = c.pd /\ cmd[p] = c /\ RepliesTo(p)' = RepliesTo(p) \cup Answer(c, ok)
  <2>1. ASSUME NEW p \in PDs, p # c.pd \/ cmd[p] # c PROVE RepliesTo(p)' = RepliesTo(p)
    BY <2>1, AnswerType DEF RepliesTo
  <2>2. ASSUME cmd[c.pd] = c PROVE RepliesTo(c.pd)' = RepliesTo(c.pd) \cup Answer(c, ok)
    BY <2>2, AnswerType DEF RepliesTo
  <2> QED
    BY <1>1, <2>1, <2>2
<1>4. /\ \A m \in Answer(c, ok) : m.msg \in Reply /\ m.msg.ok = ok
      /\ \A m, n \in Answer(c, ok) : m = n
      /\ cmd[c.pd] = c => Answer(c, ok) # {}
  BY AnswerType DEF Answer
<1>5. OnceInv'
  <2>1. ASSUME NEW u \in Users \ faulty, NEW m \in net', m.msg \in Command, m.msg.uid = u
        PROVE  m.copy = 0 /\ Unanswered(m.msg)' /\ udpMsg' # m.msg
    <3>1. m \in N
      BY <1>4, <2>1, Kinds
    <3>2. m.copy = 0 /\ Unanswered(m.msg)
      BY <2>1, <3>1 DEF AgreementInv, OnceInv
    <3>3. m.msg # c
      BY <2>1, <3>1
    <3>4. m.msg.pd \in PDs /\ (m.msg.pd # c.pd \/ cmd[m.msg.pd] # c)
      BY <2>1, <3>2, <3>3, Kinds DEF Unanswered
    <3>5. RepliesTo(m.msg.pd)' = RepliesTo(m.msg.pd)
      BY <1>3, <3>4
    <3> QED
      BY <2>1, <3>2, <3>5 DEF Unanswered
  <2>2. ASSUME NEW u \in Users \ faulty, NEW p \in PDs, cmd[p] # None, cmd[p].uid = u
        PROVE  \A r, s \in RepliesTo(p)' : r = s
    <3>1. CASE RepliesTo(p)' = RepliesTo(p)
      BY <2>2, <3>1 DEF AgreementInv, OnceInv
    <3>2. CASE p = c.pd /\ cmd[p] = c /\ RepliesTo(p)' = RepliesTo(p) \cup Answer(c, ok)
      <4>1. RepliesTo(p) = {}
        BY <2>2, <3>2 DEF Unanswered
      <4> QED
        BY <1>4, <3>2, <4>1
    <3> QED
      BY <1>3, <3>1, <3>2
  <2> QED
    BY <2>1, <2>2 DEF OnceInv
<1>6. ASSUME NEW u \in Users \ faulty, NEW p \in PDs
      PROVE  /\ cmd[p] = None \/ cmd[p].uid # u \/ (\A r \in RepliesTo(p)' : ~r.msg.ok) => Agrees(u, p)'
             /\ \A r \in RepliesTo(p)' : r.msg.ok =>
                  IF cmd[p].op = "REG" THEN pd'[u] = p <=> cmd[p].uid = u ELSE cmd[p].uid = u => pd'[u] # p
  <2>1. /\ cmd[p] = None \/ cmd[p].uid # u \/ (\A r \in RepliesTo(p) : ~r.msg.ok) => Agrees(u, p)
        /\ \A r \in RepliesTo(p) : r.msg.ok =>
             IF cmd[p].op = "REG" THEN pd[u] = p <=> cmd[p].uid = u ELSE cmd[p].uid = u => pd[u] # p
    BY DEF AgreementInv, AgreeInv
  <2>2. \A r \in RepliesTo(p)' : r \in RepliesTo(p) \/ (r.msg.ok = ok /\ p = c.pd /\ cmd[p] = c)
    BY <1>3, <1>4
  <2>3. RepliesTo(p) \subseteq RepliesTo(p)'
    BY <1>3
  <2>4. c.uid # u => pd'[u] = pd[u]
    BY DEF TypeOK
  <2>5. CASE pd'[u] = pd[u] /\ (ok /\ c.op = "REG" => pd[u] # c.pd /\ c.uid # u) /\ (ok => c.uid # u)
    <3>1. Agrees(u, p)' <=> Agrees(u, p)
      BY <2>5 DEF Agrees, IsPdOf
    <3> QED
      BY <2>1, <2>2, <2>3, <2>5, <3>1
  <2>6. CASE ok /\ c.uid = u
    <3>1. Unanswered(c) /\ RepliesTo(c.pd) = {} /\ cmd[c.pd] = c
      BY <2>6 DEF Unanswered
    <3>2. p # c.pd => RepliesTo(p)' = RepliesTo(p)
      BY <1>3
    <3>3. \E r \in RepliesTo(c.pd)' : r.msg.ok
      <4>1. PICK r : r \in Answer(c, ok)
        BY <1>4, <3>1
      <4>2. r.msg \in Reply /\ r.msg.pd = c.pd /\ r.msg.ok /\ r \in net'
        <5>1. r.msg \in Reply /\ r.msg.pd = c.pd /\ r.msg.ok = ok
          BY <4>1, AnswerType
        <5>2. r \in net'
          BY <4>1
        <5> QED
          BY <2>6, <5>1, <5>2
      <4> QED
        BY <4>2 DEF RepliesTo
    <3>4. p # c.pd => pd[u] # p /\ pd'[u] # p
      <4>1. CASE c.op = "REG"
        BY <2>6, <4>1, <1>1 DEF TypeOK
      <4>2. CASE c.op = "UNR"
        <5>1. IsPdOf(c.pd, u)
          BY <1>1, <2>6, <3>1, <4>2 DEF AgreementInv, DeviceInv, IsPdOf
        <5>2. pd[u] = c.pd
          BY <1>1, <3>1, <5>1 DEF AgreementInv, AgreeInv, Agrees
        <5> QED
          BY <2>6, <4>2, <5>2 DEF TypeOK
      <4> QED
        BY <4>1, <4>2, Kinds
    <3>5. CASE p # c.pd
      <4>1. Agrees(u, p)' <=> Agrees(u, p)
        BY <3>4, <3>5 DEF Agrees, IsPdOf
      <4> QED
        BY <2>1, <3>2, <3>4, <3>5, <4>1
    <3>6. CASE p = c.pd
      <4>1. IF c.op = "REG" THEN pd'[u] = p ELSE pd'[u] # p
        BY <1>1, <2>6, <3>6 DEF TypeOK
      <4> QED
        BY <1>1, <2>6, <3>1, <3>3, <3>6, <4>1
    <3> QED
      BY <3>5, <3>6
  <2> QED
    BY <2>4, <2>5, <2>6
<1>7. AgreeInv'
  BY <1>6 DEF AgreeInv
<1> QED
  BY <1>2, <1>5, <1>7 DEF AgreementInv

\* What the AS does with a command.
LEMMA UdpAgreement ==
  ASSUME TypeOK, ListInv, UdpInv, AgreementInv,
         UdpThread \/ \E m \in net : ServeAtOnce(m) \/ ReceiveCommand(m)
  PROVE  AgreementInv'
<1>1. ASSUME udpMsg # None
      PROVE  /\ udpMsg \in Command /\ udpMsg.uid \in Users
             /\ udpMsg.uid \notin faulty => Unanswered(udpMsg) /\ \A m \in net : m.msg # udpMsg
             /\ udpMsg.op = "REG" => \A v \in Users : pd[v] # udpMsg.pd
  <2>1. udpMsg \in Command /\ udpMsg.uid \in Users
    BY <1>1 DEF TypeOK, UdpInv, known
  <2>2. ASSUME udpMsg.uid \notin faulty
        PROVE  Unanswered(udpMsg) /\ \A m \in net : m.msg # udpMsg
    BY <1>1, <2>1, <2>2 DEF AgreementInv, OnceInv
  <2>3. ASSUME udpMsg.op = "REG", NEW v \in Users PROVE pd[v] # udpMsg.pd
    <3>1. udpMsg.pd # None
      BY <2>1, Kinds
    <3> QED
      BY <1>1, <2>3, <3>1 DEF UdpInv, ListInv, PdRegistered
  <2> QED
    BY <2>1, <2>2, <2>3
<1>2. CASE Register
  <2> DEFINE ok == pd[udpMsg.uid] = None /\ pw[udpMsg.uid] = udpMsg.pw
  <2>1. /\ udpMsg # None /\ udpMsg.op = "REG" /\ udpMsg' = None
        /\ UNCHANGED <<user, cmd, up, faulty>> /\ net' = net \cup Answer(udpMsg, ok)
        /\ pd' = [pd EXCEPT ![udpMsg.uid] = IF ok THEN udpMsg.pd ELSE @]
    BY <1>2 DEF Register, pdVars
  <2>2. \/ ~ok /\ pd' = pd
        \/ ok /\ pd[udpMsg.uid] = None /\ pd' = [pd EXCEPT ![udpMsg.uid] = udpMsg.pd]
    BY <1>1, <2>1 DEF TypeOK
  <2>3. ok \in BOOLEAN /\ net \in SUBSET net
    OBVIOUS
  <2> HIDE DEF ok
  <2> QED
    BY <1>1, <2>1, <2>2, <2>3, ServeAgreement
<1>3. CASE Unregister
  <2> DEFINE ok == pw[udpMsg.uid] = udpMsg.pw
  <2>1. /\ udpMsg # None /\ udpMsg.op = "UNR" /\ udpMsg' = None
        /\ UNCHANGED <<user, cmd, up, faulty>> /\ net' = net \cup Answer(udpMsg, ok)
        /\ pd' = [pd EXCEPT ![udpMsg.uid] = IF ok THEN None ELSE @]
    BY <1>3 DEF Unregister, pdVars
  <2>2. \/ ~ok /\ pd' = pd
        \/ ok /\ pd' = [pd EXCEPT ![udpMsg.uid] = None]
    BY <1>1, <2>1 DEF TypeOK
  <2>3. ok \in BOOLEAN /\ net \in SUBSET net
    OBVIOUS
  <2> HIDE DEF ok
  <2> QED
    BY <1>1, <2>1, <2>2, <2>3, ServeAgreement
<1>4. ASSUME NEW m \in net, m.msg \in Command, m.msg.uid \in Users \ faulty
      PROVE  Unanswered(m.msg) /\ udpMsg # m.msg /\ \A n \in net \ {m} : n.msg # m.msg
  <2>1. m.copy = 0 /\ Unanswered(m.msg) /\ udpMsg # m.msg
    BY <1>4 DEF AgreementInv, OnceInv
  <2>2. ASSUME NEW n \in net, n.msg = m.msg PROVE n = m
    <3>1. n.copy = 0
      BY <1>4, <2>2 DEF AgreementInv, OnceInv
    <3> QED
      BY <2>1, <2>2, <3>1, SameDatagram DEF TypeOK
  <2> QED
    BY <2>1, <2>2
<1>5. ASSUME NEW m \in net, ServeAtOnce(m) PROVE AgreementInv'
  <2> DEFINE c == m.msg
             ok == c.op = "REG" /\ ~PdRegistered(c.pd)
  <2>1. /\ c \in Command /\ udpMsg' = None /\ net' = (net \ {m}) \cup Answer(c, ok)
        /\ UNCHANGED <<user, cmd, up, faulty>>
        /\ pd' = IF ok THEN [pd EXCEPT ![c.uid] = c.pd] ELSE pd
        /\ ok => c.uid \notin known
    BY <1>5 DEF ServeAtOnce, pdVars
  <2>2. ok => /\ c.op = "REG" /\ c.uid \in Users /\ pd[c.uid] = None
              /\ \A v \in Users : pd[v] # c.pd
    <3>1. ASSUME ok PROVE c.uid \in Users /\ c.pd # None
      BY <2>1, <3>1, Kinds
    <3> QED
      BY <2>1, <3>1 DEF ListInv, PdRegistered
  <2>3. ok \in BOOLEAN /\ net \ {m} \in SUBSET net
    OBVIOUS
  <2>4. \A n \in net : n.msg \in Reply => n \in net \ {m}
    BY <2>1, Kinds
  <2>5. c.uid \in Users \ faulty => Unanswered(c) /\ \A n \in net \ {m} : n.msg # c
    BY <1>4, <2>1
  <2> HIDE DEF ok, c
  <2> QED
    BY <2>1, <2>2, <2>3, <2>4, <2>5, ServeAgreement
<1>6. ASSUME NEW m \in net, ReceiveCommand(m) PROVE AgreementInv'
  <2>1. /\ m.msg \in Command /\ udpMsg = None /\ udpMsg' = m.msg /\ net' = net \ {m}
        /\ UNCHANGED <<pd, user, cmd, up, faulty>>
    BY <1>6 DEF ReceiveCommand, pdVars
  <2>2. \A p \in PDs : RepliesTo(p)' = RepliesTo(p)
    BY <2>1, Kinds DEF RepliesTo
  <2>3. DeviceInv' /\ AgreeInv'
    BY <2>1, <2>2 DEF AgreementInv, DeviceInv, AgreeInv, Agrees, IsPdOf
  <2>4. \A c \in Command : Unanswered(c)' <=> Unanswered(c)
    BY <2>1, <2>2, Kinds DEF Unanswered
  <2>5. ASSUME NEW u \in Users \ faulty, NEW n \in net', n.msg \in Command, n.msg.uid = u
        PROVE  n.copy = 0 /\ Unanswered(n.msg) /\ m.msg # n.msg
    <3>1. n.copy = 0 /\ Unanswered(n.msg)
      BY <2>1, <2>5 DEF AgreementInv, OnceInv
    <3>2. m.msg # n.msg
      BY <1>4, <2>1, <2>5
    <3> QED
      BY <3>1, <3>2
  <2>6. OnceInv'
    BY <1>4, <2>1, <2>2, <2>4, <2>5 DEF AgreementInv, OnceInv
  <2> QED
    BY <2>3, <2>6 DEF AgreementInv
<1> QED
  BY <1>2, <1>3, <1>5, <1>6 DEF UdpThread

\* REQs touch neither commands nor replies.
LEMMA RequestAgreement ==
  ASSUME TypeOK, ListInv, AgreementInv,
         \E u \in Users : SendVLC(u) \/ RequestTimeout(u) \/ \E m \in net : ReceiveRVC(u, m)
  PROVE  AgreementInv'
<1>1. UNCHANGED <<pd, udpMsg, user, cmd, faulty, up>>
  BY DEF SendVLC, RequestTimeout, RetransmitVLC, GiveUpVLC, ReceiveRVC, pdVars
<1>2. ASSUME NEW u \in Users, NEW n, NEW k, pd[u] # None, n \in 1..MaxRequests
      PROVE  Copy(Challenge(u, n), k).msg \in VLC
  <2>1. Challenge(u, n) \in VLC
    BY <1>2 DEF Challenge, VLC, TypeOK
  <2> QED
    BY <2>1 DEF Copy
<1>3. ASSUME NEW u \in Users, SendVLC(u) \/ RetransmitVLC(u)
      PROVE  \E m : m.msg \in VLC /\ net' = net \cup {m}
  <2>1. CASE SendVLC(u)
    <3>1. requests + 1 \in 1..MaxRequests /\ pd[u] # None
      BY <2>1 DEF SendVLC, TypeOK
    <3> QED
      BY <1>2, <2>1, <3>1 DEF SendVLC
  <2>2. CASE RetransmitVLC(u)
    <3>1. reqSock[u] \in 1..MaxRequests /\ pd[u] # None
      BY <2>2 DEF RetransmitVLC, TypeOK, ListInv
    <3> QED
      BY <1>2, <2>2, <3>1 DEF RetransmitVLC
  <2> QED
    BY <1>3, <2>1, <2>2
<1>4. ASSUME NEW u \in Users, GiveUpVLC(u) \/ \E m \in net : ReceiveRVC(u, m)
      PROVE  \A m : m.msg \in Command \cup Reply => (m \in net' <=> m \in net)
  BY <1>4, Kinds DEF GiveUpVLC, ReceiveRVC, EndRequest
<1>5. \A m : m.msg \in Command \cup Reply => (m \in net' <=> m \in net)
  BY <1>3, <1>4, Kinds DEF RequestTimeout
<1> QED
  BY <1>1, <1>5, AgreementFrame

LEMMA AgreementStep ==
  ASSUME TypeOK, OtherInvs, AgreementInv, [Next]_vars
  PROVE  AgreementInv'
<1>1. ListInv /\ UdpInv /\ ReplyInv
  BY DEF OtherInvs
<1>2. CASE UNCHANGED vars
  BY <1>2, AgreementFrame DEF vars, asVars, pdVars
<1>3. ASSUME NEW p \in PDs, Start(p) PROVE AgreementInv'
  <2>1. user[p] = None
    BY <1>3 DEF Start, AgreementInv, DeviceInv
  <2>2. user' = user /\ UNCHANGED <<pd, udpMsg, cmd, faulty, net>> /\ \A q \in PDs : up[q] => up'[q]
    BY <1>3, <2>1 DEF Start, TypeOK, asVars
  <2> QED
    BY <2>2, AgreementFrame
<1>4. ASSUME NEW p \in PDs, Keyboard(p) PROVE AgreementInv'
  <2>0. commands < MaxCommands
    BY <1>4 DEF Keyboard, StartRegister, StartUnregister, SendCommand
  <2>1. commands + 1 \in 1..MaxCommands
    BY <2>0 DEF TypeOK
  <2>2. ASSUME NEW u \in Users, NEW w \in Passwords, StartRegister(p, u, w) PROVE AgreementInv'
    <3> DEFINE c == [op |-> "REG", uid |-> u, pw |-> w, pd |-> p, sock |-> commands + 1]
    <3>1. c \in Command /\ c.pd = p /\ c.op = "REG"
      BY <2>1 DEF Command
    <3>2. SendCommand(p, c)
      BY <2>2 DEF StartRegister
    <3> HIDE DEF c
    <3> QED
      BY <1>1, <3>1, <3>2, SendAgreement
  <2>3. ASSUME StartUnregister(p) PROVE AgreementInv'
    <3> DEFINE me == IF user[p] = None THEN [uid |-> None, pw |-> None] ELSE user[p]
               c == [op |-> "UNR", uid |-> me.uid, pw |-> me.pw, pd |-> p, sock |-> commands + 1]
    <3>1. /\ me.uid \in Users \cup {None} /\ me.pw \in Passwords \cup {None}
          /\ me.uid = IF user[p] = None THEN None ELSE user[p].uid
      BY DEF User, TypeOK
    <3>2. SendCommand(p, c)
      BY <2>3 DEF StartUnregister
    <3> HIDE DEF me
    <3>3. c \in Command /\ c.pd = p /\ c.op = "UNR" /\ c.uid = me.uid
      BY <2>1, <3>1 DEF Command
    <3> HIDE DEF c
    <3> QED
      BY <1>1, <3>1, <3>2, <3>3, SendAgreement
  <2> QED
    BY <1>4, <2>2, <2>3 DEF Keyboard
<1>5. ASSUME NEW p \in PDs, PdTimeout(p) \/ Crash(p) PROVE AgreementInv'
  BY <1>1, <1>5, ResendAgreement, EndsAgreement DEF PdTimeout
<1>6. ASSUME NEW p \in PDs, NEW m \in net, PdReceive(p, m) PROVE AgreementInv'
  <2>1. ASSUME AnswerVLC(p, m) PROVE AgreementInv'
    <3> DEFINE r == [op |-> "RVC", uid |-> m.msg.uid, sock |-> m.msg.sock, ok |-> IsPdOf(p, m.msg.uid)]
    <3>1. m.msg \in VLC /\ r \in RVC
      BY <2>1 DEF AnswerVLC, VLC, RVC, IsPdOf
    <3>2. Copy(r, 0).msg \in RVC
      BY <3>1, Datagrams
    <3>3. /\ net' = (net \ {m}) \cup (IF reqSock[m.msg.uid] = m.msg.sock THEN {Copy(r, 0)} ELSE {})
          /\ UNCHANGED <<pd, udpMsg, user, cmd, faulty, up>>
      BY <2>1 DEF AnswerVLC, asVars, pdVars
    <3> HIDE DEF r
    <3>4. \A n : n.msg \in Command \cup Reply => (n \in net' <=> n \in net)
      BY <3>1, <3>2, <3>3, Kinds
    <3> QED
      BY <3>3, <3>4, AgreementFrame
  <2> QED
    BY <1>1, <1>6, <2>1, EndsAgreement DEF PdReceive
<1>7. CASE UdpThread \/ \E m \in net : ServeAtOnce(m) \/ ReceiveCommand(m)
  BY <1>1, <1>7, UdpAgreement
<1>8. CASE \E u \in Users : SendVLC(u) \/ RequestTimeout(u) \/ \E m \in net : ReceiveRVC(u, m)
  BY <1>1, <1>8, RequestAgreement
<1> QED
  BY <1>2, <1>3, <1>4, <1>5, <1>6, <1>7, <1>8 DEF Next

\* What PDs, the AS and the datagrams between them have to do with a user whom no
\* fault was about, in every state.
THEOREM AgreementInvariance == Spec => []AgreementInv
<1>1. Init => AgreementInv
  BY DEF Init, AgreementInv, DeviceInv, OnceInv, AgreeInv, Agrees, IsPdOf, RepliesTo
<1>2. IInv /\ AgreementInv /\ [Next]_vars => AgreementInv'
  BY AgreementStep DEF IInv, OtherInvs
<1> QED
  BY <1>1, <1>2, Invariance, PTL DEF Spec

\* Whatever is lost, late or repeated, and whoever crashes, about other users:
\* of a user whom none of it was about the AS and the PDs that are idle agree on
\* whose PD is the user's.
THEOREM FaultsStayWithTheirUser == Spec => []Agreement
<1>1. AgreementInv => Agreement
  BY DEF AgreementInv, AgreeInv, Agrees, Agreement, Idle
<1> QED
  BY <1>1, AgreementInvariance, PTL

\* Only UNR takes a user's device away, and the device it takes is its sender's.
LEMMA ReleaseStep ==
  ASSUME IInv, AgreementInv, [Next]_vars, NEW u \in Users \ faulty, NEW p \in PDs,
         pd[u] = p, pd'[u] = None
  PROVE  cmd[p] # None /\ cmd[p].op = "UNR" /\ IsPdOf(p, u)
<1>1. TypeOK /\ UdpInv /\ p # None
  BY DEF IInv
<1>2. ~Register
  <2>1. ASSUME Register PROVE FALSE
    <3> DEFINE ok == pd[udpMsg.uid] = None /\ pw[udpMsg.uid] = udpMsg.pw
    <3>1. udpMsg.uid \in Users /\ udpMsg.pd \in PDs
      BY <1>1, <2>1, Kinds DEF Register, TypeOK, UdpInv, known
    <3>2. pd' = [pd EXCEPT ![udpMsg.uid] = IF ok THEN udpMsg.pd ELSE @]
      BY <2>1 DEF Register
    <3> HIDE DEF ok
    <3> QED
      BY <1>1, <3>1, <3>2 DEF TypeOK
  <2> QED
    BY <2>1
<1>3. ASSUME NEW m \in net PROVE ~ServeAtOnce(m)
  <2>1. ASSUME ServeAtOnce(m) PROVE FALSE
    <3> DEFINE c == m.msg
               ok == c.op = "REG" /\ ~PdRegistered(c.pd)
    <3>1. c \in Command /\ pd' = IF ok THEN [pd EXCEPT ![c.uid] = c.pd] ELSE pd
      BY <2>1 DEF ServeAtOnce
    <3>2. ok => c.uid \in Users /\ c.pd \in PDs
      BY <3>1, Kinds
    <3> HIDE DEF c, ok
    <3> QED
      BY <1>1, <3>1, <3>2 DEF TypeOK
  <2> QED
    BY <2>1
<1>4. Unregister
  <2>1. \/ Register \/ Unregister \/ pd' = pd
        \/ \E m \in net : ServeAtOnce(m)
    BY DEF Next, Start, Keyboard, StartRegister, StartUnregister, SendCommand, PdTimeout, Resend, GiveUp,
           Crash, PdReceive, ReceiveRRG, ReceiveRUN, AnswerVLC, ReceiveCommand, UdpThread, SendVLC,
           RequestTimeout, RetransmitVLC, GiveUpVLC, ReceiveRVC, vars, asVars
  <2> QED
    BY <1>1, <1>2, <1>3, <2>1
<1>5. udpMsg \in Command /\ udpMsg.op = "UNR" /\ udpMsg.pd \in PDs
  BY <1>1, <1>4, Kinds DEF Unregister, TypeOK
<1>6. udpMsg.uid = u
  <2>1. pd' = [pd EXCEPT ![udpMsg.uid] = IF pw[udpMsg.uid] = udpMsg.pw THEN None ELSE @]
    BY <1>4 DEF Unregister
  <2> QED
    BY <1>1, <2>1 DEF TypeOK
\* Its sender waits, unanswered, and so the AS and it agree.
<1> DEFINE q == udpMsg.pd
<1>7. Unanswered(udpMsg)
  BY <1>4, <1>6 DEF Unregister, AgreementInv, OnceInv
<1>8. cmd[q] = udpMsg /\ RepliesTo(q) = {}
  BY <1>7 DEF Unanswered
<1>9. IsPdOf(q, u)
  BY <1>4, <1>5, <1>6, <1>8 DEF Unregister, AgreementInv, DeviceInv, IsPdOf
<1>10. pd[u] = q
  BY <1>5, <1>8, <1>9 DEF AgreementInv, AgreeInv, Agrees
<1> QED
  BY <1>4, <1>5, <1>8, <1>9, <1>10 DEF Unregister

\* An UNR releases no device but its sender's, although it carries no address
\* (AS.c:201), of any user whom no fault was about.
THEOREM ReleaseIsOwn == Spec => OwnRelease
<1>1. IInv /\ AgreementInv /\ [Next]_vars
        => [\A u \in Users \ faulty, p \in PDs :
              pd[u] = p /\ pd'[u] = None
                => cmd[p] # None /\ cmd[p].op = "UNR" /\ IsPdOf(p, u)]_vars
  BY ReleaseStep
<1> QED
  BY <1>1, Invariance, AgreementInvariance, PTL DEF Spec, OwnRelease
=============================================================================
