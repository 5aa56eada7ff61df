---------------------------- MODULE Registration ----------------------------
(***************************************************************************)
(* Personal devices (PD.c) and the authentication server that registers and *)
(* challenges them (AS.c: REG and UNR in doUDPrequests, sendValidationCode), *)
(* over UDP.  Datagrams are delayed and overtake each other, and a lost one   *)
(* is one that nobody ever takes.                                            *)
(*                                                                          *)
(* A PD is one process with one thread: while registerUser() or              *)
(* unregisterUser() waits for its reply the PD answers no VLC.  The AS has   *)
(* one thread for UDP: while it waits for a user's mutex, which a REQ keeps   *)
(* until its VLC is answered, it serves no datagram.  So a PD, the UDP       *)
(* thread and a REQ can wait for each other, and only timeouts end that.     *)
(*                                                                          *)
(* Every command, and every REQ, has a socket of its own: a reply that comes *)
(* after the socket was closed reaches nobody.  Sockets are numbered, and    *)
(* the system is taken not to give a port again while replies to it travel.  *)
(***************************************************************************)
EXTENDS Naturals

CONSTANTS
  Users,         \* UIDs typed at PDs
  Passwords,     \* passwords typed at PDs
  PDs,           \* PD addresses, PDIP and PDport; one process at each
  MaxRetries,    \* retransmissions of a datagram, 5 in the code
  MaxCommands,   \* bound on the commands typed at PDs
  MaxRequests,   \* bound on the REQs that users send
  MaxCrashes,    \* bound on the PDs that are killed
  None

ASSUME ConstantsAssumption ==
  /\ None \notin Users \cup PDs \cup Passwords
  /\ {MaxRetries, MaxCommands, MaxRequests, MaxCrashes} \subseteq Nat

VARIABLES
  pw,         \* AS: the password of a user in the list, None for the others
  pd,         \* AS: the PD of a user; None when isOn is FALSE
  udpMsg,     \* AS: the datagram with which the UDP thread waits for a mutex
  reqSock,    \* AS: the socket of the REQ that keeps a user's mutex, 0: none
  reqTries,   \* AS: how often that REQ has sent its VLC again
  up,         \* PD: the process runs
  user,       \* PD: its User struct; None while it holds garbage
  cmd,        \* PD: the datagram for which it awaits the reply
  pdTries,    \* PD: how often it has sent that datagram again
  net,        \* datagrams under way
  commands, requests, crashes, \* what has come from outside
  faulty      \* users that a timeout or a crash of a PD was about

asVars  == <<pw, pd, udpMsg, reqSock, reqTries>>
pdVars  == <<up, user, cmd, pdTries>>
inputs  == <<commands, requests, crashes>>
vars    == <<asVars, pdVars, net, inputs, faulty>>

----------------------------------------------------------------------------
\* Datagrams.  "copy" tells a datagram from its retransmissions.

User == [uid : Users, pw : Passwords]

Command ==
  [op : {"REG"}, uid : Users, pw : Passwords, pd : PDs, sock : 1..MaxCommands]
    \cup
  [op : {"UNR"}, uid : Users \cup {None}, pw : Passwords \cup {None}, pd : PDs, sock : 1..MaxCommands]

Copy(c, n) == [msg |-> c, copy |-> n]

\* None is none of the records that it stands beside.
ASSUME NoneAssumption == None \notin Command \cup User

Reply == [op : {"RRG", "RUN"}, pd : PDs, sock : 1..MaxCommands, ok : BOOLEAN]
VLC   == [op : {"VLC"}, uid : Users, pd : PDs, sock : 1..MaxRequests]
RVC   == [op : {"RVC"}, uid : Users, sock : 1..MaxRequests, ok : BOOLEAN]

Datagram == [msg : Command \cup VLC, copy : 0..MaxRetries] \cup [msg : Reply \cup RVC, copy : {0}]

Init ==
  /\ pw = [u \in Users |-> None]
  /\ pd = [u \in Users |-> None]
  /\ udpMsg = None
  /\ reqSock = [u \in Users |-> 0]
  /\ reqTries = [u \in Users |-> 0]
  /\ up = [p \in PDs |-> FALSE]
  /\ user = [p \in PDs |-> None]
  /\ cmd = [p \in PDs |-> None]
  /\ pdTries = [p \in PDs |-> 0]
  /\ net = {}
  /\ commands = 0 /\ requests = 0 /\ crashes = 0
  /\ faulty = {}

----------------------------------------------------------------------------
\* A personal device

Idle(p) == up[p] /\ cmd[p] = None

\* PD.c's main and processCommands up to its loop; user is not initialised.
Start(p) ==
  /\ ~up[p]
  /\ up' = [up EXCEPT ![p] = TRUE]
  /\ user' = [user EXCEPT ![p] = None]
  /\ UNCHANGED <<asVars, cmd, pdTries, net, inputs, faulty>>

SendCommand(p, c) ==
  /\ Idle(p)
  /\ commands < MaxCommands
  /\ commands' = commands + 1
  /\ cmd' = [cmd EXCEPT ![p] = c]
  /\ pdTries' = [pdTries EXCEPT ![p] = 0]
  /\ net' = net \cup {Copy(c, 0)}
  /\ UNCHANGED <<asVars, up, user, requests, crashes, faulty>>

\* "reg uid pw" is typed, whatever the PD is registered for.
StartRegister(p, u, w) ==
  SendCommand(p, [op |-> "REG", uid |-> u, pw |-> w, pd |-> p, sock |-> commands + 1])

\* "exit" is typed; a PD that never registered sends what its memory holds.
StartUnregister(p) ==
  LET me == IF user[p] = None THEN [uid |-> None, pw |-> None] ELSE user[p]
  IN SendCommand(p, [op |-> "UNR", uid |-> me.uid, pw |-> me.pw, pd |-> p, sock |-> commands + 1])

\* Mutant: the for loop of the retransmissions has lost its bound.
ResendForever(p) ==
  /\ cmd[p] # None
  /\ pdTries' = [pdTries EXCEPT ![p] = (@ + 1) % 3]
  /\ UNCHANGED <<asVars, up, user, cmd, net, inputs, faulty>>

\* Mutant: one retransmission too many.
ResendOnceMore(p) ==
  /\ cmd[p] # None
  /\ pdTries[p] <= MaxRetries
  /\ pdTries' = [pdTries EXCEPT ![p] = @ + 1]
  /\ net' = net \cup {Copy(cmd[p], pdTries[p] + 1)}
  /\ faulty' = faulty \cup {cmd[p].uid}
  /\ UNCHANGED <<asVars, up, user, cmd, inputs>>

\* A second without a reply: the same datagram again.
Resend(p) ==
  /\ cmd[p] # None
  /\ pdTries[p] < MaxRetries
  /\ pdTries' = [pdTries EXCEPT ![p] = @ + 1]
  /\ net' = net \cup {Copy(cmd[p], pdTries[p] + 1)}
  /\ faulty' = faulty \cup {cmd[p].uid}
  /\ UNCHANGED <<asVars, up, user, cmd, inputs>>

\* The socket is closed, with what was sent to it, and the next command or VLC
\* is awaited.
EndCommand(p) ==
  /\ cmd' = [cmd EXCEPT ![p] = None]
  /\ pdTries' = [pdTries EXCEPT ![p] = 0]
  /\ net' = {m \in net : ~(m.msg \in Reply /\ m.msg.pd = p)}

\* "Failed to receive message from AS": the command has failed.
GiveUp(p) ==
  /\ cmd[p] # None
  /\ pdTries[p] = MaxRetries
  /\ EndCommand(p)
  /\ faulty' = faulty \cup {cmd[p].uid}
  /\ UNCHANGED <<asVars, up, user, inputs>>

\* The reply of the AS is taken from the network by the PD that waits for it.
TakeReply(p, r) ==
  /\ cmd[p] # None
  /\ r.msg \in Reply
  /\ r.msg.pd = p
  /\ EndCommand(p)

\* Mutant: the status in RRG is not looked at.
ReceiveRRGAnyStatus(p, r) ==
  /\ TakeReply(p, r)
  /\ r.msg.op = "RRG"
  /\ user' = [user EXCEPT ![p] = [uid |-> cmd[p].uid, pw |-> cmd[p].pw]]
  /\ UNCHANGED <<asVars, up, inputs, faulty>>

\* registerUser's end: RRG OK makes the user this PD's.
ReceiveRRG(p, r) ==
  /\ TakeReply(p, r)
  /\ r.msg.op = "RRG"
  /\ user' = [user EXCEPT ![p] = IF r.msg.ok THEN [uid |-> cmd[p].uid, pw |-> cmd[p].pw] ELSE @]
  /\ UNCHANGED <<asVars, up, inputs, faulty>>

\* unregisterUser's end: RUN OK ends the process.
ReceiveRUN(p, r) ==
  /\ TakeReply(p, r)
  /\ r.msg.op = "RUN"
  /\ up' = [up EXCEPT ![p] = ~r.msg.ok]
  /\ user' = [user EXCEPT ![p] = IF r.msg.ok THEN None ELSE @]
  /\ UNCHANGED <<asVars, inputs, faulty>>

IsPdOf(p, u) == user[p] # None /\ user[p].uid = u

\* getASCommands: RVC OK when the challenge is for this PD's user.
AnswerVLC(p, m) ==
  /\ Idle(p)
  /\ m.msg \in VLC /\ m.msg.pd = p
  /\ LET u == m.msg.uid
         rvc == Copy([op |-> "RVC", uid |-> u, sock |-> m.msg.sock, ok |-> IsPdOf(p, u)], 0)
     IN net' = (net \ {m}) \cup (IF reqSock[u] = m.msg.sock THEN {rvc} ELSE {})
  /\ UNCHANGED <<asVars, pdVars, inputs, faulty>>

\* The process is killed, or dies in sendMessage of the NULL that exit got for a
\* socket.
Crash(p) ==
  /\ up[p]
  /\ crashes < MaxCrashes
  /\ crashes' = crashes + 1
  /\ up' = [up EXCEPT ![p] = FALSE]
  /\ user' = [user EXCEPT ![p] = None]
  /\ EndCommand(p)
  /\ faulty' = faulty \cup {u \in Users : cmd[p] # None /\ cmd[p].uid = u}
                      \cup {u \in Users : IsPdOf(p, u)}
  /\ UNCHANGED <<asVars, commands, requests>>

----------------------------------------------------------------------------
\* The authentication server

known == {u \in Users : pw[u] # None}

\* Mutant: the scan finds nothing.
PdRegisteredNever(p) == FALSE

\* The scan of REG.
PdRegistered(p) == \E u \in known : pd[u] = p

\* The reply to the command c, if its socket is still open.
Answer(c, ok) ==
  LET reply == [op |-> IF c.op = "REG" THEN "RRG" ELSE "RUN", pd |-> c.pd, sock |-> c.sock, ok |-> ok]
  IN IF cmd[c.pd] = c THEN {Copy(reply, 0)} ELSE {}

\* Mutant: addUser() replaces a user that is in the list.
ServeAtOnceReplaces(m) ==
  LET c == m.msg
      ok == c.op = "REG" /\ ~PdRegistered(c.pd)
  IN /\ udpMsg = None
     /\ c \in Command
     /\ c.uid \notin known \/ c.op = "REG"
     /\ pw' = IF ok THEN [pw EXCEPT ![c.uid] = c.pw] ELSE pw
     /\ pd' = IF ok THEN [pd EXCEPT ![c.uid] = c.pd] ELSE pd
     /\ net' = (net \ {m}) \cup Answer(c, ok)
     /\ UNCHANGED <<udpMsg, reqSock, reqTries, pdVars, inputs, faulty>>

\* doUDPrequests when it needs no mutex: an address in use, a user that is not
\* in the list yet (addUser), or a UNR that names none.
ServeAtOnce(m) ==
  LET c == m.msg
      ok == c.op = "REG" /\ ~PdRegistered(c.pd)
  IN /\ udpMsg = None
     /\ c \in Command
     /\ c.uid \notin known \/ (c.op = "REG" /\ PdRegistered(c.pd))
     /\ pw' = IF ok THEN [pw EXCEPT ![c.uid] = c.pw] ELSE pw
     /\ pd' = IF ok THEN [pd EXCEPT ![c.uid] = c.pd] ELSE pd
     /\ net' = (net \ {m}) \cup Answer(c, ok)
     /\ UNCHANGED <<udpMsg, reqSock, reqTries, pdVars, inputs, faulty>>

\* doUDPrequests up to getUser() of a user in the list.
ReceiveCommand(m) ==
  LET c == m.msg
  IN /\ udpMsg = None
     /\ c \in Command
     /\ c.uid \in known
     /\ c.op = "REG" => ~PdRegistered(c.pd)
     /\ udpMsg' = c
     /\ net' = net \ {m}
     /\ UNCHANGED <<pw, pd, reqSock, reqTries, pdVars, inputs, faulty>>

\* Mutant: getUser() returns without waiting for the mutex.
MutexNotAwaited(u) == TRUE

MutexFree(u) == reqSock[u] = 0

\* Mutant: REG replaces the PD of a user that has one.
RegisterAnyway ==
  /\ udpMsg # None
  /\ udpMsg.op = "REG"
  /\ MutexFree(udpMsg.uid)
  /\ LET ok == pw[udpMsg.uid] = udpMsg.pw
     IN /\ pd' = [pd EXCEPT ![udpMsg.uid] = IF ok THEN udpMsg.pd ELSE @]
        /\ net' = net \cup Answer(udpMsg, ok)
  /\ udpMsg' = None
  /\ UNCHANGED <<pw, reqSock, reqTries, pdVars, inputs, faulty>>

\* REG of a user in the list.
Register ==
  /\ udpMsg # None
  /\ udpMsg.op = "REG"
  /\ MutexFree(udpMsg.uid)
  /\ LET ok == pd[udpMsg.uid] = None /\ pw[udpMsg.uid] = udpMsg.pw
     IN /\ pd' = [pd EXCEPT ![udpMsg.uid] = IF ok THEN udpMsg.pd ELSE @]
        /\ net' = net \cup Answer(udpMsg, ok)
  /\ udpMsg' = None
  /\ UNCHANGED <<pw, reqSock, reqTries, pdVars, inputs, faulty>>

\* UNR, whichever PD sent it.  A wrong password is answered with an empty
\* datagram, which the PD takes for a refusal.
Unregister ==
  /\ udpMsg # None
  /\ udpMsg.op = "UNR"
  /\ MutexFree(udpMsg.uid)
  /\ LET ok == pw[udpMsg.uid] = udpMsg.pw
     IN /\ pd' = [pd EXCEPT ![udpMsg.uid] = IF ok THEN None ELSE @]
        /\ net' = net \cup Answer(udpMsg, ok)
  /\ udpMsg' = None
  /\ UNCHANGED <<pw, reqSock, reqTries, pdVars, inputs, faulty>>

Challenge(u, sock) == [op |-> "VLC", uid |-> u, pd |-> pd[u], sock |-> sock]

\* doRequest and sendValidationCode: a REQ takes the user's mutex and sends
\* VLC to the user's PD.
SendVLC(u) ==
  /\ MutexFree(u)
  /\ pd[u] # None
  /\ requests < MaxRequests
  /\ requests' = requests + 1
  /\ reqSock' = [reqSock EXCEPT ![u] = requests + 1]
  /\ net' = net \cup {Copy(Challenge(u, requests + 1), 0)}
  /\ UNCHANGED <<pw, pd, udpMsg, reqTries, pdVars, commands, crashes, faulty>>

\* Mutant: the for loop of the retransmissions has lost its bound.
RetransmitVLCForever(u) ==
  /\ reqSock[u] # 0
  /\ reqTries' = [reqTries EXCEPT ![u] = (@ + 1) % 3]
  /\ UNCHANGED <<pw, pd, udpMsg, reqSock, pdVars, net, inputs, faulty>>

RetransmitVLC(u) ==
  /\ reqSock[u] # 0
  /\ reqTries[u] < MaxRetries
  /\ reqTries' = [reqTries EXCEPT ![u] = @ + 1]
  /\ net' = net \cup {Copy(Challenge(u, reqSock[u]), reqTries[u] + 1)}
  /\ UNCHANGED <<pw, pd, udpMsg, reqSock, pdVars, inputs, faulty>>

\* The REQ is answered and the mutex released.
EndRequest(u) ==
  /\ reqSock' = [reqSock EXCEPT ![u] = 0]
  /\ reqTries' = [reqTries EXCEPT ![u] = 0]
  /\ net' = {m \in net : ~(m.msg \in RVC /\ m.msg.uid = u)}

GiveUpVLC(u) ==
  /\ reqSock[u] # 0
  /\ reqTries[u] = MaxRetries
  /\ EndRequest(u)
  /\ UNCHANGED <<pw, pd, udpMsg, pdVars, inputs, faulty>>

ReceiveRVC(u, m) ==
  /\ m.msg \in RVC
  /\ reqSock[u] # 0 /\ m.msg.uid = u
  /\ EndRequest(u)
  /\ UNCHANGED <<pw, pd, udpMsg, pdVars, inputs, faulty>>

----------------------------------------------------------------------------

Keyboard(p) ==
  StartUnregister(p) \/ \E u \in Users, w \in Passwords : StartRegister(p, u, w)

PdTimeout(p) == Resend(p) \/ GiveUp(p)

PdReceive(p, m) == ReceiveRRG(p, m) \/ ReceiveRUN(p, m) \/ AnswerVLC(p, m)

UdpThread == Register \/ Unregister

RequestTimeout(u) == RetransmitVLC(u) \/ GiveUpVLC(u)

Next ==
  \/ \E p \in PDs : Start(p) \/ Keyboard(p) \/ PdTimeout(p) \/ Crash(p)
  \/ \E p \in PDs, m \in net : PdReceive(p, m)
  \/ \E m \in net : ServeAtOnce(m) \/ ReceiveCommand(m)
  \/ UdpThread
  \/ \E u \in Users : SendVLC(u) \/ RequestTimeout(u)
  \/ \E u \in Users, m \in net : ReceiveRVC(u, m)

Spec == Init /\ [][Next]_vars

\* select() returns when its timeout expires, and the UDP thread takes a free
\* mutex.  Nothing is assumed of the network, of users, or of who stays alive.
Fairness ==
  /\ \A p \in PDs : WF_vars(PdTimeout(p))
  /\ \A u \in Users : WF_vars(RequestTimeout(u))
  /\ WF_vars(UdpThread)

FairSpec == Spec /\ Fairness

----------------------------------------------------------------------------
\* Properties

TypeOK ==
  /\ pw \in [Users -> Passwords \cup {None}]
  /\ pd \in [Users -> PDs \cup {None}]
  /\ udpMsg \in Command \cup {None}
  /\ reqSock \in [Users -> 0..MaxRequests]
  /\ reqTries \in [Users -> 0..MaxRetries]
  /\ up \in [PDs -> BOOLEAN]
  /\ user \in [PDs -> User \cup {None}]
  /\ cmd \in [PDs -> Command \cup {None}]
  /\ pdTries \in [PDs -> 0..MaxRetries]
  /\ net \subseteq Datagram
  /\ commands \in 0..MaxCommands /\ requests \in 0..MaxRequests /\ crashes \in 0..MaxCrashes
  /\ faulty \subseteq Users \cup {None}

\* What a PD was told is its user is a user of the AS, with that password: its
\* UNR is refused for no other reason than a lost datagram.
CredentialsKnown ==
  \A p \in PDs : user[p] # None => pw[user[p].uid] = user[p].pw

\* As long as no timeout and no crash was about a user, the AS and the PDs
\* that wait for a command agree on whose PD is the user's: the faults of one
\* user, with their late and repeated datagrams, never reach another.
Agreement ==
  \A u \in Users \ faulty, p \in PDs : Idle(p) => (pd[u] = p <=> IsPdOf(p, u))

\* UNR carries no address (AS.c:201): the AS releases whatever PD the user has
\* by then.  As long as no timeout and no crash was about the user, that is the
\* PD which sent the UNR, and it still waits for the reply; no copy of an UNR,
\* of another user or PD, takes a device away.
OwnRelease ==
  [][\A u \in Users \ faulty, p \in PDs :
       pd[u] = p /\ pd'[u] = None
         => cmd[p] # None /\ cmd[p].op = "UNR" /\ IsPdOf(p, u)]_vars

\* While a REQ waits, the address its VLC was sent to stays the user's: no late
\* REG or UNR moves the user, and an OK comes from the registered PD.
ChallengeReachesPd ==
  \A m \in net : m.msg \in VLC /\ reqSock[m.msg.uid] = m.msg.sock => m.msg.pd = pd[m.msg.uid]

Registry == INSTANCE DeviceRegistry

\* Through lost, late and repeated datagrams, crashes and pending REQs, the
\* list of the AS changes only as REG and UNR are to change it.
ServesRegistry == Registry!Spec

\* "Failed to register." (PD.c:73) is true: a PD without user that prints it
\* is not the user's PD in the AS.
FailureIsTruthful ==
  [][\A p \in PDs, m \in net :
       TakeReply(p, m) /\ m.msg.op = "RRG" /\ ~m.msg.ok /\ user[p] = None
         => pd[cmd[p].uid] # p]_vars

\* Every command typed at a PD ends, also when the PD itself holds up the REQ
\* that holds up the thread that would answer.
CommandEnds == \A p \in PDs : cmd[p] # None ~> cmd[p] = None

\* The UDP thread is held up by a REQ, and by the PD it waits for, for a time.
DatagramEnds == udpMsg # None ~> udpMsg = None

\* Every REQ releases the user's mutex, whether its PD is busy, dead or gone.
RequestEnds == \A u \in Users : reqSock[u] # 0 ~> reqSock[u] = 0
=============================================================================
