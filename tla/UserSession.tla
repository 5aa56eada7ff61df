----------------------------- MODULE UserSession -----------------------------
(***************************************************************************)
(* The User application, User.c, with the two servers it talks to: the      *)
(* thread of its connection in the AS, and the FS thread of each file       *)
(* command with validate(), which asks the AS over UDP.  What the AS keeps  *)
(* of a user is Tickets, which AuthServer implements.                       *)
(*                                                                          *)
(* A user process is an App.  It runs one command at a time: it sends one   *)
(* line, waits for the answer and comes back to the prompt, so a            *)
(* connection holds a message one way at a time.  A handler of the AS that  *)
(* does not wait is one step (AuthServer splits them); REQ waits for the    *)
(* personal device and keeps the user's mutex meanwhile.                    *)
(*                                                                          *)
(* TIDs are numbered from 1 and not used again: a run has fewer than 9999   *)
(* requests.                                                                *)
(***************************************************************************)
EXTENDS Naturals

CONSTANTS
  Apps,         \* user processes, each with its connection to the AS
  Users,        \* registered UIDs
  Fops,         \* operations with their file name: "R f", "L", "X"...
  ListOp,       \* the operation "L"
  RemoveOp,     \* the operation "X"
  LongFops,     \* operations on a file whose name has FNAME_LENGTH characters
  Rids,         \* request IDs getRandomNumber may draw
  MaxRetries,   \* retransmissions of VLD, 5 in the code
  MaxTid,       \* bound on granted requests; TIDs are 1..MaxTid
  MaxCommands,  \* bound on commands typed
  MaxFaults,    \* bound on killed processes, lost connections and failed sockets
  None

ASSUME ConstantsAssumption ==
  /\ None \notin Users \cup Fops
  /\ RemoveOp \in Fops
  /\ LongFops \subseteq Fops \ {ListOp, RemoveOp}
  /\ MaxRetries \in Nat /\ MaxTid \in Nat \ {0} /\ MaxCommands \in Nat /\ MaxFaults \in Nat

VARIABLES
  \* the AS
  logged, ticket, pending,   \* see Tickets
  newTID,     \* the number of the next ticket
  asPc,       \* where the thread of an App's connection is
  userID,     \* who logged in on the connection
  \* the connection of an App to the AS
  session,    \* userASsession: "none", "open", "freed" after closeSocket, "gone" with the process
  toAS,       \* a line the AS has not served yet
  toApp,      \* an answer the App has not read yet
  \* the App
  pc,         \* "prompt", or what it waits for, or "dead"
  uid,        \* UID; None when it is cleared
  rid,        \* requestID
  tid,        \* TID; 0 stands for "0000" and for the empty string
  status,     \* the global status, which every command but list shares
  told,       \* the last command was a file command and reported success
  \* the FS
  fs,         \* the thread of an App's last file command
  toUser,     \* its answer, "cut" when the connection ends without one
  \* UDP between FS and AS
  vlds, cnfs,
  \* history
  confirmed,  \* tickets whose TID was exchanged for their code
  removed,    \* users of whom an X was confirmed to FS
  commands, faults

Tids == 1..MaxTid

\* newVC and newTID are incremented together and start at 0 and 1.
Codes == 0..(MaxTid - 1)

AS == INSTANCE Tickets

ticketVars == <<logged, ticket, pending>>
asVars     == <<newTID, asPc, userID>>
lineVars   == <<session, toAS, toApp>>
appVars    == <<pc, uid, rid, tid, status, told>>
fsVars     == <<fs, toUser>>
netVars    == <<vlds, cnfs>>
history    == <<confirmed, removed>>
bounds     == <<commands, faults>>
vars == <<ticketVars, asVars, lineVars, appVars, fsVars, netVars, history, bounds>>

----------------------------------------------------------------------------
\* Messages

LogMsg == [op : {"LOG"}, uid : Users, right : BOOLEAN]
ReqMsg == [op : {"REQ"}, uid : Users \cup {None}, rid : Rids, fop : Fops]
AutMsg == [op : {"AUT"}, uid : Users \cup {None}, rid : Rids \cup {None}, vc : Codes]

RLO == [op : {"RLO"}, ok : BOOLEAN]
RRQ == [op : {"RRQ"}, ok : BOOLEAN]
RAU == [op : {"RAU"}, tid : 0..MaxTid]
ERR == [op |-> "ERR"]

\* The answers of FS as the App tells them apart: EOF, DUP, FULL and ERR are
\* treated as INV.
Answers == {"OK", "NOK", "INV"}

\* None is no answer and no ticket, not even one that is asked for with TID 0.
ASSUME NoneAssumption ==
  /\ None \notin AS!Ticket \cup [tid : {0}, fop : Fops]
  /\ None \notin Answers \cup {"cut"}

VLD == [app : Apps, sock : Nat, copy : 0..MaxRetries, uid : Users \cup {None}, tid : 0..MaxTid]
CNF == [app : Apps, sock : Nat, fop : Fops \cup {None}]

\* A thread of FS; due is history: the command names the user's ticket, which
\* has not been replaced since it was typed.  So is outcome.
Thread == [pc : {"end", "awaitCNF", "run"}, uid : Users \cup {None}, tid : 0..MaxTid,
           fop : Fops, sock : Nat, tries : 0..MaxRetries, due : BOOLEAN,
           outcome : {"none", "done", "refused", "cut"}]

NoThread == [pc |-> "end", uid |-> None, tid |-> 0, fop |-> RemoveOp, sock |-> 0,
             tries |-> 0, due |-> FALSE, outcome |-> "none"]

\* What is left of thread t.
Ended(t, outcome) == [NoThread EXCEPT !.fop = t.fop, !.sock = t.sock, !.outcome = outcome]

Init ==
  /\ AS!Init
  /\ newTID = 1
  /\ session \in [Apps -> {"none", "open"}]
  /\ asPc = [a \in Apps |-> IF session[a] = "open" THEN "recv" ELSE "closed"]
  /\ userID = [a \in Apps |-> None]
  /\ toAS = [a \in Apps |-> None]
  /\ toApp = [a \in Apps |-> None]
  /\ pc = [a \in Apps |-> "prompt"]
  /\ uid = [a \in Apps |-> None]
  /\ rid = [a \in Apps |-> None]
  /\ tid = [a \in Apps |-> 0]
  /\ status = [a \in Apps |-> ""]
  /\ told = [a \in Apps |-> FALSE]
  /\ fs = [a \in Apps |-> NoThread]
  /\ toUser = [a \in Apps |-> None]
  /\ vlds = {} /\ cnfs = {}
  /\ confirmed = {} /\ removed = {}
  /\ commands = 0 /\ faults = 0

----------------------------------------------------------------------------
\* Commands typed at the prompt

Command(a) ==
  /\ pc[a] = "prompt"
  /\ commands < MaxCommands
  /\ commands' = commands + 1
  /\ told' = [told EXCEPT ![a] = FALSE]
  /\ UNCHANGED faults

\* The n-th copy of thread t's VLD.
SendVLD(a, t, n) ==
  vlds' = vlds \cup {[app |-> a, sock |-> t.sock, copy |-> n, uid |-> t.uid, tid |-> t.tid]}

Fault == faults < MaxFaults /\ faults' = faults + 1 /\ UNCHANGED commands

\* A command for the AS.  Without a session nothing is sent; on a session that
\* was closed, sendMessage and closeSocket use freed memory: the process dies or
\* the command fails.
AskAS(a, m) ==
  /\ Command(a)
  /\ \/ session[a] = "none" /\ UNCHANGED <<pc, toAS>>
     \/ session[a] = "open" /\ pc' = [pc EXCEPT ![a] = "AS"] /\ toAS' = [toAS EXCEPT ![a] = m]
     \/ session[a] = "freed" /\ pc' \in {pc, [pc EXCEPT ![a] = "dead"]} /\ UNCHANGED toAS
  /\ UNCHANGED <<ticketVars, asVars, session, toApp, tid, status, fsVars, netVars, history>>

\* login UID pass
TypeLogin(a) ==
  \E u \in Users, right \in BOOLEAN :
    /\ AskAS(a, [op |-> "LOG", uid |-> u, right |-> right])
    /\ uid' = [uid EXCEPT ![a] = u]
    /\ UNCHANGED rid

\* req Fop [Fname]: the request ID is drawn before the session is looked at.
TypeReq(a) ==
  \E r \in Rids, fop \in Fops :
    /\ AskAS(a, [op |-> "REQ", uid |-> uid[a], rid |-> r, fop |-> fop])
    /\ rid' = [rid EXCEPT ![a] = r]
    /\ UNCHANGED uid

\* val VC: with the last request ID, which is "0000" before any req.
TypeVal(a) ==
  \E vc \in Codes :
    /\ AskAS(a, [op |-> "AUT", uid |-> uid[a], rid |-> rid[a], vc |-> vc])
    /\ UNCHANGED <<uid, rid>>

\* The FS thread of a file command reads it and goes on with validate().
NewThread(a, fop) ==
  [pc |-> "awaitCNF", uid |-> uid[a], tid |-> tid[a], fop |-> fop,
   sock |-> fs[a].sock + 1, tries |-> 0, outcome |-> "none",
   due |-> uid[a] # None /\ ticket[uid[a]] = [tid |-> tid[a], fop |-> fop]]

\* list, retrieve, upload, delete or remove: a connection of its own, with UID
\* and TID as they are.  The thread sends VLD at once.
TypeFile(a) ==
  \E fop \in Fops :
    LET t == NewThread(a, fop)
    IN /\ Command(a)
       /\ pc' = [pc EXCEPT ![a] = "FS"]
       /\ fs' = [fs EXCEPT ![a] = t]
       /\ SendVLD(a, t, 0)
       /\ UNCHANGED <<ticketVars, asVars, lineVars, uid, rid, tid, status, toUser, cnfs, history>>

\* exit, also on a session that is closed already; or the process is killed.
End(a) ==
  /\ pc' = [pc EXCEPT ![a] = "dead"]
  /\ session' = [session EXCEPT ![a] = "gone"]
  /\ toApp' = [toApp EXCEPT ![a] = None]
  /\ toUser' = [toUser EXCEPT ![a] = None]
  /\ uid' = [uid EXCEPT ![a] = None]
  /\ rid' = [rid EXCEPT ![a] = None]
  /\ tid' = [tid EXCEPT ![a] = 0]
  /\ status' = [status EXCEPT ![a] = ""]
  /\ UNCHANGED <<ticketVars, asVars, toAS, fs, netVars, history>>

TypeExit(a) == Command(a) /\ End(a)

\* At the prompt this is the same as exit.
Kill(a) == pc[a] \in {"AS", "FS"} /\ Fault /\ End(a) /\ UNCHANGED told

----------------------------------------------------------------------------
\* Answers of the AS

Prompt(a) == pc' = [pc EXCEPT ![a] = "prompt"]

HasAnswer(a, op) == pc[a] = "AS" /\ toApp[a] # None /\ toApp[a].op = op

\* A failed login forgets the UID, whoever was logged in before.
ReceiveRLO(a) ==
  /\ HasAnswer(a, "RLO")
  /\ uid' = [uid EXCEPT ![a] = IF toApp[a].ok THEN @ ELSE None]
  /\ Prompt(a)
  /\ toApp' = [toApp EXCEPT ![a] = None]
  /\ UNCHANGED <<ticketVars, asVars, session, toAS, rid, tid, status, told, fsVars, netVars, history, bounds>>

ReceiveRRQ(a) ==
  /\ HasAnswer(a, "RRQ")
  /\ Prompt(a)
  /\ toApp' = [toApp EXCEPT ![a] = None]
  /\ UNCHANGED <<ticketVars, asVars, session, toAS, uid, rid, tid, status, told, fsVars, netVars, history, bounds>>

\* RAU TID, or ERR, which has no second word and leaves TID as it was.
ReceiveRAU(a) ==
  /\ HasAnswer(a, "RAU") \/ HasAnswer(a, "ERR")
  /\ tid' = [tid EXCEPT ![a] = IF toApp[a] = ERR THEN @ ELSE toApp[a].tid]
  /\ Prompt(a)
  /\ toApp' = [toApp EXCEPT ![a] = None]
  /\ UNCHANGED <<ticketVars, asVars, session, toAS, uid, rid, status, told, fsVars, netVars, history, bounds>>

\* The AS's end of the connection is gone: no bytes come (a login fails, val
\* keeps the TID, and the session is kept), read fails (the session is closed),
\* or write kills the process.
ReceiveNothing(a) ==
  /\ pc[a] = "AS" /\ toApp[a] = None /\ asPc[a] = "closed"
  /\ \/ /\ uid' = [uid EXCEPT ![a] = IF toAS[a].op = "LOG" THEN None ELSE @]
        /\ Prompt(a) /\ UNCHANGED session
     \/ Prompt(a) /\ session' = [session EXCEPT ![a] = "freed"] /\ UNCHANGED uid
     \/ pc' = [pc EXCEPT ![a] = "dead"] /\ session' = [session EXCEPT ![a] = "gone"] /\ UNCHANGED uid
  /\ toAS' = [toAS EXCEPT ![a] = None]
  /\ UNCHANGED <<ticketVars, asVars, toApp, rid, tid, status, told, fsVars, netVars, history, bounds>>

----------------------------------------------------------------------------
\* The threads of the AS

\* REQ keeps the user's mutex while it waits for the personal device.
Locked(u) == \E a \in Apps : asPc[a] = "challenge" /\ toAS[a].uid = u

Known(u) == u \in Users

\* The thread of a serves a line of kind op, whose UID nobody has locked.
CanServe(a, op) ==
  /\ asPc[a] = "recv" /\ toAS[a] # None /\ toAS[a].op = op
  /\ ~Locked(toAS[a].uid)

\* sendMessage of the answer.  It may fail, and the thread ends.
Answer(a, m) ==
  \/ /\ asPc' = [asPc EXCEPT ![a] = "recv"]
     /\ toAS' = [toAS EXCEPT ![a] = None]
     /\ toApp' = [toApp EXCEPT ![a] = IF session[a] = "open" THEN m ELSE None]
     /\ UNCHANGED bounds
  \/ /\ session[a] = "gone"
     /\ asPc' = [asPc EXCEPT ![a] = "closed"]
     /\ toAS' = [toAS EXCEPT ![a] = None]
     /\ UNCHANGED <<toApp, bounds>>
  \/ /\ session[a] = "open" /\ Fault
     /\ asPc' = [asPc EXCEPT ![a] = "closed"]
     /\ UNCHANGED <<toAS, toApp>>

\* Mutant: a user that is logged in can log in again.
ServeLogAgain(a) ==
  LET u == toAS[a].uid
  IN /\ CanServe(a, "LOG")
     /\ logged' = [logged EXCEPT ![u] = @ \/ toAS[a].right]
     /\ userID' = [userID EXCEPT ![a] = IF toAS[a].right THEN u ELSE @]
     /\ Answer(a, [op |-> "RLO", ok |-> toAS[a].right])
     /\ UNCHANGED <<ticket, pending, newTID, session, appVars, fsVars, netVars, history>>

ServeLog(a) ==
  LET u == toAS[a].uid
      ok == ~logged[u] /\ toAS[a].right
  IN /\ CanServe(a, "LOG")
     /\ IF ok THEN AS!LogIn(u) ELSE UNCHANGED ticketVars
     /\ userID' = [userID EXCEPT ![a] = IF ok THEN u ELSE @]
     /\ Answer(a, [op |-> "RLO", ok |-> ok])
     /\ UNCHANGED <<newTID, session, appVars, fsVars, netVars, history>>

\* REQ is refused: no such user, not logged in, not on this connection, or no
\* personal device.
RefuseReq(a) ==
  /\ CanServe(a, "REQ")
  /\ Answer(a, [op |-> "RRQ", ok |-> FALSE])
  /\ UNCHANGED <<ticketVars, newTID, userID, session, appVars, fsVars, netVars, history>>

\* The code is sent to the personal device.
Challenge(a) ==
  LET u == toAS[a].uid
  IN /\ CanServe(a, "REQ")
     /\ Known(u) /\ logged[u] /\ userID[a] = u
     /\ asPc' = [asPc EXCEPT ![a] = "challenge"]
     /\ UNCHANGED <<ticketVars, newTID, userID, lineVars, appVars, fsVars, netVars, history, bounds>>

\* The personal device answered OK.  Commands under way for the ticket that is
\* replaced are not due any more.
Grant(a) ==
  LET u == toAS[a].uid
  IN /\ asPc[a] = "challenge"
     /\ newTID <= MaxTid
     /\ AS!Grant(u, toAS[a].rid, newTID - 1, newTID, toAS[a].fop)
     /\ newTID' = newTID + 1
     /\ fs' = [b \in Apps |-> [fs[b] EXCEPT !.due = @ /\ fs[b].uid # u]]
     /\ Answer(a, [op |-> "RRQ", ok |-> TRUE])
     /\ UNCHANGED <<userID, session, appVars, toUser, netVars, history>>

\* It answered NOK, or not at all.
ChallengeFails(a) ==
  /\ asPc[a] = "challenge"
  /\ Answer(a, [op |-> "RRQ", ok |-> FALSE])
  /\ UNCHANGED <<ticketVars, newTID, userID, session, appVars, fsVars, netVars, history>>

\* AUT: the code of the pending request is exchanged for its TID.
ServeAut(a) ==
  LET u == toAS[a].uid
      ok == pending[u] # None /\ pending[u].rid = toAS[a].rid /\ pending[u].vc = toAS[a].vc
  IN /\ CanServe(a, "AUT") /\ Known(u)
     /\ IF ok
        THEN /\ AS!Spend(u)
             /\ confirmed' = confirmed \cup {[uid |-> u, tid |-> pending[u].tid, fop |-> ticket[u].fop]}
        ELSE UNCHANGED <<ticketVars, confirmed>>
     /\ Answer(a, [op |-> "RAU", tid |-> IF ok THEN pending[u].tid ELSE 0])
     /\ UNCHANGED <<newTID, userID, session, appVars, fsVars, netVars, removed>>

\* AUT without a UID has three words: ERR.
ServeShortAut(a) ==
  /\ CanServe(a, "AUT") /\ ~Known(toAS[a].uid)
  /\ Answer(a, ERR)
  /\ UNCHANGED <<ticketVars, newTID, userID, session, appVars, fsVars, netVars, history>>

\* The App closed the connection: who logged in on it is logged out, unless
\* read fails instead.
Disconnect(a) ==
  /\ asPc[a] = "recv" /\ toAS[a] = None
  /\ session[a] \in {"freed", "gone"}
  /\ \/ Known(userID[a]) /\ ~Locked(userID[a]) /\ AS!LogOut(userID[a])
     \/ UNCHANGED ticketVars
  /\ asPc' = [asPc EXCEPT ![a] = "closed"]
  /\ UNCHANGED <<newTID, userID, lineVars, appVars, fsVars, netVars, history, bounds>>

\* The connection is lost before a line is read; when it was lost earlier nobody
\* has noticed.
LoseConnection(a) ==
  /\ asPc[a] = "recv" /\ session[a] = "open" /\ toAS[a] # None
  /\ Fault
  /\ asPc' = [asPc EXCEPT ![a] = "closed"]
  /\ UNCHANGED <<ticketVars, newTID, userID, lineVars, appVars, fsVars, netVars, history>>

\* Copies are the same, so that they arrive in the order they were sent.
FirstCopy(d) == \A e \in vlds : e.app = d.app /\ e.sock = d.sock => d.copy <= e.copy

\* Mutant: the TID is deleted when it is confirmed.
ValidateSpends(d) ==
  LET ok == Known(d.uid) /\ ticket[d.uid] # None /\ ticket[d.uid].tid = d.tid
      fop == IF ok THEN ticket[d.uid].fop ELSE None
  IN /\ d \in vlds /\ FirstCopy(d)
     /\ Known(d.uid) => ~Locked(d.uid)
     /\ vlds' = vlds \ {d}
     /\ cnfs' = IF fs[d.app].sock = d.sock /\ fs[d.app].pc = "awaitCNF"
                THEN cnfs \cup {[app |-> d.app, sock |-> d.sock, fop |-> fop]} ELSE cnfs
     /\ ticket' = IF ok THEN [ticket EXCEPT ![d.uid] = None] ELSE ticket
     /\ UNCHANGED <<logged, pending, asVars, lineVars, appVars, fsVars, history, bounds>>

\* The UDP thread serves a VLD: CNF with the operation of the TID, or E.  An X
\* logs the user out, each time it is asked for.  A CNF to a socket that was
\* closed vanishes.
Validate(d) ==
  LET ok == Known(d.uid) /\ ticket[d.uid] # None /\ ticket[d.uid].tid = d.tid
      fop == IF ok THEN ticket[d.uid].fop ELSE None
  IN /\ d \in vlds /\ FirstCopy(d)
     /\ Known(d.uid) => ~Locked(d.uid)
     /\ vlds' = vlds \ {d}
     /\ cnfs' = IF fs[d.app].sock = d.sock /\ fs[d.app].pc = "awaitCNF"
                THEN cnfs \cup {[app |-> d.app, sock |-> d.sock, fop |-> fop]} ELSE cnfs
     /\ IF fop = RemoveOp
        THEN AS!LogOut(d.uid) /\ removed' = removed \cup {d.uid}
        ELSE UNCHANGED <<ticketVars, removed>>
     /\ UNCHANGED <<asVars, lineVars, appVars, fsVars, confirmed, bounds>>
----------------------------------------------------------------------------
\* The threads of the FS

\* Datagrams for sockets other than the one of thread a.
OthersOf(a) == {c \in cnfs : c.app # a}

\* The copies of VLD that matter when thread a ends: one that arrives later
\* can only log the user of an X out.
LateCopies(a) ==
  {d \in vlds : d.app # a \/ (Known(d.uid) /\ ticket[d.uid] = [tid |-> d.tid, fop |-> RemoveOp])}

\* The thread replies, if its user is still there, and ends; its sockets close.
Reply(a, answer) ==
  /\ toUser' = [toUser EXCEPT ![a] = IF pc[a] = "FS" THEN answer ELSE None]
  /\ fs' = [fs EXCEPT ![a] = Ended(@, IF answer = "OK" THEN "done" ELSE "refused")]
  /\ cnfs' = OthersOf(a)
  /\ vlds' = LateCopies(a)

\* Mutant: one copy more than validate() has answers for.
RetransmitOnceMore(a) ==
  /\ fs[a].pc = "awaitCNF" /\ fs[a].tries <= MaxRetries
  /\ fs' = [fs EXCEPT ![a].tries = @ + 1]
  /\ SendVLD(a, fs[a], fs[a].tries + 1)
  /\ UNCHANGED <<ticketVars, asVars, lineVars, appVars, toUser, cnfs, history, bounds>>

\* A second without an answer.
Retransmit(a) ==
  /\ fs[a].pc = "awaitCNF" /\ fs[a].tries < MaxRetries
  /\ fs' = [fs EXCEPT ![a].tries = @ + 1]
  /\ SendVLD(a, fs[a], fs[a].tries + 1)
  /\ UNCHANGED <<ticketVars, asVars, lineVars, appVars, toUser, cnfs, history, bounds>>

\* Mutant: validate() gives up and the thread ends without a reply or a close.
GiveUpSilently(a) ==
  /\ fs[a].pc = "awaitCNF" /\ fs[a].tries = MaxRetries
  /\ fs' = [fs EXCEPT ![a].pc = "end"]
  /\ cnfs' = OthersOf(a)
  /\ UNCHANGED <<ticketVars, asVars, lineVars, appVars, toUser, vlds, history, bounds>>

\* The last copy was not answered, or there is no socket, or sendto() fails.
GiveUp(a) ==
  /\ fs[a].pc = "awaitCNF" /\ fs[a].tries = MaxRetries
  /\ Reply(a, "INV")
  /\ UNCHANGED <<ticketVars, asVars, lineVars, appVars, history, bounds>>

\* Mutant: the operation in CNF is not compared.
ReceiveCNFAnyOp(a, c) ==
  /\ c \in cnfs /\ c.app = a /\ fs[a].pc = "awaitCNF" /\ c.fop # None
  /\ fs' = [fs EXCEPT ![a].pc = "run"]
  /\ cnfs' = OthersOf(a)
  /\ UNCHANGED <<ticketVars, asVars, lineVars, appVars, toUser, vlds, history, bounds>>

\* CNF with the operation and file name of the command.  A name of
\* FNAME_LENGTH characters is copied without its end, so that the comparison may
\* fail.
ReceiveCNF(a, c) ==
  /\ c \in cnfs /\ c.app = a /\ fs[a].pc = "awaitCNF"
  /\ c.fop = fs[a].fop
  /\ fs' = [fs EXCEPT ![a].pc = "run"]
  /\ cnfs' = OthersOf(a)
  /\ UNCHANGED <<ticketVars, asVars, lineVars, appVars, toUser, vlds, history, bounds>>

ReceiveOther(a, c) ==
  /\ c \in cnfs /\ c.app = a /\ fs[a].pc = "awaitCNF"
  /\ c.fop # fs[a].fop \/ c.fop \in LongFops
  /\ Reply(a, "INV")
  /\ UNCHANGED <<ticketVars, asVars, lineVars, appVars, history, bounds>>

\* The operation, see FileStore: it is done, or cannot be.
Run(a) ==
  /\ fs[a].pc = "run"
  /\ \E answer \in Answers : Reply(a, answer)
  /\ UNCHANGED <<ticketVars, asVars, lineVars, appVars, history, bounds>>

\* The server process dies (FileStore's CrashNull) and is started again: every
\* connection that waits for a reply is cut.
CrashFS ==
  /\ \E a \in Apps : fs[a].pc # "end"
  /\ Fault
  /\ fs' = [a \in Apps |-> IF fs[a].pc = "end" THEN fs[a] ELSE Ended(fs[a], "cut")]
  /\ toUser' = [a \in Apps |-> IF fs[a].pc # "end" /\ pc[a] = "FS" THEN "cut" ELSE toUser[a]]
  /\ cnfs' = {}
  /\ UNCHANGED <<ticketVars, asVars, lineVars, appVars, vlds, history>>

----------------------------------------------------------------------------
\* Answers of the FS

\* The names and sizes, which end a process whose buffer they overrun; or
\* nothing, when the command was refused or the connection ended.
ReceiveRLS(a) ==
  /\ pc[a] = "FS" /\ fs[a].fop = ListOp /\ toUser[a] # None
  /\ \/ Prompt(a) /\ UNCHANGED session
     \/ /\ toUser[a] = "OK"
        /\ pc' = [pc EXCEPT ![a] = "dead"]
        /\ session' = [session EXCEPT ![a] = "gone"]
  /\ toUser' = [toUser EXCEPT ![a] = None]
  /\ UNCHANGED <<ticketVars, asVars, toAS, toApp, uid, rid, tid, status, told, fs, netVars, history, bounds>>

\* What the other commands make of the value of the global status.  remove
\* closes the session with the AS when it is OK or NOK, which dies of a NULL
\* session and may die of a closed one.
Report(a, st) ==
  /\ told' = [told EXCEPT ![a] = st = "OK"]
  /\ IF fs[a].fop = RemoveOp /\ st \in {"OK", "NOK"}
     THEN \/ session[a] = "open" /\ session' = [session EXCEPT ![a] = "freed"] /\ Prompt(a)
          \/ session[a] = "freed" /\ UNCHANGED session /\ Prompt(a)
          \/ session[a] # "open" /\ UNCHANGED session /\ pc' = [pc EXCEPT ![a] = "dead"]
     ELSE Prompt(a) /\ UNCHANGED session

\* Mutant: only a success is stored in status.
ReceiveReplyKeepsSuccess(a) ==
  LET st == IF toUser[a] = "OK" THEN "OK" ELSE status[a]
  IN /\ pc[a] = "FS" /\ fs[a].fop # ListOp /\ toUser[a] \in Answers
     /\ status' = [status EXCEPT ![a] = st]
     /\ Report(a, st)
     /\ toUser' = [toUser EXCEPT ![a] = None]
     /\ UNCHANGED <<ticketVars, asVars, toAS, toApp, uid, rid, tid, fs, netVars, history, bounds>>

\* A reply sets status.  When the connection ends without one, status is still
\* that of an earlier command and taken for the answer, unless read fails.
ReceiveReply(a) ==
  /\ pc[a] = "FS" /\ fs[a].fop # ListOp /\ toUser[a] \in Answers
  /\ status' = [status EXCEPT ![a] = toUser[a]]
  /\ Report(a, toUser[a])
  /\ toUser' = [toUser EXCEPT ![a] = None]
  /\ UNCHANGED <<ticketVars, asVars, toAS, toApp, uid, rid, tid, fs, netVars, history, bounds>>

ReceiveCut(a) ==
  /\ pc[a] = "FS" /\ fs[a].fop # ListOp /\ toUser[a] = "cut"
  /\ \/ Report(a, status[a])
     \/ Prompt(a) /\ UNCHANGED <<told, session>>
  /\ toUser' = [toUser EXCEPT ![a] = None]
  /\ UNCHANGED <<ticketVars, asVars, toAS, toApp, uid, rid, tid, status, fs, netVars, history, bounds>>

----------------------------------------------------------------------------

TypeCommand(a) == TypeLogin(a) \/ TypeReq(a) \/ TypeVal(a) \/ TypeFile(a) \/ TypeExit(a)

AppStep(a) ==
  \/ ReceiveRLO(a) \/ ReceiveRRQ(a) \/ ReceiveRAU(a) \/ ReceiveNothing(a)
  \/ ReceiveRLS(a) \/ ReceiveReply(a) \/ ReceiveCut(a)

ASStep(a) ==
  \/ ServeLog(a) \/ RefuseReq(a) \/ Challenge(a) \/ Grant(a) \/ ChallengeFails(a)
  \/ ServeAut(a) \/ ServeShortAut(a) \/ Disconnect(a)

FSStep(a) ==
  \/ Retransmit(a) \/ GiveUp(a) \/ Run(a)
  \/ \E c \in cnfs : ReceiveCNF(a, c) \/ ReceiveOther(a, c)

Failure(a) == Kill(a) \/ LoseConnection(a)

Next ==
  \/ \E a \in Apps : TypeCommand(a) \/ AppStep(a) \/ ASStep(a) \/ FSStep(a) \/ Failure(a)
  \/ \E d \in vlds : Validate(d)
  \/ CrashFS

Spec == Init /\ [][Next]_vars

\* Every process and thread that can move does, select() returns when its
\* timeout expires, and the AS stops waiting for a personal device.  Nothing is
\* assumed of users and of datagrams.
Fairness ==
  \A a \in Apps : WF_vars(AppStep(a)) /\ WF_vars(ASStep(a)) /\ WF_vars(FSStep(a))

FairSpec == Spec /\ Fairness

----------------------------------------------------------------------------
\* Properties

\* Every variable holds what the declarations and the callers put there; every
\* datagram under way is a copy its socket has sent.
TypeOK ==
  /\ logged \in [Users -> BOOLEAN]
  /\ ticket \in [Users -> AS!Ticket \cup {None}]
  /\ pending \in [Users -> AS!Pending \cup {None}]
  /\ newTID \in 1..(MaxTid + 1)
  /\ asPc \in [Apps -> {"recv", "challenge", "closed"}]
  /\ userID \in [Apps -> Users \cup {None}]
  /\ session \in [Apps -> {"none", "open", "freed", "gone"}]
  /\ toAS \in [Apps -> LogMsg \cup ReqMsg \cup AutMsg \cup {None}]
  /\ toApp \in [Apps -> RLO \cup RRQ \cup RAU \cup {ERR, None}]
  /\ pc \in [Apps -> {"prompt", "AS", "FS", "dead"}]
  /\ uid \in [Apps -> Users \cup {None}]
  /\ rid \in [Apps -> Rids \cup {None}]
  /\ tid \in [Apps -> 0..MaxTid]
  /\ status \in [Apps -> Answers \cup {""}]
  /\ told \in [Apps -> BOOLEAN]
  /\ fs \in [Apps -> Thread]
  /\ toUser \in [Apps -> Answers \cup {"cut", None}]
  /\ vlds \subseteq VLD /\ cnfs \subseteq CNF
  /\ confirmed \subseteq [uid : Users, tid : Tids, fop : Fops]
  /\ removed \subseteq Users
  /\ commands \in 0..MaxCommands /\ faults \in 0..MaxFaults

\* The second factor: FS carries an operation out only for a user, a TID and an
\* operation that a REQ of the user asked for and whose code an AUT brought
\* back.  VLD does not look whether the request is still pending (AS.c:211-220);
\* it is enough that nobody learns a TID any other way, also through stale TIDs,
\* lost answers, late datagrams and a second process of the same user.
OnlyConfirmed ==
  \A a \in Apps : fs[a].pc = "run" =>
    [uid |-> fs[a].uid, tid |-> fs[a].tid, fop |-> fs[a].fop] \in confirmed

\* While a user's ticket is not replaced, every copy of every VLD for it gets
\* the same answer: a command is not refused because an earlier one, or an
\* earlier copy, was confirmed.
SameAnswer == \A c \in cnfs : fs[c.app].due => c.fop = fs[c.app].fop

Connected(a, u) == userID[a] = u /\ asPc[a] # "closed" /\ session[a] = "open"

\* A connection that logged in stays logged in, and no other does as the same
\* user, until an X of the user is confirmed.
OneSession ==
  \A u \in Users \ removed, a \in Apps : Connected(a, u) =>
    /\ logged[u]
    /\ \A b \in Apps : Connected(b, u) => b = a

\* A command that reports success ("The file %s was succesfully deleted",
\* User.c:432; "Success uploading", User.c:382) was carried out, unless FS went
\* away before it answered: the status of an earlier command is reported then.
SuccessIsTruthful ==
  \A a \in Apps : pc[a] = "prompt" /\ told[a] => fs[a].outcome \in {"done", "cut"}

\* "Success uploading %s" (User.c:382) and "The file %s was succesfully deleted"
\* (User.c:432) are true of the command just typed.
ReportedWasDone ==
  \A a \in Apps : pc[a] = "prompt" /\ told[a] => fs[a].outcome = "done"

\* Every command comes back to the prompt, or the process ends: whatever is
\* lost, no App waits for ever for the AS, FS or UDP.
PromptReturns == \A a \in Apps : pc[a] \in {"AS", "FS"} ~> pc[a] \in {"prompt", "dead"}
=============================================================================
