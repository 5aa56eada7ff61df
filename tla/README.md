# Verification of Redes-de-Computador

The repository is a file store with two-factor authentication: a user logs in at an authentication
server, asks it for an operation, confirms with a code that a personal device shows, gets a ticket,
and presents the ticket to a file server. This directory holds TLA+ models of its programs, TLC
configurations that check them on small instances, and proofs that TLAPS checks for all instances.

## The system

| Part | Source | State | Operations |
|---|---|---|---|
| Authentication server, AS | `AS.c` | list of users (password, PD address, `isOn`, `isLogged`, maps `tids`, `rids`, `r2t`, a mutex), `newVC`, `newTID`, `rwlockUsersList` | TCP, a thread per connection: LOG, REQ, AUT, end of connection. UDP, one thread: REG, UNR, VLD |
| Personal device, PD | `PD.c` | its user and password | keyboard: reg, exit. UDP: VLC |
| File server, FS | `FS.c` | the directory `USERS/UID` of each user | TCP, a thread per connection: LST, RTV, UPL, DEL, REM, each after VLD to the AS |
| User application | `User.c` | the session with the AS, UID, request ID, TID, the status of the last reply | login, req, val, list, retrieve, upload, delete, remove, exit |
| Maps | `libs/helper.c` | association list | put, get, removeElement |
| Sockets | `libs/tcp.c`, `libs/udp.c`, `libs/helper.c` | | sendMessage, receiveMessage, receiveMessageUntilChar, receiveMessageUDPWithTimeout |

How they interact. The User application keeps one TCP connection to the AS. A REQ makes the AS's
thread send VLC to the user's PD over UDP and wait for RVC with the user's mutex locked, up to six
seconds. AUT answers the TID. FS asks the AS over UDP (VLD) whether a TID is good for an operation
and acts on the user's directory. Every UDP exchange is repeated up to five times, a second apart.

What is hard. In the AS the mutex of a user, the read/write lock of the list and two counters that
no lock protects meet in one handler that waits for another machine. The only UDP thread waits for
the same mutexes, and a PD that waits for that thread answers no challenge. Datagrams get lost,
late and repeated, and REG is not idempotent. FS has a thread per command and no lock at all.
`TODO.txt:1` asks "are there any issues with locks and threads in AS?"; `AuthServer` is the answer.

What makes each part correct:

* AS: locks are released on every way out; the three maps of a user stay in step; what was checked
  before the wait holds after it; a granted request has the code its PD showed and a TID that VLD
  knows; a device belongs to one user; every handler ends.
* PD and AS: they agree on whose device it is; a late datagram changes nothing that it should not;
  all waits end.
* FS: a command that runs alone does what one atomic step would do, whatever races came before;
  races overshoot the limit by a known amount; a remove erases what it found.
* User, AS and FS together: an operation runs only if its user asked for it and brought the code
  back; retransmissions change no answer; a user has one session; a command that reports success was
  carried out; every command comes back to the prompt.

## Modules

| Module | Models |
|---|---|
| `StringMap` | `libs/helper.c`: newMap, put, get, removeElement, on sequences of records |
| `DeviceRegistry` | abstract specification: what REG and UNR do to the list of devices |
| `Tickets` | abstract specification: what LOG, REQ, AUT and VLD promise about logins, pending requests and tickets |
| `AuthServer` | `AS.c`, all threads, with PDs and clients as environment |
| `Registration` | `PD.c` and the UDP half of `AS.c`, with the network between them |
| `FileStore` | `FS.c`: the threads of one user on the user's directory |
| `UserSession` | `User.c`, with the AS's threads on the state of `Tickets` and FS's threads with `validate()` |
| `MCAuthServer`, `MCRegistration`, `MCFileStore`, `MCUserSession` | instances for TLC: symmetry, warm starts |
| `StringMapProofs`, `AuthServerProofs`, `RegistrationProofs`, `FileStoreProofs`, `UserSessionProofs` | theorems |
| `AuthServerTicketProofs`, `FileStoreAloneProofs` | theorems that build on the invariants of the module they extend |

### AuthServer

A session is a connection with its thread. `pc`, `req`, `userID`, `vlc`, `tries` and `inc` are the
thread's place and locals; `known` to `r2t` are the fields of `struct user`, as functions of the
UID; `mutex[u]` is the session whose thread keeps the mutex across steps.

`getUser()` takes the mutex under the read lock of the list, so a thread at `lockUser` keeps the
list read-locked, and `AddUser` waits until no thread does (glibc's lock prefers readers). A handler
that waits for nothing while it has the mutex is one step; REQ is `SendVLC`, `RetransmitVLC`,
`GiveUpVLC`, `ReceiveRVC` or `ReceiveRefusal`, and then one step per statement that touches
`newVC`, `newTID` or a map (`PutRids` to `CheckTID`). `incrNumber()` is a step per comparison, load
and store of a digit (`IncrNumberNum`, `IncrNumberLocals`), for the counters are unprotected.
Copying a number of four digits is taken as one read, and compilation as in the Makefile (`-g`,
where a function without a return statement returns what the register holds; `newUsersList` and the
callers' results work out there).

Messages that change nothing are not steps: unknown UIDs, UIDs and passwords that `validUID` or
`validPASS` reject, unknown datagrams. `removeUser`, `print` and `delete` of users' maps are never
called.

### Registration

A PD has one thread: `Idle` is `select()`, a command (`cmd`) waits for its reply. `net` is the set
of datagrams under way; one that is never taken is lost, `copy` tells retransmissions apart. A reply
to a closed socket vanishes (`EndCommand`, `EndRequest`, `Answer`); a port is assumed not to be
reused while replies travel to it. `user[p] = None` is the garbage of an uninitialised `User`, which
matches no UID. The AS's side is `AS.c` again, reduced to what REG, UNR and VLC need: `ServeAtOnce`
when no mutex is taken, else `ReceiveCommand` followed by `Register` or `Unregister` when the mutex
is free. `faulty` records the users that a timeout or a crash was about. `Crash` is a killed
process, or one that got no socket for `exit` and hands the NULL to `sendMessage` (`PD.c:83-89`); `Start`
is the process again, at the same address and without a user.

### FileStore

A thread runs one command, a step per system call. `inodeOf` and `content` are the directory and the
files, `opened` the threads whose open directory has not been removed since. A batch of an upload is the number of its connection or `Stale`, what the
buffer held when `receiveMessage()` came back short. `CreateFile` without a directory leaves a NULL
`FILE`, and the next use of it ends the process (`CrashNull`, `Restart`). A command begins where
`validate()` has accepted it: the AS accepts the TID of a user's last request any number of times,
so any two commands of a user can overlap. Names come back from `readdir()` at once, as they do
from a directory of some fifteen entries.

### Tickets and UserSession

`Tickets` has one step per message: `LogIn`, `LogOut`, `Grant` (REQ), `Spend` (AUT); VLD reads. `AuthServer` implements it under
the mapping `TicketService`: the ticket of a user is the one element of `tids`, the pending request is
what `rids` and `r2t` hold, and a commit of seven statements counts as done at its first `put`,
since nobody reads a map of a user whose mutex is taken. This holds as long as no two threads are in
a commit at a time (proved, see `AuthServerTicketProofs`); the violations below are what breaks it.

`UserSession` composes: an App is a user process with `pc` at the prompt or waiting for the AS or
FS; `uid`, `rid`, `tid`, `status` are `User.c`'s globals. Its commands block, so a connection holds one
line (`toAS`) or one answer (`toApp`). The AS's threads act on the variables of `Tickets` with its
actions; a REQ keeps the mutex from `Challenge` to `Grant` or `ChallengeFails`, and lines and VLDs that
need the mutex wait (`Locked`). FS's thread reads a command and sends VLD in one step, waits
(`awaitCNF`, `Retransmit`, `GiveUp`), compares the CNF (`ReceiveCNF`, `ReceiveOther`) and runs the
operation (`Run`, one step here, many in `FileStore`).

What fails: datagrams are lost (never taken), late or repeated (`vlds`, `cnfs`); a process is killed;
a connection is lost or a send fails; FS dies and starts again. All but the datagrams count as
faults, bounded by `MaxFaults`. Choices of the model:

* `session` is "freed" after a `closeSocket()` that does not reset the pointer. The next use writes to
  freed memory and closes it again: the process dies or the command fails.
* When a connection ends without an answer, `sscanf` leaves its variables alone. `val` keeps the TID;
  a file command takes the status of an earlier one for its answer (`ReceiveCut`). That is the exception in
  `SuccessIsTruthful`; `us_stale_status` shows what it leads to. An answer to `list` may overrun its buffer, and the process may die (`ReceiveRLS`).
* EOF, DUP, FULL and ERR of FS have the effect of INV on the App. `r` alone is unreachable as retrieve
  but sends REM (`User.c:643`): `TypeFile` allows any operation at any time.
* A late VLD whose CNF goes nowhere is kept only if it could still log a user out (`LateCopies`). Copies
  of one VLD are equal, so that they are taken in the order they were sent.
* A killed process at the prompt is the same as exit.
* A grant is one step and TIDs are not used again: the commits of two users never overlap here. In
  `AuthServer` they may, and `as_zero_tid` shows that a TID can then be wrong; that, and the wrap of
  the counters, is `AuthServer`'s. So `OnlyConfirmed` is a statement about requests whose commits do not overlap.
* A lost connection shows when it is next used, to both ends. One that stays half open keeps the App waiting, as
  nothing in `User.c` limits a read.
* Ports are not reused while a datagram for them travels. SIGPIPE ends the App, as one outcome of `ReceiveNothing`.

## Runs

| Run | Instance | Shows |
|---|---|---|
| `as_single` | 1 user, 1 connection, 2 PDs, 2 RIDs, 2 passwords, counters of two digits in base 2, 9 messages | types; a granted request has its PD's code, a known TID, not 0000; each request moves both counters to the next number, carries included; implements `DeviceRegistry` and `Tickets` |
| `as_pair` | 2 users, 2 connections logged in, 4 messages | mutexes, maps in step, checks still valid after the wait, one user per device, nobody changes a locked user, VLD deletes no TID |
| `as_live` | the same with 1 user registered, 3 messages, fairness | every handler ends |
| `pd_safety` | 2 users, 2 PDs, 3 commands, 1 REQ, 1 retransmission, 1 crash | AS and PDs agree on every user no fault was about, and only the user's own PD releases it, while the other user's PD is killed or gives up; challenges reach the right PD; implements `DeviceRegistry` |
| `pd_live` | 1 user, 2 passwords, 2 PDs, 2 commands, 1 REQ, 1 crash, fairness | the circle PD, UDP thread, REQ is broken by timeouts; a PD holds no password but the AS's |
| `fs_store` | 4 files, limit 2, 2 threads, 3 commands | overshoot, remove, commands alone |
| `us_session` | 2 processes of 1 user, 3 operations, 3 commands after a warm start, 2 tickets, 1 retransmission, 1 fault, fairness | only confirmed operations run; copies of a VLD get one answer; one session per user; reports are true; commands end |

`CodeStored`, `TicketKnown`, `NoZeroTid` and `CountersAdvance` may fail when REQs of two connections overlap (below), which is
why `as_single` has one connection. The proofs say how much less than that is enough.

Runs that TLC must find violated, each a disagreement between the code and a text in it:

| Run | Property | What happens |
|---|---|---|
| `as_grant_race` | `CodeStored` | VLC carries `newVC`; another REQ is committed and increments it; `put(rids, rid, newVC)` (`AS.c:328`) stores a code no PD showed |
| `as_zero_tid` | `NoZeroTid` | between `incrNumber(newTID)` and the test for 0000 (`AS.c:339-343`) another thread stores 0000, which tells the user the request failed (`AS.c:512`) |
| `pd_refused` | `FailureIsTruthful` | REG is sent twice; the AS registers, then refuses its own PD; "Failed to register." (`PD.c:73`) is false |
| `fs_overflow` | `LimitKept` | two uploads pass the count (`FS.c:492`) before either creates its file |
| `us_stale_status` | `ReportedWasDone` | an upload gets OK; FS dies before it answers a delete; `sscanf` (`User.c:429`) leaves `status` alone, and "The file %s was succesfully deleted" is printed of a file that is there |

Bounds. Inputs are bounded by `MaxInputs`, `MaxCommands`, `MaxRequests`, `MaxCrashes` and
`MaxConnections`; that is why the configurations switch the deadlock check off, as a system whose
inputs are used up stops (`as_live` and `pd_live` check instead that what was begun ends).
Counters have two digits in base 2 in `as_single`, so that a carry happens with the first TID and
TIDs wrap and skip 0000 within the run; elsewhere one digit in a base of 2 or 3, so that they wrap. The
proofs leave `Digits` and `Base` open. One or no
retransmission stands for five: the loop has no state but its counter. Two sessions, two PDs and two
threads are the fewest that race, and the runs leave room for one more message or command after the
race. `us_session` starts (`MCUserSession`) where one process holds a ticket for a remove, which is three
commands from `Spec`; three more are enough for another request, its code and its operation, or for a
remove, a login of the second process and a late VLD. `us_stale_status` starts with a ticket for an upload. One user is the hard case for sessions and tickets, as
users share nothing in the AS but what `as_pair` checks. `as_pair` and the AS violations start warm (`WarmInit`), from states that `Spec` reaches by one
REG per user and one Accept and LOG per session.

Fairness. `AuthServer`, `Registration` and `UserSession` assume weak fairness of what a thread does by itself
(the scheduler runs it, and `select()` returns when its timeout expires) and, in the first two, of
the UDP thread. Nothing is assumed of the network, of users, of PDs or of clients, so liveness rests on the bounded
loops of retransmissions. Weak fairness is enough because inputs are bounded: with endless
requests for one user a waiting thread could be overtaken for ever, as a pthread mutex promises no order.

## Proofs

All theorems hold for every value of the constants that satisfies the modules' assumptions. Beside
ranges these say only that `None` is none of the values it stands beside (in `AuthServer` no pending
request, `TicketAssumption`) and, in `FileStore`, that the first files' inodes, named by the files, are not
connection numbers. An upload of `FileStore` has at least one batch's room (`MaxBatches`).

* `StringMapProofs`: what put, get, removeElement and removeOldest do to a map of at most one
  element, and that they keep a map's type.
* `AuthServerProofs`: the inductive invariant joins types, `LockInv`, the relation between `pc`,
  `mutex` and `req`, `MapsInStep`, `RequestStillValid`, `OneUserPerPD` and what the UDP thread may
  assume between its scan and its lock. `MapsInStep` alone is not inductive: it needs that
  the thread at a statement of the commit is the one that holds the mutex. From it follow `TypeOK`,
  `LockInv`, `MapsInStep`, `RequestStillValid`, `OneUserPerPD`, the action properties
  `LockProtects` and `ConfirmKeepsTicket`, and the refinement `ServesRegistry`.
* `RegistrationProofs`: the inductive invariant adds to `TypeOK`, `CredentialsKnown` and
  `ChallengeReachesPd` that a reply under way answers the command its PD waits with (`ReplyInv`),
  that the address the UDP thread is about to store is still free (`UdpInv`), that a user with a PD or
  a REQ is in the list (`ListInv`) and that socket numbers are fresh (`SockInv`). From it follow the
  three properties and the refinement `ServesRegistry`.
  `Agreement` is about PDs that wait for a command, so its invariant is about those that wait for a
  reply: as long as no fault was about a user, each of the user's commands is under way once and has one
  reply (`OnceInv`), and AS and PD agree except between the step that serves it and that reply's arrival
  (`AgreeInv`). A late copy of somebody else's REG finds its address taken or names another user.
  The same invariant gives `OwnRelease`: UNR carries no address (`AS.c:201`), and what keeps it from
  releasing another PD is that its sender has not been answered and so is the PD the AS has. `DeviceRegistry` allows
  every release, which is why `ServesRegistry` says nothing about this.
* `AuthServerTicketProofs`: what the unprotected counters are good for. Under `OneCommits`, no two
  threads in the commit of a REQ at once (the few microseconds from `AS.c:328` to `AS.c:343`; any number of
  REQs may wait for their PDs), `NumberInv` shows that the locals of `incrNumber` fit the digits it works
  on, that the counters stay in range and that newTID is 0000 only where it is about to be skipped, for
  any width and base. `CountInv` shows what a call of `incrNumber` has done so far (`IncrRel`: the digits
  behind its place have carried, the others are as they were), whence `CountersAdvance`. `StoredInv` ties r2t to tids and to newTID between the puts. From these follow
  `TicketKnown`, `NoZeroTid` and, step by step, the refinement `ServesTickets`. `CodeStored` needs more,
  `OneInside`: VLC carries newVC up to six seconds before it is stored, and no other REQ may come
  between (`CodeInv`). Neither hypothesis is a guarantee of the code: `as_zero_tid` and `as_grant_race` break them
  and the properties with them. The theorems say that nothing else does, not AUT, VLD, LOG, REG,
  timeouts or ends of connections, in any interleaving. `OneConnectionSafe` draws the conclusion for `as_single`.
* `FileStoreProofs`: `OvershootBounded`, by counting the uploads on their way (`Pending`) as files.
  `TypeOK` needs `PlaceInv`: what a thread's place says of its command, and that the batches it has
  left fit behind its offset. `RemoveErases` needs `FreshInv`, that the inode an upload will make has
  never been in the directory, so that it cannot be one a remove found, and `EraseInv`, that a remove
  still has before it every name that leads to one.
* `FileStoreAloneProofs`: `AloneCorrect`. The invariant relates, for each command and each place between
  two of its system calls, the store the command began with, the store as it is, and the thread's
  locals (`AloneList` to `AloneUpload`). That the inode of an upload is new (`FreshInv`) keeps it from
  writing into another file, whatever the commands before it left.
* `UserSessionProofs`: every safety property of `us_session`. `TypeOK` is joined by `LineInv` (a
  connection holds one message) and `PendingInv` (a pending request has its user's ticket), which give
  the parts of a line and of a ticket their types. `SuccessIsTruthful` needs `ReplyInv`: a process at the
  prompt has no thread in FS, so that an answer is the one of the last command. `OnlyConfirmed` rests on
  three more: `TicketInv`, a TID that was confirmed is still the ticket it was confirmed for or nobody's,
  since TIDs are not used again; `KnowledgeInv`, no process, answer, thread or datagram has a TID that
  was not confirmed, which is why VLD need not ask; `DatagramInv`, a VLD from a thread's socket names
  the thread's user and TID, so that a late CNF cannot allow a later command. `SameAnswer` follows with
  `DueInv`, `OneSession` with `HolderInv`, which also counts connections that the App has closed and the
  AS has not. `Spec` is the cold start; the warm one of the run is a state `Spec` reaches.

Every safety property of the passing runs is proved. Model-checked only: liveness under fairness
(`EveryRequestAnswered` and the like), which is out of the prover's reach, as is induction over data; and
the runs that must fail.

## Not modelled, and the plan

* Framing: `receiveMessageUntilChar` and the loops of `sendMessageTCP` and `receiveMessageTCP`. A line arrives
  whole or not at all in the models. What upload makes of a short count (`FS.c:515`) is a batch of stale
  bytes in `FileStore`.
* Loops over the characters of a word (`validUID`, `validPASS`, `getWords`, `isCommand`, `pointToArgs`,
  `getRandomNumber`, `integerToChar`): the modules take their results as inputs of each kind.
* What a client other than `User.c` may send to FS.
* The death of the AS. Nothing in `src/` handles SIGPIPE, so that an answer written to a connection that is
  gone (`tcp.c:71`) may end it. It keeps nothing on disk: it would start from `Init` again, with PDs and
  Apps that hold users, sessions and TIDs it does not know.
* Whom the end of a connection leaves logged in. A read error (`AS.c:361`) and a second LOG on a connection
  (`AS.c:395`) are steps of `AuthServer`, and after them a user may be logged in whom no connection will log
  out; nothing in the repository says that this should not be so, and no property does.

Left out for good: command-line arguments, what is printed, memory and descriptors that are never
released, name resolution.
