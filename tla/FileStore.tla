------------------------------ MODULE FileStore ------------------------------
(***************************************************************************)
(* The directory of one user in the file server, FS.c.  Every connection     *)
(* has a thread (newClientDealingThread) that serves one command and ends;   *)
(* threads of the same user share nothing but the directory, and no lock     *)
(* orders their system calls, so every system call is a step.                *)
(*                                                                          *)
(* A command starts here when validate() has accepted its TID.  The AS       *)
(* accepts the TID of the user's last request as often as it is asked, and   *)
(* a thread may be slow while its user asks for more, so any two commands    *)
(* of a user may run at once.                                                *)
(*                                                                          *)
(* A file has an inode, which outlives its name while it is open.  Contents  *)
(* are sequences of batches: a batch is the number of the connection it was  *)
(* uploaded on, or Stale for the bytes that were in the buffer before.       *)
(***************************************************************************)
EXTENDS Integers, Sequences, FiniteSets

CONSTANTS
  Threads,         \* threads that may run at the same time
  Files,           \* file names, which are the inodes of the files that were there first
  MaxFiles,        \* maxAmountFiles, 15 in the code
  MaxBatches,      \* bound on the batches of an upload;  a file that was there first has one
  MaxConnections,  \* bound on the connections
  Stale,
  None

ASSUME ConstantsAssumption ==
  /\ Threads # {} /\ IsFiniteSet(Threads) /\ IsFiniteSet(Files)
  /\ MaxFiles \in Nat \ {0}
  /\ MaxBatches \in Nat \ {0} /\ MaxConnections \in Nat
  /\ None \notin Files \cup Nat \cup {Stale} \cup Seq(Files \cup Nat \cup {Stale})
  /\ Files \cap Nat = {}

VARIABLES
  dir,      \* whether USERS/UID exists
  inodeOf,  \* the inode of a file name, None when there is no such file
  content,  \* the content of an inode
  opened,   \* threads that have the directory at USERS/UID open, not one removed since
  up,       \* the process runs
  pc,       \* where each thread is
  cmd,      \* the command it serves
  conn,     \* the number of its connection
  todo,     \* the names that readdir() has yet to return
  found,    \* list: the names and sizes printed so far
  handle,   \* the inode it has open
  left,     \* upload: batches to come;  retrieve: the size stat() told
  offset,   \* upload: the file offset
  reply,    \* the reply of its last command
  conns,    \* connections so far
  solo,     \* [thread, store] of a command that runs alone: where it began
  erase     \* the inodes that were in the directory when removeC read it

storeVars  == <<dir, inodeOf, content, opened>>
localVars  == <<todo, found, handle, left, offset>>
threadVars == <<cmd, conn, localVars>>
historyVars == <<solo, erase>>
vars == <<storeVars, up, pc, threadVars, reply, conns, historyVars>>

----------------------------------------------------------------------------

Commands ==
  [op : {"LST", "REM"}] \cup [op : {"RTV", "DEL"}, file : Files]
    \cup [op : {"UPL"}, file : Files, size : 0..MaxBatches]

Inodes == Files \cup (1..MaxConnections)   \* Files: those that were there first

Batches == Files \cup (1..MaxConnections) \cup {Stale}

Pcs == {"idle", "openDir", "readDir", "stat", "remove", "rmdir",
        "checkDir", "open", "statFile", "fread", "unlink",
        "mkdir", "access", "create", "fwrite", "reply"}

FileSet == {f \in Files : inodeOf[f] # None}

ReplyOf(status) == [status |-> status]

\* A store that earlier commands may have left: no more than MaxFiles files,
\* in a directory that is there as soon as one is.
Init ==
  /\ \E S \in SUBSET Files :
       /\ Cardinality(S) <= MaxFiles
       /\ inodeOf = [f \in Files |-> IF f \in S THEN f ELSE None]
       /\ dir \in IF S = {} THEN BOOLEAN ELSE {TRUE}
  /\ content = [i \in Inodes |-> IF i \in Files THEN <<i>> ELSE <<>>]
  /\ opened = {}
  /\ up = TRUE
  /\ pc = [t \in Threads |-> "idle"]
  /\ cmd = [t \in Threads |-> None]
  /\ conn = [t \in Threads |-> 0]
  /\ todo = [t \in Threads |-> {}]
  /\ found = [t \in Threads |-> {}]
  /\ handle = [t \in Threads |-> None]
  /\ left = [t \in Threads |-> 0]
  /\ offset = [t \in Threads |-> 0]
  /\ reply = [t \in Threads |-> None]
  /\ conns = 0
  /\ solo = None
  /\ erase = [t \in Threads |-> {}]

----------------------------------------------------------------------------

\* What a user sees of the store.
Store ==
  [dir |-> dir, file |-> [f \in Files |-> IF inodeOf[f] = None THEN None ELSE content[inodeOf[f]]]]

Active == {t \in Threads : pc[t] # "idle"}

Goto(t, label) == pc' = [pc EXCEPT ![t] = label]

FirstStep(op) ==
  IF op \in {"LST", "REM"} THEN "openDir" ELSE "checkDir"

\* newClientDealingThread: a connection, its command, and validate() = 1.
Begin(t, c) ==
  /\ up
  /\ pc[t] = "idle"
  /\ conns < MaxConnections
  /\ conns' = conns + 1
  /\ conn' = [conn EXCEPT ![t] = conns + 1]
  /\ cmd' = [cmd EXCEPT ![t] = c]
  /\ reply' = [reply EXCEPT ![t] = None]
  /\ Goto(t, FirstStep(c.op))
  /\ solo' = IF Active = {} THEN [thread |-> t, store |-> Store] ELSE None
  /\ UNCHANGED <<storeVars, up, localVars, erase>>

\* reply(), and the handler returns.
Answer(t, r) ==
  /\ reply' = [reply EXCEPT ![t] = r]
  /\ Goto(t, "reply")

\* closeSocket(): the thread ends.
End(t) ==
  /\ pc[t] = "reply"
  /\ Goto(t, "idle")
  /\ cmd' = [cmd EXCEPT ![t] = None]
  /\ conn' = [conn EXCEPT ![t] = 0]
  /\ todo' = [todo EXCEPT ![t] = {}]
  /\ found' = [found EXCEPT ![t] = {}]
  /\ handle' = [handle EXCEPT ![t] = None]
  /\ left' = [left EXCEPT ![t] = 0]
  /\ offset' = [offset EXCEPT ![t] = 0]
  /\ solo' = None
  /\ erase' = [erase EXCEPT ![t] = {}]
  /\ UNCHANGED <<storeVars, up, reply, conns>>

\* Nothing but the thread's place and its reply change.
Local == UNCHANGED <<storeVars, up, threadVars, conns, historyVars>>

----------------------------------------------------------------------------
\* list and removeC

\* opendir(): list, removeC and upload, for which a directory that is not there
\* holds no files.
OpenDir(t) ==
  /\ pc[t] = "openDir"
  /\ opened' = IF dir THEN opened \cup {t} ELSE opened
  /\ IF dir THEN Goto(t, "readDir") /\ UNCHANGED reply
     ELSE IF cmd[t].op = "UPL" THEN Goto(t, "access") /\ UNCHANGED reply
     ELSE Answer(t, ReplyOf(IF cmd[t].op = "LST" THEN "ERR" ELSE "NOK"))
  /\ UNCHANGED <<dir, inodeOf, content, up, threadVars, conns, historyVars>>

\* What readdir() returns: the kernel hands out all names of a directory this
\* small at once, and none of a directory that was removed.
Names(t) == IF t \in opened THEN FileSet ELSE {}

ReadDir(t) ==
  /\ pc[t] = "readDir"
  /\ cmd[t].op \in {"LST", "REM"}
  /\ opened' = opened \ {t}
  /\ todo' = [todo EXCEPT ![t] = Names(t)]
  /\ Goto(t, IF cmd[t].op = "LST" THEN "stat" ELSE "remove")
  /\ erase' = [erase EXCEPT ![t] = {inodeOf[f] : f \in Names(t)}]
  /\ UNCHANGED <<dir, inodeOf, content, up, cmd, conn, found, handle, left, offset, reply, conns, solo>>

\* list: stat() of the next name.  A file that is gone ends the listing.
StatNext(t, f) ==
  /\ pc[t] = "stat"
  /\ f \in todo[t]
  /\ IF inodeOf[f] = None
     THEN Answer(t, ReplyOf("ERR")) /\ UNCHANGED <<todo, found>>
     ELSE /\ todo' = [todo EXCEPT ![t] = @ \ {f}]
          /\ found' = [found EXCEPT ![t] = @ \cup {<<f, Len(content[inodeOf[f]])>>}]
          /\ UNCHANGED <<pc, reply>>
  /\ UNCHANGED <<storeVars, up, cmd, conn, handle, left, offset, conns, historyVars>>

ReplyList(t) ==
  /\ pc[t] = "stat"
  /\ todo[t] = {}
  /\ Answer(t, IF found[t] = {} THEN ReplyOf("EOF") ELSE [status |-> "OK", list |-> found[t]])
  /\ Local

\* removeC: remove() of the next name, its result ignored.
RemoveNext(t, f) ==
  /\ pc[t] = "remove"
  /\ f \in todo[t]
  /\ todo' = [todo EXCEPT ![t] = @ \ {f}]
  /\ inodeOf' = [inodeOf EXCEPT ![f] = None]
  /\ UNCHANGED <<dir, content, opened, up, pc, cmd, conn, found, handle, left, offset, reply, conns, historyVars>>

\* Mutant: the loop ends before all names were removed.
RmDirEarly(t) ==
  /\ pc[t] = "remove"
  /\ dir' = (dir /\ FileSet # {})
  /\ opened' = IF FileSet = {} THEN {} ELSE opened
  /\ Answer(t, ReplyOf("OK"))
  /\ UNCHANGED <<inodeOf, content, up, threadVars, conns, historyVars>>

\* rmdir() and RRM OK: the directory stays when it is not empty.
RmDir(t) ==
  /\ pc[t] = "remove"
  /\ todo[t] = {}
  /\ dir' = (dir /\ FileSet # {})
  /\ opened' = IF FileSet = {} THEN {} ELSE opened
  /\ Answer(t, ReplyOf("OK"))
  /\ UNCHANGED <<inodeOf, content, up, threadVars, conns, historyVars>>

----------------------------------------------------------------------------
\* retrieve and deleteC

\* dirExists(): the three commands that name a file.
CheckDir(t) ==
  /\ pc[t] = "checkDir"
  /\ IF cmd[t].op = "UPL" THEN Goto(t, IF dir THEN "openDir" ELSE "mkdir") /\ UNCHANGED reply
     ELSE IF dir THEN Goto(t, "open") /\ UNCHANGED reply
     ELSE Answer(t, ReplyOf("NOK"))
  /\ Local

\* fopen(filePath, "rb")
OpenToRead(t) ==
  LET i == inodeOf[cmd[t].file]
  IN /\ pc[t] = "open"
     /\ IF i = None
        THEN Answer(t, ReplyOf("EOF")) /\ UNCHANGED handle
        ELSE /\ Goto(t, IF cmd[t].op = "RTV" THEN "statFile" ELSE "unlink")
             /\ handle' = [handle EXCEPT ![t] = IF cmd[t].op = "RTV" THEN i ELSE @]
             /\ UNCHANGED reply
     /\ UNCHANGED <<storeVars, up, cmd, conn, todo, found, left, offset, conns, historyVars>>

\* stat(filePath): the size of the file that has the name now.  When none has,
\* fileStats keeps what the stack held and any size comes out.
StatFile(t) ==
  LET i == inodeOf[cmd[t].file]
  IN /\ pc[t] = "statFile"
     /\ \E n \in IF i = None THEN 0..MaxBatches ELSE {Len(content[i])} :
          left' = [left EXCEPT ![t] = n]
     /\ Goto(t, "fread")
     /\ UNCHANGED <<storeVars, up, cmd, conn, todo, found, handle, offset, reply, conns, historyVars>>

\* fread() of that many bytes from the open file, and RRT OK: the size is the
\* one stat() told, whatever was read.
ReadFile(t) ==
  LET c == content[handle[t]]
      n == IF Len(c) < left[t] THEN Len(c) ELSE left[t]
  IN /\ pc[t] = "fread"
     /\ Answer(t, [status |-> "OK", size |-> left[t], data |-> SubSeq(c, 1, n)])
     /\ Local

\* remove(filePath), its result ignored, and RDL OK.
Unlink(t) ==
  /\ pc[t] = "unlink"
  /\ inodeOf' = [inodeOf EXCEPT ![cmd[t].file] = None]
  /\ Answer(t, ReplyOf("OK"))
  /\ UNCHANGED <<dir, content, opened, up, threadVars, conns, historyVars>>

----------------------------------------------------------------------------
\* upload

\* mkdir() by checkDirExists_IfNotCreate.
MakeDir(t) ==
  /\ pc[t] = "mkdir"
  /\ dir' = TRUE
  /\ Goto(t, "openDir")
  /\ UNCHANGED <<inodeOf, content, opened, up, threadVars, reply, conns, historyVars>>

\* Mutant: one file too many.
CountFilesOffByOne(t) ==
  /\ pc[t] = "readDir"
  /\ cmd[t].op = "UPL"
  /\ opened' = opened \ {t}
  /\ IF Cardinality(Names(t)) > MaxFiles THEN Answer(t, ReplyOf("FULL"))
     ELSE Goto(t, "access") /\ UNCHANGED reply
  /\ UNCHANGED <<dir, inodeOf, content, up, threadVars, conns, historyVars>>

\* The files that readdir() returns are counted.
CountFiles(t) ==
  /\ pc[t] = "readDir"
  /\ cmd[t].op = "UPL"
  /\ opened' = opened \ {t}
  /\ IF Cardinality(Names(t)) >= MaxFiles THEN Answer(t, ReplyOf("FULL"))
     ELSE Goto(t, "access") /\ UNCHANGED reply
  /\ UNCHANGED <<dir, inodeOf, content, up, threadVars, conns, historyVars>>

\* Mutant: a file that exists is not refused.
CheckDuplicateNever(t) ==
  /\ pc[t] = "access"
  /\ Goto(t, "create")
  /\ UNCHANGED reply
  /\ Local

\* access(filePath, F_OK)
CheckDuplicate(t) ==
  /\ pc[t] = "access"
  /\ IF inodeOf[cmd[t].file] # None THEN Answer(t, ReplyOf("DUP"))
     ELSE Goto(t, "create") /\ UNCHANGED reply
  /\ Local

\* fopen(filePath, "w"): a new inode, or the one that has the name by now,
\* truncated.  Without a directory fopen() returns NULL, which nobody checks.
CreateFile(t) ==
  LET f == cmd[t].file
      i == IF ~dir THEN None ELSE IF inodeOf[f] # None THEN inodeOf[f] ELSE conn[t]
  IN /\ pc[t] = "create"
     /\ inodeOf' = [inodeOf EXCEPT ![f] = i]
     /\ content' = IF i = None THEN content ELSE [content EXCEPT ![i] = <<>>]
     /\ handle' = [handle EXCEPT ![t] = i]
     /\ left' = [left EXCEPT ![t] = cmd[t].size]
     /\ offset' = [offset EXCEPT ![t] = 0]
     /\ Goto(t, "fwrite")
     /\ UNCHANGED <<dir, opened, up, cmd, conn, todo, found, reply, conns, historyVars>>

\* The batch b at offset n of the content c; a gap is filled with zeros.
WriteAt(c, n, b) ==
  [k \in 1..(IF Len(c) > n THEN Len(c) ELSE n + 1) |->
     IF k = n + 1 THEN b ELSE IF k <= Len(c) THEN c[k] ELSE Stale]

\* Mutant: fileSize -= readingSize is missing.
WriteBatchUncounted(t) ==
  /\ pc[t] = "fwrite"
  /\ left[t] > 0 /\ handle[t] # None
  /\ \E b \in {conn[t], Stale} :
       content' = [content EXCEPT ![handle[t]] = WriteAt(@, offset[t], b)]
  /\ offset' = [offset EXCEPT ![t] = @ + 1]
  /\ UNCHANGED <<dir, inodeOf, opened, up, pc, cmd, conn, todo, found, handle, left, reply, conns, historyVars>>

\* One turn of the loop: a batch is received and written.  receiveMessage()
\* returns a short count when the peer has closed, and the loop takes that for
\* a whole batch.
WriteBatch(t) ==
  /\ pc[t] = "fwrite"
  /\ left[t] > 0 /\ handle[t] # None
  /\ \E b \in {conn[t], Stale} :
       content' = [content EXCEPT ![handle[t]] = WriteAt(@, offset[t], b)]
  /\ left' = [left EXCEPT ![t] = @ - 1]
  /\ offset' = [offset EXCEPT ![t] = @ + 1]
  /\ UNCHANGED <<dir, inodeOf, opened, up, pc, cmd, conn, todo, found, handle, reply, conns, historyVars>>

\* receiveMessage() fails: the file stays as it is and no reply is sent.
UploadError(t) ==
  /\ pc[t] = "fwrite"
  /\ left[t] > 0 /\ handle[t] # None
  /\ Answer(t, None)
  /\ Local

\* fclose() and RUP OK.
CloseFile(t) ==
  /\ pc[t] = "fwrite"
  /\ left[t] = 0 /\ handle[t] # None
  /\ Answer(t, ReplyOf("OK"))
  /\ Local

\* fwrite() or fclose() of NULL: the process dies, and its threads.
CrashNull(t) ==
  /\ pc[t] = "fwrite"
  /\ handle[t] = None
  /\ up' = FALSE
  /\ opened' = {}
  /\ pc' = [u \in Threads |-> "idle"]
  /\ cmd' = [u \in Threads |-> None]
  /\ conn' = [u \in Threads |-> 0]
  /\ todo' = [u \in Threads |-> {}]
  /\ found' = [u \in Threads |-> {}]
  /\ handle' = [u \in Threads |-> None]
  /\ left' = [u \in Threads |-> 0]
  /\ offset' = [u \in Threads |-> 0]
  /\ reply' = [u \in Threads |-> None]
  /\ solo' = None
  /\ erase' = [u \in Threads |-> {}]
  /\ UNCHANGED <<dir, inodeOf, content, conns>>

\* The operator starts FS again; main() leaves the files alone.
Restart ==
  /\ ~up
  /\ up' = TRUE
  /\ UNCHANGED <<storeVars, pc, threadVars, reply, conns, historyVars>>

----------------------------------------------------------------------------

Step(t) ==
  \/ End(t) \/ OpenDir(t) \/ ReadDir(t) \/ ReplyList(t) \/ RmDir(t)
  \/ \E f \in Files : StatNext(t, f) \/ RemoveNext(t, f)
  \/ CheckDir(t) \/ OpenToRead(t) \/ StatFile(t) \/ ReadFile(t) \/ Unlink(t)
  \/ MakeDir(t) \/ CountFiles(t) \/ CheckDuplicate(t) \/ CreateFile(t)
  \/ WriteBatch(t) \/ UploadError(t) \/ CloseFile(t) \/ CrashNull(t)

Next ==
  \/ \E t \in Threads : Step(t) \/ \E c \in Commands : Begin(t, c)
  \/ Restart

Spec == Init /\ [][Next]_vars

----------------------------------------------------------------------------
\* Properties

Content == UNION {[1..n -> Batches] : n \in 0..MaxBatches}

TypeOK ==
  /\ dir \in BOOLEAN
  /\ inodeOf \in [Files -> Inodes \cup {None}]
  /\ FileSet # {} => dir
  /\ content \in [Inodes -> Content]
  /\ opened \subseteq Threads
  /\ up \in BOOLEAN
  /\ pc \in [Threads -> Pcs]
  /\ cmd \in [Threads -> Commands \cup {None}]
  /\ conn \in [Threads -> 0..MaxConnections]
  /\ todo \in [Threads -> SUBSET Files]
  /\ handle \in [Threads -> Inodes \cup {None}]
  /\ left \in [Threads -> 0..MaxBatches]
  /\ offset \in [Threads -> 0..MaxBatches]
  /\ conns \in 0..MaxConnections

\* What the five commands promise when nothing else runs: from the store b the
\* command c on connection n leads to the store a and the reply r.
SequentialList(b, a, r) ==
  LET names == {f \in Files : b.file[f] # None}
  IN /\ a = b
     /\ r.status = IF ~b.dir THEN "ERR" ELSE IF names = {} THEN "EOF" ELSE "OK"
     /\ r.status = "OK" => r.list = {<<f, Len(b.file[f])>> : f \in names}

SequentialRetrieve(f, b, a, r) ==
  /\ a = b
  /\ r.status = IF ~b.dir THEN "NOK" ELSE IF b.file[f] = None THEN "EOF" ELSE "OK"
  /\ r.status = "OK" => r.data = b.file[f] /\ r.size = Len(b.file[f])

SequentialUpload(f, size, b, a, r) ==
  LET full == Cardinality({g \in Files : b.file[g] # None}) >= MaxFiles
      refused == full \/ b.file[f] # None
  IN /\ a.dir
     /\ \A g \in Files \ {f} : a.file[g] = b.file[g]
     /\ IF refused THEN r.status = (IF full THEN "FULL" ELSE "DUP") /\ a.file[f] = b.file[f]
        ELSE r.status = "OK" /\ Len(a.file[f]) = size

SequentialDelete(f, b, a, r) ==
  /\ r.status = IF ~b.dir THEN "NOK" ELSE IF b.file[f] = None THEN "EOF" ELSE "OK"
  /\ a = [b EXCEPT !.file[f] = None]

SequentialRemove(b, a, r) ==
  /\ r.status = IF b.dir THEN "OK" ELSE "NOK"
  /\ ~a.dir /\ \A f \in Files : a.file[f] = None

Sequential(c, b, a, r) ==
  \/ c.op = "LST" /\ SequentialList(b, a, r)
  \/ c.op = "RTV" /\ SequentialRetrieve(c.file, b, a, r)
  \/ c.op = "UPL" /\ SequentialUpload(c.file, c.size, b, a, r)
  \/ c.op = "DEL" /\ SequentialDelete(c.file, b, a, r)
  \/ c.op = "REM" /\ SequentialRemove(b, a, r)

\* A command during which no other command of the user runs does, over all its
\* system calls, what it would do in one step, and replies accordingly, from
\* every store that earlier commands, raced or failed ones too, left behind.
AloneCorrect ==
  [][\A t \in Threads :
       /\ solo # None /\ solo.thread = t
       /\ pc[t] # "reply" /\ pc'[t] = "reply" /\ reply'[t] # None
       => Sequential(cmd[t], solo.store, Store', reply'[t])]_vars

\* The limit may be overshot, but by no more files than other threads can be
\* between the count and fopen() of an upload.
OvershootBounded == Cardinality(FileSet) <= MaxFiles - 1 + Cardinality(Threads)

\* When removeC has replied OK, no file it found is in the directory, whatever
\* was uploaded, deleted or removed meanwhile.
RemoveErases ==
  \A t \in Threads : pc[t] = "reply" /\ cmd[t].op = "REM" =>
    \A f \in FileSet : inodeOf[f] \notin erase[t]

\* A user never has more than the maximum amount of files (FS.c:493).
LimitKept == Cardinality(FileSet) <= MaxFiles
=============================================================================
