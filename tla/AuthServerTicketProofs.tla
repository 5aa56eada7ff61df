----------------------- MODULE AuthServerTicketProofs -----------------------
(***************************************************************************)
(* What REQ stores: the counters newVC and newTID, the codes and the TIDs.  *)
(* No lock protects the counters, so two REQs of different users that       *)
(* overlap break every property of this module (the runs as_grant_race and  *)
(* as_zero_tid).  The theorems say that nothing else does: for any number   *)
(* of users, connections and messages and any width of the counters, the    *)
(* properties hold as long as                                               *)
(*   OneCommits: no two threads are in the commit of a REQ at a time, which *)
(*     is a few microseconds long (TicketKnown, NoZeroTid,          *)
(*     CountersAdvance, ServesTickets);                                     *)
(*   OneInside: no two threads are between VLC and the end of their REQ,    *)
(*     which may take six seconds (CodeStored).                             *)
(***************************************************************************)
EXTENDS AuthServerProofs

OneCommits ==
  \A s, t \in Sessions : pc[s] \in CommitPcs /\ pc[t] \in CommitPcs => s = t

OneInside ==
  \A s, t \in Sessions : pc[s] \in HoldingPcs /\ pc[t] \in HoldingPcs => s = t

----------------------------------------------------------------------------
\* incrNumber alone on its array

\* What incrNumber found out about the array is still true.
IncrFits(num, l) ==
  /\ l.step \in {"load", "store"} => num[l.digit] < Base - 1
  /\ l.step = "store" => l.val = num[l.digit]
  /\ l.step = "zero" => num[l.digit] = Base - 1

\* Where a thread is in incrNumber.
IncrPcs == {"incVC", "incTID", "skipZero"}

\* On entry nothing has been found out.
LEMMA StartFits ==
  /\ StartIncr \in IncrLocals
  /\ StartIncr.step = "test" /\ StartIncr.digit = Digits
  /\ \A num : IncrFits(num, StartIncr)
BY ConstantsAssumption DEF StartIncr, IncrLocals, IncrFits

\* The initial values of the counters.
LEMMA FirstNumbers ==
  /\ Zero \in Number
  /\ [Zero EXCEPT ![Digits] = 1] \in Number
  /\ [Zero EXCEPT ![Digits] = 1] # Zero
<1>1. Digits \in 1..Digits /\ 0 \in 0..(Base - 1) /\ 1 \in 0..(Base - 1)
  BY ConstantsAssumption
<1>2. Zero \in Number
  BY <1>1 DEF Zero, Number
<1>3. [Zero EXCEPT ![Digits] = 1] \in Number
  BY <1>1 DEF Zero, Number
<1>4. [Zero EXCEPT ![Digits] = 1][Digits] = 1 /\ Zero[Digits] = 0
  BY <1>1 DEF Zero
<1> QED
  BY <1>2, <1>3, <1>4

\* Without another writer every digit stays a digit, and incrNumber leaves its
\* locals as it found them.
LEMMA IncrNumberAlone ==
  ASSUME NEW num \in Number, NEW l \in IncrLocals, IncrFits(num, l)
  PROVE  /\ IncrNumberNum(num, l) \in Number
         /\ IncrFits(IncrNumberNum(num, l), IncrNumberLocals(num, l))
         /\ IncrNumberReturns(l) => IncrNumberLocals(num, l) = StartIncr
<1>1. l.digit \in 1..Digits /\ l.val \in Nat /\ num[l.digit] \in 0..(Base - 1)
  BY DEF IncrLocals, Number
<1>2. CASE l.step = "test"
  <2>1. IncrNumberNum(num, l) = num /\ ~IncrNumberReturns(l)
    BY <1>2 DEF IncrNumberNum, IncrNumberReturns
  <2> DEFINE l2 == [l EXCEPT !.step = IF num[l.digit] < Base - 1 THEN "load" ELSE "zero"]
  <2>2. IncrNumberLocals(num, l) = l2
    BY <1>2 DEF IncrNumberLocals
  <2>3. l2.digit = l.digit /\ l2.step = IF num[l.digit] < Base - 1 THEN "load" ELSE "zero"
    BY DEF IncrLocals
  <2>4. ~(num[l.digit] < Base - 1) => num[l.digit] = Base - 1
    BY <1>1, ConstantsAssumption
  <2>5. IncrFits(num, l2)
    BY <2>3, <2>4 DEF IncrFits
  <2> QED
    BY <2>1, <2>2, <2>5
<1>3. CASE l.step = "load"
  <2>1. IncrNumberNum(num, l) = num /\ ~IncrNumberReturns(l)
    BY <1>3 DEF IncrNumberNum, IncrNumberReturns
  <2> DEFINE l2 == [l EXCEPT !.step = "store", !.val = num[l.digit]]
  <2>2. IncrNumberLocals(num, l) = l2
    BY <1>3 DEF IncrNumberLocals
  <2>3. l2.digit = l.digit /\ l2.step = "store" /\ l2.val = num[l.digit]
    BY DEF IncrLocals
  <2>4. IncrFits(num, l2)
    BY <1>3, <2>3 DEF IncrFits
  <2> QED
    BY <2>1, <2>2, <2>4
<1>4. CASE l.step = "store"
  <2>1. l.val + 1 \in 0..(Base - 1)
    <3>1. l.val = num[l.digit] /\ num[l.digit] < Base - 1
      BY <1>4 DEF IncrFits
    <3> QED
      BY <1>1, <3>1, ConstantsAssumption
  <2>2. IncrNumberNum(num, l) \in Number
    BY <1>1, <1>4, <2>1 DEF IncrNumberNum, Number
  <2>3. IncrNumberLocals(num, l) = StartIncr
    BY <1>4 DEF IncrNumberLocals
  <2> QED
    BY <2>2, <2>3, StartFits
<1>5. CASE l.step = "zero"
  <2>1. 0 \in 0..(Base - 1)
    BY ConstantsAssumption
  <2>2. IncrNumberNum(num, l) \in Number
    BY <1>1, <1>5, <2>1 DEF IncrNumberNum, Number
  <2>3. CASE l.digit > 1
    <3>1. IncrNumberLocals(num, l) = [StartIncr EXCEPT !.digit = l.digit - 1] /\ l.digit # 1
      BY <1>1, <1>5, <2>3 DEF IncrNumberLocals
    <3>2. IncrNumberLocals(num, l).step = "test"
      BY <3>1 DEF StartIncr
    <3>3. ~IncrNumberReturns(l)
      BY <1>5, <3>1 DEF IncrNumberReturns
    <3> QED
      BY <2>2, <3>2, <3>3 DEF IncrFits
  <2>4. CASE ~(l.digit > 1)
    <3>1. IncrNumberLocals(num, l) = StartIncr
      BY <1>5, <2>4 DEF IncrNumberLocals
    <3> QED
      BY <2>2, <3>1, StartFits
  <2> QED
    BY <2>3, <2>4
<1> QED
  BY <1>2, <1>3, <1>4, <1>5 DEF IncrLocals

\* Between two accesses of a call that began with orig: the digits behind the
\* place of the loop have carried, the others are as they were.
IncrRel(orig, num, l) ==
  /\ \A i \in 1..Digits : i > l.digit => orig[i] = Base - 1 /\ num[i] = 0
  /\ \A i \in 1..Digits : i <= l.digit => num[i] = orig[i]

\* A call of incrNumber that nobody disturbs computes the successor.
LEMMA IncrNumberSucceeds ==
  ASSUME NEW orig \in Number, NEW num \in Number, NEW l \in IncrLocals, IncrFits(num, l), IncrRel(orig, num, l)
  PROVE  IF IncrNumberReturns(l) THEN IsSuccessor(orig, IncrNumberNum(num, l))
         ELSE IncrRel(orig, IncrNumberNum(num, l), IncrNumberLocals(num, l))
<1>1. /\ l.digit \in 1..Digits /\ Digits \in Nat /\ l.digit \in 0..Digits
      /\ num[l.digit] = orig[l.digit] /\ num \in [1..Digits -> 0..(Base - 1)]
  BY ConstantsAssumption DEF IncrLocals, IncrRel, Number
<1>2. CASE l.step = "test" \/ l.step = "load"
  <2>1. IncrNumberNum(num, l) = num /\ ~IncrNumberReturns(l)
    BY <1>2 DEF IncrNumberNum, IncrNumberReturns
  <2>2. IncrNumberLocals(num, l).digit = l.digit
    BY <1>2 DEF IncrNumberLocals, IncrLocals
  <2> QED
    BY <2>1, <2>2 DEF IncrRel
<1>3. CASE l.step = "store"
  <2>1. IncrNumberReturns(l) /\ IncrNumberNum(num, l) = [num EXCEPT ![l.digit] = orig[l.digit] + 1]
    BY <1>1, <1>3 DEF IncrNumberReturns, IncrNumberNum, IncrFits
  <2> DEFINE n == [num EXCEPT ![l.digit] = orig[l.digit] + 1]
  <2>2. orig[l.digit] < Base - 1 /\ l.digit > 0
    BY <1>1, <1>3 DEF IncrFits
  <2>3. /\ \A i \in 1..Digits : i > l.digit => orig[i] = Base - 1 /\ n[i] = 0
        /\ \A i \in 1..Digits : i < l.digit => n[i] = orig[i]
        /\ n[l.digit] = orig[l.digit] + 1
    BY <1>1 DEF IncrRel
  <2> HIDE DEF n
  <2>4. IsSuccessor(orig, n)
    BY <1>1, <2>2, <2>3 DEF IsSuccessor
  <2> QED
    BY <2>1, <2>4 DEF n
<1>4. CASE l.step = "zero"
  <2>1. orig[l.digit] = Base - 1 /\ IncrNumberNum(num, l) = [num EXCEPT ![l.digit] = 0]
    BY <1>1, <1>4 DEF IncrNumberNum, IncrFits
  <2> DEFINE n == [num EXCEPT ![l.digit] = 0]
  <2>2. /\ \A i \in 1..Digits : i >= l.digit => orig[i] = Base - 1 /\ n[i] = 0
        /\ \A i \in 1..Digits : i < l.digit => n[i] = orig[i]
    BY <1>1, <2>1 DEF IncrRel
  <2> HIDE DEF n
  <2>3. CASE l.digit > 1
    <3>1. ~IncrNumberReturns(l) /\ IncrNumberLocals(num, l).digit = l.digit - 1
      BY <1>1, <1>4, <2>3 DEF IncrNumberReturns, IncrNumberLocals, StartIncr
    <3>2. IncrRel(orig, n, IncrNumberLocals(num, l))
      BY <1>1, <2>2, <3>1 DEF IncrRel
    <3> QED
      BY <2>1, <3>1, <3>2 DEF n
  <2>4. CASE ~(l.digit > 1)
    <3>1. IncrNumberReturns(l) /\ \A i \in 1..Digits : orig[i] = Base - 1 /\ n[i] = 0
      BY <1>1, <1>4, <2>2, <2>4 DEF IncrNumberReturns
    <3>2. IsSuccessor(orig, n)
      <4>1. 0 \in 0..Digits /\ \A i \in 1..Digits : i > 0 /\ ~(i < 0)
        BY <1>1
      <4> QED
        BY <3>1, <4>1 DEF IsSuccessor
    <3> QED
      BY <2>1, <3>1, <3>2 DEF n
  <2> QED
    BY <2>3, <2>4
<1> QED
  BY <1>2, <1>3, <1>4 DEF IncrLocals

\* A call begins with its number.
LEMMA StartRel ==
  ASSUME NEW num
  PROVE  IncrRel(num, num, StartIncr)
<1>1. \A i \in 1..Digits : ~(i > Digits)
  BY ConstantsAssumption
<1> QED
  BY <1>1 DEF IncrRel, StartIncr

\* incrNumber from 0...0: it goes no further than the last digit.
AtLastDigit(l) == l.digit = Digits /\ l.step # "zero"

\* Skipping 0000: the number stays 0000 until the call returns, and is another
\* one then.
LEMMA SkipZero ==
  ASSUME NEW l \in IncrLocals, IncrFits(Zero, l), AtLastDigit(l)
  PROVE  /\ ~IncrNumberReturns(l) => IncrNumberNum(Zero, l) = Zero /\ AtLastDigit(IncrNumberLocals(Zero, l))
         /\ IncrNumberReturns(l) => IncrNumberNum(Zero, l) # Zero
<1>1. Zero[Digits] = 0 /\ 0 < Base - 1 /\ l.digit = Digits /\ Digits \in 1..Digits
  BY ConstantsAssumption DEF Zero, AtLastDigit
<1>2. CASE l.step = "test"
  <2> DEFINE l2 == [l EXCEPT !.step = IF Zero[l.digit] < Base - 1 THEN "load" ELSE "zero"]
  <2>1. IncrNumberLocals(Zero, l) = l2 /\ IncrNumberNum(Zero, l) = Zero /\ ~IncrNumberReturns(l)
    BY <1>2 DEF IncrNumberLocals, IncrNumberNum, IncrNumberReturns
  <2>2. l2.digit = Digits /\ l2.step = "load"
    BY <1>1 DEF IncrLocals
  <2> QED
    BY <2>1, <2>2 DEF AtLastDigit
<1>3. CASE l.step = "load"
  <2> DEFINE l2 == [l EXCEPT !.step = "store", !.val = Zero[l.digit]]
  <2>1. IncrNumberLocals(Zero, l) = l2 /\ IncrNumberNum(Zero, l) = Zero /\ ~IncrNumberReturns(l)
    BY <1>3 DEF IncrNumberLocals, IncrNumberNum, IncrNumberReturns
  <2>2. l2.digit = Digits /\ l2.step = "store"
    BY <1>1 DEF IncrLocals
  <2> QED
    BY <2>1, <2>2 DEF AtLastDigit
<1>4. CASE l.step = "store"
  <2>1. IncrNumberReturns(l) /\ l.val = 0
    BY <1>1, <1>4 DEF IncrNumberReturns, IncrFits
  <2>2. IncrNumberNum(Zero, l) = [Zero EXCEPT ![Digits] = 1]
    BY <1>1, <1>4, <2>1 DEF IncrNumberNum
  <2> QED
    BY <2>1, <2>2, FirstNumbers
<1> QED
  BY <1>2, <1>3, <1>4 DEF AtLastDigit, IncrLocals

----------------------------------------------------------------------------
\* The counters, while no two commits overlap

\* A thread outside incrNumber has its locals ready for the next call; inside,
\* they fit the counter it increments, and the second call runs on 0000.
LocalsInv(s) ==
  /\ pc[s] \notin IncrPcs => inc[s] = StartIncr
  /\ pc[s] = "incVC" => IncrFits(newVC, inc[s])
  /\ pc[s] \in {"incTID", "skipZero"} => IncrFits(newTID, inc[s])
  /\ pc[s] = "skipZero" => newTID = Zero /\ AtLastDigit(inc[s])

\* The counters are numbers, and newTID is 0000 only where it is about to be
\* skipped.
NumberInv ==
  /\ newVC \in Number /\ newTID \in Number
  /\ newTID = Zero => \E s \in Sessions : pc[s] \in {"incTID", "checkTID", "skipZero"}
  /\ \A s \in Sessions : LocalsInv(s)

\* The counters start in range, TID 0001 first.
LEMMA InitNumber == Init => NumberInv
BY FirstNumbers, StartFits DEF Init, NumberInv, LocalsInv, IncrPcs

\* Only incrNumber writes the counters, and no other statement leaves it; after
\* the test for 0000 the second call follows exactly when it is needed.
LEMMA StillNumbers ==
  ASSUME TypeInv, NEW s \in Sessions, ThreadStep(s) \/ Environment(s), ~IncrVC(s), ~IncrTID(s)
  PROVE  /\ newVC' = newVC /\ newTID' = newTID /\ inc' = inc
         /\ pc[s] \notin IncrPcs
         /\ pc'[s] = "skipZero" => newTID = Zero
         /\ pc[s] = "checkTID" /\ newTID = Zero => pc'[s] = "skipZero"
<1> USE DEF TypeInv, TypeOK, Goto, Answer, CanLock, EndRequest, numVars, requestVars, threadVars, IncrPcs
<1>1. CASE Disconnect(s) \/ Malformed(s) \/ Login(s) \/ Authenticate(s) \/ RefuseRequest(s)
  BY <1>1 DEF Disconnect, Malformed, Login, Authenticate, RefuseRequest
<1>2. CASE SendVLC(s) \/ RetransmitVLC(s) \/ GiveUpVLC(s) \/ ReceiveRVC(s) \/ ReceiveRefusal(s)
  BY <1>2 DEF SendVLC, RetransmitVLC, GiveUpVLC, ReceiveRVC, ReceiveRefusal
<1>3. CASE PutRids(s) \/ PutTids(s) \/ PutR2t(s)
  BY <1>3 DEF PutRids, PutTids, PutR2t
<1>4. CASE CheckTID(s)
  BY <1>4 DEF CheckTID
<1>5. CASE Accept(s) \/ Receive(s) \/ ReceiveEof(s) \/ ReceiveError(s)
  BY <1>5 DEF Accept, Receive, ReceiveEof, ReceiveError
<1> QED
  BY <1>1, <1>2, <1>3, <1>4, <1>5 DEF ThreadStep, Environment, Commit

\* While a thread is in the commit, no other is in incrNumber, and its locals
\* are ready.
LEMMA OthersReady ==
  ASSUME OneCommits, NumberInv, NEW s \in Sessions, pc[s] \in CommitPcs, NEW t \in Sessions, t # s
  PROVE  pc[t] \notin IncrPcs /\ pc[t] # "checkTID" /\ inc[t] = StartIncr
BY DEF OneCommits, NumberInv, LocalsInv, IncrPcs, CommitPcs

\* A statement outside incrNumber.
LEMMA StillStep ==
  ASSUME TypeInv, NumberInv, NEW s \in Sessions, ThreadStep(s) \/ Environment(s), ~IncrVC(s), ~IncrTID(s)
  PROVE  NumberInv'
<1>1. newVC' = newVC /\ newTID' = newTID /\ inc' = inc /\ inc[s] = StartIncr
  BY StillNumbers DEF NumberInv, LocalsInv
<1>2. \A t \in Sessions : t # s => pc'[t] = pc[t]
  BY ThreadFrame
<1>3. newTID' = Zero => \E t \in Sessions : pc'[t] \in {"incTID", "checkTID", "skipZero"}
  <2> SUFFICES ASSUME newTID = Zero
               PROVE  \E t \in Sessions : pc'[t] \in {"incTID", "checkTID", "skipZero"}
    BY <1>1
  <2>1. PICK t \in Sessions : pc[t] \in {"incTID", "checkTID", "skipZero"}
    BY DEF NumberInv
  <2>2. CASE t = s
    BY <2>1, <2>2, StillNumbers DEF IncrPcs
  <2>3. CASE t # s
    BY <1>2, <2>1, <2>3
  <2> QED
    BY <2>2, <2>3
<1>4. LocalsInv(s)'
  <2>1. pc'[s] = "skipZero" => newTID' = Zero
    BY <1>1, StillNumbers
  <2> QED
    BY <1>1, <2>1, StartFits DEF LocalsInv, AtLastDigit
<1>5. ASSUME NEW t \in Sessions, t # s PROVE LocalsInv(t)'
  <2>1. LocalsInv(t)
    BY DEF NumberInv
  <2> QED
    BY <1>1, <1>2, <1>5, <2>1 DEF LocalsInv
<1> QED
  BY <1>1, <1>3, <1>4, <1>5 DEF NumberInv

\* incrNumber(newVC).
LEMMA IncrVCStep ==
  ASSUME TypeInv, OneCommits, NumberInv, NEW s \in Sessions, IncrVC(s)
  PROVE  NumberInv' /\ newTID' = newTID /\ newTID # Zero
<1>1. pc[s] = "incVC" /\ pc[s] \in CommitPcs
  BY DEF IncrVC, CommitPcs
<1>2. inc[s] \in IncrLocals /\ inc \in [Sessions -> IncrLocals] /\ pc \in [Sessions -> Pcs]
  BY DEF TypeInv, TypeOK
<1>3. newVC \in Number /\ IncrFits(newVC, inc[s]) /\ newTID \in Number
  BY <1>1 DEF NumberInv, LocalsInv
<1> DEFINE num == IncrNumberNum(newVC, inc[s])
           l == IncrNumberLocals(newVC, inc[s])
<1>4. num \in Number /\ IncrFits(num, l) /\ (IncrNumberReturns(inc[s]) => l = StartIncr)
  BY <1>2, <1>3, IncrNumberAlone
<1>5. newVC' = num /\ inc'[s] = l /\ newTID' = newTID
  BY <1>2 DEF IncrVC
<1>6. pc'[s] = IF IncrNumberReturns(inc[s]) THEN "putTids" ELSE "incVC"
  BY <1>1, <1>2 DEF IncrVC, Goto
<1>7. ASSUME NEW t \in Sessions, t # s
      PROVE  /\ pc'[t] = pc[t] /\ inc'[t] = inc[t]
             /\ pc[t] \notin IncrPcs /\ pc[t] # "checkTID" /\ inc[t] = StartIncr
  <2>1. pc'[t] = pc[t] /\ inc'[t] = inc[t]
    BY <1>2, <1>7 DEF IncrVC, Goto
  <2> QED
    BY <1>1, <1>7, <2>1, OthersReady
<1> HIDE DEF num, l
<1>8. newTID # Zero
  BY <1>1, <1>7 DEF NumberInv, IncrPcs
<1>9. LocalsInv(s)'
  BY <1>4, <1>5, <1>6 DEF LocalsInv, IncrPcs
<1>10. ASSUME NEW t \in Sessions, t # s PROVE LocalsInv(t)'
  BY <1>7, <1>10 DEF LocalsInv, IncrPcs
<1> QED
  BY <1>3, <1>4, <1>5, <1>8, <1>9, <1>10 DEF NumberInv

\* incrNumber(newTID), called twice around 0000.
LEMMA IncrTIDStep ==
  ASSUME TypeInv, OneCommits, NumberInv, NEW s \in Sessions, IncrTID(s)
  PROVE  NumberInv'
<1>1. pc[s] \in {"incTID", "skipZero"} /\ pc[s] \in CommitPcs
  BY DEF IncrTID, CommitPcs
<1>2. inc[s] \in IncrLocals /\ inc \in [Sessions -> IncrLocals] /\ pc \in [Sessions -> Pcs]
  BY DEF TypeInv, TypeOK
<1>3. /\ newTID \in Number /\ IncrFits(newTID, inc[s]) /\ newVC \in Number
      /\ pc[s] = "skipZero" => newTID = Zero /\ AtLastDigit(inc[s])
  BY <1>1 DEF NumberInv, LocalsInv
<1> DEFINE num == IncrNumberNum(newTID, inc[s])
           l == IncrNumberLocals(newTID, inc[s])
<1>4. num \in Number /\ IncrFits(num, l) /\ (IncrNumberReturns(inc[s]) => l = StartIncr)
  BY <1>2, <1>3, IncrNumberAlone
<1>5. pc[s] = "skipZero" => IF IncrNumberReturns(inc[s]) THEN num # Zero ELSE num = Zero /\ AtLastDigit(l)
  BY <1>2, <1>3, SkipZero
<1>6. newTID' = num /\ inc'[s] = l /\ newVC' = newVC
  BY <1>2 DEF IncrTID
<1>7. pc'[s] = IF ~IncrNumberReturns(inc[s]) THEN pc[s] ELSE IF pc[s] = "incTID" THEN "checkTID" ELSE "recv"
  BY <1>1, <1>2 DEF IncrTID, Goto, EndRequest, Answer
<1>8. ASSUME NEW t \in Sessions, t # s
      PROVE  /\ pc'[t] = pc[t] /\ inc'[t] = inc[t]
             /\ pc[t] \notin IncrPcs /\ inc[t] = StartIncr
  <2>1. pc'[t] = pc[t] /\ inc'[t] = inc[t]
    BY <1>2, <1>8 DEF IncrTID, Goto, EndRequest, Answer
  <2> QED
    BY <1>1, <1>8, <2>1, OthersReady
<1> HIDE DEF num, l
<1>9. newTID' = Zero => pc'[s] \in {"incTID", "checkTID", "skipZero"}
  BY <1>1, <1>5, <1>6, <1>7
<1>10. LocalsInv(s)'
  BY <1>1, <1>4, <1>5, <1>6, <1>7 DEF LocalsInv, IncrPcs
<1>11. ASSUME NEW t \in Sessions, t # s PROVE LocalsInv(t)'
  BY <1>8, <1>11 DEF LocalsInv, IncrPcs
<1> QED
  BY <1>3, <1>4, <1>6, <1>9, <1>10, <1>11 DEF NumberInv

\* The UDP thread never touches the counters.
LEMMA UdpNumberStep ==
  ASSUME NumberInv, UdpReceive \/ UdpStep
  PROVE  NumberInv' /\ UNCHANGED <<numVars, requestVars, threadVars, mutex>>
<1>1. UNCHANGED <<numVars, requestVars, threadVars, mutex>>
  BY DEF UdpReceive, UdpStep, AddUser, Register, Unregister, Validate
<1> QED
  BY <1>1 DEF NumberInv, LocalsInv, numVars, requestVars, threadVars

\* NumberInv is inductive while commits do not overlap.
LEMMA NumberStep ==
  ASSUME TypeInv, OneCommits, NumberInv, [Next]_vars
  PROVE  NumberInv'
<1>1. ASSUME NEW s \in Sessions, ThreadStep(s) \/ Environment(s)
      PROVE  NumberInv'
  BY <1>1, StillStep, IncrVCStep, IncrTIDStep
<1>2. CASE UNCHANGED vars
  BY <1>2 DEF vars, NumberInv, LocalsInv, numVars, requestVars, threadVars
<1> QED
  BY <1>1, <1>2, UdpNumberStep DEF Next

\* Up to the increment of newTID a commit works with one number, which is not
\* 0000.
LEMMA TidReady ==
  ASSUME OneCommits, NumberInv, NEW s \in Sessions, pc[s] \in {"putRids", "incVC", "putTids", "putR2t"}
  PROVE  newTID \in Number \ {Zero}
<1>1. pc[s] \in CommitPcs
  BY DEF CommitPcs
<1>2. \A t \in Sessions : pc[t] \notin {"incTID", "checkTID", "skipZero"}
  BY <1>1, OthersReady DEF IncrPcs
<1> QED
  BY <1>2 DEF NumberInv

----------------------------------------------------------------------------
\* Users outside the list

\* addUser finds nothing of the user: nobody is logged in as it, and it has no
\* request and no TID.
NewUserInv ==
  \A u \in Users : u \notin known =>
    ~isLogged[u] /\ rids[u] = newMap /\ r2t[u] = newMap /\ tids[u] = newMap

\* LOG and the end of a connection are what changes isLogged on a TCP thread,
\* for the user of the message.
LEMMA LoginChange ==
  ASSUME TypeInv, NEW s \in Sessions, ThreadStep(s) \/ Environment(s), NEW u \in Users
  PROVE  isLogged'[u] = isLogged[u] \/ ((Login(s) \/ Disconnect(s)) /\ u = req[s].uid)
<1>1. CASE Login(s) \/ Disconnect(s)
  BY <1>1 DEF Login, Disconnect, TypeInv, TypeOK
<1>2. CASE ~(Login(s) \/ Disconnect(s))
  <2>1. isLogged' = isLogged
    BY <1>2 DEF ThreadStep, Environment, Commit, Malformed, Authenticate, RefuseRequest,
       SendVLC, RetransmitVLC, GiveUpVLC, PutRids, IncrVC, PutTids, PutR2t, IncrTID, CheckTID,
       Accept, Receive, ReceiveEof, ReceiveError, ReceiveRVC, ReceiveRefusal
  <2> QED
    BY <2>1
<1> QED
  BY <1>1, <1>2

\* What a TCP thread does to the maps of a user it does not serve: nothing.
LEMMA OtherUsersMaps ==
  ASSUME SafetyInv, NEW s \in Sessions, ThreadStep(s) \/ Environment(s), NEW u \in Users, u # req[s].uid
  PROVE  SameMaps(u)
<1>1. CASE Authenticate(s)
  BY <1>1, AutMaps DEF SafetyInv
<1>2. CASE PutRids(s) \/ PutTids(s) \/ PutR2t(s)
  BY <1>2, CommitOthers DEF SafetyInv
<1>3. CASE ~(Authenticate(s) \/ PutRids(s) \/ PutTids(s) \/ PutR2t(s))
  BY <1>3, StillMaps DEF SameMaps
<1> QED
  BY <1>1, <1>2, <1>3

\* A thread that changes a map or a login serves a user of the list.
LEMMA ServedKnown ==
  ASSUME TypeInv, NEW s \in Sessions,
         Login(s) \/ Disconnect(s) \/ Authenticate(s) \/ PutRids(s) \/ PutTids(s) \/ PutR2t(s)
  PROVE  req[s].uid \in known
<1>1. pc[s] = "lockUser" \/ pc[s] \in HoldingPcs
  BY DEF Login, Disconnect, Authenticate, PutRids, PutTids, PutR2t, CanLock, HoldingPcs, CommitPcs
<1> QED
  BY <1>1 DEF TypeInv, ReqInv

\* Nothing is stored for a user before it is in the list.
LEMMA NewUserStep ==
  ASSUME SafetyInv, NewUserInv, [Next]_vars
  PROVE  NewUserInv'
<1> USE DEF SafetyInv
<1>1. ASSUME NEW s \in Sessions, ThreadStep(s) \/ Environment(s)
      PROVE  NewUserInv'
  <2>1. known' = known
    BY <1>1, TcpKeepsUdpInv DEF TypeInv, listVars
  <2> SUFFICES ASSUME NEW u \in Users, u \notin known
               PROVE  isLogged'[u] = isLogged[u] /\ SameMaps(u)
    BY <2>1 DEF NewUserInv, SameMaps
  <2>2. isLogged'[u] = isLogged[u]
    BY <1>1, LoginChange, ServedKnown
  <2>3. SameMaps(u)
    <3>1. CASE u # req[s].uid
      BY <1>1, <3>1, OtherUsersMaps
    <3>2. CASE u = req[s].uid
      BY <1>1, <3>2, ServedKnown, StillMaps DEF SameMaps
    <3> QED
      BY <3>1, <3>2
  <2> QED
    BY <2>2, <2>3
<1>2. CASE UdpReceive \/ Register \/ Unregister
  BY <1>2 DEF UdpReceive, Register, Unregister, NewUserInv, listVars, mapVars
<1>3. CASE AddUser
  BY <1>3 DEF AddUser, NewUserInv, TypeInv, TypeOK
<1>4. CASE Validate
  <2>1. tids' = tids /\ rids' = rids /\ r2t' = r2t /\ known' = known
    BY <1>4, ValidateKeepsTids DEF Validate, listVars
  <2>2. \A u \in Users : isLogged'[u] => isLogged[u]
    BY <1>4 DEF Validate, TypeInv, TypeOK
  <2> QED
    BY <2>1, <2>2 DEF NewUserInv
<1>5. CASE UNCHANGED vars
  BY <1>5 DEF vars, NewUserInv, listVars, mapVars
<1> QED
  BY <1>1, <1>2, <1>3, <1>4, <1>5 DEF Next, UdpStep

----------------------------------------------------------------------------
\* Codes and TIDs in the maps

\* A stored code is a number, a stored TID one that is not 0000, and a request
\* has the TID that is alive.
UserStored(u) ==
  /\ rids[u] # newMap => Head(rids[u]).value \in Number
  /\ tids[u] # newMap => Head(tids[u]).key \in Number \ {Zero}
  /\ r2t[u] # newMap => tids[u] # newMap /\ Head(r2t[u]).value = Head(tids[u]).key

\* The thread that is about to store a TID in r2t will read the same number in
\* newTID that it stored in tids.
ThreadStored(s) ==
  pc[s] = "putR2t" => tids[req[s].uid] # newMap /\ Head(tids[req[s].uid]).key = newTID

StoredInv == (\A u \in Users : UserStored(u)) /\ (\A s \in Sessions : ThreadStored(s))

\* Users whose maps do not change.
LEMMA StoredFrame ==
  ASSUME NEW u \in Users, UserStored(u), SameMaps(u)
  PROVE  UserStored(u)'
BY DEF UserStored, SameMaps

\* What each statement stores for the user it serves.
LEMMA UserStoredStep ==
  ASSUME SafetyInv, OneCommits, NumberInv, StoredInv, NEW s \in Sessions,
         ThreadStep(s) \/ Environment(s), NEW u \in Users
  PROVE  UserStored(u)'
<1> USE DEF SafetyInv
<1>0. UserStored(u) /\ UserInStep(u) /\ newVC \in Number
  BY DEF StoredInv, MapsInStep, NumberInv
<1>1. CASE u # req[s].uid
  BY <1>0, <1>1, OtherUsersMaps, StoredFrame
<1>2. CASE u = req[s].uid /\ Authenticate(s)
  <2>1. CASE SameMaps(u)
    BY <1>0, <2>1, StoredFrame
  <2>2. CASE rids'[u] = newMap /\ r2t'[u] = newMap /\ tids'[u] = tids[u]
    BY <1>0, <2>2 DEF UserStored
  <2> QED
    BY <1>2, <2>1, <2>2, AutMaps
<1>3. CASE u = req[s].uid /\ PutRids(s)
  <2>1. rids'[u] = put(newMap, req[s].rid, newVC) /\ r2t'[u] = newMap /\ tids'[u] = newMap
    BY <1>3, CommitMaps
  <2>2. Head(rids'[u]).value = newVC
    BY <2>1, AtMostOnePut
  <2> QED
    BY <1>0, <2>1, <2>2 DEF UserStored
<1>4. CASE u = req[s].uid /\ PutTids(s)
  <2>1. /\ tids'[u] = put(newMap, newTID, req[s].fop) /\ rids'[u] = rids[u] /\ r2t'[u] = r2t[u]
        /\ CommitOf(u) = "rids"
    BY <1>4, CommitMaps
  <2>2. Head(tids'[u]).key = newTID /\ r2t[u] = newMap
    BY <1>0, <2>1, AtMostOnePut DEF UserInStep
  <2>3. newTID \in Number \ {Zero}
    BY <1>4, TidReady DEF PutTids
  <2> QED
    BY <1>0, <2>1, <2>2, <2>3 DEF UserStored
<1>5. CASE u = req[s].uid /\ PutR2t(s)
  <2>1. r2t'[u] = put(newMap, req[s].rid, newTID) /\ rids'[u] = rids[u] /\ tids'[u] = tids[u]
    BY <1>5, CommitMaps
  <2>2. Head(r2t'[u]).value = newTID
    BY <2>1, AtMostOnePut
  <2>3. tids[u] # newMap /\ Head(tids[u]).key = newTID
    BY <1>5 DEF StoredInv, ThreadStored, PutR2t
  <2> QED
    BY <1>0, <2>1, <2>2, <2>3 DEF UserStored
<1>6. CASE ~(Authenticate(s) \/ PutRids(s) \/ PutTids(s) \/ PutR2t(s))
  BY <1>0, <1>6, StillMaps, StoredFrame DEF SameMaps
<1> QED
  BY <1>1, <1>2, <1>3, <1>4, <1>5, <1>6

\* The statement before put(r2t, ...) is put(tids, ...).
LEMMA BeforePutR2t ==
  ASSUME TypeInv, NEW s \in Sessions, ThreadStep(s) \/ Environment(s), pc'[s] = "putR2t"
  PROVE  PutTids(s)
<1> USE DEF TypeInv, TypeOK, Goto, Answer, CanLock, EndRequest, threadVars
<1>1. CASE ThreadStep(s)
  BY <1>1 DEF ThreadStep, Commit, Disconnect, Malformed, Login, Authenticate, RefuseRequest,
     SendVLC, RetransmitVLC, GiveUpVLC, PutRids, IncrVC, PutR2t, IncrTID, CheckTID
<1>2. CASE Environment(s)
  BY <1>2 DEF Environment, Accept, Receive, ReceiveEof, ReceiveError, ReceiveRVC, ReceiveRefusal
<1> QED
  BY <1>1, <1>2

\* Nobody comes between put(tids, newTID) and put(r2t, newTID).
LEMMA ThreadStoredStep ==
  ASSUME SafetyInv, OneCommits, StoredInv, NEW s \in Sessions,
         ThreadStep(s) \/ Environment(s), NEW t \in Sessions
  PROVE  ThreadStored(t)'
<1> USE DEF SafetyInv
<1> SUFFICES ASSUME pc'[t] = "putR2t"
             PROVE  tids'[req'[t].uid] # newMap /\ Head(tids'[req'[t].uid]).key = newTID'
  BY DEF ThreadStored
<1>1. CASE t = s
  <2>1. PutTids(s)
    BY <1>1, BeforePutR2t
  <2>2. PICK u \in Users : u = req[s].uid
    BY <2>1, CommitHolds DEF PutTids, CommitPcs
  <2>3. tids'[u] = put(newMap, newTID, req[s].fop)
    BY <2>1, <2>2, CommitMaps
  <2>4. req' = req /\ newTID' = newTID
    BY <2>1 DEF PutTids, numVars
  <2> QED
    BY <1>1, <2>2, <2>3, <2>4, AtMostOnePut
<1>2. CASE t # s
  <2>1. pc[t] = "putR2t" /\ req'[t] = req[t]
    BY <1>2, ThreadFrame
  <2>2. pc[s] \notin CommitPcs
    BY <1>2, <2>1 DEF OneCommits, CommitPcs
  <2>3. ~(PutRids(s) \/ PutTids(s) \/ PutR2t(s) \/ IncrVC(s) \/ IncrTID(s))
    BY <2>2 DEF PutRids, PutTids, PutR2t, IncrVC, IncrTID, CommitPcs
  <2>4. tids' = tids /\ newTID' = newTID
    BY <2>3, StillMaps, StillNumbers DEF Authenticate
  <2> QED
    BY <2>1, <2>4 DEF StoredInv, ThreadStored
<1> QED
  BY <1>1, <1>2

\* The UDP thread stores no code and no TID; addUser empties the maps of a user
\* for whom nothing is under way.
LEMMA UdpStoredStep ==
  ASSUME SafetyInv, NewUserInv, StoredInv, UdpReceive \/ UdpStep
  PROVE  StoredInv' /\ \A u \in Users : SameMaps(u)
<1> USE DEF SafetyInv
<1>1. \A u \in Users : SameMaps(u)
  <2>1. CASE UdpReceive \/ Register \/ Unregister
    BY <2>1 DEF UdpReceive, Register, Unregister, mapVars, SameMaps
  <2>2. CASE AddUser
    BY <2>2 DEF AddUser, NewUserInv, SameMaps, TypeInv, TypeOK, UdpInv
  <2>3. CASE Validate
    BY <2>3, ValidateKeepsTids DEF Validate, SameMaps
  <2> QED
    BY <2>1, <2>2, <2>3 DEF UdpStep
<1>2. \A u \in Users : UserStored(u)'
  BY <1>1, StoredFrame DEF StoredInv
<1>3. pc' = pc /\ req' = req /\ newTID' = newTID
  BY DEF UdpReceive, UdpStep, AddUser, Register, Unregister, Validate, threadVars, numVars
<1>4. ASSUME NEW s \in Sessions PROVE ThreadStored(s)'
  <2> SUFFICES ASSUME pc[s] = "putR2t"
               PROVE  tids'[req[s].uid] # newMap /\ Head(tids'[req[s].uid]).key = newTID
    BY <1>3 DEF ThreadStored
  <2>1. req[s].uid \in Users
    BY CommitHolds DEF CommitPcs
  <2>2. tids'[req[s].uid] = tids[req[s].uid]
    BY <1>1, <2>1 DEF SameMaps
  <2> QED
    BY <2>2 DEF StoredInv, ThreadStored
<1> QED
  BY <1>1, <1>2, <1>4 DEF StoredInv

----------------------------------------------------------------------------
\* The inductive invariant of the tickets

TicketInv == SafetyInv /\ NewUserInv /\ NumberInv /\ StoredInv

\* Nothing is stored and the counters have their first values.
LEMMA InitTicket == Init => TicketInv
<1> SUFFICES ASSUME Init PROVE TicketInv
  OBVIOUS
<1>1. SafetyInv /\ NumberInv
  BY InitSafety, InitNumber
<1>2. NewUserInv /\ StoredInv
  BY DEF Init, NewUserInv, StoredInv, UserStored, ThreadStored
<1> QED
  BY <1>1, <1>2 DEF TicketInv

\* TicketInv is inductive while commits do not overlap.
LEMMA TicketStep ==
  ASSUME TicketInv, OneCommits, [Next]_vars
  PROVE  TicketInv'
<1> USE DEF TicketInv
<1>1. SafetyInv' /\ NewUserInv' /\ NumberInv'
  BY NextSafety, NewUserStep, NumberStep DEF SafetyInv
<1>2. ASSUME NEW s \in Sessions, ThreadStep(s) \/ Environment(s) PROVE StoredInv'
  BY <1>2, UserStoredStep, ThreadStoredStep DEF StoredInv
<1>3. ASSUME UdpReceive \/ UdpStep PROVE StoredInv'
  BY <1>3, UdpStoredStep
<1>4. ASSUME UNCHANGED vars PROVE StoredInv'
  BY <1>4 DEF vars, StoredInv, UserStored, ThreadStored, mapVars, numVars, threadVars
<1> QED
  BY <1>1, <1>2, <1>3, <1>4 DEF Next

\* While no two commits overlap, the counters and the three maps hold the codes
\* and TIDs that they should.
THEOREM TicketsInvariant == Spec /\ []OneCommits => []TicketInv
<1>1. Init => TicketInv
  BY InitTicket
<1>2. TicketInv /\ OneCommits /\ [Next]_vars => TicketInv'
  BY TicketStep
<1> QED
  BY <1>1, <1>2, PTL DEF Spec

\* The TID that AUT answers is one that VLD confirms: r2t and tids agree, for
\* every user and whatever else the AS does, unless two commits overlap.
THEOREM TicketsKnown == Spec /\ []OneCommits => []TicketKnown
<1>1. TicketInv => TicketKnown
  <2> SUFFICES ASSUME TicketInv, NEW u \in Users, NEW i \in DOMAIN r2t[u]
               PROVE  HasKey(tids[u], r2t[u][i].value)
    BY DEF TicketKnown
  <2>1. AtMostOne(r2t[u]) /\ AtMostOne(tids[u]) /\ UserStored(u)
    BY DEF TicketInv, SafetyInv, MapsInStep, UserInStep, StoredInv
  <2>2. r2t[u] # newMap /\ r2t[u][i] = Head(r2t[u])
    BY <2>1, AtMostOneIndex
  <2> QED
    BY <2>1, <2>2, AtMostOneKey DEF UserStored
<1> QED
  BY <1>1, TicketsInvariant, PTL

\* No request gets TID 0000, which AUT answers for a failure: the number is
\* skipped in time, unless another commit reads it before.
THEOREM TidsNotZero == Spec /\ []OneCommits => []NoZeroTid
<1>1. TicketInv => NoZeroTid
  <2> SUFFICES ASSUME TicketInv, NEW u \in Users, NEW i \in DOMAIN r2t[u]
               PROVE  r2t[u][i].value # Zero
    BY DEF NoZeroTid
  <2>1. AtMostOne(r2t[u]) /\ UserStored(u)
    BY DEF TicketInv, SafetyInv, MapsInStep, UserInStep, StoredInv
  <2>2. r2t[u] # newMap /\ r2t[u][i] = Head(r2t[u])
    BY <2>1, AtMostOneIndex
  <2> QED
    BY <2>1, <2>2 DEF UserStored
<1> QED
  BY <1>1, TicketsInvariant, PTL

----------------------------------------------------------------------------
\* The successors, while no two commits overlap

\* Each increment begins with the number that was stored, and has the next one
\* when it is done.
ThreadCount(s) ==
  /\ pc[s] = "incVC" => IncrRel(Head(rids[req[s].uid]).value, newVC, inc[s])
  /\ pc[s] \in CommitPcs \ {"putRids", "incVC"} =>
       IsSuccessor(Head(rids[req[s].uid]).value, newVC)
  /\ pc[s] = "incTID" => IncrRel(Head(r2t[req[s].uid]).value, newTID, inc[s])
  /\ pc[s] \in {"checkTID", "skipZero"} =>
       IsSuccessor(Head(r2t[req[s].uid]).value, newTID)

CountInv == \A s \in Sessions : ThreadCount(s)

\* What the thread in a commit has stored are numbers.
LEMMA StoredNumbers ==
  ASSUME TicketInv, NEW s \in Sessions, NEW u \in Users, u = req[s].uid
  PROVE  /\ pc[s] \in CommitPcs \ {"putRids"} => Head(rids[u]).value \in Number
         /\ pc[s] \in {"incTID", "checkTID", "skipZero"} => Head(r2t[u]).value \in Number
<1>1. UserInStep(u) /\ UserStored(u)
  BY DEF TicketInv, SafetyInv, MapsInStep, StoredInv
<1>2. pc[s] \in CommitPcs => mutex[u] = s /\ s # None
  BY CommitHolds DEF TicketInv, SafetyInv
<1>3. pc[s] \in CommitPcs \ {"putRids"} => rids[u] # newMap
  <2>1. pc[s] \in CommitPcs \ {"putRids"} => CommitOf(u) # "none"
    BY <1>2 DEF CommitOf, CommitPcs
  <2> QED
    BY <1>1, <2>1 DEF UserInStep
<1>4. pc[s] \in {"incTID", "checkTID", "skipZero"} => r2t[u] # newMap
  <2>1. pc[s] \in {"incTID", "checkTID", "skipZero"} => CommitOf(u) = "r2t"
    BY <1>2 DEF CommitOf, CommitPcs
  <2> QED
    BY <1>1, <1>3, <2>1 DEF UserInStep, CommitPcs
<1> QED
  BY <1>1, <1>3, <1>4 DEF UserStored

\* A thread comes to a statement after the first put by the one before it.
LEMMA InsideCommit ==
  ASSUME TypeInv, NEW s \in Sessions, ThreadStep(s) \/ Environment(s), pc'[s] \in CommitPcs \ {"putRids"}
  PROVE  Commit(s) /\ req' = req
<1> USE DEF TypeInv, TypeOK, Goto, Answer, CanLock, EndRequest, threadVars, CommitPcs
<1>1. CASE Commit(s)
  BY <1>1 DEF Commit, PutRids, IncrVC, PutTids, PutR2t, IncrTID, CheckTID
<1>2. CASE ThreadStep(s) /\ ~Commit(s)
  BY <1>2 DEF ThreadStep, Disconnect, Malformed, Login, Authenticate, RefuseRequest,
     SendVLC, RetransmitVLC, GiveUpVLC
<1>3. CASE Environment(s)
  BY <1>3 DEF Environment, Accept, Receive, ReceiveEof, ReceiveError, ReceiveRVC, ReceiveRefusal
<1> QED
  BY <1>1, <1>2, <1>3

\* The thread's own statements.
LEMMA OwnCountStep ==
  ASSUME TicketInv, CountInv, NEW s \in Sessions, ThreadStep(s) \/ Environment(s),
         pc'[s] \in CommitPcs \ {"putRids"}
  PROVE  ThreadCount(s)'
<1> USE DEF TicketInv, SafetyInv
<1>1. Commit(s) /\ req' = req /\ pc[s] \in CommitPcs
  BY InsideCommit DEF Commit, PutRids, IncrVC, PutTids, PutR2t, IncrTID, CheckTID, CommitPcs
<1>2. PICK u \in Users : u = req[s].uid
  BY <1>1, CommitHolds
<1>3. pc \in [Sessions -> Pcs] /\ inc \in [Sessions -> IncrLocals]
  BY DEF TypeInv, TypeOK
<1>4. ThreadCount(s) /\ LocalsInv(s) /\ newVC \in Number /\ newTID \in Number
  BY DEF CountInv, NumberInv
<1>5. CASE PutRids(s)
  <2>1. pc[s] = "putRids" /\ pc'[s] = "incVC" /\ newVC' = newVC /\ inc' = inc /\ inc[s] = StartIncr
    BY <1>3, <1>4, <1>5 DEF PutRids, Goto, numVars, requestVars, LocalsInv, IncrPcs
  <2>2. rids'[u] = put(newMap, req[s].rid, newVC)
    BY <1>2, <1>5, CommitMaps
  <2>3. Head(rids'[u]).value = newVC
    BY <2>2, AtMostOnePut
  <2> QED
    BY <1>1, <1>2, <2>1, <2>3, StartRel DEF ThreadCount
<1>6. CASE IncrVC(s)
  <2> DEFINE orig == Head(rids[u]).value
  <2>1. pc[s] = "incVC" /\ rids' = rids
    BY <1>6 DEF IncrVC, mapVars
  <2>2. /\ newVC' = IncrNumberNum(newVC, inc[s])
        /\ inc'[s] = IncrNumberLocals(newVC, inc[s])
        /\ pc'[s] = IF IncrNumberReturns(inc[s]) THEN "putTids" ELSE "incVC"
    BY <1>3, <1>6, <2>1 DEF IncrVC, Goto
  <2>3. orig \in Number /\ inc[s] \in IncrLocals /\ IncrFits(newVC, inc[s]) /\ IncrRel(orig, newVC, inc[s])
    BY <1>1, <1>2, <1>3, <1>4, <2>1, StoredNumbers DEF ThreadCount, LocalsInv
  <2>4. IF IncrNumberReturns(inc[s]) THEN IsSuccessor(orig, newVC') ELSE IncrRel(orig, newVC', inc'[s])
    BY <1>4, <2>2, <2>3, IncrNumberSucceeds
  <2> QED
    BY <1>1, <1>2, <2>1, <2>2, <2>4 DEF ThreadCount
<1>7. CASE PutTids(s)
  <2>1. pc[s] = "putTids" /\ pc'[s] = "putR2t" /\ newVC' = newVC
    BY <1>3, <1>7 DEF PutTids, Goto, numVars
  <2>2. rids' = rids
    BY <1>7 DEF PutTids
  <2>3. IsSuccessor(Head(rids[u]).value, newVC)
    BY <1>2, <1>4, <2>1 DEF ThreadCount, CommitPcs
  <2> QED
    BY <1>1, <1>2, <2>1, <2>2, <2>3 DEF ThreadCount
<1>8. CASE PutR2t(s)
  <2>1. /\ pc[s] = "putR2t" /\ pc'[s] = "incTID" /\ rids' = rids
        /\ newVC' = newVC /\ newTID' = newTID /\ inc' = inc /\ inc[s] = StartIncr
    BY <1>3, <1>4, <1>8 DEF PutR2t, Goto, numVars, requestVars, LocalsInv, IncrPcs
  <2>2. r2t'[u] = put(newMap, req[s].rid, newTID)
    BY <1>2, <1>8, CommitMaps
  <2>3. Head(r2t'[u]).value = newTID
    BY <2>2, AtMostOnePut
  <2>4. IsSuccessor(Head(rids[u]).value, newVC)
    BY <1>2, <1>4, <2>1 DEF ThreadCount, CommitPcs
  <2> QED
    BY <1>1, <1>2, <2>1, <2>3, <2>4, StartRel DEF ThreadCount
<1>9. CASE IncrTID(s)
  <2> DEFINE orig == Head(r2t[u]).value
  <2>1. pc[s] \in {"incTID", "skipZero"} /\ rids' = rids /\ r2t' = r2t /\ newVC' = newVC
    BY <1>9 DEF IncrTID, mapVars
  <2>2. /\ newTID' = IncrNumberNum(newTID, inc[s])
        /\ inc'[s] = IncrNumberLocals(newTID, inc[s])
        /\ pc'[s] = IF ~IncrNumberReturns(inc[s]) THEN pc[s] ELSE IF pc[s] = "incTID" THEN "checkTID" ELSE "recv"
    BY <1>3, <1>9, <2>1 DEF IncrTID, Goto, EndRequest, Answer
  <2>3. orig \in Number /\ inc[s] \in IncrLocals /\ IncrFits(newTID, inc[s])
    BY <1>2, <1>3, <1>4, <2>1, StoredNumbers DEF LocalsInv
  <2>4. IsSuccessor(Head(rids[u]).value, newVC)
    BY <1>2, <1>4, <2>1 DEF ThreadCount, CommitPcs
  <2>5. CASE pc[s] = "incTID"
    <3>1. IncrRel(orig, newTID, inc[s])
      BY <1>2, <1>4, <2>5 DEF ThreadCount
    <3>2. IF IncrNumberReturns(inc[s]) THEN IsSuccessor(orig, newTID') ELSE IncrRel(orig, newTID', inc'[s])
      BY <1>4, <2>2, <2>3, <3>1, IncrNumberSucceeds
    <3> QED
      BY <1>1, <1>2, <2>1, <2>2, <2>4, <2>5, <3>2 DEF ThreadCount
  <2>6. CASE pc[s] = "skipZero"
    <3>1. newTID = Zero /\ AtLastDigit(inc[s]) /\ IsSuccessor(orig, newTID)
      BY <1>2, <1>4, <2>6 DEF LocalsInv, ThreadCount
    <3>2. ~IncrNumberReturns(inc[s]) /\ pc'[s] = "skipZero"
      BY <2>2, <2>6 DEF CommitPcs
    <3>3. newTID' = newTID
      BY <2>2, <2>3, <3>1, <3>2, SkipZero
    <3> QED
      BY <1>1, <1>2, <2>1, <2>4, <3>1, <3>2, <3>3 DEF ThreadCount
  <2> QED
    BY <2>1, <2>5, <2>6
<1>10. CASE CheckTID(s)
  <2>1. pc[s] = "checkTID" /\ rids' = rids /\ r2t' = r2t /\ newVC' = newVC /\ newTID' = newTID
    BY <1>10 DEF CheckTID, mapVars, numVars
  <2>2. pc'[s] = "skipZero"
    BY <1>3, <1>10 DEF CheckTID, Goto, EndRequest, Answer, CommitPcs
  <2>3. IsSuccessor(Head(rids[u]).value, newVC) /\ IsSuccessor(Head(r2t[u]).value, newTID)
    BY <1>2, <1>4, <2>1 DEF ThreadCount, CommitPcs
  <2> QED
    BY <1>1, <1>2, <2>1, <2>2, <2>3 DEF ThreadCount
<1> QED
  BY <1>1, <1>5, <1>6, <1>7, <1>8, <1>9, <1>10 DEF Commit

\* Threads that are in a commit when another one moves.
LEMMA OthersCountStep ==
  ASSUME TicketInv, OneCommits, CountInv, NEW s \in Sessions, ThreadStep(s) \/ Environment(s),
         NEW t \in Sessions, t # s, pc[t] \in CommitPcs
  PROVE  ThreadCount(t)'
<1> USE DEF TicketInv, SafetyInv
<1>1. pc'[t] = pc[t] /\ req'[t] = req[t] /\ pc[s] \notin CommitPcs
  BY ThreadFrame DEF OneCommits
<1>2. PICK u \in Users : u = req[t].uid
  BY CommitHolds
<1>3. ~(PutRids(s) \/ PutTids(s) \/ PutR2t(s) \/ IncrVC(s) \/ IncrTID(s))
  BY <1>1 DEF PutRids, PutTids, PutR2t, IncrVC, IncrTID, CommitPcs
<1>4. newVC' = newVC /\ newTID' = newTID /\ inc' = inc
  BY <1>3, StillNumbers
<1>5. SameMaps(u)
  <2>1. mutex[u] # None
    BY <1>2, CommitHolds
  <2> QED
    BY <1>3, <2>1, AutMaps, StillMaps DEF SameMaps
<1> QED
  BY <1>1, <1>2, <1>4, <1>5 DEF CountInv, ThreadCount, SameMaps

\* CountInv is inductive under TicketInv while commits do not overlap.
LEMMA CountStep ==
  ASSUME TicketInv, OneCommits, CountInv, [Next]_vars
  PROVE  CountInv'
<1>1. ASSUME NEW s \in Sessions, ThreadStep(s) \/ Environment(s), NEW t \in Sessions
      PROVE  ThreadCount(t)'
  <2>1. CASE pc'[t] \notin CommitPcs \ {"putRids"}
    BY <2>1 DEF ThreadCount, CommitPcs
  <2>2. CASE t = s /\ pc'[t] \in CommitPcs \ {"putRids"}
    BY <1>1, <2>2, OwnCountStep
  <2>3. CASE t # s /\ pc'[t] \in CommitPcs \ {"putRids"}
    <3>1. pc[t] \in CommitPcs
      BY <1>1, <2>3, ThreadFrame DEF TicketInv, SafetyInv
    <3> QED
      BY <1>1, <2>3, <3>1, OthersCountStep
  <2> QED
    BY <2>1, <2>2, <2>3
<1>2. CASE UdpReceive \/ UdpStep
  <2>1. UNCHANGED <<numVars, requestVars, threadVars>> /\ \A u \in Users : SameMaps(u)
    BY <1>2, UdpNumberStep, UdpStoredStep DEF TicketInv
  <2>2. newVC' = newVC /\ newTID' = newTID /\ inc' = inc /\ pc' = pc /\ req' = req
    BY <2>1 DEF numVars, requestVars, threadVars
  <2>3. ASSUME NEW t \in Sessions, pc[t] \in CommitPcs PROVE ThreadCount(t)'
    <3>1. PICK u \in Users : u = req[t].uid
      BY <2>3, CommitHolds DEF TicketInv, SafetyInv
    <3> QED
      BY <2>1, <2>2, <3>1 DEF CountInv, ThreadCount, SameMaps
  <2>4. ASSUME NEW t \in Sessions, pc[t] \notin CommitPcs PROVE ThreadCount(t)'
    BY <2>2, <2>4 DEF ThreadCount, CommitPcs
  <2> QED
    BY <2>3, <2>4 DEF CountInv
<1>3. CASE UNCHANGED vars
  BY <1>3 DEF vars, CountInv, ThreadCount, mapVars, numVars, requestVars, threadVars
<1> QED
  BY <1>1, <1>2, <1>3 DEF Next, CountInv

\* incrNumber counts: for counters of any width and any base, a call moves its
\* counter from the number that the commit stored to the next one, carries
\* included, unless another commit increments it at the same time.
THEOREM CountersCount == Spec /\ []OneCommits => []CountersAdvance
<1>1. Init => CountInv
  BY DEF Init, CountInv, ThreadCount, CommitPcs
<1>2. TicketInv /\ OneCommits /\ CountInv /\ [Next]_vars => CountInv'
  BY CountStep
<1>3. CountInv => CountersAdvance
  BY DEF CountInv, ThreadCount, CountersAdvance
<1> QED
  BY <1>1, <1>2, <1>3, TicketsInvariant, PTL DEF Spec

----------------------------------------------------------------------------
\* The code of a request, while no two REQs overlap

\* From VLC to the first put the code that was sent is the counter's value;
\* then it is the value stored.
ThreadCode(s) ==
  /\ pc[s] \in {"awaitRVC", "putRids"} => vlc[s] = newVC
  /\ pc[s] \in CommitPcs \ {"putRids"} => Head(rids[req[s].uid]).value = vlc[s]

CodeInv == \A s \in Sessions : ThreadCode(s)

\* Commits overlap only when the REQs do.
LEMMA InsideCommits == OneInside => OneCommits
BY DEF OneInside, OneCommits, HoldingPcs

\* The buffer of VLC is the thread's own.
LEMMA VlcFrame ==
  ASSUME TypeInv, NEW s \in Sessions, ThreadStep(s) \/ Environment(s)
  PROVE  /\ \A t \in Sessions : t # s => vlc'[t] = vlc[t]
         /\ ~SendVLC(s) /\ pc'[s] \in HoldingPcs => vlc'[s] = vlc[s]
<1> USE DEF TypeInv, TypeOK, Goto, Answer, EndRequest, requestVars, threadVars, HoldingPcs, CommitPcs
<1>1. CASE SendVLC(s)
  BY <1>1 DEF SendVLC
<1>2. CASE GiveUpVLC(s) \/ ReceiveRefusal(s) \/ IncrTID(s) \/ CheckTID(s)
  BY <1>2 DEF GiveUpVLC, ReceiveRefusal, IncrTID, CheckTID
<1>3. CASE ~(SendVLC(s) \/ GiveUpVLC(s) \/ ReceiveRefusal(s) \/ IncrTID(s) \/ CheckTID(s))
  <2>1. vlc' = vlc
    BY <1>3 DEF ThreadStep, Environment, Commit, Disconnect, Malformed, Login, Authenticate,
       RefuseRequest, RetransmitVLC, PutRids, IncrVC, PutTids, PutR2t,
       Accept, Receive, ReceiveEof, ReceiveError, ReceiveRVC
  <2> QED
    BY <2>1
<1> QED
  BY <1>1, <1>2, <1>3

\* The thread's own statements.
LEMMA OwnCodeStep ==
  ASSUME SafetyInv, CodeInv, NEW s \in Sessions, ThreadStep(s) \/ Environment(s)
  PROVE  ThreadCode(s)'
<1> USE DEF SafetyInv
<1>0. pc \in [Sessions -> Pcs] /\ vlc \in [Sessions -> RacyNumber \cup {None}]
  BY DEF TypeInv, TypeOK
<1>1. CASE SendVLC(s)
  BY <1>0, <1>1 DEF SendVLC, Goto, ThreadCode, CommitPcs, numVars
<1>2. CASE pc'[s] \notin HoldingPcs
  BY <1>2 DEF ThreadCode, HoldingPcs, CommitPcs
<1>3. CASE KeepsLock(s)
  <2>1. req' = req /\ pc[s] \in HoldingPcs /\ ThreadCode(s)
    BY <1>3 DEF KeepsLock, CodeInv
  <2>2. vlc'[s] = vlc[s]
    BY <1>1, <1>3, VlcFrame DEF KeepsLock, SendVLC, CanLock, HoldingPcs, CommitPcs
  <2>3. CASE PutRids(s)
    <3>1. PICK u \in Users : u = req[s].uid
      BY <2>3, CommitHolds DEF PutRids, CommitPcs
    <3>2. rids'[u] = put(newMap, req[s].rid, newVC)
      BY <2>3, <3>1, CommitMaps
    <3>3. Head(rids'[u]).value = newVC
      BY <3>2, AtMostOnePut
    <3>4. pc[s] = "putRids" /\ pc'[s] = "incVC"
      BY <1>0, <2>3 DEF PutRids, Goto
    <3> QED
      BY <2>1, <2>2, <3>1, <3>3, <3>4 DEF ThreadCode
  <2>4. CASE RetransmitVLC(s) \/ ReceiveRVC(s)
    <3>1. pc[s] = "awaitRVC" /\ pc'[s] \in {"awaitRVC", "putRids"} /\ newVC' = newVC
      BY <1>0, <2>4 DEF RetransmitVLC, ReceiveRVC, Goto, threadVars, numVars
    <3> QED
      BY <2>1, <2>2, <3>1 DEF ThreadCode, CommitPcs
  <2>5. CASE IncrVC(s) \/ PutTids(s) \/ PutR2t(s) \/ IncrTID(s) \/ CheckTID(s)
    <3>1. pc[s] \in CommitPcs \ {"putRids"} /\ rids' = rids
      BY <2>5 DEF IncrVC, PutTids, PutR2t, IncrTID, CheckTID, CommitPcs, mapVars
    <3>2. pc'[s] \notin {"awaitRVC", "putRids"}
      BY <1>0, <2>5 DEF IncrVC, PutTids, PutR2t, IncrTID, CheckTID, Goto, EndRequest, Answer
    <3> QED
      BY <2>1, <2>2, <3>1, <3>2 DEF ThreadCode
  <2> QED
    BY <1>2, <1>3, <2>1, <2>3, <2>4, <2>5 DEF KeepsLock, HoldingPcs, CommitPcs, ThreadStep, Environment,
       Commit, Disconnect, Malformed, Login, Authenticate, RefuseRequest, SendVLC, GiveUpVLC, Accept,
       Receive, ReceiveEof, ReceiveError, ReceiveRefusal, CanLock, Goto, Answer, EndRequest, TypeInv, TypeOK
<1> QED
  BY <1>0, <1>1, <1>2, <1>3, LockKinds DEF HoldsNothing, Releases, EndRequest, Answer, HoldingPcs, CommitPcs

\* The other threads' statements, none of which is inside a REQ.
LEMMA OthersCodeStep ==
  ASSUME SafetyInv, OneInside, CodeInv, NEW s \in Sessions, ThreadStep(s) \/ Environment(s),
         NEW t \in Sessions, t # s
  PROVE  ThreadCode(t)'
<1> USE DEF SafetyInv
<1>1. pc'[t] = pc[t] /\ req'[t] = req[t] /\ vlc'[t] = vlc[t]
  BY ThreadFrame, VlcFrame
<1>2. CASE pc[t] \notin HoldingPcs
  BY <1>1, <1>2 DEF ThreadCode, HoldingPcs, CommitPcs
<1>3. CASE pc[t] \in HoldingPcs
  <2>1. pc[s] \notin HoldingPcs
    BY <1>3 DEF OneInside
  <2>2. ~IncrVC(s) /\ ~IncrTID(s) /\ ~PutRids(s) /\ ~PutTids(s) /\ ~PutR2t(s)
    BY <2>1 DEF IncrVC, IncrTID, PutRids, PutTids, PutR2t, HoldingPcs, CommitPcs
  <2>3. newVC' = newVC
    BY <2>2, StillNumbers
  <2>4. PICK u \in Users : u = req[t].uid
    BY <1>3 DEF TypeInv, TypeOK, ReqInv
  <2>5. mutex[u] = t /\ t # None
    BY <1>3, <2>4, ConstantsAssumption DEF LockInv, Holds
  <2>6. SameMaps(u)
    BY <2>2, <2>5, AutMaps, StillMaps DEF SameMaps
  <2> QED
    BY <1>1, <2>3, <2>4, <2>6 DEF CodeInv, ThreadCode, SameMaps
<1> QED
  BY <1>2, <1>3

\* CodeInv is inductive, on top of TicketInv, while no two REQs overlap.
LEMMA CodeStep ==
  ASSUME TicketInv, OneInside, CodeInv, [Next]_vars
  PROVE  CodeInv'
<1> USE DEF TicketInv
<1>1. ASSUME NEW s \in Sessions, ThreadStep(s) \/ Environment(s) PROVE CodeInv'
  BY <1>1, OwnCodeStep, OthersCodeStep DEF CodeInv
<1>2. CASE UdpReceive \/ UdpStep
  <2>1. UNCHANGED <<numVars, requestVars, threadVars, mutex>> /\ \A u \in Users : SameMaps(u)
    BY <1>2, UdpNumberStep, UdpStoredStep
  <2>2. \A s \in Sessions : pc[s] \in CommitPcs => req[s].uid \in Users
    BY CommitHolds DEF SafetyInv
  <2> QED
    BY <2>1, <2>2 DEF CodeInv, ThreadCode, SameMaps, numVars, requestVars, threadVars
<1>3. CASE UNCHANGED vars
  BY <1>3 DEF vars, CodeInv, ThreadCode, mapVars, numVars, requestVars, threadVars
<1> QED
  BY <1>1, <1>2, <1>3 DEF Next

\* The user types in the code its PD showed: it is the one stored for the
\* request, unless two REQs overlap.
THEOREM CodesStored == Spec /\ []OneInside => []CodeStored
<1>1. Init => CodeInv
  BY DEF Init, CodeInv, ThreadCode, CommitPcs
<1>2. TicketInv /\ OneInside /\ CodeInv /\ [Next]_vars => CodeInv'
  BY CodeStep
<1>3. TicketInv /\ CodeInv => CodeStored
  <2> SUFFICES ASSUME TicketInv, CodeInv, NEW s \in Sessions, pc[s] \in CommitPcs \ {"putRids"}
               PROVE  get(rids[req[s].uid], req[s].rid) = vlc[s]
    BY DEF CodeStored
  <2>1. PICK u \in Users : u = req[s].uid
    BY CommitHolds DEF TicketInv, SafetyInv
  <2>2. mutex[u] = s /\ s # None
    BY <2>1, CommitHolds DEF TicketInv, SafetyInv
  <2>3. CommitOf(u) # "none"
    BY <2>2 DEF CommitOf, CommitPcs
  <2>4. AtMostOne(rids[u]) /\ rids[u] # newMap /\ Head(rids[u]).key = req[s].rid
    BY <2>2, <2>3 DEF TicketInv, SafetyInv, MapsInStep, UserInStep
  <2>5. Head(rids[u]).value = vlc[s]
    BY <2>1 DEF CodeInv, ThreadCode
  <2> QED
    BY <2>1, <2>4, <2>5, AtMostOneGet
<1>4. OneInside => OneCommits
  BY InsideCommits
<1> QED
  BY <1>1, <1>2, <1>3, <1>4, TicketsInvariant, PTL DEF Spec

----------------------------------------------------------------------------
\* The abstract tickets

\* The abstract ticket and request of a user stay the same.
SameTicket(u) == ticketOf(u)' = ticketOf(u) /\ pendingOf(u)' = pendingOf(u)

\* They depend on the user's maps, on the place of a commit and, while it is
\* under way, on newTID and on the request.
LEMMA SameTicketFrame ==
  ASSUME NEW u \in Users, SameMaps(u),
         \/ /\ CommitOf(u)' = CommitOf(u)
            /\ CommitOf(u) # "none" => mutex'[u] = mutex[u] /\ req'[mutex[u]] = req[mutex[u]]
            /\ CommitOf(u) \in {"rids", "tids"} => newTID' = newTID
         \/ CommitOf(u) \in {"none", "r2t"} /\ CommitOf(u)' = "none"
  PROVE  SameTicket(u)
BY DEF SameMaps, SameTicket, ticketOf, pendingOf

\* No statement changes newTID while the commit of another thread needs it.
LEMMA TidStays ==
  ASSUME SafetyInv, OneCommits, NumberInv, NEW s \in Sessions, ThreadStep(s) \/ Environment(s),
         NEW u \in Users, CommitOf(u) \in {"rids", "tids"}
  PROVE  newTID' = newTID
<1>1. mutex[u] \in Sessions /\ pc[mutex[u]] \in {"incVC", "putTids", "putR2t"}
  <2>1. mutex[u] # None /\ pc[mutex[u]] \notin {"awaitRVC", "putRids"}
    BY DEF CommitOf
  <2>2. mutex[u] \in Sessions /\ pc[mutex[u]] \in HoldingPcs
    BY <2>1, HolderKnown DEF SafetyInv, Holds
  <2> QED
    BY <2>1, <2>2 DEF CommitOf, HoldingPcs, CommitPcs
<1>2. ~IncrTID(s)
  BY <1>1 DEF OneCommits, IncrTID, CommitPcs
<1>3. IncrVC(s) => newTID' = newTID
  BY DEF IncrVC
<1> QED
  BY <1>2, <1>3, StillNumbers DEF SafetyInv

\* A statement that leaves the maps of a user leaves its ticket and request.
LEMMA SameTicketStep ==
  ASSUME TicketInv, OneCommits, NEW s \in Sessions, ThreadStep(s) \/ Environment(s),
         NEW u \in Users, SameMaps(u),
         PutRids(s) \/ PutTids(s) \/ PutR2t(s) => u # req[s].uid
  PROVE  SameTicket(u)
BY PlaceStep, TidStays, SameTicketFrame DEF TicketInv, SafetyInv

\* The first put of a commit makes ticket and request what the others will
\* complete.
LEMMA GrantTicket ==
  ASSUME TicketInv, OneCommits, NEW s \in Sessions, PutRids(s), NEW u \in Users, u = req[s].uid
  PROVE  /\ ticketOf(u)' = [tid |-> newTID, fop |-> req[s].fop]
         /\ pendingOf(u)' = [rid |-> req[s].rid, vc |-> newVC, tid |-> newTID]
<1> USE DEF TicketInv, SafetyInv
<1>1. mutex'[u] = s /\ req' = req /\ newTID' = newTID
  BY CommitHolds DEF PutRids, CommitPcs, numVars
<1>2. rids'[u] = put(newMap, req[s].rid, newVC) /\ CommitOf(u)' = "rids"
  BY CommitMaps
<1>3. rids'[u] # newMap /\ Head(rids'[u]) = [key |-> req[s].rid, value |-> newVC]
  BY <1>2, AtMostOnePut
<1> QED
  BY <1>1, <1>2, <1>3 DEF ticketOf, pendingOf

\* The other two puts store what the ticket and the request already say.
LEMMA CompleteTicket ==
  ASSUME TicketInv, OneCommits, NEW s \in Sessions, PutTids(s) \/ PutR2t(s), NEW u \in Users, u = req[s].uid
  PROVE  SameTicket(u)
<1> USE DEF TicketInv, SafetyInv
<1>1. mutex[u] = s /\ mutex' = mutex /\ req' = req /\ newTID' = newTID
  BY CommitHolds DEF PutTids, PutR2t, CommitPcs, numVars
<1>2. CASE PutTids(s)
  <2>1. /\ tids'[u] = put(newMap, newTID, req[s].fop) /\ rids'[u] = rids[u]
        /\ CommitOf(u) = "rids" /\ CommitOf(u)' = "tids"
    BY <1>2, CommitMaps
  <2>2. tids'[u] # newMap /\ Head(tids'[u]) = [key |-> newTID, value |-> req[s].fop]
    BY <2>1, AtMostOnePut
  <2> QED
    BY <1>1, <2>1, <2>2 DEF SameTicket, ticketOf, pendingOf
<1>3. CASE PutR2t(s)
  <2>1. /\ r2t'[u] = put(newMap, req[s].rid, newTID) /\ rids'[u] = rids[u] /\ tids'[u] = tids[u]
        /\ CommitOf(u) = "tids" /\ CommitOf(u)' = "r2t"
    BY <1>3, CommitMaps
  <2>2. r2t'[u] # newMap /\ Head(r2t'[u]) = [key |-> req[s].rid, value |-> newTID]
    BY <2>1, AtMostOnePut
  <2> QED
    BY <1>1, <2>1, <2>2 DEF SameTicket, ticketOf, pendingOf
<1> QED
  BY <1>2, <1>3

\* A request that AUT can spend is not None.
LEMMA PendingType ==
  ASSUME TicketInv, NEW u \in Users, rids[u] # newMap, CommitOf(u) = "none"
  PROVE  pendingOf(u) # None
<1> USE DEF TicketInv, SafetyInv
<1>1. UserStored(u) /\ UserInStep(u) /\ rids[u] \in MapOf(Rids, RacyNumber)
  BY DEF StoredInv, MapsInStep, TypeInv, TypeOK
<1>2. Head(rids[u]).key \in Rids
  BY <1>1, HeadType
<1>3. Head(rids[u]).value \in Number /\ Head(r2t[u]).value \in Number \ {Zero}
  BY <1>1 DEF UserStored, UserInStep
<1>4. pendingOf(u) \in TicketService!Pending
  BY <1>2, <1>3 DEF pendingOf, TicketService!Pending
<1> QED
  BY <1>4, TicketAssumption

\* When no ticket, no request and no login changes, nothing happens in the
\* abstract service.
LEMMA TicketStutter ==
  ASSUME isLogged' = isLogged, \A u \in Users : SameTicket(u)
  PROVE  UNCHANGED TicketService!tvars
BY DEF SameTicket, TicketService!tvars

\* LOG logs the user in, or does nothing; the end of a connection logs it out.
LEMMA LoginTicketStep ==
  ASSUME TicketInv, OneCommits, NEW s \in Sessions, Login(s) \/ Disconnect(s)
  PROVE  [TicketService!Next]_(TicketService!tvars)
<1>u. PICK u \in Users : u = req[s].uid
  BY DEF Login, Disconnect, CanLock, TicketInv, SafetyInv, TypeInv, TypeOK, ReqInv
<1>0. isLogged \in [Users -> BOOLEAN]
  BY DEF TicketInv, SafetyInv, TypeInv, TypeOK
<1>1. \A v \in Users : SameTicket(v)
  <2>1. ~(Authenticate(s) \/ PutRids(s) \/ PutTids(s) \/ PutR2t(s))
    BY DEF Login, Disconnect, CanLock, Authenticate, PutRids, PutTids, PutR2t
  <2>2. \A v \in Users : SameMaps(v)
    BY <2>1, StillMaps DEF SameMaps, ThreadStep
  <2> QED
    BY <2>1, <2>2, SameTicketStep DEF ThreadStep
<1>2. CASE isLogged' = isLogged
  BY <1>1, <1>2, TicketStutter
<1>3. CASE Login(s) /\ isLogged' # isLogged
  <2> DEFINE ok == ~isLogged[u] /\ req[s].pw = pw[u]
  <2>1. isLogged' = [isLogged EXCEPT ![u] = isLogged[u] \/ ok]
    BY <1>u, <1>3 DEF Login
  <2>2. CASE ~ok
    <3>1. isLogged' = isLogged
      BY <1>0, <2>1, <2>2
    <3> QED
      BY <1>3, <3>1
  <2>3. CASE ok
    <3>1. ~isLogged[u] /\ isLogged' = [isLogged EXCEPT ![u] = TRUE]
      BY <2>1, <2>3
    <3>2. TicketService!LogIn(u)
      BY <1>1, <3>1 DEF TicketService!LogIn, SameTicket
    <3> QED
      BY <3>2 DEF TicketService!Next
  <2> QED
    BY <2>2, <2>3
<1>4. CASE Disconnect(s)
  <2>1. TicketService!LogOut(u)
    BY <1>u, <1>1, <1>4 DEF Disconnect, TicketService!LogOut, SameTicket
  <2> QED
    BY <2>1 DEF TicketService!Next
<1> QED
  BY <1>2, <1>3, <1>4

\* AUT spends the request, or does nothing.
LEMMA AutTicketStep ==
  ASSUME TicketInv, OneCommits, NEW s \in Sessions, Authenticate(s)
  PROVE  [TicketService!Next]_(TicketService!tvars)
<1> USE DEF TicketInv, SafetyInv
<1>1. isLogged' = isLogged /\ mutex' = mutex
  BY DEF Authenticate
<1>2. ~(PutRids(s) \/ PutTids(s) \/ PutR2t(s))
  BY DEF Authenticate, CanLock, PutRids, PutTids, PutR2t
<1>3. \A v \in Users : SameMaps(v) => SameTicket(v)
  BY <1>2, SameTicketStep DEF ThreadStep
<1>4. CASE \A v \in Users : SameMaps(v)
  BY <1>1, <1>3, <1>4, TicketStutter
<1>5. ASSUME NEW u \in Users, ~SameMaps(u)
      PROVE  TicketService!Next
  <2>1. /\ u = req[s].uid /\ mutex[u] = None
        /\ rids[u] # newMap /\ rids'[u] = newMap /\ r2t'[u] = newMap /\ tids'[u] = tids[u]
    BY <1>5, AutMaps
  <2>2. CommitOf(u) = "none" /\ CommitOf(u)' = "none"
    BY <1>1, <2>1 DEF CommitOf
  <2>3. pendingOf(u)' = None /\ ticketOf(u)' = ticketOf(u)
    BY <2>1, <2>2 DEF pendingOf, ticketOf
  <2>4. pendingOf(u) # None
    BY <2>1, <2>2, PendingType
  <2>5. \A v \in Users : v # u => SameTicket(v)
    BY <1>3, <2>1, AutMaps
  <2>6. [v \in Users |-> pendingOf(v)]' = [[v \in Users |-> pendingOf(v)] EXCEPT ![u] = None]
    BY <2>3, <2>5 DEF SameTicket
  <2>7. [v \in Users |-> ticketOf(v)]' = [v \in Users |-> ticketOf(v)]
    BY <2>3, <2>5 DEF SameTicket
  <2>8. TicketService!Spend(u)
    BY <1>1, <2>4, <2>6, <2>7 DEF TicketService!Spend
  <2> QED
    BY <2>8 DEF TicketService!Next
<1> QED
  BY <1>4, <1>5

\* The first put of the commit grants the request, the other two are part of it.
LEMMA CommitTicketStep ==
  ASSUME TicketInv, OneCommits, NEW s \in Sessions, PutRids(s) \/ PutTids(s) \/ PutR2t(s)
  PROVE  [TicketService!Next]_(TicketService!tvars)
<1> USE DEF TicketInv, SafetyInv
<1>0. pc[s] \in {"putRids", "putTids", "putR2t"} /\ pc[s] \in CommitPcs /\ isLogged' = isLogged
  BY DEF PutRids, PutTids, PutR2t, CommitPcs
<1>u. PICK u \in Users : u = req[s].uid
  BY <1>0, CommitHolds
<1>1. \A v \in Users : v # u => SameTicket(v)
  BY <1>u, CommitOthers, SameTicketStep DEF ThreadStep, Commit
<1>2. CASE PutTids(s) \/ PutR2t(s)
  <2>1. SameTicket(u)
    BY <1>u, <1>2, CompleteTicket
  <2> QED
    BY <1>0, <1>1, <2>1, TicketStutter
<1>3. CASE PutRids(s)
  <2>1. PICK rid, fop : rid = req[s].rid /\ fop = req[s].fop
    OBVIOUS
  <2>2. /\ ticketOf(u)' = [tid |-> newTID, fop |-> fop]
        /\ pendingOf(u)' = [rid |-> rid, vc |-> newVC, tid |-> newTID]
    BY <1>u, <1>3, <2>1, GrantTicket
  <2>3. [v \in Users |-> ticketOf(v)]' =
          [[v \in Users |-> ticketOf(v)] EXCEPT ![u] = [tid |-> newTID, fop |-> fop]]
    BY <1>1, <2>2 DEF SameTicket
  <2>4. [v \in Users |-> pendingOf(v)]' =
          [[v \in Users |-> pendingOf(v)] EXCEPT ![u] = [rid |-> rid, vc |-> newVC, tid |-> newTID]]
    BY <1>1, <2>2 DEF SameTicket
  <2>5. isLogged[u]
    BY <1>u, <1>0 DEF RequestStillValid, RequestValid, HoldingPcs
  <2>6. rid \in Rids /\ fop \in Fops
    BY <1>0, <2>1 DEF TypeInv, ReqInv, ReqMsg, HoldingPcs
  <2>7. newTID \in Number \ {Zero} /\ newVC \in Number
    BY <1>0, TidReady DEF NumberInv
  <2>8. TicketService!Grant(u, rid, newVC, newTID, fop)
    BY <1>0, <2>3, <2>4, <2>5 DEF TicketService!Grant
  <2> QED
    BY <2>6, <2>7, <2>8 DEF TicketService!Next
<1> QED
  BY <1>2, <1>3

\* The UDP thread logs users out when it confirms an X, and leaves tickets and
\* requests alone.
LEMMA UdpTicketStep ==
  ASSUME TicketInv, UdpReceive \/ UdpStep
  PROVE  [TicketService!Next]_(TicketService!tvars)
<1> USE DEF TicketInv, SafetyInv
<1>0. isLogged \in [Users -> BOOLEAN]
  BY DEF TypeInv, TypeOK
<1>1. \A v \in Users : SameTicket(v)
  <2>1. UNCHANGED <<numVars, requestVars, threadVars, mutex>> /\ \A v \in Users : SameMaps(v)
    BY UdpNumberStep, UdpStoredStep
  <2>2. newTID' = newTID /\ mutex' = mutex /\ pc' = pc /\ req' = req
    BY <2>1 DEF numVars, threadVars
  <2>3. \A v \in Users : CommitOf(v)' = CommitOf(v)
    BY <2>2 DEF CommitOf
  <2> QED
    BY <2>1, <2>2, <2>3, SameTicketFrame
<1>2. CASE UdpReceive \/ Register \/ Unregister
  BY <1>1, <1>2, TicketStutter DEF UdpReceive, Register, Unregister
<1>3. CASE AddUser
  <2>1. udpReq.uid \in Users /\ ~isLogged[udpReq.uid] /\ isLogged' = [isLogged EXCEPT ![udpReq.uid] = FALSE]
    BY <1>3 DEF AddUser, NewUserInv, TypeInv, UdpInv, RegMsg
  <2>2. isLogged' = isLogged
    BY <1>0, <2>1
  <2> QED
    BY <1>1, <2>2, TicketStutter
<1>4. CASE Validate
  <2>1. PICK u \in Users : u = udpReq.uid
    BY <1>4, DatagramTypes DEF Validate, UdpCanLock, TypeInv, UdpInv
  <2>2. isLogged' = isLogged \/ isLogged' = [isLogged EXCEPT ![u] = FALSE]
    BY <1>0, <1>4, <2>1 DEF Validate
  <2>3. CASE isLogged' = [isLogged EXCEPT ![u] = FALSE]
    <3>1. TicketService!LogOut(u)
      BY <1>1, <2>3 DEF TicketService!LogOut, SameTicket
    <3> QED
      BY <3>1 DEF TicketService!Next
  <2> QED
    BY <1>1, <2>2, <2>3, TicketStutter
<1> QED
  BY <1>2, <1>3, <1>4 DEF UdpStep

\* Every step of the AS is one of the abstract service, or none.
LEMMA ServiceStep ==
  ASSUME TicketInv, OneCommits, [Next]_vars
  PROVE  [TicketService!Next]_(TicketService!tvars)
<1>1. ASSUME NEW s \in Sessions, ThreadStep(s) \/ Environment(s)
      PROVE  [TicketService!Next]_(TicketService!tvars)
  <2>1. CASE Login(s) \/ Disconnect(s)
    BY <2>1, LoginTicketStep
  <2>2. CASE Authenticate(s)
    BY <2>2, AutTicketStep
  <2>3. CASE PutRids(s) \/ PutTids(s) \/ PutR2t(s)
    BY <2>3, CommitTicketStep
  <2>4. CASE ~(Login(s) \/ Disconnect(s) \/ Authenticate(s) \/ PutRids(s) \/ PutTids(s) \/ PutR2t(s))
    <3>1. \A v \in Users : SameMaps(v)
      BY <1>1, <2>4, StillMaps DEF SameMaps
    <3>2. \A v \in Users : SameTicket(v)
      BY <1>1, <2>4, <3>1, SameTicketStep
    <3>3. isLogged' = isLogged
      BY <1>1, <2>4 DEF ThreadStep, Environment, Commit, Malformed, RefuseRequest,
         SendVLC, RetransmitVLC, GiveUpVLC, IncrVC, IncrTID, CheckTID,
         Accept, Receive, ReceiveEof, ReceiveError, ReceiveRVC, ReceiveRefusal
    <3> QED
      BY <3>2, <3>3, TicketStutter
  <2> QED
    BY <2>1, <2>2, <2>3, <2>4
<1>2. CASE UdpReceive \/ UdpStep
  BY <1>2, UdpTicketStep
<1>3. CASE UNCHANGED vars
  <2>1. \A v \in Users : SameTicket(v)
    BY <1>3 DEF vars, mapVars, numVars, threadVars, SameTicket, ticketOf, pendingOf, CommitOf
  <2> QED
    BY <1>3, <2>1, TicketStutter DEF vars
<1> QED
  BY <1>1, <1>2, <1>3 DEF Next

\* Seven statements over three maps and two counters, interleaved with every
\* other handler, are one Grant: the AS serves tickets as Tickets specifies,
\* unless two commits overlap.
THEOREM TicketsImplemented == Spec /\ []OneCommits => ServesTickets
<1>1. Init => TicketService!Init
  <2> SUFFICES ASSUME Init PROVE TicketService!Init
    OBVIOUS
  <2>1. \A u \in Users : ticketOf(u) = None /\ pendingOf(u) = None
    BY DEF Init, ticketOf, pendingOf, CommitOf
  <2> QED
    BY <2>1 DEF Init, TicketService!Init
<1>2. TicketInv /\ OneCommits /\ [Next]_vars => [TicketService!Next]_(TicketService!tvars)
  BY ServiceStep
<1> QED
  BY <1>1, <1>2, TicketsInvariant, PTL DEF Spec, ServesTickets, TicketService!Spec

\* With one connection no two REQs can overlap, and all of the above holds of
\* every behaviour.
THEOREM OneConnectionSafe ==
  ASSUME \A s, t \in Sessions : s = t
  PROVE  Spec => [](CodeStored /\ TicketKnown /\ NoZeroTid /\ CountersAdvance) /\ ServesTickets
<1>1. OneInside /\ OneCommits
  BY DEF OneInside, OneCommits
<1>2. []OneInside /\ []OneCommits
  BY <1>1, PTL
<1> QED
  BY <1>2, CodesStored, TicketsKnown, TidsNotZero, CountersCount, TicketsImplemented, PTL
=============================================================================
