---------------------------- MODULE KbufPairProofs ----------------------------
(***************************************************************************)
(* Safety of the drivers without a lock for every buffer size and every    *)
(* count, as long as there is at most one reader and one writer (OnePair). *)
(* RInv and WInv say what a reader and a writer may rely on wherever they  *)
(* are in a call.  All that RInv says of validlen stays true when validlen *)
(* grows, all that WInv says when it shrinks: so neither process can spoil *)
(* what the other has found (WriterStep, ReaderStep).  With two readers    *)
(* the second would make validlen shrink under the first.                  *)
(* That validlen is exact until a store goes over another (CountIsExact)   *)
(* needs no more than what each label says of held (HistoryInv).           *)
(* Liveness, in the second half, follows one waiter through the other      *)
(* side's store and wake_up, and the server from the wake_up through its   *)
(* eventpoll's list to the transfer.                                       *)
(***************************************************************************)
EXTENDS KbufPair, TLAPS

OnePair == (\A p, q \in Readers : p = q) /\ (\A p, q \in Writers : p = q)

RLabels == {"idle", "ep_poll", "r_wait", "r_test", "r_sleep", "r_intr", "r_min",
            "r_copy", "r_move", "r_load", "r_store", "r_wake"}
WLabels == {"idle", "w_wait", "w_test", "w_sleep", "w_intr", "w_min",
            "w_copy", "w_load", "w_store", "w_wake"}

TypeInv ==
  /\ validlen \in 0..Cap
  /\ pc \in [Procs -> RLabels \cup WLabels]
  /\ cnt \in [Procs -> Nat]
  /\ loaded \in [Procs -> Nat]

RInv(p) ==
  /\ pc[p] \in RLabels
  /\ pc[p] \in {"r_wait", "r_test", "r_sleep", "r_intr", "r_min"} => cnt[p] > 0
  /\ pc[p] \in {"r_test", "r_sleep"} => drv \notin Unblocking
  /\ drv = "server" => pc[p] \notin {"r_test", "r_sleep", "r_intr"}
  /\ drv = "server" /\ pc[p] = "r_wait" => validlen > 0
  /\ pc[p] = "r_intr" => p \in pending
  /\ pc[p] = "r_min" => validlen > 0 \/ (drv = "block" /\ p \in pending)
  /\ pc[p] \in {"r_copy", "r_move", "r_load"} => cnt[p] <= validlen
  /\ pc[p] = "r_store" => cnt[p] <= loaded[p] /\ loaded[p] <= validlen
  /\ pc[p] \in {"r_copy", "r_move", "r_load", "r_store"}
       => cnt[p] > 0 \/ (drv = "block" /\ p \in pending)

WInv(p) ==
  /\ pc[p] \in WLabels
  /\ pc[p] \in {"w_wait", "w_test", "w_sleep", "w_min"} => cnt[p] > 0
  /\ pc[p] \in {"w_test", "w_sleep"} => drv \notin Unblocking
  /\ pc[p] = "w_min" => validlen < Cap
  /\ pc[p] \in {"w_copy", "w_load"} => cnt[p] \in 1..(Cap - validlen)
  /\ pc[p] = "w_store" => cnt[p] \in 1..(Cap - loaded[p]) /\ loaded[p] >= validlen

IInv ==
  /\ TypeInv
  /\ \A p \in Readers : RInv(p)
  /\ \A p \in Writers : WInv(p)
  /\ NobodySleepsThrough

\* What a step of p leaves alone of the process q.
Keeps(q) ==
  /\ pc'[q] = pc[q] /\ cnt'[q] = cnt[q] /\ loaded'[q] = loaded[q]
  /\ drv' = drv
  /\ q \in pending' <=> q \in pending

-----------------------------------------------------------------------------
LEMMA InitIInv == Init => IInv
BY CapAssumption DEF Init, IInv, TypeInv, RInv, WInv, RLabels, WLabels, Procs, NobodySleepsThrough

\* A reader can rely on what it knows while validlen does not shrink ...
LEMMA WriterKeepsReader ==
  ASSUME NEW p \in Readers, RInv(p), Keeps(p), TypeInv, TypeInv', validlen' >= validlen
  PROVE  RInv(p)'
BY DEF RInv, Keeps, TypeInv, Procs

\* ... and a writer while it does not grow.
LEMMA ReaderKeepsWriter ==
  ASSUME NEW p \in Writers, WInv(p), Keeps(p), TypeInv, TypeInv', validlen' <= validlen
  PROVE  WInv(p)'
BY CapAssumption DEF WInv, Keeps, TypeInv, Procs

\* What every step of a reader p does: it keeps what p relies on, leaves the
\* other processes alone, does not make validlen grow, falls asleep only over
\* an empty buffer, and makes room only on the way to its wake_up.
RStep(p) ==
  /\ TypeInv' /\ RInv(p)' /\ validlen' <= validlen
  /\ \A q \in Procs \ {p} : Keeps(q)
  /\ pc'[p] = "r_sleep" => validlen' = 0
  /\ \/ waitw' = {} \/ pc'[p] = "r_wake"
     \/ /\ waitw' = waitw /\ validlen' = validlen
        /\ pc[p] = "r_wake" => drv \in Unblocking

\* The same of a writer.
WStep(p) ==
  /\ TypeInv' /\ WInv(p)' /\ validlen' >= validlen
  /\ \A q \in Procs \ {p} : Keeps(q)
  /\ pc'[p] = "w_sleep" => validlen' = Cap
  /\ \/ waitr' = {} \/ pc'[p] = "w_wake"
     \/ /\ waitr' = waitr /\ validlen' = validlen
        /\ pc[p] = "w_wake" => drv \in Unblocking

LEMMA ReaderStep ==
  ASSUME OnePair, IInv, NEW p \in Readers, RStep(p)
  PROVE  IInv'
<1>1. \A q \in Readers : q = p BY DEF OnePair
<1>2. \A q \in Writers : q # p /\ Keeps(q)
  BY RolesAssumption DEF RStep, Procs
<1>3. TypeInv' BY DEF RStep
<1>4. \A q \in Readers : RInv(q)' BY <1>1 DEF RStep
<1>5. \A q \in Writers : WInv(q)'
  BY <1>2, ReaderKeepsWriter DEF RStep, IInv
<1>6. NobodySleepsThrough'
  <2>1. ASSUME NEW q \in Readers, pc'[q] = "r_sleep" PROVE validlen' = 0
    BY <1>1, <2>1 DEF RStep
  <2>2. ASSUME NEW q \in Writers, pc'[q] = "w_sleep", q \in waitw', validlen' # Cap
        PROVE  pc'[p] = "r_wake"
    <3>1. pc[q] = "w_sleep" /\ drv \notin Unblocking
      BY <1>2, <2>2 DEF IInv, WInv, Keeps
    <3>2. CASE waitw' = waitw /\ validlen' = validlen /\ (pc[p] = "r_wake" => drv \in Unblocking)
      <4>1. PICK x \in Readers : pc[x] = "r_wake"
        BY <3>1, <3>2, <2>2 DEF IInv, NobodySleepsThrough
      <4>2. QED BY <4>1, <1>1, <3>1, <3>2
    <3>3. QED BY <3>2, <2>2 DEF RStep
  <2>3. QED BY <2>1, <2>2 DEF NobodySleepsThrough
<1>7. QED BY <1>3, <1>4, <1>5, <1>6 DEF IInv

LEMMA WriterStep ==
  ASSUME OnePair, IInv, NEW p \in Writers, WStep(p)
  PROVE  IInv'
<1>1. \A q \in Writers : q = p BY DEF OnePair
<1>2. \A q \in Readers : q # p /\ Keeps(q)
  BY RolesAssumption DEF WStep, Procs
<1>3. TypeInv' BY DEF WStep
<1>4. \A q \in Writers : WInv(q)' BY <1>1 DEF WStep
<1>5. \A q \in Readers : RInv(q)'
  BY <1>2, WriterKeepsReader DEF WStep, IInv
<1>6. NobodySleepsThrough'
  <2>1. ASSUME NEW q \in Writers, pc'[q] = "w_sleep" PROVE validlen' = Cap
    BY <1>1, <2>1 DEF WStep
  <2>2. ASSUME NEW q \in Readers, pc'[q] = "r_sleep", q \in waitr', validlen' # 0
        PROVE  pc'[p] = "w_wake"
    <3>1. pc[q] = "r_sleep" /\ drv \notin Unblocking
      BY <1>2, <2>2 DEF IInv, RInv, Keeps
    <3>2. CASE waitr' = waitr /\ validlen' = validlen /\ (pc[p] = "w_wake" => drv \in Unblocking)
      <4>1. PICK x \in Writers : pc[x] = "w_wake"
        BY <3>1, <3>2, <2>2 DEF IInv, NobodySleepsThrough
      <4>2. QED BY <4>1, <1>1, <3>1, <3>2
    <3>3. QED BY <3>2, <2>2 DEF WStep
  <2>3. QED BY <2>1, <2>2 DEF NobodySleepsThrough
<1>7. QED BY <1>3, <1>4, <1>5, <1>6 DEF IInv

-----------------------------------------------------------------------------
LEMMA ReadCallStep ==
  ASSUME IInv, NEW p \in Readers,
         (drv # "server" /\ Call(p, "r_wait")) \/ IoctlCall(p, "r_wait")
  PROVE  RStep(p)
BY MaxCntAssumption, CapAssumption
   DEF IInv, TypeInv, RInv, RLabels, RStep, Keeps, Procs, lens, queues, Call, IoctlCall, Goto

LEMMA ReadCheckStep ==
  ASSUME IInv, NEW p \in Readers, PlainReadCheck(p)
  PROVE  RStep(p)
BY DEF IInv, TypeInv, RInv, RLabels, RStep, Keeps, Procs, lens, queues, Unblocking,
       PlainReadCheck, CheckOrFail, Goto, Return

LEMMA ReadWaitStep ==
  ASSUME IInv, NEW p \in Readers, ReadWait(p)
  PROVE  RStep(p)
<1> USE DEF IInv, TypeInv, RInv, RLabels, RStep, Keeps, Procs, lens, queues, Unblocking, Goto, ReadWait
<1>1. CASE WaitBegin(p, validlen # 0, "r_wait", "r_test", "r_min", waitr) BY <1>1 DEF WaitBegin
<1>2. CASE WaitTest(p, validlen # 0, "r_test", "r_sleep", "r_min", "r_intr", waitr) BY <1>2 DEF WaitTest
<1>3. CASE WaitWake(p, "r_test", "r_sleep", waitr) BY <1>3 DEF WaitWake
<1>4. QED BY <1>1, <1>2, <1>3 DEF Wait

LEMMA ReadInterruptedStep ==
  ASSUME IInv, NEW p \in Readers, BlockReadInterrupted(p) \/ PollReadInterrupted(p)
  PROVE  RStep(p)
BY DEF IInv, TypeInv, RInv, RLabels, RStep, Keeps, Procs, lens, queues, Unblocking,
       BlockReadInterrupted, PollReadInterrupted, Goto, Return

LEMMA ReadTransferStep ==
  ASSUME IInv, NEW p \in Readers, ReadTransfer(p)
  PROVE  RStep(p)
<1> USE DEF IInv, TypeInv, RInv, RLabels, RStep, Keeps, Procs, lens, queues, Goto
<1>1. CASE ReadMin(p) BY <1>1 DEF ReadMin, MinOf
<1>2. CASE ReadCopy(p) BY <1>2 DEF ReadCopy, Return
<1>3. CASE ReadMove(p) BY <1>3 DEF ReadMove
<1>4. CASE Load(p, "r_load", "r_store") BY <1>4 DEF Load
<1>5. CASE ReadStore(p) BY <1>5, CapAssumption DEF ReadStore
<1>6. CASE ReadWake(p) BY <1>6 DEF ReadWake, Return
<1>7. CASE IoctlReturn(p) BY <1>7 DEF IoctlReturn, Return, Unblocking
<1>8. QED BY <1>1, <1>2, <1>3, <1>4, <1>5, <1>6, <1>7 DEF ReadTransfer

LEMMA ServerStep ==
  ASSUME IInv, NEW p \in Readers, EpollTake(p) \/ KbufPollCall(p)
  PROVE  RStep(p)
BY CapAssumption
   DEF IInv, TypeInv, RInv, RLabels, RStep, Keeps, Procs, lens, queues, EpollTake, KbufPollCall, Readable, Goto

-----------------------------------------------------------------------------
LEMMA WriteCallStep ==
  ASSUME IInv, NEW p \in Writers, Call(p, "w_wait") \/ IoctlCall(p, "w_wait")
  PROVE  WStep(p)
BY MaxCntAssumption, CapAssumption
   DEF IInv, TypeInv, WInv, WLabels, WStep, Keeps, Procs, lens, queues, Call, IoctlCall, Goto

LEMMA WriteCheckStep ==
  ASSUME IInv, NEW p \in Writers, PlainWriteCheck(p)
  PROVE  WStep(p)
BY CapAssumption DEF IInv, TypeInv, WInv, WLabels, WStep, Keeps, Procs, lens, queues, Unblocking,
       PlainWriteCheck, CheckOrFail, Goto, Return

LEMMA WriteWaitStep ==
  ASSUME IInv, NEW p \in Writers, WriteWait(p)
  PROVE  WStep(p)
<1> USE CapAssumption
    DEF IInv, TypeInv, WInv, WLabels, WStep, Keeps, Procs, lens, queues, Unblocking, Goto, WriteWait
<1>1. CASE WaitBegin(p, validlen # Cap, "w_wait", "w_test", "w_min", waitw) BY <1>1 DEF WaitBegin
<1>2. CASE WaitTest(p, validlen # Cap, "w_test", "w_sleep", "w_min", "w_intr", waitw) BY <1>2 DEF WaitTest
<1>3. CASE WaitWake(p, "w_test", "w_sleep", waitw) BY <1>3 DEF WaitWake
<1>4. QED BY <1>1, <1>2, <1>3 DEF Wait

LEMMA WriteInterruptedStep ==
  ASSUME IInv, NEW p \in Writers, WriteInterrupted(p)
  PROVE  WStep(p)
BY DEF IInv, TypeInv, WInv, WLabels, WStep, Keeps, Procs, lens, queues, WriteInterrupted, Goto, Return

LEMMA WriteTransferStep ==
  ASSUME IInv, NEW p \in Writers, WriteTransfer(p)
  PROVE  WStep(p)
<1> USE CapAssumption DEF IInv, TypeInv, WInv, WLabels, WStep, Keeps, Procs, lens, queues, Goto
<1>1. CASE WriteMin(p) BY <1>1 DEF WriteMin, MinOf
<1>2. CASE WriteCopy(p) BY <1>2 DEF WriteCopy, Return
<1>3. CASE Load(p, "w_load", "w_store") BY <1>3 DEF Load
<1>4. CASE WriteStore(p) BY <1>4 DEF WriteStore
<1>5. CASE WriteWake(p) BY <1>5 DEF WriteWake, Return
<1>6. CASE IoctlReturn(p) BY <1>6 DEF IoctlReturn, Return, Unblocking
<1>7. QED BY <1>1, <1>2, <1>3, <1>4, <1>5, <1>6 DEF WriteTransfer

\* A signal only adds to pending, of which nothing asks that it be empty.
LEMMA SignalInv ==
  ASSUME IInv, NEW p \in Procs, Signal(p)
  PROVE  IInv'
<1>1. TypeInv' /\ NobodySleepsThrough'
  BY DEF Signal, lens, queues, IInv, TypeInv, NobodySleepsThrough
<1>2. \A q \in Readers : RInv(q)' BY DEF Signal, lens, queues, IInv, RInv
<1>3. \A q \in Writers : WInv(q)' BY DEF Signal, lens, queues, IInv, WInv
<1>4. QED BY <1>1, <1>2, <1>3 DEF IInv

-----------------------------------------------------------------------------
LEMMA NextIInv == OnePair /\ IInv /\ [Next]_vars => IInv'
<1> SUFFICES ASSUME OnePair, IInv, [Next]_vars PROVE IInv' OBVIOUS
<1>1. ASSUME NEW p \in Readers,
             (drv # "server" /\ Call(p, "r_wait")) \/ IoctlCall(p, "r_wait") \/ ReadBody(p)
      PROVE  IInv'
  <2>1. RStep(p)
    BY <1>1, ReadCallStep, ReadCheckStep, ReadWaitStep, ReadInterruptedStep, ReadTransferStep, ServerStep
       DEF ReadBody
  <2>2. QED BY <2>1, ReaderStep
<1>2. ASSUME NEW p \in Writers,
             Call(p, "w_wait") \/ IoctlCall(p, "w_wait") \/ WriteBody(p)
      PROVE  IInv'
  <2>1. WStep(p)
    BY <1>2, WriteCallStep, WriteCheckStep, WriteWaitStep, WriteInterruptedStep, WriteTransferStep
       DEF WriteBody
  <2>2. QED BY <2>1, WriterStep
<1>3. ASSUME NEW p \in Procs, Signal(p) PROVE IInv' BY <1>3, SignalInv
<1>4. CASE UNCHANGED vars
  BY <1>4 DEF vars, lens, queues, IInv, TypeInv, RInv, WInv, NobodySleepsThrough
<1>5. QED BY <1>1, <1>2, <1>3, <1>4 DEF Next

LEMMA IInvHolds == ASSUME OnePair PROVE Spec => []IInv
BY InitIInv, NextIInv, PTL DEF Spec

\* With one reader and one writer no copy, move or store leaves the valid
\* bytes or the free space, whatever runs between any two looks at validlen.
THEOREM PairStaysInside == ASSUME OnePair PROVE Spec => []TransfersStayInside
<1>1. IInv => TransfersStayInside
  BY DEF IInv, TypeInv, RInv, WInv, TransfersStayInside, Procs
<1>2. QED BY IInvHolds, <1>1, PTL

\* No wake_up comes too early to be noticed: whoever sleeps over a true
\* condition is about to be woken.
THEOREM NoLostWakeup == ASSUME OnePair PROVE Spec => []NobodySleepsThrough
<1>1. IInv => NobodySleepsThrough BY DEF IInv
<1>2. QED BY IInvHolds, <1>1, PTL

\* Only the blocking driver, after a signal, copies nothing.
THEOREM ReadsFindData == ASSUME OnePair PROVE Spec => []CheckedReadsHaveData
<1>1. IInv => CheckedReadsHaveData
  BY DEF IInv, RInv, CheckedReadsHaveData
<1>2. QED BY IInvHolds, <1>1, PTL

\* A server that reads what kbuf_poll reported does not sleep in the read.
THEOREM ServerDoesNotSleep == ASSUME OnePair PROVE Spec => []ReadyReadsDoNotSleep
<1>1. IInv => ReadyReadsDoNotSleep
  BY DEF IInv, RInv, ReadyReadsDoNotSleep
<1>2. QED BY IInvHolds, <1>1, PTL

-----------------------------------------------------------------------------
\* validlen against the bytes themselves.

HistoryInv == held \in Int /\ torn \in BOOLEAN

\* A step of a reader or a writer p moves held and validlen by what p has
\* moved and not counted, before and after the step, or tears them apart.
ReadCounts(p) ==
  torn' \/ (~torn /\ held' - validlen' + Uncounted(p)' = held - validlen + Uncounted(p))

WriteCounts(p) ==
  torn' \/ (~torn /\ held' - validlen' - Uncounted(p)' = held - validlen - Uncounted(p))

LEMMA ReaderCounts ==
  ASSUME IInv, HistoryInv, NEW p \in Readers,
         (drv # "server" /\ Call(p, "r_wait")) \/ IoctlCall(p, "r_wait") \/ ReadBody(p)
  PROVE  HistoryInv' /\ ReadCounts(p)
<1> USE DEF IInv, TypeInv, RInv, RLabels, HistoryInv, ReadCounts, Uncounted, Procs, lens, Goto
<1>1. CASE Call(p, "r_wait") \/ IoctlCall(p, "r_wait") BY <1>1 DEF Call, IoctlCall
<1>2. CASE PlainReadCheck(p) BY <1>2 DEF PlainReadCheck, CheckOrFail, Return
<1>3. CASE ReadWait(p) BY <1>3 DEF ReadWait, Wait, WaitBegin, WaitTest, WaitWake
<1>4. CASE BlockReadInterrupted(p) BY <1>4 DEF BlockReadInterrupted
<1>5. CASE PollReadInterrupted(p) BY <1>5 DEF PollReadInterrupted, Return
<1>6. CASE ReadMin(p) BY <1>6 DEF ReadMin, MinOf
<1>7. CASE ReadCopy(p) BY <1>7 DEF ReadCopy, Return
<1>8. CASE ReadMove(p) BY <1>8 DEF ReadMove, Holds
<1>9. CASE Load(p, "r_load", "r_store") BY <1>9 DEF Load
<1>10. CASE ReadStore(p)
  <2>1. Tear(p) BY <1>10 DEF ReadStore
  <2>2. CASE torn' BY <2>1, <2>2 DEF Tear
  <2>3. CASE ~torn'
    <3>1. ~torn /\ validlen = loaded[p] /\ held' = held /\ torn' \in BOOLEAN
      BY <2>1, <2>3 DEF Tear
    <3> QED BY <1>10, <2>3, <3>1 DEF ReadStore
  <2> QED BY <2>2, <2>3
<1>11. CASE ReadWake(p) \/ IoctlReturn(p) BY <1>11 DEF ReadWake, IoctlReturn, Return
<1>12. CASE EpollTake(p) \/ KbufPollCall(p) BY <1>12, CapAssumption DEF EpollTake, KbufPollCall
<1> QED BY <1>1, <1>2, <1>3, <1>4, <1>5, <1>6, <1>7, <1>8, <1>9, <1>10, <1>11, <1>12
        DEF ReadBody, ReadTransfer

LEMMA WriterCounts ==
  ASSUME IInv, HistoryInv, NEW p \in Writers,
         Call(p, "w_wait") \/ IoctlCall(p, "w_wait") \/ WriteBody(p)
  PROVE  HistoryInv' /\ WriteCounts(p)
<1> USE DEF IInv, TypeInv, WInv, WLabels, HistoryInv, WriteCounts, Uncounted, Procs, lens, Goto
<1>1. CASE Call(p, "w_wait") \/ IoctlCall(p, "w_wait") BY <1>1 DEF Call, IoctlCall
<1>2. CASE PlainWriteCheck(p) BY <1>2 DEF PlainWriteCheck, CheckOrFail, Return
<1>3. CASE WriteWait(p) BY <1>3 DEF WriteWait, Wait, WaitBegin, WaitTest, WaitWake
<1>4. CASE WriteInterrupted(p) BY <1>4 DEF WriteInterrupted, Return
<1>5. CASE WriteMin(p) BY <1>5 DEF WriteMin, MinOf
<1>6. CASE WriteCopy(p) BY <1>6 DEF WriteCopy, Return, Holds
<1>7. CASE Load(p, "w_load", "w_store") BY <1>7 DEF Load
<1>8. CASE WriteStore(p)
  <2>1. Tear(p) BY <1>8 DEF WriteStore
  <2>2. CASE torn' BY <2>1, <2>2 DEF Tear
  <2>3. CASE ~torn'
    <3>1. ~torn /\ validlen = loaded[p] /\ held' = held /\ torn' \in BOOLEAN
      BY <2>1, <2>3 DEF Tear
    <3> QED BY <1>8, <2>3, <3>1 DEF WriteStore
  <2> QED BY <2>2, <2>3
<1>9. CASE WriteWake(p) \/ IoctlReturn(p) BY <1>9 DEF WriteWake, IoctlReturn, Return
<1> QED BY <1>1, <1>2, <1>3, <1>4, <1>5, <1>6, <1>7, <1>8, <1>9 DEF WriteBody, WriteTransfer

LEMMA ExactStep ==
  OnePair /\ IInv /\ HistoryInv /\ CountIsExact /\ [Next]_vars => HistoryInv' /\ CountIsExact'
<1> SUFFICES ASSUME OnePair, IInv, HistoryInv, CountIsExact, [Next]_vars
             PROVE  HistoryInv' /\ CountIsExact'
  OBVIOUS
<1>1. ASSUME NEW p \in Readers,
             (drv # "server" /\ Call(p, "r_wait")) \/ IoctlCall(p, "r_wait") \/ ReadBody(p)
      PROVE  HistoryInv' /\ CountIsExact'
  <2>1. HistoryInv' /\ ReadCounts(p)
    BY <1>1, ReaderCounts
  <2>2. RStep(p)
    BY <1>1, ReadCallStep, ReadCheckStep, ReadWaitStep, ReadInterruptedStep, ReadTransferStep, ServerStep
       DEF ReadBody
  <2>3. ASSUME NEW r \in Readers, NEW w \in Writers
        PROVE  torn' \/ held' = validlen' + Uncounted(w)' - Uncounted(r)'
    <3>1. r = p
      BY DEF OnePair
    <3>2. Uncounted(w)' = Uncounted(w)
      BY <2>2, RolesAssumption DEF RStep, Keeps, Procs, Uncounted
    <3>3. torn \/ held = validlen + Uncounted(w) - Uncounted(p)
      BY DEF CountIsExact
    <3>4. /\ Uncounted(w) \in Int /\ Uncounted(p) \in Int /\ Uncounted(p)' \in Int
          /\ validlen \in Int /\ validlen' \in Int
          /\ Uncounted(r)' = Uncounted(p)'
      BY <2>2, <3>1 DEF RStep, IInv, TypeInv, Uncounted, Procs
    <3>5. CASE torn'
      BY <3>5
    <3>6. CASE ~torn'
      BY <2>1, <3>1, <3>2, <3>3, <3>4, <3>6 DEF ReadCounts, HistoryInv
    <3> QED BY <3>5, <3>6
  <2> QED BY <2>1, <2>3 DEF CountIsExact
<1>2. ASSUME NEW p \in Writers,
             Call(p, "w_wait") \/ IoctlCall(p, "w_wait") \/ WriteBody(p)
      PROVE  HistoryInv' /\ CountIsExact'
  <2>1. HistoryInv' /\ WriteCounts(p)
    BY <1>2, WriterCounts
  <2>2. WStep(p)
    BY <1>2, WriteCallStep, WriteCheckStep, WriteWaitStep, WriteInterruptedStep, WriteTransferStep
       DEF WriteBody
  <2>3. ASSUME NEW r \in Readers, NEW w \in Writers
        PROVE  torn' \/ held' = validlen' + Uncounted(w)' - Uncounted(r)'
    <3>1. w = p
      BY DEF OnePair
    <3>2. Uncounted(r)' = Uncounted(r)
      BY <2>2, RolesAssumption DEF WStep, Keeps, Procs, Uncounted
    <3>3. torn \/ held = validlen + Uncounted(p) - Uncounted(r)
      BY DEF CountIsExact
    <3>4. /\ Uncounted(r) \in Int /\ Uncounted(p) \in Int /\ Uncounted(p)' \in Int
          /\ validlen \in Int /\ validlen' \in Int
          /\ Uncounted(w)' = Uncounted(p)'
      BY <2>2, <3>1 DEF WStep, IInv, TypeInv, Uncounted, Procs
    <3>5. CASE torn'
      BY <3>5
    <3>6. CASE ~torn'
      BY <2>1, <3>1, <3>2, <3>3, <3>4, <3>6 DEF WriteCounts, HistoryInv
    <3> QED BY <3>5, <3>6
  <2> QED BY <2>1, <2>3 DEF CountIsExact
<1>3. CASE (\E p \in Procs : Signal(p)) \/ UNCHANGED vars
  BY <1>3 DEF Signal, vars, lens, HistoryInv, CountIsExact, Uncounted
<1> QED BY <1>1, <1>2, <1>3 DEF Next

\* Nothing but a lost update puts validlen out of step with the bytes, for
\* every size of the buffer and of the transfers.
THEOREM ExactUntilTorn == ASSUME OnePair PROVE Spec => []CountIsExact
<1>1. Init => HistoryInv /\ CountIsExact
  <2> SUFFICES ASSUME Init PROVE HistoryInv /\ CountIsExact
    OBVIOUS
  <2>1. \A p \in Readers \cup Writers : Uncounted(p) = 0
    BY DEF Init, Uncounted, Procs
  <2>2. held = 0 /\ validlen = 0 /\ torn \in BOOLEAN
    BY DEF Init
  <2>3. ASSUME NEW r \in Readers, NEW w \in Writers
        PROVE  held = validlen + Uncounted(w) - Uncounted(r)
    <3>1. Uncounted(r) = 0 /\ Uncounted(w) = 0
      BY <2>1
    <3> QED BY <2>2, <3>1
  <2>4. CountIsExact
    BY <2>3 DEF CountIsExact
  <2> QED BY <2>2, <2>4 DEF HistoryInv
<1> QED BY <1>1, InitIInv, NextIInv, ExactStep, PTL DEF Spec

-----------------------------------------------------------------------------
\* Liveness.  What fairness asks of a process is written with the states in
\* which its ReadBody or WriteBody can happen (and moves its pc) in the place
\* of ENABLED: it neither is in user space nor sleeps, or it has been woken,
\* or its eventpoll has the device on the list.

ReaderCanRun(p) ==
  \/ pc[p] \notin {"idle", "r_sleep"}
  \/ pc[p] = "r_sleep" /\ (p \notin waitr \/ p \in pending)
  \/ drv = "server" /\ pc[p] = "idle" /\ p \in ready

WriterCanRun(p) ==
  \/ pc[p] \notin {"idle", "w_sleep"}
  \/ pc[p] = "w_sleep" /\ (p \notin waitw \/ p \in pending)

ReaderRuns(p) == []<>~ReaderCanRun(p) \/ []<><<ReadBody(p)>>_vars
WriterRuns(p) == []<>~WriterCanRun(p) \/ []<><<WriteBody(p)>>_vars

Runs == (\A p \in Readers : ReaderRuns(p)) /\ (\A p \in Writers : WriterRuns(p))

\* The weak fairness of FairSpec gives Runs, guard by guard.
LEMMA ReaderFairRuns ==
  ASSUME NEW p \in Readers
  PROVE  WF_vars(ReadBody(p)) /\ [](ReaderCanRun(p) => ENABLED <<ReadBody(p)>>_vars) => ReaderRuns(p)
BY PTL DEF ReaderRuns

LEMMA WriterFairRuns ==
  ASSUME NEW p \in Writers
  PROVE  WF_vars(WriteBody(p)) /\ [](WriterCanRun(p) => ENABLED <<WriteBody(p)>>_vars) => WriterRuns(p)
BY PTL DEF WriterRuns

-----------------------------------------------------------------------------
\* Where the next step of a call that does not wait any more leads.
ReadLater ==
  [l \in {"r_intr", "r_min", "r_copy", "r_move", "r_load", "r_store", "r_wake"} |->
     CASE l = "r_intr"  -> {"r_min", "idle"}
       [] l = "r_min"   -> {"r_copy"}
       [] l = "r_copy"  -> {"r_move", "idle"}
       [] l = "r_move"  -> {"r_load"}
       [] l = "r_load"  -> {"r_store"}
       [] l = "r_store" -> {"r_wake"}
       [] OTHER         -> {"idle"}]

WriteLater ==
  [l \in {"w_intr", "w_min", "w_copy", "w_load", "w_store", "w_wake"} |->
     CASE l = "w_min"   -> {"w_copy"}
       [] l = "w_copy"  -> {"w_load", "idle"}
       [] l = "w_load"  -> {"w_store"}
       [] l = "w_store" -> {"w_wake"}
       [] OTHER         -> {"idle"}]

\* A program calls, which changes nothing but its own process.
Calls(p) == pc[p] = "idle" /\ UNCHANGED <<drv, validlen, queues, pending, ready>>

\* Who moves whom: a step is the reader's, the writer's or leaves both where
\* they are.
LEMMA WhoSteps ==
  ASSUME OnePair, IInv, [Next]_vars
  PROVE  \/ \E r \in Readers : RStep(r) /\ (ReadBody(r) \/ (Calls(r) /\ drv # "server"))
         \/ \E w \in Writers : WStep(w) /\ (WriteBody(w) \/ Calls(w))
         \/ UNCHANGED <<drv, validlen, pc, cnt, queues, ready>>
<1>1. ASSUME NEW p \in Readers,
             (drv # "server" /\ Call(p, "r_wait")) \/ IoctlCall(p, "r_wait") \/ ReadBody(p)
      PROVE  RStep(p) /\ (ReadBody(p) \/ (Calls(p) /\ drv # "server"))
  <2>1. RStep(p)
    BY <1>1, ReadCallStep, ReadCheckStep, ReadWaitStep, ReadInterruptedStep, ReadTransferStep, ServerStep
       DEF ReadBody
  <2> QED BY <1>1, <2>1 DEF Calls, Call, IoctlCall, lens
<1>2. ASSUME NEW p \in Writers,
             Call(p, "w_wait") \/ IoctlCall(p, "w_wait") \/ WriteBody(p)
      PROVE  WStep(p) /\ (WriteBody(p) \/ Calls(p))
  <2>1. WStep(p)
    BY <1>2, WriteCallStep, WriteCheckStep, WriteWaitStep, WriteInterruptedStep, WriteTransferStep
       DEF WriteBody
  <2> QED BY <1>2, <2>1 DEF Calls, Call, IoctlCall, lens
<1>3. ASSUME NEW p \in Procs, Signal(p) PROVE UNCHANGED <<drv, validlen, pc, cnt, queues, ready>>
  BY <1>3 DEF Signal, lens
<1>4. CASE UNCHANGED vars
  BY <1>4 DEF vars, lens
<1> QED BY <1>1, <1>2, <1>3, <1>4 DEF Next

\* The same for one reader r and one writer w.
LEMMA PairSteps ==
  ASSUME OnePair, IInv, [Next]_vars, NEW r \in Readers, NEW w \in Writers
  PROVE  \/ RStep(r) /\ (ReadBody(r) \/ Calls(r)) /\ pc'[w] = pc[w] /\ w \notin Readers
         \/ WStep(w) /\ (WriteBody(w) \/ Calls(w)) /\ pc'[r] = pc[r]
         \/ UNCHANGED <<drv, validlen, pc, cnt, queues, ready>>
<1>1. /\ \A q \in Readers : q = r
      /\ \A q \in Writers : q = w
      /\ r # w /\ r \in Procs /\ w \in Procs /\ w \notin Readers
  BY RolesAssumption DEF OnePair, Procs
<1>2. RStep(r) => pc'[w] = pc[w]
  BY <1>1 DEF RStep, Keeps
<1>3. WStep(w) => pc'[r] = pc[r]
  BY <1>1 DEF WStep, Keeps
<1> QED BY <1>1, <1>2, <1>3, WhoSteps

LEMMA ReadBodyLater ==
  ASSUME IInv, NEW r \in Readers, pc[r] \in DOMAIN ReadLater, ReadBody(r)
  PROVE  pc'[r] \in ReadLater[pc[r]]
<1> USE DEF IInv, TypeInv, RInv, Procs, ReadLater, Goto, Return, Unblocking
<1>1. CASE PlainReadCheck(r) BY <1>1 DEF PlainReadCheck, CheckOrFail
<1>2. CASE ReadWait(r) BY <1>2 DEF ReadWait, Wait, WaitBegin, WaitTest, WaitWake
<1>3. CASE BlockReadInterrupted(r) BY <1>3 DEF BlockReadInterrupted
<1>4. CASE PollReadInterrupted(r) BY <1>4 DEF PollReadInterrupted
<1>5. CASE ReadMin(r) \/ ReadCopy(r) BY <1>5 DEF ReadMin, ReadCopy
<1>6. CASE ReadMove(r) \/ Load(r, "r_load", "r_store") BY <1>6 DEF ReadMove, Load
<1>7. CASE ReadStore(r) BY <1>7 DEF ReadStore
<1>8. CASE ReadWake(r) \/ IoctlReturn(r) BY <1>8 DEF ReadWake, IoctlReturn
<1>9. CASE EpollTake(r) \/ KbufPollCall(r) BY <1>9 DEF EpollTake, KbufPollCall
<1> QED BY <1>1, <1>2, <1>3, <1>4, <1>5, <1>6, <1>7, <1>8, <1>9 DEF ReadBody, ReadTransfer

LEMMA WriteBodyLater ==
  ASSUME IInv, NEW w \in Writers, pc[w] \in DOMAIN WriteLater, WriteBody(w)
  PROVE  pc'[w] \in WriteLater[pc[w]]
<1> USE DEF IInv, TypeInv, WInv, Procs, WriteLater, Goto, Return, Unblocking
<1>1. CASE PlainWriteCheck(w) BY <1>1 DEF PlainWriteCheck, CheckOrFail
<1>2. CASE WriteWait(w) BY <1>2 DEF WriteWait, Wait, WaitBegin, WaitTest, WaitWake
<1>3. CASE WriteInterrupted(w) BY <1>3 DEF WriteInterrupted
<1>4. CASE WriteMin(w) \/ WriteCopy(w) BY <1>4 DEF WriteMin, WriteCopy
<1>5. CASE Load(w, "w_load", "w_store") \/ WriteStore(w) BY <1>5 DEF Load, WriteStore
<1>6. CASE WriteWake(w) \/ IoctlReturn(w) BY <1>6 DEF WriteWake, IoctlReturn
<1> QED BY <1>1, <1>2, <1>3, <1>4, <1>5, <1>6 DEF WriteBody, WriteTransfer

\* A call that does not wait any more takes its next step.
ReadAdvances(r, l) == pc[r] = l ~> pc[r] \in ReadLater[l]
WriteAdvances(w, l) == pc[w] = l ~> pc[w] \in WriteLater[l]

LEMMA ReadSteps ==
  ASSUME OnePair, NEW r \in Readers, NEW l \in DOMAIN ReadLater
  PROVE  []IInv /\ [][Next]_vars /\ ReaderRuns(r) => ReadAdvances(r, l)
<1>1. IInv /\ [Next]_vars /\ pc[r] = l => (pc[r] = l)' \/ (pc[r] \in ReadLater[l])'
  <2> SUFFICES ASSUME IInv, [Next]_vars, pc[r] = l PROVE pc'[r] = l \/ pc'[r] \in ReadLater[l]
    OBVIOUS
  <2>1. l # "idle"
    BY DEF ReadLater
  <2>2. ASSUME NEW q \in Readers, ReadBody(q) PROVE pc'[r] \in ReadLater[l]
    BY <2>2, ReadBodyLater DEF OnePair
  <2>3. ASSUME NEW w \in Writers, WStep(w) PROVE pc'[r] = l
    BY <2>3, RolesAssumption DEF WStep, Keeps, Procs
  <2>4. ASSUME NEW q \in Readers, Calls(q) PROVE FALSE
    BY <2>1, <2>4 DEF OnePair, Calls
  <2> QED BY <2>2, <2>3, <2>4, WhoSteps
<1>2. IInv /\ <<ReadBody(r)>>_vars /\ pc[r] = l => (pc[r] \in ReadLater[l])'
  BY ReadBodyLater
<1>3. pc[r] = l => ReaderCanRun(r)
  BY DEF ReaderCanRun, ReadLater
<1> QED BY <1>1, <1>2, <1>3, PTL DEF ReaderRuns, ReadAdvances

LEMMA WriteSteps ==
  ASSUME OnePair, NEW w \in Writers, NEW l \in DOMAIN WriteLater
  PROVE  []IInv /\ [][Next]_vars /\ WriterRuns(w) => WriteAdvances(w, l)
<1>1. IInv /\ [Next]_vars /\ pc[w] = l => (pc[w] = l)' \/ (pc[w] \in WriteLater[l])'
  <2> SUFFICES ASSUME IInv, [Next]_vars, pc[w] = l PROVE pc'[w] = l \/ pc'[w] \in WriteLater[l]
    OBVIOUS
  <2>1. l # "idle"
    BY DEF WriteLater
  <2>2. ASSUME NEW q \in Writers, WriteBody(q) PROVE pc'[w] \in WriteLater[l]
    BY <2>2, WriteBodyLater DEF OnePair
  <2>3. ASSUME NEW r \in Readers, RStep(r) PROVE pc'[w] = l
    BY <2>3, RolesAssumption DEF RStep, Keeps, Procs
  <2>4. ASSUME NEW q \in Writers, Calls(q) PROVE FALSE
    BY <2>1, <2>4 DEF OnePair, Calls
  <2> QED BY <2>2, <2>3, <2>4, WhoSteps
<1>2. IInv /\ <<WriteBody(w)>>_vars /\ pc[w] = l => (pc[w] \in WriteLater[l])'
  BY WriteBodyLater
<1>3. pc[w] = l => WriterCanRun(w)
  BY DEF WriterCanRun, WriteLater
<1> QED BY <1>1, <1>2, <1>3, PTL DEF WriterRuns, WriteAdvances

\* So it returns.
LEMMA ReadReturns ==
  ASSUME OnePair, NEW r \in Readers
  PROVE  []IInv /\ [][Next]_vars /\ ReaderRuns(r) => (pc[r] \in DOMAIN ReadLater ~> pc[r] = "idle")
<1> DEFINE Live == []IInv /\ [][Next]_vars /\ ReaderRuns(r)
<1>1. /\ Live => ReadAdvances(r, "r_intr")
      /\ Live => ReadAdvances(r, "r_min")
      /\ Live => ReadAdvances(r, "r_copy")
      /\ Live => ReadAdvances(r, "r_move")
      /\ Live => ReadAdvances(r, "r_load")
      /\ Live => ReadAdvances(r, "r_store")
      /\ Live => ReadAdvances(r, "r_wake")
  <2> HIDE DEF Live
  <2>1. \A l \in DOMAIN ReadLater : Live => ReadAdvances(r, l)
    BY ReadSteps DEF Live
  <2>2. {"r_intr", "r_min", "r_copy", "r_move", "r_load", "r_store", "r_wake"} = DOMAIN ReadLater
    BY DEF ReadLater
  <2> QED BY <2>1, <2>2
<1>2. /\ pc[r] \in ReadLater["r_intr"] => pc[r] = "r_min" \/ pc[r] = "idle"
      /\ pc[r] \in ReadLater["r_min"] => pc[r] = "r_copy"
      /\ pc[r] \in ReadLater["r_copy"] => pc[r] = "r_move" \/ pc[r] = "idle"
      /\ pc[r] \in ReadLater["r_move"] => pc[r] = "r_load"
      /\ pc[r] \in ReadLater["r_load"] => pc[r] = "r_store"
      /\ pc[r] \in ReadLater["r_store"] => pc[r] = "r_wake"
      /\ pc[r] \in ReadLater["r_wake"] => pc[r] = "idle"
  BY DEF ReadLater
<1>3. pc[r] \in DOMAIN ReadLater =>
        \/ pc[r] = "r_intr" \/ pc[r] = "r_min" \/ pc[r] = "r_copy" \/ pc[r] = "r_move"
        \/ pc[r] = "r_load" \/ pc[r] = "r_store" \/ pc[r] = "r_wake"
  BY DEF ReadLater
<1> QED BY <1>1, <1>2, <1>3, PTL DEF ReadAdvances

LEMMA WriteReturns ==
  ASSUME OnePair, NEW w \in Writers
  PROVE  []IInv /\ [][Next]_vars /\ WriterRuns(w) => (pc[w] \in DOMAIN WriteLater ~> pc[w] = "idle")
<1> DEFINE Live == []IInv /\ [][Next]_vars /\ WriterRuns(w)
<1>1. /\ Live => WriteAdvances(w, "w_intr")
      /\ Live => WriteAdvances(w, "w_min")
      /\ Live => WriteAdvances(w, "w_copy")
      /\ Live => WriteAdvances(w, "w_load")
      /\ Live => WriteAdvances(w, "w_store")
      /\ Live => WriteAdvances(w, "w_wake")
  <2> HIDE DEF Live
  <2>1. \A l \in DOMAIN WriteLater : Live => WriteAdvances(w, l)
    BY WriteSteps DEF Live
  <2>2. {"w_intr", "w_min", "w_copy", "w_load", "w_store", "w_wake"} = DOMAIN WriteLater
    BY DEF WriteLater
  <2> QED BY <2>1, <2>2
<1>2. /\ pc[w] \in WriteLater["w_intr"] => pc[w] = "idle"
      /\ pc[w] \in WriteLater["w_min"] => pc[w] = "w_copy"
      /\ pc[w] \in WriteLater["w_copy"] => pc[w] = "w_load" \/ pc[w] = "idle"
      /\ pc[w] \in WriteLater["w_load"] => pc[w] = "w_store"
      /\ pc[w] \in WriteLater["w_store"] => pc[w] = "w_wake"
      /\ pc[w] \in WriteLater["w_wake"] => pc[w] = "idle"
  BY DEF WriteLater
<1>3. pc[w] \in DOMAIN WriteLater =>
        \/ pc[w] = "w_intr" \/ pc[w] = "w_min" \/ pc[w] = "w_copy"
        \/ pc[w] = "w_load" \/ pc[w] = "w_store" \/ pc[w] = "w_wake"
  BY DEF WriteLater
<1> QED BY <1>1, <1>2, <1>3, PTL DEF WriteAdvances

-----------------------------------------------------------------------------
\* The way of a reader that waits while the writer stores, and of a writer
\* that waits while the reader does.

ReaderDown(r) == pc[r] \in {"r_test", "r_sleep"}
WriterDown(w) == pc[w] \in {"w_test", "w_sleep"}

ReaderUp(r) == validlen # 0 /\ (pc[r] = "r_test" \/ (pc[r] = "r_sleep" /\ r \notin waitr))
WriterUp(w) == validlen # Cap /\ (pc[w] = "w_test" \/ (pc[w] = "w_sleep" /\ w \notin waitw))

\* What becomes of a waiting reader in a step of its own.
LEMMA DownReads ==
  ASSUME IInv, NEW r \in Readers, ReadBody(r), ReaderDown(r)
  PROVE  /\ validlen' = validlen
         /\ pc[r] = "r_test" /\ validlen # 0 => pc'[r] = "r_min"
         /\ pc[r] = "r_sleep" => pc'[r] = "r_test"
         /\ ReaderDown(r)' \/ pc'[r] \in DOMAIN ReadLater
<1> USE DEF ReaderDown, lens, IInv, TypeInv, RInv, Procs, Goto, Unblocking
<1>1. ReadWait(r)
  BY DEF ReadBody, ReadTransfer, PlainReadCheck, CheckOrFail, BlockReadInterrupted, PollReadInterrupted,
         ReadMin, ReadCopy, ReadMove, Load, ReadStore, ReadWake, IoctlReturn, EpollTake, KbufPollCall
<1> QED BY <1>1 DEF ReadWait, Wait, WaitBegin, WaitTest, WaitWake, ReadLater

LEMMA DownWrites ==
  ASSUME IInv, NEW w \in Writers, WriteBody(w), WriterDown(w)
  PROVE  /\ validlen' = validlen
         /\ pc[w] = "w_test" /\ validlen # Cap => pc'[w] = "w_min"
         /\ pc[w] = "w_sleep" => pc'[w] = "w_test"
         /\ WriterDown(w)' \/ pc'[w] \in DOMAIN WriteLater
<1> USE DEF WriterDown, lens, IInv, TypeInv, WInv, Procs, Goto, Unblocking
<1>1. WriteWait(w)
  BY DEF WriteBody, WriteTransfer, PlainWriteCheck, CheckOrFail, WriteInterrupted,
         WriteMin, WriteCopy, Load, WriteStore, WriteWake, IoctlReturn
<1> QED BY <1>1 DEF WriteWait, Wait, WaitBegin, WaitTest, WaitWake, WriteLater

\* The store of a call leaves something for the waiting side, and the
\* wake_up takes it off its queue.
LEMMA StoresAndWakes ==
  ASSUME IInv, NEW r \in Readers, NEW w \in Writers
  PROVE  /\ WriteBody(w) /\ pc[w] = "w_store" => pc'[w] = "w_wake" /\ validlen' # 0
         /\ WriteBody(w) /\ pc[w] = "w_wake" /\ drv # "ioctl" => waitr' = {}
         /\ ReadBody(r) /\ pc[r] = "r_store" /\ cnt[r] > 0 => pc'[r] = "r_wake" /\ validlen' # Cap
         /\ ReadBody(r) /\ pc[r] = "r_wake" /\ drv # "ioctl" => waitw' = {}
<1> USE DEF IInv, TypeInv, RInv, WInv, Procs, Goto
<1>1. ASSUME WriteBody(w), pc[w] = "w_store" PROVE pc'[w] = "w_wake" /\ validlen' # 0
  <2>1. WriteStore(w)
    BY <1>1 DEF WriteBody, WriteTransfer, PlainWriteCheck, CheckOrFail, WriteWait, Wait, WaitBegin, WaitTest,
                WaitWake, WriteInterrupted, WriteMin, WriteCopy, Load, WriteWake, IoctlReturn
  <2> QED BY <2>1, <1>1, CapAssumption DEF WriteStore
<1>2. ASSUME WriteBody(w), pc[w] = "w_wake", drv # "ioctl" PROVE waitr' = {}
  <2>1. WriteWake(w)
    BY <1>2 DEF WriteBody, WriteTransfer, PlainWriteCheck, CheckOrFail, WriteWait, Wait, WaitBegin, WaitTest,
                WaitWake, WriteInterrupted, WriteMin, WriteCopy, Load, WriteStore, IoctlReturn
  <2> QED BY <2>1 DEF WriteWake
<1>3. ASSUME ReadBody(r), pc[r] = "r_store", cnt[r] > 0 PROVE pc'[r] = "r_wake" /\ validlen' # Cap
  <2>1. ReadStore(r)
    BY <1>3 DEF ReadBody, ReadTransfer, PlainReadCheck, CheckOrFail, ReadWait, Wait, WaitBegin, WaitTest,
                WaitWake, BlockReadInterrupted, PollReadInterrupted, ReadMin, ReadCopy, ReadMove, Load,
                ReadWake, IoctlReturn, EpollTake, KbufPollCall
  <2> QED BY <2>1, <1>3, CapAssumption DEF ReadStore
<1>4. ASSUME ReadBody(r), pc[r] = "r_wake", drv # "ioctl" PROVE waitw' = {}
  <2>1. ReadWake(r)
    BY <1>4 DEF ReadBody, ReadTransfer, PlainReadCheck, CheckOrFail, ReadWait, Wait, WaitBegin, WaitTest,
                WaitWake, BlockReadInterrupted, PollReadInterrupted, ReadMin, ReadCopy, ReadMove, Load,
                ReadStore, IoctlReturn, EpollTake, KbufPollCall
  <2> QED BY <2>1 DEF ReadWake
<1> QED BY <1>1, <1>2, <1>3, <1>4

\* A reader that is down stays down or goes on, and it does not lose the
\* bytes that it has been given.
LEMMA DownReaderSteps ==
  ASSUME OnePair, IInv, [Next]_vars, NEW r \in Readers, NEW w \in Writers, ReaderDown(r)
  PROVE  /\ ReaderDown(r)' \/ pc'[r] \in DOMAIN ReadLater
         /\ validlen # 0 => validlen' # 0
         /\ pc[w] # "idle" => pc'[w] = pc[w] \/ WriteBody(w)
         /\ ReaderUp(r) => ReaderUp(r)' \/ pc'[r] \in DOMAIN ReadLater
<1>1. pc[r] # "idle" /\ ReaderDown(r)
  BY DEF ReaderDown
<1>2. CASE RStep(r) /\ (ReadBody(r) \/ Calls(r)) /\ pc'[w] = pc[w]
  BY <1>1, <1>2, DownReads DEF Calls, ReaderUp, ReaderDown, ReadLater
<1>3. CASE WStep(w) /\ (WriteBody(w) \/ Calls(w)) /\ pc'[r] = pc[r]
  <2>1. validlen # 0 => validlen' # 0
    BY <1>3 DEF WStep, IInv, TypeInv
  <2>2. waitr' \subseteq waitr
    BY <1>3, <1>1 DEF Calls, WriteBody, WriteTransfer, PlainWriteCheck, CheckOrFail, WriteWait, Wait, WaitBegin,
         WaitTest, WaitWake, WriteInterrupted, WriteMin, WriteCopy, Load, WriteStore, WriteWake, IoctlReturn, lens, queues
  <2> QED BY <1>1, <1>3, <2>1, <2>2 DEF Calls, ReaderUp, ReaderDown
<1>4. CASE UNCHANGED <<drv, validlen, pc, cnt, queues, ready>>
  BY <1>1, <1>4 DEF ReaderUp, ReaderDown, lens, queues
<1> QED BY <1>1, <1>2, <1>3, <1>4, PairSteps

LEMMA DownWriterSteps ==
  ASSUME OnePair, IInv, [Next]_vars, NEW r \in Readers, NEW w \in Writers, WriterDown(w)
  PROVE  /\ WriterDown(w)' \/ pc'[w] \in DOMAIN WriteLater
         /\ validlen # Cap => validlen' # Cap
         /\ pc[r] # "idle" => pc'[r] = pc[r] \/ ReadBody(r)
         /\ WriterUp(w) => WriterUp(w)' \/ pc'[w] \in DOMAIN WriteLater
<1>1. pc[w] # "idle" /\ WriterDown(w)
  BY DEF WriterDown
<1>2. CASE WStep(w) /\ (WriteBody(w) \/ Calls(w)) /\ pc'[r] = pc[r]
  BY <1>1, <1>2, DownWrites DEF Calls, WriterUp, WriterDown, WriteLater
<1>3. CASE RStep(r) /\ (ReadBody(r) \/ Calls(r)) /\ pc'[w] = pc[w]
  <2>1. validlen # Cap => validlen' # Cap
    BY <1>3, CapAssumption DEF RStep, IInv, TypeInv
  <2>2. waitw' \subseteq waitw
    BY <1>3, <1>1 DEF Calls, ReadBody, ReadTransfer, PlainReadCheck, CheckOrFail, ReadWait, Wait, WaitBegin,
         WaitTest, WaitWake, BlockReadInterrupted, PollReadInterrupted, ReadMin, ReadCopy, ReadMove, Load,
         ReadStore, ReadWake, IoctlReturn, EpollTake, KbufPollCall, lens, queues
  <2> QED BY <1>1, <1>3, <2>1, <2>2 DEF Calls, WriterUp, WriterDown
<1>4. CASE UNCHANGED <<drv, validlen, pc, cnt, queues, ready>>
  BY <1>1, <1>4 DEF WriterUp, WriterDown, lens, queues
<1> QED BY <1>1, <1>2, <1>3, <1>4, PairSteps

\* A reader that has been woken, or not yet slept, goes on when it runs: it
\* looks at validlen again, at most twice.
LEMMA UpReaderReturns ==
  ASSUME OnePair, NEW r \in Readers, NEW w \in Writers
  PROVE  []IInv /\ [][Next]_vars /\ ReaderRuns(r) => (ReaderUp(r) ~> pc[r] = "idle")
<1> DEFINE Woken == ReaderUp(r) /\ pc[r] = "r_sleep"
           Looks == ReaderUp(r) /\ pc[r] = "r_test"
           Gone == pc[r] \in DOMAIN ReadLater
<1>1. ReaderUp(r) => Woken \/ Looks
  BY DEF ReaderUp
<1>2. IInv /\ [Next]_vars /\ ReaderUp(r) => (ReaderUp(r) \/ Gone)'
  BY DownReaderSteps DEF ReaderUp, ReaderDown
<1>3. IInv /\ <<ReadBody(r)>>_vars /\ Woken => (Looks \/ Gone)'
  BY DownReads, <1>2 DEF ReaderUp, ReaderDown
<1>4. IInv /\ <<ReadBody(r)>>_vars /\ Looks => Gone'
  BY DownReads DEF ReaderUp, ReaderDown, ReadLater
<1>5. IInv /\ [Next]_vars /\ Looks => (Looks \/ Gone)'
  <2> SUFFICES ASSUME IInv, [Next]_vars, Looks, ~Gone' PROVE Looks'
    OBVIOUS
  <2>1. ~(RStep(r) /\ ReadBody(r))
    BY DownReads DEF ReaderUp, ReaderDown, ReadLater
  <2>2. pc'[r] = pc[r]
    BY <2>1, PairSteps DEF ReaderUp, Calls
  <2> QED BY <2>2, <1>2
<1>6. ReaderUp(r) => ReaderCanRun(r)
  BY DEF ReaderUp, ReaderCanRun
<1>7. []IInv /\ [][Next]_vars /\ ReaderRuns(r) => (Gone ~> pc[r] = "idle")
  BY ReadReturns
<1> HIDE DEF Woken, Looks, Gone
<1>8. Woken \/ Looks => ReaderUp(r)
  BY DEF Woken, Looks
<1> QED BY <1>1, <1>2, <1>3, <1>4, <1>5, <1>6, <1>7, <1>8, PTL DEF ReaderRuns

LEMMA UpWriterReturns ==
  ASSUME OnePair, NEW r \in Readers, NEW w \in Writers
  PROVE  []IInv /\ [][Next]_vars /\ WriterRuns(w) => (WriterUp(w) ~> pc[w] = "idle")
<1> DEFINE Woken == WriterUp(w) /\ pc[w] = "w_sleep"
           Looks == WriterUp(w) /\ pc[w] = "w_test"
           Gone == pc[w] \in DOMAIN WriteLater
<1>1. WriterUp(w) => Woken \/ Looks
  BY DEF WriterUp
<1>2. IInv /\ [Next]_vars /\ WriterUp(w) => (WriterUp(w) \/ Gone)'
  BY DownWriterSteps DEF WriterUp, WriterDown
<1>3. IInv /\ <<WriteBody(w)>>_vars /\ Woken => (Looks \/ Gone)'
  BY DownWrites, <1>2 DEF WriterUp, WriterDown
<1>4. IInv /\ <<WriteBody(w)>>_vars /\ Looks => Gone'
  BY DownWrites DEF WriterUp, WriterDown, WriteLater
<1>5. IInv /\ [Next]_vars /\ Looks => (Looks \/ Gone)'
  <2> SUFFICES ASSUME IInv, [Next]_vars, Looks, ~Gone' PROVE Looks'
    OBVIOUS
  <2>1. ~(WStep(w) /\ WriteBody(w))
    BY DownWrites DEF WriterUp, WriterDown, WriteLater
  <2>2. pc'[w] = pc[w]
    BY <2>1, PairSteps DEF WriterUp, Calls
  <2> QED BY <2>2, <1>2
<1>6. WriterUp(w) => WriterCanRun(w)
  BY DEF WriterUp, WriterCanRun
<1>7. []IInv /\ [][Next]_vars /\ WriterRuns(w) => (Gone ~> pc[w] = "idle")
  BY WriteReturns
<1> HIDE DEF Woken, Looks, Gone
<1>8. Woken \/ Looks => WriterUp(w)
  BY DEF Woken, Looks
<1> QED BY <1>1, <1>2, <1>3, <1>4, <1>5, <1>6, <1>7, <1>8, PTL DEF WriterRuns

\* A writer that stores wakes the reader that waits, unless that has gone on
\* by itself; and the reader returns.
LEMMA StoreReleasesReader ==
  ASSUME OnePair, NEW r \in Readers, NEW w \in Writers
  PROVE  []IInv /\ [][Next]_vars /\ ReaderRuns(r) /\ WriterRuns(w)
         => ((pc[r] \in {"r_test", "r_sleep"} /\ pc[w] = "w_store") ~> pc[r] = "idle")
<1> DEFINE Stores == ReaderDown(r) /\ pc[w] = "w_store"
           Wakes == ReaderDown(r) /\ pc[w] = "w_wake" /\ validlen # 0
           Gone == pc[r] \in DOMAIN ReadLater
<1>1. IInv /\ [Next]_vars /\ Stores => (Stores \/ Wakes \/ Gone)'
  BY DownReaderSteps, StoresAndWakes
<1>2. IInv /\ [Next]_vars /\ WriteBody(w) /\ Stores => (Wakes \/ Gone)'
  BY DownReaderSteps, StoresAndWakes
<1>3. ASSUME IInv, [Next]_vars, WriteBody(w), Wakes PROVE ReaderUp(r)'
  <2>1. waitr' = {}
    BY <1>3, StoresAndWakes DEF ReaderDown, IInv, RInv, Unblocking
  <2>2. pc'[w] # pc[w]
    BY <1>3, WriteBodyLater DEF WriteLater
  <2>3. pc'[r] = pc[r] /\ validlen' # 0
    BY <1>3, <2>2, PairSteps, DownReaderSteps
  <2> QED BY <1>3, <2>1, <2>3 DEF ReaderUp, ReaderDown
<1>4. IInv /\ [Next]_vars /\ Wakes => (Wakes \/ ReaderUp(r) \/ Gone)'
  BY <1>3, DownReaderSteps
<1>5. IInv /\ [Next]_vars /\ WriteBody(w) /\ Wakes => ReaderUp(r)'
  BY <1>3
<1>6. Stores \/ Wakes => WriterCanRun(w)
  BY DEF WriterCanRun
<1>7. []IInv /\ [][Next]_vars /\ ReaderRuns(r) => (Gone ~> pc[r] = "idle") /\ (ReaderUp(r) ~> pc[r] = "idle")
  BY ReadReturns, UpReaderReturns, PTL
<1>8. Stores <=> pc[r] \in {"r_test", "r_sleep"} /\ pc[w] = "w_store"
  BY DEF ReaderDown
<1> HIDE DEF Stores, Wakes, Gone
<1> QED BY <1>1, <1>2, <1>4, <1>5, <1>6, <1>7, <1>8, PTL DEF WriterRuns

\* Only a process itself changes its count.
LEMMA KeptCount ==
  ASSUME OnePair, IInv, [Next]_vars, NEW r \in Readers, pc[r] # "idle", ~ReadBody(r)
  PROVE  cnt'[r] = cnt[r]
<1>1. ASSUME NEW w \in Writers, WStep(w) PROVE cnt'[r] = cnt[r]
  BY <1>1, RolesAssumption DEF WStep, Keeps, Procs
<1>2. ASSUME NEW q \in Readers, ReadBody(q) \/ Calls(q) PROVE FALSE
  BY <1>2 DEF OnePair, Calls
<1> QED BY <1>1, <1>2, WhoSteps

LEMMA StoreReleasesWriter ==
  ASSUME OnePair, NEW r \in Readers, NEW w \in Writers
  PROVE  []IInv /\ [][Next]_vars /\ ReaderRuns(r) /\ WriterRuns(w)
         => ((pc[w] \in {"w_test", "w_sleep"} /\ pc[r] = "r_store" /\ cnt[r] > 0) ~> pc[w] = "idle")
<1> DEFINE Stores == WriterDown(w) /\ pc[r] = "r_store" /\ cnt[r] > 0
           Wakes == WriterDown(w) /\ pc[r] = "r_wake" /\ validlen # Cap
           Gone == pc[w] \in DOMAIN WriteLater
<1>1. ASSUME IInv, [Next]_vars, Stores, ~ReadBody(r) PROVE (Stores \/ Gone)'
  <2>1. pc'[r] = "r_store" /\ (WriterDown(w)' \/ Gone')
    BY <1>1, DownWriterSteps
  <2>2. cnt'[r] = cnt[r]
    BY <1>1, KeptCount
  <2> QED BY <1>1, <2>1, <2>2
<1>2. IInv /\ [Next]_vars /\ Stores /\ ReadBody(r) => (Wakes \/ Gone)'
  BY DownWriterSteps, StoresAndWakes
<1>3. ASSUME IInv, [Next]_vars, ReadBody(r), Wakes PROVE WriterUp(w)'
  <2>1. waitw' = {}
    BY <1>3, StoresAndWakes DEF WriterDown, IInv, WInv, Unblocking
  <2>2. pc'[r] # pc[r]
    BY <1>3, ReadBodyLater DEF ReadLater
  <2>3. pc'[w] = pc[w] /\ validlen' # Cap
    BY <1>3, <2>2, PairSteps, DownWriterSteps
  <2> QED BY <1>3, <2>1, <2>3 DEF WriterUp, WriterDown
<1>4. IInv /\ [Next]_vars /\ Wakes => (Wakes \/ WriterUp(w) \/ Gone)'
  BY <1>3, DownWriterSteps
<1>5. IInv /\ [Next]_vars /\ ReadBody(r) /\ Wakes => WriterUp(w)'
  BY <1>3
<1>6. Stores \/ Wakes => ReaderCanRun(r)
  BY DEF ReaderCanRun
<1>7. []IInv /\ [][Next]_vars /\ WriterRuns(w) => (Gone ~> pc[w] = "idle") /\ (WriterUp(w) ~> pc[w] = "idle")
  BY WriteReturns, UpWriterReturns, PTL
<1>8. Stores <=> pc[w] \in {"w_test", "w_sleep"} /\ pc[r] = "r_store" /\ cnt[r] > 0
  BY DEF WriterDown
<1>9. IInv /\ [Next]_vars /\ Stores => (Stores \/ Wakes \/ Gone)'
  BY <1>1, <1>2
<1> HIDE DEF Stores, Wakes, Gone
<1> QED BY <1>2, <1>4, <1>5, <1>6, <1>7, <1>8, <1>9, PTL DEF ReaderRuns

\* With one reader and one writer a waiting call is released by the other
\* side's transfer, for every size of the buffer and of the transfers.
THEOREM TransfersReleaseWaiters ==
  ASSUME OnePair PROVE Spec /\ Runs => TransferReleasesWaiter
<1>1. ASSUME NEW r \in Readers, NEW w \in Writers
      PROVE  Spec /\ Runs =>
               /\ (pc[r] \in {"r_test", "r_sleep"} /\ pc[w] = "w_store") ~> pc[r] = "idle"
               /\ (pc[w] \in {"w_test", "w_sleep"} /\ pc[r] = "r_store" /\ cnt[r] > 0) ~> pc[w] = "idle"
  <2>1. Runs => ReaderRuns(r) /\ WriterRuns(w)
    BY DEF Runs
  <2>2. Spec => []IInv /\ [][Next]_vars
    BY IInvHolds, PTL DEF Spec
  <2> QED BY <2>1, <2>2, StoreReleasesReader, StoreReleasesWriter, PTL
<1> QED BY <1>1 DEF TransferReleasesWaiter

-----------------------------------------------------------------------------
\* A server that is not reading has the device on its ready list while there
\* is something to read, or a writer is about to put it there.
ServedInv ==
  \A p \in Readers : drv = "server" /\ validlen # 0 /\ pc[p] = "idle"
                       => p \in ready \/ \E w \in Writers : pc[w] = "w_wake"

\* What the body of a server's loop does with a buffer that holds something.
ServerLater ==
  [l \in {"ep_poll", "r_wait", "r_min", "r_copy", "r_move", "r_load"} |->
     CASE l = "ep_poll" -> "r_wait"
       [] l = "r_wait"  -> "r_min"
       [] l = "r_min"   -> "r_copy"
       [] l = "r_copy"  -> "r_move"
       [] l = "r_move"  -> "r_load"
       [] OTHER         -> "r_store"]

LEMMA ServerBody ==
  ASSUME IInv, NEW p \in Readers, ReadBody(p), drv = "server", validlen # 0, pc[p] # "r_store"
  PROVE  /\ validlen' = validlen
         /\ pc[p] \in DOMAIN ServerLater => pc'[p] = ServerLater[pc[p]]
         /\ pc[p] = "idle" => p \in ready /\ pc'[p] = "ep_poll"
         /\ pc'[p] = "idle" => p \in ready'
<1> USE DEF IInv, TypeInv, RInv, RLabels, Procs, lens, Goto, Return, Unblocking, ServerLater
<1>1. ~PlainReadCheck(p) /\ ~BlockReadInterrupted(p) /\ ~PollReadInterrupted(p) /\ ~IoctlReturn(p)
  BY DEF PlainReadCheck, BlockReadInterrupted, PollReadInterrupted, IoctlReturn
<1>2. CASE ReadWait(p) BY <1>2 DEF ReadWait, Wait, WaitBegin, WaitTest, WaitWake
<1>3. CASE ReadMin(p) \/ ReadCopy(p) BY <1>3 DEF ReadMin, ReadCopy
<1>4. CASE ReadMove(p) \/ Load(p, "r_load", "r_store") BY <1>4 DEF ReadMove, Load
<1>5. CASE ReadStore(p) BY <1>5 DEF ReadStore
<1>6. CASE ReadWake(p) BY <1>6 DEF ReadWake, WakePollers
<1>7. CASE EpollTake(p) \/ KbufPollCall(p) BY <1>7 DEF EpollTake, KbufPollCall, Readable
<1> QED BY <1>1, <1>2, <1>3, <1>4, <1>5, <1>6, <1>7 DEF ReadBody, ReadTransfer

\* A writer leaves the ready list alone or, at its wake_up, puts the servers on it.
LEMMA WriterReady ==
  ASSUME IInv, NEW w \in Writers, WriteBody(w), drv = "server"
  PROVE  IF pc[w] = "w_wake" THEN ready' = Readers ELSE ready' = ready
<1> USE DEF IInv, TypeInv, WInv, Procs, Goto, Return, Unblocking
<1> QED
  BY DEF WriteBody, WriteTransfer, PlainWriteCheck, CheckOrFail, WriteWait, Wait, WaitBegin,
         WaitTest, WaitWake, WriteInterrupted, WriteMin, WriteCopy, Load, WriteStore, WriteWake,
         IoctlReturn, WakePollers

\* No body loads another driver; a writer that does not wake nor will has
\* stored nothing.
LEMMA ReadBodyKeepsDriver ==
  ASSUME NEW p \in Readers, ReadBody(p)
  PROVE  drv' = drv
BY DEF ReadBody, ReadTransfer, PlainReadCheck, CheckOrFail, ReadWait, Wait, WaitBegin,
       WaitTest, WaitWake, BlockReadInterrupted, PollReadInterrupted, ReadMin, ReadCopy, ReadMove,
       Load, ReadStore, ReadWake, IoctlReturn, EpollTake, KbufPollCall

LEMMA WriterMoves ==
  ASSUME IInv, NEW w \in Writers, WriteBody(w), pc'[w] # "w_wake"
  PROVE  validlen' = validlen
BY DEF IInv, TypeInv, WInv, Procs, lens, Goto, WriteBody, WriteTransfer, PlainWriteCheck, CheckOrFail,
       WriteWait, Wait, WaitBegin, WaitTest, WaitWake, WriteInterrupted, WriteMin, WriteCopy, Load,
       WriteStore, WriteWake, IoctlReturn

LEMMA ServedStep == OnePair /\ IInv /\ ServedInv /\ [Next]_vars => ServedInv'
<1> SUFFICES ASSUME OnePair, IInv, ServedInv, [Next]_vars,
                    NEW p \in Readers, drv' = "server", validlen' # 0, pc'[p] = "idle",
                    \A w \in Writers : pc'[w] # "w_wake"
             PROVE  p \in ready'
  BY DEF ServedInv
<1>1. \A q \in Readers : q = p
  BY DEF OnePair
<1>2. CASE \E r \in Readers : RStep(r) /\ (ReadBody(r) \/ Calls(r))
  <2>1. RStep(p) /\ (ReadBody(p) \/ Calls(p))
    BY <1>1, <1>2
  <2>2. drv = "server" /\ validlen # 0
    <3>1. drv' = drv
      BY <2>1, ReadBodyKeepsDriver DEF Calls
    <3> QED BY <3>1, <2>1 DEF RStep, IInv, TypeInv
  <2>3. \A w \in Writers : pc[w] # "w_wake"
    BY <2>1, RolesAssumption DEF RStep, Keeps, Procs
  <2>4. CASE ReadBody(p)
    <3>1. pc[p] # "r_store"
      BY <2>4, ReadBodyLater DEF ReadLater
    <3> QED BY <2>2, <2>4, <3>1, ServerBody
  <2>5. CASE Calls(p)
    BY <2>2, <2>3, <2>5 DEF Calls, ServedInv
  <2> QED BY <2>1, <2>4, <2>5
<1>3. CASE \E w \in Writers : WStep(w) /\ (WriteBody(w) \/ Calls(w))
  <2>1. PICK w \in Writers : WStep(w) /\ (WriteBody(w) \/ Calls(w))
    BY <1>3
  <2>2. pc'[p] = pc[p] /\ drv' = drv
    BY <2>1, RolesAssumption DEF WStep, Keeps, Procs
  <2>3. \A q \in Writers : q = w
    BY DEF OnePair
  <2>4. CASE WriteBody(w)
    <3>1. CASE pc[w] = "w_wake"
      BY <2>2, <2>4, <3>1, WriterReady
    <3>2. CASE pc[w] # "w_wake"
      <4>1. validlen' = validlen
        BY <2>1, <2>3, <2>4, <3>2, WriterMoves
      <4> QED BY <2>2, <2>3, <2>4, <3>2, <4>1, WriterReady DEF ServedInv
    <3> QED BY <3>1, <3>2
  <2>5. CASE Calls(w)
    BY <2>2, <2>3, <2>5 DEF Calls, ServedInv
  <2> QED BY <2>1, <2>4, <2>5
<1>4. CASE UNCHANGED <<drv, validlen, pc, cnt, queues, ready>>
  BY <1>4 DEF ServedInv
<1> QED BY <1>2, <1>3, <1>4, WhoSteps

\* The bytes are there, and the server is at l.
Serving(p, l) == drv = "server" /\ validlen # 0 /\ pc[p] = l

\* While there are bytes only the server itself moves on.
LEMMA ServingSteps ==
  ASSUME OnePair, IInv, [Next]_vars, NEW p \in Readers, NEW l, Serving(p, l), l # "r_store"
  PROVE  \/ ReadBody(p)
         \/ /\ Serving(p, l)'
            /\ p \in ready => p \in ready'
            /\ \A w \in Writers : pc[w] = "w_wake" /\ WriteBody(w) => p \in ready'
            /\ \A w \in Writers : pc[w] = "w_wake" => pc'[w] = "w_wake" \/ WriteBody(w)
<1> SUFFICES ASSUME ~ReadBody(p)
             PROVE  /\ Serving(p, l)'
                    /\ p \in ready => p \in ready'
                    /\ \A w \in Writers : pc[w] = "w_wake" /\ WriteBody(w) => p \in ready'
                    /\ \A w \in Writers : pc[w] = "w_wake" => pc'[w] = "w_wake" \/ WriteBody(w)
  OBVIOUS
<1>1. ASSUME NEW r \in Readers, ReadBody(r) \/ (Calls(r) /\ drv # "server") PROVE FALSE
  BY <1>1 DEF OnePair, Serving
<1>2. CASE \E w \in Writers : WStep(w) /\ (WriteBody(w) \/ Calls(w))
  <2>1. PICK w \in Writers : WStep(w) /\ (WriteBody(w) \/ Calls(w))
    BY <1>2
  <2>2. /\ pc'[p] = pc[p] /\ drv' = drv
        /\ \A q \in Writers : q = w
    BY <2>1, RolesAssumption DEF WStep, Keeps, Procs, OnePair
  <2>3. Serving(p, l)'
    BY <2>1, <2>2 DEF Serving, WStep, IInv, TypeInv
  <2> QED BY <2>1, <2>2, <2>3, WriterReady DEF Calls, Serving
<1>3. CASE UNCHANGED <<drv, validlen, pc, cnt, queues, ready>>
  BY <1>3, WriteBodyLater DEF Serving, WriteLater
<1> QED BY <1>1, <1>2, <1>3, WhoSteps

ServerAdvances(p, l) == Serving(p, l) ~> Serving(p, ServerLater[l])

LEMMA ServerSteps ==
  ASSUME OnePair, NEW p \in Readers, NEW l \in DOMAIN ServerLater
  PROVE  []IInv /\ [][Next]_vars /\ ReaderRuns(p) => ServerAdvances(p, l)
<1>1. IInv /\ ReadBody(p) /\ Serving(p, l) => Serving(p, ServerLater[l])'
  <2> SUFFICES ASSUME IInv, ReadBody(p), Serving(p, l) PROVE Serving(p, ServerLater[l])'
    OBVIOUS
  <2>1. pc[p] # "r_store"
    BY DEF Serving, ServerLater
  <2> QED BY <2>1, ServerBody, ReadBodyKeepsDriver DEF Serving
<1>2. l # "r_store" /\ l # "idle" /\ l # "r_sleep"
  BY DEF ServerLater
<1>3. IInv /\ [Next]_vars /\ Serving(p, l) => (Serving(p, l) \/ Serving(p, ServerLater[l]))'
  BY <1>1, <1>2, ServingSteps
<1>4. Serving(p, l) => ReaderCanRun(p)
  BY <1>2 DEF Serving, ReaderCanRun
<1> QED BY <1>1, <1>3, <1>4, PTL DEF ReaderRuns, ServerAdvances

\* A server in epoll_wait takes the device off the ready list.
LEMMA ReadyIsTaken ==
  ASSUME OnePair, NEW p \in Readers
  PROVE  []IInv /\ [][Next]_vars /\ ReaderRuns(p)
         => (Serving(p, "idle") /\ p \in ready) ~> Serving(p, "ep_poll")
<1> DEFINE Listed == Serving(p, "idle") /\ p \in ready
<1>1. IInv /\ ReadBody(p) /\ Listed => Serving(p, "ep_poll")'
  BY ServerBody, ReadBodyKeepsDriver DEF Serving
<1>2. IInv /\ [Next]_vars /\ Listed => (Listed \/ Serving(p, "ep_poll"))'
  BY <1>1, ServingSteps
<1>3. Listed => ReaderCanRun(p)
  BY DEF Serving, ReaderCanRun
<1>4. Listed <=> Serving(p, "idle") /\ p \in ready
  OBVIOUS
<1> HIDE DEF Listed
<1> QED BY <1>1, <1>2, <1>3, <1>4, PTL DEF ReaderRuns

\* A writer at its wake_up puts it there.
LEMMA WakeLists ==
  ASSUME OnePair, NEW p \in Readers, NEW w \in Writers
  PROVE  []IInv /\ [][Next]_vars /\ WriterRuns(w)
         => (Serving(p, "idle") /\ pc[w] = "w_wake")
               ~> ((Serving(p, "idle") /\ p \in ready) \/ Serving(p, "ep_poll"))
<1> DEFINE Listed == Serving(p, "idle") /\ p \in ready
           Wakes == Serving(p, "idle") /\ pc[w] = "w_wake"
<1>1. IInv /\ ReadBody(p) /\ Wakes => Serving(p, "ep_poll")'
  BY ServerBody, ReadBodyKeepsDriver DEF Serving
<1>2. IInv /\ [Next]_vars /\ Wakes => (Wakes \/ Listed \/ Serving(p, "ep_poll"))'
  BY <1>1, ServingSteps
<1>3. IInv /\ [Next]_vars /\ WriteBody(w) /\ Wakes => (Listed \/ Serving(p, "ep_poll"))'
  BY <1>1, ServingSteps
<1>4. Wakes => WriterCanRun(w)
  BY DEF WriterCanRun
<1>5. /\ Listed <=> Serving(p, "idle") /\ p \in ready
      /\ Wakes <=> Serving(p, "idle") /\ pc[w] = "w_wake"
  OBVIOUS
<1> HIDE DEF Listed, Wakes
<1> QED BY <1>2, <1>3, <1>4, <1>5, PTL DEF WriterRuns

LEMMA ServedInvHolds == ASSUME OnePair PROVE Spec => []IInv /\ []ServedInv /\ [][Next]_vars
<1>1. Init => ServedInv
  BY DEF Init, ServedInv
<1> QED BY <1>1, InitIInv, NextIInv, ServedStep, PTL DEF Spec

\* A server is not left asleep over a buffer that holds something: whatever
\* is stored there gets the device on the list that the server sleeps over,
\* and the read that follows takes at least one byte.
THEOREM ServersFetch ==
  ASSUME OnePair PROVE Spec /\ Runs => DataIsServed
<1>1. ASSUME NEW p \in Readers
      PROVE  Spec /\ Runs => (drv = "server" /\ validlen # 0 /\ pc[p] \in {"idle", "ep_poll"})
                                ~> (pc[p] = "r_store" /\ cnt[p] > 0)
  <2> DEFINE Live == []IInv /\ [][Next]_vars /\ ReaderRuns(p)
             Woken == \E w \in Writers : pc[w] = "w_wake"
             Listed == Serving(p, "idle") /\ p \in ready
             Takes == pc[p] = "r_store" /\ cnt[p] > 0
  <2>1. Runs => ReaderRuns(p)
    BY DEF Runs
  <2>2. /\ Live => ServerAdvances(p, "ep_poll")
        /\ Live => ServerAdvances(p, "r_wait")
        /\ Live => ServerAdvances(p, "r_min")
        /\ Live => ServerAdvances(p, "r_copy")
        /\ Live => ServerAdvances(p, "r_move")
        /\ Live => ServerAdvances(p, "r_load")
    <3> HIDE DEF Live
    <3>1. \A l \in DOMAIN ServerLater : Live => ServerAdvances(p, l)
      BY ServerSteps DEF Live
    <3>2. {"ep_poll", "r_wait", "r_min", "r_copy", "r_move", "r_load"} = DOMAIN ServerLater
      BY DEF ServerLater
    <3> QED BY <3>1, <3>2
  <2>3. /\ ServerLater["ep_poll"] = "r_wait" /\ ServerLater["r_wait"] = "r_min"
        /\ ServerLater["r_min"] = "r_copy" /\ ServerLater["r_copy"] = "r_move"
        /\ ServerLater["r_move"] = "r_load" /\ ServerLater["r_load"] = "r_store"
    BY DEF ServerLater
  <2>4. /\ Serving(p, ServerLater["ep_poll"]) <=> Serving(p, "r_wait")
        /\ Serving(p, ServerLater["r_wait"]) <=> Serving(p, "r_min")
        /\ Serving(p, ServerLater["r_min"]) <=> Serving(p, "r_copy")
        /\ Serving(p, ServerLater["r_copy"]) <=> Serving(p, "r_move")
        /\ Serving(p, ServerLater["r_move"]) <=> Serving(p, "r_load")
        /\ Serving(p, ServerLater["r_load"]) <=> Serving(p, "r_store")
    BY <2>3
  <2>5. drv = "server" /\ validlen # 0 /\ pc[p] \in {"idle", "ep_poll"}
          => Serving(p, "idle") \/ Serving(p, "ep_poll")
    BY DEF Serving
  <2>6. ServedInv /\ Serving(p, "idle") => Listed \/ (Serving(p, "idle") /\ Woken)
    BY DEF ServedInv, Serving
  <2>7. Spec /\ Runs => (Serving(p, "idle") /\ Woken) ~> (Listed \/ Serving(p, "ep_poll"))
    <3>1. CASE Writers = {}
      <4>1. ~Woken
        BY <3>1
      <4> HIDE DEF Woken
      <4> QED BY <4>1, PTL
    <3>2. ASSUME NEW w \in Writers
          PROVE  Spec /\ Runs => (Serving(p, "idle") /\ Woken) ~> (Listed \/ Serving(p, "ep_poll"))
      <4>1. Woken => pc[w] = "w_wake"
        BY DEF OnePair
      <4>2. Runs => WriterRuns(w)
        BY DEF Runs
      <4> HIDE DEF Woken
      <4> QED BY <4>1, <4>2, ServedInvHolds, WakeLists, PTL
    <3> QED BY <3>1, <3>2
  <2>8. IInv /\ Serving(p, "r_store") => Takes
    BY DEF Serving, IInv, RInv
  <2>9. Takes <=> pc[p] = "r_store" /\ cnt[p] > 0
    OBVIOUS
  <2> HIDE DEF Woken, Takes
  <2> QED
    BY <2>1, <2>2, <2>4, <2>5, <2>6, <2>7, <2>8, <2>9, ServedInvHolds, ReadyIsTaken, PTL DEF ServerAdvances
<1> QED BY <1>1 DEF DataIsServed

\* Reader and writer are never both asleep: a reader sleeps over an empty
\* buffer and a writer over a full one, or a wake_up is on its way - and it
\* is the other's.  (A signal can always be sent, so this is not a deadlock
\* to TLC.)
THEOREM NotBothAsleep ==
  ASSUME OnePair, NEW r \in Readers, NEW w \in Writers
  PROVE  Spec => []~(pc[r] = "r_sleep" /\ r \in waitr /\ pc[w] = "w_sleep" /\ w \in waitw)
<1>1. IInv => ~(pc[r] = "r_sleep" /\ r \in waitr /\ pc[w] = "w_sleep" /\ w \in waitw)
  BY CapAssumption DEF OnePair, IInv, NobodySleepsThrough
<1> QED BY <1>1, IInvHolds, PTL

=============================================================================
