---------------------------- MODULE KbufDevProofs ----------------------------
(***************************************************************************)
(* The mutex-locked device for every number of processes, every buffer     *)
(* size and every count: safety, the refinement of ByteFifo, and that all  *)
(* calls return.  The inductive invariant adds to the three invariants TLC *)
(* checks what a call in progress knows of its own buffer                  *)
(* (CallKnows): without it the copies could not be typed, nor the bounds   *)
(* of a transfer be established at the check.  With what is known of the   *)
(* bytes (Data) the same steps are shown to implement ByteFifo.            *)
(***************************************************************************)
EXTENDS KbufDev, SequenceTheorems, TLAPS

CallKnows ==
  \A p \in Procs :
    /\ pc[p] \in {"r_lock", "r_check", "w_lock", "w_check"} =>
         cnt[p] = Len(ubuf[p]) /\ cnt[p] > 0
    /\ pc[p] = "w_copy" => cnt[p] <= Len(ubuf[p])

IInv == TypeOK /\ LockDiscipline /\ TransferInBounds /\ CallKnows

\* What the elements of UserData are: sequences of bytes of a bounded length.
LEMMA UserDataIsSeq ==
  ASSUME NEW s \in UserData
  PROVE  /\ Len(s) \in 0..MaxCnt
         /\ s \in [1..Len(s) -> Byte]
         /\ s = << >> <=> Len(s) = 0
<1>1. PICK n \in 0..MaxCnt : s \in [1..n -> Byte]
  BY DEF UserData
<1>2. n \in Nat
  BY <1>1, MaxCntAssumption
<1>3. Len(s) = n
  BY <1>1, <1>2
<1> QED
  BY <1>1, <1>2, <1>3, MaxCntAssumption

\* A sequence of bytes that is short enough is user data.
LEMMA SeqIsUserData ==
  ASSUME NEW n \in 0..MaxCnt, NEW s \in [1..n -> Byte]
  PROVE  s \in UserData
BY DEF UserData

\* At the start nobody is in a call and the buffer is empty.
LEMMA InitIInv == Init => IInv
<1> SUFFICES ASSUME Init PROVE IInv
  OBVIOUS
<1> USE DEF Init
<1>1. << >> \in UserData
  <2>1. << >> \in [1..0 -> Byte] /\ 0 \in 0..MaxCnt
    BY MaxCntAssumption
  <2> QED BY <2>1, SeqIsUserData
<1>2. TypeOK
  BY <1>1, CapAssumption, MaxCntAssumption, ZeroAssumption DEF TypeOK, Labels
<1>3. LockDiscipline /\ TransferInBounds /\ CallKnows
  BY NoProcAssumption DEF LockDiscipline, TransferInBounds, CallKnows, Critical, Labels
<1> QED BY <1>2, <1>3 DEF IInv

\* A new call: whatever its buffer, the other processes are not disturbed.
LEMMA EnterIInv ==
  ASSUME IInv, NEW p \in Procs, NEW s \in UserData,
         NEW l \in {"r_lock", "w_lock"}, Enter(p, s, l)
  PROVE  IInv'
<1> USE DEF Enter, Goto
<1>1. Len(s) \in 0..MaxCnt /\ (s = << >> <=> Len(s) = 0)
  BY UserDataIsSeq
<1>2. TypeOK'
  BY <1>1, MaxCntAssumption DEF IInv, TypeOK, Labels
<1>3. LockDiscipline'
  BY DEF IInv, TypeOK, LockDiscipline, Critical, Labels
<1>4. TransferInBounds'
  BY DEF IInv, TypeOK, TransferInBounds
<1>5. CallKnows'
  BY <1>1 DEF IInv, TypeOK, CallKnows
<1> QED BY <1>2, <1>3, <1>4, <1>5 DEF IInv

\* A failing call keeps the mutex for its last step, the unlock.
LEMMA FailIInv ==
  ASSUME IInv, NEW p \in Procs, NEW err \in Errors, Fail(p, err),
         pc[p] \in {"r_check", "r_copy", "w_check", "w_copy"},
         kbuf' \in [1..Cap -> Byte], UNCHANGED <<validlen, mutex, cnt>>
  PROVE  IInv'
<1> USE DEF Fail, Goto
<1>1. << >> \in UserData
  <2>1. << >> \in [1..0 -> Byte] /\ 0 \in 0..MaxCnt
    BY MaxCntAssumption
  <2> QED BY <2>1, SeqIsUserData
<1>2. TypeOK'
  BY <1>1 DEF IInv, TypeOK, Labels
<1>3. LockDiscipline'
  BY DEF IInv, TypeOK, LockDiscipline, Critical, Labels
<1>4. TransferInBounds'
  BY DEF IInv, TypeOK, TransferInBounds
<1>5. CallKnows'
  BY DEF IInv, TypeOK, CallKnows
<1> QED BY <1>2, <1>3, <1>4, <1>5 DEF IInv

\* The lock is free, so no process is inside and the newcomer is alone.
LEMMA MutexLockIInv ==
  ASSUME IInv, NEW p \in Procs, MutexLock(p)
  PROVE  IInv'
<1> USE DEF MutexLock, Goto
<1>1. TypeOK'
  BY DEF IInv, TypeOK, Labels
<1>2. LockDiscipline'
  BY NoProcAssumption DEF IInv, TypeOK, LockDiscipline, Critical, Labels
<1>3. TransferInBounds' /\ CallKnows'
  BY DEF IInv, TypeOK, TransferInBounds, CallKnows
<1> QED BY <1>1, <1>2, <1>3 DEF IInv

\* The unlock is the last step of a call: nobody is inside after it.
LEMMA MutexUnlockIInv ==
  ASSUME IInv, NEW p \in Procs, MutexUnlock(p)
  PROVE  IInv'
<1> USE DEF MutexUnlock, Goto
<1>1. TypeOK'
  BY DEF IInv, TypeOK, Labels
<1>2. LockDiscipline'
  BY NoProcAssumption DEF IInv, TypeOK, LockDiscipline, Critical, Labels
<1>3. TransferInBounds' /\ CallKnows'
  BY DEF IInv, TypeOK, TransferInBounds, CallKnows
<1> QED BY <1>1, <1>2, <1>3 DEF IInv

\* The two steps that change validlen do so while nobody else is inside.
LEMMA ReadLenIInv ==
  ASSUME IInv, NEW p \in Procs, ReadLen(p)
  PROVE  IInv'
<1> USE DEF ReadLen, Goto
<1>1. cnt[p] \in 1..validlen
  BY DEF IInv, TransferInBounds
<1>2. TypeOK'
  BY <1>1, CapAssumption DEF IInv, TypeOK, Labels
<1>3. LockDiscipline'
  BY DEF IInv, TypeOK, LockDiscipline, Critical, Labels
<1>4. TransferInBounds'
  BY DEF IInv, TypeOK, LockDiscipline, Critical, Labels, TransferInBounds
<1>5. CallKnows'
  BY DEF IInv, TypeOK, CallKnows
<1> QED BY <1>2, <1>3, <1>4, <1>5 DEF IInv

\* kbuf_write adds to validlen what it has copied, and had found room for.
LEMMA WriteLenIInv ==
  ASSUME IInv, NEW p \in Procs, WriteLen(p)
  PROVE  IInv'
<1> USE DEF WriteLen, Goto
<1>1. cnt[p] \in 1..(Cap - validlen)
  BY DEF IInv, TransferInBounds
<1>2. << >> \in UserData
  <2>1. << >> \in [1..0 -> Byte] /\ 0 \in 0..MaxCnt
    BY MaxCntAssumption
  <2> QED BY <2>1, SeqIsUserData
<1>3. TypeOK'
  BY <1>1, <1>2, CapAssumption DEF IInv, TypeOK, Labels
<1>4. LockDiscipline'
  BY DEF IInv, TypeOK, LockDiscipline, Critical, Labels
<1>5. TransferInBounds'
  BY DEF IInv, TypeOK, LockDiscipline, Critical, Labels, TransferInBounds
<1>6. CallKnows'
  BY DEF IInv, TypeOK, CallKnows
<1> QED BY <1>3, <1>4, <1>5, <1>6 DEF IInv

\* kbuf_read looks at validlen under the mutex: what it takes is valid.
LEMMA ReadCheckIInv ==
  ASSUME IInv, NEW p \in Procs, ReadCheck(p)
  PROVE  IInv'
<1>1. CASE validlen = 0
  <2>1. Fail(p, EAGAIN) /\ UNCHANGED <<kbuf, validlen, mutex, cnt>> /\ pc[p] = "r_check"
    BY <1>1 DEF ReadCheck
  <2> QED BY <2>1, FailIInv DEF IInv, TypeOK, Errors
<1>2. CASE validlen # 0
  <2> USE <1>2 DEF ReadCheck, Goto
  <2>1. validlen \in 1..Cap /\ cnt[p] \in 0..MaxCnt /\ cnt[p] > 0
    BY CapAssumption DEF IInv, TypeOK, CallKnows
  <2>2. MinOf(cnt[p], validlen) \in 1..validlen /\ MinOf(cnt[p], validlen) \in 0..MaxCnt
    BY <2>1, CapAssumption, MaxCntAssumption DEF MinOf
  <2>3. TypeOK'
    BY <2>2 DEF IInv, TypeOK, Labels
  <2>4. LockDiscipline'
    BY DEF IInv, TypeOK, LockDiscipline, Critical, Labels
  <2>5. TransferInBounds'
    BY <2>2 DEF IInv, TypeOK, TransferInBounds
  <2>6. CallKnows'
    BY DEF IInv, TypeOK, CallKnows
  <2> QED BY <2>3, <2>4, <2>5, <2>6 DEF IInv
<1> QED BY <1>1, <1>2

\* kbuf_write looks at the free space under the mutex: what it writes fits.
LEMMA WriteCheckIInv ==
  ASSUME IInv, NEW p \in Procs, WriteCheck(p)
  PROVE  IInv'
<1>1. CASE validlen = Cap
  <2>1. Fail(p, ENOSPC) /\ UNCHANGED <<kbuf, validlen, mutex, cnt>> /\ pc[p] = "w_check"
    BY <1>1 DEF WriteCheck
  <2> QED BY <2>1, FailIInv DEF IInv, TypeOK, Errors
<1>2. CASE validlen # Cap
  <2> USE <1>2 DEF WriteCheck, Goto
  <2> DEFINE n == MinOf(cnt[p], Cap - validlen)
  <2>1. validlen \in 0..(Cap - 1) /\ cnt[p] \in 0..MaxCnt /\ cnt[p] > 0 /\ cnt[p] = Len(ubuf[p])
    BY CapAssumption DEF IInv, TypeOK, CallKnows
  <2>2. n \in 1..(Cap - validlen) /\ n \in 0..MaxCnt /\ n <= cnt[p]
    BY <2>1, CapAssumption, MaxCntAssumption DEF MinOf
  <2>3. cnt' = [cnt EXCEPT ![p] = n]
    OBVIOUS
  <2> HIDE DEF n
  <2>4. TypeOK'
    BY <2>2, <2>3 DEF IInv, TypeOK, Labels
  <2>5. LockDiscipline'
    BY DEF IInv, TypeOK, LockDiscipline, Critical, Labels
  <2>6. TransferInBounds'
    BY <2>2, <2>3 DEF IInv, TypeOK, TransferInBounds
  <2>7. CallKnows'
    BY <2>1, <2>2, <2>3 DEF IInv, TypeOK, CallKnows
  <2> QED BY <2>4, <2>5, <2>6, <2>7 DEF IInv
<1> QED BY <1>1, <1>2

\* memmove shifts the bytes and leaves the lengths as they are.
LEMMA ReadMoveIInv ==
  ASSUME IInv, NEW p \in Procs, ReadMove(p)
  PROVE  IInv'
<1> USE DEF ReadMove, Goto
<1>1. cnt[p] \in 1..validlen /\ validlen \in 0..Cap
  BY DEF IInv, TypeOK, TransferInBounds
<1>2. kbuf' \in [1..Cap -> Byte]
  BY <1>1, CapAssumption DEF IInv, TypeOK
<1>3. TypeOK'
  BY <1>2 DEF IInv, TypeOK, Labels
<1>4. LockDiscipline'
  BY DEF IInv, TypeOK, LockDiscipline, Critical, Labels
<1>5. TransferInBounds' /\ CallKnows'
  BY DEF IInv, TypeOK, TransferInBounds, CallKnows
<1> QED BY <1>3, <1>4, <1>5 DEF IInv

\* copy_to_user changes what the caller has, not the device.
LEMMA ReadCopyIInv ==
  ASSUME IInv, NEW p \in Procs, ReadCopy(p)
  PROVE  IInv'
<1>1. CASE Fail(p, EIO)
  <2>1. UNCHANGED <<kbuf, validlen, mutex, cnt>> /\ pc[p] = "r_copy"
    BY DEF ReadCopy
  <2> QED BY <1>1, <2>1, FailIInv DEF IInv, TypeOK, Errors
<1>2. CASE pc' = [pc EXCEPT ![p] = "r_move"]
  <2> DEFINE s == [i \in DOMAIN ubuf[p] |-> IF i <= cnt[p] THEN kbuf[i] ELSE ubuf[p][i]]
  <2>1. /\ pc[p] = "r_copy" /\ ubuf' = [ubuf EXCEPT ![p] = s]
        /\ UNCHANGED <<kbuf, validlen, mutex, cnt, ret>>
    BY <1>2 DEF ReadCopy, Fail, Goto, IInv, TypeOK
  <2>2. cnt[p] \in 1..validlen /\ validlen \in 0..Cap
    BY <2>1 DEF IInv, TypeOK, TransferInBounds
  <2>3. ubuf[p] \in UserData
    BY DEF IInv, TypeOK
  <2>4. Len(ubuf[p]) \in 0..MaxCnt /\ ubuf[p] \in [1..Len(ubuf[p]) -> Byte]
    BY <2>3, UserDataIsSeq
  <2>5. s \in [1..Len(ubuf[p]) -> Byte]
    BY <2>2, <2>4, CapAssumption, MaxCntAssumption DEF IInv, TypeOK
  <2>6. s \in UserData
    BY <2>4, <2>5, SeqIsUserData
  <2> HIDE DEF s
  <2>7. TypeOK'
    BY <1>2, <2>1, <2>6 DEF IInv, TypeOK, Labels
  <2>8. LockDiscipline'
    BY <1>2, <2>1 DEF IInv, TypeOK, LockDiscipline, Critical, Labels
  <2>9. TransferInBounds' /\ CallKnows'
    BY <1>2, <2>1 DEF IInv, TypeOK, TransferInBounds, CallKnows
  <2> QED BY <2>7, <2>8, <2>9 DEF IInv
<1> QED BY <1>1, <1>2 DEF ReadCopy, Goto

\* Whatever part of the data arrives, the buffer is a buffer of bytes.
LEMMA ReceivedIsBuffer ==
  ASSUME IInv, NEW p \in Procs, pc[p] = "w_copy", NEW k \in 0..cnt[p]
  PROVE  Received(p, k) \in [1..Cap -> Byte]
<1>1. /\ cnt[p] \in 1..(Cap - validlen) /\ validlen \in 0..Cap /\ cnt[p] <= Len(ubuf[p])
      /\ kbuf \in [1..Cap -> Byte] /\ ubuf[p] \in UserData
  BY DEF IInv, TypeOK, TransferInBounds, CallKnows
<1>2. Len(ubuf[p]) \in 0..MaxCnt /\ ubuf[p] \in [1..Len(ubuf[p]) -> Byte]
  BY <1>1, UserDataIsSeq
<1> SUFFICES ASSUME NEW i \in 1..Cap PROVE Received(p, k)[i] \in Byte
  BY DEF Received
<1>3. CASE i <= validlen \/ i > validlen + cnt[p]
  BY <1>1, <1>3, CapAssumption DEF Received
<1>4. CASE i > validlen /\ i <= validlen + cnt[p] /\ i <= validlen + k
  <2>1. i - validlen \in 1..Len(ubuf[p])
    BY <1>1, <1>2, <1>4, CapAssumption, MaxCntAssumption
  <2>2. ubuf[p][i - validlen] \in Byte
    BY <1>2, <2>1
  <2> QED BY <1>1, <1>4, <2>2, CapAssumption DEF Received
<1>5. CASE i > validlen /\ i <= validlen + cnt[p] /\ i > validlen + k
  BY <1>1, <1>5, CapAssumption, ZeroAssumption DEF Received
<1> QED BY <1>1, <1>3, <1>4, <1>5, CapAssumption

\* copy_from_user fills free space, wholly or in part when it faults.
LEMMA WriteCopyIInv ==
  ASSUME IInv, NEW p \in Procs, WriteCopy(p)
  PROVE  IInv'
<1>0. pc[p] = "w_copy" /\ cnt[p] \in 1..(Cap - validlen) /\ UNCHANGED <<validlen, mutex, cnt>>
  BY DEF WriteCopy, IInv, TransferInBounds
<1>1. CASE Fail(p, EIO) /\ \E k \in 0..(cnt[p] - 1) : kbuf' = Received(p, k)
  <2>1. PICK k \in 0..(cnt[p] - 1) : kbuf' = Received(p, k)
    BY <1>1
  <2>2. k \in 0..cnt[p]
    BY <1>0, CapAssumption DEF IInv, TypeOK
  <2>3. kbuf' \in [1..Cap -> Byte]
    BY <1>0, <2>1, <2>2, ReceivedIsBuffer
  <2> QED BY <1>0, <1>1, <2>3, FailIInv DEF Errors
<1>2. CASE kbuf' = Received(p, cnt[p]) /\ Goto(p, "w_len") /\ UNCHANGED <<ubuf, ret>>
  <2>1. cnt[p] \in 0..cnt[p]
    BY <1>0, CapAssumption DEF IInv, TypeOK
  <2>2. kbuf' \in [1..Cap -> Byte]
    BY <1>0, <1>2, <2>1, ReceivedIsBuffer
  <2>3. TypeOK'
    BY <1>0, <1>2, <2>2 DEF IInv, TypeOK, Labels, Goto
  <2>4. LockDiscipline'
    BY <1>0, <1>2 DEF IInv, TypeOK, LockDiscipline, Critical, Labels, Goto
  <2>5. TransferInBounds' /\ CallKnows'
    BY <1>0, <1>2 DEF IInv, TypeOK, TransferInBounds, CallKnows, Goto
  <2> QED BY <2>3, <2>4, <2>5 DEF IInv
<1> QED BY <1>1, <1>2 DEF WriteCopy

\* Every step keeps the invariant.
LEMMA NextIInv == IInv /\ [Next]_vars => IInv'
<1> SUFFICES ASSUME IInv, [Next]_vars PROVE IInv'
  OBVIOUS
<1>1. CASE UNCHANGED vars
  BY <1>1 DEF vars, IInv, TypeOK, LockDiscipline, TransferInBounds, CallKnows
<1>2. ASSUME NEW p \in Procs, ReadCall(p) PROVE IInv'
  <2>1. PICK n \in 0..MaxCnt : Enter(p, [i \in 1..n |-> Zero], "r_lock")
    BY <1>2 DEF ReadCall
  <2>2. [i \in 1..n |-> Zero] \in UserData
    BY ZeroAssumption, SeqIsUserData
  <2> QED BY <2>1, <2>2, EnterIInv
<1>3. ASSUME NEW p \in Procs, WriteCall(p) PROVE IInv'
  BY <1>3, EnterIInv DEF WriteCall
<1>4. ASSUME NEW p \in Procs, Body(p) PROVE IInv'
  BY <1>4, ReadCheckIInv, ReadCopyIInv, ReadMoveIInv, ReadLenIInv, WriteCheckIInv,
     WriteCopyIInv, WriteLenIInv, MutexUnlockIInv DEF Body
<1> QED BY <1>1, <1>2, <1>3, <1>4, MutexLockIInv DEF Next

\* The strengthened invariant holds in every reachable state.
THEOREM Invariance == Spec => []IInv
BY InitIInv, NextIInv, PTL DEF Spec

\* The mutex is held exactly by the process between lock and unlock, on every
\* path of kbuf_read and kbuf_write.
THEOREM LockSafety == Spec => []LockDiscipline
BY Invariance, PTL DEF IInv

\* No transfer leaves the 512 bytes, however many processes call.
THEOREM BoundsSafety == Spec => []TransferInBounds
BY Invariance, PTL DEF IInv

\* Every variable keeps its type.
THEOREM TypeSafety == Spec => []TypeOK
BY Invariance, PTL DEF IInv

\* Two processes are never in the buffer at once.
THEOREM MutualExclusion ==
  Spec => [](\A p, r \in Procs : pc[p] \in Critical /\ pc[r] \in Critical => p = r)
<1>1. IInv => \A p, r \in Procs : pc[p] \in Critical /\ pc[r] \in Critical => p = r
  BY DEF IInv, LockDiscipline
<1> QED BY <1>1, Invariance, PTL

-----------------------------------------------------------------------------
(***************************************************************************)
(* KbufDev implements ByteFifo.  What is needed beyond IInv is about the   *)
(* bytes: which of them a transfer in progress has already copied (Data).  *)
(***************************************************************************)
Data(p) ==
  /\ pc[p] \in {"r_copy", "r_move", "r_len"} => cnt[p] = MinOf(Len(ubuf[p]), validlen)
  /\ pc[p] = "r_move" => \A i \in 1..cnt[p] : ubuf[p][i] = kbuf[i]
  /\ pc[p] \in {"w_copy", "w_len"} => cnt[p] = MinOf(Len(ubuf[p]), Cap - validlen)
  /\ pc[p] = "w_len" => \A i \in 1..cnt[p] : kbuf[validlen + i] = ubuf[p][i]

DInv == IInv /\ \A p \in Procs : Data(p)

\* What a step of p leaves alone: the other processes, and, outside the lock,
\* the buffer.
OthersStay(p) ==
  /\ \A o \in Procs \ {p} : /\ pc'[o] = pc[o] /\ cnt'[o] = cnt[o]
                            /\ ubuf'[o] = ubuf[o] /\ ret'[o] = ret[o]
  /\ pc[p] \in Critical \/ UNCHANGED <<kbuf, validlen>>

Step(p) == ReadCall(p) \/ WriteCall(p) \/ MutexLock(p) \/ Body(p)

LEMMA StepLeavesOthers ==
  ASSUME IInv, NEW p \in Procs, Step(p)
  PROVE  OthersStay(p)
<1> USE DEF IInv, TypeOK, OthersStay, Critical, Labels, Goto
<1>1. CASE ReadCall(p) \/ WriteCall(p) BY <1>1 DEF ReadCall, WriteCall, Enter
<1>2. CASE MutexLock(p) \/ MutexUnlock(p) BY <1>2 DEF MutexLock, MutexUnlock
<1>3. CASE ReadCheck(p) BY <1>3 DEF ReadCheck, Fail
<1>4. CASE ReadCopy(p) BY <1>4 DEF ReadCopy, Fail
<1>5. CASE ReadMove(p) \/ ReadLen(p) BY <1>5 DEF ReadMove, ReadLen
<1>6. CASE WriteCheck(p) BY <1>6 DEF WriteCheck, Fail
<1>7. CASE WriteCopy(p) BY <1>7 DEF WriteCopy, Fail
<1>8. CASE WriteLen(p) BY <1>8 DEF WriteLen
<1>9. QED BY <1>1, <1>2, <1>3, <1>4, <1>5, <1>6, <1>7, <1>8 DEF Step, Body

LEMMA Alone ==
  ASSUME IInv, NEW p \in Procs, NEW o \in Procs, pc[p] \in Critical, pc[o] \in Critical
  PROVE  p = o
BY DEF IInv, LockDiscipline

\* The bytes of the other transfers: there is none while p changes the buffer.
LEMMA OthersKeepData ==
  ASSUME DInv, NEW p \in Procs, OthersStay(p), NEW o \in Procs \ {p}
  PROVE  Data(o)'
<1>1. CASE UNCHANGED <<kbuf, validlen>>
  BY <1>1 DEF DInv, OthersStay, Data, MinOf
<1>2. CASE pc[p] \in Critical
  <2>1. pc[o] \notin Critical /\ pc[o] \in Labels
    BY <1>2, Alone DEF DInv, IInv, TypeOK
  <2>2. QED BY <2>1 DEF OthersStay, Data, Critical, Labels
<1>3. QED BY <1>1, <1>2 DEF OthersStay

LEMMA StepKeepsData ==
  ASSUME DInv, NEW p \in Procs, Step(p)
  PROVE  Data(p)'
<1> USE DEF DInv, IInv, TypeOK, Goto
<1>1. CASE ReadCall(p) \/ WriteCall(p) BY <1>1 DEF ReadCall, WriteCall, Enter, Data
<1>2. CASE MutexLock(p) \/ MutexUnlock(p) BY <1>2 DEF MutexLock, MutexUnlock, Data
<1>3. CASE ReadCheck(p)
  BY <1>3 DEF ReadCheck, Fail, Data, CallKnows, MinOf
<1>4. CASE ReadCopy(p)
  <2>1. CASE Fail(p, EIO) BY <2>1 DEF Fail, Data
  <2>2. CASE pc' = [pc EXCEPT ![p] = "r_move"]
    <3> DEFINE s == [i \in DOMAIN ubuf[p] |-> IF i <= cnt[p] THEN kbuf[i] ELSE ubuf[p][i]]
    <3>1. /\ pc[p] = "r_copy" /\ ubuf'[p] = s /\ UNCHANGED <<kbuf, validlen, cnt>>
      BY <1>4, <2>2 DEF ReadCopy, Fail
    <3>2. Len(ubuf[p]) \in Nat /\ ubuf[p] \in [1..Len(ubuf[p]) -> Byte]
      BY UserDataIsSeq, MaxCntAssumption
    <3>3. cnt[p] = MinOf(Len(ubuf[p]), validlen) /\ cnt[p] \in 1..validlen /\ validlen \in Nat
      BY <3>1, CapAssumption DEF Data, TransferInBounds
    <3>4. cnt[p] <= Len(ubuf[p]) BY <3>2, <3>3 DEF MinOf
    <3>5. Len(s) = Len(ubuf[p]) /\ \A i \in 1..cnt[p] : s[i] = kbuf[i]
      BY <3>2, <3>3, <3>4
    <3> HIDE DEF s
    <3>6. QED BY <2>2, <3>1, <3>3, <3>5 DEF Data
  <2>3. QED BY <1>4, <2>1, <2>2 DEF ReadCopy
<1>5. CASE ReadMove(p) BY <1>5 DEF ReadMove, Data
<1>6. CASE ReadLen(p) BY <1>6 DEF ReadLen, Data
<1>7. CASE WriteCheck(p)
  BY <1>7 DEF WriteCheck, Fail, Data, CallKnows, MinOf
<1>8. CASE WriteCopy(p)
  <2>1. CASE Fail(p, EIO) BY <2>1 DEF Fail, Data
  <2>2. CASE kbuf' = Received(p, cnt[p]) /\ pc' = [pc EXCEPT ![p] = "w_len"] /\ UNCHANGED ubuf
    <3>1. pc[p] = "w_copy" /\ UNCHANGED <<validlen, cnt>> BY <1>8 DEF WriteCopy
    <3>2. cnt[p] = MinOf(Len(ubuf[p]), Cap - validlen) /\ cnt[p] \in 1..(Cap - validlen)
          /\ validlen \in 0..Cap
      BY <3>1 DEF Data, TransferInBounds
    <3>3. \A i \in 1..cnt[p] : Received(p, cnt[p])[validlen + i] = ubuf[p][i]
      BY <3>2, CapAssumption DEF Received
    <3>4. QED BY <2>2, <3>1, <3>2, <3>3 DEF Data
  <2>3. QED BY <1>8, <2>1, <2>2 DEF WriteCopy
<1>9. CASE WriteLen(p) BY <1>9 DEF WriteLen, Data
<1>10. QED BY <1>1, <1>2, <1>3, <1>4, <1>5, <1>6, <1>7, <1>8, <1>9 DEF Step, Body

LEMMA DataInvariance == Spec => []DInv
<1>1. Init => DInv
  BY InitIInv DEF Init, DInv, Data
<1>2. DInv /\ [Next]_vars => DInv'
  <2> SUFFICES ASSUME DInv, [Next]_vars PROVE DInv' OBVIOUS
  <2>1. IInv' BY NextIInv DEF DInv
  <2>2. CASE UNCHANGED vars BY <2>1, <2>2 DEF vars, DInv, Data, MinOf
  <2>3. ASSUME NEW p \in Procs, Step(p) PROVE DInv'
    <3>1. \A o \in Procs \ {p} : Data(o)'
      BY <2>3, StepLeavesOthers, OthersKeepData DEF DInv
    <3>2. QED BY <2>1, <2>3, <3>1, StepKeepsData DEF DInv
  <2>4. QED BY <2>2, <2>3 DEF Next, Step
<1>3. QED BY <1>1, <1>2, PTL DEF Spec

-----------------------------------------------------------------------------
\* The two forms of the queue ByteFifo sees.
Still == [i \in 1..validlen |-> kbuf[i]]
Taken(p) == [i \in 1..validlen |-> IF i <= cnt[p] THEN ubuf[p][i] ELSE kbuf[i - cnt[p]]]

QueueForms ==
  /\ (\A p \in Procs : ~Moving(p)) => Queue = Still
  /\ \A p \in Procs : Moving(p) => Queue = Taken(p)

LEMMA QueueHasForms == DInv => QueueForms
<1> SUFFICES ASSUME DInv PROVE QueueForms OBVIOUS
<1>1. (\A p \in Procs : ~Moving(p)) => Queue = Still BY DEF Queue, Still
<1>2. ASSUME NEW p \in Procs, Moving(p) PROVE Queue = Taken(p)
  <2>1. \A o \in Procs : Moving(o) => o = p
    BY <1>2, Alone DEF DInv, Moving, Critical, Labels
  <2>2. (CHOOSE o \in Procs : Moving(o)) = p BY <1>2, <2>1
  <2>3. QED BY <1>2, <2>2 DEF Queue, Taken
<1>3. QED BY <1>1, <1>2 DEF QueueForms

LEMMA QueueHasFormsNext == DInv' => QueueForms'
BY QueueHasForms, PTL

\* A step that leaves the buffer alone and is not about the move of a read.
LEMMA QueueStays ==
  ASSUME DInv, DInv', NEW p \in Procs, OthersStay(p), ~Moving(p), ~Moving(p)',
         UNCHANGED <<kbuf, validlen>>
  PROVE  Queue' = Queue
<1>1. QueueForms /\ QueueForms' BY QueueHasForms, QueueHasFormsNext
<1>2. CASE \A o \in Procs : ~Moving(o)
  <2>1. \A o \in Procs : ~Moving(o)' BY <1>2 DEF OthersStay, Moving
  <2>2. QED BY <1>1, <1>2, <2>1 DEF QueueForms, Still
<1>3. ASSUME NEW o \in Procs, Moving(o) PROVE Queue' = Queue
  <2>1. o # p BY <1>3
  <2>2. Moving(o)' /\ cnt'[o] = cnt[o] /\ ubuf'[o] = ubuf[o]
    BY <1>3, <2>1 DEF OthersStay, Moving
  <2>3. Queue' = Taken(o)' /\ Queue = Taken(o) BY <1>1, <1>3, <2>2 DEF QueueForms
  <2>4. Taken(o)' = Taken(o) BY <2>2 DEF Taken
  <2>5. QED BY <2>3, <2>4
<1>4. QED BY <1>2, <1>3

Calls == [p \in Procs |-> AbstractCall(p)]

\* ByteFifo sees of a step of p only what becomes of the call of p.
LEMMA CallsChange ==
  ASSUME NEW p \in Procs, OthersStay(p)
  PROVE  /\ Calls' = [Calls EXCEPT ![p] = AbstractCall(p)']
         /\ Calls[p] = AbstractCall(p)
<1>1. \A o \in Procs \ {p} : AbstractCall(o)' = AbstractCall(o)
  BY DEF OthersStay, AbstractCall
<1>2. QED BY <1>1 DEF Calls

\* The three forms of a call.
CallForm(p) ==
  /\ pc[p] \in {"r_lock", "r_check", "r_copy", "r_move", "r_len"} =>
       AbstractCall(p) = [op |-> "read", cnt |-> Len(ubuf[p]), data |-> << >>]
  /\ pc[p] \in {"w_lock", "w_check", "w_copy", "w_len"} =>
       AbstractCall(p) = [op |-> "write", cnt |-> Len(ubuf[p]), data |-> ubuf[p]]
  /\ pc[p] \in {"idle", "unlock"} =>
       AbstractCall(p) = [op |-> "done", cnt |-> ret[p],
         data |-> IF ubuf[p] = << >> THEN << >> ELSE SubSeq(ubuf[p], 1, ret[p])]

LEMMA CallHasForm == \A p \in Procs : CallForm(p)
BY DEF CallForm, AbstractCall

LEMMA CallHasFormNext == (\A p \in Procs : CallForm(p))'
BY CallHasForm, PTL

\* Steps between those at which a call takes effect show nothing.
LEMMA Stutters ==
  ASSUME NEW p \in Procs, OthersStay(p), Queue' = Queue, AbstractCall(p)' = AbstractCall(p)
  PROVE  UNCHANGED Fifo!fifoVars
<1>1. ASSUME NEW o \in Procs \ {p} PROVE AbstractCall(o)' = AbstractCall(o)
  <2>1. pc'[o] = pc[o] /\ ubuf'[o] = ubuf[o] /\ ret'[o] = ret[o]
    BY DEF OthersStay
  <2> QED BY <2>1, Zenon DEF AbstractCall
<1>2. QED BY <1>1 DEF Fifo!fifoVars

\* A call, or its immediate return when it asks for nothing.
LEMMA EnterRefines ==
  ASSUME DInv, DInv', NEW p \in Procs, ReadCall(p) \/ WriteCall(p)
  PROVE  Fifo!Call(p)
<1>1. OthersStay(p) BY StepLeavesOthers DEF Step, DInv
<1>2. PICK s \in UserData, l \in {"r_lock", "w_lock"} :
        Enter(p, s, l) /\ (l = "r_lock" => \E n \in 0..MaxCnt : s = [i \in 1..n |-> Zero])
  <2>1. \A n \in 0..MaxCnt : [i \in 1..n |-> Zero] \in UserData
    BY ZeroAssumption, SeqIsUserData
  <2>2. QED BY <2>1 DEF ReadCall, WriteCall
<1>3. pc[p] = "idle" /\ ubuf'[p] = s /\ ret'[p] = 0
      /\ pc'[p] = (IF s = << >> THEN "idle" ELSE l)
      /\ UNCHANGED <<kbuf, validlen>>
  BY <1>2 DEF Enter, Goto, DInv, IInv, TypeOK
<1>4. Queue' = Queue BY <1>1, <1>3, QueueStays DEF Moving
<1>5. Calls' = [Calls EXCEPT ![p] = AbstractCall(p)'] /\ Calls[p] = AbstractCall(p)
  BY <1>1, CallsChange
<1>6. Calls[p].op = "done" BY <1>3, <1>5, CallHasForm DEF CallForm
<1>7. Len(s) \in 0..MaxCnt /\ (s = << >> <=> Len(s) = 0) BY UserDataIsSeq
<1>8. CASE s = << >>
  <2>1. AbstractCall(p)' = Fifo!Done(0, << >>)
    BY <1>3, <1>8, CallHasFormNext DEF CallForm, Fifo!Done
  <2>2. QED BY <1>4, <1>5, <1>6, <2>1 DEF Fifo!Call, Calls
<1>9. CASE s # << >> /\ l = "r_lock"
  <2>1. AbstractCall(p)' = Fifo!Reading(Len(s))
    BY <1>3, <1>9, CallHasFormNext DEF CallForm, Fifo!Reading
  <2>2. Len(s) \in 1..MaxCnt BY <1>7, <1>9, MaxCntAssumption
  <2>3. QED BY <1>4, <1>5, <1>6, <2>1, <2>2 DEF Fifo!Call, Calls
<1>10. CASE s # << >> /\ l = "w_lock"
  <2>1. AbstractCall(p)' = Fifo!Writing(s)
    BY <1>3, <1>10, CallHasFormNext DEF CallForm, Fifo!Writing
  <2>2. s \in Fifo!UserData BY DEF UserData, Fifo!UserData
  <2>3. QED BY <1>4, <1>5, <1>6, <1>10, <2>1, <2>2 DEF Fifo!Call, Calls
<1>11. QED BY <1>8, <1>9, <1>10

\* A call that fails leaves the queue alone and says why.
LEMMA FailRefines ==
  ASSUME DInv, NEW p \in Procs, NEW err \in Errors, Fail(p, err), OthersStay(p),
         pc[p] \in {"r_check", "r_copy", "w_check", "w_copy"}, Queue' = Queue,
         err = EAGAIN => pc[p] = "r_check" /\ Queue = << >>,
         err = ENOSPC => pc[p] = "w_check" /\ Len(Queue) = Cap
  PROVE  Fifo!Nothing(p)
<1>1. Calls' = [Calls EXCEPT ![p] = AbstractCall(p)'] /\ Calls[p] = AbstractCall(p)
  BY CallsChange
<1>2. pc'[p] = "unlock" /\ ubuf'[p] = << >> /\ ret'[p] = err
  BY DEF Fail, Goto, DInv, IInv, TypeOK
<1>3. AbstractCall(p)' = Fifo!Done(err, << >>)
  BY <1>2, CallHasFormNext DEF CallForm, Fifo!Done
<1>4. /\ Calls[p].op \in {"read", "write"}
      /\ pc[p] = "r_check" => Calls[p].op = "read"
      /\ pc[p] = "w_check" => Calls[p].op = "write"
  BY <1>1, CallHasForm DEF CallForm
<1>5. err \in {Fifo!EAGAIN, Fifo!ENOSPC, Fifo!EIO}
      /\ EAGAIN = Fifo!EAGAIN /\ ENOSPC = Fifo!ENOSPC
  BY DEF Errors, EIO, EAGAIN, ENOSPC, Fifo!EIO, Fifo!EAGAIN, Fifo!ENOSPC
<1> HIDE DEF Calls
<1>6. /\ Calls' = [Calls EXCEPT ![p] = Fifo!Done(err, << >>)]
      /\ err = Fifo!EAGAIN => Calls[p].op = "read" /\ Queue = << >>
      /\ err = Fifo!ENOSPC => Calls[p].op = "write" /\ Len(Queue) = Cap
  BY <1>1, <1>3, <1>4, <1>5
<1>7. QED BY <1>4, <1>5, <1>6 DEF Fifo!Nothing, Calls

\* Where p is inside and not in a move, the queue is what the buffer shows.
LEMMA QueueIsStill ==
  ASSUME DInv, NEW p \in Procs, pc[p] \in Critical, ~Moving(p)
  PROVE  Queue = Still
<1>1. \A o \in Procs : ~Moving(o)
  BY Alone DEF DInv, Moving, Critical, Labels
<1>2. QED BY <1>1, QueueHasForms DEF QueueForms

LEMMA StillIsSeq ==
  ASSUME DInv
  PROVE  /\ Still \in Seq(Byte) /\ Len(Still) = validlen /\ validlen \in 0..Cap
         /\ \A i \in 1..validlen : Still[i] = kbuf[i]
<1>1. validlen \in 0..Cap /\ kbuf \in [1..Cap -> Byte] /\ Cap \in Nat
  BY CapAssumption DEF DInv, IInv, TypeOK
<1>2. validlen \in Nat /\ Still \in [1..validlen -> Byte] BY <1>1 DEF Still
<1>3. QED BY <1>1, <1>2 DEF Still

LEMMA LockRefines ==
  ASSUME DInv, DInv', NEW p \in Procs, MutexLock(p) \/ MutexUnlock(p)
  PROVE  UNCHANGED Fifo!fifoVars
<1>1. OthersStay(p) BY StepLeavesOthers DEF Step, Body, DInv
<1>2. UNCHANGED <<kbuf, validlen, cnt, ubuf, ret>> BY DEF MutexLock, MutexUnlock
<1>3. \/ pc[p] = "r_lock" /\ pc'[p] = "r_check"
      \/ pc[p] = "w_lock" /\ pc'[p] = "w_check"
      \/ pc[p] = "unlock" /\ pc'[p] = "idle"
  BY DEF MutexLock, MutexUnlock, Goto, DInv, IInv, TypeOK
<1>4. Queue' = Queue BY <1>1, <1>2, <1>3, QueueStays DEF Moving
<1>5. AbstractCall(p)' = AbstractCall(p)
  BY <1>2, <1>3, CallHasForm, CallHasFormNext DEF CallForm
<1>6. QED BY <1>1, <1>4, <1>5, Stutters

LEMMA ReadCheckRefines ==
  ASSUME DInv, DInv', NEW p \in Procs, ReadCheck(p)
  PROVE  Fifo!Nothing(p) \/ UNCHANGED Fifo!fifoVars
<1>1. OthersStay(p) BY StepLeavesOthers DEF Step, Body, DInv
<1>2. pc[p] = "r_check" /\ pc'[p] \in {"r_copy", "unlock"} /\ UNCHANGED <<kbuf, validlen>>
  BY DEF ReadCheck, Fail, Goto, DInv, IInv, TypeOK
<1>3. Queue' = Queue BY <1>1, <1>2, QueueStays DEF Moving
<1>4. CASE validlen = 0
  <2>1. Fail(p, EAGAIN) BY <1>4 DEF ReadCheck
  <2>2. Queue = Still BY <1>2, QueueIsStill DEF Critical, Labels, Moving
  <2>3. Queue = << >> BY <1>4, <2>2, StillIsSeq
  <2>4. EAGAIN \in Errors /\ EAGAIN # ENOSPC BY DEF Errors, EAGAIN, ENOSPC
  <2>5. QED BY <1>1, <1>2, <1>3, <2>1, <2>3, <2>4, FailRefines
<1>5. CASE validlen # 0
  <2>1. pc'[p] = "r_copy" /\ UNCHANGED ubuf
    BY <1>5 DEF ReadCheck, Goto, DInv, IInv, TypeOK
  <2>2. AbstractCall(p)' = AbstractCall(p)
    BY <1>2, <2>1, CallHasForm, CallHasFormNext DEF CallForm
  <2>3. QED BY <1>1, <1>3, <2>2, Stutters
<1>6. QED BY <1>4, <1>5

LEMMA ReadCopyRefines ==
  ASSUME DInv, DInv', NEW p \in Procs, ReadCopy(p)
  PROVE  Fifo!Nothing(p) \/ UNCHANGED Fifo!fifoVars
<1>1. OthersStay(p) BY StepLeavesOthers DEF Step, Body, DInv
<1>2. pc[p] = "r_copy" /\ pc'[p] \in {"r_move", "unlock"} /\ UNCHANGED <<kbuf, validlen>>
  BY DEF ReadCopy, Fail, Goto, DInv, IInv, TypeOK
<1>3. Queue' = Queue BY <1>1, <1>2, QueueStays DEF Moving
<1>4. CASE Fail(p, EIO)
  <2>1. EIO \in Errors /\ EIO # EAGAIN /\ EIO # ENOSPC BY DEF Errors, EIO, EAGAIN, ENOSPC
  <2>2. QED BY <1>1, <1>2, <1>3, <1>4, <2>1, FailRefines
<1>5. CASE ~Fail(p, EIO)
  <2> DEFINE s == [i \in DOMAIN ubuf[p] |-> IF i <= cnt[p] THEN kbuf[i] ELSE ubuf[p][i]]
  <2>1. ubuf'[p] = s /\ pc'[p] = "r_move"
    BY <1>5 DEF ReadCopy, Goto, DInv, IInv, TypeOK
  <2>2. Len(ubuf[p]) \in Nat /\ ubuf[p] \in [1..Len(ubuf[p]) -> Byte]
    BY UserDataIsSeq, MaxCntAssumption DEF DInv, IInv, TypeOK
  <2>3. Len(s) = Len(ubuf[p]) BY <2>2
  <2> HIDE DEF s
  <2>4. AbstractCall(p)' = AbstractCall(p)
    BY <1>2, <2>1, <2>3, CallHasForm, CallHasFormNext DEF CallForm
  <2>5. QED BY <1>1, <1>3, <2>4, Stutters
<1>6. QED BY <1>4, <1>5

\* memmove: what the reader has got and what has moved make the same queue.
LEMMA ReadMoveRefines ==
  ASSUME DInv, DInv', NEW p \in Procs, ReadMove(p)
  PROVE  UNCHANGED Fifo!fifoVars
<1>1. OthersStay(p) BY StepLeavesOthers DEF Step, Body, DInv
<1>2. /\ pc[p] = "r_move" /\ pc'[p] = "r_len" /\ UNCHANGED <<validlen, cnt, ubuf, ret>>
      /\ kbuf' = [i \in 1..Cap |->
                    IF i <= validlen - cnt[p] THEN kbuf[i + cnt[p]] ELSE kbuf[i]]
  BY DEF ReadMove, Goto, DInv, IInv, TypeOK
<1>3. Queue = Still BY <1>2, QueueIsStill DEF Critical, Labels, Moving
<1>4. Queue' = Taken(p)' BY <1>2, QueueHasFormsNext DEF QueueForms, Moving
<1>5. Taken(p)' = Still
  <2>1. cnt[p] \in 1..validlen /\ validlen \in 0..Cap
    BY <1>2 DEF DInv, IInv, TypeOK, TransferInBounds
  <2>2. \A i \in 1..cnt[p] : ubuf[p][i] = kbuf[i] BY <1>2 DEF DInv, Data
  <2>3. \A i \in 1..validlen : i > cnt[p] => kbuf'[i - cnt[p]] = kbuf[i]
    BY <1>2, <2>1, CapAssumption
  <2>4. \A i \in 1..validlen :
          (IF i <= cnt[p] THEN ubuf[p][i] ELSE kbuf'[i - cnt[p]]) = kbuf[i]
    BY <2>1, <2>2, <2>3, CapAssumption
  <2>5. QED BY <1>2, <2>4 DEF Taken, Still
<1>6. AbstractCall(p)' = AbstractCall(p)
  BY <1>2, CallHasForm, CallHasFormNext DEF CallForm
<1>7. QED BY <1>1, <1>3, <1>4, <1>5, <1>6, Stutters

\* The update of validlen is the moment at which a read takes effect.
LEMMA ReadLenRefines ==
  ASSUME DInv, DInv', NEW p \in Procs, ReadLen(p)
  PROVE  Fifo!Get(p)
<1> DEFINE n == cnt[p]
<1>1. OthersStay(p) BY StepLeavesOthers DEF Step, Body, DInv
<1>2. /\ pc[p] = "r_len" /\ pc'[p] = "unlock" /\ ret'[p] = n
      /\ UNCHANGED <<kbuf, cnt, ubuf>> /\ validlen' = validlen - n
  BY DEF ReadLen, Goto, DInv, IInv, TypeOK
<1>3. /\ n \in 1..validlen /\ validlen \in 0..Cap /\ kbuf \in [1..Cap -> Byte]
      /\ n = MinOf(Len(ubuf[p]), validlen)
  BY <1>2 DEF DInv, IInv, TypeOK, TransferInBounds, Data
<1>4. Len(ubuf[p]) \in Nat /\ ubuf[p] \in [1..Len(ubuf[p]) -> Byte]
  BY UserDataIsSeq, MaxCntAssumption DEF DInv, IInv, TypeOK
<1>5. n <= Len(ubuf[p]) /\ ubuf[p] # << >> /\ n \in Nat /\ validlen \in Nat
  BY <1>3, <1>4, CapAssumption DEF MinOf
<1>6. Queue = Taken(p) BY <1>2, QueueHasForms DEF QueueForms, Moving
<1>7. Queue' = Still'
  <2>1. pc'[p] \in Critical /\ ~Moving(p)' BY <1>2 DEF Critical, Labels, Moving
  <2>2. \A o \in Procs : ~Moving(o)'
    BY <1>1, <1>2, <2>1, Alone DEF OthersStay, Moving, DInv, Critical, Labels
  <2>3. QED BY <2>2, QueueHasFormsNext DEF QueueForms
<1>8. /\ Taken(p) \in [1..validlen -> Byte] /\ Len(Taken(p)) = validlen
      /\ \A i \in 1..n : Taken(p)[i] = ubuf[p][i]
      /\ \A i \in 1..validlen : i > n => Taken(p)[i] = kbuf[i - n]
  <2>1. \A i \in 1..validlen : i > n => i - n \in 1..Cap BY <1>3, CapAssumption
  <2>2. \A i \in 1..validlen : i <= n => i \in 1..Len(ubuf[p]) BY <1>3, <1>4, <1>5
  <2>3. \A i \in 1..validlen : (IF i <= n THEN ubuf[p][i] ELSE kbuf[i - n]) \in Byte
    <3>1. ASSUME NEW i \in 1..validlen, i <= n PROVE ubuf[p][i] \in Byte
      BY <1>4, <2>2, <3>1
    <3>2. ASSUME NEW i \in 1..validlen, i > n PROVE kbuf[i - n] \in Byte
      BY <1>3, <2>1, <3>2
    <3> QED BY <1>3, <3>1, <3>2
  <2>4. Taken(p) = [i \in 1..validlen |-> IF i <= n THEN ubuf[p][i] ELSE kbuf[i - n]]
    BY DEF Taken
  <2> HIDE DEF n
  <2>5. Taken(p) \in [1..validlen -> Byte]
    BY <2>3, <2>4
  <2>6. \A i \in 1..n : i \in 1..validlen /\ i <= n
    BY <1>3, <1>5
  <2>7. QED BY <1>3, <1>5, <2>4, <2>5, <2>6
<1> HIDE DEF n
<1>9. Still' = SubSeq(Taken(p), n + 1, Len(Taken(p)))
  <2> DEFINE t == Taken(p)
  <2>1. t \in Seq(Byte) BY <1>5, <1>8
  <2> HIDE DEF t
  <2>2. Len(t) = validlen /\ (\A i \in 1..validlen : i > n => t[i] = kbuf[i - n])
    BY <1>8 DEF t
  <2>3. SubSeq(t, n + 1, Len(t)) = [i \in 1..(validlen - n) |-> t[i + n]]
    BY <1>3, <1>5, <2>1, <2>2
  <2>4. \A i \in 1..(validlen - n) : t[i + n] = kbuf[i] BY <1>3, <1>5, <2>2
  <2>5. Still' = [i \in 1..(validlen - n) |-> kbuf[i]] BY <1>2 DEF Still
  <2>6. QED BY <2>3, <2>4, <2>5 DEF t
<1>10. SubSeq(Taken(p), 1, n) = SubSeq(ubuf[p], 1, n)
  <2> DEFINE t == Taken(p) u == ubuf[p]
  <2>1. t \in Seq(Byte) /\ u \in Seq(Byte)
    <3>1. t \in Seq(Byte) BY <1>5, <1>8
    <3>2. u \in Seq(Byte) BY <1>4
    <3> QED BY <3>1, <3>2
  <2>2. Len(t) = validlen /\ n <= Len(t) /\ n <= Len(u) /\ \A i \in 1..n : t[i] = u[i]
    BY <1>3, <1>5, <1>8
  <2> HIDE DEF t, u
  <2>3. SubSeq(t, 1, n) = [i \in 1..n |-> t[i]] /\ SubSeq(u, 1, n) = [i \in 1..n |-> u[i]]
    BY <1>5, <2>1, <2>2
  <2>4. QED BY <2>2, <2>3 DEF t, u
<1>11. AbstractCall(p)' = Fifo!Done(n, SubSeq(Queue, 1, n))
  BY <1>2, <1>5, <1>6, <1>10, CallHasFormNext DEF CallForm, Fifo!Done
<1>12. /\ Calls' = [Calls EXCEPT ![p] = AbstractCall(p)'] /\ Calls[p] = AbstractCall(p)
       /\ Calls[p].op = "read" /\ Calls[p].cnt = Len(ubuf[p])
  BY <1>1, <1>2, CallsChange, CallHasForm DEF CallForm
<1>13. Fifo!MinOf(Calls[p].cnt, Len(Queue)) = n /\ Queue # << >>
  BY <1>3, <1>6, <1>8, <1>12, CapAssumption DEF Fifo!MinOf, MinOf
<1>14. Queue' = SubSeq(Queue, n + 1, Len(Queue)) BY <1>6, <1>7, <1>9
<1>15. QED BY <1>11, <1>12, <1>13, <1>14 DEF Fifo!Get, Calls

LEMMA ConcatIs ==
  ASSUME NEW S, NEW s \in Seq(S), NEW r \in Seq(S)
  PROVE  s \o r = [i \in 1..(Len(s) + Len(r)) |->
                     IF i <= Len(s) THEN s[i] ELSE r[i - Len(s)]]
<1> DEFINE c == s \o r
<1>1. /\ c \in Seq(S) /\ Len(c) = Len(s) + Len(r)
      /\ \A i \in 1..(Len(s) + Len(r)) : c[i] = IF i <= Len(s) THEN s[i] ELSE r[i - Len(s)]
  BY ConcatProperties
<1> HIDE DEF c
<1>2. c = [i \in 1..(Len(s) + Len(r)) |-> c[i]] BY <1>1
<1>3. c = [i \in 1..(Len(s) + Len(r)) |-> IF i <= Len(s) THEN s[i] ELSE r[i - Len(s)]]
  BY <1>1, <1>2
<1>4. QED BY <1>3 DEF c

LEMMA WriteCheckRefines ==
  ASSUME DInv, DInv', NEW p \in Procs, WriteCheck(p)
  PROVE  Fifo!Nothing(p) \/ UNCHANGED Fifo!fifoVars
<1>1. OthersStay(p) BY StepLeavesOthers DEF Step, Body, DInv
<1>2. pc[p] = "w_check" /\ pc'[p] \in {"w_copy", "unlock"} /\ UNCHANGED <<kbuf, validlen>>
  BY DEF WriteCheck, Fail, Goto, DInv, IInv, TypeOK
<1>3. Queue' = Queue BY <1>1, <1>2, QueueStays DEF Moving
<1>4. CASE validlen = Cap
  <2>1. Fail(p, ENOSPC) BY <1>4 DEF WriteCheck
  <2>2. Queue = Still BY <1>2, QueueIsStill DEF Critical, Labels, Moving
  <2>3. Len(Queue) = Cap BY <1>4, <2>2, StillIsSeq
  <2>4. ENOSPC \in Errors /\ EAGAIN # ENOSPC BY DEF Errors, EAGAIN, ENOSPC
  <2>5. QED BY <1>1, <1>2, <1>3, <2>1, <2>3, <2>4, FailRefines
<1>5. CASE validlen # Cap
  <2>1. pc'[p] = "w_copy" /\ UNCHANGED ubuf
    BY <1>5 DEF WriteCheck, Goto, DInv, IInv, TypeOK
  <2>2. AbstractCall(p)' = AbstractCall(p)
    BY <1>2, <2>1, CallHasForm, CallHasFormNext DEF CallForm
  <2>3. QED BY <1>1, <1>3, <2>2, Stutters
<1>6. QED BY <1>4, <1>5

\* copy_from_user touches no valid byte, whether it faults or not.
LEMMA WriteCopyRefines ==
  ASSUME DInv, DInv', NEW p \in Procs, WriteCopy(p)
  PROVE  Fifo!Nothing(p) \/ UNCHANGED Fifo!fifoVars
<1>1. OthersStay(p) BY StepLeavesOthers DEF Step, Body, DInv
<1>2. pc[p] = "w_copy" /\ pc'[p] \in {"w_len", "unlock"} /\ UNCHANGED validlen
      /\ \E k \in Int : kbuf' = Received(p, k)
  BY CapAssumption, MaxCntAssumption DEF WriteCopy, Fail, Goto, DInv, IInv, TypeOK
<1>3. Queue' = Queue
  <2>1. validlen \in 0..Cap BY DEF DInv, IInv, TypeOK
  <2>2. \A i \in 1..validlen : kbuf'[i] = kbuf[i]
    BY <1>2, <2>1, CapAssumption DEF Received
  <2>3. Queue = Still BY <1>2, QueueIsStill DEF Critical, Labels, Moving
  <2>4. \A o \in Procs : ~Moving(o)'
    BY <1>1, <1>2, Alone DEF OthersStay, Moving, DInv, Critical, Labels
  <2>5. Queue' = Still' BY <2>4, QueueHasFormsNext DEF QueueForms
  <2>6. QED BY <1>2, <2>2, <2>3, <2>5 DEF Still
<1>4. CASE Fail(p, EIO)
  <2>1. EIO \in Errors /\ EIO # EAGAIN /\ EIO # ENOSPC BY DEF Errors, EIO, EAGAIN, ENOSPC
  <2>2. QED BY <1>1, <1>2, <1>3, <1>4, <2>1, FailRefines
<1>5. CASE ~Fail(p, EIO)
  <2>1. pc'[p] = "w_len" /\ UNCHANGED ubuf
    BY <1>5 DEF WriteCopy, Goto, DInv, IInv, TypeOK
  <2>2. AbstractCall(p)' = AbstractCall(p)
    BY <1>2, <2>1, CallHasForm, CallHasFormNext DEF CallForm
  <2>3. QED BY <1>1, <1>3, <2>2, Stutters
<1>6. QED BY <1>4, <1>5

\* The update of validlen is the moment at which a write takes effect.
LEMMA WriteLenRefines ==
  ASSUME DInv, DInv', NEW p \in Procs, WriteLen(p)
  PROVE  Fifo!Put(p)
<1> DEFINE n == cnt[p]
<1>1. OthersStay(p) BY StepLeavesOthers DEF Step, Body, DInv
<1>2. /\ pc[p] = "w_len" /\ pc'[p] = "unlock" /\ ret'[p] = n /\ ubuf'[p] = << >>
      /\ UNCHANGED <<kbuf, cnt>> /\ validlen' = validlen + n
  BY DEF WriteLen, Goto, DInv, IInv, TypeOK
<1>3. /\ n \in 1..(Cap - validlen) /\ validlen \in 0..Cap /\ kbuf \in [1..Cap -> Byte]
      /\ n = MinOf(Len(ubuf[p]), Cap - validlen)
      /\ \A i \in 1..n : kbuf[validlen + i] = ubuf[p][i]
  BY <1>2 DEF DInv, IInv, TypeOK, TransferInBounds, Data
<1>4. Len(ubuf[p]) \in Nat /\ ubuf[p] \in [1..Len(ubuf[p]) -> Byte]
  BY UserDataIsSeq, MaxCntAssumption DEF DInv, IInv, TypeOK
<1>5. n <= Len(ubuf[p]) /\ n \in Nat /\ validlen \in Nat /\ validlen < Cap /\ Cap \in Nat
  BY <1>3, <1>4, CapAssumption DEF MinOf
<1>6. Queue = Still BY <1>2, QueueIsStill DEF Critical, Labels, Moving
<1>7. Queue' = Still'
  <2>1. \A o \in Procs : ~Moving(o)'
    BY <1>1, <1>2, Alone DEF OthersStay, Moving, DInv, Critical, Labels
  <2>2. QED BY <2>1, QueueHasFormsNext DEF QueueForms
<1> HIDE DEF n
<1>8. Still' = Still \o SubSeq(ubuf[p], 1, n)
  <2> DEFINE t == Still u == ubuf[p]
  <2>1. t \in Seq(Byte) /\ Len(t) = validlen /\ \A i \in 1..validlen : t[i] = kbuf[i]
    BY StillIsSeq
  <2>2. u \in Seq(Byte) /\ n <= Len(u) /\ \A i \in 1..n : kbuf[validlen + i] = u[i]
    <3>1. u \in Seq(Byte) BY <1>4
    <3>2. n <= Len(u) BY <1>5
    <3>3. \A i \in 1..n : kbuf[validlen + i] = u[i] BY <1>3
    <3>4. QED BY <3>1, <3>2, <3>3
  <2>3. Still' = [i \in 1..(validlen + n) |-> kbuf[i]] BY <1>2 DEF Still
  <2> HIDE DEF t, u
  <2>4. SubSeq(u, 1, n) \in Seq(Byte) /\ Len(SubSeq(u, 1, n)) = n
        /\ \A i \in 1..n : SubSeq(u, 1, n)[i] = u[i]
    BY <1>5, <2>2
  <2> DEFINE v == SubSeq(u, 1, n)
  <2> HIDE DEF v
  <2>5. v \in Seq(Byte) /\ Len(v) = n /\ \A i \in 1..n : v[i] = u[i] BY <2>4 DEF v
  <2>6. t \o v = [i \in 1..(validlen + n) |-> IF i <= validlen THEN t[i] ELSE v[i - validlen]]
    <3>1. t \o v = [i \in 1..(Len(t) + Len(v)) |->
                       IF i <= Len(t) THEN t[i] ELSE v[i - Len(t)]]
      <4>1. t \in Seq(Byte) /\ v \in Seq(Byte) BY <2>1, <2>5
      <4>2. QED BY <4>1, ConcatIs, Zenon
    <3>2. QED BY <2>1, <2>5, <3>1
  <2>7. \A i \in 1..(validlen + n) :
          (IF i <= validlen THEN t[i] ELSE v[i - validlen]) = kbuf[i]
    <3> SUFFICES ASSUME NEW i \in 1..(validlen + n)
                 PROVE  (IF i <= validlen THEN t[i] ELSE v[i - validlen]) = kbuf[i]
      OBVIOUS
    <3>1. CASE i <= validlen BY <1>5, <2>1, <3>1
    <3>2. CASE i > validlen
      <4>1. i - validlen \in 1..n /\ validlen + (i - validlen) = i BY <1>5, <3>2
      <4>2. v[i - validlen] = kbuf[i] BY <2>2, <2>5, <4>1
      <4>3. QED BY <1>5, <3>2, <4>2
    <3>3. QED BY <1>5, <3>1, <3>2
  <2>8. QED BY <2>3, <2>6, <2>7 DEF t, v, u
<1>9. AbstractCall(p)' = Fifo!Done(n, << >>)
  BY <1>2, CallHasFormNext DEF CallForm, Fifo!Done
<1>10. /\ Calls' = [Calls EXCEPT ![p] = AbstractCall(p)'] /\ Calls[p] = AbstractCall(p)
       /\ Calls[p].op = "write" /\ Calls[p].cnt = Len(ubuf[p]) /\ Calls[p].data = ubuf[p]
  BY <1>1, <1>2, CallsChange, CallHasForm DEF CallForm
<1>11. Fifo!MinOf(Calls[p].cnt, Cap - Len(Queue)) = n /\ Len(Queue) < Cap
  BY <1>3, <1>5, <1>6, <1>10, StillIsSeq DEF Fifo!MinOf, MinOf
<1>12. Queue' = Queue \o SubSeq(Calls[p].data, 1, n) BY <1>6, <1>7, <1>8, <1>10
<1>13. QED BY <1>9, <1>10, <1>11, <1>12 DEF Fifo!Put, Calls

LEMMA InitRefines == Init => Fifo!FifoInit
<1> SUFFICES ASSUME Init PROVE Fifo!FifoInit OBVIOUS
<1>1. DInv BY InitIInv DEF Init, DInv, Data
<1>2. validlen = 0 /\ \A p \in Procs : pc[p] = "idle" /\ ubuf[p] = << >> /\ ret[p] = 0
  BY DEF Init
<1>3. Queue = << >>
  <2>1. Queue = Still BY <1>1, <1>2, QueueHasForms DEF QueueForms, Moving
  <2>2. QED BY <1>1, <1>2, <2>1, StillIsSeq
<1>4. \A p \in Procs : AbstractCall(p) = Fifo!Done(0, << >>)
  BY <1>2, CallHasForm DEF CallForm, Fifo!Done
<1>5. QED BY <1>3, <1>4 DEF Fifo!FifoInit

LEMMA StepRefines == DInv /\ DInv' /\ [Next]_vars => [Fifo!FifoNext]_(Fifo!fifoVars)
<1> SUFFICES ASSUME DInv, DInv', [Next]_vars
             PROVE  Fifo!FifoNext \/ UNCHANGED Fifo!fifoVars
  OBVIOUS
<1>1. CASE UNCHANGED vars
  <2>1. Queue' = Queue BY <1>1 DEF vars, Queue, Moving
  <2>2. \A p \in Procs : AbstractCall(p)' = AbstractCall(p) BY <1>1 DEF vars, AbstractCall
  <2>3. QED BY <2>1, <2>2 DEF Fifo!fifoVars
<1>2. ASSUME NEW p \in Procs, Step(p) PROVE Fifo!FifoNext \/ UNCHANGED Fifo!fifoVars
  <2>1. \/ Fifo!Call(p) \/ Fifo!Nothing(p) \/ Fifo!Get(p) \/ Fifo!Put(p)
        \/ UNCHANGED Fifo!fifoVars
    BY <1>2, EnterRefines, LockRefines, ReadCheckRefines, ReadCopyRefines, ReadMoveRefines,
       ReadLenRefines, WriteCheckRefines, WriteCopyRefines, WriteLenRefines DEF Step, Body
  <2>2. QED BY <2>1 DEF Fifo!FifoNext
<1>3. QED BY <1>1, <1>2 DEF Next, Step

\* For any number of processes, any buffer size and any data the device is a
\* bounded FIFO of bytes: every kbuf_read and kbuf_write takes effect at one
\* moment between its start and its return, or, if it fails, not at all.
THEOREM DeviceImplementsFifo == Spec => ImplementsFifo
<1>1. QED BY InitRefines, StepRefines, DataInvariance, PTL
          DEF Spec, ImplementsFifo, Fifo!FifoSpec

-----------------------------------------------------------------------------
(***************************************************************************)
(* Every call returns.  Fairness is stated with the states in which a      *)
(* process can take the step - the guards of Body and MutexLock, whose     *)
(* steps all move its pc - in the place of ENABLED.                        *)
(***************************************************************************)
AtLock(p) == pc[p] \in {"r_lock", "w_lock"}

BodyRuns(p) == []<>~(pc[p] \in Critical) \/ []<><<Body(p)>>_vars
LockRuns(p) == <>[]~(AtLock(p) /\ mutex = NoProc) \/ []<><<MutexLock(p)>>_vars

AllRun == \A p \in Procs : BodyRuns(p)
Runs == \A p \in Procs : BodyRuns(p) /\ LockRuns(p)

\* The fairness of FairSpec gives Runs, guard by guard.
LEMMA FairRuns ==
  ASSUME NEW p \in Procs
  PROVE  /\ WF_vars(Body(p)) /\ SF_vars(MutexLock(p))
         /\ [](pc[p] \in Critical => ENABLED <<Body(p)>>_vars)
         /\ [](AtLock(p) /\ mutex = NoProc => ENABLED <<MutexLock(p)>>_vars)
         => BodyRuns(p) /\ LockRuns(p)
BY PTL DEF BodyRuns, LockRuns

\* Where the next step leads from each place between lock and unlock.
Later ==
  [l \in Critical |->
     CASE l = "r_check" -> {"r_copy", "unlock"}
       [] l = "r_copy"  -> {"r_move", "unlock"}
       [] l = "r_move"  -> {"r_len"}
       [] l = "w_check" -> {"w_copy", "unlock"}
       [] l = "w_copy"  -> {"w_len", "unlock"}
       [] l \in {"r_len", "w_len"} -> {"unlock"}
       [] OTHER         -> {"idle"}]

LEMMA BodyLater ==
  ASSUME IInv, NEW p \in Procs, Body(p)
  PROVE  pc[p] \in Critical /\ pc'[p] \in Later[pc[p]]
<1> USE DEF IInv, TypeOK, Critical, Labels, Later, Goto
<1>1. CASE ReadCheck(p) \/ ReadCopy(p) BY <1>1 DEF ReadCheck, ReadCopy, Fail
<1>2. CASE ReadMove(p) \/ ReadLen(p) BY <1>2 DEF ReadMove, ReadLen
<1>3. CASE WriteCheck(p) \/ WriteCopy(p) BY <1>3 DEF WriteCheck, WriteCopy, Fail
<1>4. CASE WriteLen(p) \/ MutexUnlock(p) BY <1>4 DEF WriteLen, MutexUnlock
<1> QED BY <1>1, <1>2, <1>3, <1>4 DEF Body

\* Only a process itself moves its pc: out of a call by its Body, and into
\* the buffer by MutexLock.
LEMMA OwnSteps ==
  ASSUME IInv, [Next]_vars, NEW p \in Procs, pc[p] # "idle"
  PROVE  pc'[p] = pc[p] \/ Body(p) \/ (MutexLock(p) /\ AtLock(p) /\ pc'[p] \in Critical)
<1>1. CASE UNCHANGED vars
  BY <1>1 DEF vars
<1>2. ASSUME NEW q \in Procs, Step(q), q # p PROVE pc'[p] = pc[p]
  BY <1>2, StepLeavesOthers DEF OthersStay
<1>3. ~ReadCall(p) /\ ~WriteCall(p)
  BY DEF ReadCall, WriteCall, Enter
<1>4. MutexLock(p) => AtLock(p) /\ pc'[p] \in Critical
  BY DEF MutexLock, AtLock, Goto, IInv, TypeOK, Critical, Labels
<1> QED BY <1>1, <1>2, <1>3, <1>4 DEF Next, Step

Advances(p, l) == pc[p] = l ~> pc[p] \in Later[l]

LEMMA BodySteps ==
  ASSUME NEW p \in Procs, NEW l \in Critical
  PROVE  []IInv /\ [][Next]_vars /\ BodyRuns(p) => Advances(p, l)
<1>1. IInv /\ [Next]_vars /\ pc[p] = l => (pc[p] = l)' \/ (pc[p] \in Later[l])'
  BY OwnSteps, BodyLater DEF AtLock, Critical, Labels
<1>2. IInv /\ <<Body(p)>>_vars /\ pc[p] = l => (pc[p] \in Later[l])'
  BY BodyLater
<1>3. pc[p] = l => pc[p] \in Critical
  OBVIOUS
<1> QED BY <1>1, <1>2, <1>3, PTL DEF BodyRuns, Advances

\* A call that has the mutex returns, and so gives it back.
LEMMA HolderReturns ==
  ASSUME NEW p \in Procs
  PROVE  []IInv /\ [][Next]_vars /\ BodyRuns(p) => (pc[p] \in Critical ~> pc[p] = "idle")
<1> DEFINE Live == []IInv /\ [][Next]_vars /\ BodyRuns(p)
<1>1. /\ Live => Advances(p, "r_check")
      /\ Live => Advances(p, "r_copy")
      /\ Live => Advances(p, "r_move")
      /\ Live => Advances(p, "r_len")
      /\ Live => Advances(p, "w_check")
      /\ Live => Advances(p, "w_copy")
      /\ Live => Advances(p, "w_len")
      /\ Live => Advances(p, "unlock")
  <2> HIDE DEF Live
  <2>1. \A l \in Critical : Live => Advances(p, l)
    BY BodySteps DEF Live
  <2>2. {"r_check", "r_copy", "r_move", "r_len", "w_check", "w_copy", "w_len", "unlock"} = Critical
    BY DEF Critical, Labels
  <2> QED BY <2>1, <2>2
<1>2. /\ pc[p] \in Later["r_check"] => pc[p] = "r_copy" \/ pc[p] = "unlock"
      /\ pc[p] \in Later["r_copy"] => pc[p] = "r_move" \/ pc[p] = "unlock"
      /\ pc[p] \in Later["r_move"] => pc[p] = "r_len"
      /\ pc[p] \in Later["r_len"] => pc[p] = "unlock"
      /\ pc[p] \in Later["w_check"] => pc[p] = "w_copy" \/ pc[p] = "unlock"
      /\ pc[p] \in Later["w_copy"] => pc[p] = "w_len" \/ pc[p] = "unlock"
      /\ pc[p] \in Later["w_len"] => pc[p] = "unlock"
      /\ pc[p] \in Later["unlock"] => pc[p] = "idle"
  BY DEF Later, Critical, Labels
<1>3. pc[p] \in Critical =>
        \/ pc[p] = "r_check" \/ pc[p] = "r_copy" \/ pc[p] = "r_move" \/ pc[p] = "r_len"
        \/ pc[p] = "w_check" \/ pc[p] = "w_copy" \/ pc[p] = "w_len" \/ pc[p] = "unlock"
  BY DEF Critical, Labels
<1> QED BY <1>1, <1>2, <1>3, PTL DEF Advances

\* For whoever holds the mutex there is a later state in which it is free.
FreedBy(p) == mutex = p ~> mutex = NoProc

LEMMA HolderReleases ==
  ASSUME NEW p \in Procs
  PROVE  []IInv /\ [][Next]_vars /\ BodyRuns(p) => FreedBy(p)
<1>1. IInv => (mutex = p <=> pc[p] \in Critical)
  BY DEF IInv, LockDiscipline
<1>2. IInv /\ [Next]_vars /\ mutex = p => (mutex = p \/ mutex = NoProc)'
  <2> SUFFICES ASSUME IInv, [Next]_vars, mutex = p PROVE mutex' \in {p, NoProc}
    OBVIOUS
  <2>1. ASSUME NEW q \in Procs, Step(q) PROVE mutex' \in {p, NoProc}
    BY <2>1, NoProcAssumption
       DEF Step, Body, ReadCall, WriteCall, Enter, MutexLock, MutexUnlock, ReadCheck, ReadCopy,
           ReadMove, ReadLen, WriteCheck, WriteCopy, WriteLen
  <2> QED BY <2>1 DEF Next, Step, vars
<1>3. pc[p] = "idle" => ~(pc[p] \in Critical)
  BY DEF Critical, Labels
<1> QED BY <1>1, <1>2, <1>3, HolderReturns, PTL DEF FreedBy

LEMMA FreedByAll ==
  (\A p \in Procs : FreedBy(p)) => []((\E p \in Procs : mutex = p) => <>(mutex = NoProc))
<1>1. (\A p \in Procs : FreedBy(p)) <=> (\A p \in Procs : [](mutex = p => <>(mutex = NoProc)))
  <2>1. ASSUME NEW p \in Procs PROVE FreedBy(p) <=> [](mutex = p => <>(mutex = NoProc))
    BY PTL DEF FreedBy
  <2> QED BY <2>1
<1>2. (\A p \in Procs : [](mutex = p => <>(mutex = NoProc)))
      => [](\A p \in Procs : mutex = p => <>(mutex = NoProc))
  OBVIOUS
<1>3. (\A p \in Procs : mutex = p => <>(mutex = NoProc))
      => ((\E p \in Procs : mutex = p) => <>(mutex = NoProc))
  OBVIOUS
<1> QED BY <1>1, <1>2, <1>3, PTL

\* The mutex is free again and again: nobody keeps it, whatever the others do.
THEOREM MutexIsReleased == Spec /\ AllRun => []<>(mutex = NoProc)
<1>1. Spec => []IInv /\ [][Next]_vars
  BY Invariance, PTL DEF Spec
<1>2. ASSUME NEW p \in Procs PROVE Spec /\ AllRun => FreedBy(p)
  <2>1. AllRun => BodyRuns(p)
    BY DEF AllRun
  <2> QED BY <1>1, <2>1, HolderReleases, PTL
<1>3. Spec /\ AllRun => \A p \in Procs : FreedBy(p)
  BY <1>2
<1>4. IInv => (\E p \in Procs : mutex = p) \/ mutex = NoProc
  BY DEF IInv, TypeOK
<1> QED BY <1>1, <1>3, <1>4, FreedByAll, PTL

\* For any number of processes every call returns: a waiter finds the mutex
\* free again and again, and takes it (SF); then its own steps lead it out.
THEOREM AllCallsReturn == Spec /\ Runs => CallsReturn
<1>1. Spec => []IInv /\ [][Next]_vars
  BY Invariance, PTL DEF Spec
<1>2. Runs => AllRun
  BY DEF Runs, AllRun
<1>3. ASSUME NEW p \in Procs
      PROVE  Spec /\ Runs => (pc[p] # "idle" ~> pc[p] = "idle")
  <2>1. Runs => BodyRuns(p) /\ LockRuns(p)
    BY DEF Runs
  <2>2. IInv => (pc[p] # "idle" => AtLock(p) \/ pc[p] \in Critical)
    BY DEF IInv, TypeOK, AtLock, Critical, Labels
  <2>3. IInv /\ [Next]_vars /\ AtLock(p) => AtLock(p)' \/ (pc[p] \in Critical)'
    BY OwnSteps, BodyLater DEF AtLock, Critical, Labels
  <2>4. IInv /\ [Next]_vars /\ <<MutexLock(p)>>_vars => (pc[p] \in Critical)'
    BY DEF MutexLock, Goto, IInv, TypeOK, Critical, Labels
  <2> QED
    BY <1>1, <1>2, <2>1, <2>2, <2>3, <2>4, MutexIsReleased, HolderReturns, PTL DEF LockRuns
<1> QED BY <1>3 DEF CallsReturn

=============================================================================
