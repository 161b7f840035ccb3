------------------------------- MODULE KbufDev -------------------------------
(***************************************************************************)
(* One device of src/locks/mutex/kbuf.c: a 512 byte buffer (kbuf, validlen)*)
(* that any number of processes read and write, each call under the        *)
(* device's mutex.  A call is cut where another process can run: before    *)
(* the lock, after the check of validlen, after the copy, after memmove    *)
(* (the code sleeps 50 ms there), after the update of validlen, before     *)
(* the unlock.                                                             *)
(* The 16 devices share no data: a file's private_data names one struct    *)
(* kbuf (kbuf_open), so one device is modelled.                            *)
(***************************************************************************)
EXTENDS Integers, Sequences

CONSTANTS Procs,   \* processes that have the device file open
          Byte,    \* values of a byte
          Zero,    \* the byte kzalloc and a failed copy_from_user fill with
          Cap,     \* SZ_512
          MaxCnt,  \* bound: largest count a process passes
          NoProc   \* the owner of a free mutex

ASSUME CapAssumption == Cap \in Nat \ {0}
ASSUME MaxCntAssumption == MaxCnt \in Nat
ASSUME ZeroAssumption == Zero \in Byte
ASSUME NoProcAssumption == NoProc \notin Procs

EIO    == -5
EAGAIN == -11
ENOSPC == -28
Errors == {EIO, EAGAIN, ENOSPC}

UserData == UNION {[1..n -> Byte] : n \in 0..MaxCnt}

VARIABLES
  kbuf,      \* kbuf[i]: byte i - 1 of the kernel buffer
  validlen,  \* how many bytes at its start are valid
  mutex,     \* the process that holds the mutex, or NoProc
  pc,        \* where each process is in its call
  cnt,       \* its local cnt: what it asked for, then what it transfers
  ubuf,      \* its user buffer: the data of a write, the room of a read
  ret        \* the result of its last finished call

vars == <<kbuf, validlen, mutex, pc, cnt, ubuf, ret>>

\* The operators whose names begin with Bad are wrong on purpose: each stands
\* for a slip in the definition that follows it, and a property must see it.
BadMinOf(a, b) == a

MinOf(a, b) == IF a <= b THEN a ELSE b

Init ==
  /\ kbuf = [i \in 1..Cap |-> Zero]
  /\ validlen = 0
  /\ pc = [p \in Procs |-> "idle"]
  /\ cnt = [p \in Procs |-> 0]
  /\ ubuf = [p \in Procs |-> << >>]
  /\ ret = [p \in Procs |-> 0]
  /\ mutex = NoProc

Goto(p, l) == pc' = [pc EXCEPT ![p] = l]

\* A system call with user buffer s: a count of 0 returns 0 at once, any
\* other goes on to the lock.
Enter(p, s, l) ==
  /\ pc[p] = "idle"
  /\ cnt' = [cnt EXCEPT ![p] = Len(s)]
  /\ ubuf' = [ubuf EXCEPT ![p] = s]
  /\ ret' = [ret EXCEPT ![p] = 0]
  /\ Goto(p, IF s = << >> THEN "idle" ELSE l)
  /\ UNCHANGED <<kbuf, validlen, mutex>>

ReadCall(p) ==
  /\ \E n \in 0..MaxCnt : Enter(p, [i \in 1..n |-> Zero], "r_lock")

WriteCall(p) ==
  /\ \E s \in UserData : Enter(p, s, "w_lock")

MutexLock(p) ==
  /\ pc[p] \in {"r_lock", "w_lock"}
  /\ mutex = NoProc
  /\ mutex' = p
  /\ Goto(p, IF pc[p] = "r_lock" THEN "r_check" ELSE "w_check")
  /\ UNCHANGED <<kbuf, validlen, cnt, ubuf, ret>>

\* mutex_unlock on the success path and at error0, then the return.
MutexUnlock(p) ==
  /\ pc[p] = "unlock"
  /\ mutex' = NoProc
  /\ Goto(p, "idle")
  /\ UNCHANGED <<kbuf, validlen, cnt, ubuf, ret>>

\* The slips: return at once instead of goto error0; try again with the lock held.
BadFailReturns(p, err) ==
  /\ ret' = [ret EXCEPT ![p] = err]
  /\ ubuf' = [ubuf EXCEPT ![p] = << >>]
  /\ Goto(p, "idle")

BadFailRetries(p, err) ==
  /\ ret' = [ret EXCEPT ![p] = err]
  /\ Goto(p, IF pc[p] \in {"r_check", "r_copy"} THEN "r_check" ELSE "w_check")
  /\ UNCHANGED ubuf

\* goto error0 with a negative result; a read that fails delivers nothing it vouches for.
Fail(p, err) ==
  /\ ret' = [ret EXCEPT ![p] = err]
  /\ ubuf' = [ubuf EXCEPT ![p] = << >>]
  /\ Goto(p, "unlock")

ReadCheck(p) ==
  /\ pc[p] = "r_check"
  /\ IF validlen = 0
       THEN Fail(p, EAGAIN) /\ UNCHANGED cnt
       ELSE /\ cnt' = [cnt EXCEPT ![p] = MinOf(@, validlen)]
            /\ Goto(p, "r_copy")
            /\ UNCHANGED <<ubuf, ret>>
  /\ UNCHANGED <<kbuf, validlen, mutex>>

\* copy_to_user
ReadCopy(p) ==
  /\ pc[p] = "r_copy"
  /\ \/ /\ ubuf' = [ubuf EXCEPT ![p] = [i \in DOMAIN @ |->
                                          IF i <= cnt[p] THEN kbuf[i] ELSE @[i]]]
        /\ Goto(p, "r_move")
        /\ UNCHANGED ret
     \/ Fail(p, EIO)
  /\ UNCHANGED <<kbuf, validlen, mutex, cnt>>

\* The slip: the bytes that are left are not moved to the front.
BadReadMove(p) ==
  /\ pc[p] = "r_move"
  /\ Goto(p, "r_len")
  /\ UNCHANGED <<kbuf, validlen, mutex, cnt, ubuf, ret>>

\* memmove(kbuf, kbuf + cnt, validlen - cnt), then mdelay(50)
ReadMove(p) ==
  /\ pc[p] = "r_move"
  /\ kbuf' = [i \in 1..Cap |->
                IF i <= validlen - cnt[p] THEN kbuf[i + cnt[p]] ELSE kbuf[i]]
  /\ Goto(p, "r_len")
  /\ UNCHANGED <<validlen, mutex, cnt, ubuf, ret>>

ReadLen(p) ==
  /\ pc[p] = "r_len"
  /\ validlen' = validlen - cnt[p]
  /\ ret' = [ret EXCEPT ![p] = cnt[p]]
  /\ Goto(p, "unlock")
  /\ UNCHANGED <<kbuf, mutex, cnt, ubuf>>

WriteCheck(p) ==
  /\ pc[p] = "w_check"
  /\ IF validlen = Cap
       THEN Fail(p, ENOSPC) /\ UNCHANGED cnt
       ELSE /\ cnt' = [cnt EXCEPT ![p] = MinOf(@, Cap - validlen)]
            /\ Goto(p, "w_copy")
            /\ UNCHANGED <<ubuf, ret>>
  /\ UNCHANGED <<kbuf, validlen, mutex>>

\* What copy_from_user(kbuf + validlen, buf, cnt) leaves in the buffer when
\* only k bytes could be read: those bytes, and zeroes for the rest.
Received(p, k) ==
  [i \in 1..Cap |->
     IF i <= validlen \/ i > validlen + cnt[p] THEN kbuf[i]
     ELSE IF i <= validlen + k THEN ubuf[p][i - validlen] ELSE Zero]

WriteCopy(p) ==
  /\ pc[p] = "w_copy"
  /\ \/ /\ kbuf' = Received(p, cnt[p])
        /\ Goto(p, "w_len")
        /\ UNCHANGED <<ubuf, ret>>
     \/ /\ \E k \in 0..(cnt[p] - 1) : kbuf' = Received(p, k)
        /\ Fail(p, EIO)
  /\ UNCHANGED <<validlen, mutex, cnt>>

\* The slip: what was asked for is added, not what was copied.
BadWriteLen(p) ==
  /\ pc[p] = "w_len"
  /\ validlen' = validlen + Len(ubuf[p])
  /\ ret' = [ret EXCEPT ![p] = cnt[p]]
  /\ ubuf' = [ubuf EXCEPT ![p] = << >>]
  /\ Goto(p, "unlock")
  /\ UNCHANGED <<kbuf, mutex, cnt>>

WriteLen(p) ==
  /\ pc[p] = "w_len"
  /\ validlen' = validlen + cnt[p]
  /\ ret' = [ret EXCEPT ![p] = cnt[p]]
  /\ ubuf' = [ubuf EXCEPT ![p] = << >>]
  /\ Goto(p, "unlock")
  /\ UNCHANGED <<kbuf, mutex, cnt>>

\* The steps of a call that has begun: none waits, except MutexLock.
Body(p) == \/ ReadCheck(p) \/ ReadCopy(p) \/ ReadMove(p) \/ ReadLen(p)
           \/ WriteCheck(p) \/ WriteCopy(p) \/ WriteLen(p) \/ MutexUnlock(p)

Next == \E p \in Procs : ReadCall(p) \/ WriteCall(p) \/ MutexLock(p) \/ Body(p)

Spec == Init /\ [][Next]_vars

(***************************************************************************)
(* Fairness.  Code between lock and unlock runs to its end (WF on Body).   *)
(* A process at mutex_lock queues in FIFO order, but a newcomer may take a *)
(* mutex on the fast path before the woken waiter does: a waiter that      *)
(* finds the mutex free again and again gets it (SF on MutexLock).         *)
(* Nothing makes a process start a call.                                   *)
(***************************************************************************)
FairSpec == Spec /\ \A p \in Procs : WF_vars(Body(p)) /\ SF_vars(MutexLock(p))

-----------------------------------------------------------------------------
Labels == {"idle", "r_lock", "w_lock", "r_check", "r_copy", "r_move", "r_len",
           "w_check", "w_copy", "w_len", "unlock"}

\* Locations between mutex_lock and mutex_unlock.
Critical == Labels \ {"idle", "r_lock", "w_lock"}

\* Every variable has the values the C types and the caller allow.
TypeOK ==
  /\ kbuf \in [1..Cap -> Byte]
  /\ validlen \in 0..Cap
  /\ mutex \in Procs \cup {NoProc}
  /\ pc \in [Procs -> Labels]
  /\ cnt \in [Procs -> 0..MaxCnt]
  /\ ubuf \in [Procs -> UserData]
  /\ ret \in [Procs -> 0..MaxCnt \cup Errors]

\* The mutex is held exactly by the process between lock and unlock: no
\* error path returns with it held or releases it twice, no two processes
\* are in the buffer at once.
LockDiscipline ==
  \A p \in Procs : pc[p] \in Critical <=> mutex = p

\* A transfer in progress stays inside the valid bytes (read) or the free
\* space (write): what was checked at r_check / w_check still holds when the
\* copy, the memmove and the update of validlen use it.
TransferInBounds ==
  \A p \in Procs :
    /\ pc[p] \in {"r_copy", "r_move", "r_len"} => cnt[p] \in 1..validlen
    /\ pc[p] \in {"w_copy", "w_len"} => cnt[p] \in 1..(Cap - validlen)

\* Every call that has started returns.
CallsReturn ==
  \A p \in Procs : pc[p] # "idle" ~> pc[p] = "idle"

-----------------------------------------------------------------------------
(***************************************************************************)
(* Refinement of ByteFifo.  The call takes effect when validlen changes    *)
(* (ReadLen, WriteLen), or when it fails.  Between memmove and the update  *)
(* of validlen the buffer holds no queue; the bytes it stands for are then *)
(* those delivered to the reader followed by the moved ones.               *)
(***************************************************************************)
Moving(p) == pc[p] = "r_len"

Queue ==
  IF \E p \in Procs : Moving(p)
    THEN LET p == CHOOSE p \in Procs : Moving(p)
         IN  [i \in 1..validlen |->
                IF i <= cnt[p] THEN ubuf[p][i] ELSE kbuf[i - cnt[p]]]
    ELSE [i \in 1..validlen |-> kbuf[i]]

AbstractCall(p) ==
  CASE pc[p] \in {"r_lock", "r_check", "r_copy", "r_move", "r_len"} ->
         [op |-> "read", cnt |-> Len(ubuf[p]), data |-> << >>]
    [] pc[p] \in {"w_lock", "w_check", "w_copy", "w_len"} ->
         [op |-> "write", cnt |-> Len(ubuf[p]), data |-> ubuf[p]]
    [] OTHER -> [op |-> "done", cnt |-> ret[p],
                    data |-> IF ubuf[p] = << >> THEN << >> ELSE SubSeq(ubuf[p], 1, ret[p])]

Fifo == INSTANCE ByteFifo WITH
          q <- Queue, call <- [p \in Procs |-> AbstractCall(p)]

\* The device is a bounded FIFO of bytes, and every call takes effect at one
\* moment between its start and its return: no byte is lost, duplicated or
\* reordered, a failed call has no effect, EAGAIN means empty, ENOSPC full.
ImplementsFifo == Fifo!FifoSpec

=============================================================================
