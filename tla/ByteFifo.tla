------------------------------ MODULE ByteFifo ------------------------------
(***************************************************************************)
(* What one kbuf device promises the processes that share it: a bounded    *)
(* queue of bytes.  A system call is requested, takes effect at ONE moment *)
(* between its start and its return, and then reports its result.  A read  *)
(* removes a prefix of the queue and hands exactly those bytes over, a     *)
(* write appends a prefix of its data; a call that fails changes nothing.  *)
(* KbufDev is shown to implement this module, KbufSema to implement        *)
(* KbufDev.                                                                *)
(***************************************************************************)
EXTENDS Integers, Sequences

CONSTANTS Procs,   \* the processes that have the device file open
          Byte,    \* the values of a byte
          Cap,     \* size of the buffer (SZ_512 in the code)
          MaxCnt   \* largest count a process asks for

\* Negative results of a system call, as errno gives them.
EIO    == -5
EAGAIN == -11
ENOSPC == -28

\* The user buffers a process may pass: the data of a write, the bytes a read got.
UserData == UNION {[1..n -> Byte] : n \in 0..MaxCnt}

VARIABLES q,     \* the bytes in the device, oldest first
          call   \* per process: the call it makes, or the result it got

fifoVars == <<q, call>>

Reading(n)    == [op |-> "read", cnt |-> n, data |-> << >>]
Writing(s)    == [op |-> "write", cnt |-> Len(s), data |-> s]
Done(r, s)    == [op |-> "done", cnt |-> r, data |-> s]

MinOf(a, b) == IF a <= b THEN a ELSE b

FifoInit ==
  /\ q = << >>
  /\ call = [p \in Procs |-> Done(0, << >>)]

\* A call that asks for no bytes has returned as soon as it is made.
Call(p) ==
  /\ call[p].op = "done"
  /\ \/ call' = [call EXCEPT ![p] = Done(0, << >>)]
     \/ \E n \in 1..MaxCnt : call' = [call EXCEPT ![p] = Reading(n)]
     \/ \E s \in UserData : s # << >> /\ call' = [call EXCEPT ![p] = Writing(s)]
  /\ UNCHANGED q

\* A read of a non-empty queue: the first bytes, at most as many as asked for.
Get(p) ==
  LET n == MinOf(call[p].cnt, Len(q)) IN
  /\ call[p].op = "read" /\ q # << >>
  /\ q' = SubSeq(q, n + 1, Len(q))
  /\ call' = [call EXCEPT ![p] = Done(n, SubSeq(q, 1, n))]

\* A write to a queue with room: as much of the data as fits.
Put(p) ==
  LET n == MinOf(call[p].cnt, Cap - Len(q)) IN
  /\ call[p].op = "write" /\ Len(q) < Cap
  /\ q' = q \o SubSeq(call[p].data, 1, n)
  /\ call' = [call EXCEPT ![p] = Done(n, << >>)]

\* The calls that leave the queue alone, each with the reason for it.
Nothing(p) ==
  /\ call[p].op \in {"read", "write"}
  /\ \E r \in {EAGAIN, ENOSPC, EIO} :
       /\ r = EAGAIN => call[p].op = "read" /\ q = << >>
       /\ r = ENOSPC => call[p].op = "write" /\ Len(q) = Cap
       /\ call' = [call EXCEPT ![p] = Done(r, << >>)]
  /\ UNCHANGED q

FifoNext == \E p \in Procs : Call(p) \/ Get(p) \/ Put(p) \/ Nothing(p)

FifoSpec == FifoInit /\ [][FifoNext]_fifoVars

=============================================================================
