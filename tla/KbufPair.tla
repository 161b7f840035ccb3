------------------------------ MODULE KbufPair ------------------------------
(***************************************************************************)
(* The kbuf devices that have no lock, used by one reader and one writer:  *)
(*                                                                         *)
(*   "plain"   src/kbufchardrv/kbuf.c, src/locks/kbufchardrv/kbuf.c: an    *)
(*             empty or full buffer is an error; src/kbufmisc/kbuf.c does  *)
(*             the same to its single buffer                               *)
(*   "ioctl"   src/kbufioctl/kbuf.c: the same called from an ioctl, which  *)
(*             fetches the count and stores the result in user space       *)
(*   "block"   src/kbufchardrv_block/kbuf.c: it is waited for              *)
(*   "poll"    src/kbufchardrv_poll/kbuf.c: the same, with kbuf_poll       *)
(*   "server"  the last one with its programs: readserver sleeps in        *)
(*             epoll_wait (level triggered) and reads what is reported     *)
(*             readable, writecli writes                                   *)
(*                                                                         *)
(* Every look at validlen is a step of its own - the check, min(), the     *)
(* address of the copy, the load and the store of -= and += - so that the  *)
(* other process may run between any two.  Where a compiler merges two     *)
(* loads the behaviour is one in which nobody ran in between.  The bytes   *)
(* are left out: lengths decide who sleeps, who is woken and what a        *)
(* transfer covers.                                                        *)
(***************************************************************************)
EXTENDS Integers

CONSTANTS Readers, Writers,
          Cap,      \* SZ_512
          MaxCnt,   \* bound: the largest count a program passes
          Drivers   \* the drivers (see above) to be looked at

ASSUME RolesAssumption == Readers \cap Writers = {}
ASSUME CapAssumption == Cap \in Nat /\ Cap > 1  \* a server asks for Cap - 1 bytes
ASSUME MaxCntAssumption == MaxCnt \in Nat /\ MaxCnt >= Cap - 1
ASSUME DriversAssumption == Drivers \subseteq {"plain", "ioctl", "block", "poll", "server"}

Procs == Readers \cup Writers

VARIABLES
  drv,       \* the driver that is loaded; never changes
  validlen,
  pc, cnt,   \* per process: where it is in its call, its local cnt
  loaded,    \* the value of validlen it has in a register
  waitr,     \* processes on pdev->waitr: they sleep or are about to
  waitw,     \* processes on pdev->waitw
  pending,   \* processes that a signal has been sent to
  ready,     \* servers whose eventpoll has the device on its ready list
  held,      \* history: bytes that copies put in and no memmove took out
  torn       \* history: a store has gone over a store of the other process

Unblocking == {"plain", "ioctl"}

lens == <<validlen, held, torn>>
queues == <<waitr, waitw>>
vars == <<drv, lens, pc, cnt, loaded, queues, pending, ready>>

\* The operators whose name begins with Bad are wrong on purpose: each is a
\* slip in the definition that follows it, for the properties to be tried on.
BadMinOf(a, b) == a

MinOf(a, b) == IF a <= b THEN a ELSE b

Init ==
  /\ drv \in Drivers
  /\ validlen = 0
  /\ pc = [p \in Procs |-> "idle"]
  /\ cnt = [p \in Procs |-> 0]
  /\ loaded = [p \in Procs |-> 0]
  /\ waitr = {} /\ waitw = {}
  /\ pending = {}
  /\ ready = {}  \* epoll_ctl(EPOLL_CTL_ADD) polls the device, which is empty
  /\ held = 0 /\ torn = FALSE

Goto(p, l) == pc' = [pc EXCEPT ![p] = l]

\* The history, which no step looks at.  It is kept until the first store
\* that wipes out what the other process stored since the load.
Holds(n) == held' = IF torn THEN 0 ELSE held + n

Tear(p) ==
  /\ torn' = (torn \/ validlen # loaded[p])
  /\ held' = IF torn' THEN 0 ELSE held

\* Back to user space, where a pending signal is delivered.
Return(p) ==
  /\ Goto(p, "idle")
  /\ cnt' = [cnt EXCEPT ![p] = 0]
  /\ loaded' = [loaded EXCEPT ![p] = 0]
  /\ pending' = pending \ {p}

\* A program that reads or writes without asking first.  A call for no bytes
\* returns 0 at once and is not a step here.
Call(p, l) ==
  /\ pc[p] = "idle" /\ drv # "ioctl"
  /\ \E n \in 1..MaxCnt : cnt' = [cnt EXCEPT ![p] = n]
  /\ Goto(p, l)
  /\ UNCHANGED <<drv, lens, loaded, queues, pending, ready>>

\* kbuf_unlocked_ioctl: copy_from_user gives the count of the bytes it could
\* NOT copy and never a negative one, so a failure goes on with whatever
\* count is found; when get_user finds none the call has changed nothing.
IoctlCall(p, l) ==
  /\ pc[p] = "idle" /\ drv = "ioctl"
  /\ \E n \in 1..MaxCnt : cnt' = [cnt EXCEPT ![p] = n]
  /\ Goto(p, l)
  /\ UNCHANGED <<drv, lens, loaded, queues, pending, ready>>

\* A signal sent to a process that sleeps, or is about to, in a system call.
Signal(p) ==
  /\ drv \notin Unblocking
  /\ pc[p] \in {"r_wait", "r_test", "r_sleep", "w_wait", "w_test", "w_sleep"}
  /\ pending' = pending \cup {p}
  /\ UNCHANGED <<drv, lens, pc, cnt, loaded, queues, ready>>

\* The plain drivers: -EAGAIN from an empty buffer, -ENOSPC from a full one.
CheckOrFail(p, cond, check, after) ==
  /\ pc[p] = check
  /\ IF cond THEN Goto(p, after) /\ UNCHANGED <<cnt, loaded, pending>>
             ELSE Return(p)
  /\ UNCHANGED <<drv, lens, queues, ready>>

(***************************************************************************)
(* wait_event_interruptible(q, cond), as the kernel's macro does it: look  *)
(* at cond; while it is false, join the queue, look AGAIN, and only then   *)
(* sleep, until a wake_up takes the process off the queue or a signal      *)
(* arrives.  The process leaves the queue when it goes on.                 *)
(***************************************************************************)
WaitBegin(p, cond, wait, test, after, q) ==
  /\ pc[p] = wait
  /\ IF cond THEN Goto(p, after) /\ UNCHANGED q
             ELSE Goto(p, test) /\ q' = q \cup {p}
  /\ UNCHANGED <<drv, lens, cnt, loaded, pending, ready>>

WaitTest(p, cond, test, sleep, after, interrupted, q) ==
  /\ pc[p] = test
  /\ IF cond \/ p \in pending
       THEN Goto(p, IF cond THEN after ELSE interrupted) /\ q' = q \ {p}
       ELSE Goto(p, sleep) /\ UNCHANGED q
  /\ UNCHANGED <<drv, lens, cnt, loaded, pending, ready>>

WaitWake(p, test, sleep, q) ==
  /\ pc[p] = sleep
  /\ p \notin q \/ p \in pending
  /\ Goto(p, test)
  /\ q' = q \cup {p}
  /\ UNCHANGED <<drv, lens, cnt, loaded, pending, ready>>

Wait(p, cond, wait, test, sleep, after, interrupted, q) ==
  \/ WaitBegin(p, cond, wait, test, after, q)
  \/ WaitTest(p, cond, test, sleep, after, interrupted, q)
  \/ WaitWake(p, test, sleep, q)

\* put_user of what was read or written: should it fail the call reports an
\* error although the bytes have moved.
IoctlReturn(p) ==
  /\ drv = "ioctl" /\ pc[p] \in {"r_wake", "w_wake"}
  /\ Return(p)
  /\ UNCHANGED <<drv, lens, queues, ready>>

PlainReadCheck(p) == drv \in Unblocking /\ CheckOrFail(p, validlen # 0, "r_wait", "r_min")

ReadWait(p) ==
  /\ drv \notin Unblocking
  /\ Wait(p, validlen # 0, "r_wait", "r_test", "r_sleep", "r_min", "r_intr", waitr)
  /\ UNCHANGED waitw

\* The blocking driver does not look at the result of
\* wait_event_interruptible: an interrupted read goes on like a woken one.
BlockReadInterrupted(p) ==
  /\ drv = "block" /\ pc[p] = "r_intr"
  /\ Goto(p, "r_min")
  /\ UNCHANGED <<drv, lens, cnt, loaded, queues, pending, ready>>

\* The slip: as in the blocking driver.
BadPollReadInterrupted(p) ==
  /\ drv \in {"poll", "server"} /\ pc[p] = "r_intr"
  /\ Goto(p, "r_min")
  /\ UNCHANGED <<drv, lens, cnt, loaded, queues, pending, ready>>

\* The pollable one does: if (ret < 0) return ret.
PollReadInterrupted(p) ==
  /\ drv \in {"poll", "server"} /\ pc[p] = "r_intr"
  /\ Return(p)
  /\ UNCHANGED <<drv, lens, queues, ready>>

ReadMin(p) ==
  /\ pc[p] = "r_min"
  /\ cnt' = [cnt EXCEPT ![p] = MinOf(@, validlen)]
  /\ Goto(p, "r_copy")
  /\ UNCHANGED <<drv, lens, loaded, queues, pending, ready>>

\* copy_to_user; -EIO when it fails, which a copy of nothing does not, nor one
\* to readserver's own array.
ReadCopy(p) ==
  /\ pc[p] = "r_copy"
  /\ \/ Goto(p, "r_move") /\ UNCHANGED <<cnt, loaded, pending>>
     \/ cnt[p] > 0 /\ drv # "server" /\ Return(p)
  /\ UNCHANGED <<drv, lens, queues, ready>>

\* memmove of validlen - cnt bytes to the front: the cnt first are gone,
\* though validlen has yet to be told.
ReadMove(p) ==
  /\ pc[p] = "r_move"
  /\ Goto(p, "r_load")
  /\ Holds(-cnt[p])
  /\ UNCHANGED <<drv, validlen, torn, cnt, loaded, queues, pending, ready>>

\* The load of -= and +=.
Load(p, from, to) ==
  /\ pc[p] = from
  /\ loaded' = [loaded EXCEPT ![p] = validlen]
  /\ Goto(p, to)
  /\ UNCHANGED <<drv, lens, cnt, queues, pending, ready>>

\* The slip: the += of the writer, copied.
BadReadStore(p) ==
  /\ pc[p] = "r_store"
  /\ validlen' = loaded[p] + cnt[p]
  /\ Tear(p)
  /\ Goto(p, "r_wake")
  /\ UNCHANGED <<drv, cnt, loaded, queues, pending, ready>>

ReadStore(p) ==
  /\ pc[p] = "r_store"
  /\ validlen' = loaded[p] - cnt[p]
  /\ Tear(p)
  /\ Goto(p, "r_wake")
  /\ UNCHANGED <<drv, cnt, loaded, queues, pending, ready>>

\* The slip: one of the two queues is not polled, here the one a writer wakes.
BadWakePollers == UNCHANGED ready

\* The callbacks that poll_wait left on both queues put the device on the list.
WakePollers == ready' = IF drv = "server" THEN Readers ELSE {}

\* The slip: the reader wakes the readers.
BadReadWake(p) ==
  /\ drv # "ioctl" /\ pc[p] = "r_wake"
  /\ waitr' = {}
  /\ WakePollers
  /\ Return(p)
  /\ UNCHANGED <<drv, lens, waitw>>

\* wake_up_interruptible(&pdev->waitw): everybody on the queue is taken off it
\* (nobody is on it in the plain drivers, which have none); return cnt.
ReadWake(p) ==
  /\ drv # "ioctl" /\ pc[p] = "r_wake"
  /\ waitw' = {}
  /\ WakePollers
  /\ Return(p)
  /\ UNCHANGED <<drv, lens, waitr>>

PlainWriteCheck(p) == drv \in Unblocking /\ CheckOrFail(p, validlen # Cap, "w_wait", "w_min")

WriteWait(p) ==
  /\ drv \notin Unblocking
  /\ Wait(p, validlen # Cap, "w_wait", "w_test", "w_sleep", "w_min", "w_intr", waitw)
  /\ UNCHANGED waitr

\* Both drivers look at the result here.
WriteInterrupted(p) ==
  /\ pc[p] = "w_intr"
  /\ Return(p)
  /\ UNCHANGED <<drv, lens, queues, ready>>

WriteMin(p) ==
  /\ pc[p] = "w_min"
  /\ cnt' = [cnt EXCEPT ![p] = MinOf(@, Cap - validlen)]
  /\ Goto(p, "w_copy")
  /\ UNCHANGED <<drv, lens, loaded, queues, pending, ready>>

WriteCopy(p) ==
  /\ pc[p] = "w_copy"
  /\ \/ Goto(p, "w_load") /\ Holds(cnt[p]) /\ UNCHANGED <<cnt, loaded, pending>>
     \/ Return(p) /\ UNCHANGED held
  /\ UNCHANGED <<drv, validlen, torn, queues, ready>>

\* The slip: =+ for +=.
BadWriteStore(p) ==
  /\ pc[p] = "w_store"
  /\ validlen' = cnt[p]
  /\ Tear(p)
  /\ Goto(p, "w_wake")
  /\ UNCHANGED <<drv, cnt, loaded, queues, pending, ready>>

WriteStore(p) ==
  /\ pc[p] = "w_store"
  /\ validlen' = loaded[p] + cnt[p]
  /\ Tear(p)
  /\ Goto(p, "w_wake")
  /\ UNCHANGED <<drv, cnt, loaded, queues, pending, ready>>

WriteWake(p) ==
  /\ drv # "ioctl" /\ pc[p] = "w_wake"
  /\ waitr' = {}
  /\ WakePollers
  /\ Return(p)
  /\ UNCHANGED <<drv, lens, waitw>>

\* kbuf_read and kbuf_write between the check or the wait and the return.
ReadTransfer(p) == \/ ReadMin(p) \/ ReadCopy(p) \/ ReadMove(p)
                   \/ Load(p, "r_load", "r_store") \/ ReadStore(p) \/ ReadWake(p)
                   \/ IoctlReturn(p)

WriteTransfer(p) == \/ WriteMin(p) \/ WriteCopy(p) \/ Load(p, "w_load", "w_store")
                    \/ WriteStore(p) \/ WriteWake(p) \/ IoctlReturn(p)

\* readserver in epoll_wait ("idle"): the kernel takes the device off the
\* list of ready files ...
EpollTake(p) ==
  /\ drv = "server"
  /\ pc[p] = "idle" /\ p \in ready
  /\ ready' = ready \ {p}
  /\ Goto(p, "ep_poll")
  /\ UNCHANGED <<drv, lens, cnt, loaded, queues, pending>>

\* The slip: POLLIN on the condition that belongs to POLLOUT.
BadReadable == validlen # Cap

\* The mask of kbuf_poll has POLLIN when the buffer is not empty.
Readable == validlen # 0

\* ... asks kbuf_poll, and if it is readable puts it back on the list (level
\* triggered) and reports it; the server then reads CNT - 1 = 511 bytes.
KbufPollCall(p) ==
  /\ pc[p] = "ep_poll"
  /\ IF Readable
       THEN /\ ready' = ready \cup {p}
            /\ cnt' = [cnt EXCEPT ![p] = Cap - 1]
            /\ Goto(p, "r_wait")
       ELSE Goto(p, "idle") /\ UNCHANGED <<ready, cnt>>
  /\ UNCHANGED <<drv, lens, loaded, queues, pending>>

ReadBody(p) == \/ PlainReadCheck(p) \/ ReadWait(p) \/ BlockReadInterrupted(p)
               \/ PollReadInterrupted(p) \/ ReadTransfer(p)
               \/ EpollTake(p) \/ KbufPollCall(p)

WriteBody(p) == PlainWriteCheck(p) \/ WriteWait(p) \/ WriteInterrupted(p) \/ WriteTransfer(p)

Next ==
  \/ \E p \in Readers : (drv # "server" /\ Call(p, "r_wait")) \/ IoctlCall(p, "r_wait") \/ ReadBody(p)
  \/ \E p \in Writers : Call(p, "w_wait") \/ IoctlCall(p, "w_wait") \/ WriteBody(p)
  \/ \E p \in Procs : Signal(p)

Spec == Init /\ [][Next]_vars

\* A process in a call runs when it can, a server goes on serving; nobody has
\* to make a call.
FairSpec ==
  /\ Spec
  /\ \A p \in Readers : WF_vars(ReadBody(p))
  /\ \A p \in Writers : WF_vars(WriteBody(p))

-----------------------------------------------------------------------------
\* What one process has checked stays good enough for what it does next,
\* although validlen changes under it: a read copies, moves and subtracts at
\* most what is valid, a write fills at most what is free, and what is about
\* to be stored in validlen is a length: a value in a register is behind
\* validlen only by what the other process did since.  The drivers owe this to having ONE
\* reader and ONE writer: each moves validlen in the harmless direction only.
TransfersStayInside ==
  /\ \A p \in Readers :
       /\ pc[p] \in {"r_copy", "r_move", "r_load"} => cnt[p] <= validlen
       /\ pc[p] = "r_store" => cnt[p] <= loaded[p] /\ loaded[p] <= validlen
  /\ \A p \in Writers :
       /\ pc[p] = "w_min" => validlen < Cap
       /\ pc[p] \in {"w_copy", "w_load"} => cnt[p] \in 1..(Cap - validlen)
       /\ pc[p] = "w_store" => cnt[p] \in 1..(Cap - loaded[p]) /\ loaded[p] >= validlen

\* No lost wakeup: a process that is down on its queue although what it
\* waits for is true is about to be woken by the other side.
NobodySleepsThrough ==
  /\ \A p \in Readers : pc[p] = "r_sleep" /\ p \in waitr /\ validlen # 0
                          => \E w \in Writers : pc[w] = "w_wake"
  /\ \A p \in Writers : pc[p] = "w_sleep" /\ p \in waitw /\ validlen # Cap
                          => \E r \in Readers : pc[r] = "r_wake"

\* A read that goes on to copy has something to copy: none reports 0 bytes,
\* which a program takes for the end of the file.  The exception is the
\* blocking driver, whose comment promises the same (kbufchardrv_block/
\* kbuf.c:87) and which drops the result of the wait: a signal makes it go on.
CheckedReadsHaveData ==
  \A p \in Readers :
    pc[p] \in {"r_copy", "r_move", "r_load", "r_store"}
      => cnt[p] > 0 \/ (drv = "block" /\ p \in pending)

\* What kbuf_poll reports stays true until the server reads: its read never
\* sleeps, so one slow device cannot stop the other 15.
ReadyReadsDoNotSleep ==
  \A p \in Readers : drv = "server" => pc[p] \notin {"r_test", "r_sleep", "r_intr"}

\* Once a writer's copy has succeeded a waiting reader gets to return, and
\* once a reader has taken bytes out a waiting writer does.
TransferReleasesWaiter ==
  \A r \in Readers, w \in Writers :
    /\ (pc[r] \in {"r_test", "r_sleep"} /\ pc[w] = "w_store") ~> pc[r] = "idle"
    /\ (pc[w] \in {"w_test", "w_sleep"} /\ pc[r] = "r_store" /\ cnt[r] > 0)
          ~> pc[w] = "idle"

\* No signal, failed copy, wake-up without data or order of the two processes
\* puts validlen out of step with the bytes: it is what the copies put in less
\* what the moves took out, but for the transfers whose store is still to
\* come.  This holds up to the first lost update (torn): a load and store of
\* one process with a store of the other in between (kbufchardrv/kbuf.c:77
\* and 100).  After that only the bounds of TransfersStayInside are left of it:
\* bytes that were written may be dropped, or some that were read given again.
Uncounted(p) == IF pc[p] \in {"r_load", "r_store", "w_load", "w_store"} THEN cnt[p] ELSE 0

CountIsExact ==
  \A r \in Readers, w \in Writers :
    torn \/ held = validlen + Uncounted(w) - Uncounted(r)

\* The server does not sleep over a buffer that holds something: from
\* epoll_wait it gets to a read that was not under way before and takes at
\* least one byte.  (Not that it gets every byte: a lost update hides some
\* from validlen, and what validlen does not tell nobody polls for.)
DataIsServed ==
  \A p \in Readers :
    (drv = "server" /\ validlen # 0 /\ pc[p] \in {"idle", "ep_poll"})
       ~> (pc[p] = "r_store" /\ cnt[p] > 0)

=============================================================================
