------------------------------- MODULE KeysDev -------------------------------
(***************************************************************************)
(* The drivers of the four keys.  A key that goes down or up raises        *)
(* interrupts (its contact bounces); a 30 ms timer that each interrupt     *)
(* puts off stands for all of them, and when it expires the move is        *)
(* counted.  There is ONE timer and ONE tasklet for all the keys: each     *)
(* carries the key it is for in its data.                                  *)
(*                                                                         *)
(*   "keys"     src/keys/key.c: the interrupt arms the timer, the timer    *)
(*              schedules the tasklet, the tasklet counts, sets a flag     *)
(*              and wakes the reader (keys/app/app.c)                      *)
(*   "v1keys"   src/kernel_code_v1/keys/key.c: the interrupt schedules the *)
(*              tasklet, the tasklet arms the timer, the timer counts      *)
(*   "input"    src/input/keys/key.c, and "v1input"                        *)
(*              src/kernel_code_v1/inputsubsys_keys/key.c: the same two    *)
(*              chains, which report to the input core; the reader is      *)
(*              input/app/app.c.  The touch screens that the keys play     *)
(*              (input/1point_ts, 5point_mt, demo_ts) have these chains.   *)
(***************************************************************************)
EXTENDS Integers, Sequences

CONSTANTS Keys,
          MaxBounce,      \* bound: interrupts a key raises besides the first of a move
          MaxQueue,       \* bound: reports nobody has read (evdev keeps 64 events)
          KeysTakeTurns,  \* TRUE: a key moves when the last move has been dealt with;
                          \* FALSE: when ITS last move has, whatever the others do
          Drivers         \* the drivers looked at

ASSUME KeysAssumption == Keys # {}
ASSUME BoundsAssumption == MaxBounce \in Nat /\ MaxQueue \in Nat \ {0}
ASSUME TurnsAssumption == KeysTakeTurns \in BOOLEAN
ASSUME DriversAssumption == Drivers \subseteq {"keys", "v1keys", "input", "v1input"}

Shown == {0, 1}  \* up, down

VARIABLES
  drv,      \* the driver that is loaded; never changes
  phys,     \* the keys themselves: 1 is down
  bounces,  \* [key, left]: interrupts still to come from the last key that moved
  irqs,     \* keys whose interrupt is pending
  timer,    \* [on, key]: timer_pending(&timer), timer.data
  task,     \* [on, key]: the tasklet is scheduled, task.data
  count,    \* [at, key]: where the handler that counts is
  cnt,      \* keys[k].cnt, of which only the parity is ever looked at
  kbuf,     \* kbuf; for the input drivers the key states of the input core
  flag,     \* key_dnup_flag, dnup_flg
  queue,    \* the reports the input core keeps for the reader: [key, val]
  rpc,      \* the reader: in user space, in a wait, asleep, copying, ...
  got,      \* what it has been given
  slipped   \* history: it has cleared the flag of news it had not copied

inputs == <<drv, phys, bounces, irqs>>
chain == <<timer, task>>
counting == <<count, cnt, kbuf, queue>>
reader == <<rpc, got, slipped>>
vars == <<inputs, chain, counting, flag, reader>>

SomeKey == CHOOSE k \in Keys : TRUE

Init ==
  /\ drv \in Drivers
  /\ phys = [k \in Keys |-> 0] /\ bounces = [key |-> SomeKey, left |-> 0] /\ irqs = {}
  /\ timer = [on |-> FALSE, key |-> SomeKey]
  /\ task = [on |-> FALSE, key |-> SomeKey]
  /\ count = [at |-> "off", key |-> SomeKey]
  /\ cnt = [k \in Keys |-> 0]
  /\ kbuf = [k \in Keys |-> 0] /\ flag = 0 /\ queue = <<>>
  /\ rpc = "user"
  /\ got = [k \in Keys |-> 0] /\ slipped = FALSE

TimerFirst == drv \in {"keys", "input"}  \* else the tasklet is first
Flagged == drv \in {"keys", "v1keys"}    \* else there is an input device

InFlight(k) == \/ k \in irqs
               \/ timer.on /\ timer.key = k
               \/ task.on /\ task.key = k
               \/ count.at # "off" /\ count.key = k

Settled == \A k \in Keys : ~InFlight(k)

\* A person presses or releases a key ...
Move(k) ==
  /\ IF KeysTakeTurns THEN Settled ELSE ~InFlight(k)
  /\ Len(queue) < MaxQueue
  /\ phys' = [phys EXCEPT ![k] = 1 - @]
  /\ irqs' = irqs \cup {k}
  /\ bounces' = [key |-> k, left |-> MaxBounce]
  /\ UNCHANGED <<drv, chain, counting, flag, reader>>

\* ... and its contact bounces, for less than 30 ms.
Bounce(k) ==
  /\ bounces.key = k /\ bounces.left > 0
  /\ irqs' = irqs \cup {k}
  /\ bounces' = [bounces EXCEPT !.left = @ - 1]
  /\ UNCHANGED <<drv, phys, chain, counting, flag, reader>>

-----------------------------------------------------------------------------
ArmTimer(k) == timer' = [on |-> TRUE, key |-> k]
Schedule(k) == task' = [on |-> TRUE, key |-> k]
StartCount(k) == count' = [at |-> "update", key |-> k]

\* Operators whose name begins with Bad are slips in what follows them.
\* Here: the handlers of two drivers are mixed up, nothing debounces.
BadDoKeyIrq(k) ==
  /\ k \in irqs
  /\ irqs' = irqs \ {k}
  /\ Schedule(k) /\ UNCHANGED timer
  /\ UNCHANGED <<drv, phys, bounces, counting, flag, reader>>

\* do_key_irq_tp: timer.data = dev; mod_timer(&timer, ...)
\* do_4keys: task.data = data; tasklet_schedule(&task)
DoKeyIrq(k) ==
  /\ k \in irqs
  /\ irqs' = irqs \ {k}
  /\ IF TimerFirst THEN ArmTimer(k) /\ UNCHANGED task ELSE Schedule(k) /\ UNCHANGED timer
  /\ UNCHANGED <<drv, phys, bounces, counting, flag, reader>>

\* 30 ms without an interrupt have passed: an interrupt is taken, and its
\* tasklet runs, within microseconds, so none is left to put the timer off
\* and the contact has come to rest.
Expires ==
  /\ timer.on /\ irqs = {} /\ (TimerFirst \/ ~task.on)
  /\ timer' = [timer EXCEPT !.on = FALSE]
  /\ bounces' = [bounces EXCEPT !.left = 0]

\* The slip: the data are passed on, the tasklet is not scheduled.
BadDoTimerKey ==
  /\ TimerFirst /\ Expires
  /\ task' = [task EXCEPT !.key = timer.key]
  /\ UNCHANGED <<drv, phys, irqs, counting, flag, reader>>

\* do_timer_key: task.data = data; tasklet_schedule(&task)
DoTimerKey ==
  /\ TimerFirst /\ Expires
  /\ Schedule(timer.key)
  /\ UNCHANGED <<drv, phys, irqs, counting, flag, reader>>

\* do_bh_key starts with the data the tasklet has at that moment.
DoBhKey ==
  /\ TimerFirst /\ task.on /\ count.at = "off"
  /\ task' = [task EXCEPT !.on = FALSE]
  /\ StartCount(task.key)
  /\ UNCHANGED <<inputs, timer, cnt, kbuf, queue, flag, reader>>

\* do_4key_bh: mod_timer(&timer, ...); timer.data = data
Do4keyBh ==
  /\ ~TimerFirst /\ task.on
  /\ task' = [task EXCEPT !.on = FALSE]
  /\ ArmTimer(task.key)
  /\ UNCHANGED <<inputs, counting, flag, reader>>

\* do_timer of the v1 drivers starts.
DoTimer ==
  /\ ~TimerFirst /\ Expires /\ count.at = "off"
  /\ StartCount(timer.key)
  /\ UNCHANGED <<drv, phys, irqs, task, cnt, kbuf, queue, flag, reader>>

-----------------------------------------------------------------------------
Flip == cnt' = [cnt EXCEPT ![count.key] = (@ + 1) % 2]

\* The move is counted and the entry of kbuf set,
CountInKbuf ==
  /\ Flagged /\ count.at = "update"
  /\ Flip
  /\ kbuf' = [kbuf EXCEPT ![count.key] = cnt'[count.key]]
  /\ count' = [count EXCEPT !.at = "flag"]
  /\ UNCHANGED <<inputs, chain, queue, flag, reader>>

\* then the flag,
SetFlag ==
  /\ count.at = "flag"
  /\ flag' = 1
  /\ count' = [count EXCEPT !.at = "wake"]
  /\ UNCHANGED <<inputs, chain, cnt, kbuf, queue, reader>>

WakeReader == rpc' = IF rpc = "asleep" THEN "test" ELSE rpc

\* The slip: nobody is woken.
BadWake ==
  /\ count.at = "wake"
  /\ count' = [count EXCEPT !.at = "off"]
  /\ UNCHANGED <<inputs, chain, cnt, kbuf, queue, flag, reader>>

\* and the reader is woken, if it sleeps.
Wake ==
  /\ count.at = "wake"
  /\ count' = [count EXCEPT !.at = "off"]
  /\ WakeReader
  /\ UNCHANGED <<inputs, chain, cnt, kbuf, queue, flag, got, slipped>>

\* The slip: the report goes to a buffer of one.
BadReport ==
  /\ ~Flagged /\ count.at = "update"
  /\ Flip
  /\ kbuf' = [kbuf EXCEPT ![count.key] = cnt'[count.key]]
  /\ queue' = <<[key |-> count.key, val |-> cnt'[count.key]]>>
  /\ count' = [count EXCEPT !.at = "off"]
  /\ WakeReader
  /\ UNCHANGED <<inputs, chain, flag, got, slipped>>

\* The move is counted and reported, input_report_key(code, cnt % 2) and
\* input_sync, which under the lock of the input core note it, queue it for
\* the reader and wake it.
Report ==
  /\ ~Flagged /\ count.at = "update"
  /\ Flip
  /\ kbuf' = [kbuf EXCEPT ![count.key] = cnt'[count.key]]
  /\ queue' = Append(queue, [key |-> count.key, val |-> cnt'[count.key]])
  /\ count' = [count EXCEPT !.at = "off"]
  /\ WakeReader
  /\ UNCHANGED <<inputs, chain, flag, got, slipped>>

-----------------------------------------------------------------------------
\* key_read of 4 bytes (any other count is -EINVAL and changes nothing);
\* app.c of the input devices calls epoll_wait.
ReadCall ==
  /\ rpc = "user"
  /\ rpc' = "test"
  /\ UNCHANGED <<inputs, chain, counting, flag, got, slipped>>

\* The reader is on the queue before it looks for the last time, so looking
\* and falling asleep are one step.
ReadWait ==
  /\ rpc = "test"
  /\ rpc' = IF flag = 1 \/ queue # <<>> THEN "copy" ELSE "asleep"
  /\ UNCHANGED <<inputs, chain, counting, flag, got, slipped>>

\* A signal: the result of the wait is ignored, the read goes on.
ReadSignal ==
  /\ Flagged /\ rpc = "asleep"
  /\ rpc' = "copy"
  /\ UNCHANGED <<inputs, chain, counting, flag, got, slipped>>

\* copy_to_user; when it fails the read does, and the program exits.
ReadCopy ==
  /\ Flagged /\ rpc = "copy"
  /\ \/ got' = kbuf /\ rpc' = "clear" /\ slipped' = FALSE
     \/ rpc' = "exited" /\ UNCHANGED <<got, slipped>>
  /\ UNCHANGED <<inputs, chain, counting, flag>>

\* key_dnup_flag = 0, after the copy: what has been flagged in between goes
\* unnoticed.
ReadClear ==
  /\ rpc = "clear"
  /\ flag' = 0
  /\ slipped' = (kbuf # got /\ count.at # "flag")
  /\ rpc' = "user"
  /\ UNCHANGED <<inputs, chain, counting, got>>

\* input_device_read takes one report.
ReadReport ==
  /\ ~Flagged /\ rpc = "copy"
  /\ got' = [got EXCEPT ![Head(queue).key] = Head(queue).val]
  /\ queue' = Tail(queue)
  /\ rpc' = "user"
  /\ UNCHANGED <<inputs, chain, count, cnt, kbuf, flag, slipped>>

Pipeline ==
  \/ \E k \in Keys : DoKeyIrq(k)
  \/ DoTimerKey \/ DoBhKey \/ Do4keyBh \/ DoTimer
  \/ CountInKbuf \/ SetFlag \/ Wake \/ Report

Reader == ReadCall \/ ReadWait \/ ReadCopy \/ ReadClear \/ ReadReport

Next ==
  \/ \E k \in Keys : Move(k) \/ Bounce(k)
  \/ Pipeline \/ Reader \/ ReadSignal

Spec == Init /\ [][Next]_vars

\* Interrupts, timers and tasklets run, the program reads in a loop; nobody
\* has to press a key.
FairSpec == Spec /\ WF_vars(Pipeline) /\ WF_vars(Reader)

-----------------------------------------------------------------------------
\* key.c:36: kbuf holds whether each of the keys is down.  So once every
\* interrupt has been dealt with it agrees with the keys: each move was
\* counted, and once, however often its contact bounced.
KbufFollowsKeys == Settled => kbuf = phys

\* What is in flight is a move that kbuf does not show yet: in either order
\* of timer and tasklet the stages never have two moves of one key among
\* them, and never none while kbuf is behind, however the contact bounces
\* (key.c:83-87, v1 key.c:84-98).  KbufFollowsKeys is what this says of a
\* settled state.
OneMoveInFlight ==
  \A k \in Keys : kbuf[k] # phys[k] <=>
    \/ k \in irqs \/ (timer.on /\ timer.key = k) \/ (task.on /\ task.key = k)
    \/ (count.at = "update" /\ count.key = k)

\* Once the reader has read all that is queued it takes the state of k for v:
\* the last report of k says v, or no report is of k and v is what it has.
WillShow(k, v) ==
  \/ got[k] = v /\ \A i \in DOMAIN queue : queue[i].key # k
  \/ \E i \in DOMAIN queue :
       queue[i] = [key |-> k, val |-> v] /\ \A j \in DOMAIN queue : j > i => queue[j].key # k

\* The reader of an input device loses nothing while it is fewer than MaxQueue
\* reports behind (a full evdev queue drops reports; here the keys rest then):
\* what it has been given and what is queued for it make the present state
\* of the keys, and it does not sleep while something is queued.  The drivers
\* with a flag lose exactly what is flagged between their copy and the
\* clearing of the flag (key.c:126-130, v1 key.c:48-52): but for that a
\* reader that sleeps when all is quiet knows kbuf.
ReaderMissesNothing ==
  IF Flagged THEN Settled /\ rpc = "asleep" => got = kbuf \/ slipped
             ELSE /\ \A k \in Keys : WillShow(k, kbuf[k])
                  /\ rpc = "asleep" => queue = <<>>

\* Every move shows in kbuf in the end.
MovesAreRecorded == kbuf # phys ~> kbuf = phys

\* News that is flagged before the reader has copied reaches it.
FlaggedNewsIsRead ==
  (flag = 1 /\ rpc # "clear") ~> (got = kbuf \/ rpc = "exited")

=============================================================================
