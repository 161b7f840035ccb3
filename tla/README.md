# Verification of kernel_code

TLA+ models, TLC runs and TLAPS proofs about the drivers of this repository: Linux kernel modules
(character devices, locks, interrupts with their bottom halves, timers, input devices, LEDs, lists
in /proc) and the user programs that come with them. `src/kernel_code_v1` holds earlier versions of
many of the drivers; where the two differ in something a model can see, both are modelled.

The drivers are small. What is hard in them is what happens at the same time: two programs in
`read` and `write`, an interrupt between two statements of a program, a timer that expires while
`rmmod` is under way, a step of `init` that fails after five others have succeeded. That is what
the models are about. Data are modelled only as far as a property can tell them apart.

How to run, in this directory:

    tlc -workers 2 -config KbufDev.cfg KbufDev.tla      # any run of the table below
    tlapm KbufDevProofs.tla                             # any of the eight *Proofs modules

`PROJECT.json` lists, in machine-readable form, the runs, which source lines each definition
stands for (`map`), the hazards, the findings, and for each property a deliberate slip in a
definition that the property detects (`mutants`: the operators whose names begin with `Bad`).


## 1. The system

### 1.1 Components

| Component | Source | State | Operations |
|---|---|---|---|
| kbuf device, mutex | `src/locks/mutex/kbuf.c` | 512 byte buffer, `validlen`, mutex | open, read, write, release |
| kbuf device, semaphore | `src/locks/semaphore/kbuf.c` | the same with a semaphore | the same |
| kbuf device, no lock | `src/kbufchardrv`, `src/locks/kbufchardrv` | buffer, `validlen` | the same |
| blocking kbuf device | `src/kbufchardrv_block/kbuf.c` | and two wait queues | read and write that wait |
| pollable kbuf device | `src/kbufchardrv_poll/kbuf.c`, its `app/` | and a /proc entry per device | and poll; an epoll server and a client |
| kbuf behind misc_register | `src/kbufmisc`, `src/kbufioctl` | one buffer | read, write, ioctl |
| device that opens once | `src/locks/atomic`, v1 `lock/atomic`, `lock/spin_trylock`, `beep` | an atomic counter or a lock | open, release |
| key device | `src/keys/key.c`, `app/app.c` | per key a count and its state, a flag, one timer, one tasklet | interrupt, timer, tasklet, read |
| spinlock demos | `src/locks/spinlock/*`, v1 `lock/spin*` | `g_count`, a spinlock | ioctl, interrupt, tasklet |
| one-slot demos | v1 `lock/mutex`, `lock/sema` | one flag | read, write |
| interrupt and bottom half demos | `src/irq/*`, v1 `irq*` | requested interrupts, tasklet or work | handlers |
| keys as input devices | `src/input/keys`, v1 `inputsubsys_keys`, `input/app` | the key device's chain in both orders, the input core's queue | interrupt, timer, tasklet, read of reports |
| touch screens played by keys | `src/input/*ts`, `5point_mt`, v1 `demo_ts` | the same chain | the same |
| FT5206 touch screen | `src/laomits/ts.c`, v1 `ts/ts.c` | the chip's registers, an interrupt that is turned off and on, a work item | interrupt, work item, report |
| LEDs | `src/ledchar`, `miscled`, `gpio_led`, `ledsyscall.c`, v1 `leds` | one data register shared by all of them | write, ioctl, system call |
| buzzer, resistance | `src/buzzer`, `adc`, v1 `beep`, `reslocator` | PWM registers, I2C client | ioctl, read |
| lists | `src/dlist`, `src/procfs`, v1 `proc` | a linked list, its length or the sum of its sizes | read, write, exit |
| timers | `src/time/*`, v1 `time` | one timer | expiry |
| examples without state | `src/modules`, `src/driver_model` | none | print, match names |

### 1.2 How they interact

- *Programs* call the file operations. Processes share a device through its file; the 16 devices of
  a kbuf driver share no data, so one device is a faithful instance.
- *Interrupts* run on a CPU in the middle of whatever it does, unless masked. They hand work on: the
  key interrupt arms a timer, the timer schedules a tasklet, the tasklet changes `kbuf`, sets the flag
  and wakes the reader (`src/keys`). In v1 the interrupt schedules the tasklet and that arms the timer.
  The FT5206's interrupt turns itself off and leaves it to its work item to turn it on again.
- *The LED drivers* have nothing to do with each other but the register they write, and all can be loaded at once.
- *Wait queues* connect the two ends of a blocking buffer; *epoll* connects a server to all of them.
- *The module loader* calls `init` and `exit`. From the moment a resource is registered until it is
  released the kernel may call into the driver, whether init has returned or not.

### 1.3 What is hard, and what makes each component correct

`PROJECT.json` has 40 hazards, each at its line. In short:

- kbuf devices: each check of `validlen` is used after a copy that may sleep, and after other
  processes have run. Correct means: a bounded FIFO of bytes, each call taking effect at one moment,
  a failed call having no effect; no transfer leaving the 512 bytes; every call returning.
- blocking and pollable devices: a wakeup between the look at `validlen` and the sleep; a signal
  that ends the wait; readiness that is reported and then gone. Correct means: nobody sleeps over
  what it waits for, and the server never sleeps in a read.
- opening once: open takes the counter down before it knows whether it may. Correct means:
  exclusive, and free when nobody uses it.
- keys: bounces, one timer for all keys, a flag cleared by the reader. Correct means: `kbuf` shows
  each key as it is, and a reader that sleeps knows it.
- FT5206: events that come during a transfer, a transfer that fails, a handler that schedules before it disables. Correct means: `disable_irq` and `enable_irq`
  balance, and the newest event is shown in the end.
- LEDs: a bit that is changed in a copy of the register, while another program changes the register. Correct means: a
  LED shows its last command.
- lists: calls sleep between the test of the limit and the link, and between the copy of an element and its removal.
  Correct means: first in, first out, no freed element used, none leaked, the limit kept.
- spinlocks: what is interrupted may hold the lock that the handler wants. Correct means: the lines of
  a call stay together, no CPU waits for itself, what was masked is unmasked and nothing else.
- loading and unloading: each order of acquiring and releasing. Correct means: all or nothing, no
  leak, nothing released twice, nothing entered before it is ready or after it has gone.


## 2. Modules

| Module | Models | How it corresponds to the code |
|---|---|---|
| `ByteFifo` | what a kbuf device promises | abstract: a queue, calls that take effect in one step |
| `KbufDev` | `locks/mutex/kbuf.c` | one action per stretch of `kbuf_read`/`kbuf_write` between two points where others can run; error paths (`error0`) lead through the unlock; refinement mapping to `ByteFifo` |
| `KbufSema` | `locks/semaphore/kbuf.c` | `KbufDev`'s steps between `down` and `up`, with the kernel's semaphore (count, first-come-first-served list) spelled out; refinement mapping to `KbufDev` |
| `KbufPair` | the kbuf drivers without a lock: plain (and behind misc_register), called from an ioctl, blocking, pollable, and the last with `readserver` and `writecli` | every access to `validlen` a step of its own: check, `min()`, copy, load and store of `-=` and `+=`; wait queues; signals; the ready list of epoll; the copies of the ioctl that may fault |
| `OpenCount` | the drivers that open once | each atomic operation of `open` and `release` a step; `atomic_read` and `atomic_inc` of `locks/atomic/demo.c:63` are two |
| `KeysDev` | `keys/key.c`, v1 `keys/key.c`, `input/keys/key.c`, v1 `inputsubsys_keys/key.c`, and the programs that read them | the two orders of timer and tasklet, the two ends (a flag, or reports to the input core); the statements of `key_read` that race with them |
| `TouchIrq` | the FT5206 driver and its v1 form | a chip that overwrites its registers by events of all four values (the last, `ts.c:64`, reports nothing); latched edge; `schedule_work` and `disable_irq_nosync`, a step each; `disable_irq` depth, work item, transfer, report, `enable_irq` |
| `LedDev` | what all LED drivers do to one register | `ioread8` and `iowrite8` are two steps, `gpio_set_value` is one; init and exit of each driver |
| `ListDev` | `dlist/dlist.c`, `procfs/demo.c`, v1 `proc/proc.c` | a call is cut where it may sleep (allocation, copy); exit of each |
| `MCListDev` | - | the symmetry of programs and elements |
| `PrintLock` | the three kinds of spinlock demo | contexts `task`, `soft`, `hard` on every CPU; `spin_lock`, `_irqsave`, `_bh` mask and restore what the kernel's do |
| `DriverLife` | `init`, its error paths, `exit`, and the use of the driver meanwhile | generic in a table: acquire, fail, undo, release; open, close, interrupt, run; and six rules that a table may keep |
| `DriverTables` | the tables of 56 drivers | per driver the order of init, what each failure undoes and returns, the order of exit, what uses what |
| `MCDriverLife` | - | the set of drivers run `life` looks at |
| `KbufDevProofs`, `KbufSemaProofs`, `KbufPairProofs`, `OpenCountProofs`, `PrintLockProofs`, `DriverLifeProofs`, `BoardProofs` (keys, touch screen, LEDs), `ListDevProofs` | - | theorems, section 5 |

The kernel's own services (mutex, semaphore, wait queue, epoll, timer, tasklet, interrupt masking)
are not in `src/`. They are modelled by what the drivers rely on, inside the actions that use them:

- `wait_event_interruptible` puts the process on the queue before it tests for the last time, so
  "test and go to sleep" cannot miss a `wake_up`; a `wake_up` takes all sleepers off the queue and
  each tests again. A signal makes it return an error, which `kbufchardrv_block` and `keys` ignore.
- the input core takes its lock to note and queue a report and to wake the reader, so a report is one step; evdev's
  queue of 64 is bounded by `MaxQueue` instead, and a key does not move while it is full (evdev would drop reports).
- an edge that comes while its interrupt is disabled is latched, once; `disable_irq` counts; a work item that is queued
  while it is pending is queued once, on the CPU of the interrupt, so that it does not run before the handler has returned:
  that `ts.c:29` and `31` are in this order is harmless only because of it. `remove_proc_entry` waits for the calls under way.
- a mutex has an owner; a semaphore has a count and a list, and `up()` hands over to the first waiter.
- `epoll_wait`, level triggered: takes the file off the ready list, asks `poll`, and puts it back if
  it was readable; `wake_up` on a queue that poll has registered puts it on the list.
- a timer has one expiry and one `data`; setting it again replaces both. A tasklet that is scheduled
  twice runs once, and one that schedules itself runs again.


## 3. Runs

Passing runs check that the code has the properties; violation runs show, for one sentence in the
repository's comments, that the code does something else.

| Run | Module, configuration | Distinct states | What it shows |
|---|---|---|---|
| `kbuf_dev` | `KbufDev`, `KbufDev.cfg` | 54 944 | lock held exactly inside, transfers in bounds, implements `ByteFifo`, calls return |
| `kbuf_sema` | `KbufSema`, `KbufSema.cfg` | 92 668 | the semaphore is one token, nobody on its list is forgotten, implements `KbufDev`, calls return |
| `kbuf_pair` | `KbufPair`, `KbufPair.cfg` | 52 172 | with one reader and one writer: transfers stay inside, no lost wakeup, a read has data, the server sleeps neither in a read nor over a buffer that holds something, waiters are released, `validlen` is exact up to the first lost update |
| `open_count` | `OpenCount`, `OpenCount.cfg` | 775 | exclusive; an idle device can be opened (except `ifzero`) |
| `keys` | `KeysDev`, `Keys.cfg` | 32 336 | four drivers, keys that move one after the other: every move is in flight or counted, once, and in the end; a reader is given all of it (of the input devices' reports, as long as it is fewer than 3 behind) |
| `print_lock` | `PrintLock`, `PrintLock.cfg` | 54 692 | lines together, no CPU waits for itself, masks restored, lock released |
| `life` | `MCDriverLife`, `DriverLife.cfg` | 2 374 | 56 drivers with every failure of init and every use meanwhile; each exception of a driver (3.3) is needed |
| `touch` | `TouchIrq`, `TouchIrq.cfg` | 20 886 | the interrupt is off exactly while somebody owes its enabling; a quiet screen is current; a lifted finger is reported |
| `lists` | `MCListDev`, `ListDev.cfg` | 23 166 | outside two known races no freed element is used; leaks are what failed copies lost; first in, first out; how far a limit can be exceeded |
| `leds` | `LedDev`, `LedDev.cfg` | 323 396 | a command is lost only if it fell between the read and the write of another call |
| `open_count_stuck` | `OpenCount`, `OpenCountStuck.cfg` | violation | finding 1 |
| `keys_together` | `KeysDev`, `KeysTogether.cfg` | violation | finding 2 |

### 3.1 Bounds, and why they are enough

- `KbufDev`: 2 processes, 2 values of a byte, a buffer of 3, counts up to 2. Transfers are cut short
  at both ends (ask 2, have 1; give 2, room for 1), memmove moves a non-empty rest, and copies fault
  at every length. Proved for all values (section 5).
- `KbufSema`: 3 processes, so that two wait at once and their order matters; a buffer of 2 and counts of 1
  because the data path is `KbufDev`'s, already checked. Safety is proved for all values, that calls return for up to four waiters.
- `KbufPair`: buffer and counts of 3; the code is linear in lengths and compares them with 0, the
  capacity and each other, which 0..3 separates (empty, partial twice, full). One reader and one writer is not a
  bound but a precondition: with two readers the unlocked drivers keep no promise at all (hazard
  `src/locks/kbufchardrv/kbuf.c:80`), and the repository's locked versions are the remedy.
- `OpenCount`: 6 processes, though 3 suffice for every step pair; the state space is small. Proved for any
  finite number.
- `KeysDev`: 2 of the 4 keys (a shared timer forgets a key as soon as there is another), up to
  2 bounces after each edge, 3 unread reports, and `cnt` modulo 2 since only its parity is ever used. `KeysTakeTurns` is the
  precondition under which the drivers work: a key moves when the last move has been dealt with. Without it, finding 2.
  Safety is proved for any set of keys and any number of bounces, liveness for any set of keys.
- `TouchIrq`: 3 places (one shown, one received, one in the registers). The number of events is not bounded. Proved for any set of places.
- `ListDev`: 3 programs (two that race and one that is caught between them), a limit of 2 and 6 elements, so that the limit can be
  exceeded by every write under way and an element be there still; sizes 1 and 2, so that a text is cut to the room there is.
  Proved for any finite number of programs, any number of elements and any limit.
- `LedDev`: 3 programs and 2 of the 4 LEDs, one for the call under way and one for what it undoes. Proved for any number of both.
- `PrintLock`: 2 CPUs with a program, a tasklet and an interrupt each, 2 lines a call (the code
  has 3, v1 has 5), `g_count` modulo 3, 3 presses of a key. Safety is proved for all values, liveness for up to 5 lines.
- `DriverLife`: 2 devices for the 16 of the kbuf drivers and 2 interrupts (GPIOs) for the 4 of the others: the loops
  treat all alike, and 2 give a first, a last and a failure in between. One program per node: a second one opens the same node.
  No other bound: a driver is loaded and unloaded once, since loading starts from nothing.

Deadlock is checked in every run but `life` and `lists`, where a module that has gone, or whose init has failed,
is an end, as is the use of freed memory in `ListDev`: what follows it is undefined.

### 3.2 Fairness

Nobody ever has to make a call, press a key or send a signal. What has been started goes on:

- `KbufDev`: weak fairness of each process inside its call, and strong fairness of taking the mutex: its waiters
  queue in order, but a newcomer may take a free mutex before the woken waiter runs.
  Strong fairness says that a waiter that finds it free again and again gets it some time.
- `KbufSema`: weak fairness only. That a waiter gets the semaphore follows from the list.
- `KbufPair`: weak fairness of each process in its call (the scheduler), the server's loop included. A reader of
  a device nobody writes to may wait for ever: the liveness properties start from a transfer of the other side.
- `KeysDev`: weak fairness of the interrupt, timer, tasklet chain and of the reader's loop. A signal need not come.
- `TouchIrq`: weak fairness of the interrupt and of the kernel's worker. Nobody has to touch the screen, and a transfer
  need not fail.
- `PrintLock`: weak fairness of each context, which runs only when nothing is above it on its CPU; interrupts
  cannot starve a program since presses are finitely many (`MaxIrqs`), as fingers are slow.
- `OpenCount`, `DriverLife`, `ListDev` and `LedDev` state safety only and assume none.

The provers know nothing of ENABLED, so a theorem about liveness has as its hypothesis the same fairness with a guard in the place of
ENABLED: `BodyRuns(p) == []<>~(pc[p] \in Critical) \/ []<><<Body(p)>>_vars` instead of `WF_vars(Body(p))`. A lemma
next to each (`FairRuns`, `ReaderFairRuns`, `WriterFairRuns`, `FairGo`, `FairMoves`, `KeysFairRuns`, `PipelineFairRuns`, `TouchFairRuns`)
derives it from WF or SF and "whenever the guard holds the step is enabled". That premise is evident from the actions, and TLC, which can
evaluate ENABLED, finds it true as an invariant of each module's instance. Nothing else is assumed of the schedule, with two exceptions:

- `LockComesBack` takes strong fairness of a context instead of `FairSpec`'s weak one. In the run presses come to an end; the theorem holds
  for any number of them, and then a program that is interrupted again and again must be given its CPU again.
- `EveryMoveIsRecorded` assumes that contacts come to rest (`ContactsRest`). The specification implies it; proved is this for up to
  four bounces after an edge (`FewBouncesEnd`).

### 3.3 Loading and unloading: what each driver is known for

The properties of run `life` are stated of every driver and every case but those listed in the driver's
`known` field; without a listed exception the run fails for that driver, so the list is exact and each
entry is a defect of the code at that place. There are 94 in the 56 tables; `KeepsTheRules` checks in the run that no driver keeps
the rules of section 5 without any one of its own. What the properties are left with is the drivers that take the same steps and are *not* excused: of a hazard
whose line is in an excused driver (`PROJECT.json` says so in its note) they show that the neighbours have repaired it, not that it is absent.

| Drivers | Exceptions |
|---|---|
| the 6 kbuf drivers with 16 devices | `loads half`: device_create fails and init returns 0, since `ret` is still the 0 of `cdev_add` (`src/locks/mutex/kbuf.c:220`). `undone while open`: a program opened an early node when a later step failed. `entered too early`: the lock or the wait queues are initialised after the node is there (a node of a driver without them: only after that failure) |
| v1 `spin`, `spin_trylock`, `mutex`, `sema`, `spin_irq` | `open when gone`: no `.owner`, so the module is unloaded under an open file |
| `tasklet`, `workqueue`, `spinlock_bh` | `pending when failed`: the error path frees the interrupts, not what one of them has scheduled |
| v1 `tasklet`, `workqueue` demos | the same, and `pending when gone`, `entered too late`: exit kills the bottom half before it frees the interrupts that schedule it |
| v1 `spin_irqbh` | those, and `open when gone` |
| `keys`, all input drivers, `FT5206` | `pending when failed`, `pending when gone`, `entered too early`, `entered too late`: interrupts before the timer is set up; the tasklet killed before the timer that schedules it, or never waited for |
| v1 `keys` | those, `open when gone`, `undone while open` |
| `ledchar`, `gpio_led` | `leaks when failed`: the last registration gives nothing back |
| `miscled` | that, and `loads half`, `frees unheld`, `entered too early`, `entered too late`: without its /proc entry it unmaps its registers, goes on, and unmaps them again in exit |
| v1 `leds` | `loads half`, `entered too early`, `entered too late`: exit unmaps before it removes the node |
| v1 `beep` | `entered too early`, `entered too late`, `open when gone` |
| v1 `reslocator` | `entered too late`, `open when gone` |
| v1 `proc` | `entered too late`: the list is freed before the /proc entry goes |
| all others | none |


### 3.4 What the drivers do not promise

Other properties are stated with the exception the code makes necessary. Each exception is a defect, or a limit, at its line,
and each property fails without it:

| Where | Exception |
|---|---|
| `src/kbufchardrv/kbuf.c:77`, `100`, and the same lines of the other devices without a lock | `validlen -= cnt` and `+= cnt` are a load and a store. If the other process stores in between, its store is lost: bytes that were written are not counted, and never read, or bytes that were read are counted, and given, again (`torn` in `CountIsExact`). What is left of the lengths after that is that no transfer leaves the buffer (`TransfersStayInside`) |
| `src/kbufchardrv_block/kbuf.c:88` | the result of the wait is dropped, so a signal makes a read go on with nothing to read, although line 87 says that it blocks (`drv = "block" /\ p \in pending` in `CheckedReadsHaveData`). The pollable driver tests it |
| `src/keys/key.c:126-130`, v1 `key.c:48-52` | the flag is cleared after the copy, and news flagged in between is forgotten (`slipped` in `ReaderMissesNothing`). The input devices have no flag and lose nothing |
| `src/laomits/ts.c:47-49` | the work item returns without `enable_irq` when a transfer fails, and the screen is dead from then on (`failed` in `OffIsOwed`, `LiftIsReported`) |
| `src/laomits/ts.c:53-66` | only "down" and "up" change BTN_TOUCH, so one that was overwritten before it was received leaves a finger that touches nothing, or a touch without a finger (`missed` in `QuietScreenIsCurrent`, `LiftIsReported`) |
| `src/miscled/led.c:31-39` and its like | a command between the read and the write of another call is undone (`doubt` in `LedsShowTheLastCommand`) |
| `src/dlist/dlist.c:50` | two reads meet at the first element; one frees what the other uses, and unlinks the next (`met`) |
| v1 `proc/proc.c:77-81` | exit frees the list and then removes the entry (`FreedInUse`) |
| `src/dlist/dlist.c:82`, `src/procfs/demo.c:70` | an element whose copy fails is never freed (`lost` in `LiveIsAccountedFor`) |
| `src/dlist/dlist.c:73`, `src/procfs/demo.c:53` | the limit is tested before the call sleeps, and each call under way may exceed it; dlist takes one element too many even alone (`LimitHolds`) |


## 4. Findings

Where a comment of the repository says otherwise, a run shows it:

1. **A device that nobody uses can no longer be opened** (`src/locks/atomic/demo.c:63`). Release looks at
   the counter and adds only if it is 0. While another process's open has taken its 1 off and not put it
   back the counter is -1, release adds nothing, and 0 remains for ever. The v1 driver, which always adds, is exact (`NeverStuck`).
2. **A second key within 30 ms inverts the first for ever** (`src/keys/key.c:83`). All keys share one timer and
   its `data`; the first key's move is never counted, and what `kbuf` shows is the parity of the count.


## 5. Proofs

The eight proof modules are checked by TLAPS to the last leaf. The assumptions are the named ASSUMEs
of the module they extend (numbers are numbers, the buffer has room for a byte, `NoProc` is no process, ...);
TLC evaluates them in the runs.

- **`KbufDevProofs`** (1228 obligations): `TypeSafety`, `LockSafety`, `BoundsSafety`, for any number of processes, any
  buffer size, any counts. The invariant is `TypeOK /\ LockDiscipline /\ TransferInBounds /\ CallKnows`. `LockDiscipline` makes the
  process inside the only one that changes `validlen`, so that the bounds it has checked stay true; `CallKnows` (what a call
  knows of its own count and user buffer) is needed where those bounds are established. `DeviceImplementsFifo`: the
  device implements `ByteFifo`. This needs `Data`, which bytes a transfer has copied already, and a step for each action:
  `ReadLen` is `Get`, `WriteLen` is `Put`, each failure is `Nothing`, all others stutter, `memmove` among them, because the queue is
  defined by what has been delivered and what has moved. `MutexIsReleased`, `AllCallsReturn`: every path from the lock, the failed ones too, is a
  finite chain of steps of the holder to the unlock, so the mutex is free again and again; that is when strong fairness lets a waiter in.
- **`KbufSemaProofs`** (745): `TokenSafety`, `ListSafety` for any number of processes. `OneToken` is not inductive: that up() gives the
  token to a process that still waits follows from where the processes in the list are (`ListInv`). From both
  follows `SemaImplementsMutex`: `Holder`, who is inside, changes as KbufDev's mutex does; composed with
  `DeviceImplementsFifo` it says that the device with the semaphore is a FIFO of bytes as well (`SemaDeviceImplementsFifo`).
  `WaitersComeNearer`: with weak fairness only, who has the token gives it up, and each `up()` takes the first of the list and moves all others
  one place forward, whatever joins behind. `CallsReturnUpToFourWaiters` is what follows for four places.
- **`KbufPairProofs`** (1047): `PairStaysInside`, `NoLostWakeup`, `ReadsFindData`, `ServerDoesNotSleep`, for any buffer size and counts and
  *under the assumption that there is at most one reader and one writer* (`OnePair`). The invariant says of a reader only what stays true
  when `validlen` grows, and of a writer only what stays true when it shrinks (`RInv`, `WInv`); so neither spoils what the other knows.
  `TransfersReleaseWaiters`: a store is followed by its `wake_up`, and the sleeper that wakes finds the condition true, since only it could make it false again.
  `ServersFetch`: a server in `epoll_wait` does not sleep over a buffer that holds something, for then the device is on the ready list, or the writer's `wake_up` is
  on its way (`ServedInv`); each leads to the next, up to the store of a read that takes a byte. It does not say that the server gets *every* byte: a lost update
  hides some from `validlen`. `ExactUntilTorn`: until the first of these `validlen` is what the copies put in less what the moves took out, in all five drivers. `NotBothAsleep`: the deadlock of the pair that TLC cannot see, as a signal may always be sent.
- **`OpenCountProofs`** (164): `Exclusive` for all three drivers, `NeverStuck` for the two that
  put back what they took. `AtMostOneOpen` is not inductive: what keeps the counter from reaching 1 too early is that everyone who
  has taken a 1 is counted (`NothingInvented`: `flags <= 1 - Cardinality(Owing)`). An open that gets 0 found at least 1, so nobody was owing.
- **`PrintLockProofs`** (989): `LinesStayTogether`, `NoCpuWaitsForItself`, `MasksComeBack` for any number of CPUs, lines and
  interrupts. The lines need only that who is inside has the lock. That no CPU waits for itself needs to know who can be
  active above whom in each driver (`PlaceInv`, `NestInv`), and that needs exactly when a CPU takes interrupts and softirqs (`MaskInv`).
  `LockComesBack`: what can be above the one inside on its CPU is only the key interrupt of the tasklet driver, which does not print and returns; the lines
  left then come down to none. The count is unrolled to 5, the most any of the demos prints.
- **`DriverLifeProofs`** (996): six rules about a table are enough, whatever the driver, its failures and the world. Each theorem
  has as its only hypothesis the rules it needs, for every table in `Drivers`:

  | Theorem | Rules | Property |
  |---|---|---|
  | `GivesAllBack` | 1: each list names all that was acquired before | `NothingIsLeft` |
  | `StopsInTime` | 1 and 2: what schedules is released before what it schedules | `NothingRunsAfterwards` |
  | `FreesOnce` | 3: each list names only what was certainly acquired, once | `ReleasesOnlyHeld` |
  | `LoadsWhole` | 5: no failure is reported as success | `LoadsAllOrNothing` |
  | `NobodyStaysInside` | 6: nodes come last, the files own the module | `NobodyIsStranded` |
  | `EntersPrepared` | 1, 2 and 4: what may be entered finds what it uses acquired, and keeps it until the last way in has gone | `EntryPointsAreBacked` |

  TLC checks the rules themselves for each of the 56 tables (`KeepsTheRules` in run `life`). What is left at the end is not inductive;
  the invariant says that all that is still held, or scheduled, is *still to come* in the list being released.
- **`BoardProofs`** (1193), three devices:
  - keys: `MovesAreCountedOnce` (if the keys take turns, `OneMoveInFlight` and `KbufFollowsKeys`: the very property that finding 2 shows
    violated when they do not) and `ReadersMissNothing` (with turns or without: a reader is given whatever `kbuf` holds, but for the flag
    cleared too late), for the four drivers and any set of keys. That `kbuf` shows a move unless it is in flight is not inductive: the
    invariant says that all stages are at work on the same move and follow one another (`OrderInv`), and where the news is that the
    reader has not got (`NewsInv`, `QueueInv`). `EveryMoveIsRecorded`: the stages a move goes through (interrupt, timer, tasklet, count, in the
    driver's order), each led to the next by the pipeline. `FlaggedNewsReachesReader` needs no turns: from the flag on the news goes with the reader.
  - touch screen: `OffOnlyWhileOwed`, `QuietIsCurrent` for any set of places. The second needs what is on its way: while no edge
    is latched the work item holds, or will receive, the newest event (`Fresh`), and unless a "down" or "up" was missed it has been
    shown or is about to be (`TouchIsShown`). `LiftsAreReported` follows a lift from the latched edge over the work item to the report; an edge during a
    transfer starts that once more, and then with the newest event (`StagesFollow`).
  - LEDs: `LastCommandShows` for any number of programs and LEDs.
- **`ListDevProofs`** (1253): `FreedNeverUsed`, `LiveAccounted`, `InOrder`, `LimitKept` for the three drivers, any finite number of
  programs, any number of elements and any limit. None of the four is inductive. `Sound` says where each element is: a write has
  its element for itself, an element is in the list once and live, a read of dlist holds the first element or one that another has freed. It is claimed only while no freed memory
  has been used (after that the memory may hold anything, and the model stops). `RoomInv` is the argument for the limits: a write under
  way has yet to use the place its test granted it, so what the list holds is charged to the programs that are *not* in a write; for
  bytes this holds either for all of them or with one write that still fits. `FirstInFirstOut` sums sizes over the list, a recursive function;
  instead of an induction over the list the invariant carries that the equations of the sum have a solution, and that each
  solution ends in the counter (`SumIs`); linking extends the solutions, taking shortens them.

### 5.1 Only model-checked

Every property of the passing runs is stated by a theorem, but one:

- `KeepsTheRules`: a statement about 56 given tables, which run `life` evaluates for each of them. Nothing is bounded in it but
  the number of like devices (3.1).

Of the others, this is what the theorems leave open:

- that the fairness of the `FairSpec`s gives the guards of the theorems, which is a matter of ENABLED (3.2); TLC checks the properties under the `FairSpec`s themselves;
- `CallsReturn` of `KbufSema` with more than four waiters. The induction step is proved for every place in a list of any length
  (`WaitersComeNearer`); the induction itself is over a temporal formula, and the library's induction theorems take an operator, which
  the installed provers cannot instantiate. For the same reason `LockComesBack` is about at most five lines, and `ContactsRest` a hypothesis;
- nothing of `KbufPair` with more than one reader or writer: neither the run nor the theorems say anything of it (3.1).

No module with proofs declares a RECURSIVE operator. What a recursive definition computes for every input would need an
induction of the same kind; `Total` in `ListDev` is the one recursive function there, see above.


## 6. What is not modelled, and why

- `src/dlist/dlist2.c`: a draft that the Makefile does not name and that does not compile (`pstu` is undeclared).
- `src/modules` (prints), `src/time/currenttime`, `delay`, `short_delay` (read a clock or wait).
- `src/driver_model`: who is bound to whom is decided by the driver core, which is not in the repository; the examples print.
- The ioctl of the buzzer (three register accesses in a row; `hz = 0` passes its test and is divided by, `src/buzzer/buzzer.c:27`,
  which is one line and needs no model), the resistance's single transfer over I2C, the read and write of the v1 one-slot demos, which
  test and set one flag under one lock.
- The positions the played touch screens make up; the text of /proc entries; what handlers print.
- The bytes in the devices without a lock (`KbufPair`) and in the lists: what is modelled is which and how many. So a copy that lands where
  a `memmove` is about to move from, or has just moved from, counts as a copy of so many bytes, though some of them end up in the wrong place.
- In `ListDev` the statements between two places where a call may sleep are one step. On a preemptible or multiprocessor kernel the
  list operations themselves would race; the drivers have no lock against that, and no property of them would hold.
- The kernel below the drivers: memory ordering beyond program order (the models are sequentially consistent; the kernel's
  locks, atomics and wait queues are barriers where the drivers use them, `KbufPair`'s plain accesses to `validlen`
  and the key driver's to its flag are the exception), allocation, the scheduler.
- Unlocked drivers with two readers or two writers: see 3.1. The second subtraction takes `validlen` below 0.
- `OpenCount` bounds its counter by the number of processes; an `int` cannot wrap with fewer than 2^31 of them.


## 7. Plan

Done, in this order: `ByteFifo`, `KbufDev` and its proofs, `KbufSema`, `KbufPair`, `OpenCount` and its proofs, `KeysDev`,
`DriverLife`/`DriverTables` and proofs, `PrintLock` and its proofs; then `TouchIrq` and proofs, `ListDev`, the ioctl in `KbufPair`, the
other three drivers in `KeysDev`, `LedDev` and proofs, the proofs of `KbufPair` and `KbufSema`, and the two refinements; then the other
four rules of `DriverLife`, the proofs of `KeysDev` and those of `ListDev`; then the liveness of all modules that state any, and the
semaphore's device as a FIFO.

What could follow:

1. One-slot demos (v1 `lock/mutex/demo.c:17-61` and `lock/sema`), and the buzzer's ioctl.
2. `KbufPair`: an abstract count that the pair implements, with the wakeups as its only extra steps.
3. The temporal inductions that are unrolled now, once the provers can instantiate an operator.
