---------------------------- MODULE DriverTables ----------------------------
(***************************************************************************)
(* What each driver's init and exit functions do, in the form that module  *)
(* DriverLife explains.  Two devices stand for the 16 of the kbuf drivers, *)
(* two interrupts (or GPIOs) for the 4 of the others: the loops treat all  *)
(* of them alike, and with two there is a first, a last and a failure      *)
(* between them.  For platform and I2C drivers init and exit are probe and *)
(* remove.                                                                 *)
(*                                                                         *)
(* "known" says which of the properties of module DriverLife the code of   *)
(* the driver does not have.  Operators whose name begins with Bad are     *)
(* slips in what follows them.                                             *)
(***************************************************************************)
EXTENDS DriverLife

\* A step of init that acquires r, by what its failure leads to.
Must(r, undo) == [get |-> r, onfail |-> "return", undo |-> undo]
Zero(r, undo) == [get |-> r, onfail |-> "zero", undo |-> undo]
Skip(r, undo) == [get |-> r, onfail |-> "skip", undo |-> undo]
Oops(r) == [get |-> r, onfail |-> "oops", undo |-> << >>]
Sure(r) == [get |-> r, onfail |-> "never", undo |-> << >>]

Driver(init, exit) ==
  [init |-> init, exit |-> exit, nodes |-> {}, live |-> {}, starts |-> {},
   armed |-> {}, uses |-> {}, owned |-> FALSE, known |-> {}]

-----------------------------------------------------------------------------
\* The kbuf drivers: a region of device numbers, a class, and for each device
\* its memory, its cdev and its node.  When device_create fails ret still
\* holds the 0 of cdev_add.
Numbers == <<Must("region", << >>), Must("class", <<"region">>)>>
NumbersBack == <<"class", "region">>

Dev1 == [mem |-> "mem1", cdev |-> "cdev1", node |-> "node1", proc |-> "proc1",
         lock |-> "lock1", waitr |-> "waitr1", waitw |-> "waitw1"]
Dev2 == [mem |-> "mem2", cdev |-> "cdev2", node |-> "node2", proc |-> "proc2",
         lock |-> "lock2", waitr |-> "waitr2", waitw |-> "waitw2"]

\* The slip: the device that fails is among those that are taken back.
BadDevice(d, back) ==
  <<Must(d.mem, back),
    Must(d.cdev, <<d.mem, d.node, d.mem, d.cdev>> \o back),
    Zero(d.node, <<d.cdev, d.mem>> \o back)>>

Device(d, back) ==
  <<Must(d.mem, back),
    Must(d.cdev, <<d.mem>> \o back),
    Zero(d.node, <<d.cdev, d.mem>> \o back)>>

DeviceBack(d) == <<d.node, d.mem, d.cdev>>

KbufPlain ==
  [Driver(Numbers \o Device(Dev1, NumbersBack)
                  \o Device(Dev2, DeviceBack(Dev1) \o NumbersBack),
          DeviceBack(Dev2) \o DeviceBack(Dev1) \o NumbersBack)
   EXCEPT !.nodes = {"node1", "node2"},
          !.uses = {<<"node1", "mem1">>, <<"node2", "mem2">>},
          !.owned = TRUE,
          !.known = {"loads half", "undone while open", "entered too early"}]

KbufMdelay == KbufPlain

\* The lock is initialised when the node is there already.
KbufLocked ==
  [KbufPlain
   EXCEPT !.init = Numbers \o Device(Dev1, NumbersBack) \o <<Sure("lock1")>>
                   \o Device(Dev2, DeviceBack(Dev1) \o NumbersBack) \o <<Sure("lock2")>>,
          !.uses = @ \cup {<<"node1", "lock1">>, <<"node2", "lock2">>}]

KbufMutex == KbufLocked
KbufSemaphore == KbufLocked

Waits(d) == <<Sure(d.waitr), Sure(d.waitw)>>
NodeUses(d) == {d.node} \X {d.mem, d.waitr, d.waitw}

KbufBlock ==
  [KbufPlain
   EXCEPT !.init = Numbers \o Device(Dev1, NumbersBack) \o Waits(Dev1)
                   \o Device(Dev2, DeviceBack(Dev1) \o NumbersBack) \o Waits(Dev2),
          !.uses = NodeUses(Dev1) \cup NodeUses(Dev2)]

Proc(d, back) == <<Zero(d.proc, <<d.cdev, d.mem, d.node>> \o back)>>

\* The slip: the entries in /proc are forgotten.
BadPollBack(d) == DeviceBack(d)

PollBack(d) == DeviceBack(d) \o <<d.proc>>

KbufPoll ==
  LET back == PollBack(Dev1) \o NumbersBack
  IN [KbufBlock
      EXCEPT !.init = Numbers
                      \o Device(Dev1, NumbersBack) \o Waits(Dev1) \o Proc(Dev1, NumbersBack)
                      \o Device(Dev2, back) \o Waits(Dev2) \o Proc(Dev2, back),
             !.exit = PollBack(Dev2) \o back,
             !.live = {"proc1", "proc2"}]

\* The slip: the device is registered before the buffer is allocated.
BadKbufMisc ==
  [Driver(<<Must("node", << >>), Must("mem", <<"node">>)>>, <<"mem", "node">>)
   EXCEPT !.nodes = {"node"}, !.uses = {<<"node", "mem">>}, !.owned = TRUE]

\* One buffer behind a misc device.
KbufMisc ==
  [Driver(<<Must("mem", << >>), Must("node", <<"mem">>)>>, <<"mem", "node">>)
   EXCEPT !.nodes = {"node"}, !.uses = {<<"node", "mem">>}, !.owned = TRUE]

KbufIoctl == KbufMisc

-----------------------------------------------------------------------------
\* The slip: no .owner.
BadLockDemo ==
  [Driver(<<Sure("lock"), Must("node", << >>)>>, <<"node">>)
   EXCEPT !.nodes = {"node"}, !.uses = {<<"node", "lock">>}]

\* The lock demos: a lock and a misc device.
LockDemo ==
  [Driver(<<Sure("lock"), Must("node", << >>)>>, <<"node">>)
   EXCEPT !.nodes = {"node"}, !.uses = {<<"node", "lock">>}, !.owned = TRUE]

Atomic == [Driver(<<Must("node", << >>)>>, <<"node">>) EXCEPT !.nodes = {"node"}, !.owned = TRUE]
Spinlock == LockDemo
V1Atomic == LockDemo

\* These do not name their module: it can go while they are open.
Unowned(d) == [d EXCEPT !.owned = FALSE, !.known = @ \cup {"open when gone"}]

V1Spin == Unowned(LockDemo)
V1SpinTrylock == Unowned(LockDemo)
V1Mutex == Unowned(LockDemo)
V1Sema == Unowned(LockDemo)

-----------------------------------------------------------------------------
\* Interrupts are requested in a loop that, when one fails, frees the earlier
\* ones; "undo" is what the caller does on top.
Irqs == {"irq1", "irq2"}

\* The slip: the loop frees nothing (here "undo" is all there is).
BadRequestIrqs(undo) == <<Must("irq1", undo), Must("irq2", undo)>>

RequestIrqs(undo) == <<Must("irq1", undo), Must("irq2", <<"irq1">> \o undo)>>

FreeIrqs == <<"irq1", "irq2">>
FreeIrqsDown == <<"irq2", "irq1">>

IrqDemo == [Driver(RequestIrqs(<< >>), FreeIrqs) EXCEPT !.live = Irqs]
V1IrqDemo == [IrqDemo EXCEPT !.exit = FreeIrqsDown]

\* Two handlers on each interrupt: when the second is refused the first goes.
SharedIrqDemo ==
  [Driver(<<Must("irq1a", << >>), Must("irq1b", <<"irq1a">>),
            Must("irq2a", <<"irq1a", "irq1b">>), Must("irq2b", <<"irq2a", "irq1a", "irq1b">>)>>,
          <<"irq1a", "irq1b", "irq2a", "irq2b">>)
   EXCEPT !.live = {"irq1a", "irq1b", "irq2a", "irq2b"}]

V1SharedIrqDemo == [SharedIrqDemo EXCEPT !.exit = <<"irq2a", "irq2b", "irq1a", "irq1b">>]

\* A bottom half.  If only some of the interrupts can be had they are freed,
\* but not the tasklet one of them may have scheduled.
TaskletDemo ==
  [Driver(<<Sure("task")>> \o RequestIrqs(<< >>), FreeIrqs \o <<"task">>)
   EXCEPT !.live = Irqs, !.starts = Irqs \X {"task"}, !.uses = Irqs \X {"task"},
          !.known = {"pending when failed"}]

WorkqueueDemo == TaskletDemo

\* Killed, then scheduled again by an interrupt that is not freed yet.
V1TaskletDemo ==
  [TaskletDemo EXCEPT !.exit = <<"task">> \o FreeIrqsDown,
                      !.known = @ \cup {"pending when gone", "entered too late"}]

V1WorkqueueDemo == V1TaskletDemo

-----------------------------------------------------------------------------
\* Data shared with an interrupt handler, or with its bottom half.
SpinlockIrqsave ==
  [Driver(<<Sure("lock")>> \o RequestIrqs(<< >>) \o <<Must("node", FreeIrqs)>>,
          <<"node">> \o FreeIrqs)
   EXCEPT !.nodes = {"node"}, !.live = Irqs,
          !.uses = (Irqs \cup {"node"}) \X {"lock"}, !.owned = TRUE]

V1SpinIrq == Unowned([SpinlockIrqsave EXCEPT !.exit = <<"node">> \o FreeIrqsDown])

SpinlockBh ==
  [Driver(<<Sure("lock"), Sure("task")>> \o RequestIrqs(<< >>) \o <<Must("node", FreeIrqs)>>,
          <<"node">> \o FreeIrqs \o <<"task">>)
   EXCEPT !.nodes = {"node"}, !.live = Irqs, !.starts = Irqs \X {"task"},
          !.uses = (Irqs \X {"task"}) \cup {"task", "node"} \X {"lock"}, !.owned = TRUE,
          !.known = {"pending when failed"}]

V1SpinIrqbh ==
  Unowned([SpinlockBh EXCEPT !.exit = <<"node", "task">> \o FreeIrqsDown,
                             !.known = @ \cup {"pending when gone", "entered too late"}])

-----------------------------------------------------------------------------
\* The debounced keys.  In the drivers outside kernel_code_v1 the interrupt
\* sets the timer going and the timer the tasklet, in kernel_code_v1 the
\* interrupt schedules the tasklet and the tasklet the timer.  Interrupts are
\* requested before the timer and the wait queue are initialised.
Chain(a, b) == Irqs \X {a} \cup {<<a, b>>}

KeysKnown == {"pending when failed", "pending when gone", "entered too early", "entered too late"}

Keys ==
  [Driver(<<Sure("task")>> \o RequestIrqs(<< >>) \o
          <<Must("node", FreeIrqs), Sure("timer"), Sure("wait")>>,
          FreeIrqs \o <<"task", "timer", "node">>)
   EXCEPT !.nodes = {"node"}, !.live = Irqs, !.starts = Chain("timer", "task"),
          !.uses = Chain("timer", "task") \cup {"task", "node"} \X {"wait"},
          !.owned = TRUE, !.known = KeysKnown]

V1Keys ==
  [Driver(<<Sure("task"), Must("node", << >>)>> \o RequestIrqs(<<"node">>) \o
          <<Sure("wait"), Sure("timer")>>,
          <<"task">> \o FreeIrqsDown \o <<"node", "timer">>)
   EXCEPT !.nodes = {"node"}, !.live = Irqs, !.starts = Chain("task", "timer"),
          !.uses = Chain("task", "timer") \cup {"timer", "node"} \X {"wait"},
          !.known = KeysKnown \cup {"open when gone", "undone while open"}]

\* The same keys (or a simulated touch screen) as an input device: handler is
\* its registration, input its memory, which unregistering gives back too.
InputBack == <<"handler", "input">>

InputKeys ==
  [Driver(<<Must("input", << >>), Must("handler", <<"input">>), Sure("task")>>
          \o RequestIrqs(InputBack) \o <<Sure("timer")>>,
          FreeIrqs \o <<"task", "timer">> \o InputBack)
   EXCEPT !.live = Irqs, !.starts = Chain("timer", "task"),
          !.uses = Chain("timer", "task") \cup {<<"task", "input">>},
          !.known = KeysKnown]

TouchScreen == InputKeys
MultiTouch == InputKeys

V1InputKeys ==
  [InputKeys
   EXCEPT !.exit = <<"task">> \o FreeIrqsDown \o <<"timer">> \o InputBack,
          !.starts = Chain("task", "timer"),
          !.uses = Chain("task", "timer") \cup {<<"timer", "input">>}]

V1TouchScreen == V1InputKeys
V1MultiTouch == V1InputKeys

\* The FT5206 touch screen.  The result of input_allocate_device is tested
\* with IS_ERR, which NULL is not, and set_bit then writes through it.  remove
\* does not wait for the work the last interrupt scheduled.
FT5206 ==
  LET freed == <<"gpio", "priv">>
  IN [Driver(<<Must("priv", << >>), Must("gpio", <<"priv">>), Must("irq", freed),
               Oops("input"), Must("handler", <<"input", "irq">> \o freed), Sure("work")>>,
             InputBack \o <<"irq">> \o freed)
      EXCEPT !.live = {"irq"}, !.starts = {<<"irq", "work">>},
             !.uses = {"irq"} \X {"work", "priv"} \cup {"work"} \X {"priv", "input"},
             !.known = {"pending when failed", "pending when gone",
                        "entered too early", "entered too late"}]

V1FT5206 == FT5206

-----------------------------------------------------------------------------
\* LEDs through mapped registers or GPIOs.  In the first three nothing is
\* given back when the last registration fails.
LedChar ==
  [Driver(<<Must("reg", << >>), Must("node", << >>)>>, <<"reg", "node">>)
   EXCEPT !.nodes = {"node"}, !.uses = {<<"node", "reg">>}, !.owned = TRUE,
          !.known = {"leaks when failed"}]

\* Without its /proc entry the driver unmaps its registers and goes on.
MiscLed ==
  [LedChar
   EXCEPT !.init = <<Must("reg", << >>), Skip("proc", <<"reg">>), Must("node", << >>)>>,
          !.exit = <<"reg", "proc", "node">>, !.live = {"proc"}, !.uses = @ \cup {<<"proc", "reg">>},
          !.known = @ \cup {"loads half", "frees unheld",
                             "entered too early", "entered too late"}]

\* The GPIO whose direction cannot be set is not among those given back.
GpioLed ==
  [Driver(<<Must("gpio1", << >>), Must(Nothing, << >>),
            Must("gpio2", <<"gpio1">>), Must(Nothing, <<"gpio1">>), Must("node", << >>)>>,
          <<"gpio2", "gpio1", "node">>)
   EXCEPT !.nodes = {"node"}, !.uses = {"node"} \X {"gpio1", "gpio2"}, !.owned = TRUE,
          !.known = {"leaks when failed"}]

\* The last two failures leave ret as device_create's predecessor left it: 0.
V1Leds ==
  LET back == <<"node", "cdev", "class", "region">>
  IN [Driver(Numbers \o <<Must("cdev", NumbersBack), Must("node", <<"cdev">> \o NumbersBack),
                          Zero("reg", back), Zero("proc", <<"reg">> \o back)>>,
             <<"reg", "node", "class", "region", "cdev", "proc">>)
      EXCEPT !.nodes = {"node"}, !.live = {"proc"}, !.uses = {"node", "proc"} \X {"reg"},
             !.owned = TRUE,
             !.known = {"loads half", "entered too early", "entered too late"}]

-----------------------------------------------------------------------------
\* Platform drivers.  rmmod alone takes them away here, not sysfs.
Buzzer ==
  [Driver(<<Must("gpio", << >>), Must("pwm", <<"gpio">>), Must("node", <<"pwm", "gpio">>)>>,
          <<"pwm", "gpio", "node">>)
   EXCEPT !.nodes = {"node"}, !.uses = {"node"} \X {"pwm", "gpio"}, !.owned = TRUE]

V1Beep ==
  Unowned([Buzzer EXCEPT !.init = @ \o <<Sure("lock")>>,
                         !.uses = @ \cup {<<"node", "lock">>},
                         !.known = {"entered too early", "entered too late"}])

\* The slip: what misc_register returned is not passed on.
BadResistance ==
  [Driver(<<Must("client", << >>), Zero("node", <<"client">>)>>, <<"client", "node">>)
   EXCEPT !.nodes = {"node"}, !.uses = {<<"node", "client">>}, !.owned = TRUE]

Resistance ==
  [Driver(<<Must("client", << >>), Must("node", <<"client">>)>>, <<"client", "node">>)
   EXCEPT !.nodes = {"node"}, !.uses = {<<"node", "client">>}, !.owned = TRUE]

V1Reslocator == Unowned([Resistance EXCEPT !.known = {"entered too late"}])

-----------------------------------------------------------------------------
\* Lists behind a device or a /proc entry; exit frees their elements.
DList ==
  [Driver(<<Sure("list"), Must("node", << >>)>>, <<"list", "node">>)
   EXCEPT !.nodes = {"node"}, !.uses = {<<"node", "list">>}, !.owned = TRUE]

ProcList ==
  [Driver(<<Sure("list"), Must("proc", << >>)>>, <<"proc", "list">>)
   EXCEPT !.live = {"proc"}, !.uses = {<<"proc", "list">>}]

V1Proc == [ProcList EXCEPT !.exit = <<"list", "proc">>, !.known = {"entered too late"}]

-----------------------------------------------------------------------------
\* Timers that are going when init returns, once or for ever.
OneShot == [Driver(<<Sure("timer")>>, <<"timer">>) EXCEPT !.armed = {"timer"}]

\* The slip: exit does not wait for the timer.
BadPeriodic == [OneShot EXCEPT !.starts = {<<"timer", "timer">>}, !.exit = << >>]

Periodic == [OneShot EXCEPT !.starts = {<<"timer", "timer">>}]

HrOneShot == OneShot
HrPeriodic == Periodic
V1OneShot == OneShot
V1Periodic5 == Periodic
V1Periodic6 == Periodic
V1Periodic7 == Periodic

-----------------------------------------------------------------------------
DriverTable ==
  [KbufPlain |-> KbufPlain, KbufMdelay |-> KbufMdelay, KbufMutex |-> KbufMutex,
   KbufSemaphore |-> KbufSemaphore, KbufBlock |-> KbufBlock, KbufPoll |-> KbufPoll,
   KbufMisc |-> KbufMisc, KbufIoctl |-> KbufIoctl,
   Atomic |-> Atomic, Spinlock |-> Spinlock, V1Atomic |-> V1Atomic, V1Spin |-> V1Spin,
   V1SpinTrylock |-> V1SpinTrylock, V1Mutex |-> V1Mutex, V1Sema |-> V1Sema,
   IrqDemo |-> IrqDemo, V1IrqDemo |-> V1IrqDemo, SharedIrqDemo |-> SharedIrqDemo,
   V1SharedIrqDemo |-> V1SharedIrqDemo, TaskletDemo |-> TaskletDemo,
   WorkqueueDemo |-> WorkqueueDemo, V1TaskletDemo |-> V1TaskletDemo,
   V1WorkqueueDemo |-> V1WorkqueueDemo, SpinlockIrqsave |-> SpinlockIrqsave,
   V1SpinIrq |-> V1SpinIrq, SpinlockBh |-> SpinlockBh, V1SpinIrqbh |-> V1SpinIrqbh,
   Keys |-> Keys, V1Keys |-> V1Keys, InputKeys |-> InputKeys, TouchScreen |-> TouchScreen,
   MultiTouch |-> MultiTouch, V1InputKeys |-> V1InputKeys, V1TouchScreen |-> V1TouchScreen,
   V1MultiTouch |-> V1MultiTouch, FT5206 |-> FT5206, V1FT5206 |-> V1FT5206,
   LedChar |-> LedChar, MiscLed |-> MiscLed, GpioLed |-> GpioLed, V1Leds |-> V1Leds,
   Buzzer |-> Buzzer, V1Beep |-> V1Beep, Resistance |-> Resistance,
   V1Reslocator |-> V1Reslocator, DList |-> DList, ProcList |-> ProcList, V1Proc |-> V1Proc,
   OneShot |-> OneShot, Periodic |-> Periodic, HrOneShot |-> HrOneShot,
   HrPeriodic |-> HrPeriodic, V1OneShot |-> V1OneShot, V1Periodic5 |-> V1Periodic5,
   V1Periodic6 |-> V1Periodic6, V1Periodic7 |-> V1Periodic7]

=============================================================================
