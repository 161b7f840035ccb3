------------------------------ MODULE PrintLock ------------------------------
(***************************************************************************)
(* The spinlock demos: a program's ioctl prints a string several times,    *)
(* each time with the next value of g_count, and so may an interrupt or    *)
(* its tasklet.  A lock keeps the lines of one call together.              *)
(*                                                                         *)
(*   "plain"    locks/spinlock/spinlock, kernel_code_v1/lock/spin:         *)
(*              programs only, spin_lock                                   *)
(*   "irqsave"  locks/spinlock/spinlock_irqsave, kernel_code_v1/lock/      *)
(*              spin_irq: the key interrupt prints too, spin_lock_irqsave  *)
(*   "bh"       locks/spinlock/spinlock_bh, kernel_code_v1/lock/           *)
(*              spin_irqbh: its tasklet does, spin_lock_bh                 *)
(*                                                                         *)
(* On each CPU a program ("task") can be interrupted by a tasklet ("soft") *)
(* and both by an interrupt ("hard"); what is below runs on when what is   *)
(* above has returned.  Preemption is off while a spinlock is waited for   *)
(* or held, so one program of a CPU at a time is in its call.              *)
(***************************************************************************)
EXTENDS Integers

CONSTANTS Cpus,
          Kinds,      \* the drivers looked at, among the three above
          Lines,      \* OUT_STRING_CNT, CNT
          CountMod,   \* bound: g_count is kept modulo this
          MaxIrqs,    \* bound: how often a key is pressed or released
          NoOne

ASSUME KindsAssumption == Kinds \subseteq {"plain", "irqsave", "bh"}
ASSUME LinesAssumption == Lines \in Nat /\ Lines > 0
ASSUME CountModAssumption == CountMod \in Nat /\ CountMod > Lines
ASSUME MaxIrqsAssumption == MaxIrqs \in Nat
ASSUME NoOneAssumption == NoOne \notin Cpus \X {"task", "soft", "hard"}

Levels == {"task", "soft", "hard"}
Contexts == Cpus \X Levels

Above(l) == CASE l = "task" -> {"soft", "hard"} [] l = "soft" -> {"hard"} [] l = "hard" -> {}

VARIABLES
  drv,     \* the driver; never changes
  lock,    \* the context that holds spin
  pc,      \* per context: "off", or where it is in its call
  lines,   \* per context: lines it has printed in this call
  first,   \* per context: g_count when it got the lock
  count,   \* g_count
  last,    \* the context that printed the last line
  irqs,    \* CPUs that take interrupts (the I bit is clear)
  flags,   \* per context: whether its CPU took them before spin_lock_irqsave
  bhOff,   \* contexts that have softirqs disabled on their CPU
  sched,   \* CPUs the tasklet is queued on: at most one
  left     \* presses still to come

output == <<lines, first, count, last>>
masks == <<irqs, flags, bhOff>>
vars == <<drv, lock, pc, output, masks, sched, left>>

Init ==
  /\ drv \in Kinds
  /\ lock = NoOne
  /\ pc = [x \in Contexts |-> "off"]
  /\ lines = [x \in Contexts |-> 0] /\ first = [x \in Contexts |-> 0]
  /\ count = 0 /\ last = NoOne
  /\ irqs = Cpus /\ flags = [x \in Contexts |-> FALSE] /\ bhOff = {}
  /\ sched = {} /\ left = MaxIrqs

\* Nothing above it is active on its CPU.
Runs(x) == \A l \in Above(x[2]) : pc[<<x[1], l>>] = "off"

Goto(x, l) == pc' = [pc EXCEPT ![x] = l]

\* A program calls spin_ioctl.
Ioctl(c) ==
  /\ pc[<<c, "task">>] = "off" /\ Runs(<<c, "task">>)
  /\ Goto(<<c, "task">>, "lock")
  /\ UNCHANGED <<lock, output, masks, sched, left>>

\* A key interrupts CPU c, which takes no other interrupt until it returns.
\* do_key_irq prints, do_key_irq_tp schedules the tasklet.
Interrupt(c) ==
  /\ drv # "plain" /\ left > 0 /\ c \in irqs /\ pc[<<c, "hard">>] = "off"
  /\ left' = left - 1
  /\ irqs' = irqs \ {c}
  /\ Goto(<<c, "hard">>, IF drv = "irqsave" THEN "lock" ELSE "top")
  /\ UNCHANGED <<lock, output, flags, bhOff, sched>>

\* tasklet_schedule: queued here, unless it is queued somewhere.
Top(x) ==
  /\ pc[x] = "top"
  /\ sched' = IF sched = {} THEN {x[1]} ELSE sched
  /\ Goto(x, "ret")
  /\ UNCHANGED <<lock, output, masks, left>>

\* The softirq runs the tasklet: where softirqs are enabled, no interrupt is
\* being handled, and the tasklet does not run on another CPU.
SoftStart(c) ==
  /\ c \in sched
  /\ \A d \in Cpus : pc[<<d, "soft">>] = "off"
  /\ pc[<<c, "hard">>] = "off"
  /\ \A x \in bhOff : x[1] # c
  /\ sched' = sched \ {c}
  /\ Goto(<<c, "soft">>, "lock")
  /\ UNCHANGED <<lock, output, masks, left>>

\* Operators whose name begins with Bad are slips in what follows them.
\* Here: spin_lock, whatever else may print.
BadLockBegin(x) ==
  /\ pc[x] = "lock" /\ Runs(x)
  /\ Goto(x, "spin")
  /\ UNCHANGED <<lock, output, masks, sched, left>>

\* What spin_lock_irqsave and spin_lock_bh do before they spin.  (The locals
\* flags and lines are FALSE and 0 when they are not in use.)
LockBegin(x) ==
  /\ pc[x] = "lock" /\ Runs(x)
  /\ irqs' = IF drv = "irqsave" THEN irqs \ {x[1]} ELSE irqs
  /\ flags' = [flags EXCEPT ![x] = drv = "irqsave" /\ x[1] \in irqs]
  /\ bhOff' = IF drv = "bh" THEN bhOff \cup {x} ELSE bhOff
  /\ Goto(x, "spin")
  /\ UNCHANGED <<lock, output, sched, left>>

\* The slip: the lock is not waited for.
BadSpin(x) ==
  /\ pc[x] = "spin" /\ Runs(x)
  /\ lock' = x
  /\ first' = [first EXCEPT ![x] = count]
  /\ Goto(x, "print")
  /\ UNCHANGED <<lines, count, last, masks, sched, left>>

Spin(x) ==
  /\ pc[x] = "spin" /\ Runs(x) /\ lock = NoOne
  /\ lock' = x
  /\ first' = [first EXCEPT ![x] = count]
  /\ Goto(x, "print")
  /\ UNCHANGED <<lines, count, last, masks, sched, left>>

\* g_count is an int and wraps; here it does so earlier.
Wrapped(n) == IF n < CountMod THEN n ELSE n - CountMod

\* printk("\"%d\": %s\n", g_count, str)
PrintLine(x) ==
  /\ pc[x] = "print" /\ Runs(x)
  /\ last' = x
  /\ Goto(x, "inc")
  /\ UNCHANGED <<lock, lines, first, count, masks, sched, left>>

\* g_count++, a delay of 11 or 50 ms, and the next line or the unlock
Increment(x) ==
  /\ pc[x] = "inc" /\ Runs(x)
  /\ count' = Wrapped(count + 1)
  /\ lines' = [lines EXCEPT ![x] = @ + 1]
  /\ Goto(x, IF lines[x] + 1 < Lines THEN "print" ELSE "unlock")
  /\ UNCHANGED <<lock, first, last, masks, sched, left>>

\* The lines of the call are out; the lock is released ...
Unlock(x) ==
  /\ pc[x] = "unlock" /\ Runs(x)
  /\ lock' = NoOne
  /\ lines' = [lines EXCEPT ![x] = 0] /\ first' = [first EXCEPT ![x] = 0]
  /\ Goto(x, "restore")
  /\ UNCHANGED <<count, last, masks, sched, left>>

\* The slip: interrupts are enabled instead of restored (spin_unlock_irq).
BadRestore(x) ==
  /\ pc[x] = "restore" /\ Runs(x)
  /\ irqs' = IF drv = "irqsave" THEN irqs \cup {x[1]} ELSE irqs
  /\ bhOff' = bhOff \ {x}
  /\ flags' = [flags EXCEPT ![x] = FALSE]
  /\ Goto(x, IF x[2] = "task" THEN "off" ELSE "ret")
  /\ UNCHANGED <<lock, output, sched, left>>

\* ... and spin_unlock_irqrestore and spin_unlock_bh restore what was before.
Restore(x) ==
  /\ pc[x] = "restore" /\ Runs(x)
  /\ irqs' = IF drv = "irqsave" /\ flags[x] THEN irqs \cup {x[1]} ELSE irqs
  /\ bhOff' = bhOff \ {x}
  /\ flags' = [flags EXCEPT ![x] = FALSE]
  /\ Goto(x, IF x[2] = "task" THEN "off" ELSE "ret")
  /\ UNCHANGED <<lock, output, sched, left>>

\* The interrupt or the tasklet returns; what it interrupted goes on.
Return(x) ==
  /\ pc[x] = "ret" /\ Runs(x)
  /\ Goto(x, "off")
  /\ irqs' = IF x[2] = "hard" THEN irqs \cup {x[1]} ELSE irqs
  /\ UNCHANGED <<lock, output, flags, bhOff, sched, left>>

PrintString(x) == LockBegin(x) \/ Spin(x) \/ PrintLine(x) \/ Increment(x)
                  \/ Unlock(x) \/ Restore(x)

Step(x) == PrintString(x) \/ Top(x) \/ Return(x)

Next ==
  /\ \/ \E c \in Cpus : Ioctl(c) \/ Interrupt(c) \/ SoftStart(c)
     \/ \E x \in Contexts : Step(x)
  /\ UNCHANGED drv

Spec == Init /\ [][Next]_vars

\* A CPU does what is to be done; nobody has to call ioctl or press a key.
FairSpec == Spec /\ \A x \in Contexts : WF_vars(Step(x) /\ UNCHANGED drv)

-----------------------------------------------------------------------------
\* The comment above spin_ioctl: whoever calls, three consecutive counts in the
\* output have the same string.  So from its first line to its last nobody
\* else prints or counts, in a program, a tasklet or an interrupt.
LinesTogether ==
  \A x \in Contexts : pc[x] \in {"print", "inc", "unlock"} =>
    /\ lines[x] > 0 \/ pc[x] = "inc" => last = x
    /\ count = Wrapped(first[x] + lines[x])

\* What spins does not wait for something it has interrupted itself.
NobodySpinsOnItsCpu ==
  \A x \in Contexts : pc[x] = "spin" /\ lock # NoOne => lock[1] # x[1]

\* An interrupt handler is not interrupted, though it takes and releases the
\* lock, and a CPU on which nothing is left to do takes interrupts and softirqs.
MasksAreRestored ==
  \A c \in Cpus :
    /\ pc[<<c, "hard">>] # "off" => c \notin irqs
    /\ (\A l \in Levels : pc[<<c, l>>] = "off") =>
          c \in irqs /\ (\A x \in bhOff : x[1] # c)

\* Who has the lock gives it back.
LockIsReleased == \A x \in Contexts : lock = x ~> lock # x

=============================================================================
