--------------------------- MODULE PrintLockProofs ---------------------------
(***************************************************************************)
(* The spinlock demos on any number of CPUs, with any number of lines and  *)
(* interrupts.  What is proved of the lines needs only that who is inside  *)
(* has the lock (LockInv).  That no CPU waits for itself needs more: who   *)
(* can be active above whom in each driver (PlaceInv, NestInv), and that   *)
(* needs to know exactly when a CPU takes interrupts and softirqs          *)
(* (MaskInv).  That the lock comes back rests on both: nothing that is     *)
(* above the one inside waits for its lock, so it runs again.              *)
(***************************************************************************)
EXTENDS PrintLock, TLAPS

Labels == {"off", "lock", "spin", "print", "inc", "unlock", "restore", "top", "ret"}
Inside == {"print", "inc", "unlock"}
Masked == Inside \cup {"spin", "restore"}

TypeInv ==
  /\ drv \in {"plain", "irqsave", "bh"}
  /\ lock \in Contexts \cup {NoOne}
  /\ pc \in [Contexts -> Labels]
  /\ lines \in [Contexts -> 0..Lines] /\ first \in [Contexts -> 0..(CountMod - 1)]
  /\ count \in 0..(CountMod - 1)
  /\ irqs \subseteq Cpus /\ flags \in [Contexts -> BOOLEAN]
  /\ bhOff \subseteq Contexts /\ sched \subseteq Cpus

\* Inside is who has the lock.
LockInv == \A x \in Contexts : pc[x] \in Inside <=> lock = x

LinesInv ==
  /\ LinesTogether
  /\ \A x \in Contexts : /\ pc[x] \notin Inside => lines[x] = 0
                         /\ pc[x] \in {"print", "inc"} => lines[x] < Lines

\* Which contexts a driver has, and what they do.
PlaceInv ==
  \A c \in Cpus :
    /\ pc[<<c, "task">>] \notin {"top", "ret"}
    /\ pc[<<c, "soft">>] # "off" => drv = "bh" /\ pc[<<c, "soft">>] # "top"
    /\ c \in sched => drv = "bh"
    /\ drv = "plain" => pc[<<c, "hard">>] = "off"
    /\ drv = "bh" => pc[<<c, "hard">>] \in {"off", "top", "ret"}
    /\ drv = "irqsave" => pc[<<c, "hard">>] # "top"

\* What else prints stays away while a program is at the lock.
NestInv ==
  \A c \in Cpus : pc[<<c, "task">>] \in Masked =>
    /\ drv = "irqsave" => pc[<<c, "hard">>] = "off"
    /\ drv = "bh" => pc[<<c, "soft">>] = "off"

\* When a CPU takes interrupts, and softirqs.
IrqsInv ==
  \A c \in Cpus :
    c \in irqs <=> /\ pc[<<c, "hard">>] = "off"
                   /\ ~(drv = "irqsave" /\ pc[<<c, "task">>] \in Masked)

SavedInv ==
  \A x \in Contexts :
    /\ flags[x] <=> drv = "irqsave" /\ x[2] = "task" /\ pc[x] \in Masked
    /\ x \in bhOff <=> drv = "bh" /\ pc[x] \in Masked

MaskInv == IrqsInv /\ SavedInv

IInv == TypeInv /\ LockInv /\ LinesInv /\ PlaceInv /\ NestInv /\ MaskInv

-----------------------------------------------------------------------------
\* A context is a level of a CPU.
LEMMA ContextIsPair ==
  ASSUME NEW x \in Contexts
  PROVE  x[1] \in Cpus /\ x[2] \in Levels /\ x = <<x[1], x[2]>>
BY DEF Contexts

\* Every level of every CPU is a context.
LEMMA LevelIsContext ==
  ASSUME NEW c \in Cpus, NEW l \in Levels
  PROVE  <<c, l>> \in Contexts
BY DEF Contexts

\* What runs has nothing active above it.
LEMMA RunsAlone ==
  ASSUME NEW x \in Contexts, Runs(x)
  PROVE  /\ x[2] = "task" => pc[<<x[1], "soft">>] = "off" /\ pc[<<x[1], "hard">>] = "off"
         /\ x[2] = "soft" => pc[<<x[1], "hard">>] = "off"
BY ContextIsPair DEF Runs, Above, Levels

\* At the start the lock is free, nothing is masked and nobody is in a call.
LEMMA InitIInv == Init => IInv
<1> SUFFICES ASSUME Init PROVE IInv
  OBVIOUS
<1> USE DEF Init
<1>1. TypeInv
  BY KindsAssumption, LinesAssumption, CountModAssumption DEF TypeInv, Labels
<1>2. LockInv /\ LinesInv
  BY NoOneAssumption DEF LockInv, LinesInv, LinesTogether, Inside, Contexts, Levels
<1>3. PlaceInv /\ NestInv /\ MaskInv
  BY LevelIsContext DEF PlaceInv, NestInv, MaskInv, IrqsInv, SavedInv, Masked, Inside, Levels
<1> QED BY <1>1, <1>2, <1>3 DEF IInv

\* A step of a context that is not inside before or after it leaves the lock
\* and the lines as they are.
LEMMA OutsideMove ==
  ASSUME IInv, NEW x \in Contexts, NEW l \in Labels \ Inside, pc[x] \notin Inside,
         Goto(x, l), UNCHANGED <<lock, output>>
  PROVE  LockInv' /\ LinesInv'
<1> USE DEF IInv, TypeInv, Goto, output
<1>1. \A y \in Contexts : pc'[y] \in Inside <=> pc[y] \in Inside
  OBVIOUS
<1>2. \A y \in Contexts : pc[y] \in Inside => pc'[y] = pc[y]
  OBVIOUS
<1>3. LockInv'
  BY <1>1 DEF LockInv
<1>4. LinesInv'
  BY <1>1, <1>2 DEF LinesInv, LinesTogether, Inside
<1> QED BY <1>3, <1>4

\* A program enters ioctl: nothing is taken or masked yet.
LEMMA IoctlIInv ==
  ASSUME IInv, NEW c \in Cpus, Ioctl(c), drv' = drv
  PROVE  IInv'
<1> DEFINE x == <<c, "task">>
<1> USE DEF Ioctl
<1>0. x \in Contexts /\ x[1] = c /\ x[2] = "task"
  BY LevelIsContext DEF Levels
<1>1. TypeInv' /\ Goto(x, "lock") /\ "lock" \in Labels \ Inside
  BY <1>0 DEF IInv, TypeInv, Goto, Labels, Inside, output, masks
<1>2. LockInv' /\ LinesInv'
  BY <1>0, <1>1, OutsideMove DEF Inside
<1>3. \A y \in Contexts : pc'[y] = IF y = x THEN "lock" ELSE pc[y]
  BY <1>0 DEF Goto, IInv, TypeInv
<1>4. PlaceInv'
  BY <1>0, <1>3, LevelIsContext DEF IInv, PlaceInv, Levels
<1>5. NestInv'
  <2>1. \A d \in Cpus : /\ pc'[<<d, "hard">>] = pc[<<d, "hard">>]
                        /\ pc'[<<d, "soft">>] = pc[<<d, "soft">>]
                        /\ d # c => pc'[<<d, "task">>] = pc[<<d, "task">>]
    BY <1>0, <1>3, LevelIsContext DEF Levels
  <2>2. pc'[<<c, "task">>] \notin Masked
    BY <1>0, <1>3 DEF Masked, Inside
  <2> QED BY <2>1, <2>2 DEF IInv, NestInv, Masked, Inside
<1>6. IrqsInv'
  <2>1. \A d \in Cpus : /\ pc'[<<d, "hard">>] = pc[<<d, "hard">>]
                        /\ pc'[<<d, "task">>] \in Masked <=> pc[<<d, "task">>] \in Masked
    BY <1>0, <1>3, LevelIsContext DEF Levels, Masked, Inside
  <2> QED BY <2>1 DEF IInv, MaskInv, IrqsInv, masks, Masked, Inside
<1>7. SavedInv'
  <2>1. \A y \in Contexts : pc'[y] \in Masked <=> pc[y] \in Masked
    BY <1>0, <1>3 DEF Masked, Inside
  <2> QED BY <2>1 DEF IInv, MaskInv, SavedInv, masks
<1> QED BY <1>1, <1>2, <1>4, <1>5, <1>6, <1>7 DEF IInv, MaskInv

\* An interrupt starts only on a CPU that takes interrupts, so it starts
\* where nothing is masked.
LEMMA InterruptIInv ==
  ASSUME IInv, NEW c \in Cpus, Interrupt(c), drv' = drv
  PROVE  IInv'
<1> DEFINE x == <<c, "hard">>
           l == IF drv = "irqsave" THEN "lock" ELSE "top"
<1> USE DEF Interrupt
<1>0. x \in Contexts /\ x[1] = c /\ x[2] = "hard"
  BY LevelIsContext DEF Levels
<1>1. TypeInv' /\ Goto(x, l) /\ l \in Labels \ Inside
  BY <1>0 DEF IInv, TypeInv, Goto, Labels, Inside, output
<1>2. LockInv' /\ LinesInv'
  BY <1>0, <1>1, OutsideMove DEF Inside
<1>3. \A y \in Contexts : pc'[y] = IF y = x THEN l ELSE pc[y]
  BY <1>0 DEF Goto, IInv, TypeInv
<1>4. PlaceInv'
  BY <1>0, <1>3, LevelIsContext DEF IInv, TypeInv, PlaceInv, Levels
<1>5. NestInv'
  <2>1. \A d \in Cpus : /\ pc'[<<d, "task">>] = pc[<<d, "task">>]
                        /\ pc'[<<d, "soft">>] = pc[<<d, "soft">>]
                        /\ d # c => pc'[<<d, "hard">>] = pc[<<d, "hard">>]
    BY <1>0, <1>3, LevelIsContext DEF Levels
  <2>2. ~(drv = "irqsave" /\ pc[<<c, "task">>] \in Masked)
    BY DEF IInv, MaskInv, IrqsInv
  <2> QED BY <2>1, <2>2 DEF IInv, NestInv, Masked, Inside
<1>6. IrqsInv'
  <2>1. \A d \in Cpus : /\ pc'[<<d, "task">>] = pc[<<d, "task">>]
                        /\ d # c => pc'[<<d, "hard">>] = pc[<<d, "hard">>]
    BY <1>0, <1>3, LevelIsContext DEF Levels
  <2>2. pc'[<<c, "hard">>] # "off" /\ irqs' = irqs \ {c}
    BY <1>0, <1>3
  <2> QED BY <2>1, <2>2 DEF IInv, MaskInv, IrqsInv, Masked, Inside
<1>7. SavedInv'
  <2>1. \A y \in Contexts : y[2] = "task" \/ drv = "bh" => (pc'[y] \in Masked <=> pc[y] \in Masked)
    BY <1>0, <1>3 DEF Masked, Inside
  <2>2. \A y \in Contexts :
          /\ flags'[y] <=> drv' = "irqsave" /\ y[2] = "task" /\ pc'[y] \in Masked
          /\ y \in bhOff' <=> drv' = "bh" /\ pc'[y] \in Masked
    BY <2>1 DEF IInv, MaskInv, SavedInv
  <2> QED BY <2>2 DEF SavedInv, Masked, Inside
<1> QED BY <1>1, <1>2, <1>4, <1>5, <1>6, <1>7 DEF IInv, MaskInv

\* The tasklet starts only where softirqs are on and nothing is above it.
LEMMA SoftStartIInv ==
  ASSUME IInv, NEW c \in Cpus, SoftStart(c), drv' = drv
  PROVE  IInv'
<1> DEFINE x == <<c, "soft">>
<1> USE DEF SoftStart
<1>0. x \in Contexts /\ x[1] = c /\ x[2] = "soft" /\ <<c, "task">> \in Contexts
  BY LevelIsContext DEF Levels
<1>1. TypeInv' /\ Goto(x, "lock") /\ "lock" \in Labels \ Inside
  BY <1>0 DEF IInv, TypeInv, Goto, Labels, Inside, output, masks
<1>2. LockInv' /\ LinesInv'
  BY <1>0, <1>1, OutsideMove DEF Inside
<1>3. \A y \in Contexts : pc'[y] = IF y = x THEN "lock" ELSE pc[y]
  BY <1>0 DEF Goto, IInv, TypeInv
<1>4. drv = "bh" /\ pc[<<c, "task">>] \notin Masked
  BY <1>0 DEF IInv, PlaceInv, MaskInv, SavedInv
<1>5. \A d \in Cpus : /\ pc'[<<d, "task">>] = pc[<<d, "task">>]
                      /\ pc'[<<d, "hard">>] = pc[<<d, "hard">>]
                      /\ d # c => pc'[<<d, "soft">>] = pc[<<d, "soft">>]
  BY <1>0, <1>3, LevelIsContext DEF Levels
<1>6. PlaceInv'
  <2>1. pc'[<<c, "soft">>] = "lock" /\ sched' \subseteq sched
    BY <1>0, <1>3
  <2> QED BY <1>4, <1>5, <2>1 DEF IInv, PlaceInv
<1>7. NestInv'
  BY <1>4, <1>5 DEF IInv, NestInv, Masked, Inside
<1>8. IrqsInv'
  BY <1>5 DEF IInv, MaskInv, IrqsInv, masks, Masked, Inside
<1>9. SavedInv'
  <2>1. \A y \in Contexts : y # x => pc'[y] = pc[y]
    BY <1>3
  <2>2. pc[x] = "off" /\ pc'[x] = "lock"
    BY <1>0, <1>3
  <2>3. flags' = flags /\ bhOff' = bhOff
    BY DEF masks
  <2>4. \A y \in Contexts : pc'[y] \in Masked <=> pc[y] \in Masked
    BY <2>1, <2>2 DEF Masked, Inside
  <2> QED BY <2>3, <2>4 DEF IInv, MaskInv, SavedInv
<1> QED BY <1>1, <1>2, <1>6, <1>7, <1>8, <1>9 DEF IInv, MaskInv

\* The variant of spin_lock masks first: what is below, and what it finds
\* masked already, decide what Restore will put back.
LEMMA LockBeginIInv ==
  ASSUME IInv, NEW c \in Cpus, NEW v \in Levels, LockBegin(<<c, v>>), drv' = drv
  PROVE  IInv'
<1> DEFINE x == <<c, v>>
           l == "spin"
<1> USE DEF LockBegin
<1>0. x \in Contexts /\ x[1] = c /\ x[2] = v
  BY LevelIsContext
<1>1. TypeInv' /\ Goto(x, l) /\ l \in Labels \ Inside
  BY <1>0 DEF IInv, TypeInv, Goto, Labels, Inside, output, masks
<1>2. LockInv' /\ LinesInv'
  BY <1>0, <1>1, OutsideMove DEF Inside, output
<1>3. \A y \in Contexts : pc'[y] = IF y = x THEN l ELSE pc[y]
  BY <1>0 DEF Goto, IInv, TypeInv
<1>4. \A d \in Cpus : d # c =>
        /\ d \in irqs' <=> d \in irqs
        /\ pc'[<<d, "hard">>] = pc[<<d, "hard">>] /\ pc'[<<d, "task">>] = pc[<<d, "task">>]
  BY <1>0, <1>3, LevelIsContext DEF Levels, masks
<1>5. pc'[<<c, "hard">>] = (IF v = "hard" THEN l ELSE pc[<<c, "hard">>])
      /\ pc'[<<c, "task">>] = (IF v = "task" THEN l ELSE pc[<<c, "task">>])
  BY <1>0, <1>3, LevelIsContext DEF Levels
<1>6. CASE v = "task"
  <2>1. pc[<<c, "soft">>] = "off" /\ pc[<<c, "hard">>] = "off" /\ (drv = "irqsave" => c \in irqs)
    BY <1>0, <1>6, RunsAlone
       DEF IInv, TypeInv, PlaceInv, NestInv, MaskInv, IrqsInv, SavedInv, Masked, Inside, Levels
  <2>2. PlaceInv'
    BY <1>0, <1>3, <1>6, <2>1, LevelIsContext DEF IInv, TypeInv, PlaceInv, Levels
  <2>3. NestInv'
    BY <1>0, <1>3, <1>6, <2>1, LevelIsContext DEF IInv, NestInv, Masked, Inside, Levels
  <2>4. IrqsInv'
    <3>1. c \in irqs' <=> /\ pc'[<<c, "hard">>] = "off"
                         /\ ~(drv = "irqsave" /\ pc'[<<c, "task">>] \in Masked)
      BY <1>0, <1>5, <1>6, <2>1 DEF IInv, MaskInv, IrqsInv, Masked, Inside
    <3> QED BY <1>4, <3>1 DEF IInv, MaskInv, IrqsInv
  <2>5. SavedInv'
    BY <1>0, <1>3, <1>6, <2>1
       DEF IInv, TypeInv, MaskInv, SavedInv, Masked, Inside, Levels
  <2> QED BY <1>1, <1>2, <2>2, <2>3, <2>4, <2>5 DEF IInv, MaskInv
<1>7. CASE v = "soft"
  <2>1. drv = "bh" /\ pc[<<c, "hard">>] = "off" /\ pc[<<c, "task">>] \notin Masked
    BY <1>0, <1>7, RunsAlone
       DEF IInv, TypeInv, PlaceInv, NestInv, MaskInv, IrqsInv, SavedInv, Masked, Inside, Levels
  <2>2. PlaceInv'
    BY <1>0, <1>3, <1>7, <2>1, LevelIsContext DEF IInv, TypeInv, PlaceInv, Levels
  <2>3. NestInv'
    BY <1>0, <1>3, <1>7, <2>1, LevelIsContext DEF IInv, NestInv, Masked, Inside, Levels
  <2>4. IrqsInv'
    <3>1. c \in irqs' <=> /\ pc'[<<c, "hard">>] = "off"
                         /\ ~(drv = "irqsave" /\ pc'[<<c, "task">>] \in Masked)
      BY <1>0, <1>5, <1>7, <2>1 DEF IInv, MaskInv, IrqsInv, Masked, Inside
    <3> QED BY <1>4, <3>1 DEF IInv, MaskInv, IrqsInv
  <2>5. SavedInv'
    BY <1>0, <1>3, <1>7, <2>1
       DEF IInv, TypeInv, MaskInv, SavedInv, Masked, Inside, Levels
  <2> QED BY <1>1, <1>2, <2>2, <2>3, <2>4, <2>5 DEF IInv, MaskInv
<1>8. CASE v = "hard"
  <2>1. drv = "irqsave" /\ c \notin irqs /\ pc[<<c, "task">>] \notin Masked
    BY <1>0, <1>8, RunsAlone
       DEF IInv, TypeInv, PlaceInv, NestInv, MaskInv, IrqsInv, SavedInv, Masked, Inside, Levels
  <2>2. PlaceInv'
    BY <1>0, <1>3, <1>8, <2>1, LevelIsContext DEF IInv, TypeInv, PlaceInv, Levels
  <2>3. NestInv'
    BY <1>0, <1>3, <1>8, <2>1, LevelIsContext DEF IInv, NestInv, Masked, Inside, Levels
  <2>4. IrqsInv'
    <3>1. c \in irqs' <=> /\ pc'[<<c, "hard">>] = "off"
                         /\ ~(drv = "irqsave" /\ pc'[<<c, "task">>] \in Masked)
      BY <1>0, <1>5, <1>8, <2>1 DEF IInv, MaskInv, IrqsInv, Masked, Inside
    <3> QED BY <1>4, <3>1 DEF IInv, MaskInv, IrqsInv
  <2>5. SavedInv'
    BY <1>0, <1>3, <1>8, <2>1
       DEF IInv, TypeInv, MaskInv, SavedInv, Masked, Inside, Levels
  <2> QED BY <1>1, <1>2, <2>2, <2>3, <2>4, <2>5 DEF IInv, MaskInv
<1> QED BY <1>6, <1>7, <1>8 DEF Levels

\* The unlock puts back exactly what its context found; what is below it on
\* the CPU keeps what it had found.
LEMMA RestoreIInv ==
  ASSUME IInv, NEW c \in Cpus, NEW v \in Levels, Restore(<<c, v>>), drv' = drv
  PROVE  IInv'
<1> DEFINE x == <<c, v>>
           l == IF v = "task" THEN "off" ELSE "ret"
<1> USE DEF Restore
<1>0. x \in Contexts /\ x[1] = c /\ x[2] = v
  BY LevelIsContext
<1>1. TypeInv' /\ Goto(x, l) /\ l \in Labels \ Inside
  BY <1>0 DEF IInv, TypeInv, Goto, Labels, Inside, output, masks
<1>2. LockInv' /\ LinesInv'
  BY <1>0, <1>1, OutsideMove DEF Inside, output
<1>3. \A y \in Contexts : pc'[y] = IF y = x THEN l ELSE pc[y]
  BY <1>0 DEF Goto, IInv, TypeInv
<1>4. \A d \in Cpus : d # c =>
        /\ d \in irqs' <=> d \in irqs
        /\ pc'[<<d, "hard">>] = pc[<<d, "hard">>] /\ pc'[<<d, "task">>] = pc[<<d, "task">>]
  BY <1>0, <1>3, LevelIsContext DEF Levels, masks
<1>5. pc'[<<c, "hard">>] = (IF v = "hard" THEN l ELSE pc[<<c, "hard">>])
      /\ pc'[<<c, "task">>] = (IF v = "task" THEN l ELSE pc[<<c, "task">>])
  BY <1>0, <1>3, LevelIsContext DEF Levels
<1>6. CASE v = "task"
  <2>1. pc[<<c, "hard">>] = "off" /\ (flags[x] <=> drv = "irqsave")
    BY <1>0, <1>6, RunsAlone
       DEF IInv, TypeInv, PlaceInv, NestInv, MaskInv, IrqsInv, SavedInv, Masked, Inside, Levels
  <2>2. PlaceInv'
    BY <1>0, <1>3, <1>6, <2>1, LevelIsContext DEF IInv, TypeInv, PlaceInv, Levels
  <2>3. NestInv'
    BY <1>0, <1>3, <1>6, <2>1, LevelIsContext DEF IInv, NestInv, Masked, Inside, Levels
  <2>4. IrqsInv'
    <3>1. c \in irqs' <=> /\ pc'[<<c, "hard">>] = "off"
                         /\ ~(drv = "irqsave" /\ pc'[<<c, "task">>] \in Masked)
      BY <1>0, <1>5, <1>6, <2>1 DEF IInv, MaskInv, IrqsInv, Masked, Inside
    <3> QED BY <1>4, <3>1 DEF IInv, MaskInv, IrqsInv
  <2>5. SavedInv'
    BY <1>0, <1>3, <1>6, <2>1
       DEF IInv, TypeInv, MaskInv, SavedInv, Masked, Inside, Levels
  <2> QED BY <1>1, <1>2, <2>2, <2>3, <2>4, <2>5 DEF IInv, MaskInv
<1>7. CASE v = "soft"
  <2>1. drv = "bh" /\ ~flags[x] /\ pc[<<c, "task">>] \notin Masked
    BY <1>0, <1>7, RunsAlone
       DEF IInv, TypeInv, PlaceInv, NestInv, MaskInv, IrqsInv, SavedInv, Masked, Inside, Levels
  <2>2. PlaceInv'
    BY <1>0, <1>3, <1>7, <2>1, LevelIsContext DEF IInv, TypeInv, PlaceInv, Levels
  <2>3. NestInv'
    BY <1>0, <1>3, <1>7, <2>1, LevelIsContext DEF IInv, NestInv, Masked, Inside, Levels
  <2>4. IrqsInv'
    <3>1. c \in irqs' <=> /\ pc'[<<c, "hard">>] = "off"
                         /\ ~(drv = "irqsave" /\ pc'[<<c, "task">>] \in Masked)
      BY <1>0, <1>5, <1>7, <2>1 DEF IInv, MaskInv, IrqsInv, Masked, Inside
    <3> QED BY <1>4, <3>1 DEF IInv, MaskInv, IrqsInv
  <2>5. SavedInv'
    BY <1>0, <1>3, <1>7, <2>1
       DEF IInv, TypeInv, MaskInv, SavedInv, Masked, Inside, Levels
  <2> QED BY <1>1, <1>2, <2>2, <2>3, <2>4, <2>5 DEF IInv, MaskInv
<1>8. CASE v = "hard"
  <2>1. drv = "irqsave" /\ ~flags[x] /\ c \notin irqs /\ pc[<<c, "task">>] \notin Masked
    BY <1>0, <1>8, RunsAlone
       DEF IInv, TypeInv, PlaceInv, NestInv, MaskInv, IrqsInv, SavedInv, Masked, Inside, Levels
  <2>2. PlaceInv'
    BY <1>0, <1>3, <1>8, <2>1, LevelIsContext DEF IInv, TypeInv, PlaceInv, Levels
  <2>3. NestInv'
    BY <1>0, <1>3, <1>8, <2>1, LevelIsContext DEF IInv, NestInv, Masked, Inside, Levels
  <2>4. IrqsInv'
    <3>1. c \in irqs' <=> /\ pc'[<<c, "hard">>] = "off"
                         /\ ~(drv = "irqsave" /\ pc'[<<c, "task">>] \in Masked)
      BY <1>0, <1>5, <1>8, <2>1 DEF IInv, MaskInv, IrqsInv, Masked, Inside
    <3> QED BY <1>4, <3>1 DEF IInv, MaskInv, IrqsInv
  <2>5. SavedInv'
    BY <1>0, <1>3, <1>8, <2>1
       DEF IInv, TypeInv, MaskInv, SavedInv, Masked, Inside, Levels
  <2> QED BY <1>1, <1>2, <2>2, <2>3, <2>4, <2>5 DEF IInv, MaskInv
<1> QED BY <1>6, <1>7, <1>8 DEF Levels

\* An interrupt or the tasklet returns and leaves what it interrupted as it was.
LEMMA ReturnIInv ==
  ASSUME IInv, NEW c \in Cpus, NEW v \in Levels, Return(<<c, v>>), drv' = drv
  PROVE  IInv'
<1> DEFINE x == <<c, v>>
           l == "off"
<1> USE DEF Return
<1>0. x \in Contexts /\ x[1] = c /\ x[2] = v
  BY LevelIsContext
<1>1. TypeInv' /\ Goto(x, l) /\ l \in Labels \ Inside
  BY <1>0 DEF IInv, TypeInv, Goto, Labels, Inside, output, masks
<1>2. LockInv' /\ LinesInv'
  BY <1>0, <1>1, OutsideMove DEF Inside, output
<1>3. \A y \in Contexts : pc'[y] = IF y = x THEN l ELSE pc[y]
  BY <1>0 DEF Goto, IInv, TypeInv
<1>4. \A d \in Cpus : d # c =>
        /\ d \in irqs' <=> d \in irqs
        /\ pc'[<<d, "hard">>] = pc[<<d, "hard">>] /\ pc'[<<d, "task">>] = pc[<<d, "task">>]
  BY <1>0, <1>3, LevelIsContext DEF Levels, masks
<1>5. pc'[<<c, "hard">>] = (IF v = "hard" THEN l ELSE pc[<<c, "hard">>])
      /\ pc'[<<c, "task">>] = (IF v = "task" THEN l ELSE pc[<<c, "task">>])
  BY <1>0, <1>3, LevelIsContext DEF Levels
<1>7. CASE v = "soft"
  <2>1. drv = "bh"
    BY <1>0, <1>7, RunsAlone
       DEF IInv, TypeInv, PlaceInv, NestInv, MaskInv, IrqsInv, SavedInv, Masked, Inside, Levels
  <2>2. PlaceInv'
    BY <1>0, <1>3, <1>7, <2>1, LevelIsContext DEF IInv, TypeInv, PlaceInv, Levels
  <2>3. NestInv'
    BY <1>0, <1>3, <1>7, <2>1, LevelIsContext DEF IInv, NestInv, Masked, Inside, Levels
  <2>4. IrqsInv'
    <3>1. c \in irqs' <=> /\ pc'[<<c, "hard">>] = "off"
                         /\ ~(drv = "irqsave" /\ pc'[<<c, "task">>] \in Masked)
      BY <1>0, <1>5, <1>7, <2>1 DEF IInv, MaskInv, IrqsInv, Masked, Inside
    <3> QED BY <1>4, <3>1 DEF IInv, MaskInv, IrqsInv
  <2>5. SavedInv'
    BY <1>0, <1>3, <1>7, <2>1
       DEF IInv, TypeInv, MaskInv, SavedInv, Masked, Inside, Levels
  <2> QED BY <1>1, <1>2, <2>2, <2>3, <2>4, <2>5 DEF IInv, MaskInv
<1>8. CASE v = "hard"
  <2>1. drv # "plain" /\ (drv = "irqsave" => pc[<<c, "task">>] \notin Masked)
    BY <1>0, <1>8, RunsAlone
       DEF IInv, TypeInv, PlaceInv, NestInv, MaskInv, IrqsInv, SavedInv, Masked, Inside, Levels
  <2>2. PlaceInv'
    BY <1>0, <1>3, <1>8, <2>1, LevelIsContext DEF IInv, TypeInv, PlaceInv, Levels
  <2>3. NestInv'
    BY <1>0, <1>3, <1>8, <2>1, LevelIsContext DEF IInv, NestInv, Masked, Inside, Levels
  <2>4. IrqsInv'
    <3>1. c \in irqs' <=> /\ pc'[<<c, "hard">>] = "off"
                         /\ ~(drv = "irqsave" /\ pc'[<<c, "task">>] \in Masked)
      BY <1>0, <1>5, <1>8, <2>1 DEF IInv, MaskInv, IrqsInv, Masked, Inside
    <3> QED BY <1>4, <3>1 DEF IInv, MaskInv, IrqsInv
  <2>5. SavedInv'
    BY <1>0, <1>3, <1>8, <2>1
       DEF IInv, TypeInv, MaskInv, SavedInv, Masked, Inside, Levels
  <2> QED BY <1>1, <1>2, <2>2, <2>3, <2>4, <2>5 DEF IInv, MaskInv
<1>9. v # "task"
  BY <1>0 DEF IInv, PlaceInv, Levels
<1> QED BY <1>7, <1>8, <1>9 DEF Levels

\* The handler that only schedules the tasklet masks and takes nothing.
LEMMA TopIInv ==
  ASSUME IInv, NEW c \in Cpus, NEW v \in Levels, Top(<<c, v>>), drv' = drv
  PROVE  IInv'
<1> DEFINE x == <<c, v>>
           l == "ret"
<1> USE DEF Top
<1>0. x \in Contexts /\ x[1] = c /\ x[2] = v
  BY LevelIsContext
<1>1. TypeInv' /\ Goto(x, l) /\ l \in Labels \ Inside
  BY <1>0 DEF IInv, TypeInv, Goto, Labels, Inside, output, masks
<1>2. LockInv' /\ LinesInv'
  BY <1>0, <1>1, OutsideMove DEF Inside, output
<1>3. \A y \in Contexts : pc'[y] = IF y = x THEN l ELSE pc[y]
  BY <1>0 DEF Goto, IInv, TypeInv
<1>4. \A d \in Cpus : d # c =>
        /\ d \in irqs' <=> d \in irqs
        /\ pc'[<<d, "hard">>] = pc[<<d, "hard">>] /\ pc'[<<d, "task">>] = pc[<<d, "task">>]
  BY <1>0, <1>3, LevelIsContext DEF Levels, masks
<1>5. pc'[<<c, "hard">>] = (IF v = "hard" THEN l ELSE pc[<<c, "hard">>])
      /\ pc'[<<c, "task">>] = (IF v = "task" THEN l ELSE pc[<<c, "task">>])
  BY <1>0, <1>3, LevelIsContext DEF Levels
<1>8. CASE v = "hard"
  <2>1. drv = "bh"
    BY <1>0, <1>8, RunsAlone
       DEF IInv, TypeInv, PlaceInv, NestInv, MaskInv, IrqsInv, SavedInv, Masked, Inside, Levels
  <2>2. PlaceInv'
    BY <1>0, <1>3, <1>8, <2>1, LevelIsContext DEF IInv, TypeInv, PlaceInv, Levels
  <2>3. NestInv'
    BY <1>0, <1>3, <1>8, <2>1, LevelIsContext DEF IInv, NestInv, Masked, Inside, Levels
  <2>4. IrqsInv'
    <3>1. c \in irqs' <=> /\ pc'[<<c, "hard">>] = "off"
                         /\ ~(drv = "irqsave" /\ pc'[<<c, "task">>] \in Masked)
      BY <1>0, <1>5, <1>8, <2>1 DEF IInv, MaskInv, IrqsInv, Masked, Inside, masks
    <3> QED BY <1>4, <3>1 DEF IInv, MaskInv, IrqsInv
  <2>5. SavedInv'
    BY <1>0, <1>3, <1>8, <2>1
       DEF IInv, TypeInv, MaskInv, SavedInv, Masked, Inside, Levels, masks
  <2> QED BY <1>1, <1>2, <2>2, <2>3, <2>4, <2>5 DEF IInv, MaskInv
<1>9. v # "task" /\ v # "soft"
  BY <1>0 DEF IInv, PlaceInv, Levels
<1> QED BY <1>8, <1>9 DEF Levels

\* The steps between spin_lock and the unlock, by whom and in whatever order
\* they come, change nothing of who is where and what is masked.
LEMMA InsideMove ==
  ASSUME IInv, NEW c \in Cpus, NEW v \in Levels, pc[<<c, v>>] \in Masked,
         NEW l \in Masked, Goto(<<c, v>>, l), UNCHANGED <<masks, sched>>, drv' = drv
  PROVE  PlaceInv' /\ NestInv' /\ MaskInv'
<1>1. \A y \in Contexts : /\ pc'[y] = IF y = <<c, v>> THEN l ELSE pc[y]
                          /\ pc[y] \in Masked <=> pc'[y] \in Masked
                          /\ pc[y] \notin Masked => pc'[y] = pc[y]
  BY LevelIsContext DEF IInv, TypeInv, Goto
<1>2. PlaceInv'
  BY <1>1, LevelIsContext DEF IInv, PlaceInv, Levels, Masked, Inside
<1>3. NestInv'
  BY <1>1, LevelIsContext DEF IInv, NestInv, Levels, Masked, Inside
<1>4. IrqsInv'
  BY <1>1, LevelIsContext DEF IInv, MaskInv, IrqsInv, Levels, Masked, Inside, masks
<1>5. SavedInv'
  BY <1>1 DEF IInv, MaskInv, SavedInv, masks
<1> QED BY <1>2, <1>3, <1>4, <1>5 DEF MaskInv

\* spin_lock succeeds only on a free lock, so the newcomer is alone inside.
LEMMA SpinIInv ==
  ASSUME IInv, NEW c \in Cpus, NEW v \in Levels, Spin(<<c, v>>), drv' = drv
  PROVE  IInv'
<1> DEFINE x == <<c, v>>
           l == "print"
<1> USE DEF Spin
<1>0. x \in Contexts
  BY LevelIsContext
<1>1. TypeInv' /\ Goto(x, l) /\ l \in Masked /\ pc[x] \in Masked
  BY <1>0, LinesAssumption, CountModAssumption
     DEF IInv, TypeInv, LinesInv, Goto, Wrapped, Labels, Masked, Inside, masks
<1>2. PlaceInv' /\ NestInv' /\ MaskInv'
  BY <1>1, InsideMove
<1>3. \A y \in Contexts : pc'[y] = IF y = x THEN l ELSE pc[y]
  BY <1>0 DEF Goto, IInv, TypeInv
<1>4. LockInv'
  BY <1>0, <1>3, NoOneAssumption DEF IInv, LockInv, Inside, Contexts, Levels
<1>5. LinesInv'
  BY <1>0, <1>3, LinesAssumption, CountModAssumption
     DEF IInv, TypeInv, LockInv, LinesInv, LinesTogether, Wrapped, Inside
<1> QED BY <1>1, <1>2, <1>4, <1>5 DEF IInv

\* A line is printed by the one context that is inside.
LEMMA PrintLineIInv ==
  ASSUME IInv, NEW c \in Cpus, NEW v \in Levels, PrintLine(<<c, v>>), drv' = drv
  PROVE  IInv'
<1> DEFINE x == <<c, v>>
           l == "inc"
<1> USE DEF PrintLine
<1>0. x \in Contexts
  BY LevelIsContext
<1>1. TypeInv' /\ Goto(x, l) /\ l \in Masked /\ pc[x] \in Masked
  BY <1>0, LinesAssumption, CountModAssumption
     DEF IInv, TypeInv, LinesInv, Goto, Wrapped, Labels, Masked, Inside, masks
<1>2. PlaceInv' /\ NestInv' /\ MaskInv'
  BY <1>1, InsideMove
<1>3. \A y \in Contexts : pc'[y] = IF y = x THEN l ELSE pc[y]
  BY <1>0 DEF Goto, IInv, TypeInv
<1>4. LockInv'
  BY <1>0, <1>3, NoOneAssumption DEF IInv, LockInv, Inside, Contexts, Levels
<1>5. LinesInv'
  BY <1>0, <1>3, LinesAssumption, CountModAssumption
     DEF IInv, TypeInv, LockInv, LinesInv, LinesTogether, Wrapped, Inside
<1> QED BY <1>1, <1>2, <1>4, <1>5 DEF IInv

\* g_count++ runs inside, after the line that showed the old value.
LEMMA IncrementIInv ==
  ASSUME IInv, NEW c \in Cpus, NEW v \in Levels, Increment(<<c, v>>), drv' = drv
  PROVE  IInv'
<1> DEFINE x == <<c, v>>
           l == IF lines[x] + 1 < Lines THEN "print" ELSE "unlock"
<1> USE DEF Increment
<1>0. x \in Contexts
  BY LevelIsContext
<1>1. TypeInv' /\ Goto(x, l) /\ l \in Masked /\ pc[x] \in Masked
  BY <1>0, LinesAssumption, CountModAssumption
     DEF IInv, TypeInv, LinesInv, Goto, Wrapped, Labels, Masked, Inside, masks
<1>2. PlaceInv' /\ NestInv' /\ MaskInv'
  BY <1>1, InsideMove
<1>3. \A y \in Contexts : pc'[y] = IF y = x THEN l ELSE pc[y]
  BY <1>0 DEF Goto, IInv, TypeInv
<1>4. LockInv'
  BY <1>0, <1>3, NoOneAssumption DEF IInv, LockInv, Inside, Contexts, Levels
<1>5. LinesInv'
  BY <1>0, <1>3, LinesAssumption, CountModAssumption
     DEF IInv, TypeInv, LockInv, LinesInv, LinesTogether, Wrapped, Inside
<1> QED BY <1>1, <1>2, <1>4, <1>5 DEF IInv

\* The unlock frees the lock after the last line.
LEMMA UnlockIInv ==
  ASSUME IInv, NEW c \in Cpus, NEW v \in Levels, Unlock(<<c, v>>), drv' = drv
  PROVE  IInv'
<1> DEFINE x == <<c, v>>
           l == "restore"
<1> USE DEF Unlock
<1>0. x \in Contexts
  BY LevelIsContext
<1>1. TypeInv' /\ Goto(x, l) /\ l \in Masked /\ pc[x] \in Masked
  BY <1>0, LinesAssumption, CountModAssumption
     DEF IInv, TypeInv, LinesInv, Goto, Wrapped, Labels, Masked, Inside, masks
<1>2. PlaceInv' /\ NestInv' /\ MaskInv'
  BY <1>1, InsideMove
<1>3. \A y \in Contexts : pc'[y] = IF y = x THEN l ELSE pc[y]
  BY <1>0 DEF Goto, IInv, TypeInv
<1>4. LockInv'
  BY <1>0, <1>3, NoOneAssumption DEF IInv, LockInv, Inside, Contexts, Levels
<1>5. LinesInv'
  BY <1>0, <1>3, LinesAssumption, CountModAssumption
     DEF IInv, TypeInv, LockInv, LinesInv, LinesTogether, Wrapped, Inside
<1> QED BY <1>1, <1>2, <1>4, <1>5 DEF IInv

-----------------------------------------------------------------------------
\* Every step keeps the invariant.
LEMMA NextIInv == IInv /\ [Next]_vars => IInv'
<1> SUFFICES ASSUME IInv, [Next]_vars PROVE IInv'
  OBVIOUS
<1>1. CASE UNCHANGED vars
  BY <1>1 DEF IInv, vars, output, masks, TypeInv, LockInv, LinesInv, LinesTogether,
              PlaceInv, NestInv, MaskInv, IrqsInv, SavedInv
<1>2. CASE Next
  <2>0. drv' = drv
    BY <1>2 DEF Next
  <2>1. ASSUME NEW c \in Cpus, Ioctl(c) \/ Interrupt(c) \/ SoftStart(c)
        PROVE  IInv'
    BY <2>0, <2>1, IoctlIInv, InterruptIInv, SoftStartIInv
  <2>2. ASSUME NEW c \in Cpus, NEW v \in Levels, Step(<<c, v>>)
        PROVE  IInv'
    BY <2>0, <2>2, LockBeginIInv, SpinIInv, PrintLineIInv, IncrementIInv,
       UnlockIInv, RestoreIInv, TopIInv, ReturnIInv DEF Step, PrintString
  <2>3. ASSUME NEW x \in Contexts, Step(x)
        PROVE  \E c \in Cpus, v \in Levels : Step(<<c, v>>)
    BY <2>3 DEF Contexts
  <2> QED BY <1>2, <2>1, <2>2, <2>3 DEF Next
<1> QED BY <1>1, <1>2

\* The strengthened invariant holds in every reachable state.
THEOREM Invariance == Spec => []IInv
BY InitIInv, NextIInv, PTL DEF Spec

\* Whatever interrupts whom, on however many CPUs, the lines and the counts of
\* one call to print_string follow one another.
THEOREM LinesStayTogether == Spec => []LinesTogether
<1>1. IInv => LinesTogether
  BY DEF IInv, LinesInv
<1> QED BY <1>1, Invariance, PTL

\* No CPU of any number waits for a lock whose holder it has interrupted.
THEOREM NoCpuWaitsForItself == Spec => []NobodySpinsOnItsCpu
<1>1. IInv => NobodySpinsOnItsCpu
  <2> SUFFICES ASSUME IInv, NEW c \in Cpus, NEW v \in Levels, NEW w \in Levels,
                      pc[<<c, v>>] = "spin", pc[<<c, w>>] \in Inside
               PROVE  FALSE
    BY ContextIsPair DEF IInv, TypeInv, LockInv, NobodySpinsOnItsCpu, Contexts
  <2> QED
    BY LevelIsContext DEF IInv, TypeInv, PlaceInv, NestInv, Masked, Inside, Levels
<1> QED BY <1>1, Invariance, PTL

\* After the last unlock interrupts and softirqs are on again, and never while
\* a handler runs.
THEOREM MasksComeBack == Spec => []MasksAreRestored
<1>1. IInv => MasksAreRestored
  <2> SUFFICES ASSUME IInv PROVE MasksAreRestored
    OBVIOUS
  <2>1. \A c \in Cpus : pc[<<c, "hard">>] # "off" => c \notin irqs
    BY DEF IInv, MaskInv, IrqsInv
  <2>2. ASSUME NEW c \in Cpus, \A l \in Levels : pc[<<c, l>>] = "off"
        PROVE  c \in irqs /\ (\A x \in bhOff : x[1] # c)
    <3>1. c \in irqs
      BY <2>2 DEF IInv, MaskInv, IrqsInv, Masked, Inside, Levels
    <3>2. ASSUME NEW x \in bhOff, x[1] = c PROVE FALSE
      <4>1. x \in Contexts /\ pc[x] \in Masked
        BY <3>2 DEF IInv, TypeInv, MaskInv, SavedInv
      <4>2. PICK d \in Cpus, l \in Levels : x = <<d, l>>
        BY <4>1 DEF Contexts
      <4> QED BY <2>2, <3>2, <4>1, <4>2 DEF Masked, Inside
    <3> QED BY <3>1, <3>2
  <2> QED BY <2>1, <2>2 DEF MasksAreRestored
<1> QED BY <1>1, Invariance, PTL

-----------------------------------------------------------------------------
(***************************************************************************)
(* The lock is given back, however many CPUs there are and however often   *)
(* keys are pressed.  FairSpec is weakly fair, which is enough there as    *)
(* the presses come to an end; here they need not, so a call that is       *)
(* interrupted again and again has to be given its CPU again (SF).  The    *)
(* states in which a context can take its step stand in place of ENABLED.  *)
(***************************************************************************)
Ready(x) == pc[x] # "off" /\ Runs(x) /\ (pc[x] = "spin" => lock = NoOne)

Moves(x) == <>[]~Ready(x) \/ []<><<Step(x) /\ UNCHANGED drv>>_vars

AllMove == \A x \in Contexts : Moves(x)

\* Strong fairness of a context's steps, guard by guard.
LEMMA FairMoves ==
  ASSUME NEW x \in Contexts
  PROVE  /\ SF_vars(Step(x) /\ UNCHANGED drv)
         /\ [](Ready(x) => ENABLED <<Step(x) /\ UNCHANGED drv>>_vars)
         => Moves(x)
BY PTL DEF Moves

HardOf(x) == <<x[1], "hard">>

\* Nothing above it is active: it can go on.
LEMMA RunsWhen ==
  ASSUME NEW x \in Contexts,
         x[2] # "hard" => pc[HardOf(x)] = "off",
         x[2] = "task" => pc[<<x[1], "soft">>] = "off"
  PROVE  Runs(x)
<1>1. CASE x[2] = "task"
  BY <1>1 DEF Runs, Above, HardOf
<1>2. CASE x[2] = "soft"
  BY <1>2 DEF Runs, Above, HardOf
<1>3. CASE x[2] = "hard"
  BY <1>3 DEF Runs, Above
<1> QED BY <1>1, <1>2, <1>3, ContextIsPair DEF Levels

\* Who is between lock and unlock is kept from its CPU only by the key
\* interrupt of the tasklet driver, which does not print.
LEMMA InsideReady ==
  ASSUME IInv, NEW x \in Contexts, pc[x] \in Inside
  PROVE  Ready(x) \/ pc[HardOf(x)] \in {"top", "ret"}
<1>1. PICK c \in Cpus, v \in Levels : x = <<c, v>>
  BY DEF Contexts
<1>2. pc[x] \in Masked /\ pc[x] # "off" /\ pc[x] # "spin"
  BY DEF Masked, Inside
<1>3. CASE v = "hard"
  <2>1. Runs(x)
    BY <1>1, <1>3, RunsWhen
  <2> QED BY <1>2, <2>1 DEF Ready
<1>4. CASE v = "soft"
  <2>1. pc[HardOf(x)] \in {"off", "top", "ret"}
    BY <1>1, <1>2, <1>4 DEF IInv, PlaceInv, HardOf
  <2>2. pc[HardOf(x)] = "off" => Runs(x)
    BY <1>1, <1>4, RunsWhen
  <2> QED BY <1>2, <2>1, <2>2 DEF Ready
<1>5. CASE v = "task"
  <2>1. drv = "bh" => pc[HardOf(x)] \in {"off", "top", "ret"}
    BY <1>1 DEF IInv, PlaceInv, HardOf
  <2>2. drv # "bh" => pc[HardOf(x)] = "off"
    BY <1>1, <1>2, <1>5 DEF IInv, TypeInv, PlaceInv, NestInv, HardOf
  <2>3. pc[<<c, "soft">>] = "off"
    BY <1>1, <1>2, <1>5 DEF IInv, PlaceInv, NestInv
  <2>4. pc[HardOf(x)] = "off" => Runs(x)
    BY <1>1, <1>5, <2>3, RunsWhen
  <2> QED BY <1>2, <2>1, <2>2, <2>4 DEF Ready
<1> QED BY <1>3, <1>4, <1>5 DEF Levels

-----------------------------------------------------------------------------
\* A call is moved by its own steps only.
LEMMA OwnSteps ==
  ASSUME IInv, [Next]_vars, NEW x \in Contexts, pc[x] # "off"
  PROVE  (pc'[x] = pc[x] /\ lines'[x] = lines[x]) \/ Step(x)
<1>1. CASE UNCHANGED vars
  BY <1>1 DEF vars, output
<1>2. ASSUME NEW c \in Cpus, Ioctl(c) \/ Interrupt(c) \/ SoftStart(c)
      PROVE  pc'[x] = pc[x] /\ lines'[x] = lines[x]
  <2>1. lines' = lines
    BY <1>2 DEF Ioctl, Interrupt, SoftStart, output
  <2>2. ASSUME NEW l, NEW v \in Levels, Goto(<<c, v>>, l), pc[<<c, v>>] = "off"
        PROVE  pc'[x] = pc[x]
    BY <2>2, LevelIsContext DEF Goto, IInv, TypeInv
  <2>3. pc'[x] = pc[x]
    BY <1>2, <2>2 DEF Ioctl, Interrupt, SoftStart, Levels
  <2> QED BY <2>1, <2>3
<1>3. ASSUME NEW y \in Contexts, Step(y), y # x
      PROVE  pc'[x] = pc[x] /\ lines'[x] = lines[x]
  <2>1. PICK l : Goto(y, l)
    BY <1>3 DEF Step, PrintString, LockBegin, Spin, PrintLine, Increment, Unlock,
                Restore, Top, Return
  <2>2. lines' = lines \/ \E n : lines' = [lines EXCEPT ![y] = n]
    BY <1>3 DEF Step, PrintString, LockBegin, Spin, PrintLine, Increment, Unlock,
                Restore, Top, Return, output
  <2> QED BY <1>3, <2>1, <2>2 DEF Goto, IInv, TypeInv
<1> QED BY <1>1, <1>2, <1>3 DEF Next

\* Where a step leads from each place between lock and unlock, and from the
\* places of the key interrupt that does not print.
At(x, l, n) == pc[x] = l /\ lines[x] = n

LEMMA StepLeads ==
  ASSUME IInv, NEW x \in Contexts, Step(x)
  PROVE  /\ pc[x] = "top" => pc'[x] = "ret"
         /\ pc[x] = "ret" => pc'[x] = "off"
         /\ pc[x] = "unlock" => pc'[x] = "restore"
         /\ pc[x] = "print" => pc'[x] = "inc" /\ lines'[x] = lines[x]
         /\ pc[x] = "inc" => \/ pc'[x] = "print" /\ lines'[x] = lines[x] + 1
                             \/ pc'[x] = "unlock"
<1> USE DEF IInv, TypeInv, Goto
<1>1. CASE LockBegin(x) \/ Spin(x) \/ Restore(x) BY <1>1 DEF LockBegin, Spin, Restore
<1>2. CASE PrintLine(x) BY <1>2 DEF PrintLine
<1>3. CASE Increment(x) BY <1>3 DEF Increment
<1>4. CASE Unlock(x) BY <1>4 DEF Unlock
<1>5. CASE Top(x) \/ Return(x) BY <1>5 DEF Top, Return
<1> QED BY <1>1, <1>2, <1>3, <1>4, <1>5 DEF Step, PrintString

-----------------------------------------------------------------------------
\* The key interrupt of the tasklet driver is through sooner or later.
LEMMA HardReturns ==
  ASSUME NEW x \in Contexts
  PROVE  []IInv /\ [][Next]_vars /\ AllMove
         => (pc[HardOf(x)] \in {"top", "ret"} ~> pc[HardOf(x)] = "off")
<1> DEFINE h == HardOf(x)
<1>0. h \in Contexts /\ h[2] = "hard"
  BY ContextIsPair, LevelIsContext DEF HardOf, Levels
<1> HIDE DEF h
<1>1. AllMove => Moves(h)
  BY <1>0 DEF AllMove
<1>2. pc[h] = "top" \/ pc[h] = "ret" => Ready(h)
  BY <1>0, RunsWhen DEF Ready
<1>3. IInv /\ [Next]_vars /\ pc[h] = "top" => (pc[h] = "top" \/ pc[h] = "ret")'
  BY <1>0, OwnSteps, StepLeads
<1>4. IInv /\ [Next]_vars /\ pc[h] = "ret" => (pc[h] = "ret" \/ pc[h] = "off")'
  BY <1>0, OwnSteps, StepLeads
<1>5. IInv /\ <<Step(h) /\ UNCHANGED drv>>_vars /\ pc[h] = "top" => (pc[h] = "ret")'
  BY <1>0, StepLeads
<1>6. IInv /\ <<Step(h) /\ UNCHANGED drv>>_vars /\ pc[h] = "ret" => (pc[h] = "off")'
  BY <1>0, StepLeads
<1>7. pc[h] \in {"top", "ret"} <=> pc[h] = "top" \/ pc[h] = "ret"
  OBVIOUS
<1>8. []IInv /\ [][Next]_vars /\ AllMove => (pc[h] \in {"top", "ret"} ~> pc[h] = "off")
  BY <1>1, <1>2, <1>3, <1>4, <1>5, <1>6, <1>7, PTL DEF Moves
<1> QED BY <1>8 DEF h

\* A call between lock and unlock is given its CPU again and again.
LEMMA InsideGoesOn ==
  ASSUME NEW x \in Contexts
  PROVE  []IInv /\ [][Next]_vars /\ AllMove
         => [](pc[x] \in Inside => <>(Ready(x) \/ ~(pc[x] \in Inside)))
<1>1. IInv => (pc[x] \in Inside => Ready(x) \/ pc[HardOf(x)] \in {"top", "ret"})
  BY InsideReady
<1>2. IInv => (pc[x] \in Inside /\ pc[HardOf(x)] = "off" => Ready(x))
  BY InsideReady
<1> QED BY <1>1, <1>2, HardReturns, PTL

\* The lines of a call, one by one.
PrintAdvances(x, n) == At(x, "print", n) ~> At(x, "inc", n)
IncAdvances(x, n) == At(x, "inc", n) ~> At(x, "print", n + 1) \/ pc[x] = "unlock"

LEMMA Prints ==
  ASSUME NEW x \in Contexts, NEW n \in 0..4
  PROVE  []IInv /\ [][Next]_vars /\ AllMove => PrintAdvances(x, n)
<1>1. AllMove => Moves(x)
  BY DEF AllMove
<1>2. At(x, "print", n) => pc[x] \in Inside
  BY DEF At, Inside
<1>3. IInv /\ [Next]_vars /\ At(x, "print", n) => At(x, "print", n)' \/ At(x, "inc", n)'
  BY OwnSteps, StepLeads DEF At
<1>4. IInv /\ <<Step(x) /\ UNCHANGED drv>>_vars /\ At(x, "print", n) => At(x, "inc", n)'
  BY StepLeads DEF At
<1> QED BY <1>1, <1>2, <1>3, <1>4, InsideGoesOn, PTL DEF Moves, PrintAdvances

LEMMA Incs ==
  ASSUME NEW x \in Contexts, NEW n \in 0..4
  PROVE  []IInv /\ [][Next]_vars /\ AllMove => IncAdvances(x, n)
<1>1. AllMove => Moves(x)
  BY DEF AllMove
<1>2. At(x, "inc", n) => pc[x] \in Inside
  BY DEF At, Inside
<1>3. IInv /\ [Next]_vars /\ At(x, "inc", n)
      => At(x, "inc", n)' \/ At(x, "print", n + 1)' \/ (pc[x] = "unlock")'
  BY OwnSteps, StepLeads DEF At
<1>4. IInv /\ <<Step(x) /\ UNCHANGED drv>>_vars /\ At(x, "inc", n)
      => At(x, "print", n + 1)' \/ (pc[x] = "unlock")'
  BY StepLeads DEF At
<1> QED BY <1>1, <1>2, <1>3, <1>4, InsideGoesOn, PTL DEF Moves, IncAdvances

LEMMA Unlocks ==
  ASSUME NEW x \in Contexts
  PROVE  []IInv /\ [][Next]_vars /\ AllMove => (pc[x] = "unlock" ~> pc[x] = "restore")
<1>1. AllMove => Moves(x)
  BY DEF AllMove
<1>2. pc[x] = "unlock" => pc[x] \in Inside
  BY DEF Inside
<1>3. IInv /\ [Next]_vars /\ pc[x] = "unlock" => (pc[x] = "unlock" \/ pc[x] = "restore")'
  BY OwnSteps, StepLeads
<1>4. IInv /\ <<Step(x) /\ UNCHANGED drv>>_vars /\ pc[x] = "unlock" => (pc[x] = "restore")'
  BY StepLeads
<1> QED BY <1>1, <1>2, <1>3, <1>4, InsideGoesOn, PTL DEF Moves

\* Whoever has the lock gives it back: the lines of its call come to an end -
\* the demos print three or five, and what is proved goes that far - and then
\* it unlocks.
THEOREM LockComesBack ==
  ASSUME Lines <= 5
  PROVE  Spec /\ AllMove => LockIsReleased
<1> DEFINE Live == []IInv /\ [][Next]_vars /\ AllMove
<1>1. Spec => []IInv /\ [][Next]_vars
  BY Invariance, PTL DEF Spec
<1>2. ASSUME NEW x \in Contexts PROVE Live => (lock = x ~> lock # x)
  <2>1. /\ Live => PrintAdvances(x, 0) /\ IncAdvances(x, 0)
        /\ Live => PrintAdvances(x, 1) /\ IncAdvances(x, 1)
        /\ Live => PrintAdvances(x, 2) /\ IncAdvances(x, 2)
        /\ Live => PrintAdvances(x, 3) /\ IncAdvances(x, 3)
        /\ Live => PrintAdvances(x, 4) /\ IncAdvances(x, 4)
    <3> HIDE DEF Live
    <3>1. \A n \in 0..4 : Live => PrintAdvances(x, n) /\ IncAdvances(x, n)
      BY Prints, Incs DEF Live
    <3> QED BY <3>1
  <2>2. /\ 0 + 1 = 1 /\ 1 + 1 = 2 /\ 2 + 1 = 3 /\ 3 + 1 = 4 /\ 4 + 1 = 5
    OBVIOUS
  <2>3. /\ At(x, "print", 0 + 1) => At(x, "print", 1)
        /\ At(x, "print", 1 + 1) => At(x, "print", 2)
        /\ At(x, "print", 2 + 1) => At(x, "print", 3)
        /\ At(x, "print", 3 + 1) => At(x, "print", 4)
    BY <2>2
  <2>4. IInv => ~At(x, "print", 4 + 1)
    BY LinesAssumption DEF IInv, LinesInv, At
  <2>5. IInv => (lock = x =>
          \/ At(x, "print", 0) \/ At(x, "inc", 0)
          \/ At(x, "print", 1) \/ At(x, "inc", 1)
          \/ At(x, "print", 2) \/ At(x, "inc", 2)
          \/ At(x, "print", 3) \/ At(x, "inc", 3)
          \/ At(x, "print", 4) \/ At(x, "inc", 4)
          \/ pc[x] = "unlock")
    <3> SUFFICES ASSUME IInv, lock = x, pc[x] # "unlock"
                 PROVE  pc[x] \in {"print", "inc"} /\ lines[x] \in {0, 1, 2, 3, 4}
      BY DEF At
    <3>1. pc[x] \in {"print", "inc"}
      BY DEF IInv, LockInv, Inside
    <3>2. lines[x] \in 0..Lines /\ lines[x] < Lines
      BY <3>1 DEF IInv, TypeInv, LinesInv
    <3> QED BY <3>1, <3>2, LinesAssumption
  <2>6. IInv => (pc[x] = "restore" => lock # x)
    BY DEF IInv, LockInv, Inside
  <2> QED BY <2>1, <2>3, <2>4, <2>5, <2>6, Unlocks, PTL DEF PrintAdvances, IncAdvances
<1>3. Spec /\ AllMove => \A x \in Contexts : lock = x ~> lock # x
  <2>1. ASSUME NEW x \in Contexts PROVE Spec /\ AllMove => (lock = x ~> lock # x)
    BY <1>1, <1>2, PTL
  <2> QED BY <2>1
<1> QED BY <1>3 DEF LockIsReleased
=============================================================================
