----------------------------- MODULE DriverLife -----------------------------
(***************************************************************************)
(* How a module of this repository comes and goes.  Its init function      *)
(* acquires resources one after the other and, where a step fails, gives   *)
(* back some of them; its exit function releases resources in an order of  *)
(* its own.  Meanwhile its entry points are used: programs open its device *)
(* nodes, interrupts arrive, timers, tasklets and work items run and set   *)
(* one another going.                                                      *)
(*                                                                         *)
(* The steps are the kernel's; the ORDER and the error paths are the       *)
(* driver's.  Table gives them for each driver (module DriverTables):      *)
(*   init   sequence of [get, onfail, undo]: what the step acquires, what  *)
(*          a failure leads to and what is released first.  onfail is      *)
(*          "return" (a negative result: the module is not loaded),        *)
(*          "zero" (the error path, with ret still 0: it is loaded),       *)
(*          "skip" (init goes on), "oops" (init goes on with the NULL it   *)
(*          got and dereferences it) or "never" (the step cannot fail: it  *)
(*          initialises a lock, a wait queue, a timer, a tasklet)          *)
(*   exit   sequence of resources, in the order of their release           *)
(*   nodes  resources that a program can open                              *)
(*   live   resources the kernel calls into: interrupts, /proc entries     *)
(*   starts pairs <<a, b>>: when a runs it schedules b (an interrupt its   *)
(*          tasklet, a timer itself)                                       *)
(*   armed  items already scheduled by the step that acquires them         *)
(*   uses   pairs <<e, r>>: code entered through e uses resource r         *)
(*   owned  whether the file operations name their module, so that it      *)
(*          cannot be unloaded while a file is open                        *)
(*   known  what the driver is known to do wrong: the properties below say *)
(*          so of every other driver, and of this one in every other case  *)
(***************************************************************************)
EXTENDS Integers, Sequences

CONSTANTS Drivers,  \* names of the drivers looked at
          Table     \* what each of them does

Step == [get : STRING, undo : Seq(STRING),
         onfail : {"return", "zero", "skip", "oops", "never"}]

ASSUME TableAssumption ==
  \A d \in Drivers : Table[d].init \in Seq(Step) /\ Table[d].exit \in Seq(STRING)

VARIABLES
  drv,      \* the driver; never changes
  phase,    \* "init", "undo", "in", "exit", and the ends: "failed", "gone", "oops"
  step,     \* the step init is at, or failed at
  pos,      \* how far "undo" or "exit" has come in its list
  held,     \* resources acquired and not released
  pending,  \* timers, tasklets and work items that are scheduled
  opened    \* nodes that a program has open

vars == <<drv, phase, step, pos, held, pending, opened>>

T == Table[drv]

Nothing == "nothing"  \* what a step acquires that acquires nothing

Init ==
  /\ drv \in Drivers
  /\ phase = "init" /\ step = 1 /\ pos = 1
  /\ held = {} /\ pending = {} /\ opened = {}

\* The next step of init succeeds ...
Acquire ==
  /\ phase = "init" /\ step <= Len(T.init)
  /\ held' = held \cup ({T.init[step].get} \ {Nothing})
  /\ pending' = pending \cup ({T.init[step].get} \cap T.armed)
  /\ step' = step + 1
  /\ UNCHANGED <<phase, pos, opened>>

\* ... or fails.
Fail ==
  /\ phase = "init" /\ step <= Len(T.init)
  /\ T.init[step].onfail # "never"
  /\ phase' = "undo" /\ pos' = 1
  /\ UNCHANGED <<step, held, pending, opened>>

InitReturns ==
  /\ phase = "init" /\ step > Len(T.init)
  /\ phase' = "in"
  /\ UNCHANGED <<step, pos, held, pending, opened>>

\* The list that is being released.
Todo == IF phase = "undo" THEN T.init[step].undo ELSE T.exit

\* free_irq, tasklet_kill, del_timer_sync, misc_deregister, kfree, ...: the
\* resource is gone, and if it was scheduled it no longer is.
Release ==
  /\ phase \in {"undo", "exit"} /\ pos <= Len(Todo)
  /\ held' = held \ {Todo[pos]}
  /\ pending' = pending \ {Todo[pos]}
  /\ pos' = pos + 1
  /\ UNCHANGED <<phase, step, opened>>

\* What comes of a failure.  A module whose init has returned 0 is loaded,
\* whatever it undid.
Outcome == [return |-> "failed", zero |-> "in", skip |-> "init", oops |-> "oops"]

UndoReturns ==
  /\ phase = "undo" /\ pos > Len(Todo)
  /\ phase' = Outcome[T.init[step].onfail]
  /\ step' = IF phase' = "init" THEN step + 1 ELSE step
  /\ UNCHANGED <<pos, held, pending, opened>>

Rmmod ==
  /\ phase = "in"
  /\ T.owned => opened = {}
  /\ phase' = "exit" /\ pos' = 1
  /\ UNCHANGED <<step, held, pending, opened>>

ExitReturns ==
  /\ phase = "exit" /\ pos > Len(Todo)
  /\ phase' = "gone"
  /\ UNCHANGED <<step, pos, held, pending, opened>>

\* A node can be opened from the moment it is there - init need not have
\* returned - until it is removed or, if the module is named, until exit.
Open(n) ==
  /\ n \in held
  /\ phase \in {"init", "undo", "in"} \/ ~T.owned
  /\ opened' = opened \cup {n}
  /\ UNCHANGED <<phase, step, pos, held, pending>>

Close(n) ==
  /\ n \in opened
  /\ opened' = opened \ {n}
  /\ UNCHANGED <<phase, step, pos, held, pending>>

Started(e) == {s[2] : s \in {t \in T.starts : t[1] = e}}

\* The kernel calls in: an interrupt arrives.
Interrupt(e) ==
  /\ e \in held
  /\ pending' = pending \cup Started(e)
  /\ UNCHANGED <<phase, step, pos, held, opened>>

\* A scheduled item runs, and may schedule others or itself.
Run(e) ==
  /\ e \in pending
  /\ pending' = (pending \ {e}) \cup Started(e)
  /\ UNCHANGED <<phase, step, pos, held, opened>>

Module == \/ Acquire \/ Fail \/ InitReturns
          \/ Release \/ UndoReturns \/ Rmmod \/ ExitReturns

World == \/ \E n \in T.nodes : Open(n) \/ Close(n)
         \/ \E e \in T.live : Interrupt(e)
         \/ \E e \in pending : Run(e)

Next == (Module \/ World) /\ UNCHANGED drv

Spec == Init /\ [][Next]_vars

-----------------------------------------------------------------------------
\* What init initialised without allocating anything need not be given back.
Initialised(t) == {t.init[i].get : i \in {j \in DOMAIN t.init : t.init[j].onfail = "never"}}

Leftover == held \ Initialised(T)

\* What can be entered now: what is scheduled, what the kernel calls, the
\* nodes that somebody has open.
Entered == pending \cup (T.live \cap held) \cup opened

\* init has returned 0 from the middle of its error path.
HalfLoaded == phase \in {"in", "exit", "gone"} /\ step <= Len(T.init)

Known(what) == what \in T.known

\* A driver whose init has failed has given back what it had acquired, one
\* that has been unloaded all it had.
NothingIsLeft ==
  /\ phase = "failed" /\ ~Known("leaks when failed") => Leftover = {}
  /\ phase = "gone" /\ ~HalfLoaded => Leftover = {}

\* When its code is gone none of it is scheduled and no interrupt leads there.
NothingRunsAfterwards ==
  /\ phase = "failed" /\ ~Known("pending when failed") => pending = {}
  /\ phase = "gone" /\ ~HalfLoaded /\ ~Known("pending when gone") => pending = {}
  /\ phase = "gone" /\ ~HalfLoaded => T.live \cap held = {}
  /\ phase = "failed" /\ ~Known("leaks when failed") => T.live \cap held = {}

\* When its code is gone no program has one of its nodes open.
NobodyIsStranded ==
  /\ phase = "failed" /\ ~Known("undone while open") => opened = {}
  /\ phase = "gone" /\ ~HalfLoaded /\ ~Known("open when gone") => opened = {}

\* Only what is held is released: no double kfree, no free_irq of an interrupt
\* that was never requested.
ReleasesOnlyHeld ==
  phase \in {"undo", "exit"} /\ pos <= Len(Todo) /\ ~HalfLoaded /\ ~Known("frees unheld")
  => Todo[pos] \in held

\* Code that can be entered finds what it uses initialised and allocated,
\* while the driver is loading and from then until it has gone.
Backed == \A u \in T.uses : u[1] \in Entered => u[2] \in held

EntryPointsAreBacked ==
  /\ phase \in {"init", "undo"} /\ ~Known("entered too early") => Backed
  /\ phase \in {"in", "exit", "gone"} /\ ~HalfLoaded /\ ~Known("entered too late") => Backed

\* src/locks/mutex/kbuf.c:173-179: init allocates the memory of every device
\* and registers it.  So a driver that is loaded has all it asked for,
LoadedHoldsAll ==
  phase = "in" => \A i \in DOMAIN T.init : T.init[i].onfail # "skip" =>
                     T.init[i].get \in held \cup {Nothing}

\* unless it is one of those that return 0 from their error path.
LoadsAllOrNothing == Known("loads half") \/ LoadedHoldsAll

-----------------------------------------------------------------------------
\* What can be scheduled at all.
Schedulable(t) == t.armed \cup {s[2] : s \in t.starts}

\* Each thing that steps before the i-th acquire is in the list, unless it was
\* only initialised.
Names(t, i, list) ==
  \A j \in DOMAIN t.init :
    j < i => \/ t.init[j].get \in Initialised(t)
             \/ t.init[j].get = Nothing
             \/ \E k \in DOMAIN list : list[k] = t.init[j].get

\* What schedules comes before what it schedules.
Orderly(t, list) ==
  /\ \A b \in Schedulable(t) : \E k \in DOMAIN list : list[k] = b
  /\ \A s \in t.starts : \A k \in DOMAIN list :
       list[k] = s[1] => \E m \in DOMAIN list : k <= m /\ list[m] = s[2]

\* The rules, for every list of a driver except those it is known not to have
\* right: all that was acquired is released, and what schedules goes first.
Undoes(t) == \A i \in DOMAIN t.init : t.init[i].onfail = "return" => Names(t, i, t.init[i].undo)
Stops(t) == \A i \in DOMAIN t.init : t.init[i].onfail = "return" => Orderly(t, t.init[i].undo)

FirstRule(t) ==
  /\ "leaks when failed" \in t.known \/ Undoes(t)
  /\ Names(t, Len(t.init) + 1, t.exit)

SecondRule(t) ==
  /\ "pending when failed" \in t.known \/ Schedulable(t) = {} \/ (Undoes(t) /\ Stops(t))
  /\ "pending when gone" \in t.known \/ Orderly(t, t.exit)
  /\ t.live \cap Initialised(t) = {}
  /\ \A s \in t.starts : s[1] \in t.live \cup Schedulable(t)

\* What the steps before the i-th have acquired when init gets there.  A step
\* that may be skipped may have acquired nothing.
Acquired(t, i) ==
  {t.init[j].get : j \in {n \in DOMAIN t.init : n < i /\ t.init[n].onfail # "skip"}} \ {Nothing}

\* A step that init can do without undoes nothing when it fails.
SkipsUndoNothing(t) ==
  \A i \in DOMAIN t.init : t.init[i].onfail = "skip" => DOMAIN t.init[i].undo = {}

\* The lists by the step at which they begin: exit comes after the last one.
Stages(t) == 1..(Len(t.init) + 1)
Back(t, i) == IF i \in DOMAIN t.init THEN t.init[i].undo ELSE t.exit

\* Each list releases what has certainly been acquired, and no thing twice.
ThirdRule(t) ==
  \/ "frees unheld" \in t.known
  \/ /\ SkipsUndoNothing(t)
     /\ \A i \in Stages(t) : \A k \in DOMAIN Back(t, i) :
          /\ Back(t, i)[k] \in Acquired(t, i)
          /\ \A m \in DOMAIN Back(t, i) : Back(t, i)[m] = Back(t, i)[k] => m = k

\* Once the steps before the i-th are done e may be entered: it is there to
\* be opened or called, or something that is there may schedule it.
MayEnter(t, i, e) ==
  \E j \in DOMAIN t.init : j < i /\
    \/ t.init[j].get = e /\ e \in t.nodes \cup t.live
    \/ t.init[j].get \in t.live \cup t.armed /\ e \in Schedulable(t)

\* What may be entered finds all it uses acquired,
Ready(t, i) == \A u \in t.uses : MayEnter(t, i, u[1]) => u[2] \in Acquired(t, i)

\* and it is released after the last way in: no node is open in an exit that
\* waits for its files, an interrupt has been freed, and what is scheduled
\* has been stopped after all that schedules it.
Outlasts(t, i) ==
  \A u \in t.uses, k \in DOMAIN Back(t, i) :
    Back(t, i)[k] = u[2] /\ MayEnter(t, i, u[1]) =>
      /\ u[1] \in t.nodes => t.owned /\ i > Len(t.init)
      /\ u[1] \in t.live => \E m \in DOMAIN Back(t, i) : m <= k /\ Back(t, i)[m] = u[1]
      /\ u[1] \in Schedulable(t) =>
           /\ Names(t, i, Back(t, i)) /\ Orderly(t, Back(t, i))
           /\ \A m \in DOMAIN Back(t, i) : Back(t, i)[m] = u[1] => m <= k

FourthRule(t) ==
  /\ \/ "entered too early" \in t.known
     \/ /\ SkipsUndoNothing(t)
        /\ \A i \in Stages(t) : Ready(t, i)
        /\ \A i \in DOMAIN t.init : Outlasts(t, i)
  /\ \/ "entered too late" \in t.known
     \/ /\ SkipsUndoNothing(t)
        /\ Ready(t, Len(t.init) + 1) /\ Outlasts(t, Len(t.init) + 1)

\* No failure is reported as success.
FifthRule(t) ==
  \/ "loads half" \in t.known
  \/ SkipsUndoNothing(t) /\ \A i \in DOMAIN t.init : t.init[i].onfail # "zero"

\* The nodes come last, and the file operations name their module.
SixthRule(t) ==
  /\ \/ "undone while open" \in t.known
     \/ \A i, j \in DOMAIN t.init :
          j < i /\ t.init[i].onfail = "return" => t.init[j].get \notin t.nodes
  /\ "open when gone" \in t.known \/ t.owned \/ t.nodes = {}

Rules(t) == FirstRule(t) /\ SecondRule(t) /\ ThirdRule(t) /\ FourthRule(t) /\ FifthRule(t) /\ SixthRule(t)

\* The drivers keep the rules, and what each is known to do wrong is exact:
\* without any one of its exceptions it would break a rule, so that a driver
\* that is repaired, or was excused too freely, does not keep its excuse.
\* That the rules are enough for each of the properties above is proved in
\* module DriverLifeProofs.
KeepsTheRules == Rules(T) /\ \A k \in T.known : ~Rules([T EXCEPT !.known = @ \ {k}])

=============================================================================
