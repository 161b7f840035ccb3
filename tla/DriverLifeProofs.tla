-------------------------- MODULE DriverLifeProofs --------------------------
(***************************************************************************)
(* The rules of module DriverLife are enough, whatever the driver: each    *)
(* theorem draws one property of the runs from the rules it needs.         *)
(*                                                                         *)
(* That nothing is left at the end is not inductive.  The invariant says   *)
(* where what is left is going: all that is still held, and all that is    *)
(* scheduled, is still to come in the list that is being released.  What   *)
(* may be entered is stated the other way round: what init has acquired    *)
(* is held or has been released, and what has been released is used by     *)
(* nothing that can still be entered.                                      *)
(***************************************************************************)
EXTENDS DriverLife, TLAPS

-----------------------------------------------------------------------------
\* The list still to be released names r.
ToCome(r) == \E k \in DOMAIN Todo : pos <= k /\ Todo[k] = r

TypeInv ==
  /\ drv \in Drivers
  /\ phase \in {"init", "undo", "in", "exit", "failed", "gone", "oops"}
  /\ step \in Nat \ {0} /\ pos \in Nat \ {0} /\ step <= Len(T.init) + 1
  /\ phase = "undo" => step <= Len(T.init) /\ T.init[step].onfail # "never"

\* Everything held comes from a step that has been taken.
HeldInv ==
  \A r \in held : r # Nothing /\ \E j \in DOMAIN T.init : j < step /\ T.init[j].get = r

Returning == phase = "undo" /\ T.init[step].onfail = "return"
Undoing == phase = "undo" /\ Names(T, step, Todo)
Leaving == phase = "exit" /\ ~HalfLoaded

LeftInv ==
  /\ Undoing => \A r \in Leftover : ToCome(r)
  /\ phase = "failed" /\ Undoes(T) => Leftover = {}
  /\ Leaving => \A r \in Leftover : ToCome(r)
  /\ phase = "gone" /\ ~HalfLoaded => Leftover = {}

RunInv ==
  /\ pending \subseteq Schedulable(T)
  /\ Undoing /\ Orderly(T, Todo) => \A e \in pending : ToCome(e)
  /\ phase = "failed" /\ Undoes(T) /\ Stops(T) => pending = {}
  /\ Leaving /\ Orderly(T, T.exit) => \A e \in pending : ToCome(e)
  /\ phase = "gone" /\ ~HalfLoaded /\ Orderly(T, T.exit) => pending = {}

\* The lists are sequences.
LEMMA Lists ==
  ASSUME TypeInv
  PROVE  /\ T.init \in Seq(Step) /\ T.exit \in Seq(STRING)
         /\ Len(T.init) \in Nat /\ DOMAIN T.init = 1..Len(T.init)
         /\ \A i \in DOMAIN T.init : T.init[i] \in Step
         /\ (phase \in {"undo", "exit"} =>
               Todo \in Seq(STRING) /\ Len(Todo) \in Nat /\ DOMAIN Todo = 1..Len(Todo))
<1>1. T.init \in Seq(Step) /\ T.exit \in Seq(STRING)
  BY TableAssumption DEF TypeInv, T
<1>2. Len(T.init) \in Nat /\ DOMAIN T.init = 1..Len(T.init)
  BY <1>1
<1>3. \A i \in DOMAIN T.init : T.init[i] \in Step
  BY <1>1
<1>4. phase = "undo" => T.init[step].undo \in Seq(STRING)
  BY <1>2, <1>3 DEF TypeInv, Step
<1> QED BY <1>1, <1>2, <1>3, <1>4 DEF Todo

\* Every step keeps the types.
LEMMA TypeStep == TypeInv /\ [Next]_vars => TypeInv'
<1> SUFFICES ASSUME TypeInv, [Next]_vars PROVE TypeInv'
  OBVIOUS
<1>1. CASE UNCHANGED vars
  BY <1>1 DEF TypeInv, vars, T
<1>2. CASE Next
  <2> USE <1>2 DEF TypeInv, T
  <2>0. drv' = drv
    BY DEF Next
  <2>1. CASE Acquire
    BY <2>0, <2>1, Lists DEF Acquire
  <2>2. CASE Fail
    BY <2>0, <2>2 DEF Fail
  <2>3. CASE InitReturns
    BY <2>0, <2>3 DEF InitReturns
  <2>4. CASE Release
    BY <2>0, <2>4 DEF Release
  <2>5. CASE UndoReturns
    <3>1. T.init[step].onfail \in {"return", "zero", "skip", "oops"}
      BY Lists, <2>5 DEF UndoReturns, Step
    <3>2. phase' \in {"failed", "in", "init", "oops"}
      BY <2>5, <3>1 DEF UndoReturns, Outcome
    <3>3. step' \in Nat \ {0} /\ pos' \in Nat \ {0} /\ step' <= Len(T.init) + 1
      BY <2>5, Lists DEF UndoReturns
    <3> QED BY <2>0, <3>2, <3>3
  <2>6. CASE Rmmod
    BY <2>0, <2>6 DEF Rmmod
  <2>7. CASE ExitReturns
    BY <2>0, <2>7 DEF ExitReturns
  <2>8. CASE World
    BY <2>0, <2>8 DEF World, Open, Close, Interrupt, Run
  <2> QED BY <1>2, <2>1, <2>2, <2>3, <2>4, <2>5, <2>6, <2>7, <2>8 DEF Next, Module
<1> QED BY <1>1, <1>2

\* The driver stays, and with it its lists.
LEMMA SameDriver ==
  ASSUME [Next]_vars
  PROVE  drv' = drv /\ T' = T
BY DEF Next, vars, T

\* What is held was acquired by a step of init that has been taken.
LEMMA HeldStep == TypeInv /\ HeldInv /\ [Next]_vars => HeldInv'
<1> SUFFICES ASSUME TypeInv, HeldInv, [Next]_vars PROVE HeldInv'
  OBVIOUS
<1>0. T' = T
  BY SameDriver
<1>1. CASE held' \subseteq held /\ step' \in {step, step + 1}
  BY <1>0, <1>1, Lists DEF HeldInv, TypeInv
<1>2. CASE Acquire
  <2>1. step \in DOMAIN T.init /\ step' = step + 1
    BY <1>2, Lists DEF Acquire, TypeInv
  <2>2. held' = held \cup ({T.init[step].get} \ {Nothing})
    BY <1>2 DEF Acquire
  <2> QED BY <1>0, <2>1, <2>2, Lists DEF HeldInv, TypeInv
<1>3. CASE UNCHANGED vars
  BY <1>1, <1>3 DEF vars
<1>4. CASE Release
  BY <1>1, <1>4 DEF Release
<1>5. CASE World
  BY <1>1, <1>5 DEF World, Open, Close, Interrupt, Run
<1>6. CASE Fail \/ InitReturns \/ UndoReturns \/ Rmmod \/ ExitReturns
  BY <1>1, <1>6 DEF Fail, InitReturns, UndoReturns, Rmmod, ExitReturns
<1> QED BY <1>2, <1>3, <1>4, <1>5, <1>6 DEF Next, Module

\* A list that names what was acquired names what is left.
LEMMA NamesLeftover ==
  ASSUME TypeInv, HeldInv, NEW i \in Nat, step <= i, NEW list, Names(T, i, list),
         NEW r \in Leftover
  PROVE  \E k \in DOMAIN list : list[k] = r
<1>1. r \in held /\ r \notin Initialised(T)
  BY DEF Leftover
<1>2. PICK j \in DOMAIN T.init : j < step /\ T.init[j].get = r
  BY <1>1 DEF HeldInv
<1>3. j < i /\ r # Nothing
  BY <1>1, <1>2, Lists DEF HeldInv, TypeInv
<1> QED BY <1>1, <1>2, <1>3 DEF Names

\* What is still to come, and is not what is released now, is still to come.
LEMMA ToComeStep ==
  ASSUME TypeInv, [Next]_vars, Release, NEW r, ToCome(r), r # Todo[pos]
  PROVE  ToCome(r)'
<1>1. Todo' = Todo /\ pos' = pos + 1
  BY SameDriver DEF Release, Todo
<1>2. PICK k \in DOMAIN Todo : pos <= k /\ Todo[k] = r
  BY DEF ToCome
<1>3. k \in Nat /\ pos \in Nat /\ k # pos
  BY <1>2, Lists DEF Release, TypeInv
<1>4. pos + 1 <= k
  BY <1>2, <1>3
<1> QED BY <1>1, <1>2, <1>4 DEF ToCome

\* At the end of the list nothing is to come.
LEMMA NothingToCome ==
  ASSUME TypeInv, phase \in {"undo", "exit"}, pos > Len(Todo), NEW r
  PROVE  ~ToCome(r)
BY Lists DEF ToCome, TypeInv


-----------------------------------------------------------------------------
\* Steps that leave what is held, and where the driver is, as they are.
LEMMA LeftFrame ==
  ASSUME [Next]_vars, UNCHANGED <<phase, step, pos, held>>
  PROVE  LeftInv => LeftInv'
<1>1. T' = T /\ Todo' = Todo /\ Leftover' = Leftover
  BY SameDriver DEF Todo, Leftover
<1>2. (HalfLoaded <=> HalfLoaded') /\ (Undoing <=> Undoing') /\ (Leaving <=> Leaving')
  BY <1>1 DEF HalfLoaded, Undoing, Leaving, Names
<1>3. \A r : ToCome(r) <=> ToCome(r)'
  BY <1>1 DEF ToCome
<1> QED BY <1>1, <1>2, <1>3 DEF LeftInv

\* On the way out everything still held is still to be released.
LEMMA LeftStep ==
  ASSUME TypeInv, HeldInv, LeftInv, [Next]_vars, \A d \in Drivers : FirstRule(Table[d])
  PROVE  LeftInv'
<1>0. T' = T /\ drv' = drv
  BY SameDriver
<1>1. CASE UNCHANGED vars \/ World
  BY <1>1, LeftFrame DEF vars, World, Open, Close, Interrupt, Run
<1>2. CASE Acquire \/ InitReturns
  BY <1>2 DEF LeftInv, Acquire, InitReturns, Undoing, Leaving
<1>3. CASE Fail
  <2>1. phase' = "undo" /\ pos' = 1 /\ Todo' = T.init[step].undo /\ Leftover' = Leftover
    BY <1>0, <1>3 DEF Fail, Todo, Leftover
  <2>2. step' = step /\ step \in DOMAIN T.init /\ step \in Nat
    BY <1>3, Lists DEF Fail, TypeInv
  <2>3. ASSUME Undoing', NEW r \in Leftover PROVE ToCome(r)'
    <3>1. Names(T, step, T.init[step].undo)
      BY <1>0, <2>1, <2>2, <2>3 DEF Undoing
    <3>2. PICK k \in DOMAIN T.init[step].undo : T.init[step].undo[k] = r
      BY <2>2, <3>1, NamesLeftover
    <3>3. 1 <= k
      BY <2>2, <3>2, Lists DEF Step
    <3> QED BY <2>1, <3>2, <3>3 DEF ToCome
  <2> QED BY <1>0, <2>1, <2>3 DEF LeftInv, Leaving
<1>4. CASE Release
  <2>1. UNCHANGED <<phase, step>> /\ held' = held \ {Todo[pos]}
    BY <1>4 DEF Release
  <2>2. \A r \in Leftover' : r \in Leftover /\ r # Todo[pos]
    BY <1>0, <2>1 DEF Leftover
  <2>3. \A r \in Leftover' : ToCome(r) => ToCome(r)'
    BY <1>4, <2>2, ToComeStep
  <2>4. (Undoing' => Undoing) /\ (Leaving' => Leaving) /\ Todo' = Todo
    BY <1>0, <2>1 DEF Undoing, Leaving, HalfLoaded, Todo
  <2>5. phase' \in {"undo", "exit"}
    BY <1>4, <2>1 DEF Release
  <2> QED BY <1>0, <2>2, <2>3, <2>4, <2>5 DEF LeftInv
<1>5. CASE UndoReturns
  <2>1. T.init[step].onfail \in {"return", "zero", "skip", "oops"}
    BY <1>5, Lists DEF UndoReturns, TypeInv, Step
  <2>2. phase' \in {"failed", "in", "init", "oops"} /\ (phase' = "failed" => Returning)
    BY <1>5, <2>1 DEF UndoReturns, Outcome, Returning
  <2>3. \A r : ~ToCome(r)
    BY <1>5, NothingToCome DEF UndoReturns
  <2>4. Leftover' = Leftover
    BY <1>0, <1>5 DEF UndoReturns, Leftover
  <2>5. Returning /\ Undoes(T) => Undoing
    BY Lists DEF Returning, Undoes, Undoing, Todo, TypeInv
  <2> QED BY <1>0, <2>2, <2>3, <2>4, <2>5 DEF LeftInv, Undoing, Leaving
<1>6. CASE Rmmod
  <2>1. phase' = "exit" /\ pos' = 1 /\ Todo' = T.exit /\ Leftover' = Leftover /\ step' = step
    BY <1>0, <1>6 DEF Rmmod, Todo, Leftover
  <2>2. ASSUME Leaving', NEW r \in Leftover PROVE ToCome(r)'
    <3>1. Names(T, Len(T.init) + 1, T.exit)
      BY DEF FirstRule, T, TypeInv
    <3>2. Names(T, step, T.exit)
      BY <1>0, <2>1, <2>2, <3>1, Lists DEF Leaving, HalfLoaded, Names, TypeInv
    <3>3. PICK k \in DOMAIN T.exit : T.exit[k] = r
      BY <2>2, <3>2, NamesLeftover DEF TypeInv
    <3>4. 1 <= k
      BY <3>3, Lists
    <3> QED BY <2>1, <3>3, <3>4 DEF ToCome
  <2> QED BY <2>1, <2>2 DEF LeftInv, Undoing
<1>7. CASE ExitReturns
  <2>1. phase = "exit" /\ phase' = "gone" /\ step' = step /\ Leftover' = Leftover
    BY <1>0, <1>7 DEF ExitReturns, Leftover
  <2>2. \A r : ~ToCome(r)
    BY <1>7, NothingToCome DEF ExitReturns
  <2>3. ~HalfLoaded' => Leaving
    BY <1>0, <2>1 DEF HalfLoaded, Leaving
  <2> QED BY <2>1, <2>2, <2>3 DEF LeftInv, Undoing, Leaving
<1> QED BY <1>1, <1>2, <1>3, <1>4, <1>5, <1>6, <1>7 DEF Next, Module

-----------------------------------------------------------------------------
\* What is held and called by the kernel is still to come, where all that is
\* left is.
LEMMA LiveToCome ==
  ASSUME TypeInv, SecondRule(T), NEW e \in T.live \cap held,
         \A r \in Leftover : ToCome(r)
  PROVE  ToCome(e)
BY DEF SecondRule, Leftover

\* What an orderly list still has to come includes what can be started.
LEMMA StartedToCome ==
  ASSUME TypeInv, phase \in {"undo", "exit"}, Orderly(T, Todo),
         NEW e, ToCome(e), NEW b \in Started(e)
  PROVE  ToCome(b)
<1>1. PICK k \in DOMAIN Todo : pos <= k /\ Todo[k] = e
  BY DEF ToCome
<1>2. PICK s \in T.starts : s[1] = e /\ s[2] = b
  BY DEF Started
<1>3. PICK m \in DOMAIN Todo : k <= m /\ Todo[m] = b
  BY <1>1, <1>2 DEF Orderly
<1>4. pos <= m
  BY <1>1, <1>3, Lists DEF TypeInv
<1> QED BY <1>3, <1>4 DEF ToCome

\* On the way out everything live can still be stopped: what starts it is
\* released before it is.
LEMMA RunStep ==
  ASSUME TypeInv, HeldInv, LeftInv, RunInv, [Next]_vars,
         \A d \in Drivers : SecondRule(Table[d])
  PROVE  RunInv'
<1>0. T' = T /\ drv' = drv /\ SecondRule(T)
  BY SameDriver DEF TypeInv, T
<1>1. CASE UNCHANGED <<phase, step, pos, pending>>
  <2>1. Todo' = Todo /\ (HalfLoaded <=> HalfLoaded')
    BY <1>0, <1>1 DEF Todo, HalfLoaded
  <2>2. (Undoing <=> Undoing') /\ (Leaving <=> Leaving')
    BY <1>0, <1>1, <2>1 DEF Undoing, Leaving, Names
  <2>3. \A r : ToCome(r) <=> ToCome(r)'
    BY <1>1, <2>1 DEF ToCome
  <2> QED BY <1>0, <1>1, <2>1, <2>2, <2>3 DEF RunInv
<1>2. CASE Acquire
  <2>1. phase' = "init" /\ pending' \subseteq pending \cup T.armed
    BY <1>2 DEF Acquire
  <2> QED BY <1>0, <2>1 DEF RunInv, Undoing, Leaving, Schedulable
<1>3. CASE InitReturns
  BY <1>0, <1>3 DEF RunInv, InitReturns, Undoing, Leaving
<1>4. CASE Fail
  <2>1. phase' = "undo" /\ pos' = 1 /\ Todo' = T.init[step].undo /\ pending' = pending
    BY <1>0, <1>4 DEF Fail, Todo
  <2>2. step' = step /\ step \in DOMAIN T.init
    BY <1>4, Lists DEF Fail, TypeInv
  <2>3. ASSUME Orderly(T, Todo)', NEW e \in pending PROVE ToCome(e)'
    <3>1. Orderly(T, T.init[step].undo)
      BY <1>0, <2>1, <2>3
    <3>2. PICK k \in DOMAIN T.init[step].undo : T.init[step].undo[k] = e
      BY <2>3, <3>1 DEF Orderly, RunInv
    <3>3. 1 <= k
      BY <2>2, <3>2, Lists DEF Step
    <3> QED BY <2>1, <3>2, <3>3 DEF ToCome
  <2> QED BY <1>0, <2>1, <2>3 DEF RunInv, Leaving
<1>5. CASE Release
  <2>1. UNCHANGED <<phase, step>> /\ pending' = pending \ {Todo[pos]}
    BY <1>5 DEF Release
  <2>2. \A e \in pending' : ToCome(e) => ToCome(e)'
    BY <1>5, <2>1, ToComeStep
  <2>3. (Undoing' => Undoing) /\ (Leaving' => Leaving) /\ Todo' = Todo
    BY <1>0, <2>1 DEF Undoing, Leaving, HalfLoaded, Todo
  <2>4. phase' \in {"undo", "exit"} /\ pending' \subseteq pending
    BY <1>5, <2>1 DEF Release
  <2> QED BY <1>0, <2>2, <2>3, <2>4 DEF RunInv
<1>6. CASE UndoReturns
  <2>1. T.init[step].onfail \in {"return", "zero", "skip", "oops"}
    BY <1>6, Lists DEF UndoReturns, TypeInv, Step
  <2>2. phase' \in {"failed", "in", "init", "oops"} /\ (phase' = "failed" => Returning)
    BY <1>6, <2>1 DEF UndoReturns, Outcome, Returning
  <2>3. pending' = pending /\ \A r : ~ToCome(r)
    BY <1>6, NothingToCome DEF UndoReturns
  <2>4. Returning /\ Undoes(T) /\ Stops(T) => Undoing /\ Orderly(T, Todo)
    BY Lists DEF Returning, Undoes, Stops, Undoing, Todo, TypeInv
  <2> QED BY <1>0, <2>2, <2>3, <2>4 DEF RunInv, Undoing, Leaving
<1>7. CASE Rmmod
  <2>1. phase' = "exit" /\ pos' = 1 /\ Todo' = T.exit /\ pending' = pending
    BY <1>0, <1>7 DEF Rmmod, Todo
  <2>2. ASSUME Orderly(T, T.exit), NEW e \in pending PROVE ToCome(e)'
    <3>1. PICK k \in DOMAIN T.exit : T.exit[k] = e
      BY <2>2 DEF Orderly, RunInv
    <3>2. 1 <= k
      BY <3>1, Lists
    <3> QED BY <2>1, <3>1, <3>2 DEF ToCome
  <2> QED BY <1>0, <2>1, <2>2 DEF RunInv, Undoing
<1>8. CASE ExitReturns
  <2>1. phase = "exit" /\ phase' = "gone" /\ step' = step /\ pending' = pending
    BY <1>8 DEF ExitReturns
  <2>2. \A r : ~ToCome(r)
    BY <1>8, NothingToCome DEF ExitReturns
  <2>3. ~HalfLoaded' => Leaving
    BY <1>0, <2>1 DEF HalfLoaded, Leaving
  <2> QED BY <1>0, <2>1, <2>2, <2>3 DEF RunInv, Undoing, Leaving
<1>9. CASE World
  <2>1. UNCHANGED <<phase, step, pos, held>>
    BY <1>9 DEF World, Open, Close, Interrupt, Run
  <2>2. CASE pending' = pending
    BY <1>1, <2>1, <2>2
  <2>3. ASSUME NEW e, e \in T.live \cap held \/ e \in pending,
               pending' \subseteq pending \cup Started(e)
        PROVE  RunInv'
    <3>1. Todo' = Todo /\ (HalfLoaded <=> HalfLoaded')
      BY <1>0, <2>1 DEF Todo, HalfLoaded
    <3>2. (Undoing <=> Undoing') /\ (Leaving <=> Leaving')
      BY <1>0, <2>1, <3>1 DEF Undoing, Leaving
    <3>3. \A r : ToCome(r) <=> ToCome(r)'
      BY <2>1, <3>1 DEF ToCome
    <3>4. Started(e) \subseteq Schedulable(T)
      BY DEF Started, Schedulable
    <3>5. ASSUME Undoing, Orderly(T, Todo), NEW b \in pending' PROVE ToCome(b)'
      <4>1. Orderly(T, Todo) /\ phase = "undo"
        BY <3>5 DEF Undoing
      <4>2. ToCome(e)
        BY <1>0, <2>3, <3>5, LiveToCome DEF LeftInv, RunInv
      <4>3. ToCome(b)
        BY <2>3, <3>5, <4>1, <4>2, StartedToCome DEF RunInv
      <4> QED BY <3>3, <4>3
    <3>6. ASSUME Leaving, Orderly(T, T.exit), NEW b \in pending' PROVE ToCome(b)'
      <4>1. Orderly(T, Todo) /\ phase = "exit"
        BY <3>6 DEF Leaving, Todo
      <4>2. ToCome(e)
        BY <1>0, <2>3, <3>6, LiveToCome DEF LeftInv, RunInv
      <4>3. ToCome(b)
        BY <2>3, <3>6, <4>1, <4>2, StartedToCome DEF RunInv
      <4> QED BY <3>3, <4>3
    <3>7. Leftover = {} => T.live \cap held = {}
      BY <1>0 DEF Leftover, SecondRule
    <3>8. phase' = "failed" /\ Undoes(T) /\ Stops(T) => pending' = {}
      BY <2>1, <2>3, <3>7 DEF LeftInv, RunInv
    <3>9. phase' = "gone" /\ ~HalfLoaded /\ Orderly(T, T.exit) => pending' = {}
      BY <2>1, <2>3, <3>7 DEF LeftInv, RunInv
    <3> QED BY <1>0, <2>3, <3>1, <3>2, <3>4, <3>5, <3>6, <3>8, <3>9 DEF RunInv
  <2> QED BY <1>9, <2>2, <2>3 DEF World, Open, Close, Interrupt, Run
<1>10. CASE UNCHANGED vars
  BY <1>1, <1>10 DEF vars
<1> QED BY <1>2, <1>3, <1>4, <1>5, <1>6, <1>7, <1>8, <1>9, <1>10 DEF Next, Module

-----------------------------------------------------------------------------
\* At the start nothing is held and nothing is live.
LEMMA InitAll == Init => TypeInv /\ HeldInv /\ LeftInv /\ RunInv
BY DEF Init, TypeInv, HeldInv, LeftInv, RunInv, Undoing, Leaving

\* A driver whose lists name all it acquired leaves nothing behind, when its
\* init fails and when it is unloaded - for every driver, not only the ones
\* of module DriverTables.
THEOREM GivesAllBack ==
  ASSUME \A d \in Drivers : FirstRule(Table[d])
  PROVE  Spec => []NothingIsLeft
<1> DEFINE IInv == TypeInv /\ HeldInv /\ LeftInv
<1>1. Init => IInv
  BY InitAll
<1>2. IInv /\ [Next]_vars => IInv'
  BY TypeStep, HeldStep, LeftStep
<1>3. IInv => NothingIsLeft
  BY DEF LeftInv, NothingIsLeft, FirstRule, Known, TypeInv, T
<1> QED BY <1>1, <1>2, <1>3, PTL DEF Spec

\* If moreover its lists release what schedules before what it schedules, no
\* interrupt, timer, tasklet or work item runs in it afterwards.
THEOREM StopsInTime ==
  ASSUME \A d \in Drivers : FirstRule(Table[d]) /\ SecondRule(Table[d])
  PROVE  Spec => []NothingRunsAfterwards
<1> DEFINE IInv == TypeInv /\ HeldInv /\ LeftInv /\ RunInv
<1>1. Init => IInv
  BY InitAll
<1>2. IInv /\ [Next]_vars => IInv'
  BY TypeStep, HeldStep, LeftStep, RunStep
<1>3. IInv => NothingRunsAfterwards
  <2> SUFFICES ASSUME IInv PROVE NothingRunsAfterwards
    OBVIOUS
  <2>1. FirstRule(T) /\ SecondRule(T)
    BY DEF TypeInv, T
  <2>2. Leftover = {} => T.live \cap held = {}
    BY <2>1 DEF SecondRule, Leftover
  <2> QED
    BY <2>1, <2>2 DEF LeftInv, RunInv, NothingRunsAfterwards, FirstRule, SecondRule, Known
<1> QED BY <1>1, <1>2, <1>3, PTL DEF Spec

-----------------------------------------------------------------------------
\* The list that is being released has released r.
Released(r) == phase \in {"undo", "exit", "gone"} /\ \E k \in DOMAIN Todo : k < pos /\ Todo[k] = r

\* What init has acquired is held until the list releases it.
HaveInv ==
  phase \in {"init", "undo", "in", "exit", "gone"} /\ ~HalfLoaded /\ SkipsUndoNothing(T) =>
    \A r \in Acquired(T, step) : r \in held \/ Released(r)

ReleasedInv == \A r \in held : ~Released(r)

\* Nobody has come in but through what was there to be opened or called.
EnterInv ==
  /\ \A n \in opened : n \in T.nodes /\ \E j \in DOMAIN T.init : j < step /\ T.init[j].get = n
  /\ pending # {} => \E j \in DOMAIN T.init : j < step /\ T.init[j].get \in T.live \cup T.armed
  /\ phase \in {"exit", "gone"} /\ T.owned => opened = {}

\* How the ways out were taken.
EndInv ==
  /\ phase = "failed" => step \in DOMAIN T.init /\ T.init[step].onfail = "return"
  /\ phase = "in" /\ step <= Len(T.init) => T.init[step].onfail = "zero"

\* While init undoes, and when exit runs after a whole init, the list is that
\* of the step.
LEMMA StageList ==
  ASSUME TypeInv, phase \in {"undo", "exit", "gone"}, ~HalfLoaded
  PROVE  step \in Stages(T) /\ Todo = Back(T, step)
BY Lists DEF TypeInv, Stages, Todo, Back, HalfLoaded

\* Where nothing is released, and no step taken, nothing changes.
LEMMA HaveFrame ==
  ASSUME [Next]_vars, UNCHANGED <<phase, step, pos, held>>
  PROVE  (HaveInv => HaveInv') /\ (ReleasedInv => ReleasedInv')
<1>1. T' = T /\ Todo' = Todo
  BY SameDriver DEF Todo
<1>2. (HalfLoaded <=> HalfLoaded') /\ \A r : Released(r) <=> Released(r)'
  BY <1>1 DEF HalfLoaded, Released
<1> QED BY <1>1, <1>2 DEF HaveInv, ReleasedInv

\* A step that is not skipped has added what it acquired, a skipped one nothing.
LEMMA AcquiredNext ==
  ASSUME TypeInv, step \in DOMAIN T.init
  PROVE  /\ Acquired(T, step + 1) \subseteq Acquired(T, step) \cup ({T.init[step].get} \ {Nothing})
         /\ T.init[step].onfail = "skip" => Acquired(T, step + 1) = Acquired(T, step)
<1>1. \A n \in DOMAIN T.init : n < step + 1 <=> n < step \/ n = step
  BY Lists DEF TypeInv
<1> QED BY <1>1 DEF Acquired

LEMMA HaveStep == TypeInv /\ HaveInv /\ [Next]_vars => HaveInv'
<1> SUFFICES ASSUME TypeInv, HaveInv, [Next]_vars PROVE HaveInv'
  OBVIOUS
<1>0. T' = T
  BY SameDriver
<1>1. CASE UNCHANGED vars \/ World
  BY <1>1, HaveFrame DEF vars, World, Open, Close, Interrupt, Run
<1>2. CASE Acquire
  <2>1. step \in DOMAIN T.init /\ step' = step + 1 /\ phase = "init" /\ phase' = "init"
    BY <1>2, Lists DEF Acquire, TypeInv
  <2>2. held' = held \cup ({T.init[step].get} \ {Nothing})
    BY <1>2 DEF Acquire
  <2>3. ~HalfLoaded /\ \A r : ~Released(r)
    BY <2>1 DEF HalfLoaded, Released
  <2> QED BY <1>0, <2>1, <2>2, <2>3, AcquiredNext DEF HaveInv
<1>3. CASE Fail \/ InitReturns \/ Rmmod
  <2>1. phase \in {"init", "in"} /\ step' = step /\ held' = held
    BY <1>3 DEF Fail, InitReturns, Rmmod
  <2>2. ~HalfLoaded' => ~HalfLoaded
    BY <1>0, <1>3 DEF HalfLoaded, Fail, InitReturns, Rmmod
  <2>3. \A r : ~Released(r)
    BY <2>1 DEF Released
  <2> QED BY <1>0, <2>1, <2>2, <2>3 DEF HaveInv
<1>4. CASE Release
  <2>1. UNCHANGED <<phase, step>> /\ pos' = pos + 1 /\ held' = held \ {Todo[pos]}
    BY <1>4 DEF Release
  <2>2. Todo' = Todo /\ (HalfLoaded' <=> HalfLoaded)
    BY <1>0, <2>1 DEF Todo, HalfLoaded
  <2>3. pos \in DOMAIN Todo /\ pos < pos + 1 /\ phase \in {"undo", "exit"}
    BY <1>4, Lists DEF Release, TypeInv
  <2>4. \A r : r = Todo[pos] => Released(r)'
    BY <2>1, <2>2, <2>3 DEF Released
  <2>5. \A k \in DOMAIN Todo : k < pos => k < pos + 1
    BY <2>3, Lists DEF TypeInv
  <2>6. \A r : Released(r) => Released(r)'
    BY <2>1, <2>2, <2>5 DEF Released
  <2> QED BY <1>0, <2>1, <2>2, <2>3, <2>4, <2>6 DEF HaveInv
<1>5. CASE UndoReturns
  <2>1. T.init[step].onfail \in {"return", "zero", "skip", "oops"} /\ step \in DOMAIN T.init
    BY <1>5, Lists DEF UndoReturns, TypeInv, Step
  <2>2. CASE T.init[step].onfail \in {"return", "oops"}
    BY <1>5, <2>2 DEF UndoReturns, Outcome, HaveInv
  <2>3. CASE T.init[step].onfail = "zero"
    <3>1. phase' = "in" /\ step' = step
      BY <1>5, <2>3 DEF UndoReturns, Outcome
    <3> QED BY <1>0, <2>1, <3>1, Lists DEF HaveInv, HalfLoaded
  <2>4. CASE T.init[step].onfail = "skip"
    <3>1. phase = "undo" /\ phase' = "init" /\ step' = step + 1 /\ held' = held
      BY <1>5, <2>4 DEF UndoReturns, Outcome
    <3>2. SkipsUndoNothing(T) => \A r : ~Released(r)
      BY <2>1, <2>4, <3>1 DEF SkipsUndoNothing, Released, Todo
    <3>3. ~HalfLoaded
      BY <3>1 DEF HalfLoaded
    <3> QED BY <1>0, <2>1, <2>4, <3>1, <3>2, <3>3, AcquiredNext DEF HaveInv
  <2> QED BY <2>1, <2>2, <2>3, <2>4
<1>6. CASE ExitReturns
  <2>1. phase = "exit" /\ phase' = "gone" /\ UNCHANGED <<step, pos, held>>
    BY <1>6 DEF ExitReturns
  <2>2. Todo' = Todo /\ (HalfLoaded' <=> HalfLoaded)
    BY <1>0, <2>1 DEF Todo, HalfLoaded
  <2>3. \A r : Released(r) => Released(r)'
    BY <2>1, <2>2 DEF Released
  <2> QED BY <1>0, <2>1, <2>2, <2>3 DEF HaveInv
<1> QED BY <1>1, <1>2, <1>3, <1>4, <1>5, <1>6 DEF Next, Module

\* What has been released is not held again.
LEMMA ReleasedStep == TypeInv /\ ReleasedInv /\ [Next]_vars => ReleasedInv'
<1> SUFFICES ASSUME TypeInv, ReleasedInv, [Next]_vars PROVE ReleasedInv'
  OBVIOUS
<1>0. T' = T
  BY SameDriver
<1>1. CASE UNCHANGED vars \/ World
  BY <1>1, HaveFrame DEF vars, World, Open, Close, Interrupt, Run
<1>2. CASE Acquire \/ InitReturns
  BY <1>2 DEF Acquire, InitReturns, ReleasedInv, Released
<1>3. CASE Fail
  <2>1. pos' = 1 /\ Todo' = T.init[step].undo /\ step \in DOMAIN T.init
    BY <1>0, <1>3, Lists DEF Fail, Todo, TypeInv
  <2>2. \A k \in DOMAIN Todo' : ~(k < pos')
    BY <2>1, Lists DEF Step
  <2> QED BY <2>2 DEF ReleasedInv, Released
<1>4. CASE Rmmod
  <2>1. pos' = 1 /\ Todo' = T.exit
    BY <1>0, <1>4 DEF Rmmod, Todo
  <2>2. \A k \in DOMAIN Todo' : ~(k < pos')
    BY <2>1, Lists
  <2> QED BY <2>2 DEF ReleasedInv, Released
<1>5. CASE Release
  <2>1. UNCHANGED <<phase, step>> /\ pos' = pos + 1 /\ held' = held \ {Todo[pos]}
    BY <1>5 DEF Release
  <2>2. Todo' = Todo
    BY <1>0, <2>1 DEF Todo
  <2>3. \A k \in DOMAIN Todo : k < pos + 1 => k < pos \/ k = pos
    BY <1>5, Lists DEF Release, TypeInv
  <2> QED BY <2>1, <2>2, <2>3 DEF ReleasedInv, Released
<1>6. CASE UndoReturns
  <2>1. phase' \in {"failed", "in", "init", "oops"}
    BY <1>6, Lists DEF UndoReturns, TypeInv, Step, Outcome
  <2> QED BY <2>1 DEF ReleasedInv, Released
<1>7. CASE ExitReturns
  <2>1. phase = "exit" /\ phase' = "gone" /\ UNCHANGED <<step, pos, held>>
    BY <1>7 DEF ExitReturns
  <2>2. Todo' = Todo
    BY <1>0, <2>1 DEF Todo
  <2> QED BY <2>1, <2>2 DEF ReleasedInv, Released
<1> QED BY <1>1, <1>2, <1>3, <1>4, <1>5, <1>6, <1>7 DEF Next, Module

\* Whoever is inside, or scheduled, came in by what was there to be entered.
LEMMA EnterStep == TypeInv /\ HeldInv /\ EnterInv /\ [Next]_vars => EnterInv'
<1> SUFFICES ASSUME TypeInv, HeldInv, EnterInv, [Next]_vars PROVE EnterInv'
  OBVIOUS
<1>0. T' = T
  BY SameDriver
<1>1. CASE UNCHANGED vars
  BY <1>0, <1>1 DEF vars, EnterInv
<1>2. CASE Acquire
  <2>1. step \in DOMAIN T.init /\ step' = step + 1 /\ phase' = "init" /\ opened' = opened
    BY <1>2, Lists DEF Acquire, TypeInv
  <2>2. \A j \in DOMAIN T.init : j < step => j < step'
    BY <2>1, Lists DEF TypeInv
  <2>3. pending' # {} => pending # {} \/ T.init[step].get \in T.armed
    BY <1>2 DEF Acquire
  <2>4. step < step'
    BY <2>1, Lists
  <2> QED BY <1>0, <2>1, <2>2, <2>3, <2>4 DEF EnterInv
<1>3. CASE Fail \/ InitReturns \/ Rmmod \/ ExitReturns
  BY <1>0, <1>3 DEF Fail, InitReturns, Rmmod, ExitReturns, EnterInv
<1>4. CASE Release
  BY <1>0, <1>4 DEF Release, EnterInv
<1>5. CASE UndoReturns
  <2>1. phase' \notin {"exit", "gone"} /\ pending' = pending /\ opened' = opened
    BY <1>5, Lists DEF UndoReturns, TypeInv, Step, Outcome
  <2>2. \A j \in DOMAIN T.init : j < step => j < step'
    BY <1>5, Lists DEF UndoReturns, TypeInv
  <2> QED BY <1>0, <2>1, <2>2 DEF EnterInv
<1>6. ASSUME NEW n \in T.nodes, Open(n) \/ Close(n) PROVE EnterInv'
  BY <1>0, <1>6 DEF Open, Close, EnterInv, HeldInv
<1>7. ASSUME NEW e \in T.live, Interrupt(e) PROVE EnterInv'
  BY <1>0, <1>7 DEF Interrupt, EnterInv, HeldInv
<1>8. ASSUME NEW e \in pending, Run(e) PROVE EnterInv'
  BY <1>0, <1>8 DEF Run, EnterInv
<1> QED BY <1>1, <1>2, <1>3, <1>4, <1>5, <1>6, <1>7, <1>8 DEF Next, Module, World

\* A module is not loaded only if a step failed that init cannot do without.
LEMMA EndStep == TypeInv /\ EndInv /\ [Next]_vars => EndInv'
<1> SUFFICES ASSUME TypeInv, EndInv, [Next]_vars PROVE EndInv'
  OBVIOUS
<1>0. T' = T
  BY SameDriver
<1>1. CASE UNCHANGED <<phase, step>>
  BY <1>0, <1>1 DEF EndInv
<1>2. CASE Acquire \/ Fail \/ InitReturns \/ Rmmod \/ ExitReturns
  BY <1>0, <1>2, Lists DEF Acquire, Fail, InitReturns, Rmmod, ExitReturns, EndInv, TypeInv
<1>3. CASE UndoReturns
  <2>1. T.init[step].onfail \in {"return", "zero", "skip", "oops"} /\ step \in DOMAIN T.init
    BY <1>3, Lists DEF UndoReturns, TypeInv, Step
  <2>2. phase' = Outcome[T.init[step].onfail] /\ (phase' # "init" => step' = step)
    BY <1>3 DEF UndoReturns
  <2> QED BY <1>0, <2>1, <2>2 DEF Outcome, EndInv
<1>4. CASE UNCHANGED vars \/ Release \/ World
  BY <1>1, <1>4 DEF vars, Release, World, Open, Close, Interrupt, Run
<1> QED BY <1>2, <1>3, <1>4 DEF Next, Module

LEMMA InitMore == Init => HaveInv /\ ReleasedInv /\ EnterInv /\ EndInv
<1> SUFFICES ASSUME Init PROVE HaveInv /\ ReleasedInv /\ EnterInv /\ EndInv
  OBVIOUS
<1>1. Acquired(T, step) = {}
  <2>1. DOMAIN T.init = 1..Len(T.init) /\ Len(T.init) \in Nat
    BY TableAssumption DEF Init, T
  <2> QED BY <2>1 DEF Init, Acquired
<1> QED BY <1>1 DEF Init, HaveInv, ReleasedInv, EnterInv, EndInv, Released

\* What has certainly been acquired is held when init has come to its end
\* without a step that it reports wrongly.
LEMMA AllAcquired ==
  ASSUME TypeInv, step > Len(T.init), NEW i \in DOMAIN T.init, T.init[i].onfail # "skip",
         T.init[i].get # Nothing
  PROVE  T.init[i].get \in Acquired(T, step)
<1>1. i < step
  BY Lists DEF TypeInv
<1> QED BY <1>1 DEF Acquired

-----------------------------------------------------------------------------
\* What the list comes to has been acquired and not yet been released.
LEMMA OnlyHeldReleased ==
  ASSUME TypeInv, HaveInv, ThirdRule(T)
  PROVE  ReleasesOnlyHeld
<1>1. phase \in {"undo", "exit"} /\ pos <= Len(Todo)
      => pos \in DOMAIN Todo /\ \A k \in DOMAIN Todo : k < pos => k # pos
  BY Lists DEF TypeInv
<1> SUFFICES ASSUME phase \in {"undo", "exit"}, pos <= Len(Todo), ~HalfLoaded,
                    "frees unheld" \notin T.known
             PROVE  Todo[pos] \in held
  BY DEF ReleasesOnlyHeld, Known
<1>2. step \in Stages(T) /\ Todo = Back(T, step)
  BY StageList
<1>3. Todo[pos] \in Acquired(T, step)
  BY <1>1, <1>2 DEF ThirdRule
<1>4. ~Released(Todo[pos])
  BY <1>1, <1>2 DEF ThirdRule, Released
<1> QED BY <1>3, <1>4 DEF HaveInv, ThirdRule

\* No list of a driver that keeps the third rule releases what is not held,
\* or what it has released already.
THEOREM FreesOnce ==
  ASSUME \A d \in Drivers : ThirdRule(Table[d])
  PROVE  Spec => []ReleasesOnlyHeld
<1> DEFINE IInv == TypeInv /\ HaveInv
<1>1. Init => IInv
  BY InitAll, InitMore
<1>2. IInv /\ [Next]_vars => IInv'
  BY TypeStep, HaveStep
<1>3. IInv => ReleasesOnlyHeld
  BY OnlyHeldReleased DEF TypeInv, T
<1> QED BY <1>1, <1>2, <1>3, PTL DEF Spec

\* A module that is loaded has come to the end of its init.
LEMMA WholeWhenLoaded ==
  ASSUME TypeInv, HaveInv, EndInv, FifthRule(T)
  PROVE  LoadsAllOrNothing
<1>1. ASSUME phase = "in", \A j \in DOMAIN T.init : T.init[j].onfail # "zero"
      PROVE  step > Len(T.init) /\ ~HalfLoaded /\ \A r : ~Released(r)
  <2>1. step > Len(T.init)
    BY <1>1, Lists DEF EndInv, TypeInv
  <2> QED BY <1>1, <2>1, Lists DEF HalfLoaded, Released, TypeInv
<1> SUFFICES ASSUME phase = "in", ~Known("loads half"),
                    NEW i \in DOMAIN T.init, T.init[i].onfail # "skip"
             PROVE  T.init[i].get \in held \cup {Nothing}
  BY DEF LoadsAllOrNothing, LoadedHoldsAll
<1>2. SkipsUndoNothing(T) /\ \A j \in DOMAIN T.init : T.init[j].onfail # "zero"
  BY DEF FifthRule, Known
<1> QED BY <1>1, <1>2, AllAcquired DEF HaveInv

\* A driver that keeps the fifth rule is never loaded without all it asked for.
THEOREM LoadsWhole ==
  ASSUME \A d \in Drivers : FifthRule(Table[d])
  PROVE  Spec => []LoadsAllOrNothing
<1> DEFINE IInv == TypeInv /\ HaveInv /\ EndInv
<1>1. Init => IInv
  BY InitAll, InitMore
<1>2. IInv /\ [Next]_vars => IInv'
  BY TypeStep, HaveStep, EndStep
<1>3. IInv => LoadsAllOrNothing
  BY WholeWhenLoaded DEF TypeInv, T
<1> QED BY <1>1, <1>2, <1>3, PTL DEF Spec

\* When init fails no node has been there, exit waits until none is open.
LEMMA NobodyInside ==
  ASSUME EnterInv, EndInv, SixthRule(T)
  PROVE  NobodyIsStranded
<1>2. phase = "failed" /\ ~Known("undone while open") => opened = {}
  BY DEF SixthRule, EnterInv, EndInv, Known
<1>3. phase = "gone" /\ ~Known("open when gone") => opened = {}
  BY DEF SixthRule, EnterInv, Known
<1> QED BY <1>2, <1>3 DEF NobodyIsStranded

\* No program has a node of a driver that keeps the sixth rule open when its
\* code has gone.
THEOREM NobodyStaysInside ==
  ASSUME \A d \in Drivers : SixthRule(Table[d])
  PROVE  Spec => []NobodyIsStranded
<1> DEFINE IInv == TypeInv /\ HeldInv /\ EnterInv /\ EndInv
<1>1. Init => IInv
  BY InitAll, InitMore
<1>2. IInv /\ [Next]_vars => IInv'
  BY TypeStep, HeldStep, EnterStep, EndStep
<1>3. IInv => NobodyIsStranded
  BY NobodyInside DEF TypeInv, T
<1> QED BY <1>1, <1>2, <1>3, PTL DEF Spec

\* Whatever can be entered can be entered by what the steps taken acquired.
LEMMA EnteredMayEnter ==
  ASSUME TypeInv, HeldInv, RunInv, EnterInv, NEW e \in Entered
  PROVE  MayEnter(T, step, e)
<1>1. CASE e \in pending
  BY <1>1 DEF RunInv, EnterInv, MayEnter
<1>2. CASE e \in T.live \cap held
  BY <1>2 DEF HeldInv, MayEnter
<1>3. CASE e \in opened
  BY <1>3 DEF EnterInv, MayEnter
<1> QED BY <1>1, <1>2, <1>3 DEF Entered

\* While a list is released that outlasts what is entered, or after it, what
\* has been released is used by nothing that can still be entered.
LEMMA OutlastsEntered ==
  ASSUME TypeInv, HeldInv, LeftInv, RunInv, ReleasedInv, EnterInv,
         phase \in {"undo", "exit", "gone"}, ~HalfLoaded, Outlasts(T, step),
         NEW u \in T.uses, u[1] \in Entered
  PROVE  ~Released(u[2])
<1> SUFFICES ASSUME Released(u[2]) PROVE FALSE
  OBVIOUS
<1>1. step \in Stages(T) /\ Todo = Back(T, step)
  BY StageList
<1>2. MayEnter(T, step, u[1])
  BY EnteredMayEnter
<1>3. PICK k \in DOMAIN Todo : k < pos /\ Todo[k] = u[2]
  BY DEF Released
<1>4. DOMAIN Todo \subseteq Nat /\ pos \in Nat /\ step \in Nat /\ Len(T.init) \in Nat
  <2>1. DOMAIN T.exit \subseteq Nat
    BY Lists
  <2>2. phase = "undo" => DOMAIN T.init[step].undo \subseteq Nat
    BY Lists DEF TypeInv, Step
  <2>3. step \in Nat /\ pos \in Nat /\ Len(T.init) \in Nat
    BY Lists DEF TypeInv
  <2> QED BY <2>1, <2>2, <2>3 DEF Todo
<1>5. CASE u[1] \in opened
  <2>1. u[1] \in T.nodes
    BY <1>5 DEF EnterInv
  <2>2. T.owned /\ step > Len(T.init)
    BY <1>1, <1>2, <1>3, <2>1 DEF Outlasts
  <2>3. phase # "undo"
    BY <1>4, <2>2 DEF TypeInv
  <2> QED BY <1>5, <2>2, <2>3 DEF EnterInv
<1>6. CASE u[1] \in T.live \cap held
  <2>1. PICK m \in DOMAIN Todo : m <= k /\ Todo[m] = u[1]
    BY <1>1, <1>2, <1>3, <1>6 DEF Outlasts
  <2>2. m < pos
    BY <1>3, <1>4, <2>1
  <2>3. Released(u[1])
    BY <2>1, <2>2 DEF Released
  <2> QED BY <1>6, <2>3 DEF ReleasedInv
<1>7. CASE u[1] \in pending
  <2>1. u[1] \in Schedulable(T)
    BY <1>7 DEF RunInv
  <2>2. Names(T, step, Todo) /\ Orderly(T, Todo) /\ \A m \in DOMAIN Todo : Todo[m] = u[1] => m <= k
    BY <1>1, <1>2, <1>3, <2>1 DEF Outlasts
  <2>3. CASE phase \in {"undo", "exit"}
    <3>1. ToCome(u[1])
      BY <1>7, <2>2, <2>3 DEF RunInv, Undoing, Leaving, Todo
    <3>2. PICK m \in DOMAIN Todo : pos <= m /\ Todo[m] = u[1]
      BY <3>1 DEF ToCome
    <3> QED BY <1>3, <1>4, <2>2, <3>2
  <2>4. CASE phase = "gone"
    BY <1>7, <2>2, <2>4 DEF RunInv, Todo
  <2> QED BY <2>3, <2>4
<1> QED BY <1>5, <1>6, <1>7 DEF Entered

\* What is entered finds what it uses acquired and not yet released.
LEMMA PreparedWhenEntered ==
  ASSUME TypeInv, HeldInv, LeftInv, RunInv,
         HaveInv, ReleasedInv, EnterInv, FourthRule(T)
  PROVE  EntryPointsAreBacked
<1>0. step \in Nat /\ Len(T.init) \in Nat /\ step <= Len(T.init) + 1 /\ step # 0
  BY Lists DEF TypeInv
<1>1. ASSUME phase \in {"init", "undo", "in", "exit", "gone"}, ~HalfLoaded,
             SkipsUndoNothing(T), Ready(T, step),
             phase \in {"undo", "exit", "gone"} => Outlasts(T, step)
      PROVE  Backed
  <2> SUFFICES ASSUME NEW u \in T.uses, u[1] \in Entered PROVE u[2] \in held
    BY DEF Backed
  <2>1. u[2] \in Acquired(T, step)
    BY <1>1, EnteredMayEnter DEF Ready
  <2>2. ~Released(u[2])
    BY <1>1, OutlastsEntered DEF Released
  <2> QED BY <1>1, <2>1, <2>2 DEF HaveInv
<1>2. phase \in {"init", "undo"} => step \in Stages(T) /\ ~HalfLoaded
  BY <1>0 DEF Stages, HalfLoaded
<1>3. phase = "undo" => step \in DOMAIN T.init
  BY <1>0, Lists DEF TypeInv
<1>4. phase \in {"in", "exit", "gone"} /\ ~HalfLoaded => step = Len(T.init) + 1
  BY <1>0 DEF HalfLoaded
<1>5. CASE phase \in {"init", "undo"} /\ ~Known("entered too early")
  <2>1. SkipsUndoNothing(T) /\ Ready(T, step) /\ (phase = "undo" => Outlasts(T, step))
    BY <1>2, <1>3, <1>5 DEF FourthRule, Known
  <2> QED BY <1>1, <1>2, <1>5, <2>1 DEF EntryPointsAreBacked
<1>6. CASE phase \in {"in", "exit", "gone"} /\ ~HalfLoaded /\ ~Known("entered too late")
  <2>1. SkipsUndoNothing(T) /\ Ready(T, step) /\ Outlasts(T, step)
    BY <1>4, <1>6 DEF FourthRule, Known
  <2> QED BY <1>1, <1>6, <2>1 DEF EntryPointsAreBacked
<1> QED BY <1>5, <1>6 DEF EntryPointsAreBacked

\* In a driver that keeps the rules code is entered only while all it uses is
\* initialised and allocated, from the first step of init to the last of exit.
THEOREM EntersPrepared ==
  ASSUME \A d \in Drivers : FirstRule(Table[d]) /\ SecondRule(Table[d]) /\ FourthRule(Table[d])
  PROVE  Spec => []EntryPointsAreBacked
<1> DEFINE LInv == TypeInv /\ HeldInv /\ LeftInv /\ RunInv
<1> DEFINE IInv == LInv /\ HaveInv /\ ReleasedInv /\ EnterInv
<1>1. Init => IInv
  BY InitAll, InitMore
<1>2. IInv /\ [Next]_vars => IInv'
  BY TypeStep, HeldStep, LeftStep, RunStep, HaveStep, ReleasedStep, EnterStep
<1>3. IInv => EntryPointsAreBacked
  BY PreparedWhenEntered DEF TypeInv, T
<1> QED BY <1>1, <1>2, <1>3, PTL DEF Spec

=============================================================================
