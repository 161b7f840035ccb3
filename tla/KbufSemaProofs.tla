---------------------------- MODULE KbufSemaProofs ----------------------------
(***************************************************************************)
(* The semaphore of src/locks/semaphore/kbuf.c for any number of processes.*)
(* HasToken names who has the token: the process inside, or the waiter     *)
(* up() has chosen.  OneToken is not inductive: up() may only choose a     *)
(* process that still waits at down(), and a process that calls down() may *)
(* not be in the list already; both follow from where the processes in the *)
(* list are (ListInv).                                                     *)
(* That calls return: whoever has the token gives it up, and each up()     *)
(* brings every waiter one place nearer (WaitersComeNearer).               *)
(* At the end what KbufDevProofs shows of the mutex's device is carried    *)
(* over to this one.                                                       *)
(***************************************************************************)
EXTENDS KbufSema, TLAPS

AtDown == {"r_lock", "w_lock"}
Within == {"r_check", "r_copy", "r_move", "r_len", "w_check", "w_copy", "w_len", "unlock"}

HasToken(p) == pc[p] \in Within \/ granted = p

TypeInv ==
  /\ pc \in [Procs -> {"idle"} \cup AtDown \cup Within]
  /\ count \in 0..1
  /\ waiting \in Seq(Procs)
  /\ granted \in Procs \cup {NoProc}

TokenInv ==
  /\ \A p, q \in Procs : HasToken(p) /\ HasToken(q) => p = q
  /\ count = 1 <=> \A p \in Procs : ~HasToken(p)

ListInv ==
  /\ \A i \in DOMAIN waiting : pc[waiting[i]] \in AtDown /\ waiting[i] # granted
  /\ \A i, j \in DOMAIN waiting : waiting[i] = waiting[j] => i = j
  /\ granted \in Procs => pc[granted] \in AtDown
  /\ waiting # << >> => count = 0

IInv == TypeInv /\ TokenInv /\ ListInv

-----------------------------------------------------------------------------
LEMMA InitIInv == Init => IInv
<1> SUFFICES ASSUME Init PROVE IInv OBVIOUS
<1>1. pc = [p \in Procs |-> "idle"] /\ count = 1 /\ waiting = << >> /\ granted = NoProc
  BY DEF Init, Dev!Init
<1>2. \A p \in Procs : ~HasToken(p)
  BY <1>1, NoProcAssumption DEF HasToken, Within
<1>3. QED BY <1>1, <1>2, NoProcAssumption DEF IInv, TypeInv, TokenInv, ListInv

\* A step that moves p among the places inside, or among those outside that
\* are not at down(), or from outside to down(), leaves the semaphore as it is.
LEMMA MoveStep ==
  ASSUME IInv, NEW p \in Procs,
         NEW l \in {"idle"} \cup AtDown \cup Within,
         pc' = [pc EXCEPT ![p] = l], UNCHANGED semaVars,
         \/ pc[p] \in Within /\ l \in Within
         \/ pc[p] = "idle" /\ l \in {"idle"} \cup AtDown
  PROVE  IInv'
<1>1. \A q \in Procs : HasToken(q)' <=> HasToken(q)
  BY DEF IInv, TypeInv, HasToken, Within, AtDown, semaVars
<1>2. TypeInv' BY DEF IInv, TypeInv, semaVars
<1>3. TokenInv' BY <1>1 DEF IInv, TokenInv, semaVars
<1>4. ListInv'
  <2>1. \A q \in Procs : pc[q] \in AtDown => pc'[q] \in AtDown
    BY DEF IInv, TypeInv, Within, AtDown
  <2>2. \A i \in DOMAIN waiting : waiting[i] \in Procs BY DEF IInv, TypeInv
  <2>3. QED BY <2>1, <2>2 DEF IInv, ListInv, semaVars
<1>5. QED BY <1>2, <1>3, <1>4 DEF IInv

LEMMA EnterStep == ASSUME IInv, NEW p \in Procs, Enter(p) PROVE IInv'
<1>1. PICK l \in {"idle"} \cup AtDown : pc[p] = "idle" /\ pc' = [pc EXCEPT ![p] = l]
  BY DEF Enter, Dev!ReadCall, Dev!WriteCall, Dev!Enter, Dev!Goto, AtDown
<1>2. QED BY <1>1, MoveStep DEF Enter

LEMMA ReadBodyStep == ASSUME IInv, NEW p \in Procs, ReadBody(p) PROVE IInv'
<1>1. PICK l \in Within : pc[p] \in Within /\ pc' = [pc EXCEPT ![p] = l]
  BY DEF ReadBody, Dev!ReadCheck, Dev!ReadCopy, Dev!ReadMove, Dev!ReadLen,
         Dev!Fail, Dev!Goto, Within
<1>2. QED BY <1>1, MoveStep DEF ReadBody

LEMMA WriteBodyStep == ASSUME IInv, NEW p \in Procs, WriteBody(p) PROVE IInv'
<1>1. PICK l \in Within : pc[p] \in Within /\ pc' = [pc EXCEPT ![p] = l]
  BY DEF WriteBody, Dev!WriteCheck, Dev!WriteCopy, Dev!WriteLen,
         Dev!Fail, Dev!Goto, Within
<1>2. QED BY <1>1, MoveStep DEF WriteBody

\* down() of p: with the count at 1 nobody has the token, and p takes it.
LEMMA DownStep == ASSUME IInv, NEW p \in Procs, Down(p) PROVE IInv'
<1>1. pc[p] \in AtDown /\ granted # p /\ granted' = granted
      /\ \A i \in DOMAIN waiting : waiting[i] # p
  BY DEF Down, Waiting, AtDown
<1>2. CASE count > 0 /\ count' = count - 1 /\ GoIn(p) /\ UNCHANGED waiting
  <2>1. count = 1 /\ count' = 0 /\ waiting = << >> /\ \A q \in Procs : ~HasToken(q)
    BY <1>2 DEF IInv, TypeInv, TokenInv, ListInv
  <2>2. pc' \in [Procs -> {"idle"} \cup AtDown \cup Within] /\ pc'[p] \in Within
        /\ \A q \in Procs \ {p} : pc'[q] = pc[q]
    BY <1>1, <1>2 DEF IInv, TypeInv, GoIn, AtDown, Within
  <2>3. granted \notin Procs BY <2>1 DEF HasToken
  <2>4. HasToken(p)' /\ \A q \in Procs \ {p} : ~HasToken(q)'
    BY <1>1, <2>1, <2>2 DEF HasToken
  <2>5. TypeInv' BY <1>1, <1>2, <2>1, <2>2 DEF IInv, TypeInv
  <2>6. TokenInv' BY <2>1, <2>4 DEF TokenInv
  <2>7. ListInv' BY <1>1, <1>2, <2>1, <2>3 DEF ListInv
  <2>8. QED BY <2>5, <2>6, <2>7 DEF IInv
<1>3. CASE count = 0 /\ waiting' = Append(waiting, p) /\ UNCHANGED <<count, pc>>
  <2>1. TypeInv' BY <1>1, <1>3 DEF IInv, TypeInv
  <2>2. TokenInv'
    <3>1. \A q \in Procs : HasToken(q)' <=> HasToken(q) BY <1>1, <1>3 DEF HasToken
    <3>2. QED BY <1>3, <3>1 DEF IInv, TokenInv
  <2>3. ListInv'
    <3>1. waiting \in Seq(Procs) BY DEF IInv, TypeInv
    <3>2. DOMAIN waiting' = 1..(Len(waiting) + 1) /\ waiting'[Len(waiting) + 1] = p
          /\ \A i \in DOMAIN waiting : waiting'[i] = waiting[i]
      BY <1>3, <3>1
    <3>3. DOMAIN waiting = 1..Len(waiting) /\ Len(waiting) \in Nat BY <3>1
    <3>4. \A i \in DOMAIN waiting' : i \in DOMAIN waiting \/ i = Len(waiting) + 1
      BY <3>2, <3>3
    <3>5. QED BY <1>1, <1>3, <3>2, <3>4 DEF IInv, ListInv
  <2>4. QED BY <2>1, <2>2, <2>3 DEF IInv
<1>4. QED BY <1>2, <1>3 DEF Down

\* A chosen waiter goes in: the token was his already.
LEMMA DownReturnsStep == ASSUME IInv, NEW p \in Procs, DownReturns(p) PROVE IInv'
<1>1. granted = p /\ granted' = NoProc /\ count' = count /\ waiting' = waiting
      /\ pc[p] \in AtDown
  BY DEF DownReturns, IInv, ListInv
<1>2. pc' \in [Procs -> {"idle"} \cup AtDown \cup Within] /\ pc'[p] \in Within
      /\ \A q \in Procs \ {p} : pc'[q] = pc[q]
  BY <1>1 DEF DownReturns, IInv, TypeInv, GoIn, AtDown, Within
<1>3. \A q \in Procs : HasToken(q)' <=> HasToken(q)
  BY <1>1, <1>2, NoProcAssumption DEF HasToken
<1>4. TypeInv' BY <1>1, <1>2 DEF IInv, TypeInv
<1>5. TokenInv' BY <1>1, <1>3 DEF IInv, TokenInv
<1>6. ListInv'
  <2>1. \A i \in DOMAIN waiting : waiting[i] \in Procs BY DEF IInv, TypeInv
  <2>2. QED BY <1>1, <1>2, <2>1, NoProcAssumption DEF IInv, ListInv
<1>7. QED BY <1>4, <1>5, <1>6 DEF IInv

\* up() of p: the token goes back to the count or on to the first waiter.
LEMMA UpStep == ASSUME IInv, NEW p \in Procs, Up(p) PROVE IInv'
<1>1. pc[p] = "unlock" /\ pc' = [pc EXCEPT ![p] = "idle"] BY DEF Up
<1>2. HasToken(p) /\ (\A q \in Procs \ {p} : ~HasToken(q)) /\ count = 0
      /\ granted = NoProc
  <2>1. HasToken(p) BY <1>1 DEF HasToken, Within
  <2>2. granted # p BY <1>1 DEF IInv, ListInv, AtDown
  <2>3. QED BY <2>1, <2>2 DEF IInv, TypeInv, TokenInv, HasToken
<1>3. pc' \in [Procs -> {"idle"} \cup AtDown \cup Within] /\ pc'[p] = "idle"
      /\ \A q \in Procs \ {p} : pc'[q] = pc[q]
  BY <1>1 DEF IInv, TypeInv
<1>4. \A q \in Procs : pc'[q] \notin Within
  BY <1>2, <1>3 DEF HasToken, Within
<1>5. \A i \in DOMAIN waiting : waiting[i] \in Procs \ {p} /\ pc[waiting[i]] \in AtDown
  BY <1>1 DEF IInv, TypeInv, ListInv, AtDown
<1>6. CASE waiting = << >> /\ count' = count + 1 /\ UNCHANGED <<waiting, granted>>
  <2>1. TypeInv' BY <1>2, <1>3, <1>6 DEF IInv, TypeInv
  <2>2. TokenInv' BY <1>2, <1>4, <1>6, NoProcAssumption DEF TokenInv, HasToken
  <2>3. ListInv' BY <1>2, <1>6, NoProcAssumption DEF ListInv
  <2>4. QED BY <2>1, <2>2, <2>3 DEF IInv
<1>7. CASE waiting # << >> /\ granted' = Head(waiting) /\ waiting' = Tail(waiting)
           /\ UNCHANGED count
  <2>1. waiting \in Seq(Procs) BY DEF IInv, TypeInv
  <2>2. Len(waiting) \in Nat \ {0} /\ DOMAIN waiting = 1..Len(waiting)
    BY <2>1, <1>7
  <2>3. granted' = waiting[1] /\ waiting' \in Seq(Procs)
        /\ DOMAIN waiting' = 1..(Len(waiting) - 1)
        /\ \A i \in DOMAIN waiting' : waiting'[i] = waiting[i + 1]
    BY <1>7, <2>1
  <2>4. 1 \in DOMAIN waiting /\ \A i \in DOMAIN waiting' : i + 1 \in DOMAIN waiting /\ i + 1 # 1
    BY <2>2, <2>3
  <2>5. granted' \in Procs \ {p} /\ pc'[granted'] \in AtDown
    BY <2>3, <2>4, <1>5, <1>3
  <2>6. TypeInv' BY <1>2, <1>3, <1>7, <2>3, <2>5 DEF IInv, TypeInv
  <2>7. TokenInv' BY <1>2, <1>4, <1>7, <2>5 DEF TokenInv, HasToken
  <2>8. ListInv'
    <3>1. \A i \in DOMAIN waiting' : pc'[waiting'[i]] \in AtDown /\ waiting'[i] # granted'
      BY <2>3, <2>4, <1>5, <1>3 DEF IInv, ListInv
    <3>2. \A i, j \in DOMAIN waiting' : waiting'[i] = waiting'[j] => i = j
      BY <2>2, <2>3, <2>4 DEF IInv, ListInv
    <3>3. QED BY <1>2, <1>7, <2>5, <3>1, <3>2 DEF ListInv
  <2>9. QED BY <2>6, <2>7, <2>8 DEF IInv
<1>8. QED BY <1>6, <1>7 DEF Up

LEMMA Inductive == IInv /\ [Next]_vars => IInv'
<1> SUFFICES ASSUME IInv, [Next]_vars PROVE IInv' OBVIOUS
<1>1. CASE UNCHANGED vars
  BY <1>1 DEF vars, semaVars, IInv, TypeInv, TokenInv, ListInv, HasToken
<1>2. ASSUME NEW p \in Procs, Enter(p) \/ Body(p) PROVE IInv'
  BY <1>2, EnterStep, ReadBodyStep, WriteBodyStep, DownStep, DownReturnsStep, UpStep
     DEF Body
<1>3. QED BY <1>1, <1>2 DEF Next

LEMMA Invariant == Spec => []IInv
BY InitIInv, Inductive, PTL DEF Spec

-----------------------------------------------------------------------------
LEMMA TokenFromInv == IInv => OneToken
<1> SUFFICES ASSUME IInv PROVE OneToken OBVIOUS
<1> DEFINE inside == {p \in Procs : Inside(p)}
<1>1. \A p \in Procs : p \in inside <=> pc[p] \in Within BY DEF Inside, Within
<1>2. CASE count = 1
  <2>1. inside = {} /\ granted = NoProc
    BY <1>1, <1>2 DEF IInv, TypeInv, TokenInv, HasToken
  <2>2. QED BY <1>2, <2>1 DEF OneToken
<1>3. CASE count = 0
  <2>1. PICK p \in Procs : HasToken(p) BY <1>3 DEF IInv, TokenInv
  <2>2. \A q \in Procs \ {p} : ~HasToken(q) BY <2>1 DEF IInv, TokenInv
  <2>3. CASE granted = p
    <3>1. pc[p] \notin Within BY <2>3 DEF IInv, ListInv, AtDown, Within
    <3>2. inside = {} BY <1>1, <2>2, <3>1 DEF HasToken
    <3>3. QED BY <1>3, <2>3, <3>2 DEF OneToken
  <2>4. CASE granted # p
    <3>1. granted = NoProc BY <2>2, <2>4 DEF IInv, TypeInv, HasToken
    <3>2. inside = {p} BY <1>1, <2>1, <2>2, <2>4 DEF HasToken
    <3>3. QED BY <1>3, <3>1, <3>2 DEF OneToken
  <2>5. QED BY <2>3, <2>4
<1>4. QED BY <1>2, <1>3 DEF IInv, TypeInv

\* For any number of processes the semaphore is one token: in the count, with
\* the one process between down() and up(), or with the waiter up() let go
\* (src/locks/semaphore/kbuf.c, sema_init(&kbufs[i].sema, 1)).
THEOREM TokenSafety == Spec => []OneToken
BY Invariant, TokenFromInv, PTL

\* For any number of processes nobody is in the semaphore's list while the
\* token is free, nobody is in it twice, and whom up() let go has left it.
THEOREM ListSafety == Spec => []NobodyForgotten
<1>1. IInv => NobodyForgotten
  BY DEF IInv, ListInv, NobodyForgotten, Waiting
<1>2. QED BY <1>1, Invariant, PTL
-----------------------------------------------------------------------------
\* KbufDev's mutex is held by whoever is inside, and by nobody else.
HolderInv ==
  /\ Holder \in Procs \cup {NoProc}
  /\ \A p \in Procs : Inside(p) <=> Holder = p

LEMMA HolderIsInside == IInv => HolderInv
<1> SUFFICES ASSUME IInv PROVE HolderInv OBVIOUS
<1>1. \A p, q \in Procs : Inside(p) /\ Inside(q) => p = q
  BY DEF IInv, TokenInv, HasToken, Inside, Within
<1>2. QED BY <1>1, NoProcAssumption DEF HolderInv, Holder

LEMMA HolderIsInsideNext == IInv' => HolderInv'
BY HolderIsInside, PTL

LEMMA HolderStays ==
  ASSUME IInv, IInv', \A p \in Procs : Inside(p)' <=> Inside(p)
  PROVE  Holder' = Holder
<1>1. HolderInv /\ HolderInv' BY HolderIsInside, HolderIsInsideNext
<1>2. QED BY <1>1 DEF HolderInv

\* To go in while nobody is inside is to take the mutex.
LEMMA GoInIsLock ==
  ASSUME IInv, IInv', NEW p \in Procs, pc[p] \in AtDown, GoIn(p), UNCHANGED dataVars,
         \A q \in Procs : ~Inside(q)
  PROVE  Dev!MutexLock(p)
<1>1. Holder = NoProc BY HolderIsInside DEF HolderInv
<1>2. Inside(p)' BY DEF GoIn, IInv, TypeInv, AtDown, Inside
<1>3. Holder' = p BY <1>2, HolderIsInsideNext DEF HolderInv
<1>4. QED BY <1>1, <1>3 DEF GoIn, Dev!MutexLock, Dev!Goto, AtDown, dataVars

LEMMA DownRefines ==
  ASSUME IInv, IInv', NEW p \in Procs, Down(p)
  PROVE  Dev!MutexLock(p) \/ UNCHANGED Dev!vars
<1>1. CASE count > 0 /\ GoIn(p)
  <2>1. \A q \in Procs : ~Inside(q)
    BY <1>1 DEF IInv, TypeInv, TokenInv, HasToken, Inside, Within
  <2>2. QED BY <1>1, <2>1, GoInIsLock DEF Down, AtDown
<1>2. CASE UNCHANGED pc
  <2>1. Holder' = Holder BY <1>2, HolderStays DEF Inside
  <2>2. QED BY <1>2, <2>1 DEF Down, Dev!vars, dataVars
<1>3. QED BY <1>1, <1>2 DEF Down

LEMMA DownReturnsRefines ==
  ASSUME IInv, IInv', NEW p \in Procs, DownReturns(p)
  PROVE  Dev!MutexLock(p)
<1>1. pc[p] \in AtDown BY DEF DownReturns, IInv, ListInv
<1>2. \A q \in Procs : ~Inside(q)
  BY <1>1 DEF DownReturns, IInv, TokenInv, HasToken, Inside, Within, AtDown
<1>3. QED BY <1>1, <1>2, GoInIsLock DEF DownReturns

LEMMA UpRefines ==
  ASSUME IInv, IInv', NEW p \in Procs, Up(p)
  PROVE  Dev!MutexUnlock(p)
<1>1. pc[p] = "unlock" /\ pc' = [pc EXCEPT ![p] = "idle"] BY DEF Up
<1>2. \A q \in Procs : ~Inside(q)'
  <2>1. \A q \in Procs \ {p} : ~Inside(q)
    BY <1>1 DEF IInv, TokenInv, HasToken, Inside, Within
  <2>2. QED BY <1>1, <2>1 DEF IInv, TypeInv, Inside
<1>3. Holder' = NoProc BY <1>2, HolderIsInsideNext DEF HolderInv
<1>4. QED BY <1>1, <1>3 DEF Up, Dev!MutexUnlock, Dev!Goto, dataVars

LEMMA StepRefines == IInv /\ IInv' /\ [Next]_vars => [Dev!Next]_(Dev!vars)
<1> SUFFICES ASSUME IInv, IInv', [Next]_vars PROVE Dev!Next \/ UNCHANGED Dev!vars OBVIOUS
<1>1. CASE UNCHANGED vars
  <2>1. Holder' = Holder BY <1>1, HolderStays DEF vars, Inside
  <2>2. QED BY <1>1, <2>1 DEF vars, dataVars, Dev!vars
<1>2. ASSUME NEW p \in Procs, Enter(p) \/ Body(p) PROVE Dev!Next \/ UNCHANGED Dev!vars
  <2>1. CASE Enter(p) BY <2>1 DEF Enter, Dev!Next
  <2>2. CASE Down(p) BY <2>2, DownRefines DEF Dev!Next
  <2>3. CASE DownReturns(p) BY <2>3, DownReturnsRefines DEF Dev!Next
  <2>4. CASE ReadBody(p) BY <2>4 DEF ReadBody, Dev!Next, Dev!Body
  <2>5. CASE WriteBody(p) BY <2>5 DEF WriteBody, Dev!Next, Dev!Body
  <2>6. CASE Up(p) BY <2>6, UpRefines DEF Dev!Next, Dev!Body
  <2>7. QED BY <1>2, <2>1, <2>2, <2>3, <2>4, <2>5, <2>6 DEF Body
<1>3. QED BY <1>1, <1>2 DEF Next

\* For any number of processes, any buffer and any data, the device with the
\* semaphore does nothing that the device with the mutex could not do.
THEOREM SemaImplementsMutex == Spec => ImplementsKbufDev
<1>1. Init => Dev!Init BY DEF Init
<1>2. QED BY <1>1, Invariant, StepRefines, PTL DEF Spec, ImplementsKbufDev, Dev!Spec

-----------------------------------------------------------------------------
(***************************************************************************)
(* Calls come to their turn.  A process can go on unless it is in no call  *)
(* or waits in the list: CanGo stands in place of ENABLED in the weak      *)
(* fairness of FairSpec.                                                   *)
(***************************************************************************)
CanGo(p) == pc[p] # "idle" /\ p \notin Waiting

BodyRuns(p) == []<>~CanGo(p) \/ []<><<Body(p)>>_vars

AllGo == \A p \in Procs : BodyRuns(p)

\* Weak fairness of a process, guard by guard.
LEMMA FairGo ==
  ASSUME NEW p \in Procs
  PROVE  WF_vars(Body(p)) /\ [](CanGo(p) => ENABLED <<Body(p)>>_vars) => BodyRuns(p)
BY PTL DEF BodyRuns

\* Where the next step leads from each place inside.
Later ==
  [l \in Within |->
     CASE l = "r_check" -> {"r_copy", "unlock"}
       [] l = "r_copy"  -> {"r_move", "unlock"}
       [] l = "r_move"  -> {"r_len"}
       [] l = "w_check" -> {"w_copy", "unlock"}
       [] l = "w_copy"  -> {"w_len", "unlock"}
       [] l \in {"r_len", "w_len"} -> {"unlock"}
       [] OTHER         -> {"idle"}]

LEMMA InsideStep ==
  ASSUME IInv, NEW p \in Procs, Body(p), pc[p] \in Within
  PROVE  pc'[p] \in Later[pc[p]]
<1> USE DEF IInv, TypeInv, Within, AtDown, Later, Dev!Goto
<1>1. CASE ReadBody(p)
  BY <1>1 DEF ReadBody, Dev!ReadCheck, Dev!ReadCopy, Dev!ReadMove, Dev!ReadLen, Dev!Fail
<1>2. CASE WriteBody(p)
  BY <1>2 DEF WriteBody, Dev!WriteCheck, Dev!WriteCopy, Dev!WriteLen, Dev!Fail
<1>3. CASE Up(p)
  BY <1>3 DEF Up
<1>4. CASE Down(p) \/ DownReturns(p)
  BY <1>4 DEF Down, DownReturns, ListInv
<1> QED BY <1>1, <1>2, <1>3, <1>4 DEF Body

\* A step of q moves the pc of q only, and what it does to the list.
LEMMA OneMoves ==
  ASSUME IInv, NEW q \in Procs, Enter(q) \/ Body(q)
  PROVE  \A p \in Procs : p # q => pc'[p] = pc[p]
<1> USE DEF IInv, TypeInv, Dev!Goto
<1>1. CASE Enter(q)
  BY <1>1 DEF Enter, Dev!ReadCall, Dev!WriteCall, Dev!Enter
<1>2. CASE ReadBody(q)
  BY <1>2 DEF ReadBody, Dev!ReadCheck, Dev!ReadCopy, Dev!ReadMove, Dev!ReadLen, Dev!Fail
<1>3. CASE WriteBody(q)
  BY <1>3 DEF WriteBody, Dev!WriteCheck, Dev!WriteCopy, Dev!WriteLen, Dev!Fail
<1>4. CASE Up(q) \/ Down(q) \/ DownReturns(q)
  BY <1>4 DEF Up, Down, DownReturns, GoIn
<1> QED BY <1>1, <1>2, <1>3, <1>4 DEF Body

\* A call is moved by its own steps only.
LEMMA OwnSteps ==
  ASSUME IInv, [Next]_vars, NEW p \in Procs, pc[p] # "idle"
  PROVE  pc'[p] = pc[p] \/ Body(p)
<1>1. ~Enter(p)
  BY DEF Enter, Dev!ReadCall, Dev!WriteCall, Dev!Enter
<1> QED BY <1>1, OneMoves DEF Next, vars

Advances(p, l) == pc[p] = l ~> pc[p] \in Later[l]

LEMMA InsideAdvances ==
  ASSUME NEW p \in Procs, NEW l \in Within
  PROVE  []IInv /\ [][Next]_vars /\ BodyRuns(p) => Advances(p, l)
<1>1. IInv /\ [Next]_vars /\ pc[p] = l => (pc[p] = l)' \/ (pc[p] \in Later[l])'
  BY OwnSteps, InsideStep DEF Within
<1>2. IInv /\ <<Body(p)>>_vars /\ pc[p] = l => (pc[p] \in Later[l])'
  BY InsideStep
<1>3. IInv /\ pc[p] = l => CanGo(p)
  BY DEF IInv, TypeInv, ListInv, CanGo, Waiting, Within, AtDown
<1> QED BY <1>1, <1>2, <1>3, PTL DEF BodyRuns, Advances

\* Whoever is inside returns.
LEMMA InsideReturns ==
  ASSUME NEW p \in Procs
  PROVE  []IInv /\ [][Next]_vars /\ BodyRuns(p) => (pc[p] \in Within ~> pc[p] = "idle")
<1> DEFINE Live == []IInv /\ [][Next]_vars /\ BodyRuns(p)
<1>1. /\ Live => Advances(p, "r_check")
      /\ Live => Advances(p, "r_copy")
      /\ Live => Advances(p, "r_move")
      /\ Live => Advances(p, "r_len")
      /\ Live => Advances(p, "w_check")
      /\ Live => Advances(p, "w_copy")
      /\ Live => Advances(p, "w_len")
      /\ Live => Advances(p, "unlock")
  <2> HIDE DEF Live
  <2>1. \A l \in Within : Live => Advances(p, l)
    BY InsideAdvances DEF Live
  <2> QED BY <2>1 DEF Within
<1>2. /\ pc[p] \in Later["r_check"] => pc[p] = "r_copy" \/ pc[p] = "unlock"
      /\ pc[p] \in Later["r_copy"] => pc[p] = "r_move" \/ pc[p] = "unlock"
      /\ pc[p] \in Later["r_move"] => pc[p] = "r_len"
      /\ pc[p] \in Later["r_len"] => pc[p] = "unlock"
      /\ pc[p] \in Later["w_check"] => pc[p] = "w_copy" \/ pc[p] = "unlock"
      /\ pc[p] \in Later["w_copy"] => pc[p] = "w_len" \/ pc[p] = "unlock"
      /\ pc[p] \in Later["w_len"] => pc[p] = "unlock"
      /\ pc[p] \in Later["unlock"] => pc[p] = "idle"
  BY DEF Later, Within
<1>3. pc[p] \in Within =>
        \/ pc[p] = "r_check" \/ pc[p] = "r_copy" \/ pc[p] = "r_move" \/ pc[p] = "r_len"
        \/ pc[p] = "w_check" \/ pc[p] = "w_copy" \/ pc[p] = "w_len" \/ pc[p] = "unlock"
  BY DEF Within
<1> QED BY <1>1, <1>2, <1>3, PTL DEF Advances

\* The waiter up() has chosen goes in.
LEMMA ChosenStep ==
  ASSUME IInv, NEW p \in Procs, granted = p
  PROVE  /\ CanGo(p)
         /\ Body(p) => (pc[p] \in Within)'
         /\ [Next]_vars => (granted = p)' \/ (pc[p] \in Within)'
<1>1. pc[p] \in AtDown /\ p \notin Waiting
  BY DEF IInv, TypeInv, ListInv, Waiting
<1>2. CanGo(p)
  BY <1>1 DEF CanGo, AtDown
<1>3. ASSUME Body(p) PROVE (pc[p] \in Within)'
  <2>1. ~Down(p) /\ ~Up(p) /\ ~ReadBody(p) /\ ~WriteBody(p)
    BY <1>1 DEF Down, Up, ReadBody, WriteBody, AtDown, Dev!ReadCheck, Dev!ReadCopy, Dev!ReadMove,
                Dev!ReadLen, Dev!WriteCheck, Dev!WriteCopy, Dev!WriteLen
  <2>2. DownReturns(p)
    BY <1>3, <2>1 DEF Body
  <2> QED BY <1>1, <2>2 DEF DownReturns, GoIn, IInv, TypeInv, AtDown, Within
<1>4. ASSUME [Next]_vars PROVE (granted = p)' \/ (pc[p] \in Within)'
  <2>1. CASE UNCHANGED vars
    BY <2>1 DEF vars, semaVars
  <2>2. ASSUME NEW q \in Procs, Enter(q) \/ Body(q), q # p PROVE granted' = p
    <3>1. ~HasToken(q)
      BY <2>2 DEF IInv, TokenInv, HasToken
    <3>2. ~Up(q) /\ ~DownReturns(q)
      BY <3>1 DEF Up, DownReturns, HasToken, Within
    <3> QED BY <2>2, <3>2 DEF Enter, Body, Down, ReadBody, WriteBody, semaVars
  <2>3. CASE Enter(p)
    BY <2>3 DEF Enter, semaVars
  <2> QED BY <1>3, <1>4, <2>1, <2>2, <2>3 DEF Next
<1> QED BY <1>2, <1>3, <1>4

LEMMA ChosenGoesIn ==
  ASSUME NEW p \in Procs
  PROVE  []IInv /\ [][Next]_vars /\ BodyRuns(p) => (granted = p ~> pc[p] \in Within)
<1>1. IInv /\ granted = p => CanGo(p)
  BY ChosenStep
<1>2. IInv /\ [Next]_vars /\ granted = p => (granted = p)' \/ (pc[p] \in Within)'
  BY ChosenStep
<1>3. IInv /\ <<Body(p)>>_vars /\ granted = p => (pc[p] \in Within)'
  BY ChosenStep
<1> QED BY <1>1, <1>2, <1>3, PTL DEF BodyRuns

\* Whoever has the token gives it up.
GivesUp(p) == HasToken(p) ~> ~HasToken(p)

LEMMA TokenIsGivenUp ==
  ASSUME NEW p \in Procs
  PROVE  []IInv /\ [][Next]_vars /\ BodyRuns(p) => GivesUp(p)
<1>1. HasToken(p) <=> pc[p] \in Within \/ granted = p
  BY DEF HasToken
<1>2. IInv /\ pc[p] = "idle" => ~HasToken(p)
  BY DEF IInv, TypeInv, ListInv, HasToken, AtDown, Within
<1> QED BY <1>1, <1>2, ChosenGoesIn, InsideReturns, PTL DEF GivesUp

\* A process in the list, and where it is when the list has moved on by one.
Waits(p, n) == n \in DOMAIN waiting /\ waiting[n] = p

Nearer(p, n) == IF n = 1 THEN granted = p ELSE Waits(p, n - 1)

\* While q has the token the list only grows, at its end; when q gives it up
\* with somebody waiting, the list moves on.
LEMMA ListMoves ==
  ASSUME IInv, [Next]_vars, NEW p \in Procs, NEW n \in Nat \ {0}, NEW q \in Procs,
         Waits(p, n), HasToken(q)
  PROVE  (HasToken(q) /\ Waits(p, n))' \/ Nearer(p, n)'
<1>0. /\ waiting \in Seq(Procs) /\ waiting # << >> /\ count = 0
      /\ \A r \in Procs : HasToken(r) => r = q
  BY DEF IInv, TypeInv, TokenInv, ListInv, Waits
<1>1. CASE UNCHANGED vars
  BY <1>1 DEF vars, semaVars, HasToken, Waits
<1>2. ASSUME NEW r \in Procs, Enter(r) \/ ReadBody(r) \/ WriteBody(r)
      PROVE  HasToken(q)' /\ Waits(p, n)'
  <2>1. UNCHANGED <<waiting, granted>>
    BY <1>2 DEF Enter, ReadBody, WriteBody, semaVars
  <2>2. CASE pc[q] \in Within
    <3>1. CASE r = q
      <4>1. ~Enter(q)
        BY <2>2 DEF Enter, Dev!ReadCall, Dev!WriteCall, Dev!Enter, Within
      <4>2. PICK l \in Within : pc' = [pc EXCEPT ![q] = l]
        BY <1>2, <3>1, <4>1
           DEF ReadBody, WriteBody, Dev!ReadCheck, Dev!ReadCopy, Dev!ReadMove, Dev!ReadLen,
               Dev!WriteCheck, Dev!WriteCopy, Dev!WriteLen, Dev!Fail, Dev!Goto, Within
      <4> QED BY <2>1, <4>2 DEF IInv, TypeInv, HasToken, Waits
    <3>2. CASE r # q
      <4>1. pc'[q] = pc[q]
        BY <1>2, <3>2, OneMoves DEF Body
      <4> QED BY <2>1, <2>2, <4>1 DEF HasToken, Waits
    <3> QED BY <3>1, <3>2
  <2>3. CASE granted = q
    BY <2>1, <2>3 DEF HasToken, Waits
  <2> QED BY <2>2, <2>3 DEF HasToken
<1>3. ASSUME NEW r \in Procs, Down(r) PROVE HasToken(q)' /\ Waits(p, n)'
  <2>1. waiting' = Append(waiting, r) /\ UNCHANGED <<pc, granted>>
    BY <1>0, <1>3 DEF Down
  <2>2. n \in DOMAIN waiting' /\ waiting'[n] = waiting[n]
    BY <1>0, <2>1 DEF Waits
  <2> QED BY <2>1, <2>2 DEF HasToken, Waits
<1>4. ASSUME NEW r \in Procs, DownReturns(r) PROVE HasToken(q)' /\ Waits(p, n)'
  <2>1. r = q
    BY <1>0, <1>4 DEF DownReturns, HasToken
  <2>2. (pc[q] \in Within)'
    BY <1>4, <2>1, ChosenStep DEF DownReturns, Body
  <2> QED BY <1>4, <2>2 DEF DownReturns, HasToken, Waits
<1>5. ASSUME NEW r \in Procs, Up(r) PROVE Nearer(p, n)'
  <2>1. granted' = Head(waiting) /\ waiting' = Tail(waiting)
    BY <1>0, <1>5 DEF Up
  <2>2. CASE n = 1
    BY <1>0, <2>1, <2>2 DEF Waits, Nearer
  <2>3. CASE n # 1
    <3>1. n - 1 \in DOMAIN waiting' /\ waiting'[n - 1] = waiting[n]
      BY <1>0, <2>1, <2>3 DEF Waits
    <3> QED BY <2>3, <3>1 DEF Waits, Nearer
  <2> QED BY <2>2, <2>3
<1> QED BY <1>1, <1>2, <1>3, <1>4, <1>5 DEF Next, Body

\* Whatever process has the token.
LEMMA MovesOnAfter ==
  ASSUME NEW p \in Procs, NEW n \in Nat \ {0}, NEW q \in Procs
  PROVE  []IInv /\ [][Next]_vars /\ BodyRuns(q)
         => [](HasToken(q) => (Waits(p, n) => <>Nearer(p, n)))
<1>1. IInv /\ [Next]_vars /\ Waits(p, n) /\ HasToken(q)
      => (HasToken(q) /\ Waits(p, n))' \/ Nearer(p, n)'
  BY ListMoves
<1>2. []IInv /\ [][Next]_vars /\ BodyRuns(q) => GivesUp(q)
  BY TokenIsGivenUp
<1> QED BY <1>1, <1>2, PTL DEF GivesUp

LEMMA MovesOnAfterAny ==
  ASSUME NEW p \in Procs, NEW n \in Nat \ {0}
  PROVE  (\A q \in Procs : [](HasToken(q) => (Waits(p, n) => <>Nearer(p, n))))
         => []((\E q \in Procs : HasToken(q)) => (Waits(p, n) => <>Nearer(p, n)))
<1>1. (\A q \in Procs : [](HasToken(q) => (Waits(p, n) => <>Nearer(p, n))))
      => [](\A q \in Procs : HasToken(q) => (Waits(p, n) => <>Nearer(p, n)))
  OBVIOUS
<1>2. (\A q \in Procs : HasToken(q) => (Waits(p, n) => <>Nearer(p, n)))
      => ((\E q \in Procs : HasToken(q)) => (Waits(p, n) => <>Nearer(p, n)))
  OBVIOUS
<1> QED BY <1>1, <1>2, PTL

ComesNearer(p, n) == Waits(p, n) ~> Nearer(p, n)

LEMMA WaiterComesNearer ==
  ASSUME NEW p \in Procs, NEW n \in Nat \ {0}
  PROVE  Spec /\ AllGo => ComesNearer(p, n)
<1>1. Spec => []IInv /\ [][Next]_vars
  BY Invariant, PTL DEF Spec
<1>2. ASSUME NEW q \in Procs
      PROVE  Spec /\ AllGo => [](HasToken(q) => (Waits(p, n) => <>Nearer(p, n)))
  <2>1. AllGo => BodyRuns(q)
    BY DEF AllGo
  <2> QED BY <1>1, <2>1, MovesOnAfter, PTL
<1>3. Spec /\ AllGo => \A q \in Procs : [](HasToken(q) => (Waits(p, n) => <>Nearer(p, n)))
  BY <1>2
<1>4. IInv => (Waits(p, n) => \E q \in Procs : HasToken(q))
  BY DEF IInv, TypeInv, TokenInv, ListInv, Waits
<1> QED BY <1>1, <1>3, <1>4, MovesOnAfterAny, PTL DEF ComesNearer

\* However many wait, and wherever in the list a process is: it comes nearer,
\* and the first of the list is chosen.
THEOREM WaitersComeNearer ==
  Spec /\ AllGo => \A p \in Procs, n \in Nat \ {0} : ComesNearer(p, n)
BY WaiterComesNearer

\* Who calls down() goes in or joins the list.
Asks(p) == pc[p] \in AtDown /\ p \notin Waiting /\ granted # p

LEMMA AskerStep ==
  ASSUME IInv, NEW p \in Procs, Asks(p)
  PROVE  /\ CanGo(p)
         /\ Body(p) => (pc[p] \in Within)' \/ (p \in Waiting)'
         /\ [Next]_vars => Asks(p)' \/ (pc[p] \in Within)' \/ (p \in Waiting)'
<1>1. CanGo(p)
  BY DEF Asks, CanGo, AtDown
<1>2. ASSUME Body(p) PROVE (pc[p] \in Within)' \/ (p \in Waiting)'
  <2>1. ~DownReturns(p) /\ ~Up(p) /\ ~ReadBody(p) /\ ~WriteBody(p)
    BY DEF Asks, DownReturns, Up, ReadBody, WriteBody, AtDown, Dev!ReadCheck, Dev!ReadCopy,
           Dev!ReadMove, Dev!ReadLen, Dev!WriteCheck, Dev!WriteCopy, Dev!WriteLen
  <2>2. Down(p)
    BY <1>2, <2>1 DEF Body
  <2>3. CASE GoIn(p)
    BY <2>3 DEF GoIn, Asks, IInv, TypeInv, AtDown, Within
  <2>4. CASE waiting' = Append(waiting, p)
    <3>1. Len(waiting) + 1 \in DOMAIN waiting' /\ waiting'[Len(waiting) + 1] = p
      BY <2>4 DEF IInv, TypeInv
    <3> QED BY <3>1 DEF Waiting
  <2> QED BY <2>2, <2>3, <2>4 DEF Down
<1>3. ASSUME [Next]_vars PROVE Asks(p)' \/ (pc[p] \in Within)' \/ (p \in Waiting)'
  <2>1. CASE UNCHANGED vars
    BY <2>1 DEF vars, semaVars, Asks, Waiting, AtDown
  <2>2. CASE Enter(p)
    BY <2>2 DEF Enter, Dev!ReadCall, Dev!WriteCall, Dev!Enter, Asks, AtDown
  <2>3. ASSUME NEW q \in Procs, Enter(q) \/ Body(q), q # p
        PROVE  Asks(p)'
    <3>1. pc'[p] = pc[p]
      BY <2>3, OneMoves
    <3>2. granted' # p /\ p \notin Waiting'
      <4>1. waiting \in Seq(Procs) /\ \A i \in DOMAIN waiting : waiting[i] # p
        BY DEF IInv, TypeInv, Asks, Waiting
      <4>2. CASE UNCHANGED waiting /\ granted' \in {granted, NoProc}
        BY <4>1, <4>2, NoProcAssumption DEF Asks, Waiting
      <4>3. CASE waiting' = Append(waiting, q) /\ UNCHANGED granted
        <5>1. \A i \in DOMAIN waiting' : waiting'[i] # p
          BY <2>3, <4>1, <4>3
        <5> QED BY <4>3, <5>1 DEF Asks, Waiting
      <4>4. CASE waiting # << >> /\ granted' = Head(waiting) /\ waiting' = Tail(waiting)
        <5>1. granted' # p /\ \A i \in DOMAIN waiting' : waiting'[i] # p
          BY <4>1, <4>4
        <5> QED BY <5>1 DEF Waiting
      <4>5. CASE Enter(q) \/ ReadBody(q) \/ WriteBody(q)
        BY <4>2, <4>5 DEF Enter, ReadBody, WriteBody, semaVars
      <4>6. CASE Down(q)
        BY <4>2, <4>3, <4>6 DEF Down
      <4>7. CASE DownReturns(q)
        BY <4>2, <4>7 DEF DownReturns
      <4>8. CASE Up(q)
        BY <4>2, <4>4, <4>8 DEF Up
      <4> QED BY <2>3, <4>5, <4>6, <4>7, <4>8 DEF Body
    <3> QED BY <3>1, <3>2 DEF Asks, AtDown
  <2> QED BY <1>2, <1>3, <2>1, <2>2, <2>3 DEF Next
<1> QED BY <1>1, <1>2, <1>3

\* With any number of processes every call returns, as long as no more than
\* four wait at a time: so far the induction on the place is written out.
THEOREM CallsReturnUpToFourWaiters ==
  Spec /\ AllGo /\ [](Len(waiting) <= 4) => CallsReturn
<1>1. Spec => []IInv /\ [][Next]_vars
  BY Invariant, PTL DEF Spec
<1>2. ASSUME NEW p \in Procs
      PROVE  Spec /\ AllGo /\ [](Len(waiting) <= 4) => (pc[p] # "idle" ~> pc[p] = "idle")
  <2>1. AllGo => BodyRuns(p)
    BY DEF AllGo
  <2>2. Spec /\ AllGo => /\ ComesNearer(p, 4) /\ ComesNearer(p, 3)
                        /\ ComesNearer(p, 2) /\ ComesNearer(p, 1)
    BY WaitersComeNearer
  <2>3. /\ Nearer(p, 4) => Waits(p, 3)
        /\ Nearer(p, 3) => Waits(p, 2)
        /\ Nearer(p, 2) => Waits(p, 1)
        /\ Nearer(p, 1) => granted = p
    BY DEF Nearer
  <2>4. IInv /\ Len(waiting) <= 4 =>
          (p \in Waiting => Waits(p, 4) \/ Waits(p, 3) \/ Waits(p, 2) \/ Waits(p, 1))
    BY DEF IInv, TypeInv, Waiting, Waits
  <2>5. IInv /\ pc[p] # "idle" => Asks(p) \/ p \in Waiting \/ granted = p \/ pc[p] \in Within
    BY DEF IInv, TypeInv, Asks
  <2>6. IInv /\ [Next]_vars /\ Asks(p) => Asks(p)' \/ (pc[p] \in Within)' \/ (p \in Waiting)'
    BY AskerStep
  <2>7. IInv /\ <<Body(p)>>_vars /\ Asks(p) => (pc[p] \in Within)' \/ (p \in Waiting)'
    BY AskerStep
  <2>8. IInv /\ Asks(p) => CanGo(p)
    BY AskerStep
  <2> QED
    BY <1>1, <2>1, <2>2, <2>3, <2>4, <2>5, <2>6, <2>7, <2>8, ChosenGoesIn, InsideReturns, PTL
       DEF BodyRuns, ComesNearer
<1> QED BY <1>2 DEF CallsReturn
-----------------------------------------------------------------------------
(***************************************************************************)
(* So the device with the semaphore is a queue of bytes as well, by what   *)
(* KbufDevProofs proves.  Devp is that module, with Holder in the place of *)
(* the mutex; what it says of KbufDev's definitions is the same as what    *)
(* Dev says of them, action by action.                                     *)
(***************************************************************************)
Devp == INSTANCE KbufDevProofs WITH mutex <- Holder

LEMMA SameCalls ==
  ASSUME NEW p \in Procs
  PROVE  /\ Devp!ReadCall(p) <=> Dev!ReadCall(p)
         /\ Devp!WriteCall(p) <=> Dev!WriteCall(p)
         /\ Devp!MutexLock(p) <=> Dev!MutexLock(p)
         /\ Devp!MutexUnlock(p) <=> Dev!MutexUnlock(p)
<1>1. Devp!UserData = Dev!UserData
  BY DEF Devp!UserData, Dev!UserData
<1>2. \A s, l : Devp!Enter(p, s, l) <=> Dev!Enter(p, s, l)
  BY DEF Devp!Enter, Dev!Enter, Devp!Goto, Dev!Goto
<1>3. /\ Devp!ReadCall(p) <=> Dev!ReadCall(p)
      /\ Devp!WriteCall(p) <=> Dev!WriteCall(p)
  BY <1>1, <1>2 DEF Devp!ReadCall, Dev!ReadCall, Devp!WriteCall, Dev!WriteCall
<1>4. Devp!MutexLock(p) <=> Dev!MutexLock(p)
  BY DEF Devp!MutexLock, Dev!MutexLock, Devp!Goto, Dev!Goto
<1>5. Devp!MutexUnlock(p) <=> Dev!MutexUnlock(p)
  BY DEF Devp!MutexUnlock, Dev!MutexUnlock, Devp!Goto, Dev!Goto
<1> QED BY <1>3, <1>4, <1>5

LEMMA SameFailures ==
  ASSUME NEW p \in Procs
  PROVE  /\ Devp!Fail(p, Devp!EIO) <=> Dev!Fail(p, Dev!EIO)
         /\ Devp!Fail(p, Devp!EAGAIN) <=> Dev!Fail(p, Dev!EAGAIN)
         /\ Devp!Fail(p, Devp!ENOSPC) <=> Dev!Fail(p, Dev!ENOSPC)
<1>1. Devp!EIO = Dev!EIO /\ Devp!EAGAIN = Dev!EAGAIN /\ Devp!ENOSPC = Dev!ENOSPC
  BY DEF Devp!EIO, Dev!EIO, Devp!EAGAIN, Dev!EAGAIN, Devp!ENOSPC, Dev!ENOSPC
<1>2. \A e : Devp!Fail(p, e) <=> Dev!Fail(p, e)
  BY DEF Devp!Fail, Dev!Fail, Devp!Goto, Dev!Goto
<1> QED BY <1>1, <1>2

LEMMA SameReads ==
  ASSUME NEW p \in Procs
  PROVE  /\ Devp!ReadCheck(p) <=> Dev!ReadCheck(p)
         /\ Devp!ReadCopy(p) <=> Dev!ReadCopy(p)
         /\ Devp!ReadMove(p) <=> Dev!ReadMove(p)
         /\ Devp!ReadLen(p) <=> Dev!ReadLen(p)
<1>1. \A l : Devp!Goto(p, l) <=> Dev!Goto(p, l)
  BY DEF Devp!Goto, Dev!Goto
<1>2. \A a, b : Devp!MinOf(a, b) = Dev!MinOf(a, b)
  BY DEF Devp!MinOf, Dev!MinOf
<1>3. Devp!ReadCheck(p) <=> Dev!ReadCheck(p)
  BY <1>1, <1>2, SameFailures DEF Devp!ReadCheck, Dev!ReadCheck
<1>4. Devp!ReadCopy(p) <=> Dev!ReadCopy(p)
  BY <1>1, SameFailures DEF Devp!ReadCopy, Dev!ReadCopy
<1>5. Devp!ReadMove(p) <=> Dev!ReadMove(p)
  BY <1>1 DEF Devp!ReadMove, Dev!ReadMove
<1>6. Devp!ReadLen(p) <=> Dev!ReadLen(p)
  BY <1>1 DEF Devp!ReadLen, Dev!ReadLen
<1> QED BY <1>3, <1>4, <1>5, <1>6

LEMMA SameWrites ==
  ASSUME NEW p \in Procs
  PROVE  /\ Devp!WriteCheck(p) <=> Dev!WriteCheck(p)
         /\ Devp!WriteCopy(p) <=> Dev!WriteCopy(p)
         /\ Devp!WriteLen(p) <=> Dev!WriteLen(p)
<1>1. \A l : Devp!Goto(p, l) <=> Dev!Goto(p, l)
  BY DEF Devp!Goto, Dev!Goto
<1>2. \A a, b : Devp!MinOf(a, b) = Dev!MinOf(a, b)
  BY DEF Devp!MinOf, Dev!MinOf
<1>3. \A k : Devp!Received(p, k) = Dev!Received(p, k)
  BY DEF Devp!Received, Dev!Received
<1>4. Devp!WriteCheck(p) <=> Dev!WriteCheck(p)
  BY <1>1, <1>2, SameFailures DEF Devp!WriteCheck, Dev!WriteCheck
<1>5. Devp!WriteCopy(p) <=> Dev!WriteCopy(p)
  BY <1>1, <1>3, SameFailures DEF Devp!WriteCopy, Dev!WriteCopy
<1>6. Devp!WriteLen(p) <=> Dev!WriteLen(p)
  BY <1>1 DEF Devp!WriteLen, Dev!WriteLen
<1> QED BY <1>4, <1>5, <1>6

LEMMA SameDevice == Dev!Spec => Devp!Spec
<1>1. Devp!Init <=> Dev!Init
  BY DEF Devp!Init, Dev!Init
<1>2. Devp!vars = Dev!vars /\ (Devp!vars)' = (Dev!vars)'
  BY DEF Devp!vars, Dev!vars
<1>3. ASSUME NEW p \in Procs PROVE Devp!Body(p) <=> Dev!Body(p)
  BY SameCalls, SameReads, SameWrites DEF Devp!Body, Dev!Body
<1>4. Devp!Next <=> Dev!Next
  BY <1>3, SameCalls DEF Devp!Next, Dev!Next
<1>5. [Dev!Next]_(Dev!vars) => [Devp!Next]_(Devp!vars)
  BY <1>2, <1>4
<1> QED BY <1>1, <1>5, PTL DEF Devp!Spec, Dev!Spec

\* For any number of processes, any buffer size and any data the device with
\* the semaphore is a bounded FIFO of bytes, as the one with the mutex is.
THEOREM SemaDeviceImplementsFifo == Spec => Devp!ImplementsFifo
BY SameDevice, Devp!DeviceImplementsFifo, SizeAssumption, NoProcAssumption, SemaImplementsMutex
   DEF ImplementsKbufDev

=============================================================================
