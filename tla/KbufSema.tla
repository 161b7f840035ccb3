------------------------------ MODULE KbufSema ------------------------------
(***************************************************************************)
(* src/locks/semaphore/kbuf.c: the device of KbufDev with a semaphore      *)
(* initialised to 1 in the place of the mutex.  The semaphore is the       *)
(* kernel's: a count and a first-come-first-served list of waiters; up()   *)
(* with waiters leaves the count at 0 and lets the first of them go on.    *)
(* A semaphore has no owner; Holder, the process between down() and up(),  *)
(* is what takes the place of KbufDev's mutex, and this module is shown to *)
(* implement KbufDev under that mapping.                                   *)
(***************************************************************************)
EXTENDS Integers, Sequences

CONSTANTS Procs, Byte, Zero, Cap, MaxCnt, NoProc

ASSUME NoProcAssumption == NoProc \notin Procs
ASSUME SizeAssumption == Cap \in Nat \ {0} /\ MaxCnt \in Nat /\ Zero \in Byte

VARIABLES kbuf, validlen, pc, cnt, ubuf, ret,  \* as in KbufDev
          count,   \* sema.count
          waiting, \* sema.wait_list, first come first
          granted  \* the waiter up() has chosen and that has not run since, or NoProc

dataVars == <<kbuf, validlen, cnt, ubuf, ret>>
semaVars == <<count, waiting, granted>>
vars == <<dataVars, pc, semaVars>>

Inside(p) == pc[p] \in {"r_check", "r_copy", "r_move", "r_len",
                        "w_check", "w_copy", "w_len", "unlock"}

Holder == IF \E p \in Procs : Inside(p) THEN CHOOSE p \in Procs : Inside(p) ELSE NoProc

Dev == INSTANCE KbufDev WITH mutex <- Holder

Waiting == {waiting[i] : i \in DOMAIN waiting}

\* Operators whose name begins with Bad are slips in what follows them.
BadInit ==
  /\ Dev!Init
  /\ count = 2
  /\ waiting = << >>
  /\ granted = NoProc

\* kbuf_init: sema_init(&kbufs[i].sema, 1)
Init ==
  /\ Dev!Init
  /\ count = 1
  /\ waiting = << >>
  /\ granted = NoProc

GoIn(p) == pc' = [pc EXCEPT ![p] = IF @ = "r_lock" THEN "r_check" ELSE "w_check"]

\* down(): take the semaphore, or join the end of the list of waiters.
Down(p) ==
  /\ pc[p] \in {"r_lock", "w_lock"}
  /\ p \notin Waiting \cup {granted}
  /\ \/ /\ count > 0
        /\ count' = count - 1
        /\ GoIn(p)
        /\ UNCHANGED waiting
     \/ /\ count = 0
        /\ waiting' = Append(waiting, p)
        /\ UNCHANGED <<count, pc>>
  /\ UNCHANGED <<dataVars, granted>>

\* A waiter that up() let go returns from down().
DownReturns(p) ==
  /\ granted = p
  /\ granted' = NoProc
  /\ GoIn(p)
  /\ UNCHANGED <<dataVars, count, waiting>>

\* The slip: up() runs on into error0 and is called again.
BadUpTwice(p) ==
  /\ pc[p] = "unlock"
  /\ IF waiting = << >>
       THEN count' = count + 2 /\ UNCHANGED <<waiting, granted>>
       ELSE /\ granted' = Head(waiting)
            /\ waiting' = Tail(waiting)
            /\ count' = count + 1
  /\ pc' = [pc EXCEPT ![p] = "idle"]
  /\ UNCHANGED dataVars

\* up() and the return from the call.
Up(p) ==
  /\ pc[p] = "unlock"
  /\ IF waiting = << >>
       THEN count' = count + 1 /\ UNCHANGED <<waiting, granted>>
       ELSE /\ granted' = Head(waiting)
            /\ waiting' = Tail(waiting)
            /\ UNCHANGED count
  /\ pc' = [pc EXCEPT ![p] = "idle"]
  /\ UNCHANGED dataVars

\* kbuf_read and kbuf_write between down() and up(): the steps KbufDev gives
\* them, line by line the same in both files.
ReadBody(p) ==
  /\ Dev!ReadCheck(p) \/ Dev!ReadCopy(p) \/ Dev!ReadMove(p) \/ Dev!ReadLen(p)
  /\ UNCHANGED semaVars

\* The slip: a write to the full buffer tries again with the semaphore held.
BadWriteBody(p) ==
  /\ \/ pc[p] = "w_check" /\ validlen = Cap /\ UNCHANGED <<dataVars, pc>>
     \/ validlen # Cap /\ Dev!WriteCheck(p)
     \/ Dev!WriteCopy(p)
     \/ Dev!WriteLen(p)
  /\ UNCHANGED semaVars

WriteBody(p) ==
  /\ Dev!WriteCheck(p) \/ Dev!WriteCopy(p) \/ Dev!WriteLen(p)
  /\ UNCHANGED semaVars

Enter(p) == (Dev!ReadCall(p) \/ Dev!WriteCall(p)) /\ UNCHANGED semaVars

Body(p) == Down(p) \/ DownReturns(p) \/ ReadBody(p) \/ WriteBody(p) \/ Up(p)

Next == \E p \in Procs : Enter(p) \/ Body(p)

Spec == Init /\ [][Next]_vars

\* Weak fairness alone: the list of waiters is what makes a lock request end.
FairSpec == Spec /\ \A p \in Procs : WF_vars(Body(p))

-----------------------------------------------------------------------------
\* The semaphore is one token: it is in the count, with the process between
\* down() and up(), or on its way to the waiter up() chose.
OneToken ==
  /\ count \in 0..1
  /\ LET inside == {p \in Procs : Inside(p)} IN
     \/ count = 1 /\ inside = {} /\ granted = NoProc
     \/ count = 0 /\ (\E p \in Procs : inside = {p}) /\ granted = NoProc
     \/ count = 0 /\ inside = {} /\ granted \in Procs

\* A process waits only while somebody has the token, so somebody's up() will
\* let it go; nobody waits twice.
NobodyForgotten ==
  /\ waiting # << >> => count = 0
  /\ \A i, j \in DOMAIN waiting : waiting[i] = waiting[j] => i = j
  /\ granted \notin Waiting

\* The semaphore gives the device the behaviour the mutex gives it.
ImplementsKbufDev == Dev!Spec

\* Every call that has started returns, with no fairness assumed of the lock.
CallsReturn == \A p \in Procs : pc[p] # "idle" ~> pc[p] = "idle"

=============================================================================
