------------------------------ MODULE OpenCount ------------------------------
(***************************************************************************)
(* Opening a device at most once with an atomic counter that starts at 1.  *)
(* open takes 1 off and tests for 0; who does not get 0 puts 1 back and    *)
(* reports EBUSY - two atomic steps, with other processes in between.      *)
(*                                                                         *)
(*   "always"   src/kernel_code_v1/lock/atomic/demo.c: release adds 1      *)
(*   "ifzero"   src/locks/atomic/demo.c: it adds 1 only if it reads 0      *)
(*   "trylock"  src/kernel_code_v1/beep/beep.c and lock/spin_trylock: a    *)
(*              lock instead of a counter, taken by open in one step if it *)
(*              is free and given back by release; 1 is free, 0 is taken   *)
(*                                                                         *)
(* The open file of a process is closed once, after a successful open.     *)
(***************************************************************************)
EXTENDS Integers, FiniteSets

CONSTANTS Procs,
          Kinds   \* the drivers looked at, among the three above

ASSUME ProcsAssumption == IsFiniteSet(Procs)
ASSUME KindsAssumption == Kinds \subseteq {"always", "ifzero", "trylock"}

VARIABLES kind,   \* the driver; never changes
          flags,  \* open_flags / open_cnt_flg / the lock
          pc

vars == <<kind, flags, pc>>

Init ==
  /\ kind \in Kinds
  /\ flags = 1
  /\ pc = [p \in Procs |-> "closed"]

Goto(p, l) == pc' = [pc EXCEPT ![p] = l]

\* Operators whose name begins with Bad are slips in what follows them.
\* Here: every negative result is taken for success, as if the test were on < 0.
BadOpen(p) ==
  /\ kind # "trylock" /\ pc[p] = "closed"
  /\ flags' = flags - 1
  /\ Goto(p, IF flags' <= 0 THEN "open" ELSE "busy")

\* atomic_sub_and_test / atomic_dec_and_test
Open(p) ==
  /\ kind # "trylock" /\ pc[p] = "closed"
  /\ flags' = flags - 1
  /\ Goto(p, IF flags' = 0 THEN "open" ELSE "busy")

\* mutex_trylock / spin_trylock; a process that fails leaves with EBUSY
TryOpen(p) ==
  /\ kind = "trylock" /\ pc[p] = "closed" /\ flags = 1
  /\ flags' = 0
  /\ Goto(p, "open")

\* The slip: EBUSY without putting the 1 back.
BadOpenBusy(p) == pc[p] = "busy" /\ Goto(p, "closed") /\ UNCHANGED flags

\* atomic_inc and return -EBUSY
OpenBusy(p) ==
  /\ pc[p] = "busy"
  /\ flags' = flags + 1
  /\ Goto(p, "closed")

\* atomic_inc, or the unlock
ReleaseAlways(p) ==
  /\ kind # "ifzero" /\ pc[p] = "open"
  /\ flags' = flags + 1
  /\ Goto(p, "closed")

\* atomic_read, and atomic_inc in a later step when it was 0
ReleaseTest(p) ==
  /\ kind = "ifzero" /\ pc[p] = "open"
  /\ Goto(p, IF flags = 0 THEN "adding" ELSE "closed")
  /\ UNCHANGED flags

ReleaseAdd(p) ==
  /\ kind = "ifzero" /\ pc[p] = "adding"
  /\ flags' = flags + 1
  /\ Goto(p, "closed")

ReleaseIfZero(p) == ReleaseTest(p) \/ ReleaseAdd(p)

Release(p) == ReleaseAlways(p) \/ ReleaseIfZero(p)

Next ==
  /\ \E p \in Procs : Open(p) \/ TryOpen(p) \/ OpenBusy(p) \/ Release(p)
  /\ UNCHANGED kind

Spec == Init /\ [][Next]_vars

-----------------------------------------------------------------------------
Holds(p) == pc[p] \in {"open", "adding"}

\* Never two processes with the device open.
AtMostOneOpen == \A p, r \in Procs : Holds(p) /\ Holds(r) => p = r

\* locks/atomic/demo.c:15-16: with an atomic variable and its functions the
\* race is gone.  So when nobody has the device and no open is under way it
\* can be opened.
IdleDeviceCanBeOpened ==
  (\A p \in Procs : pc[p] = "closed") => flags = 1

\* The same of the drivers whose release puts back what open took.
IdleExactDeviceCanBeOpened == kind # "ifzero" => IdleDeviceCanBeOpened

=============================================================================
