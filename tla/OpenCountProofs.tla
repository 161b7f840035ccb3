--------------------------- MODULE OpenCountProofs ---------------------------
(***************************************************************************)
(* The device is open at most once, for every finite number of processes   *)
(* and for all three drivers.  The counter alone is not inductive: what    *)
(* keeps it from reaching 1 too early is that every process that has taken *)
(* a 1 is counted (NothingInvented), and an open that gets 0 had found a   *)
(* 1, hence nobody owing.                                                  *)
(***************************************************************************)
EXTENDS OpenCount, FiniteSetTheorems, TLAPS

States == {"closed", "open", "adding", "busy"}

TypeInv == kind \in Kinds /\ flags \in Int /\ pc \in [Procs -> States]

\* The processes that have taken a 1 and have not put it back.
Owing == {p \in Procs : pc[p] \in {"open", "adding", "busy"}}

\* No driver invents a 1, though the one that looks first may forget one.
NothingInvented == flags <= 1 - Cardinality(Owing)

\* The others do neither.
CountBalances == kind # "ifzero" => flags = 1 - Cardinality(Owing)

IInv == TypeInv /\ NothingInvented /\ AtMostOneOpen

\* The processes that owe a 1 are finitely many, so they can be counted.
LEMMA OwingIsFinite == IsFiniteSet(Owing) /\ Cardinality(Owing) \in Nat
<1>1. Owing \subseteq Procs
  BY DEF Owing
<1> QED BY <1>1, ProcsAssumption, FS_Subset, FS_CardinalityType

\* A process that starts to owe is one more.
LEMMA OneMore ==
  ASSUME TypeInv, NEW p \in Procs, pc[p] = "closed", NEW l \in {"open", "busy"},
         pc' = [pc EXCEPT ![p] = l]
  PROVE  Cardinality(Owing') = Cardinality(Owing) + 1
<1>1. Owing' = Owing \cup {p} /\ p \notin Owing
  BY DEF Owing, TypeInv, States
<1> QED BY <1>1, OwingIsFinite, FS_AddElement

\* A process that has put its 1 back, or left without, is one less.
LEMMA OneLess ==
  ASSUME TypeInv, NEW p \in Procs, p \in Owing, pc' = [pc EXCEPT ![p] = "closed"]
  PROVE  Cardinality(Owing') = Cardinality(Owing) - 1
<1>1. Owing' = Owing \ {p}
  BY DEF Owing, TypeInv, States
<1> QED BY <1>1, OwingIsFinite, FS_RemoveElement

\* At the start the counter is 1 and nobody owes anything.
LEMMA InitIInv == Init => IInv
<1> SUFFICES ASSUME Init PROVE IInv
  OBVIOUS
<1>1. Owing = {}
  BY DEF Init, Owing
<1>2. Cardinality(Owing) = 0
  BY <1>1, FS_EmptySet
<1> QED BY <1>2 DEF Init, IInv, TypeInv, States, NothingInvented, AtMostOneOpen, Holds

\* The ways of open to take the 1, dec-and-test and trylock: a success leaves none for others.
LEMMA OpenIInv ==
  ASSUME IInv, NEW p \in Procs, Open(p) \/ TryOpen(p), kind' = kind
  PROVE  IInv'
<1>1. PICK l \in {"open", "busy"} : pc' = [pc EXCEPT ![p] = l] /\ (l = "open" => flags' = 0)
  BY DEF Open, TryOpen, Goto
<1>2. pc[p] = "closed" /\ flags' = flags - 1
  BY DEF Open, TryOpen
<1>3. Cardinality(Owing') = Cardinality(Owing) + 1
  BY <1>1, <1>2, OneMore DEF IInv
<1>4. TypeInv' /\ NothingInvented'
  BY <1>1, <1>2, <1>3, OwingIsFinite DEF IInv, TypeInv, States, NothingInvented
<1>5. AtMostOneOpen'
  <2>1. CASE l = "busy"
    BY <1>1, <1>2, <2>1 DEF IInv, TypeInv, States, AtMostOneOpen, Holds
  <2>2. CASE l = "open"
    <3>1. Cardinality(Owing) = 0
      BY <1>1, <1>2, <2>2, OwingIsFinite DEF IInv, TypeInv, NothingInvented
    <3>2. Owing = {}
      BY <3>1, OwingIsFinite, FS_EmptySet
    <3> QED BY <1>1, <2>2, <3>2 DEF IInv, TypeInv, States, AtMostOneOpen, Holds, Owing
  <2> QED BY <2>1, <2>2
<1> QED BY <1>4, <1>5 DEF IInv

\* The steps after which a process owes nothing any more, add they 1 or not.
LEMMA CloseIInv ==
  ASSUME IInv, NEW p \in Procs, p \in Owing, pc' = [pc EXCEPT ![p] = "closed"],
         flags' \in {flags, flags + 1}, kind' = kind
  PROVE  IInv'
<1>1. Cardinality(Owing') = Cardinality(Owing) - 1
  BY OneLess DEF IInv
<1>2. TypeInv' /\ NothingInvented'
  BY <1>1, OwingIsFinite DEF IInv, TypeInv, States, NothingInvented
<1>3. AtMostOneOpen'
  BY DEF IInv, TypeInv, States, AtMostOneOpen, Holds
<1> QED BY <1>2, <1>3 DEF IInv

\* Every step keeps the invariant.
LEMMA NextIInv == IInv /\ [Next]_vars => IInv'
<1> SUFFICES ASSUME IInv, [Next]_vars PROVE IInv'
  OBVIOUS
<1>0. kind' = kind
  BY DEF Next, vars
<1>1. CASE UNCHANGED vars
  BY <1>1 DEF vars, IInv, TypeInv, NothingInvented, AtMostOneOpen, Holds, Owing
<1>2. ASSUME NEW p \in Procs, OpenBusy(p) PROVE IInv'
  BY <1>2, <1>0, CloseIInv DEF OpenBusy, Goto, Owing
<1>3. ASSUME NEW p \in Procs, ReleaseAlways(p) PROVE IInv'
  BY <1>3, <1>0, CloseIInv DEF ReleaseAlways, Goto, Owing
<1>4. ASSUME NEW p \in Procs, ReleaseAdd(p) PROVE IInv'
  BY <1>4, <1>0, CloseIInv DEF ReleaseAdd, Goto, Owing
<1>5. ASSUME NEW p \in Procs, ReleaseTest(p) PROVE IInv'
  <2>1. CASE flags = 0
    <3>1. pc[p] = "open" /\ pc' = [pc EXCEPT ![p] = "adding"] /\ flags' = flags
      BY <1>5, <2>1 DEF ReleaseTest, Goto
    <3>2. Owing' = Owing
      BY <3>1 DEF Owing, IInv, TypeInv, States
    <3> QED BY <1>0, <3>1, <3>2 DEF IInv, TypeInv, States, NothingInvented, AtMostOneOpen, Holds
  <2>2. CASE flags # 0
    BY <1>0, <1>5, <2>2, CloseIInv DEF ReleaseTest, Goto, Owing
  <2> QED BY <2>1, <2>2
<1> QED
  BY <1>0, <1>1, <1>2, <1>3, <1>4, <1>5, OpenIInv DEF Next, Release, ReleaseIfZero

\* However many processes open and close the device, whatever the
\* driver, at most one has it open.
THEOREM Exclusive == Spec => []AtMostOneOpen
<1>1. IInv => AtMostOneOpen
  BY DEF IInv
<1> QED BY <1>1, InitIInv, NextIInv, PTL DEF Spec

\* Unless release looks before it adds, the counter is exact ...
LEMMA BalanceStep ==
  ASSUME IInv, CountBalances, [Next]_vars
  PROVE  CountBalances'
<1> SUFFICES ASSUME kind # "ifzero"
             PROVE  flags' = 1 - Cardinality(Owing')
  BY DEF CountBalances, Next, vars
<1>1. CASE UNCHANGED vars
  BY <1>1 DEF vars, CountBalances, Owing
<1>2. ASSUME NEW p \in Procs, Open(p) \/ TryOpen(p) PROVE flags' = 1 - Cardinality(Owing')
  <2>1. PICK l \in {"open", "busy"} : pc' = [pc EXCEPT ![p] = l]
    BY <1>2 DEF Open, TryOpen, Goto
  <2>2. pc[p] = "closed" /\ flags' = flags - 1
    BY <1>2 DEF Open, TryOpen
  <2>3. Cardinality(Owing') = Cardinality(Owing) + 1
    BY <2>1, <2>2, OneMore DEF IInv
  <2> QED BY <2>2, <2>3, OwingIsFinite DEF CountBalances
<1>3. ASSUME NEW p \in Procs, OpenBusy(p) \/ ReleaseAlways(p) PROVE flags' = 1 - Cardinality(Owing')
  <2>1. p \in Owing /\ pc' = [pc EXCEPT ![p] = "closed"] /\ flags' = flags + 1
    BY <1>3 DEF OpenBusy, ReleaseAlways, Goto, Owing
  <2>2. Cardinality(Owing') = Cardinality(Owing) - 1
    BY <2>1, OneLess DEF IInv
  <2> QED BY <2>1, <2>2, OwingIsFinite DEF CountBalances
<1> QED BY <1>1, <1>2, <1>3 DEF Next, Release, ReleaseIfZero, ReleaseTest, ReleaseAdd

\* ... so a device that nobody has open, or is opening, can be opened.
THEOREM NeverStuck == Spec => []IdleExactDeviceCanBeOpened
<1>1. Init => CountBalances
  <2> SUFFICES ASSUME Init PROVE CountBalances
    OBVIOUS
  <2>1. Owing = {}
    BY DEF Init, Owing
  <2>2. Cardinality(Owing) = 0
    BY <2>1, FS_EmptySet
  <2> QED BY <2>2 DEF Init, CountBalances
<1>2. IInv /\ CountBalances /\ [Next]_vars => CountBalances'
  BY BalanceStep
<1>3. CountBalances => IdleExactDeviceCanBeOpened
  <2> SUFFICES ASSUME CountBalances, kind # "ifzero", \A p \in Procs : pc[p] = "closed"
               PROVE  flags = 1
    BY DEF IdleExactDeviceCanBeOpened, IdleDeviceCanBeOpened
  <2>1. Owing = {}
    BY DEF Owing
  <2>2. Cardinality(Owing) = 0
    BY <2>1, FS_EmptySet
  <2> QED BY <2>2 DEF CountBalances
<1> QED BY <1>1, <1>2, <1>3, InitIInv, NextIInv, PTL DEF Spec

=============================================================================
