----------------------------- MODULE ListDevProofs ------------------------------
(***************************************************************************)
(* The four properties of ListDev, for every set of programs, any number   *)
(* of elements, every limit, and the three drivers.  The invariant has     *)
(* three parts:                                                            *)
(*   Sound    where each element is while no freed memory has been used:   *)
(*            behind the head, with one write, lost, or freed (after such  *)
(*            a use the memory may hold anything and nothing is claimed);  *)
(*   RoomInv  what the writes under way can still add to what is counted;  *)
(*   FifoInv  the two histories, and what the list counts in all.          *)
(* Total is a recursive sum.  Nothing is proved of it by induction over    *)
(* the list: SumIs says that the equations of the sum have a solution and  *)
(* that every solution ends in n, and each step of the driver carries      *)
(* that from one list to the next.                                         *)
(***************************************************************************)
EXTENDS ListDev, FiniteSetTheorems, SequenceTheorems, TLAPS

\* p is in a write and has its element.
Writing(p) == pc[p] \in {"alloc", "copy"}

\* Type correctness.
ListTypeInv ==
  /\ kind \in Kinds /\ module \in {"in", "freed", "removing", "gone"}
  /\ list \in Seq(Elems) /\ num \in Int
  /\ mem \in [Elems -> {"unused", "live", "freed"}] /\ size \in [Elems -> Nat]
  /\ pc \in [Procs -> {"user", "alloc", "copy", "give"}]
  /\ elem \in [Procs -> Elems \cup {NoElem}]
  /\ \A p \in Procs : pc[p] # "user" => elem[p] \in Elems
  /\ log \in Seq(Elems) /\ taken \in Seq(Elems) /\ lost \in SUBSET Elems
  /\ met \in BOOLEAN /\ broken \in BOOLEAN

\* Who may still be in a call.
ModuleInv ==
  /\ module = "freed" => kind = "v1proc"
  /\ module = "removing" => kind # "stu"
  /\ module = "gone" => Idle

\* A write has its element for itself.
HeldInv ==
  /\ \A p \in Procs : pc[p] = "alloc" => mem[elem[p]] = "unused"
  /\ \A p \in Procs : pc[p] = "copy" => mem[elem[p]] = "live" /\ elem[p] \notin lost
  /\ \A p \in Procs : pc[p] = "copy" => \A i \in DOMAIN list : list[i] # elem[p]
  /\ \A p, q \in Procs : Writing(p) /\ Writing(q) /\ elem[p] = elem[q] => p = q

\* No element is in the list twice, and it was allocated.
LinkInv ==
  /\ \A i, j \in DOMAIN list : list[i] = list[j] => i = j
  /\ \A i \in DOMAIN list : mem[list[i]] # "unused" /\ list[i] \notin lost
  /\ ~FreedInUse /\ module # "gone" => \A i \in DOMAIN list : mem[list[i]] = "live"
  /\ ~FreedInUse /\ module = "gone" => \A i \in DOMAIN list : mem[list[i]] = "freed"
  /\ kind = "stu" => num = Len(list)

\* Where a live element is.
LiveInv ==
  /\ \A e \in lost : mem[e] = "live"
  /\ \A e \in Elems : mem[e] = "live" =>
       \/ \E i \in DOMAIN list : list[i] = e
       \/ e \in lost
       \/ \E p \in Procs : pc[p] = "copy" /\ elem[p] = e

\* A read of dlist has the first element, or one that another has freed.
GiveInv ==
  /\ \A p \in Procs : pc[p] = "give" =>
       /\ kind = "stu"
       /\ mem[elem[p]] = "freed" \/ (list # <<>> /\ elem[p] = list[1])
  /\ ~met => \A p, q \in Procs : pc[p] = "give" /\ pc[q] = "give" => p = q
  /\ ~met => \A p \in Procs : pc[p] = "give" => list # <<>> /\ elem[p] = list[1]

Sound == ModuleInv /\ HeldInv /\ LinkInv /\ LiveInv /\ GiveInv

\* The programs that are not in a write.
Free == {p \in Procs : ~Writing(p)}

\* A write under way has still to use the place that its test granted it.
\* So dlist is over its limit by no more than the programs that are not in a
\* write; procfs counts a limit for each of those, or, when it counts more,
\* there is a write that tested at what is counted now, or before, and whose
\* element is within the next limit.
RoomInv ==
  /\ kind = "stu" => Len(list) <= Limit + Cardinality(Free)
  /\ kind = "procfs" =>
       /\ num \in Nat
       /\ \A p \in Procs : Writing(p) => size[elem[p]] <= Limit
       /\ \/ num <= Limit * Cardinality(Free)
          \/ \E p \in Procs : Writing(p) /\ num + size[elem[p]] <= Limit * (Cardinality(Free) + 1)

LEMMA ListFacts ==
  ASSUME ListTypeInv
  PROVE  /\ Len(list) \in Nat /\ DOMAIN list = 1..Len(list)
         /\ \A i \in DOMAIN list : list[i] \in Elems
         /\ (list # <<>> => 1 \in DOMAIN list)
BY DEF ListTypeInv

LEMMA MinTwo ==
  ASSUME NEW a \in Nat, NEW b \in Nat
  PROVE  Min({a, b}) \in {a, b} /\ Min({a, b}) <= a /\ Min({a, b}) <= b
<1>1. \E x \in {a, b} : \A y \in {a, b} : x =< y
  <2>1. CASE a <= b
    BY <2>1
  <2>2. CASE b <= a
    BY <2>2
  <2> QED BY <2>1, <2>2
<1> QED BY <1>1 DEF Min

\* The types, action by action.
LEMMA ReturnType ==
  ASSUME ListTypeInv, NEW p \in Procs, Return(p)
  PROVE  /\ pc' \in [Procs -> {"user", "alloc", "copy", "give"}]
         /\ elem' \in [Procs -> Elems \cup {NoElem}]
         /\ pc'[p] = "user"
         /\ \A q \in Procs : q # p => pc'[q] = pc[q] /\ elem'[q] = elem[q]
         /\ \A q \in Procs : pc'[q] # "user" => q # p /\ elem'[q] \in Elems
BY DEF ListTypeInv, Return

LEMMA MisusedType ==
  ASSUME ListTypeInv, NEW es, Misused(es)
  PROVE  broken' \in BOOLEAN
BY Zenon DEF Misused

LEMMA TestType ==
  ASSUME ListTypeInv, RoomInv, NEW p \in Procs, NEW e \in Elems, NEW n \in Sizes, WriteTest(p, e, n)
  PROVE  ListTypeInv' /\ (kind = "procfs" => num < Limit /\ size'[e] <= Limit - num)
<1>1. n \in Nat /\ Limit \in Nat
  BY SizesAssumption
<1>2. kind = "procfs" => num \in Nat /\ num < Limit
  BY DEF RoomInv, WriteTest, HasRoom
<1>3. kind = "procfs" => Min({n, Limit - num}) \in Nat /\ Min({n, Limit - num}) <= Limit - num
  BY <1>1, <1>2, MinTwo
<1>4. size' \in [Elems -> Nat] /\ (kind = "procfs" => size'[e] <= Limit - num)
  BY <1>3 DEF WriteTest, ListTypeInv
<1>5. /\ pc' \in [Procs -> {"user", "alloc", "copy", "give"}]
      /\ elem' \in [Procs -> Elems \cup {NoElem}]
      /\ \A q \in Procs : pc'[q] # "user" => elem'[q] \in Elems
  BY DEF WriteTest, ListTypeInv
<1> QED BY <1>2, <1>4, <1>5 DEF WriteTest, ListTypeInv, history

LEMMA ListTypeStep == ListTypeInv /\ RoomInv /\ (~broken => Sound) /\ [Next]_vars => ListTypeInv'
<1> SUFFICES ASSUME ListTypeInv, RoomInv, ~broken => Sound, [Next]_vars PROVE ListTypeInv'
  OBVIOUS
<1>1. CASE UNCHANGED vars
  BY <1>1 DEF vars, calls, history, ListTypeInv
<1>2. ASSUME NEW p \in Procs, NEW e \in Elems, NEW n \in Sizes, WriteTest(p, e, n) PROVE ListTypeInv'
  BY <1>2, TestType
<1>3. ASSUME NEW p \in Procs, WriteAlloc(p) PROVE ListTypeInv'
  <2>1. elem[p] \in Elems /\ UNCHANGED <<kind, module, list, num, size, history>>
    BY <1>3 DEF WriteAlloc, ListTypeInv
  <2>2. CASE mem' = [mem EXCEPT ![elem[p]] = "live"] /\ pc' = [pc EXCEPT ![p] = "copy"] /\ UNCHANGED elem
    BY <2>1, <2>2 DEF ListTypeInv, history
  <2>3. CASE UNCHANGED mem /\ Return(p)
    BY <2>1, <2>3, ReturnType DEF ListTypeInv, history
  <2>4. \/ mem' = [mem EXCEPT ![elem[p]] = "live"] /\ pc' = [pc EXCEPT ![p] = "copy"] /\ UNCHANGED elem
        \/ UNCHANGED mem /\ Return(p)
    BY <1>3, Zenon DEF WriteAlloc
  <2> QED BY <2>2, <2>3, <2>4
<1>4. ASSUME NEW p \in Procs, WriteCopyFails(p) PROVE ListTypeInv'
  <2>1. Return(p) /\ UNCHANGED <<kind, module, list, num, size, log, taken, met, broken>>
    BY <1>4 DEF WriteCopyFails
  <2>2. mem' \in [Elems -> {"unused", "live", "freed"}] /\ lost' \in SUBSET Elems
    <3>1. elem[p] \in Elems
      BY <1>4 DEF WriteCopyFails, ListTypeInv
    <3> QED BY <1>4, <3>1 DEF WriteCopyFails, ListTypeInv
  <2>3. /\ pc' \in [Procs -> {"user", "alloc", "copy", "give"}]
        /\ elem' \in [Procs -> Elems \cup {NoElem}]
        /\ \A q \in Procs : pc'[q] # "user" => elem'[q] \in Elems
    BY <2>1, ReturnType
  <2> QED BY <2>1, <2>2, <2>3 DEF ListTypeInv
<1>5. ASSUME NEW p \in Procs, WriteLink(p) PROVE ListTypeInv'
  <2>1. elem[p] \in Elems /\ Return(p) /\ broken' \in BOOLEAN
    BY <1>5, MisusedType DEF WriteLink, ListTypeInv
  <2>2. list' \in Seq(Elems) /\ log' \in Seq(Elems)
    BY <1>5, <2>1 DEF WriteLink, ListTypeInv
  <2>3. num' \in Int
    BY <1>5, <2>1 DEF WriteLink, ListTypeInv, Unit
  <2> QED BY <1>5, <2>1, <2>2, <2>3, ReturnType DEF WriteLink, ListTypeInv
<1>6. ASSUME NEW p \in Procs, TakeFirst(p), ~broken PROVE ListTypeInv'
  <2>1. list # <<>>
    BY <1>6 DEF TakeFirst, Sound, LinkInv
  <2>2. Head(list) \in Elems
    BY <2>1 DEF ListTypeInv
  <2>3. met' \in BOOLEAN
    BY <1>6, Zenon DEF TakeFirst
  <2> QED BY <1>6, <2>2, <2>3 DEF TakeFirst, ListTypeInv
<1>7. ASSUME NEW p \in Procs, Give(p) PROVE ListTypeInv'
  <2>1. elem[p] \in Elems /\ Return(p) /\ broken' \in BOOLEAN
    BY <1>7, MisusedType DEF Give, ListTypeInv
  <2>2. list' \in Seq(Elems) /\ taken' \in Seq(Elems)
    BY <1>7, <2>1 DEF Give, ListTypeInv
  <2> QED BY <1>7, <2>1, <2>2, ReturnType DEF Give, ListTypeInv
<1>8. ASSUME NEW p \in Procs, GiveFails(p) PROVE ListTypeInv'
  BY <1>8, ReturnType, MisusedType DEF GiveFails, ListTypeInv
<1>9. ASSUME NEW p \in Procs, Show(p) PROVE ListTypeInv'
  BY <1>9, MisusedType DEF Show, ListTypeInv, calls
<1>10. CASE RemoveEntry
  BY <1>10 DEF RemoveEntry, ListTypeInv, calls, history
<1>11. CASE ExitFrees
  <2>1. broken' \in BOOLEAN /\ mem' \in [Elems -> {"unused", "live", "freed"}]
    BY <1>11, MisusedType DEF ExitFrees, FreeAll, ListTypeInv
  <2> QED BY <1>11, <2>1 DEF ExitFrees, FreeAll, ListTypeInv, calls
<1>12. CASE ExitEnds
  BY <1>12 DEF ExitEnds, ListTypeInv, calls, history
<1> QED
  BY <1>1, <1>2, <1>3, <1>4, <1>5, <1>6, <1>7, <1>8, <1>9, <1>10, <1>11, <1>12 DEF Next, Exit

-----------------------------------------------------------------------------
\* A step that keeps the list and the memory, and after which no call has an
\* element that it had not before.
LEMMA SoundFrame ==
  ASSUME ListTypeInv, Sound, UNCHANGED <<kind, list, num, mem, lost, met>>, ModuleInv',
         \/ module' = module
         \/ module' = "removing" /\ module # "gone" /\ (kind = "v1proc" => module = "freed"),
         \A p \in Procs : pc'[p] # "user" => pc'[p] = pc[p] /\ elem'[p] = elem[p],
         \A p \in Procs : pc[p] = "copy" => pc'[p] = "copy"
  PROVE  Sound'
<1>1. HeldInv'
  BY DEF Sound, HeldInv, Writing
<1>2. LinkInv'
  BY DEF Sound, LinkInv, FreedInUse
<1>3. LiveInv'
  <2>1. \A p \in Procs : pc[p] = "copy" => elem'[p] = elem[p]
    OBVIOUS
  <2> QED BY <2>1 DEF Sound, LiveInv
<1>4. GiveInv'
  BY DEF Sound, GiveInv
<1> QED BY <1>1, <1>2, <1>3, <1>4 DEF Sound

\* Calls begin only while the entry is there.
LEMMA ModuleStep == ListTypeInv /\ ModuleInv /\ [Next]_vars => ModuleInv'
<1> SUFFICES ASSUME ListTypeInv, ModuleInv, [Next]_vars PROVE ModuleInv'
  OBVIOUS
<1>1. CASE UNCHANGED vars
  BY <1>1 DEF vars, calls, ModuleInv, Idle
<1>2. ASSUME NEW p \in Procs, UNCHANGED <<kind, module>>, pc[p] # "user" \/ module \in {"in", "freed"}
      PROVE  ModuleInv'
  BY <1>2 DEF ModuleInv, Idle
<1>3. CASE \E p \in Procs : \/ \E e \in Elems, n \in Sizes : WriteTest(p, e, n)
                            \/ WriteAlloc(p) \/ WriteCopyFails(p) \/ WriteLink(p)
                            \/ TakeFirst(p) \/ Give(p) \/ GiveFails(p) \/ Show(p)
  BY <1>2, <1>3 DEF WriteTest, WriteAlloc, WriteCopyFails, WriteLink, TakeFirst, Give, GiveFails, Show, CanCall
<1>4. CASE RemoveEntry
  BY <1>4 DEF RemoveEntry, ModuleInv
<1>5. CASE ExitFrees
  BY <1>5 DEF ExitFrees, FreeAll, calls, ModuleInv, Idle
<1>6. CASE ExitEnds
  BY <1>6 DEF ExitEnds, ModuleInv, calls, Idle
<1> QED BY <1>1, <1>3, <1>4, <1>5, <1>6 DEF Next, Exit

LEMMA TestSound ==
  ASSUME ListTypeInv, Sound, ModuleInv', NEW p \in Procs, NEW e \in Elems, NEW n \in Sizes,
         WriteTest(p, e, n)
  PROVE  Sound'
<1>1. /\ UNCHANGED <<kind, module, list, num, mem, lost, met>>
      /\ pc[p] = "user" /\ pc'[p] = "alloc" /\ elem'[p] = e /\ mem[e] = "unused"
      /\ \A q \in Procs : elem[q] # e
      /\ \A q \in Procs : q # p => pc'[q] = pc[q] /\ elem'[q] = elem[q]
  BY DEF WriteTest, CanCall, history, ListTypeInv
<1>2. HeldInv'
  BY <1>1 DEF Sound, HeldInv, Writing
<1>3. LinkInv'
  BY <1>1 DEF Sound, LinkInv, FreedInUse
<1>4. LiveInv'
  BY <1>1 DEF Sound, LiveInv
<1>5. GiveInv'
  BY <1>1 DEF Sound, GiveInv
<1> QED BY <1>2, <1>3, <1>4, <1>5 DEF Sound

LEMMA AllocSound ==
  ASSUME ListTypeInv, Sound, ModuleInv', NEW p \in Procs, WriteAlloc(p)
  PROVE  Sound'
<1>1. pc[p] = "alloc" /\ UNCHANGED <<kind, module, list, num, lost, met>> /\ elem[p] \in Elems
  BY DEF WriteAlloc, history, ListTypeInv
<1>2. CASE UNCHANGED mem /\ Return(p)
  <2>1. \A q \in Procs : pc'[q] # "user" => pc'[q] = pc[q] /\ elem'[q] = elem[q]
    BY <1>2, ReturnType
  <2>2. \A q \in Procs : pc[q] = "copy" => pc'[q] = "copy"
    BY <1>1, <1>2, ReturnType
  <2> QED BY <1>1, <1>2, <2>1, <2>2, SoundFrame
<1>3. CASE mem' = [mem EXCEPT ![elem[p]] = "live"] /\ pc' = [pc EXCEPT ![p] = "copy"] /\ UNCHANGED elem
  <2> DEFINE e == elem[p]
  <2>1. /\ mem[e] = "unused" /\ mem'[e] = "live" /\ \A f \in Elems : f # e => mem'[f] = mem[f]
        /\ pc'[p] = "copy" /\ \A q \in Procs : q # p => pc'[q] = pc[q]
    BY <1>1, <1>3 DEF Sound, HeldInv, ListTypeInv
  <2>2. \A i \in DOMAIN list : list[i] # e /\ list[i] \in Elems
    BY <2>1, ListFacts DEF Sound, LinkInv
  <2>3. e \notin lost /\ lost \subseteq Elems
    BY <2>1 DEF Sound, LiveInv, ListTypeInv
  <2>4. \A q \in Procs : pc[q] # "user" => elem[q] \in Elems
    BY DEF ListTypeInv
  <2>5. \A q \in Procs : q # p /\ Writing(q) => elem[q] # e
    BY <1>1 DEF Sound, HeldInv, Writing
  <2>6. HeldInv'
    BY <1>1, <1>3, <2>1, <2>2, <2>3, <2>4, <2>5 DEF Sound, HeldInv, Writing
  <2>7. LinkInv'
    BY <1>1, <2>1, <2>2 DEF Sound, LinkInv, FreedInUse
  <2>8. LiveInv'
    BY <1>1, <1>3, <2>1, <2>3 DEF Sound, LiveInv
  <2>9. GiveInv'
    <3>1. \A q \in Procs : pc[q] = "give" /\ mem[elem[q]] = "freed" => elem[q] # e
      BY <2>1
    <3> QED BY <1>1, <1>3, <2>1, <2>4, <3>1 DEF Sound, GiveInv
  <2> QED BY <2>6, <2>7, <2>8, <2>9 DEF Sound
<1> QED BY <1>2, <1>3 DEF WriteAlloc

LEMMA CopyFailsSound ==
  ASSUME ListTypeInv, Sound, ModuleInv', NEW p \in Procs, WriteCopyFails(p)
  PROVE  Sound'
<1> DEFINE e == elem[p]
<1>1. /\ pc[p] = "copy" /\ UNCHANGED <<kind, module, list, num, met>> /\ e \in Elems
      /\ pc'[p] = "user" /\ \A q \in Procs : q # p => pc'[q] = pc[q] /\ elem'[q] = elem[q]
  BY ReturnType DEF WriteCopyFails, ListTypeInv
<1>2. /\ mem[e] = "live" /\ e \notin lost /\ \A i \in DOMAIN list : list[i] # e /\ list[i] \in Elems
      /\ \A q \in Procs : q # p /\ Writing(q) => elem[q] # e
  BY <1>1, ListFacts DEF Sound, HeldInv, Writing
<1>3. /\ \A f \in Elems : f # e => mem'[f] = mem[f] /\ (f \in lost' <=> f \in lost)
      /\ lost' \subseteq Elems
      /\ \/ mem'[e] = "freed" /\ e \notin lost'
         \/ mem'[e] = "live" /\ e \in lost'
  BY <1>1, <1>2 DEF WriteCopyFails, ListTypeInv
<1>4. \A q \in Procs : pc[q] # "user" => elem[q] \in Elems
  BY DEF ListTypeInv
<1>5. HeldInv'
  BY <1>1, <1>2, <1>3, <1>4 DEF Sound, HeldInv, Writing
<1>6. LinkInv'
  BY <1>1, <1>2, <1>3 DEF Sound, LinkInv, FreedInUse
<1>7. LiveInv'
  BY <1>1, <1>3 DEF Sound, LiveInv
<1>8. GiveInv'
  <2>1. kind # "stu" => \A q \in Procs : pc[q] # "give"
    BY DEF Sound, GiveInv
  <2>2. kind = "stu" => mem' = mem
    BY DEF WriteCopyFails
  <2> QED BY <1>1, <2>1, <2>2 DEF Sound, GiveInv
<1> QED BY <1>5, <1>6, <1>7, <1>8 DEF Sound

LEMMA LinkSound ==
  ASSUME ListTypeInv, Sound, ModuleInv', NEW p \in Procs, WriteLink(p)
  PROVE  Sound'
<1> DEFINE e == elem[p]
<1>1. /\ pc[p] = "copy" /\ UNCHANGED <<kind, module, mem, lost, met>> /\ e \in Elems
      /\ pc'[p] = "user" /\ \A q \in Procs : q # p => pc'[q] = pc[q] /\ elem'[q] = elem[q]
  BY ReturnType DEF WriteLink, ListTypeInv
<1>2. /\ mem[e] = "live" /\ e \notin lost /\ \A i \in DOMAIN list : list[i] # e
      /\ \A q \in Procs : q # p /\ Writing(q) => elem[q] # e
  BY <1>1 DEF Sound, HeldInv, Writing
<1>3. list' = Append(list, e) /\ num' = num + Unit(e)
  BY DEF WriteLink
<1>4. /\ Len(list) \in Nat /\ Len(list') = Len(list) + 1 /\ list' # <<>>
      /\ DOMAIN list = 1..Len(list) /\ DOMAIN list' = 1..(Len(list) + 1)
      /\ list'[Len(list) + 1] = e /\ \A i \in DOMAIN list : list'[i] = list[i]
  BY <1>1, <1>3 DEF ListTypeInv
<1>5. \A i \in DOMAIN list' : i \in DOMAIN list \/ i = Len(list) + 1
  BY <1>4
<1>6. HeldInv'
  BY <1>1, <1>2, <1>4, <1>5 DEF Sound, HeldInv, Writing
<1>7. LinkInv'
  <2>1. \A i, j \in DOMAIN list' : list'[i] = list'[j] => i = j
    BY <1>2, <1>4, <1>5 DEF Sound, LinkInv
  <2>2. \A i \in DOMAIN list' : mem[list'[i]] # "unused" /\ list'[i] \notin lost
    BY <1>2, <1>4, <1>5 DEF Sound, LinkInv
  <2>3. kind = "stu" => num' = Len(list')
    BY <1>3, <1>4 DEF Sound, LinkInv, Unit
  <2>4. ~FreedInUse /\ module # "gone" => \A i \in DOMAIN list' : mem[list'[i]] = "live"
    BY <1>2, <1>4, <1>5 DEF Sound, LinkInv
  <2>5. module # "gone"
    BY <1>1 DEF Sound, ModuleInv, Idle
  <2> QED BY <1>1, <2>1, <2>2, <2>3, <2>4, <2>5 DEF LinkInv, FreedInUse
<1>8. LiveInv'
  <2>1. \A i \in DOMAIN list : i \in DOMAIN list'
    BY <1>4
  <2>2. Len(list) + 1 \in DOMAIN list'
    BY <1>4
  <2> QED BY <1>1, <1>4, <2>1, <2>2 DEF Sound, LiveInv
<1>9. GiveInv'
  <2>1. list # <<>> => list'[1] = list[1]
    BY <1>4, ListFacts
  <2> QED BY <1>1, <1>4, <2>1 DEF Sound, GiveInv
<1> QED BY <1>6, <1>7, <1>8, <1>9 DEF Sound

LEMMA TakeSound ==
  ASSUME ListTypeInv, Sound, ModuleInv', NEW p \in Procs, TakeFirst(p)
  PROVE  Sound'
<1>1. /\ UNCHANGED <<kind, module, list, num, mem, lost>> /\ kind = "stu" /\ module \in {"in", "freed"}
      /\ pc[p] = "user" /\ pc'[p] = "give" /\ list # <<>>
      /\ \A q \in Procs : q # p => pc'[q] = pc[q] /\ elem'[q] = elem[q]
  BY DEF TakeFirst, CanCall, ListTypeInv, Sound, LinkInv
<1>2. elem'[p] = list[1] /\ 1 \in DOMAIN list
  BY <1>1, ListFacts DEF TakeFirst, ListTypeInv
<1>3. ~met' => ~met /\ \A q \in Procs : pc[q] # "give"
  BY DEF TakeFirst
<1>4. HeldInv'
  BY <1>1 DEF Sound, HeldInv, Writing
<1>5. LinkInv'
  BY <1>1 DEF Sound, LinkInv, FreedInUse
<1>6. LiveInv'
  BY <1>1 DEF Sound, LiveInv
<1>7. GiveInv'
  BY <1>1, <1>2, <1>3 DEF Sound, GiveInv
<1> QED BY <1>4, <1>5, <1>6, <1>7 DEF Sound

\* While nothing is misused a read that gives its element gives the first.
LEMMA GiveSound ==
  ASSUME ListTypeInv, Sound, ModuleInv', NEW p \in Procs, Give(p), ~broken'
  PROVE  Sound'
<1> DEFINE e == elem[p]
<1>1. /\ pc[p] = "give" /\ UNCHANGED <<kind, module, lost, met>> /\ e \in Elems /\ kind = "stu"
      /\ pc'[p] = "user" /\ \A q \in Procs : q # p => pc'[q] = pc[q] /\ elem'[q] = elem[q]
  BY ReturnType DEF Give, ListTypeInv, Sound, GiveInv
<1>2. mem[e] # "freed"
  BY DEF Give, Misused
<1>3. list # <<>> /\ e = list[1]
  BY <1>1, <1>2 DEF Sound, GiveInv
<1>4. /\ list' = Tail(list) /\ num' = num - 1
      /\ mem'[e] = "freed" /\ \A f \in Elems : f # e => mem'[f] = mem[f]
  BY <1>1, <1>3 DEF Give, ListTypeInv
<1>5. /\ Len(list) \in Nat \ {0} /\ Len(list') = Len(list) - 1
      /\ DOMAIN list = 1..Len(list) /\ DOMAIN list' = 1..(Len(list) - 1)
      /\ \A i \in DOMAIN list' : list'[i] = list[i + 1] /\ i + 1 \in DOMAIN list
  BY <1>3, <1>4 DEF ListTypeInv
<1>6. \A i \in DOMAIN list : list[i] \in Elems /\ (i # 1 => list[i] # e)
  BY <1>3, <1>5, ListFacts DEF Sound, LinkInv
<1>7. \A i \in DOMAIN list' : list'[i] # e /\ i + 1 # 1
  BY <1>5, <1>6
<1>8. \A q \in Procs : pc[q] # "user" => elem[q] \in Elems
  BY DEF ListTypeInv
<1>9. 1 \in DOMAIN list /\ mem[e] # "unused" /\ e \notin lost /\ lost \subseteq Elems
  <2>1. 1 \in DOMAIN list
    BY <1>5
  <2> QED BY <1>3, <2>1 DEF Sound, LinkInv, ListTypeInv
<1>10. HeldInv'
  <2>1. \A q \in Procs : Writing(q) => elem[q] # e
    BY <1>3, <1>9 DEF Sound, HeldInv, Writing
  <2> QED BY <1>1, <1>4, <1>5, <1>8, <2>1 DEF Sound, HeldInv, Writing
<1>11. LinkInv'
  <2>1. \A i, j \in DOMAIN list' : list'[i] = list'[j] => i = j
    BY <1>5 DEF Sound, LinkInv
  <2>2. \A i \in DOMAIN list' : mem'[list'[i]] = mem[list[i + 1]] /\ list'[i] = list[i + 1]
    BY <1>4, <1>5, <1>6, <1>7
  <2>3. num' = Len(list')
    BY <1>1, <1>4, <1>5 DEF Sound, LinkInv
  <2>4. module # "gone"
    BY <1>1 DEF Sound, ModuleInv, Idle
  <2> QED BY <1>1, <1>5, <2>1, <2>2, <2>3, <2>4 DEF Sound, LinkInv, FreedInUse
<1>12. LiveInv'
  <2>1. \A i \in DOMAIN list : i = 1 \/ (i - 1 \in DOMAIN list' /\ list'[i - 1] = list[i])
    BY <1>5
  <2>2. ASSUME NEW f \in Elems, mem'[f] = "live"
        PROVE  \/ \E i \in DOMAIN list' : list'[i] = f
               \/ f \in lost
               \/ \E q \in Procs : pc'[q] = "copy" /\ elem'[q] = f
    <3>1. f # e /\ mem[f] = "live"
      BY <1>4, <2>2
    <3> QED BY <1>1, <1>3, <2>1, <3>1 DEF Sound, LiveInv
  <2>3. \A f \in lost : mem'[f] = "live"
    BY <1>4, <1>9 DEF Sound, LiveInv
  <2> QED BY <1>1, <2>2, <2>3 DEF LiveInv
<1>13. GiveInv'
  <2>1. \A q \in Procs : q # p /\ pc[q] = "give" => mem'[elem[q]] = "freed"
    BY <1>3, <1>4, <1>8 DEF Sound, GiveInv
  <2>2. ~met => \A q \in Procs : q # p => pc[q] # "give"
    BY <1>1 DEF Sound, GiveInv
  <2> QED BY <1>1, <2>1, <2>2 DEF Sound, GiveInv
<1> QED BY <1>10, <1>11, <1>12, <1>13 DEF Sound

\* The walk of exit frees what is in the list.
LEMMA FreesSound ==
  ASSUME ListTypeInv, Sound, ModuleInv', ExitFrees
  PROVE  Sound'
<1>1. /\ UNCHANGED <<kind, list, num, pc, elem, lost, met>>
      /\ \A f \in Elems : mem'[f] = IF \E i \in DOMAIN list : list[i] = f THEN "freed" ELSE mem[f]
  BY DEF ExitFrees, FreeAll, calls, ListTypeInv, ToSet
<1>2. FreedInUse' \/ module' = "gone"
  BY <1>1 DEF ExitFrees, FreedInUse
<1>3. \A q \in Procs : pc[q] # "give"
  BY DEF ExitFrees, Idle, Sound, GiveInv
<1>4. \A q \in Procs : pc[q] # "user" => elem[q] \in Elems
  BY DEF ListTypeInv
<1>5. \A i \in DOMAIN list : list[i] \in Elems
  BY ListFacts
<1>6. lost \subseteq Elems
  BY DEF ListTypeInv
<1>7. HeldInv'
  <2>1. \A q \in Procs : Writing(q) => mem'[elem[q]] = mem[elem[q]]
    BY <1>1, <1>4 DEF Sound, HeldInv, LinkInv, Writing
  <2> QED BY <1>1, <2>1 DEF Sound, HeldInv, Writing
<1>8. LinkInv'
  BY <1>1, <1>2, <1>5 DEF Sound, LinkInv
<1>9. LiveInv'
  BY <1>1, <1>6 DEF Sound, LiveInv, LinkInv
<1>10. GiveInv'
  BY <1>1, <1>3 DEF GiveInv
<1> QED BY <1>7, <1>8, <1>9, <1>10 DEF Sound

LEMMA SoundStep ==
  ASSUME ListTypeInv, Sound, ~broken, [Next]_vars, ~broken'
  PROVE  Sound'
<1>0. ModuleInv'
  BY ModuleStep DEF Sound
<1>1. CASE UNCHANGED vars
  BY <1>0, <1>1, SoundFrame DEF vars, calls, history
<1>2. ASSUME NEW p \in Procs, GiveFails(p) PROVE Sound'
  <2>1. \A q \in Procs : pc'[q] # "user" => pc'[q] = pc[q] /\ elem'[q] = elem[q]
    BY <1>2, ReturnType DEF GiveFails
  <2>2. \A q \in Procs : pc[q] = "copy" => pc'[q] = "copy"
    BY <1>2, ReturnType DEF GiveFails
  <2> QED BY <1>0, <1>2, <2>1, <2>2, SoundFrame DEF GiveFails
<1>3. ASSUME NEW p \in Procs, Show(p) PROVE Sound'
  BY <1>0, <1>3, SoundFrame DEF Show, calls
<1>4. CASE RemoveEntry
  BY <1>0, <1>4, SoundFrame DEF RemoveEntry, calls, history
<1>5. CASE ExitEnds
  <2>1. HeldInv'
    BY <1>5 DEF ExitEnds, calls, history, Sound, HeldInv, Writing
  <2>2. LinkInv' /\ LiveInv' /\ GiveInv'
    BY <1>5 DEF ExitEnds, calls, history, Sound, LinkInv, LiveInv, GiveInv, FreedInUse
  <2> QED BY <1>0, <2>1, <2>2 DEF Sound
<1> QED
  BY <1>0, <1>1, <1>2, <1>3, <1>4, <1>5, TestSound, AllocSound, CopyFailsSound, LinkSound, TakeSound,
     GiveSound, FreesSound
  DEF Next, Exit

-----------------------------------------------------------------------------
\* What is used is in the list or held, and that is not freed.
LEMMA FreedStep ==
  ASSUME ListTypeInv, Sound, ~broken, [Next]_vars
  PROVE  FreedIsNotUsed'
<1> SUFFICES ASSUME broken' PROVE met' \/ FreedInUse'
  BY DEF FreedIsNotUsed
<1>1. ASSUME NEW p \in Procs, WriteLink(p) PROVE met' \/ FreedInUse'
  <2>1. list # <<>> /\ mem[Last(list)] = "freed" /\ UNCHANGED <<kind, module>>
    BY <1>1 DEF WriteLink, Misused
  <2>2. Len(list) \in DOMAIN list
    BY <2>1, ListFacts
  <2>3. mem[list[Len(list)]] = "freed"
    BY <2>1 DEF Last
  <2>4. module # "gone"
    BY <1>1 DEF WriteLink, Sound, ModuleInv, Idle
  <2> QED BY <2>1, <2>2, <2>3, <2>4 DEF Sound, LinkInv, FreedInUse
<1>2. ASSUME NEW p \in Procs, Give(p) \/ GiveFails(p) PROVE met' \/ FreedInUse'
  <2>1. pc[p] = "give" /\ mem[elem[p]] = "freed" /\ UNCHANGED <<kind, module, met>>
    BY <1>2 DEF Give, GiveFails, Misused
  <2>2. kind = "stu" /\ module # "gone"
    BY <2>1 DEF Sound, GiveInv, ModuleInv, Idle
  <2>3. ~met => 1 \in DOMAIN list /\ elem[p] = list[1]
    BY <2>1, ListFacts DEF Sound, GiveInv
  <2> QED BY <2>1, <2>2, <2>3 DEF Sound, LinkInv, FreedInUse
<1>3. ASSUME NEW p \in Procs, Show(p) PROVE met' \/ FreedInUse'
  <2>1. module \in {"in", "freed"} /\ UNCHANGED <<kind, module>>
    BY <1>3 DEF Show, CanCall
  <2>2. \E i \in DOMAIN list : mem[list[i]] = "freed"
    BY <1>3 DEF Show, Misused, ToSet
  <2> QED BY <2>1, <2>2 DEF Sound, LinkInv, FreedInUse
<1>4. CASE ExitFrees
  <2>1. \E i \in DOMAIN list : mem[list[i]] = "freed"
    BY <1>4 DEF ExitFrees, FreeAll, Misused, ToSet
  <2>2. ~FreedInUse /\ module # "gone"
    BY <1>4 DEF ExitFrees, FreedInUse
  <2> QED BY <2>1, <2>2 DEF Sound, LinkInv
<1> QED
  BY <1>1, <1>2, <1>3, <1>4
  DEF Next, vars, calls, history, WriteTest, WriteAlloc, WriteCopyFails, TakeFirst, Exit, RemoveEntry, ExitEnds

\* Live elements are where LiveInv says, and nowhere twice.
LEMMA LiveWhenSound ==
  ASSUME ListTypeInv, FreedIsNotUsed, ~broken => Sound
  PROVE  LiveIsAccountedFor
<1> SUFFICES ASSUME ~met, ~FreedInUse
             PROVE  {e \in Elems : mem[e] = "live"} =
                      (IF module = "gone" THEN {} ELSE ToSet(list)) \cup lost
                      \cup {elem[p] : p \in {q \in Procs : pc[q] = "copy"}}
  BY DEF LiveIsAccountedFor
<1>1. Sound
  BY DEF FreedIsNotUsed
<1>2. ToSet(list) = {list[i] : i \in DOMAIN list}
  BY DEF ToSet
<1>3. \A i \in DOMAIN list : list[i] \in Elems
  BY ListFacts
<1>4. \A p \in Procs : pc[p] = "copy" => elem[p] \in Elems /\ mem[elem[p]] = "live"
  BY <1>1 DEF ListTypeInv, Sound, HeldInv
<1>5. \A e \in lost : e \in Elems /\ mem[e] = "live"
  BY <1>1 DEF ListTypeInv, Sound, LiveInv
<1>6. \A e \in Elems : mem[e] = "live" =>
        \/ \E i \in DOMAIN list : list[i] = e
        \/ e \in lost
        \/ \E p \in Procs : pc[p] = "copy" /\ elem[p] = e
  BY <1>1 DEF Sound, LiveInv
<1>7. \A i \in DOMAIN list : mem[list[i]] = IF module = "gone" THEN "freed" ELSE "live"
  BY <1>1 DEF Sound, LinkInv
<1>8. CASE module = "gone"
  BY <1>3, <1>4, <1>5, <1>6, <1>7, <1>8
<1>9. CASE module # "gone"
  BY <1>2, <1>3, <1>4, <1>5, <1>6, <1>7, <1>9
<1> QED BY <1>8, <1>9

-----------------------------------------------------------------------------
LEMMA FreeCard ==
  ASSUME NEW S \in SUBSET Procs
  PROVE  /\ IsFiniteSet(S) /\ Cardinality(S) \in Nat /\ Cardinality(S) <= Cardinality(Procs)
         /\ Cardinality(Procs) \in Nat
         /\ \A p \in Procs : p \notin S =>
              /\ Cardinality(S \cup {p}) = Cardinality(S) + 1
              /\ Cardinality(S) + 1 <= Cardinality(Procs)
<1>1. IsFiniteSet(S) /\ Cardinality(S) \in Nat /\ Cardinality(S) <= Cardinality(Procs)
  BY ProcsAssumption, FS_Subset, FS_CardinalityType
<1>2. Cardinality(Procs) \in Nat
  BY ProcsAssumption, FS_CardinalityType
<1>3. ASSUME NEW p \in Procs, p \notin S
      PROVE  /\ Cardinality(S \cup {p}) = Cardinality(S) + 1
             /\ Cardinality(S) + 1 <= Cardinality(Procs)
  <2>1. Cardinality(S \cup {p}) = Cardinality(S) + 1
    BY <1>1, <1>3, FS_AddElement
  <2>2. Cardinality(S \cup {p}) <= Cardinality(Procs)
    BY ProcsAssumption, FS_Subset
  <2> QED BY <2>1, <2>2
<1> QED BY <1>1, <1>2, <1>3

\* Products by the limit.
LEMMA Times ==
  ASSUME NEW l \in Nat, NEW a \in Nat
  PROVE  /\ l * (a + 1) = l * a + l /\ l * a \in Nat
         /\ \A b \in Nat : a <= b => l * a <= l * b
<1>1. l * (a + 1) = l * a + l /\ l * a \in Nat
  OBVIOUS
<1>2. ASSUME NEW b \in Nat, a <= b PROVE l * a <= l * b
  <2>1. PICK d \in Nat : b = a + d
    <3>1. b - a \in Nat /\ b = a + (b - a)
      BY <1>2
    <3> QED BY <3>1
  <2>2. l * b = l * a + l * d /\ l * d \in Nat
    BY <2>1
  <2> QED BY <1>1, <2>2
<1> QED BY <1>1, <1>2

LEMMA AddThem ==
  ASSUME NEW m \in Int, NEW n \in Int, NEW s \in Int, NEW t \in Int, NEW a \in Int, NEW l \in Int,
         n <= m + s, m + t <= a, s <= l
  PROVE  n + t <= a + l
OBVIOUS

\* Nobody begins or ends a write.
LEMMA RoomFrame ==
  ASSUME ListTypeInv, ListTypeInv', RoomInv, UNCHANGED <<kind, size>>,
         \A q \in Procs : Writing(q)' <=> Writing(q),
         \A q \in Procs : Writing(q) => elem'[q] = elem[q],
         kind = "stu" => Len(list') <= Len(list),
         kind = "procfs" => num' = num
  PROVE  RoomInv'
<1>1. Free' = Free
  BY DEF Free
<1>2. Cardinality(Free) \in Nat /\ Limit \in Nat /\ Len(list) \in Nat /\ Len(list') \in Nat
  BY FreeCard, SizesAssumption DEF Free, ListTypeInv
<1>3. kind = "stu" => Len(list') <= Limit + Cardinality(Free')
  BY <1>1, <1>2 DEF RoomInv
<1> QED BY <1>1, <1>3 DEF RoomInv

\* A write begins while there is room.
LEMMA RoomTest ==
  ASSUME ListTypeInv, RoomInv, Sound, NEW p \in Procs, NEW e \in Elems, NEW n \in Sizes,
         WriteTest(p, e, n)
  PROVE  RoomInv'
<1> DEFINE c == Cardinality(Free')
<1>1. /\ UNCHANGED <<kind, list, num>> /\ Writing(p)' /\ ~Writing(p) /\ elem'[p] = e
      /\ \A q \in Procs : q # p => (Writing(q)' <=> Writing(q)) /\ elem'[q] = elem[q] /\ elem[q] # e
      /\ \A f \in Elems : f # e => size'[f] = size[f]
  BY DEF WriteTest, CanCall, Writing, ListTypeInv
<1>2. Free = Free' \cup {p} /\ p \notin Free'
  BY <1>1 DEF Free
<1>3. c \in Nat /\ Limit \in Nat
  BY FreeCard, SizesAssumption DEF Free
<1>4. CASE kind = "stu"
  <2>1. Len(list) <= Limit /\ Len(list) \in Nat
    BY <1>4 DEF WriteTest, HasRoom, Sound, LinkInv, ListTypeInv
  <2> QED BY <1>1, <1>3, <1>4, <2>1 DEF RoomInv
<1>5. CASE kind = "procfs"
  <2>1. num \in Nat /\ num < Limit /\ size'[e] <= Limit - num /\ size'[e] \in Nat
    BY <1>5, TestType DEF RoomInv, ListTypeInv
  <2>2. Limit <= Limit * (c + 1)
    <3>1. Limit * (c + 1) = Limit * c + Limit /\ Limit * c \in Nat
      BY <1>3, Times
    <3> HIDE DEF c
    <3> QED BY <1>3, <3>1
  <2>3. num + size'[elem'[p]] <= Limit * (c + 1)
    <3> HIDE DEF c
    <3> QED BY <1>1, <1>3, <2>1, <2>2
  <2>4. \A q \in Procs : Writing(q)' => size'[elem'[q]] <= Limit
    <3>1. size'[e] <= Limit
      BY <1>3, <2>1
    <3>2. \A q \in Procs : Writing(q) => elem[q] \in Elems
      BY DEF ListTypeInv, Writing
    <3> QED BY <1>1, <1>5, <3>1, <3>2 DEF RoomInv
  <2>5. num' \in Nat /\ num' = num
    BY <1>1, <2>1
  <2>6. \E q \in Procs : Writing(q)' /\ num' + size'[elem'[q]] <= Limit * (c + 1)
    BY <1>1, <2>3, <2>5
  <2>7. kind' = "procfs"
    BY <1>1, <1>5
  <2> QED BY <2>4, <2>5, <2>6, <2>7 DEF RoomInv
<1> QED BY <1>1, <1>4, <1>5 DEF RoomInv

\* A write ends with its element in the list or without.
LEMMA RoomEnd ==
  ASSUME ListTypeInv, RoomInv, NEW p \in Procs, Writing(p), Return(p), UNCHANGED <<kind, size>>,
         \/ UNCHANGED <<list, num>>
         \/ list' = Append(list, elem[p]) /\ num' = num + Unit(elem[p])
  PROVE  RoomInv'
<1> DEFINE c == Cardinality(Free)
<1>1. ~Writing(p)' /\ \A q \in Procs : q # p => (Writing(q)' <=> Writing(q)) /\ elem'[q] = elem[q]
  BY ReturnType DEF Writing
<1>2. Free' = Free \cup {p} /\ p \notin Free
  BY <1>1 DEF Free
<1>3. c \in Nat /\ Limit \in Nat /\ Cardinality(Free') = c + 1
  BY <1>2, FreeCard, SizesAssumption DEF Free
<1>4. elem[p] \in Elems /\ size[elem[p]] \in Nat /\ Len(list) \in Nat
  BY DEF ListTypeInv, Writing
<1>5. CASE kind = "stu"
  <2>1. Len(list') <= Len(list) + 1 /\ Len(list') \in Nat
    BY <1>4 DEF ListTypeInv
  <2>2. Len(list) <= Limit + c
    BY <1>5 DEF RoomInv
  <2>3. Len(list') <= Limit + (c + 1)
    <3> HIDE DEF c
    <3> QED BY <1>3, <1>4, <2>1, <2>2
  <2> QED BY <1>3, <1>5, <2>3 DEF RoomInv
<1>6. CASE kind = "procfs"
  <2> DEFINE s == size[elem[p]]
  <2>1. num \in Nat /\ s \in Nat /\ s <= Limit /\ num' \in Nat /\ num <= num' /\ num' <= num + s
    BY <1>4, <1>6 DEF RoomInv, Unit
  <2>2. Limit * (c + 1) = Limit * c + Limit /\ Limit * ((c + 1) + 1) = Limit * (c + 1) + Limit
        /\ Limit * c \in Nat /\ Limit * (c + 1) \in Nat
    BY <1>3, Times
  <2>3. \A q \in Procs : Writing(q)' => size'[elem'[q]] <= Limit
    BY <1>1, <1>6 DEF RoomInv
  <2>4. CASE num <= Limit * c
    <3>1. num' <= Limit * (c + 1)
      <4> HIDE DEF c, s
      <4> QED BY <1>3, <2>1, <2>2, <2>4
    <3> QED BY <1>3, <1>6, <2>1, <2>3, <3>1 DEF RoomInv
  <2>5. CASE num + s <= Limit * (c + 1)
    <3>1. num' <= Limit * (c + 1)
      <4> HIDE DEF c, s
      <4> QED BY <1>3, <2>1, <2>2, <2>5
    <3> QED BY <1>3, <1>6, <2>1, <2>3, <3>1 DEF RoomInv
  <2>6. ASSUME NEW q \in Procs, q # p, Writing(q), num + size[elem[q]] <= Limit * (c + 1)
        PROVE  RoomInv'
    <3>1. size[elem[q]] \in Nat
      BY <2>6 DEF ListTypeInv, Writing
    <3>2. num' + size[elem[q]] <= Limit * ((c + 1) + 1)
      <4> DEFINE t == size[elem[q]]
                 a == Limit * (c + 1)
                 b == Limit * ((c + 1) + 1)
      <4>1. t \in Int /\ num + t <= a /\ a \in Int /\ b = a + Limit
        BY <2>2, <2>6, <3>1
      <4>2. num \in Int /\ num' \in Int /\ s \in Int /\ num' <= num + s /\ s <= Limit /\ Limit \in Int
        BY <1>3, <2>1
      <4>3. num' + t <= a + Limit
        <5> HIDE DEF c, s, t, a, b
        <5> QED BY <4>1, <4>2, AddThem
      <4>4. num' + t <= b
        <5> HIDE DEF c, s, t, a, b
        <5> QED BY <4>1, <4>3
      <4> QED BY <4>4
    <3>3. Writing(q)' /\ num' + size'[elem'[q]] <= Limit * (Cardinality(Free') + 1)
      BY <1>1, <1>3, <2>6, <3>2
    <3> QED BY <1>6, <2>1, <2>3, <3>3 DEF RoomInv
  <2> QED BY <1>6, <2>4, <2>5, <2>6 DEF RoomInv
<1> QED BY <1>5, <1>6 DEF RoomInv

LEMMA RoomStep ==
  ASSUME ListTypeInv, ListTypeInv', Sound, RoomInv, ~broken, [Next]_vars
  PROVE  RoomInv'
<1>1. CASE UNCHANGED vars
  BY <1>1, RoomFrame DEF vars, calls, Writing
<1>2. ASSUME NEW p \in Procs, WriteAlloc(p) PROVE RoomInv'
  <2>1. UNCHANGED <<kind, list, num, size>> /\ Writing(p)
    BY <1>2 DEF WriteAlloc, Writing
  <2>2. CASE pc' = [pc EXCEPT ![p] = "copy"] /\ UNCHANGED elem
    <3>1. \A q \in Procs : Writing(q)' <=> Writing(q)
      BY <2>1, <2>2 DEF ListTypeInv, Writing
    <3> QED BY <2>1, <2>2, <3>1, RoomFrame
  <2>3. CASE Return(p)
    BY <2>1, <2>3, RoomEnd
  <2> QED BY <1>2, <2>2, <2>3 DEF WriteAlloc
<1>3. ASSUME NEW p \in Procs, WriteCopyFails(p) PROVE RoomInv'
  <2>1. Writing(p)
    BY <1>3 DEF WriteCopyFails, Writing
  <2> QED BY <1>3, <2>1, RoomEnd DEF WriteCopyFails
<1>4. ASSUME NEW p \in Procs, WriteLink(p) PROVE RoomInv'
  <2>1. Writing(p)
    BY <1>4 DEF WriteLink, Writing
  <2> QED BY <1>4, <2>1, RoomEnd DEF WriteLink
<1>5. ASSUME NEW p \in Procs, TakeFirst(p) PROVE RoomInv'
  <2>1. \A q \in Procs : (Writing(q)' <=> Writing(q)) /\ (Writing(q) => elem'[q] = elem[q])
    BY <1>5 DEF TakeFirst, CanCall, ListTypeInv, Writing
  <2> QED BY <1>5, <2>1, RoomFrame DEF TakeFirst
<1>6. ASSUME NEW p \in Procs, Give(p) \/ GiveFails(p) PROVE RoomInv'
  <2>1. pc[p] = "give" /\ Return(p) /\ kind = "stu" /\ UNCHANGED <<kind, size>>
    BY <1>6 DEF Give, GiveFails, Sound, GiveInv
  <2>2. \A q \in Procs : (Writing(q)' <=> Writing(q)) /\ (Writing(q) => elem'[q] = elem[q])
    BY <2>1, ReturnType DEF Writing
  <2>3. Len(list') <= Len(list)
    BY <1>6 DEF Give, GiveFails, ListTypeInv
  <2> QED BY <2>1, <2>2, <2>3, RoomFrame
<1>7. CASE (\E p \in Procs : Show(p)) \/ Exit
  <2>1. UNCHANGED <<kind, list, num, size, calls>>
    BY <1>7 DEF Show, Exit, RemoveEntry, ExitFrees, FreeAll, ExitEnds
  <2> QED BY <2>1, RoomFrame DEF calls, Writing
<1> QED BY <1>1, <1>2, <1>3, <1>4, <1>5, <1>6, <1>7, RoomTest DEF Next

LEMMA RoomEnough ==
  ASSUME ListTypeInv, RoomInv
  PROVE  LimitHolds
<1> DEFINE c == Cardinality(Free)
           k == Cardinality(Procs)
<1>1. c \in Nat /\ c <= k /\ k \in Nat /\ Limit \in Nat /\ Len(list) \in Nat
  BY FreeCard, SizesAssumption DEF Free, ListTypeInv
<1>2. ASSUME kind = "stu" PROVE Len(list) <= Limit + k
  <2>1. Len(list) <= Limit + c
    BY <1>2 DEF RoomInv
  <2> HIDE DEF c, k
  <2> QED BY <1>1, <2>1
<1>3. ASSUME kind = "procfs" PROVE num <= Limit * k
  <2>1. num \in Nat
    BY <1>3 DEF RoomInv
  <2>2. Limit * c \in Nat /\ Limit * k \in Nat /\ Limit * c <= Limit * k
    BY <1>1, Times
  <2>3. CASE num <= Limit * c
    <3> HIDE DEF c, k
    <3> QED BY <2>1, <2>2, <2>3
  <2>4. ASSUME NEW p \in Procs, Writing(p), num + size[elem[p]] <= Limit * (c + 1)
        PROVE  num <= Limit * k
    <3>1. c + 1 <= k
      BY <2>4, FreeCard DEF Free
    <3>2. Limit * (c + 1) <= Limit * k /\ Limit * (c + 1) \in Nat
      <4> HIDE DEF c, k
      <4> QED BY <1>1, <3>1, Times
    <3>3. size[elem[p]] \in Nat
      BY <2>4 DEF ListTypeInv, Writing
    <3> HIDE DEF c, k
    <3> QED BY <2>1, <2>2, <2>4, <3>2, <3>3
  <2> QED BY <1>3, <2>3, <2>4 DEF RoomInv
<1> QED BY <1>2, <1>3 DEF LimitHolds

-----------------------------------------------------------------------------
\* f sums what the elements of es count, from the first on.
Sums(f, u, es) == f = [i \in 0..Len(es) |-> IF i = 0 THEN 0 ELSE f[i - 1] + u[es[i]]]

\* The elements of es count n in all, whichever way that is solved.
SumIs(u, es, n) ==
  /\ \E f : Sums(f, u, es)
  /\ \A f : Sums(f, u, es) => f[Len(es)] = n /\ \A i \in 0..Len(es) : f[i] \in Int

Units == [e \in Elems |-> Unit(e)]

\* Order and counter, until two reads meet.
FifoInv == ~met => log = taken \o list /\ SumIs(Units, list, num)

\* Sums: of a list, of none, with one more, with the first less, with other
\* sizes elsewhere.
LEMMA TotalIs ==
  ASSUME NEW es \in Seq(Elems), NEW n, SumIs(Units, es, n)
  PROVE  Total(es) = n
<1> DEFINE T(f) == f = [i \in 0..Len(es) |-> IF i = 0 THEN 0 ELSE f[i - 1] + Unit(es[i])]
<1>1. \A i \in 0..Len(es) : i # 0 => Units[es[i]] = Unit(es[i])
  BY DEF Units
<1>2. ASSUME NEW f PROVE T(f) <=> Sums(f, Units, es)
  BY <1>1 DEF Sums
<1>3. PICK f : T(f)
  BY <1>2 DEF SumIs
<1>4. T(CHOOSE g : T(g))
  BY <1>3
<1>5. (CHOOSE g : T(g))[Len(es)] = n
  BY <1>2, <1>4 DEF SumIs
<1> QED BY <1>5 DEF Total

LEMMA SumNothing ==
  ASSUME NEW u
  PROVE  SumIs(u, <<>>, 0)
<1> DEFINE es == <<>>
<1>1. ASSUME NEW f PROVE Sums(f, u, es) <=> f = [i \in {0} |-> 0]
  <2>1. Len(es) = 0 /\ 0..Len(es) = {0}
    OBVIOUS
  <2>2. [i \in 0..Len(es) |-> IF i = 0 THEN 0 ELSE f[i - 1] + u[es[i]]] = [i \in {0} |-> 0]
    BY <2>1
  <2> QED BY <2>2 DEF Sums
<1>2. Len(es) = 0 /\ 0..Len(es) = {0}
  OBVIOUS
<1>3. \E f : Sums(f, u, es)
  BY <1>1
<1>4. \A f : Sums(f, u, es) => f[Len(es)] = 0 /\ \A i \in 0..Len(es) : f[i] \in Int
  <2>1. \A f : f = [i \in {0} |-> 0] => f[0] = 0
    OBVIOUS
  <2> QED BY <1>1, <1>2, <2>1
<1> QED BY <1>3, <1>4 DEF SumIs

LEMMA SumAppend ==
  ASSUME NEW u \in [Elems -> Nat], NEW es \in Seq(Elems), NEW e \in Elems, NEW n, SumIs(u, es, n)
  PROVE  SumIs(u, Append(es, e), n + u[e])
<1> DEFINE es1 == Append(es, e)
           k == Len(es)
<1>1. /\ k \in Nat /\ Len(es1) = k + 1 /\ es1[k + 1] = e
      /\ \A i \in 1..k : es1[i] = es[i]
  OBVIOUS
<1>2. \E g : Sums(g, u, es1)
  <2>1. PICK f : Sums(f, u, es)
    BY DEF SumIs
  <2>2. f = [i \in 0..k |-> IF i = 0 THEN 0 ELSE f[i - 1] + u[es[i]]]
    BY <2>1 DEF Sums
  <2> DEFINE g == [i \in 0..(k + 1) |-> IF i = k + 1 THEN f[k] + u[e] ELSE f[i]]
  <2>3. \A i \in 0..(k + 1) : g[i] = IF i = 0 THEN 0 ELSE g[i - 1] + u[es1[i]]
    <3> SUFFICES ASSUME NEW i \in 0..(k + 1) PROVE g[i] = IF i = 0 THEN 0 ELSE g[i - 1] + u[es1[i]]
      OBVIOUS
    <3>1. CASE i = 0
      <4>1. f[0] = 0
        BY <1>1, <2>2
      <4> QED BY <1>1, <3>1, <4>1
    <3>2. CASE i = k + 1
      BY <1>1, <3>2
    <3>3. CASE i \in 1..k
      <4>0. i \in 0..k /\ i # 0
        BY <1>1, <3>3
      <4>1. f[i] = f[i - 1] + u[es[i]]
        BY <2>2, <4>0
      <4>2. g[i] = f[i] /\ g[i - 1] = f[i - 1] /\ es1[i] = es[i]
        BY <1>1, <3>3
      <4> QED BY <3>3, <4>1, <4>2
    <3> QED BY <1>1, <3>1, <3>2, <3>3
  <2>4. Sums(g, u, es1)
    BY <1>1, <2>3, Zenon DEF Sums
  <2> QED BY <2>4
<1>3. ASSUME NEW g, Sums(g, u, es1)
      PROVE  g[Len(es1)] = n + u[e] /\ \A i \in 0..Len(es1) : g[i] \in Int
  <2>1. g = [i \in 0..(k + 1) |-> IF i = 0 THEN 0 ELSE g[i - 1] + u[es1[i]]]
    BY <1>1, <1>3 DEF Sums
  <2>2. \A i \in 0..(k + 1) : g[i] = IF i = 0 THEN 0 ELSE g[i - 1] + u[es1[i]]
    BY <2>1, Zenon
  <2> DEFINE f == [i \in 0..k |-> g[i]]
  <2>3. \A i \in 0..k : f[i] = IF i = 0 THEN 0 ELSE f[i - 1] + u[es[i]]
    <3> SUFFICES ASSUME NEW i \in 0..k PROVE f[i] = IF i = 0 THEN 0 ELSE f[i - 1] + u[es[i]]
      OBVIOUS
    <3>1. f[i] = g[i] /\ i \in 0..(k + 1) /\ (i # 0 => i - 1 \in 0..k /\ i \in 1..k)
      BY <1>1
    <3>2. i # 0 => f[i - 1] = g[i - 1] /\ es1[i] = es[i]
      BY <1>1, <3>1
    <3> QED BY <2>2, <3>1, <3>2
  <2>4. Sums(f, u, es)
    BY <2>3, Zenon DEF Sums
  <2>5. f[k] = n /\ \A i \in 0..k : f[i] \in Int /\ f[i] = g[i]
    BY <1>1, <2>4 DEF SumIs
  <2> HIDE DEF f, es1
  <2>6. g[k + 1] = g[k] + u[e]
    BY <1>1, <2>2
  <2>7. g[k] = n /\ g[k] \in Int /\ u[e] \in Int
    BY <1>1, <2>5
  <2>8. Len(es1) = k + 1 /\ \A i \in 0..(k + 1) : i \in 0..k \/ i = k + 1
    BY <1>1
  <2>9. g[k + 1] = n + u[e] /\ g[k + 1] \in Int
    BY <2>6, <2>7
  <2>10. \A i \in 0..k : g[i] \in Int
    BY <2>5, Zenon
  <2>11. g[Len(es1)] = n + u[e]
    BY <2>8, <2>9, Zenon
  <2>12. \A i \in 0..Len(es1) : g[i] \in Int
    BY <2>8, <2>9, <2>10, Zenon
  <2> QED BY <2>11, <2>12
<1> QED BY <1>2, <1>3 DEF SumIs

LEMMA SumTail ==
  ASSUME NEW u, NEW es \in Seq(Elems), es # <<>>, \A e \in Elems : u[e] = 1,
         NEW n \in Int, SumIs(u, es, n)
  PROVE  SumIs(u, Tail(es), n - 1)
<1> DEFINE es1 == Tail(es)
           k == Len(es) - 1
<1>1. /\ k \in Nat /\ Len(es) = k + 1 /\ Len(es1) = k
      /\ \A i \in 1..(k + 1) : u[es[i]] = 1
      /\ \A i \in 1..k : u[es1[i]] = 1
  <2>1. Len(es) \in Nat \ {0} /\ Len(es1) = Len(es) - 1 /\ es1 \in Seq(Elems)
    OBVIOUS
  <2>2. \A i \in 1..Len(es) : es[i] \in Elems
    OBVIOUS
  <2>3. \A i \in 1..Len(es1) : es1[i] \in Elems
    BY <2>1
  <2> QED BY <2>1, <2>2, <2>3
<1> HIDE DEF es1, k
<1>2. \E g : Sums(g, u, es1)
  <2> DEFINE g == [i \in 0..k |-> i]
  <2>1. \A i \in 0..k : g[i] = IF i = 0 THEN 0 ELSE g[i - 1] + u[es1[i]]
    BY <1>1
  <2>2. Sums(g, u, es1)
    BY <1>1, <2>1, Zenon DEF Sums
  <2> QED BY <2>2
<1>3. ASSUME NEW g, Sums(g, u, es1)
      PROVE  g[Len(es1)] = n - 1 /\ \A i \in 0..Len(es1) : g[i] \in Int
  <2>1. \A i \in 0..k : g[i] = IF i = 0 THEN 0 ELSE g[i - 1] + u[es1[i]]
    BY <1>1, <1>3, Zenon DEF Sums
  <2> DEFINE f == [i \in 0..(k + 1) |-> IF i = k + 1 THEN g[k] + 1 ELSE g[i]]
  <2>2. \A i \in 0..(k + 1) : f[i] = IF i = 0 THEN 0 ELSE f[i - 1] + u[es[i]]
    <3> SUFFICES ASSUME NEW i \in 0..(k + 1) PROVE f[i] = IF i = 0 THEN 0 ELSE f[i - 1] + u[es[i]]
      OBVIOUS
    <3>1. CASE i = 0
      BY <1>1, <2>1, <3>1
    <3>2. CASE i = k + 1
      BY <1>1, <3>2
    <3>3. CASE i \in 1..k
      <4>1. /\ f[i] = g[i] /\ f[i - 1] = g[i - 1] /\ g[i] = g[i - 1] + u[es1[i]]
            /\ u[es1[i]] = 1 /\ u[es[i]] = 1
        BY <1>1, <2>1, <3>3
      <4> QED BY <3>3, <4>1
    <3> QED BY <1>1, <3>1, <3>2, <3>3
  <2>3. Sums(f, u, es)
    BY <1>1, <2>2, Zenon DEF Sums
  <2>4. f[k + 1] = n /\ \A i \in 0..(k + 1) : f[i] \in Int
    BY <1>1, <2>3 DEF SumIs
  <2>5. f[k + 1] = g[k] + 1 /\ \A i \in 0..k : f[i] = g[i] /\ i \in 0..(k + 1)
    BY <1>1
  <2> HIDE DEF f
  <2>6. n = g[k] + 1 /\ \A i \in 0..k : g[i] \in Int
    BY <2>4, <2>5
  <2>7. g[k] \in Int
    BY <1>1, <2>6
  <2> QED BY <1>1, <2>6, <2>7
<1> QED BY <1>2, <1>3 DEF SumIs, es1

LEMMA SumSame ==
  ASSUME NEW u, NEW v, NEW es \in Seq(Elems), NEW n, SumIs(u, es, n),
         \A i \in DOMAIN es : u[es[i]] = v[es[i]]
  PROVE  SumIs(v, es, n)
<1>1. \A i \in 0..Len(es) : i # 0 => i \in DOMAIN es
  OBVIOUS
<1>2. ASSUME NEW f PROVE Sums(f, u, es) <=> Sums(f, v, es)
  <2>1. [i \in 0..Len(es) |-> IF i = 0 THEN 0 ELSE f[i - 1] + u[es[i]]]
        = [i \in 0..Len(es) |-> IF i = 0 THEN 0 ELSE f[i - 1] + v[es[i]]]
    BY <1>1
  <2> QED BY <2>1 DEF Sums
<1> QED BY <1>2 DEF SumIs

\* The two histories when an element is linked, and when one is taken.
LEMMA LinkedLast ==
  ASSUME NEW s \in Seq(Elems), NEW t \in Seq(Elems), NEW e \in Elems
  PROVE  Append(s \o t, e) = s \o Append(t, e)
OBVIOUS

LEMMA TakenFirst ==
  ASSUME NEW s \in Seq(Elems), NEW t \in Seq(Elems), t # <<>>
  PROVE  s \o t = Append(s, t[1]) \o Tail(t)
OBVIOUS

\* A step that neither links nor takes.
LEMMA FifoFrame ==
  ASSUME ListTypeInv, FifoInv, UNCHANGED <<list, num, log, taken>>, met => met',
         \A i \in DOMAIN list : Units'[list[i]] = Units[list[i]]
  PROVE  FifoInv'
<1>1. list \in Seq(Elems)
  BY DEF ListTypeInv
<1>2. SumIs(Units, list, num) => SumIs(Units', list, num)
  BY <1>1, SumSame
<1>3. \A es, n : es = list' /\ n = num' => (SumIs(Units', es, n) <=> SumIs(Units', list, num))
  OBVIOUS
<1> QED BY <1>2 DEF FifoInv

LEMMA FifoTest ==
  ASSUME ListTypeInv, Sound, FifoInv, NEW p \in Procs, NEW e \in Elems, NEW n \in Sizes,
         WriteTest(p, e, n)
  PROVE  FifoInv'
<1>1. UNCHANGED <<kind, list, num, log, taken, met>> /\ mem[e] = "unused"
      /\ \A f \in Elems : f # e => size'[f] = size[f]
  BY DEF WriteTest, history, ListTypeInv
<1>2. \A i \in DOMAIN list : list[i] \in Elems /\ list[i] # e
  BY <1>1, ListFacts DEF Sound, LinkInv
<1>3. \A i \in DOMAIN list : Units'[list[i]] = Units[list[i]]
  BY <1>1, <1>2 DEF Units, Unit
<1> QED BY <1>1, <1>3, FifoFrame

LEMMA FifoLink ==
  ASSUME ListTypeInv, FifoInv, NEW p \in Procs, WriteLink(p)
  PROVE  FifoInv'
<1> SUFFICES ASSUME ~met PROVE log' = taken' \o list' /\ SumIs(Units', list', num')
  BY DEF FifoInv, WriteLink
<1> DEFINE e == elem[p]
<1>1. /\ list' = Append(list, e) /\ num' = num + Unit(e) /\ log' = Append(log, e) /\ taken' = taken
      /\ e \in Elems /\ list \in Seq(Elems) /\ taken \in Seq(Elems) /\ UNCHANGED <<kind, size>>
  BY DEF WriteLink, ListTypeInv
<1>2. log = taken \o list /\ SumIs(Units, list, num)
  BY DEF FifoInv
<1>3. log' = taken' \o list'
  BY <1>1, <1>2, LinkedLast
<1>4. Units \in [Elems -> Nat] /\ Units[e] = Unit(e) /\ Units' = Units
  BY <1>1 DEF Units, Unit, ListTypeInv
<1>5. SumIs(Units, Append(list, e), num + Units[e])
  BY <1>1, <1>2, <1>4, SumAppend
<1> HIDE DEF e
<1> QED BY <1>1, <1>3, <1>4, <1>5

LEMMA FifoGive ==
  ASSUME ListTypeInv, Sound, FifoInv, NEW p \in Procs, Give(p)
  PROVE  FifoInv'
<1> SUFFICES ASSUME ~met PROVE log' = taken' \o list' /\ SumIs(Units', list', num')
  BY DEF FifoInv, Give
<1>1. kind = "stu" /\ list # <<>> /\ elem[p] = list[1]
  BY DEF Give, Sound, GiveInv
<1>2. /\ list' = Tail(list) /\ num' = num - 1 /\ log' = log /\ taken' = Append(taken, list[1])
      /\ list \in Seq(Elems) /\ taken \in Seq(Elems) /\ num \in Int /\ UNCHANGED <<kind, size>>
  BY <1>1 DEF Give, ListTypeInv
<1>3. log = taken \o list /\ SumIs(Units, list, num)
  BY DEF FifoInv
<1>4. log' = taken' \o list'
  BY <1>1, <1>2, <1>3, TakenFirst
<1>5. (\A e \in Elems : Units[e] = 1) /\ Units' = Units
  BY <1>1, <1>2 DEF Units, Unit
<1>6. SumIs(Units, Tail(list), num - 1)
  BY <1>1, <1>2, <1>3, <1>5, SumTail
<1> QED BY <1>2, <1>4, <1>5, <1>6

LEMMA FifoStep ==
  ASSUME ListTypeInv, Sound, FifoInv, [Next]_vars
  PROVE  FifoInv'
<1>1. ASSUME UNCHANGED <<kind, size, list, num, log, taken>>, met => met' PROVE FifoInv'
  <2>1. Units' = Units
    BY <1>1 DEF Units, Unit
  <2> QED BY <1>1, <2>1, FifoFrame
<1>2. CASE UNCHANGED vars
  BY <1>1, <1>2 DEF vars, history
<1>3. ASSUME NEW p \in Procs,
             WriteAlloc(p) \/ WriteCopyFails(p) \/ TakeFirst(p) \/ GiveFails(p) \/ Show(p)
      PROVE  FifoInv'
  <2>1. UNCHANGED <<kind, size, list, num, log, taken>>
    BY <1>3 DEF WriteAlloc, WriteCopyFails, TakeFirst, GiveFails, Show, history
  <2>2. met => met'
    BY <1>3, Zenon DEF WriteAlloc, WriteCopyFails, TakeFirst, GiveFails, Show, history
  <2> QED BY <1>1, <2>1, <2>2
<1>4. CASE Exit
  BY <1>1, <1>4 DEF Exit, RemoveEntry, ExitFrees, FreeAll, ExitEnds, history
<1> QED BY <1>2, <1>3, <1>4, FifoTest, FifoLink, FifoGive DEF Next

LEMMA FifoEnough ==
  ASSUME ListTypeInv, FifoInv
  PROVE  FirstInFirstOut
BY TotalIs DEF FifoInv, FirstInFirstOut, ListTypeInv

-----------------------------------------------------------------------------
\* The inductive invariant.
ListInv ==
  ListTypeInv /\ RoomInv /\ FreedIsNotUsed /\ FifoInv /\ (~broken => Sound)

LEMMA InitList == Init => ListInv
<1> SUFFICES ASSUME Init PROVE ListInv
  OBVIOUS
<1> USE DEF Init
<1>1. ListTypeInv
  <2>1. mem \in [Elems -> {"unused", "live", "freed"}] /\ size \in [Elems -> Nat]
    OBVIOUS
  <2>2. pc \in [Procs -> {"user", "alloc", "copy", "give"}] /\ elem \in [Procs -> Elems \cup {NoElem}]
    OBVIOUS
  <2>3. \A p \in Procs : pc[p] = "user"
    OBVIOUS
  <2>4. <<>> \in Seq(Elems)
    OBVIOUS
  <2>5. list \in Seq(Elems) /\ log \in Seq(Elems) /\ taken \in Seq(Elems) /\ num \in Int
    BY <2>4
  <2> QED BY <2>1, <2>2, <2>3, <2>5 DEF ListTypeInv
<1>2. Sound
  <2>1. ModuleInv /\ HeldInv
    BY DEF ModuleInv, Idle, HeldInv, Writing
  <2>2. LinkInv
    BY DEF LinkInv
  <2>3. LiveInv /\ GiveInv
    BY DEF LiveInv, GiveInv
  <2> QED BY <2>1, <2>2, <2>3 DEF Sound
<1>3. RoomInv
  <2>1. Cardinality(Free) \in Nat /\ Limit \in Nat
    BY FreeCard, SizesAssumption DEF Free
  <2>2. Limit * Cardinality(Free) \in Nat
    BY <2>1, Times
  <2>3. \A p \in Procs : ~Writing(p)
    BY DEF Writing
  <2>4. num = 0 /\ Len(list) = 0
    OBVIOUS
  <2> QED BY <2>1, <2>2, <2>3, <2>4 DEF RoomInv
<1>4. FifoInv
  <2>1. taken \o list = log
    OBVIOUS
  <2> QED BY <2>1, SumNothing DEF FifoInv
<1> QED BY <1>1, <1>2, <1>3, <1>4 DEF ListInv, FreedIsNotUsed

LEMMA StepList == ListInv /\ [Next]_vars => ListInv'
<1> SUFFICES ASSUME ListInv, [Next]_vars PROVE ListInv'
  OBVIOUS
<1>1. ListTypeInv'
  BY ListTypeStep DEF ListInv
<1>2. CASE broken
  <2>1. UNCHANGED vars
    BY <1>2 DEF Next
  <2>2. RoomInv'
    BY <2>1 DEF ListInv, vars, calls, RoomInv, Writing, Free
  <2>3. FreedIsNotUsed'
    BY <2>1 DEF ListInv, vars, history, FreedIsNotUsed, FreedInUse
  <2>4. FifoInv'
    BY <2>1 DEF ListInv, vars, history, FifoInv, Units, Unit
  <2> QED BY <1>1, <1>2, <2>1, <2>2, <2>3, <2>4 DEF ListInv, vars, history
<1>3. CASE ~broken
  BY <1>1, <1>3, RoomStep, FreedStep, FifoStep, SoundStep DEF ListInv
<1> QED BY <1>2, <1>3

LEMMA ListHolds == Spec => []ListInv
BY InitList, StepList, PTL DEF Spec

\* No driver uses freed memory, however calls and exit overlap, but when two
\* reads of dlist have met at one element (dlist.c:50) and after the exit of
\* v1proc has freed what its entry still shows (proc.c:77).
THEOREM FreedNeverUsed == Spec => []FreedIsNotUsed
<1>1. ListInv => FreedIsNotUsed
  BY DEF ListInv
<1> QED BY <1>1, ListHolds, PTL

\* Every element that is allocated is behind the head, in a write, or one
\* whose copy failed: taking and exit free each of the others.
THEOREM LiveAccounted == Spec => []LiveIsAccountedFor
<1>1. ListInv => LiveIsAccountedFor
  BY LiveWhenSound DEF ListInv
<1> QED BY <1>1, ListHolds, PTL

\* Elements are taken in the order they were linked, each once, and
\* stuhead.num, prochead.total count what is behind the head.
THEOREM InOrder == Spec => []FirstInFirstOut
<1>1. ListInv => FirstInFirstOut
  BY FifoEnough DEF ListInv
<1> QED BY <1>1, ListHolds, PTL

\* However many writes pass the test before the first of them adds: dlist
\* holds at most an element for each program more than LIMIT_STU, procfs at
\* most USER_LIMITS bytes for each program.
THEOREM LimitKept == Spec => []LimitHolds
<1>1. ListInv => LimitHolds
  BY RoomEnough DEF ListInv
<1> QED BY <1>1, ListHolds, PTL

=============================================================================
