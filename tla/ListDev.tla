------------------------------- MODULE ListDev --------------------------------
(***************************************************************************)
(* The drivers that keep what is written in a linked list:                 *)
(*   "stu"     src/dlist/dlist.c: a read takes the first element away;     *)
(*   "procfs"  src/procfs/demo.c: a read shows all of them, the sizes      *)
(*             are counted and limited;                                    *)
(*   "v1proc"  src/kernel_code_v1/proc/proc.c: the same without a limit.   *)
(* None takes a lock.  A call is cut where it may sleep - an allocation, a *)
(* copy from or to user space - and other calls, and the exit of the two   *)
(* /proc drivers, run in between.  The statements between two such places, *)
(* the list operations among them, are one step: on a kernel that is       *)
(* preemptible or runs on several CPUs they would need a lock as well.     *)
(***************************************************************************)
EXTENDS Integers, Sequences, SequencesExt

CONSTANTS Procs,
          Elems,   \* bound: the elements that are ever allocated
          Sizes,   \* bytes a program writes at once
          Limit,   \* LIMIT_STU (elements), USER_LIMITS (bytes)
          NoElem,
          Kinds

ASSUME ProcsAssumption == IsFiniteSet(Procs)
ASSUME SizesAssumption == Sizes \subseteq Nat \ {0} /\ Limit \in Nat \ {0}
ASSUME ElemsAssumption == NoElem \notin Elems
ASSUME KindsAssumption == Kinds \subseteq {"stu", "procfs", "v1proc"}

VARIABLES
  kind,    \* which of the drivers this is
  module,  \* "in"; exit has "freed" the elements, is "removing" the entry; "gone"
  list,    \* the elements behind the head, first to last
  num,     \* stuhead.num, prochead.total (v1proc has no such counter)
  mem,     \* what an element's memory is: "unused", "live", "freed"
  size,    \* its bytes
  pc,      \* where the call of a program is
  elem,    \* the element that the call holds: stu, n, node, item
  log,     \* history: the elements in the order they were linked
  taken,   \* history: the elements in the order they were taken
  lost,    \* history: elements whose copy failed, which nothing points to
  met,     \* history: a read of dlist began while another held its first element
  broken   \* history: freed memory was used; what follows is undefined, the model stops

calls == <<pc, elem>>
history == <<log, taken, lost, met, broken>>
vars == <<kind, module, list, num, mem, size, calls, history>>

Unit(e) == IF kind = "stu" THEN 1 ELSE IF kind = "procfs" THEN size[e] ELSE 0

Init ==
  /\ kind \in Kinds /\ module = "in"
  /\ list = <<>> /\ num = 0
  /\ mem = [e \in Elems |-> "unused"] /\ size = [e \in Elems |-> 0]
  /\ pc = [p \in Procs |-> "user"] /\ elem = [p \in Procs |-> NoElem]
  /\ log = <<>> /\ taken = <<>> /\ lost = {} /\ met = FALSE /\ broken = FALSE

\* A program calls while the entry is there.
CanCall(p) == pc[p] = "user" /\ module \in {"in", "freed"}

Misused(es) == broken' = (broken \/ \E e \in es : mem[e] = "freed")

Return(p) ==
  /\ pc' = [pc EXCEPT ![p] = "user"]
  /\ elem' = [elem EXCEPT ![p] = NoElem]

-----------------------------------------------------------------------------
\* Operators whose name begins with Bad are slips in what follows them.
\* Here: the limit is counted from 0 once more.
BadHasRoom ==
  CASE kind = "stu" -> num <= Limit + 1
    [] kind = "procfs" -> num < Limit
    [] OTHER -> TRUE

\* num > LIMIT_STU is -EAGAIN, total >= USER_LIMITS is -ENOMEM
HasRoom ==
  CASE kind = "stu" -> num <= Limit
    [] kind = "procfs" -> num < Limit
    [] OTHER -> TRUE

\* A write passes the test and goes to allocate its element.  The bytes of
\* procfs are cut to what there was room for at that moment.
WriteTest(p, e, n) ==
  /\ CanCall(p) /\ HasRoom
  /\ mem[e] = "unused" /\ \A q \in Procs : elem[q] # e
  /\ pc' = [pc EXCEPT ![p] = "alloc"]
  /\ elem' = [elem EXCEPT ![p] = e]
  /\ size' = [size EXCEPT ![e] = IF kind = "procfs" THEN Min({n, Limit - num}) ELSE 1]
  /\ UNCHANGED <<kind, module, list, num, mem, history>>

\* kmalloc, kzalloc; when one fails what was allocated is freed: -ENOMEM
WriteAlloc(p) ==
  /\ pc[p] = "alloc"
  /\ \/ mem' = [mem EXCEPT ![elem[p]] = "live"] /\ pc' = [pc EXCEPT ![p] = "copy"]
        /\ UNCHANGED elem
     \/ UNCHANGED mem /\ Return(p)
  /\ UNCHANGED <<kind, module, list, num, size, history>>

\* copy_from_user fails: only v1proc frees the element.
WriteCopyFails(p) ==
  /\ pc[p] = "copy"
  /\ IF kind = "v1proc"
     THEN mem' = [mem EXCEPT ![elem[p]] = "freed"] /\ UNCHANGED lost
     ELSE lost' = lost \cup {elem[p]} /\ UNCHANGED mem
  /\ Return(p)
  /\ UNCHANGED <<kind, module, list, num, size, log, taken, met, broken>>

\* The slip: list_add instead of list_add_tail.
BadWriteLink(p) ==
  /\ pc[p] = "copy"
  /\ list' = <<elem[p]>> \o list
  /\ num' = num + Unit(elem[p])
  /\ log' = Append(log, elem[p])
  /\ Misused(IF list = <<>> THEN {} ELSE {Head(list)})
  /\ Return(p)
  /\ UNCHANGED <<kind, module, mem, size, taken, lost, met>>

\* list_add_tail writes to the last element; the counter follows
WriteLink(p) ==
  /\ pc[p] = "copy"
  /\ list' = Append(list, elem[p])
  /\ num' = num + Unit(elem[p])
  /\ log' = Append(log, elem[p])
  /\ Misused(IF list = <<>> THEN {} ELSE {Last(list)})
  /\ Return(p)
  /\ UNCHANGED <<kind, module, mem, size, taken, lost, met>>

-----------------------------------------------------------------------------
\* kbuf_read of dlist: unless num is 0 the first element is copied ...
TakeFirst(p) ==
  /\ kind = "stu" /\ CanCall(p) /\ num # 0
  /\ elem' = [elem EXCEPT ![p] = Head(list)]
  /\ pc' = [pc EXCEPT ![p] = "give"]
  /\ met' = (met \/ \E q \in Procs : pc[q] = "give")
  /\ UNCHANGED <<kind, module, list, num, mem, size, log, taken, lost, broken>>

\* The slip: the element is freed and not unlinked.
BadGive(p) ==
  /\ pc[p] = "give"
  /\ num' = num - 1
  /\ Misused({elem[p]})
  /\ mem' = [mem EXCEPT ![elem[p]] = "freed"]
  /\ taken' = Append(taken, elem[p])
  /\ Return(p)
  /\ UNCHANGED <<kind, module, list, size, log, lost, met>>

\* ... to the program; what follows the head by then is unlinked, and the
\* element is freed.
Give(p) ==
  /\ pc[p] = "give"
  /\ list' = IF list = <<>> THEN list ELSE Tail(list)
  /\ num' = num - 1
  /\ Misused({elem[p]})
  /\ mem' = [mem EXCEPT ![elem[p]] = "freed"]
  /\ taken' = Append(taken, elem[p])
  /\ Return(p)
  /\ UNCHANGED <<kind, module, size, log, lost, met>>

\* copy_to_user fails: -EINVAL, and the element stays.
GiveFails(p) ==
  /\ pc[p] = "give"
  /\ Misused({elem[p]})
  /\ Return(p)
  /\ UNCHANGED <<kind, module, list, num, mem, size, log, taken, lost, met>>

\* usr_proc_read, demo_read: all elements are shown, in one step.
Show(p) ==
  /\ kind # "stu" /\ CanCall(p)
  /\ Misused(ToSet(list))
  /\ UNCHANGED <<kind, module, list, num, mem, size, calls, log, taken, lost, met>>

-----------------------------------------------------------------------------
Idle == \A p \in Procs : pc[p] = "user"

\* remove_proc_entry: from now on no call begins.
RemoveEntry ==
  /\ <<kind, module>> \in {<<"procfs", "in">>, <<"v1proc", "freed">>}
  /\ module' = "removing"
  /\ UNCHANGED <<kind, list, num, mem, size, calls, history>>

FreeAll ==
  /\ Misused(ToSet(list))
  /\ mem' = [e \in Elems |-> IF e \in ToSet(list) THEN "freed" ELSE mem[e]]
  /\ UNCHANGED <<kind, list, num, size, calls, log, taken, lost, met>>

\* The slip: nobody waits for the calls that are under way.
BadExitFrees ==
  /\ kind = "procfs" /\ module = "removing"
  /\ module' = "gone"
  /\ FreeAll

\* The walk of exit.  A module whose /dev entry is open is not unloaded;
\* remove_proc_entry has waited for the calls that use the entry; v1proc
\* frees before it removes its entry.
ExitFrees ==
  /\ \/ kind = "stu" /\ module = "in" /\ Idle /\ module' = "gone"
     \/ kind = "procfs" /\ module = "removing" /\ Idle /\ module' = "gone"
     \/ kind = "v1proc" /\ module = "in" /\ module' = "freed"
  /\ FreeAll

\* The remove_proc_entry of v1proc returns.
ExitEnds ==
  /\ kind = "v1proc" /\ module = "removing" /\ Idle
  /\ module' = "gone"
  /\ UNCHANGED <<kind, list, num, mem, size, calls, history>>

Exit == RemoveEntry \/ ExitFrees \/ ExitEnds

Next ==
  /\ ~broken
  /\ \/ \E p \in Procs :
          \/ \E e \in Elems, n \in Sizes : WriteTest(p, e, n)
          \/ WriteAlloc(p) \/ WriteCopyFails(p) \/ WriteLink(p)
          \/ TakeFirst(p) \/ Give(p) \/ GiveFails(p)
          \/ Show(p)
     \/ Exit

Spec == Init /\ [][Next]_vars

-----------------------------------------------------------------------------
\* v1proc frees its elements while programs may still use them (proc.c:77).
FreedInUse == kind = "v1proc" /\ module # "in"

\* Freed memory is not used, whatever calls overlap and whenever the module
\* is unloaded, but for two reads of dlist that have met at the first
\* element (dlist.c:50) and for the exit of v1proc (proc.c:77-81).
FreedIsNotUsed == broken => met \/ FreedInUse

\* Every element that is allocated is linked, or held by a call, or lost
\* because its copy failed (dlist.c:82, procfs/demo.c:70): taking and exit
\* free each element, and what the copies lost is all that ever leaks.
LiveIsAccountedFor ==
  ~met /\ ~FreedInUse =>
    {e \in Elems : mem[e] = "live"} =
      (IF module = "gone" THEN {} ELSE ToSet(list)) \cup lost
      \cup {elem[p] : p \in {q \in Procs : pc[q] = "copy"}}

\* What a list of elements counts in all.
Total(es) ==
  LET sum[i \in 0..Len(es)] == IF i = 0 THEN 0 ELSE sum[i - 1] + Unit(es[i]) IN sum[Len(es)]

\* Elements are taken in the order they were linked, each once, none
\* skipped, whoever writes meanwhile and whichever copy fails; the counter
\* agrees with the list.
FirstInFirstOut ==
  ~met => /\ log = taken \o list
          /\ num = Total(list)

\* A write tests for room before it sleeps and adds afterwards, so each of
\* the writes under way can exceed the limit: dlist by an element each, and
\* by one more since it tests num > LIMIT_STU (dlist.c:73), procfs by what
\* there was room for when each of them tested.
LimitHolds ==
  /\ kind = "stu" => Len(list) <= Limit + Cardinality(Procs)
  /\ kind = "procfs" => num <= Limit * Cardinality(Procs)

=============================================================================
