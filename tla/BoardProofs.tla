------------------------------ MODULE BoardProofs ------------------------------
(***************************************************************************)
(* What is proved of the peripherals of the board: its keys (KeysDev), its *)
(* touch screen (TouchIrq) and its LEDs (LedDev).                          *)
(*                                                                         *)
(* Keys.  That kbuf shows a move unless it is in flight is not inductive:  *)
(* OrderInv adds that all stages are at work on the same move and follow   *)
(* one another.  What a reader gets does not depend on it: NewsInv and     *)
(* QueueInv say where the news is that it has not got.  Liveness follows a *)
(* move through the stages, and news through the reader's call.            *)
(* Touch screen.  What holds while the work item runs is that without a    *)
(* new edge the received registers are still the chip's (Fresh), and that  *)
(* what was received of the finger is shown, or about to be (TouchIsShown). *)
(* A lift is followed from the edge to the report (StagesFollow).          *)
(* LEDs.  For a LED that nobody has written since a call read the          *)
(* register, the copy in the call is still true (Kept), unless the LED was *)
(* in doubt already: then another late iowrite8 may have changed it        *)
(* without a command for it.                                               *)
(***************************************************************************)
EXTENDS KeysDev, TouchIrq, LedDev, TLAPS

\* The keys.

\* A move on its way that the counting handler has not begun with: before
\* the last interrupt's timer expires, or with timer and tasklet in the
\* other order before the tasklet arms it and that timer expires,
Early == irqs # {} \/ timer.on \/ (~TimerFirst /\ task.on)

\* and where the tasklet counts, until it starts.
Between == TimerFirst /\ task.on

KeysTypeInv ==
  /\ phys \in [Keys -> Shown] /\ cnt \in [Keys -> Shown] /\ kbuf = cnt
  /\ bounces \in [key : Keys, left : Nat] /\ irqs \in SUBSET Keys
  /\ timer \in [on : BOOLEAN, key : Keys] /\ task \in [on : BOOLEAN, key : Keys]
  /\ count \in [at : {"off", "update", "flag", "wake"}, key : Keys]
  /\ flag \in {0, 1} /\ queue \in Seq([key : Keys, val : Shown])
  /\ got \in [Keys -> Shown]

\* All that is in flight is of the last key that moved; the stages follow
\* one another, and kbuf is behind until the move is counted.
OrderInv ==
  /\ \A k \in Keys : InFlight(k) => k = bounces.key
  /\ bounces.left > 0 => Early
  /\ Early => ~Between /\ count.at = "off"
  /\ Between => count.at = "off"
  /\ \A k \in Keys : kbuf[k] # phys[k] <=>
       k = bounces.key /\ (Early \/ Between \/ count.at = "update")

\* The drivers with a flag: where the news is that the reader has not got.
NewsInv ==
  Flagged =>
    /\ queue = <<>>
    /\ rpc = "asleep" => flag = 0 \/ count.at = "wake"
    /\ got = kbuf \/ slipped \/ flag = 1 \/ count.at = "flag"

\* The drivers with an input device: what the reader holds and what is queued.
QueueInv ==
  ~Flagged =>
    /\ flag = 0 /\ count.at \in {"off", "update"} /\ rpc # "clear"
    /\ \A k \in Keys : WillShow(k, kbuf[k])
    /\ rpc = "asleep" => queue = <<>>
    /\ rpc = "copy" => queue # <<>>

LEMMA SomeKeyType == SomeKey \in Keys
BY KeysAssumption DEF SomeKey

LEMMA KeysInitType == Init => KeysTypeInv
BY SomeKeyType, BoundsAssumption DEF Init, KeysTypeInv, Shown

\* A move is counted by turning the bit of its key over.
LEMMA Flipped ==
  ASSUME KeysTypeInv, Flip, kbuf' = [kbuf EXCEPT ![count.key] = cnt'[count.key]]
  PROVE  /\ count.key \in Keys
         /\ cnt' \in [Keys -> Shown] /\ kbuf' = cnt'
         /\ \A k \in Keys : kbuf'[k] = IF k = count.key THEN 1 - kbuf[k] ELSE kbuf[k]
<1>1. count.key \in Keys /\ cnt \in [Keys -> Shown] /\ kbuf = cnt
  BY DEF KeysTypeInv
<1>2. cnt[count.key] \in {0, 1}
  BY <1>1 DEF Shown
<1>3. (cnt[count.key] + 1) % 2 = 1 - cnt[count.key]
  BY <1>2
<1>4. cnt' = [cnt EXCEPT ![count.key] = 1 - cnt[count.key]]
  BY <1>3 DEF Flip
<1>5. 1 - cnt[count.key] \in Shown
  BY <1>2 DEF Shown
<1>6. cnt' \in [Keys -> Shown]
  BY <1>1, <1>4, <1>5
<1>7. \A k \in Keys : cnt'[k] = IF k = count.key THEN 1 - cnt[k] ELSE cnt[k]
  BY <1>1, <1>4
<1>8. kbuf' \in [Keys -> Shown] /\ \A k \in Keys : kbuf'[k] = cnt'[k]
  BY <1>1, <1>6, <1>7
<1> QED BY <1>1, <1>6, <1>7, <1>8

\* The first of a queue, and the others.
LEMMA HeadTail ==
  ASSUME NEW S, NEW q \in Seq(S), q # <<>>
  PROVE  /\ Head(q) \in S /\ Head(q) = q[1] /\ 1 \in DOMAIN q
         /\ Tail(q) \in Seq(S)
         /\ \A i \in DOMAIN Tail(q) : i + 1 \in DOMAIN q /\ Tail(q)[i] = q[i + 1]
         /\ \A i \in DOMAIN q : i = 1 \/ i - 1 \in DOMAIN Tail(q)
<1>1. Len(q) \in Nat \ {0} /\ DOMAIN q = 1..Len(q)
  OBVIOUS
<1>2. Head(q) = q[1] /\ q[1] \in S
  BY <1>1
<1>3. Tail(q) \in Seq(S) /\ Len(Tail(q)) = Len(q) - 1 /\ DOMAIN Tail(q) = 1..(Len(q) - 1)
  BY <1>1
<1>4. \A i \in 1..(Len(q) - 1) : Tail(q)[i] = q[i + 1]
  BY <1>1
<1> QED BY <1>1, <1>2, <1>3, <1>4

LEMMA KeysTypeStep == KeysTypeInv /\ QueueInv /\ [Next]_vars => KeysTypeInv'
<1> SUFFICES ASSUME KeysTypeInv, QueueInv, [Next]_vars PROVE KeysTypeInv'
  OBVIOUS
<1> USE DEF KeysTypeInv, chain, counting, reader, inputs
<1>1. CASE UNCHANGED vars
  BY <1>1 DEF vars
<1>2. ASSUME NEW k \in Keys, Move(k) PROVE KeysTypeInv'
  BY <1>2, BoundsAssumption DEF Move, Shown
<1>3. ASSUME NEW k \in Keys, Bounce(k) PROVE KeysTypeInv'
  BY <1>3 DEF Bounce
<1>4. ASSUME NEW k \in Keys, DoKeyIrq(k) PROVE KeysTypeInv'
  <2>1. timer' \in [on : BOOLEAN, key : Keys] /\ task' \in [on : BOOLEAN, key : Keys]
    <3>1. \/ timer' = [on |-> TRUE, key |-> k] /\ task' = task
          \/ task' = [on |-> TRUE, key |-> k] /\ timer' = timer
      BY <1>4 DEF DoKeyIrq, ArmTimer, Schedule
    <3>2. [on |-> TRUE, key |-> k] \in [on : BOOLEAN, key : Keys]
      OBVIOUS
    <3>3. timer \in [on : BOOLEAN, key : Keys] /\ task \in [on : BOOLEAN, key : Keys]
      OBVIOUS
    <3> HIDE DEF KeysTypeInv
    <3> QED BY <3>1, <3>2, <3>3
  <2>2. irqs' \in SUBSET Keys /\ UNCHANGED <<phys, bounces, counting, flag, reader>>
    BY <1>4 DEF DoKeyIrq
  <2> QED BY <2>1, <2>2
<1>5. CASE DoTimerKey
  BY <1>5 DEF DoTimerKey, Expires, Schedule
<1>6. CASE DoBhKey
  BY <1>6 DEF DoBhKey, StartCount
<1>7. CASE Do4keyBh
  BY <1>7 DEF Do4keyBh, ArmTimer
<1>8. CASE DoTimer
  BY <1>8 DEF DoTimer, Expires, StartCount
<1>9. CASE CountInKbuf
  BY <1>9, Flipped DEF CountInKbuf
<1>10. CASE SetFlag \/ Wake
  BY <1>10 DEF SetFlag, Wake
<1>11. CASE Report
    <2>1. kbuf' = cnt' /\ cnt' \in [Keys -> Shown] /\ count.key \in Keys
    BY <1>11, Flipped DEF Report
  <2>2. queue' \in Seq([key : Keys, val : Shown])
    BY <1>11, <2>1 DEF Report
  <2> QED BY <1>11, <2>1, <2>2 DEF Report
<1>12. CASE ReadCall \/ ReadWait \/ ReadSignal \/ ReadCopy \/ ReadClear
  BY <1>12 DEF ReadCall, ReadWait, ReadSignal, ReadCopy, ReadClear
<1>13. CASE ReadReport
  <2>1. queue # <<>> /\ Flagged = FALSE
    BY <1>13 DEF ReadReport, QueueInv
  <2>2. Head(queue) \in [key : Keys, val : Shown] /\ Tail(queue) \in Seq([key : Keys, val : Shown])
    BY <2>1, HeadTail
  <2> QED BY <1>13, <2>2 DEF ReadReport
<1> QED
  BY <1>1, <1>2, <1>3, <1>4, <1>5, <1>6, <1>7, <1>8, <1>9, <1>10, <1>11, <1>12, <1>13
  DEF Next, Pipeline, Reader

\* The driver stays.
LEMMA SameKeysDriver ==
  ASSUME [Next]_vars
  PROVE  drv' = drv /\ (TimerFirst' <=> TimerFirst) /\ (Flagged' <=> Flagged)
<1>1. drv' = drv
  BY DEF Next, Pipeline, Reader, Move, Bounce, DoKeyIrq, DoTimerKey, DoBhKey, Do4keyBh, DoTimer,
    CountInKbuf, SetFlag, Wake, Report, ReadCall, ReadWait, ReadSignal, ReadCopy, ReadClear,
    ReadReport, inputs, vars
<1> QED BY <1>1 DEF TimerFirst, Flagged

\* Steps of the reader move nothing on.
LEMMA OrderFrame ==
  ASSUME OrderInv, [Next]_vars,
         UNCHANGED <<phys, bounces, irqs, timer, task, count, kbuf>>
  PROVE  OrderInv'
BY SameKeysDriver DEF OrderInv, InFlight, Early, Between

\* While keys take turns no stage is entered but by the move before it.
LEMMA OrderStep ==
  ASSUME KeysTakeTurns, KeysTypeInv, OrderInv, [Next]_vars
  PROVE  OrderInv'
<1> USE DEF chain, counting, reader, inputs
<1>0. drv' = drv /\ (TimerFirst' <=> TimerFirst)
  BY SameKeysDriver
<1>1. ASSUME NEW k \in Keys, Move(k) PROVE OrderInv'
  <2>1. Settled /\ irqs = {} /\ ~timer.on /\ ~task.on /\ count.at = "off"
    BY <1>1 DEF Move, Settled, InFlight, KeysTypeInv
  <2>2. phys = kbuf
    BY <2>1 DEF OrderInv, Early, Between, KeysTypeInv
  <2>3. irqs' = {k} /\ bounces'.key = k /\ UNCHANGED <<timer, task, count, kbuf>>
    BY <1>1, <2>1 DEF Move
  <2>4. \A j \in Keys : kbuf[j] # phys'[j] <=> j = k
    BY <1>1, <2>2 DEF Move, KeysTypeInv, Shown
  <2> QED BY <2>1, <2>3, <2>4 DEF OrderInv, InFlight, Early, Between
<1>2. ASSUME NEW k \in Keys, Bounce(k) PROVE OrderInv'
  <2>1. Early /\ bounces'.key = bounces.key /\ bounces.key = k
    BY <1>2 DEF Bounce, OrderInv
  <2>2. irqs' = irqs \cup {k} /\ UNCHANGED <<phys, timer, task, count, kbuf>>
    BY <1>2 DEF Bounce
  <2> QED BY <1>0, <2>1, <2>2 DEF OrderInv, InFlight, Early, Between
<1>3. ASSUME NEW k \in Keys, DoKeyIrq(k) PROVE OrderInv'
  <2>1. Early /\ irqs \subseteq {k} /\ bounces.key = k /\ irqs' = {}
    BY <1>3 DEF DoKeyIrq, OrderInv, InFlight, Early, KeysTypeInv
  <2>2. UNCHANGED <<phys, bounces, count, kbuf>>
    BY <1>3 DEF DoKeyIrq
  <2>3. CASE TimerFirst
    <3>1. timer' = [on |-> TRUE, key |-> k] /\ task' = task
      BY <1>3, <2>3 DEF DoKeyIrq, ArmTimer
    <3> QED BY <1>0, <2>1, <2>2, <2>3, <3>1 DEF OrderInv, InFlight, Early, Between
  <2>4. CASE ~TimerFirst
    <3>1. task' = [on |-> TRUE, key |-> k] /\ timer' = timer
      BY <1>3, <2>4 DEF DoKeyIrq, Schedule
    <3> QED BY <1>0, <2>1, <2>2, <2>4, <3>1 DEF OrderInv, InFlight, Early, Between
  <2> QED BY <2>3, <2>4
<1>4. CASE DoTimerKey
  <2>1. TimerFirst /\ timer.on /\ irqs = {} /\ bounces.key = timer.key /\ Early
    BY <1>4 DEF DoTimerKey, Expires, OrderInv, InFlight, Early, KeysTypeInv
  <2>2. ~timer'.on /\ bounces'.left = 0 /\ bounces'.key = bounces.key
    BY <1>4 DEF DoTimerKey, Expires, KeysTypeInv
  <2>3. task' = [on |-> TRUE, key |-> timer.key] /\ UNCHANGED <<phys, irqs, count, kbuf>>
    BY <1>4 DEF DoTimerKey, Schedule
  <2> QED BY <1>0, <2>1, <2>2, <2>3 DEF OrderInv, InFlight, Early, Between
<1>5. CASE DoBhKey
  <2>1. TimerFirst /\ task.on /\ bounces.key = task.key /\ Between /\ count.at = "off"
    BY <1>5 DEF DoBhKey, OrderInv, InFlight, Between, KeysTypeInv
  <2>2. ~task'.on /\ count' = [at |-> "update", key |-> task.key]
    BY <1>5 DEF DoBhKey, StartCount, KeysTypeInv
  <2>3. UNCHANGED <<phys, bounces, irqs, timer, kbuf>>
    BY <1>5 DEF DoBhKey
  <2> QED BY <1>0, <2>1, <2>2, <2>3 DEF OrderInv, InFlight, Early, Between
<1>6. CASE Do4keyBh
  <2>1. ~TimerFirst /\ task.on /\ bounces.key = task.key /\ Early
    BY <1>6 DEF Do4keyBh, OrderInv, InFlight, Early, KeysTypeInv
  <2>2. ~task'.on /\ timer' = [on |-> TRUE, key |-> task.key]
    BY <1>6 DEF Do4keyBh, ArmTimer, KeysTypeInv
  <2>3. UNCHANGED <<phys, bounces, irqs, count, kbuf>>
    BY <1>6 DEF Do4keyBh
  <2> QED BY <1>0, <2>1, <2>2, <2>3 DEF OrderInv, InFlight, Early, Between
<1>7. CASE DoTimer
  <2>1. ~TimerFirst /\ timer.on /\ irqs = {} /\ ~task.on /\ bounces.key = timer.key /\ Early
    BY <1>7 DEF DoTimer, Expires, OrderInv, InFlight, Early, KeysTypeInv
  <2>2. ~timer'.on /\ bounces'.left = 0 /\ bounces'.key = bounces.key
    BY <1>7 DEF DoTimer, Expires, KeysTypeInv
  <2>3. count' = [at |-> "update", key |-> timer.key] /\ UNCHANGED <<phys, irqs, task, kbuf>>
    BY <1>7 DEF DoTimer, StartCount
  <2> QED BY <1>0, <2>1, <2>2, <2>3 DEF OrderInv, InFlight, Early, Between
<1>8. CASE CountInKbuf \/ Report
  <2>1. count.at = "update" /\ count.key = bounces.key /\ ~Early /\ ~Between
    BY <1>8 DEF CountInKbuf, Report, OrderInv, InFlight, KeysTypeInv
  <2>2. count'.at \in {"off", "flag"} /\ count'.key = count.key
    BY <1>8 DEF CountInKbuf, Report, KeysTypeInv
  <2>3. UNCHANGED <<phys, bounces, irqs, timer, task>>
    BY <1>8 DEF CountInKbuf, Report
  <2>4. \A k \in Keys : kbuf'[k] # phys[k] <=> k # count.key /\ kbuf[k] # phys[k]
    <3>1. Flip /\ kbuf' = [kbuf EXCEPT ![count.key] = cnt'[count.key]]
      BY <1>8 DEF CountInKbuf, Report
    <3>2. kbuf[count.key] # phys[count.key]
      BY <2>1 DEF OrderInv, KeysTypeInv
    <3>3. \A k \in Keys : kbuf[k] \in {0, 1} /\ phys[k] \in {0, 1}
      BY DEF KeysTypeInv, Shown
    <3> QED BY <3>1, <3>2, <3>3, Flipped
  <2>5. ~Early' /\ ~Between'
    BY <1>0, <2>1, <2>3 DEF Early, Between
  <2>6. \A k \in Keys : InFlight(k)' => k = bounces.key
    BY <2>1, <2>2, <2>3 DEF OrderInv, InFlight
  <2> QED BY <2>1, <2>2, <2>3, <2>4, <2>5, <2>6 DEF OrderInv
<1>9. CASE SetFlag \/ Wake
  <2>1. count.at \in {"flag", "wake"} /\ ~Early /\ ~Between
    BY <1>9 DEF SetFlag, Wake, OrderInv
  <2>2. count'.at \in {"off", "wake"} /\ count'.key = count.key
    BY <1>9 DEF SetFlag, Wake, KeysTypeInv
  <2>3. UNCHANGED <<phys, bounces, irqs, timer, task, kbuf>>
    BY <1>9 DEF SetFlag, Wake
  <2> QED BY <1>0, <2>1, <2>2, <2>3 DEF OrderInv, InFlight, Early, Between
<1>10. CASE ReadSignal \/ Reader \/ UNCHANGED vars
  <2>1. UNCHANGED <<phys, bounces, irqs, timer, task, count, kbuf>>
    BY <1>10 DEF Reader, ReadCall, ReadWait, ReadSignal, ReadCopy, ReadClear, ReadReport, vars
  <2> QED BY <2>1, OrderFrame
<1> QED
  BY <1>1, <1>2, <1>3, <1>4, <1>5, <1>6, <1>7, <1>8, <1>9, <1>10 DEF Next, Pipeline

\* Steps before a move is counted leave what is flagged alone.
LEMMA NewsFrame ==
  ASSUME [Next]_vars,
         UNCHANGED <<kbuf, flag, queue, rpc, got, slipped>>,
         UNCHANGED count \/ (count.at = "off" /\ count'.at = "update")
  PROVE  (NewsInv => NewsInv') /\ (QueueInv => QueueInv')
<1>1. Flagged' <=> Flagged
  BY SameKeysDriver
<1>2. \A k \in Keys : WillShow(k, kbuf[k])' <=> WillShow(k, kbuf[k])
  BY DEF WillShow
<1> QED BY <1>1, <1>2 DEF NewsInv, QueueInv

LEMMA EarlySteps ==
  ASSUME KeysTypeInv, [Next]_vars,
         \/ \E k \in Keys : Move(k) \/ Bounce(k) \/ DoKeyIrq(k)
         \/ DoTimerKey \/ DoBhKey \/ Do4keyBh \/ DoTimer \/ UNCHANGED vars
  PROVE  (NewsInv => NewsInv') /\ (QueueInv => QueueInv')
<1>1. UNCHANGED <<kbuf, flag, queue, rpc, got, slipped>>
  BY DEF Move, Bounce, DoKeyIrq, DoTimerKey, DoBhKey, Do4keyBh, DoTimer, vars, counting, reader
<1>2. UNCHANGED count \/ (count.at = "off" /\ count'.at = "update")
  BY DEF Move, Bounce, DoKeyIrq, DoTimerKey, DoBhKey, Do4keyBh, DoTimer, vars, counting, StartCount
<1> QED BY <1>1, <1>2, NewsFrame

\* News is flagged, or being flagged, until the reader copies it or clears
\* the flag without having seen it.
LEMMA NewsStep == KeysTypeInv /\ NewsInv /\ [Next]_vars => NewsInv'
<1> SUFFICES ASSUME KeysTypeInv, NewsInv, [Next]_vars, Flagged PROVE NewsInv'
  BY SameKeysDriver DEF NewsInv
<1> USE DEF counting, reader
<1>1. CASE CountInKbuf
  BY <1>1 DEF CountInKbuf, NewsInv, KeysTypeInv
<1>2. CASE SetFlag
  BY <1>2 DEF SetFlag, NewsInv, KeysTypeInv
<1>3. CASE Wake
  BY <1>3 DEF Wake, WakeReader, NewsInv
<1>4. CASE Report \/ ReadReport
  BY <1>4 DEF Report, ReadReport
<1>5. CASE ReadCall \/ ReadWait \/ ReadSignal
  BY <1>5 DEF ReadCall, ReadWait, ReadSignal, NewsInv, KeysTypeInv
<1>6. CASE ReadCopy
  BY <1>6 DEF ReadCopy, NewsInv
<1>7. CASE ReadClear
  BY <1>7 DEF ReadClear, NewsInv
<1> QED BY <1>1, <1>2, <1>3, <1>4, <1>5, <1>6, <1>7, EarlySteps DEF Next, Pipeline, Reader

\* A report is queued with the change it reports, and taken off the queue
\* when the reader has noted it.
LEMMA QueueStep == KeysTypeInv /\ QueueInv /\ [Next]_vars => QueueInv'
<1> SUFFICES ASSUME KeysTypeInv, QueueInv, [Next]_vars, ~Flagged PROVE QueueInv'
  BY SameKeysDriver DEF QueueInv
<1> USE DEF counting, reader
<1>1. CASE Report
  <2>1. /\ count.key \in Keys
        /\ \A k \in Keys : kbuf'[k] = IF k = count.key THEN 1 - kbuf[k] ELSE kbuf[k]
        /\ kbuf'[count.key] = cnt'[count.key]
    BY <1>1, Flipped DEF Report
  <2> DEFINE r == [key |-> count.key, val |-> cnt'[count.key]]
  <2>2. queue' = Append(queue, r) /\ got' = got
    BY <1>1 DEF Report
  <2>3. /\ DOMAIN queue' = DOMAIN queue \cup {Len(queue) + 1} /\ DOMAIN queue \subseteq Nat
        /\ queue'[Len(queue) + 1] = r /\ \A i \in DOMAIN queue : queue'[i] = queue[i]
        /\ Len(queue) + 1 \notin DOMAIN queue /\ \A i \in DOMAIN queue : ~(i > Len(queue) + 1)
    BY <2>2 DEF KeysTypeInv
  <2>4. ASSUME NEW k \in Keys PROVE WillShow(k, kbuf[k])'
    <3>1. CASE k = count.key
      <4>1. queue'[Len(queue) + 1] = [key |-> k, val |-> kbuf'[k]]
        BY <2>1, <2>3, <3>1
      <4>2. \A j \in DOMAIN queue' : ~(j > Len(queue) + 1)
        BY <2>3 DEF KeysTypeInv
      <4> QED BY <2>3, <4>1, <4>2 DEF WillShow
    <3>2. CASE k # count.key
      <4>1. WillShow(k, kbuf[k]) /\ kbuf'[k] = kbuf[k] /\ r.key # k
        BY <2>1, <3>2 DEF QueueInv
      <4> QED BY <2>2, <2>3, <4>1 DEF WillShow
    <3> QED BY <3>1, <3>2
  <2>5. UNCHANGED flag /\ count'.at = "off" /\ rpc' # "clear" /\ rpc' # "asleep" /\ queue' # <<>>
    BY <1>1, <2>2 DEF Report, WakeReader, QueueInv, KeysTypeInv
  <2>6. (Flagged' <=> Flagged)
    BY SameKeysDriver
  <2> QED BY <2>4, <2>5, <2>6 DEF QueueInv
<1>2. CASE ReadReport
  <2> DEFINE h == Head(queue)
  <2>1. rpc = "copy" /\ queue # <<>>
    BY <1>2 DEF ReadReport, QueueInv
  <2>2. got' = [got EXCEPT ![h.key] = h.val] /\ queue' = Tail(queue) /\ kbuf' = kbuf
    BY <1>2 DEF ReadReport
  <2>3. /\ h \in [key : Keys, val : Shown] /\ h = queue[1] /\ 1 \in DOMAIN queue
        /\ \A i \in DOMAIN queue' : i + 1 \in DOMAIN queue /\ queue'[i] = queue[i + 1]
        /\ \A i \in DOMAIN queue : i = 1 \/ i - 1 \in DOMAIN queue'
        /\ DOMAIN queue \subseteq Nat \ {0} /\ DOMAIN queue' \subseteq Nat \ {0}
    <3>1. queue \in Seq([key : Keys, val : Shown])
      BY DEF KeysTypeInv
    <3>2. queue' \in Seq([key : Keys, val : Shown])
      BY <2>1, <2>2, <3>1, HeadTail
    <3>3. DOMAIN queue \subseteq Nat \ {0} /\ DOMAIN queue' \subseteq Nat \ {0}
      BY <3>1, <3>2
    <3>4. /\ h \in [key : Keys, val : Shown] /\ h = queue[1] /\ 1 \in DOMAIN queue
          /\ \A i \in DOMAIN Tail(queue) : i + 1 \in DOMAIN queue /\ Tail(queue)[i] = queue[i + 1]
          /\ \A i \in DOMAIN queue : i = 1 \/ i - 1 \in DOMAIN Tail(queue)
      BY <2>1, <3>1, HeadTail
    <3> QED BY <2>2, <3>3, <3>4
  <2>4. ASSUME NEW k \in Keys PROVE WillShow(k, kbuf[k])'
    <3>1. CASE \A i \in DOMAIN queue : queue[i].key # k
      BY <2>2, <2>3, <3>1 DEF WillShow, QueueInv, KeysTypeInv
    <3>2. ASSUME NEW i \in DOMAIN queue, queue[i] = [key |-> k, val |-> kbuf[k]],
                 \A j \in DOMAIN queue : j > i => queue[j].key # k
          PROVE  WillShow(k, kbuf[k])'
      <4>1. \A j \in DOMAIN queue' : j + 1 > i => queue'[j].key # k
        BY <2>3, <3>2
      <4>2. CASE i = 1
        <5>1. h.key = k /\ h.val = kbuf[k]
          BY <2>3, <3>2, <4>2
        <5>2. got'[k] = kbuf'[k]
          BY <2>2, <5>1 DEF KeysTypeInv
        <5>3. \A j \in DOMAIN queue' : queue'[j].key # k
          BY <2>3, <4>1, <4>2
        <5> QED BY <5>2, <5>3 DEF WillShow
      <4>3. CASE i # 1
        <5>1. i - 1 \in DOMAIN queue' /\ queue'[i - 1] = queue[i]
          BY <2>3, <4>3
        <5>2. \A j \in DOMAIN queue' : j > i - 1 => queue'[j].key # k
          BY <2>3, <4>1
        <5> QED BY <2>2, <3>2, <5>1, <5>2 DEF WillShow
      <4> QED BY <4>2, <4>3
    <3> QED BY <3>1, <3>2 DEF QueueInv, WillShow
  <2>5. rpc' = "user" /\ UNCHANGED <<flag, count>> /\ (Flagged' <=> Flagged)
    BY <1>2, SameKeysDriver DEF ReadReport
  <2> QED BY <2>4, <2>5 DEF QueueInv
<1>3. CASE CountInKbuf \/ ReadSignal \/ ReadCopy
  BY <1>3 DEF CountInKbuf, ReadSignal, ReadCopy
<1>4. CASE SetFlag \/ Wake \/ ReadClear
  BY <1>4 DEF SetFlag, Wake, ReadClear, QueueInv
<1>5. CASE ReadCall \/ ReadWait
  <2>1. UNCHANGED <<kbuf, flag, queue, count, got>>
    BY <1>5 DEF ReadCall, ReadWait
  <2>2. \A k \in Keys : WillShow(k, kbuf[k])' <=> WillShow(k, kbuf[k])
    BY <2>1 DEF WillShow
  <2> QED BY <1>5, <2>1, <2>2, SameKeysDriver DEF ReadCall, ReadWait, QueueInv
<1> QED BY <1>1, <1>2, <1>3, <1>4, <1>5, EarlySteps DEF Next, Pipeline, Reader

LEMMA KeysInitRest == Init => OrderInv /\ NewsInv /\ QueueInv
<1> SUFFICES ASSUME Init PROVE OrderInv /\ NewsInv /\ QueueInv
  OBVIOUS
<1>1. OrderInv
  BY DEF Init, OrderInv, InFlight, Early, Between
<1>2. NewsInv /\ QueueInv
  BY DEF Init, NewsInv, QueueInv, WillShow
<1> QED BY <1>1, <1>2

\* As long as keys take turns, however many there are and however often they
\* bounce, what is in flight is the one move that kbuf does not show, and a
\* settled kbuf agrees with the keys.
THEOREM MovesAreCountedOnce ==
  ASSUME KeysTakeTurns
  PROVE  Spec => [](OneMoveInFlight /\ KbufFollowsKeys)
<1> DEFINE IInv == KeysTypeInv /\ QueueInv /\ OrderInv
<1>1. Init => IInv
  BY KeysInitType, KeysInitRest
<1>2. IInv /\ [Next]_vars => IInv'
  BY KeysTypeStep, QueueStep, OrderStep
<1>3. KeysTypeInv /\ OrderInv => OneMoveInFlight
  <2> SUFFICES ASSUME KeysTypeInv, OrderInv, NEW k \in Keys
               PROVE  kbuf[k] # phys[k] <=>
                        \/ k \in irqs \/ (timer.on /\ timer.key = k) \/ (task.on /\ task.key = k)
                        \/ (count.at = "update" /\ count.key = k)
    BY DEF OneMoveInFlight
  <2>1. kbuf[k] # phys[k] <=> k = bounces.key /\ (Early \/ Between \/ count.at = "update")
    BY DEF OrderInv
  <2>2. \A j \in Keys : InFlight(j) => j = bounces.key
    BY DEF OrderInv
  <2>3. irqs \subseteq Keys /\ timer.key \in Keys /\ task.key \in Keys /\ count.key \in Keys
    BY DEF KeysTypeInv
  <2> QED BY <2>1, <2>2, <2>3 DEF InFlight, Early, Between
<1>4. KeysTypeInv /\ OneMoveInFlight => KbufFollowsKeys
  BY DEF KeysTypeInv, OneMoveInFlight, KbufFollowsKeys, Settled, InFlight
<1> QED BY <1>1, <1>2, <1>3, <1>4, PTL DEF Spec

\* Whether keys take turns or not, no report of an input device is lost to
\* its reader, and a reader of flagged news misses only what was flagged
\* between its copy and its clearing of the flag.
THEOREM ReadersMissNothing == Spec => []ReaderMissesNothing
<1> DEFINE IInv == KeysTypeInv /\ QueueInv /\ NewsInv
<1>1. Init => IInv
  BY KeysInitType, KeysInitRest
<1>2. IInv /\ [Next]_vars => IInv'
  BY KeysTypeStep, QueueStep, NewsStep
<1>3. IInv => ReaderMissesNothing
  BY DEF KeysTypeInv, QueueInv, NewsInv, ReaderMissesNothing, Settled, InFlight
<1> QED BY <1>1, <1>2, <1>3, PTL DEF Spec

\* Flagged news is read, by a reader that goes on reading and beside a
\* handler that, once started, runs to its end.  For both the states in
\* which they can go on stand in place of ENABLED.
Handler == CountInKbuf \/ SetFlag \/ Wake \/ Report

HandlerRuns == []<>(count.at = "off") \/ []<><<Handler>>_vars
ReaderRuns == []<>(rpc \in {"asleep", "exited"}) \/ []<><<Reader>>_vars

\* Weak fairness of the handler and of the reader, guard by guard.
LEMMA KeysFairRuns ==
  /\ WF_vars(Handler) /\ WF_vars(Reader)
  /\ [](count.at # "off" => ENABLED <<Handler>>_vars)
  /\ [](rpc \notin {"asleep", "exited"} => ENABLED <<Reader>>_vars)
  => HandlerRuns /\ ReaderRuns
<1>1. /\ count.at # "off" <=> ~(count.at = "off")
      /\ rpc \notin {"asleep", "exited"} <=> ~(rpc \in {"asleep", "exited"})
  OBVIOUS
<1> QED BY <1>1, PTL DEF HandlerRuns, ReaderRuns

ReaderInv == rpc \in {"user", "test", "asleep", "copy", "clear", "exited"}

NewsAt(l) == flag = 1 /\ rpc = l
NewsRead == got = kbuf \/ rpc = "exited"

\* Flagged news keeps its flag until the reader has copied, and a reader that
\* sleeps on it is about to be woken.
LEMMA NewsMoves ==
  ASSUME KeysTypeInv, NewsInv, QueueInv, ReaderInv, [Next]_vars, flag = 1, rpc # "clear"
  PROVE  /\ Flagged
         /\ rpc = "user" => NewsAt("user")' \/ NewsAt("test")'
         /\ rpc = "test" => NewsAt("test")' \/ NewsAt("copy")'
         /\ rpc = "copy" => NewsAt("copy")' \/ NewsRead'
         /\ rpc = "asleep" => NewsAt("asleep")' \/ NewsAt("test")' \/ NewsAt("copy")'
<1>1. Flagged
  BY DEF QueueInv
<1> USE <1>1 DEF NewsAt, NewsRead, counting, reader
<1>2. CASE (\E k \in Keys : Move(k) \/ Bounce(k) \/ DoKeyIrq(k)) \/ UNCHANGED vars
  BY <1>2 DEF Move, Bounce, DoKeyIrq, vars
<1>3. CASE DoTimerKey \/ DoBhKey \/ Do4keyBh \/ DoTimer
  BY <1>3 DEF DoTimerKey, DoBhKey, Do4keyBh, DoTimer
<1>4. CASE CountInKbuf \/ SetFlag
  BY <1>4 DEF CountInKbuf, SetFlag
<1>5. CASE Wake
  BY <1>5 DEF Wake, WakeReader
<1>6. CASE ReadCall \/ ReadWait \/ ReadSignal
  BY <1>6 DEF ReadCall, ReadWait, ReadSignal
<1>7. CASE ReadCopy
  BY <1>7 DEF ReadCopy
<1>8. CASE ReadClear \/ ReadReport \/ Report
  BY <1>8 DEF ReadClear, ReadReport, Report
<1> QED BY <1>2, <1>3, <1>4, <1>5, <1>6, <1>7, <1>8 DEF Next, Pipeline, Reader

LEMMA NewsIsTaken ==
  ASSUME KeysTypeInv, NewsInv, QueueInv, ReaderInv, Reader, flag = 1, rpc # "clear"
  PROVE  /\ rpc = "user" => NewsAt("test")'
         /\ rpc = "test" => NewsAt("copy")'
         /\ rpc = "copy" => NewsRead'
BY DEF Reader, ReadCall, ReadWait, ReadCopy, ReadClear, ReadReport, NewsAt, NewsRead,
       counting, QueueInv

LEMMA SleeperIsWoken ==
  ASSUME KeysTypeInv, NewsInv, QueueInv, NewsAt("asleep")
  PROVE  /\ count.at # "off"
         /\ Handler => NewsAt("test")'
<1>1. Flagged /\ count.at = "wake"
  BY DEF NewsAt, QueueInv, NewsInv
<1>2. ~CountInKbuf /\ ~SetFlag /\ ~Report
  BY <1>1 DEF CountInKbuf, SetFlag, Report
<1>3. Wake => NewsAt("test")'
  BY DEF Wake, WakeReader, NewsAt
<1> QED BY <1>1, <1>2, <1>3 DEF Handler

LEMMA ReaderStep == ReaderInv /\ [Next]_vars => ReaderInv'
<1> SUFFICES ASSUME ReaderInv, [Next]_vars PROVE ReaderInv'
  OBVIOUS
<1> USE DEF ReaderInv, reader
<1>1. CASE (\E k \in Keys : Move(k) \/ Bounce(k) \/ DoKeyIrq(k)) \/ UNCHANGED vars
  BY <1>1 DEF Move, Bounce, DoKeyIrq, vars
<1>2. CASE DoTimerKey \/ DoBhKey \/ Do4keyBh \/ DoTimer
  BY <1>2 DEF DoTimerKey, DoBhKey, Do4keyBh, DoTimer
<1>3. CASE CountInKbuf \/ SetFlag
  BY <1>3 DEF CountInKbuf, SetFlag
<1>4. CASE Wake \/ Report
  BY <1>4 DEF Wake, Report, WakeReader
<1>5. CASE Reader \/ ReadSignal
  BY <1>5 DEF Reader, ReadCall, ReadWait, ReadCopy, ReadClear, ReadReport, ReadSignal
<1> QED BY <1>1, <1>2, <1>3, <1>4, <1>5 DEF Next, Pipeline

\* With any number of keys, and however they bounce and overtake each other:
\* news that is flagged before the reader copies reaches it.
THEOREM FlaggedNewsReachesReader == Spec /\ HandlerRuns /\ ReaderRuns => FlaggedNewsIsRead
<1> DEFINE IInv == KeysTypeInv /\ QueueInv /\ NewsInv /\ ReaderInv
<1>1. Init => IInv
  BY KeysInitType, KeysInitRest DEF Init, ReaderInv
<1>2. IInv /\ [Next]_vars => IInv'
  BY KeysTypeStep, QueueStep, NewsStep, ReaderStep
<1>3. IInv => (flag = 1 /\ rpc # "clear" =>
         NewsAt("user") \/ NewsAt("test") \/ NewsAt("copy") \/ NewsAt("asleep") \/ NewsRead)
  BY DEF ReaderInv, NewsAt, NewsRead
<1>4. IInv /\ [Next]_vars =>
        /\ NewsAt("user") => NewsAt("user")' \/ NewsAt("test")'
        /\ NewsAt("test") => NewsAt("test")' \/ NewsAt("copy")'
        /\ NewsAt("copy") => NewsAt("copy")' \/ NewsRead'
        /\ NewsAt("asleep") => NewsAt("asleep")' \/ NewsAt("test")' \/ NewsAt("copy")'
  BY NewsMoves DEF NewsAt
<1>5. IInv /\ <<Reader>>_vars =>
        /\ NewsAt("user") => NewsAt("test")'
        /\ NewsAt("test") => NewsAt("copy")'
        /\ NewsAt("copy") => NewsRead'
  BY NewsIsTaken DEF NewsAt
<1>6. IInv /\ <<Handler>>_vars => (NewsAt("asleep") => NewsAt("test")')
  BY SleeperIsWoken
<1>7. IInv /\ NewsAt("asleep") => ~(count.at = "off")
  BY SleeperIsWoken
<1>8. NewsAt("user") \/ NewsAt("test") \/ NewsAt("copy") => ~(rpc \in {"asleep", "exited"})
  BY DEF NewsAt
<1> HIDE DEF IInv
<1> QED
  BY <1>1, <1>2, <1>3, <1>4, <1>5, <1>6, <1>7, <1>8, PTL
     DEF Spec, HandlerRuns, ReaderRuns, FlaggedNewsIsRead, NewsRead

-----------------------------------------------------------------------------
(***************************************************************************)
(* Moves are recorded when keys take turns.  PipelineRuns is the weak      *)
(* fairness of FairSpec with its guard in place of ENABLED.  ContactsRest  *)
(* says that a move has only finitely many bounces.  The specification     *)
(* has it so - every Bounce takes one off bounces.left, which only Move    *)
(* raises - but to conclude it from that for every MaxBounce is an         *)
(* induction on a temporal formula; FewBouncesEnd does it for up to four.  *)
(***************************************************************************)
SomeMove == \E k \in Keys : Move(k)
SomeBounce == \E k \in Keys : Bounce(k)

PipelineRuns == []<>Settled \/ []<><<Pipeline>>_vars
ContactsRest == []<><<SomeBounce>>_vars => []<><<SomeMove>>_vars

KeysInv == KeysTypeInv /\ QueueInv /\ OrderInv

\* Weak fairness of the pipeline, guard by guard.
LEMMA PipelineFairRuns ==
  WF_vars(Pipeline) /\ [](~Settled => ENABLED <<Pipeline>>_vars) => PipelineRuns
BY PTL DEF PipelineRuns

\* Where a move is on its way to kbuf: the tasklet and the interrupt are both
\* to come (v1), the interrupt is, only that tasklet is, the timer runs, the
\* tasklet that counts is scheduled, the move is being counted.
ToArm == ~TimerFirst /\ task.on
Both == irqs # {} /\ ToArm
Irq == irqs # {} /\ ~ToArm
Arming == irqs = {} /\ ToArm
Timing == irqs = {} /\ ~ToArm /\ timer.on
Counting == count.at = "update"

Recorded == kbuf = phys

\* A move that kbuf does not show is in one of these places.
LEMMA SomewhereOnItsWay ==
  KeysInv => Recorded \/ Both \/ Irq \/ Arming \/ Timing \/ Between \/ Counting
<1> SUFFICES ASSUME KeysInv, ~Recorded
             PROVE  Both \/ Irq \/ Arming \/ Timing \/ Between \/ Counting
  OBVIOUS
<1>1. PICK k \in Keys : kbuf[k] # phys[k]
  BY DEF KeysInv, KeysTypeInv, Recorded
<1>2. Early \/ Between \/ count.at = "update"
  BY <1>1 DEF KeysInv, OrderInv
<1> QED BY <1>2 DEF Early, Both, Irq, Arming, Timing, Counting, ToArm

\* In all of them something is in flight, so no key moves.
LEMMA OnItsWayUnsettled ==
  ASSUME KeysInv, Both \/ Irq \/ Arming \/ Timing \/ Between \/ Counting
  PROVE  ~Settled
BY DEF KeysInv, KeysTypeInv, Settled, InFlight, Both, Irq, Arming, Timing, Between,
       Counting, ToArm

\* Every step of the pipeline brings the move on by one place.
LEMMA PipelineLeads ==
  ASSUME KeysTakeTurns, KeysInv, Pipeline
  PROVE  /\ Both => Irq' \/ Arming'
         /\ Irq => Arming' \/ Timing'
         /\ Arming => Timing'
         /\ Timing => Between' \/ Counting'
         /\ Between => Counting'
         /\ Counting => Recorded'
<1> USE DEF KeysInv, ToArm
<1>0. TimerFirst' <=> TimerFirst
  BY SameKeysDriver DEF Next
<1>1. ASSUME NEW k \in Keys, DoKeyIrq(k)
      PROVE  irqs # {} /\ irqs' = {} /\ (TimerFirst => timer'.on) /\ (~TimerFirst => task'.on)
    BY <1>1 DEF DoKeyIrq, OrderInv, InFlight, KeysTypeInv, ArmTimer, Schedule
<1>2. CASE \E k \in Keys : DoKeyIrq(k)
  BY <1>0, <1>1, <1>2
     DEF OrderInv, Early, Between, Both, Irq, Arming, Timing, Counting
<1>3. CASE DoTimerKey
  BY <1>0, <1>3 DEF DoTimerKey, Expires, Schedule, OrderInv, Early, Between, Both, Irq, Arming, Timing, Counting
<1>4. CASE DoBhKey
  BY <1>0, <1>4 DEF DoBhKey, StartCount, OrderInv, Early, Between, Both, Irq, Arming, Timing, Counting
<1>5. CASE Do4keyBh
  <2>1. ~TimerFirst /\ task.on /\ irqs' = irqs /\ timer' = [on |-> TRUE, key |-> task.key]
    BY <1>5 DEF Do4keyBh, ArmTimer, inputs
  <2>2. ~task'.on
    BY <1>5 DEF Do4keyBh, KeysTypeInv
  <2>3. count.at # "update"
    BY <2>1 DEF OrderInv, Early
  <2> QED BY <1>0, <2>1, <2>2, <2>3 DEF Between, Both, Irq, Arming, Timing, Counting
<1>6. CASE DoTimer
  BY <1>0, <1>6 DEF DoTimer, Expires, StartCount, OrderInv, Early, Between, Both, Irq, Arming, Timing, Counting
<1>7. CASE CountInKbuf \/ Report
  <2>1. Counting /\ ~Early /\ ~Between
    BY <1>7 DEF CountInKbuf, Report, OrderInv, Counting
  <2>2. OrderInv' /\ KeysTypeInv'
    BY <1>7, OrderStep, KeysTypeStep DEF Next, Pipeline
  <2>3. ~Early' /\ ~Between' /\ count'.at # "update"
    BY <1>0, <1>7, <2>1 DEF CountInKbuf, Report, chain, inputs, Early, Between, KeysTypeInv
  <2>4. Recorded'
    BY <2>2, <2>3 DEF OrderInv, KeysTypeInv, Recorded
  <2> QED BY <2>1, <2>4 DEF Early, Both, Irq, Arming, Timing
<1>8. CASE SetFlag \/ Wake
  BY <1>8 DEF SetFlag, Wake, OrderInv, Early, Between, Both, Irq, Arming, Timing, Counting
<1> QED BY <1>2, <1>3, <1>4, <1>5, <1>6, <1>7, <1>8 DEF Pipeline

\* Every other step but a bounce leaves it where it is, and no key moves.
LEMMA OthersLeave ==
  ASSUME KeysTakeTurns, KeysInv, [Next]_vars, ~Settled, ~Pipeline, ~SomeBounce
  PROVE  /\ Both => Both'
         /\ Irq => Irq'
         /\ Arming => Arming'
         /\ Timing => Timing'
         /\ Between => Between'
         /\ Counting => Counting'
<1>1. ~SomeMove
  BY DEF SomeMove, Move
<1>2. Reader \/ ReadSignal \/ UNCHANGED vars
  BY <1>1 DEF Next, SomeMove, SomeBounce
<1>3. UNCHANGED <<drv, irqs, timer, task, count>>
  BY <1>2 DEF Reader, ReadCall, ReadWait, ReadSignal, ReadCopy, ReadClear, ReadReport, vars,
              inputs, chain, counting
<1> QED BY <1>3, SameKeysDriver DEF Both, Irq, Arming, Timing, Between, Counting, ToArm

\* A bounce leaves one fewer, and nothing but a move leaves more.
LEMMA BouncesLeft ==
  ASSUME KeysTypeInv, [Next]_vars, ~SomeMove
  PROVE  /\ bounces.left' <= bounces.left
         /\ SomeBounce => bounces.left > 0 /\ bounces.left' = bounces.left - 1
<1>1. bounces \in [key : Keys, left : Nat]
  BY DEF KeysTypeInv
<1>2. SomeBounce => bounces.left > 0 /\ bounces.left' = bounces.left - 1
  BY <1>1 DEF SomeBounce, Bounce
<1>3. SomeBounce \/ bounces' = bounces \/ bounces'.left = 0
  <2>1. CASE (\E k \in Keys : DoKeyIrq(k)) \/ UNCHANGED vars
    BY <2>1 DEF DoKeyIrq, vars, inputs
  <2>2. CASE DoTimerKey \/ DoBhKey \/ Do4keyBh \/ DoTimer
    BY <1>1, <2>2 DEF DoTimerKey, DoBhKey, Do4keyBh, DoTimer, Expires, inputs
  <2>3. CASE CountInKbuf \/ SetFlag \/ Wake \/ Report
    BY <2>3 DEF CountInKbuf, SetFlag, Wake, Report, inputs
  <2>4. CASE Reader \/ ReadSignal
    BY <2>4 DEF Reader, ReadCall, ReadWait, ReadCopy, ReadClear, ReadReport, ReadSignal, inputs
  <2> QED BY <2>1, <2>2, <2>3, <2>4 DEF Next, Pipeline, SomeMove, SomeBounce
<1> QED BY <1>1, <1>2, <1>3

\* What ContactsRest says, proved for up to four bounces after an edge.
LEMMA FewBouncesEnd == ASSUME MaxBounce <= 4 PROVE Spec => ContactsRest
<1> DEFINE Left(n) == bounces.left <= n
           Inv == KeysTypeInv /\ QueueInv /\ Left(4)
<1>1. Init => Inv
  BY KeysInitType, KeysInitRest DEF Init
<1>2. Inv /\ [Next]_vars => Inv'
  <2> SUFFICES ASSUME Inv, [Next]_vars PROVE Left(4)'
    BY KeysTypeStep, QueueStep
  <2>1. CASE SomeMove
    BY <2>1, BoundsAssumption DEF SomeMove, Move
  <2>2. CASE ~SomeMove
    <3>1. bounces.left \in Nat /\ bounces.left' \in Nat
      BY KeysTypeStep DEF KeysTypeInv
    <3> QED BY <2>2, <3>1, BouncesLeft
  <2> QED BY <2>1, <2>2
<1>3. ASSUME Inv, [Next]_vars, ~SomeMove
      PROVE  /\ Left(4) => Left(4)' /\ (SomeBounce => Left(3)')
             /\ Left(3) => Left(3)' /\ (SomeBounce => Left(2)')
             /\ Left(2) => Left(2)' /\ (SomeBounce => Left(1)')
             /\ Left(1) => Left(1)' /\ (SomeBounce => Left(0)')
             /\ Left(0) => Left(0)' /\ ~SomeBounce
  <2>1. bounces.left \in Nat /\ bounces.left' \in Nat
    BY <1>3, KeysTypeStep DEF KeysTypeInv
  <2> QED BY <1>3, <2>1, BouncesLeft
<1>4. KeysTypeInv /\ SomeMove => <<SomeMove>>_vars
  <2> SUFFICES ASSUME KeysTypeInv, SomeMove PROVE vars' # vars
    OBVIOUS
  <2>1. PICK k \in Keys : phys' = [phys EXCEPT ![k] = 1 - @]
    BY DEF SomeMove, Move
  <2>2. phys[k] \in {0, 1} /\ phys \in [Keys -> Shown]
    BY DEF KeysTypeInv, Shown
  <2>3. phys'[k] # phys[k]
    BY <2>1, <2>2
  <2> QED BY <2>3 DEF vars, inputs
<1> HIDE DEF Left
<1> QED BY <1>1, <1>2, <1>3, <1>4, PTL DEF Spec, ContactsRest

\* As long as keys take turns, with any number of keys: every move shows in
\* kbuf.  No key moves before, so the bounces come to an end, and then only
\* the pipeline can act on the move.
THEOREM EveryMoveIsRecorded ==
  ASSUME KeysTakeTurns
  PROVE  Spec /\ PipelineRuns /\ ContactsRest => MovesAreRecorded
<1> DEFINE OnItsWay == Both \/ Irq \/ Arming \/ Timing \/ Between \/ Counting
<1>1. Init => KeysInv
  BY KeysInitType, KeysInitRest DEF KeysInv
<1>2. KeysInv /\ [Next]_vars => KeysInv'
  BY KeysTypeStep, QueueStep, OrderStep DEF KeysInv
<1>3. KeysInv => Recorded \/ OnItsWay
  BY SomewhereOnItsWay
<1>4. KeysInv /\ OnItsWay => ~Settled
  BY OnItsWayUnsettled
<1>5. ~Settled => ~<<SomeMove>>_vars
  BY DEF SomeMove, Move
<1>6. KeysInv /\ <<Pipeline>>_vars =>
        /\ Both => Irq' \/ Arming'
        /\ Irq => Arming' \/ Timing'
        /\ Arming => Timing'
        /\ Timing => Between' \/ Counting'
        /\ Between => Counting'
        /\ Counting => Recorded'
  BY PipelineLeads
<1>7. ASSUME KeysInv, [Next]_vars, OnItsWay, ~<<SomeBounce>>_vars
      PROVE  /\ Both => Both' \/ Irq' \/ Arming'
             /\ Irq => Irq' \/ Arming' \/ Timing'
             /\ Arming => Arming' \/ Timing'
             /\ Timing => Timing' \/ Between' \/ Counting'
             /\ Between => Between' \/ Counting'
             /\ Counting => Counting' \/ Recorded'
  <2>1. ~Settled
    BY <1>4, <1>7
  <2>2. CASE Pipeline
    BY <1>7, <2>2, PipelineLeads
  <2>3. CASE UNCHANGED vars
    BY <2>3, SameKeysDriver DEF vars, inputs, chain, counting, Both, Irq, Arming, Timing, Between, Counting, ToArm
  <2>4. CASE ~Pipeline /\ ~SomeBounce
    BY <1>7, <2>1, <2>4, OthersLeave
  <2> QED BY <1>7, <2>2, <2>3, <2>4
<1>8. Recorded <=> ~(kbuf # phys)
  BY DEF Recorded
<1>9. Recorded <=> kbuf = phys
  BY DEF Recorded
<1> QED
  BY <1>1, <1>2, <1>3, <1>4, <1>5, <1>6, <1>7, <1>8, <1>9, PTL
     DEF Spec, PipelineRuns, ContactsRest, MovesAreRecorded

-----------------------------------------------------------------------------
\* The touch screen.

Registers == [event : Events, place : Places]

TouchTypeInv ==
  /\ kind \in Kinds
  /\ chip \in Registers /\ regval \in Registers
  /\ edge \in BOOLEAN /\ queued \in BOOLEAN /\ failed \in BOOLEAN /\ top \in BOOLEAN
  /\ finger \in BOOLEAN /\ unread \in BOOLEAN /\ missed \in BOOLEAN
  /\ off \in Nat
  /\ pc \in {"idle", "receive", "report", "enable"}
  /\ shown \in [btn : {0, 1}, place : Places]

\* The handler schedules before it disables.
TopQueues == top => queued

\* The chip's registers follow the finger.
ChipTells ==
  /\ chip.event = "down" => finger
  /\ chip.event = "up" => ~finger

\* Without a latched edge nothing has changed since the interrupt.
Fresh ==
  ~edge => /\ pc = "report" => regval = chip /\ ~unread
           /\ pc = "enable" \/ (off = 0 /\ ~top) => Agrees(shown, chip)

\* An event that has not been received will be, unless a transfer fails.
UnreadIsOwed == unread => edge \/ queued \/ pc = "receive" \/ failed

\* The last of the finger's comings and goings has been received.
TouchReceived == ~missed /\ ~(unread /\ chip.event \in Telling)

TouchIsShown ==
  TouchReceived => IF pc = "report" /\ regval.event \in Telling
                   THEN regval.event = "down" <=> finger
                   ELSE shown.btn = 1 <=> finger

TouchInv ==
  /\ TouchTypeInv /\ OffIsOwed /\ TopQueues
  /\ ChipTells /\ Fresh /\ UnreadIsOwed /\ TouchIsShown

\* Who can be at work beside whom, and whether the interrupt is then off.
LEMMA OneAtWork ==
  ASSUME TouchInv
  PROVE  /\ off \in 0..1
         /\ top => queued /\ off = 0
         /\ queued => pc = "idle" /\ ~failed /\ (off = 0 <=> top)
         /\ pc # "idle" => ~queued /\ ~failed /\ ~top /\ off = 1
         /\ failed => ~queued /\ ~top /\ off = 1
         /\ off = 0 /\ ~top => ~queued /\ pc = "idle" /\ ~failed
         /\ ~queued /\ pc = "idle" /\ ~failed => off = 0 /\ ~top
<1> USE DEF TouchInv, TouchTypeInv, OffIsOwed, Owes, TopQueues
<1>1. CASE queued
  BY <1>1
<1>2. CASE ~queued
  BY <1>2
<1> QED BY <1>1, <1>2

LEMMA TouchInitInv == TouchInit => TouchInv
<1> SUFFICES ASSUME TouchInit PROVE TouchInv
  OBVIOUS
<1>1. TouchTypeInv /\ ChipTells
  BY DEF TouchInit, TouchTypeInv, ChipTells, Registers, Events
<1>2. OffIsOwed /\ TopQueues
  BY DEF TouchInit, OffIsOwed, Owes, TopQueues
<1>3. Fresh /\ UnreadIsOwed /\ TouchIsShown
  BY DEF TouchInit, Fresh, UnreadIsOwed, TouchIsShown, TouchReceived, Telling, Agrees
<1> QED BY <1>1, <1>2, <1>3 DEF TouchInv

\* A new event: the edge is latched; one that tells whether there is a finger
\* has not been received, and the others leave the finger alone.
LEMMA EventInv ==
  ASSUME TouchInv, NEW e \in Events, NEW p \in Places, NewEvent(e, p), finger' \in BOOLEAN,
         e = "down" => finger', e = "up" => ~finger',
         e \notin Telling => finger' = finger
  PROVE  TouchInv'
<1>1. TouchTypeInv'
  <2>1. missed' \in BOOLEAN
    BY DEF NewEvent
  <2>2. chip' \in Registers /\ edge' = TRUE /\ unread' = TRUE
    BY DEF NewEvent, Registers
  <2>3. UNCHANGED <<kind, off, top, queued, pc, regval, shown, failed>>
    BY DEF NewEvent, work
  <2> QED BY <2>1, <2>2, <2>3 DEF TouchInv, TouchTypeInv
<1>2. OffIsOwed' /\ TopQueues'
  BY DEF TouchInv, OffIsOwed, Owes, TopQueues, NewEvent, work
<1>3. chip'.event = e /\ shown' = shown /\ pc' = pc /\ regval' = regval /\ edge' /\ unread'
  BY DEF NewEvent, work
<1>4. ChipTells' /\ Fresh' /\ UnreadIsOwed'
  BY <1>3 DEF ChipTells, Fresh, UnreadIsOwed
<1>5. TouchReceived' => TouchReceived /\ finger' = finger
  <2>1. missed' = (e \notin Telling /\ (missed \/ (chip.event \in Telling /\ unread)))
    BY DEF NewEvent
  <2> QED BY <1>3, <2>1 DEF TouchReceived
<1>6. TouchIsShown'
  BY <1>3, <1>5 DEF TouchInv, TouchIsShown
<1> QED BY <1>1, <1>2, <1>4, <1>6 DEF TouchInv

\* The two statements of the interrupt's handler.
LEMMA ScheduleInv == TouchInv /\ ScheduleWork => TouchInv'
<1> SUFFICES ASSUME TouchInv, ScheduleWork PROVE TouchInv'
  OBVIOUS
<1>1. off = 0 /\ off' = 0 /\ top' /\ ~top /\ queued' /\ ~queued /\ pc = "idle" /\ ~failed
  <2>1. off = 0 /\ ~top /\ top' /\ queued' /\ off' = off
    BY Zenon DEF ScheduleWork
  <2> QED BY <2>1, OneAtWork
<1>2. TouchTypeInv'
  <2>1. off' \in Nat
    BY <1>1
  <2>2. edge' \in BOOLEAN /\ queued' \in BOOLEAN /\ top' \in BOOLEAN
    BY Zenon DEF ScheduleWork
  <2>3. UNCHANGED <<kind, finger, chip, pc, regval, shown, failed, unread, missed>>
    BY DEF ScheduleWork, screen, history
  <2> QED BY <2>1, <2>2, <2>3 DEF TouchInv, TouchTypeInv
<1>3. OffIsOwed' /\ TopQueues'
  BY <1>1 DEF OffIsOwed, Owes, TopQueues, ScheduleWork, history
<1>4. UNCHANGED <<kind, finger, chip, pc, regval, shown, failed, unread, missed>>
  BY DEF ScheduleWork, screen, history
<1>5. Fresh' /\ ChipTells' /\ UnreadIsOwed' /\ TouchIsShown'
  BY <1>1, <1>4 DEF TouchInv, Fresh, ChipTells, UnreadIsOwed, TouchIsShown, TouchReceived
<1> QED BY <1>2, <1>3, <1>5 DEF TouchInv

LEMMA DisableInv == TouchInv /\ DisableIrq => TouchInv'
<1> SUFFICES ASSUME TouchInv, DisableIrq PROVE TouchInv'
  OBVIOUS
<1>1. top /\ ~top' /\ off' = off + 1
  BY Zenon DEF DisableIrq
<1>2. UNCHANGED <<kind, finger, chip, edge, queued, pc, regval, shown, failed, unread, missed>>
  BY DEF DisableIrq, screen, work, history
<1>3. off = 0 /\ off' = 1 /\ queued /\ pc = "idle" /\ ~failed
  BY <1>1, OneAtWork
<1>4. TouchTypeInv'
  <2>1. top' \in BOOLEAN
    BY Zenon DEF DisableIrq
  <2> QED BY <1>2, <1>3, <2>1 DEF TouchInv, TouchTypeInv
<1>5. OffIsOwed' /\ TopQueues'
  BY <1>1, <1>2, <1>3 DEF OffIsOwed, Owes, TopQueues
<1>6. Fresh' /\ ChipTells' /\ UnreadIsOwed' /\ TouchIsShown'
  BY <1>2, <1>3 DEF TouchInv, Fresh, ChipTells, UnreadIsOwed, TouchIsShown, TouchReceived, Agrees
<1> QED BY <1>4, <1>5, <1>6 DEF TouchInv

\* The steps of the work item up to the report.
LEMMA ReceivingInv == TouchInv /\ (WorkStart \/ Receive \/ ReceiveFails) => TouchInv'
<1> SUFFICES ASSUME TouchInv, WorkStart \/ Receive \/ ReceiveFails PROVE TouchInv'
  OBVIOUS
<1>1. TouchTypeInv' /\ ChipTells'
  <2>1. CASE WorkStart
    BY <2>1 DEF TouchInv, TouchTypeInv, ChipTells, WorkStart, screen, history
  <2>2. CASE Receive
    BY <2>2 DEF TouchInv, TouchTypeInv, ChipTells, Receive, screen
  <2>3. CASE ReceiveFails
    BY <2>3 DEF TouchInv, TouchTypeInv, ChipTells, ReceiveFails, screen
  <2> QED BY <2>1, <2>2, <2>3
<1>2. OffIsOwed' /\ TopQueues' /\ off' = 1
  <2>1. CASE WorkStart
    <3>1. /\ off = 1 /\ ~top /\ ~failed
          /\ ~queued' /\ pc' = "receive" /\ UNCHANGED <<off, top, failed>>
      BY <2>1, OneAtWork DEF WorkStart, history
    <3> QED BY <3>1 DEF OffIsOwed, Owes, TopQueues
  <2>2. CASE Receive
    <3>1. /\ off = 1 /\ ~top /\ ~failed /\ ~queued
          /\ pc' = "report" /\ UNCHANGED <<off, top, failed, queued>>
      BY <2>2, OneAtWork DEF Receive
    <3> QED BY <3>1 DEF OffIsOwed, Owes, TopQueues
  <2>3. CASE ReceiveFails
    <3>1. /\ off = 1 /\ ~top /\ ~queued
          /\ pc' = "idle" /\ failed' /\ UNCHANGED <<off, top, queued>>
      BY <2>3, OneAtWork DEF ReceiveFails
    <3> QED BY <3>1 DEF OffIsOwed, Owes, TopQueues
  <2> QED BY <2>1, <2>2, <2>3
<1>3. Fresh' /\ UnreadIsOwed'
  BY <1>2 DEF TouchInv, TouchTypeInv, Fresh, UnreadIsOwed, WorkStart, Receive, ReceiveFails, screen, history
<1>4. TouchIsShown'
  <2>1. CASE WorkStart
    BY <2>1 DEF TouchInv, TouchIsShown, TouchReceived, WorkStart, screen, history
  <2>2. CASE ReceiveFails
    BY <2>2 DEF TouchInv, TouchIsShown, TouchReceived, ReceiveFails, screen
  <2>3. CASE Receive
    <3>1. /\ regval' = chip /\ chip' = chip /\ finger' = finger /\ shown' = shown /\ missed' = missed
          /\ pc = "receive" /\ pc' = "report"
      BY <2>3 DEF Receive, screen
    <3>2. CASE chip.event \in Telling
      BY <3>1, <3>2 DEF TouchInv, ChipTells, TouchIsShown, Telling
    <3>3. CASE chip.event \notin Telling
      BY <3>1, <3>3 DEF TouchInv, TouchIsShown, TouchReceived
    <3> QED BY <3>2, <3>3
  <2> QED BY <2>1, <2>2, <2>3
<1> QED BY <1>1, <1>2, <1>3, <1>4 DEF TouchInv

\* The report makes the device agree with what was received.
LEMMA ReportInv == TouchInv /\ ReportTouch => TouchInv'
<1> SUFFICES ASSUME TouchInv, ReportTouch PROVE TouchInv'
  OBVIOUS
<1>1. TouchTypeInv' /\ ChipTells'
  BY DEF TouchInv, TouchTypeInv, ChipTells, Registers, Events, ReportTouch, Reported, screen, history
<1>2. OffIsOwed' /\ TopQueues' /\ off' = 1
  <2>1. /\ off = 1 /\ ~top /\ ~failed /\ ~queued
        /\ pc' = "enable" /\ UNCHANGED <<off, top, failed, queued>>
    BY OneAtWork DEF ReportTouch, history
  <2> QED BY <2>1 DEF OffIsOwed, Owes, TopQueues
<1>3. /\ pc = "report" /\ pc' = "enable" /\ shown' = Reported(shown, regval)
      /\ UNCHANGED <<kind, finger, chip, edge, queued, regval, failed, unread, missed>>
  BY DEF ReportTouch, screen, history
<1>4. TouchIsShown'
  BY <1>3 DEF TouchInv, TouchTypeInv, Registers, TouchIsShown, TouchReceived, Telling, Reported
<1>5. Fresh'
  <2> SUFFICES ASSUME ~edge PROVE Agrees(shown, chip)'
    BY <1>2, <1>3 DEF Fresh
  <2>1. regval = chip /\ ~unread
    BY <1>3 DEF TouchInv, Fresh
  <2>2. missed' \/ (shown'.btn = 1 <=> finger')
    BY <1>3, <1>4, <2>1 DEF TouchIsShown, TouchReceived
  <2>3. chip.event = (IF kind = "v1" THEN "down" ELSE "contact") => shown'.place = chip.place
    BY <1>3, <2>1 DEF Reported
  <2> QED BY <1>3, <2>2, <2>3 DEF Agrees
<1>6. UnreadIsOwed'
  BY <1>3 DEF TouchInv, UnreadIsOwed
<1> QED BY <1>1, <1>2, <1>4, <1>5, <1>6 DEF TouchInv

LEMMA EnableInv == TouchInv /\ Enable => TouchInv'
<1> SUFFICES ASSUME TouchInv, Enable PROVE TouchInv'
  OBVIOUS
<1>1. off = 1 /\ off' = 0 /\ ~queued /\ ~failed /\ ~top
  BY OneAtWork DEF Enable
<1>2. TouchTypeInv'
  BY <1>1 DEF TouchInv, TouchTypeInv, Enable, screen, history
<1>3. OffIsOwed' /\ TopQueues'
  BY <1>1 DEF OffIsOwed, Owes, TopQueues, Enable, history
<1>4. Fresh' /\ ChipTells' /\ UnreadIsOwed' /\ TouchIsShown'
  BY <1>1 DEF TouchInv, Fresh, ChipTells, UnreadIsOwed, TouchIsShown, TouchReceived, Agrees,
              Enable, screen, history
<1> QED BY <1>2, <1>3, <1>4 DEF TouchInv

LEMMA TouchStep == TouchInv /\ [TouchNext]_touchVars => TouchInv'
<1> SUFFICES ASSUME TouchInv, [TouchNext]_touchVars PROVE TouchInv'
  OBVIOUS
<1>1. CASE UNCHANGED touchVars
  BY <1>1 DEF touchVars, screen, work, history, TouchInv, TouchTypeInv, OffIsOwed, Owes, TopQueues, ChipTells, Fresh,
              UnreadIsOwed, TouchIsShown, TouchReceived, Agrees
<1>2. chip.place \in Places /\ finger \in BOOLEAN
  BY DEF TouchInv, TouchTypeInv, Registers
<1>3. ASSUME NEW p \in Places, Touch(p) PROVE TouchInv'
  BY <1>3, EventInv DEF Touch, Events, Telling
<1>4. ASSUME NEW p \in Places, Drag(p) PROVE TouchInv'
  BY <1>2, <1>4, EventInv DEF Drag, Events, Telling
<1>5. CASE Lift
  BY <1>2, <1>5, EventInv DEF Lift, Events, Telling
<1>6. CASE Other
  BY <1>2, <1>6, EventInv DEF Other, Events, Telling
<1> QED
  BY <1>1, <1>3, <1>4, <1>5, <1>6, ScheduleInv, DisableInv, ReceivingInv, ReportInv, EnableInv
     DEF TouchNext, Top, Bottom

\* For any set of places the interrupt is off as often as its enabling is
\* owed: once while a work item is pending or runs or has failed, but for the
\* moment in which the handler has scheduled the item and not yet disabled.
THEOREM OffOnlyWhileOwed == TouchSpec => []OffIsOwed
<1>1. TouchInv => OffIsOwed
  BY DEF TouchInv
<1> QED BY <1>1, TouchInitInv, TouchStep, PTL DEF TouchSpec

\* For any set of places the device shows the chip's newest event whenever
\* the interrupt is on, not handled, and no edge is latched.
THEOREM QuietIsCurrent == TouchSpec => []QuietScreenIsCurrent
<1>1. TouchInv => QuietScreenIsCurrent
  BY DEF TouchInv, Fresh, QuietScreenIsCurrent
<1> QED BY <1>1, TouchInitInv, TouchStep, PTL DEF TouchSpec

-----------------------------------------------------------------------------
\* A lift is reported: liveness, with what the guards of Top and Bottom say
\* in the place of ENABLED (both change touchVars whenever they can happen).

TopCanRun == top \/ (edge /\ off = 0)
BottomCanRun == (queued /\ ~top) \/ pc # "idle"

TouchRuns ==
  /\ []<>~TopCanRun \/ []<><<Top>>_touchVars
  /\ []<>~BottomCanRun \/ []<><<Bottom>>_touchVars

\* The weak fairness of TouchFairSpec gives TouchRuns, guard by guard.
LEMMA TouchFairRuns ==
  TouchFairSpec
  /\ [](TopCanRun => ENABLED <<Top>>_touchVars)
  /\ [](BottomCanRun => ENABLED <<Bottom>>_touchVars)
  => TouchSpec /\ TouchRuns
BY PTL DEF TouchFairSpec, TouchRuns

\* Nothing is owed to the finger that has left, ...
LiftKnown == shown.btn = 0 \/ finger \/ failed \/ missed

\* ... or its "up" is in the chip, and the handler and the work item are at
\* one of these stages, ...
Owed(t, q, l) == ~LiftKnown /\ chip.event = "up" /\ unread /\ top = t /\ queued = q /\ pc = l

Latched == Owed(FALSE, FALSE, "idle")
Scheduled == Owed(TRUE, TRUE, "idle")
Pending == Owed(FALSE, TRUE, "idle")
Receiving == Owed(FALSE, FALSE, "receive")
Reporting == Owed(FALSE, FALSE, "report")
Enabling == Owed(FALSE, FALSE, "enable")

\* ... or the work item has it.
Has == ~LiftKnown /\ pc = "report" /\ regval.event = "up"

LEMMA LiftPending ==
  TouchInv => LiftKnown \/ Latched \/ Scheduled \/ Pending \/ Receiving \/ Reporting \/ Enabling \/ Has
<1> SUFFICES ASSUME TouchInv, ~LiftKnown
             PROVE  Latched \/ Scheduled \/ Pending \/ Receiving \/ Reporting \/ Enabling \/ Has
  OBVIOUS
<1>1. ~finger /\ ~missed /\ ~failed /\ shown.btn = 1
  BY DEF LiftKnown, TouchInv, TouchTypeInv
<1>2. CASE TouchReceived
  BY <1>1, <1>2 DEF TouchInv, TouchIsShown, Telling, Has
<1>3. CASE ~TouchReceived
  <2>1. chip.event = "up" /\ unread
    BY <1>1, <1>3 DEF TouchReceived, Telling, TouchInv, ChipTells
  <2>2. /\ top => queued /\ pc = "idle"
        /\ pc # "idle" => ~queued
    BY OneAtWork
  <2>3. pc \in {"idle", "receive", "report", "enable"} /\ queued \in BOOLEAN /\ top \in BOOLEAN
    BY DEF TouchInv, TouchTypeInv
  <2> QED BY <2>1, <2>2, <2>3 DEF Latched, Scheduled, Pending, Receiving, Reporting, Enabling, Owed
<1> QED BY <1>2, <1>3

\* The finger, by coming back, and the chip, by overwriting the "up", end
\* what is owed; nobody else but the handler and the work item steps.
LEMMA OwedStep ==
  ASSUME TouchInv, NEW t \in BOOLEAN, NEW q \in BOOLEAN, NEW l, Owed(t, q, l),
         [TouchNext]_touchVars, ~LiftKnown'
  PROVE  Owed(t, q, l)' \/ Top \/ Bottom
<1>1. CASE UNCHANGED touchVars
  BY <1>1 DEF Owed, LiftKnown, touchVars, screen, work, history
<1>2. CASE Lift \/ Other \/ \E p \in Places : Touch(p) \/ Drag(p)
  <2>1. ~finger
    BY DEF Owed, LiftKnown
  <2>2. CASE Other
    <3>1. missed'
      BY <2>2 DEF Other, NewEvent, Telling, Owed
    <3> QED BY <3>1 DEF LiftKnown
  <2>3. CASE \E p \in Places : Touch(p)
    BY <2>3 DEF Touch, LiftKnown
  <2> QED BY <1>2, <2>1, <2>2, <2>3 DEF Lift, Drag
<1> QED BY <1>1, <1>2 DEF TouchNext

\* What the handler and the work item do in each stage.
LEMMA OwedTop ==
  ASSUME TouchInv, Top, ~LiftKnown'
  PROVE  /\ Latched => Scheduled'
         /\ Scheduled => Pending'
         /\ ~Pending /\ ~Receiving /\ ~Reporting /\ ~Enabling
<1>1. CASE ScheduleWork
  <2>1. ~top /\ ~queued /\ pc = "idle" /\ edge /\ off = 0
    <3>1. off = 0 /\ ~top /\ edge
      BY <1>1, Zenon DEF ScheduleWork
    <3>2. ~queued /\ pc = "idle"
      BY <3>1, OneAtWork
    <3> QED BY <3>1, <3>2
  <2>2. top' = TRUE /\ queued' = TRUE /\ UNCHANGED <<chip, unread, pc>>
    BY <1>1 DEF ScheduleWork, screen, history
  <2>3. Latched => Scheduled'
    BY <2>2 DEF Latched, Scheduled, Owed
  <2>4. ~Scheduled /\ ~Pending /\ ~Receiving /\ ~Reporting /\ ~Enabling
    BY <2>1 DEF Scheduled, Pending, Receiving, Reporting, Enabling, Owed
  <2> QED BY <2>3, <2>4
<1>2. CASE DisableIrq
  <2>1. top /\ top' = FALSE /\ UNCHANGED <<chip, unread, queued, pc>>
    BY <1>2 DEF DisableIrq, screen, work, history
  <2> QED BY <2>1 DEF Latched, Scheduled, Pending, Receiving, Reporting, Enabling, Owed
<1> QED BY <1>1, <1>2 DEF Top

LEMMA OwedBottom ==
  ASSUME TouchInv, Bottom, ~LiftKnown'
  PROVE  /\ Pending => Receiving'
         /\ Receiving => Has'
         /\ Reporting => Enabling'
         /\ Enabling => Latched'
         /\ ~Latched /\ ~Scheduled /\ ~Has
<1> USE DEF Owed, Latched, Scheduled, Pending, Receiving, Reporting, Enabling, Has
<1>1. CASE WorkStart
  BY <1>1 DEF WorkStart, screen, history
<1>2. CASE Receive
  BY <1>2 DEF Receive, screen
<1>3. CASE ReceiveFails
  BY <1>3 DEF ReceiveFails, LiftKnown
<1>4. CASE ReportTouch
  <2>1. pc = "report" /\ pc' = "enable" /\ UNCHANGED <<chip, unread, top, queued>>
    BY <1>4 DEF ReportTouch, screen, history
  <2>2. ~Has
    BY <1>4 DEF ReportTouch, Reported, LiftKnown
  <2> QED BY <2>1, <2>2
<1>5. CASE Enable
  BY <1>5 DEF Enable, screen, history
<1> QED BY <1>1, <1>2, <1>3, <1>4, <1>5 DEF Bottom

\* What the work item has it reports, whatever the chip does meanwhile.
LEMMA HasStep ==
  ASSUME TouchInv, [TouchNext]_touchVars, Has, ~LiftKnown'
  PROVE  Has' /\ ~Bottom
<1>1. ~Bottom
  BY OwedBottom
<1>2. pc' = pc /\ regval' = regval
  BY <1>1 DEF TouchNext, Touch, Drag, Lift, Other, NewEvent, Top, ScheduleWork, DisableIrq, touchVars, work
<1> QED BY <1>1, <1>2 DEF Has

\* In each stage the one that is to step can.
LEMMA StageRuns ==
  ASSUME TouchInv
  PROVE  /\ Latched \/ Scheduled => TopCanRun
         /\ Pending \/ Receiving \/ Reporting \/ Enabling \/ Has => BottomCanRun
<1>1. Latched => edge /\ off = 0
  <2> SUFFICES ASSUME Latched PROVE edge /\ off = 0
    OBVIOUS
  <2>1. ~top /\ ~queued /\ pc = "idle" /\ ~failed /\ unread
    BY DEF Latched, Owed, LiftKnown
  <2> QED BY <2>1, OneAtWork DEF TouchInv, UnreadIsOwed
<1> QED BY <1>1 DEF Latched, Scheduled, Pending, Receiving, Reporting, Enabling, Has, Owed, TopCanRun, BottomCanRun

\* From stage to stage.
LEMMA StagesFollow ==
  []TouchInv /\ [][TouchNext]_touchVars /\ TouchRuns =>
    /\ Latched ~> (LiftKnown \/ Scheduled)
    /\ Scheduled ~> (LiftKnown \/ Pending)
    /\ Pending ~> (LiftKnown \/ Receiving)
    /\ Receiving ~> (LiftKnown \/ Has)
    /\ Reporting ~> (LiftKnown \/ Enabling)
    /\ Enabling ~> (LiftKnown \/ Latched)
    /\ Has ~> LiftKnown
<1> TRUE \in BOOLEAN /\ FALSE \in BOOLEAN
  OBVIOUS
<1>1. TouchInv /\ [TouchNext]_touchVars =>
        /\ Latched => (Latched \/ LiftKnown \/ Scheduled)'
        /\ Scheduled => (Scheduled \/ LiftKnown \/ Pending)'
        /\ Pending => (Pending \/ LiftKnown \/ Receiving)'
        /\ Receiving => (Receiving \/ LiftKnown \/ Has)'
        /\ Reporting => (Reporting \/ LiftKnown \/ Enabling)'
        /\ Enabling => (Enabling \/ LiftKnown \/ Latched)'
        /\ Has => (Has \/ LiftKnown)'
  <2> SUFFICES ASSUME TouchInv, [TouchNext]_touchVars, ~LiftKnown'
               PROVE  /\ Latched => Latched' \/ Scheduled'
                      /\ Scheduled => Scheduled' \/ Pending'
                      /\ Pending => Pending' \/ Receiving'
                      /\ Receiving => Receiving' \/ Has'
                      /\ Reporting => Reporting' \/ Enabling'
                      /\ Enabling => Enabling' \/ Latched'
                      /\ Has => Has'
    OBVIOUS
  <2>1. \A t, q \in BOOLEAN : \A l : Owed(t, q, l) => Owed(t, q, l)' \/ Top \/ Bottom
    BY OwedStep
  <2> QED
    BY <2>1, OwedTop, OwedBottom, HasStep
       DEF Latched, Scheduled, Pending, Receiving, Reporting, Enabling
<1>2. TouchInv /\ <<Top>>_touchVars =>
        /\ Latched => (LiftKnown \/ Scheduled)'
        /\ Scheduled => (LiftKnown \/ Pending)'
  BY OwedTop
<1>3. TouchInv /\ <<Bottom>>_touchVars =>
        /\ Pending => (LiftKnown \/ Receiving)'
        /\ Receiving => (LiftKnown \/ Has)'
        /\ Reporting => (LiftKnown \/ Enabling)'
        /\ Enabling => (LiftKnown \/ Latched)'
        /\ Has => LiftKnown'
  BY OwedBottom
<1> QED BY <1>1, <1>2, <1>3, StageRuns, PTL DEF TouchRuns

\* A finger that is lifted is reported as lifted, unless it comes back first,
\* a transfer fails or the chip overwrites its "up": an edge that comes
\* during a transfer is served once more.
THEOREM LiftsAreReported == TouchSpec /\ TouchRuns => LiftIsReported
<1>1. TouchSpec => []TouchInv /\ [][TouchNext]_touchVars
  BY TouchInitInv, TouchStep, PTL DEF TouchSpec
<1>2. LiftKnown <=> shown.btn = 0 \/ finger \/ failed \/ missed
  BY DEF LiftKnown
<1> QED BY <1>1, <1>2, LiftPending, StagesFollow, PTL DEF LiftIsReported

-----------------------------------------------------------------------------
\* The LEDs.

LedTypeInv ==
  /\ reg \in [Leds -> Levels]
  /\ at \in [Procs -> {"user", "loaded"}]
  /\ cmd \in [Procs -> [led : Leds, level : Levels]]
  /\ tmp \in [Procs -> [Leds -> Levels]]
  /\ asked \in [Leds -> Levels]
  /\ beside \in [Procs -> SUBSET Leds]
  /\ doubt \in SUBSET Leds

Kept ==
  \A q \in Procs : at[q] = "loaded" =>
    \A l \in Leds \ (beside[q] \cup doubt) : tmp[q][l] = reg[l]

LedInv == LedTypeInv /\ LedsShowTheLastCommand /\ Kept

-----------------------------------------------------------------------------
LEMMA NoCmdType == NoCmd \in [led : Leds, level : Levels] /\ AllOff \in [Leds -> Levels]
BY LedsAssumption DEF NoCmd, AllOff, Levels

LEMMA LedInitInv == LedInit => LedInv
BY NoCmdType DEF LedInit, LedInv, LedTypeInv, LedsShowTheLastCommand, Kept, AllOff, Levels

LEMMA BesideType ==
  ASSUME LedTypeInv, NEW ls \in SUBSET Leds, WrittenBeside(ls)
  PROVE  beside' \in [Procs -> SUBSET Leds]
BY DEF LedTypeInv, WrittenBeside

\* A write of l that leaves the other LEDs alone.
LEMMA LoadInv ==
  ASSUME LedInv, NEW p \in Procs, NEW l \in Leds, NEW v \in Levels, Load(p, l, v)
  PROVE  LedInv'
<1> USE DEF LedInv
<1>1. LedTypeInv' BY DEF LedTypeInv, Load
<1>2. LedsShowTheLastCommand' BY DEF Load, LedsShowTheLastCommand
<1>3. Kept' BY DEF Load, Kept, LedTypeInv
<1>4. QED BY <1>1, <1>2, <1>3

LEMMA StoreInv ==
  ASSUME LedInv, NEW p \in Procs, Store(p)
  PROVE  LedInv'
<1> USE DEF LedInv
<1> DEFINE l == cmd[p].led
<1>1. l \in Leds /\ cmd[p].level \in Levels BY DEF LedTypeInv
<1>2. LedTypeInv'
  <2>1. reg' \in [Leds -> Levels] /\ asked' \in [Leds -> Levels]
    BY <1>1 DEF LedTypeInv, Store
  <2>2. /\ at' \in [Procs -> {"user", "loaded"}]
        /\ cmd' \in [Procs -> [led : Leds, level : Levels]]
        /\ tmp' \in [Procs -> [Leds -> Levels]]
    BY NoCmdType DEF LedTypeInv, Store, Return
  <2>3. beside' \in [Procs -> SUBSET Leds] BY <1>1, BesideType DEF Store
  <2>4. doubt' \in SUBSET Leds BY DEF LedTypeInv, Store
  <2>5. QED BY <2>1, <2>2, <2>3, <2>4 DEF LedTypeInv
\* What the call writes back for another LED that is not in doubt is what
\* the register holds.
<1>3. \A m \in Leds \ doubt' : m # l => reg'[m] = reg[m] /\ m \notin doubt
  <2>1. TAKE m \in Leds \ doubt'
  <2>2. HAVE m # l
  <2>3. m \notin doubt /\ m \notin beside[p] BY <2>2 DEF Store
  <2>4. tmp[p][m] = reg[m] BY <2>3 DEF Kept, Store
  <2>5. reg'[m] = tmp[p][m] BY <2>2 DEF Store, LedTypeInv
  <2>6. QED BY <2>3, <2>4, <2>5
<1>4. reg'[l] = asked'[l] BY <1>1 DEF Store, LedTypeInv
<1>5. LedsShowTheLastCommand'
  <2>1. ASSUME NEW m \in Leds \ doubt', m # l PROVE asked'[m] = asked[m]
    BY <2>1 DEF Store, LedTypeInv
  <2>2. QED BY <1>3, <1>4, <2>1 DEF LedsShowTheLastCommand
<1>6. Kept'
  <2>1. SUFFICES ASSUME NEW q \in Procs, at'[q] = "loaded",
                        NEW m \in Leds, m \notin beside'[q], m \notin doubt'
                 PROVE  tmp'[q][m] = reg'[m]
    BY DEF Kept
  <2>2. q # p /\ at[q] = "loaded" /\ tmp'[q] = tmp[q]
    BY <2>1 DEF Store, Return, LedTypeInv
  <2>3. beside'[q] = beside[q] \cup {l} BY <2>1 DEF Store, WrittenBeside
  <2>4. m # l /\ m \notin beside[q] BY <2>1, <2>3
  <2>5. reg'[m] = reg[m] /\ m \notin doubt BY <1>3, <2>1, <2>4
  <2>6. QED BY <2>2, <2>4, <2>5 DEF Kept
<1>7. QED BY <1>2, <1>5, <1>6

LEMMA SetGpioInv ==
  ASSUME LedInv, NEW p \in Procs, NEW l \in Leds, NEW v \in Levels, SetGpio(p, l, v)
  PROVE  LedInv'
<1> USE DEF LedInv
<1>1. LedTypeInv'
  <2>1. beside' \in [Procs -> SUBSET Leds] BY BesideType DEF SetGpio
  <2>2. QED BY <2>1 DEF LedTypeInv, SetGpio
<1>2. LedsShowTheLastCommand' BY DEF SetGpio, LedsShowTheLastCommand, LedTypeInv
<1>3. Kept' BY DEF SetGpio, WrittenBeside, Kept, LedTypeInv
<1>4. QED BY <1>1, <1>2, <1>3

LEMMA TurnAllOffInv == LedInv /\ TurnAllOff => LedInv'
<1> SUFFICES ASSUME LedInv, TurnAllOff PROVE LedInv' OBVIOUS
<1> USE DEF LedInv
<1>1. LedTypeInv'
  <2>1. beside' \in [Procs -> SUBSET Leds] BY BesideType DEF TurnAllOff
  <2>2. QED BY <2>1, NoCmdType DEF LedTypeInv, TurnAllOff
<1>2. LedsShowTheLastCommand' BY DEF TurnAllOff, LedsShowTheLastCommand
<1>3. Kept' BY DEF TurnAllOff, WrittenBeside, Kept, LedTypeInv
<1>4. QED BY <1>1, <1>2, <1>3

LEMMA LedStep == LedInv /\ [LedNext]_ledVars => LedInv'
<1> SUFFICES ASSUME LedInv, [LedNext]_ledVars PROVE LedInv' OBVIOUS
<1>1. CASE LedNext BY <1>1, LoadInv, StoreInv, SetGpioInv, TurnAllOffInv DEF LedNext
<1>2. CASE UNCHANGED ledVars
  BY <1>2 DEF ledVars, LedInv, LedTypeInv, LedsShowTheLastCommand, Kept
<1>3. QED BY <1>1, <1>2

\* However many programs command the LEDs, a LED whose last command was not
\* overtaken by the late iowrite8 of another call shows that command.
THEOREM LastCommandShows == LedSpec => []LedsShowTheLastCommand
<1>1. LedInv => LedsShowTheLastCommand BY DEF LedInv
<1>2. QED BY LedInitInv, LedStep, <1>1, PTL DEF LedSpec

================================================================================
