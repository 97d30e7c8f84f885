---------------------------- MODULE TimerQueueProofs ----------------------------
(***************************************************************************)
(* Theorems about TimerQueue, for any threads, addresses, intervals and    *)
(* bounds: type correctness, the agreement of the two sets, the ownership  *)
(* of every timer, the arming of the timerfd, and that what was cancelled  *)
(* stays cancelled.                                                        *)
(***************************************************************************)
EXTENDS TimerQueue, TLAPS

\* A queued addTimerInLoop() carries the sequence of its timer, and no timer is queued
\* twice.
QueueInv ==
    \A m \in 1 .. Len(queue) : queue[m].op = "add" =>
        /\ queue[m].id[2] = sequence[queue[m].id[1]]
        /\ \A n \in 1 .. Len(queue) :
              queue[n].op = "add" /\ queue[n].id[1] = queue[m].id[1] => n = m

\* A batch exists inside handleRead() only.
BatchInv == /\ callingExpiredTimers_ <=> pc # "idle"
            /\ pc = "idle" => expired = {}

\* ArmedForEarliest, and inside handleRead(), where reset() will arm the timerfd, the
\* same for the expirations for which it will not.
ArmInv ==
    \A e \in timers_ : pc = "idle" \/ e[1] = 0
        => armed # NotArmed /\ (armed <= e[1] \/ armed <= clock + 1)

\* Sequences identify the timers that exist.
SequenceInv ==
    /\ \A a \in Addr : sequence[a] <= created
    /\ \A a, b \in Addr :
          a \in live /\ b \in live /\ sequence[a] = sequence[b] => a = b

\* A cancelled timer is gone, or has expired and is marked.
CancelInv ==
    /\ \A s \in cancelled : s <= created
    /\ \A i \in activeTimers_ : i[2] \notin cancelled
    /\ \A n \in 1 .. Len(queue) : queue[n].op = "add" => queue[n].id[2] \notin cancelled
    /\ \A a \in expired : sequence[a] \in cancelled
                             => <<a, sequence[a]>> \in cancelingTimers_

TimerInv == /\ TypeOK /\ SetsAgree /\ OwnedOnce
            /\ QueueInv /\ BatchInv /\ ArmInv /\ SequenceInv /\ CancelInv

-------------------------------------------------------------------------------
(* Type correctness. *)

\* What the loop thread does to the two sets and the timerfd is well typed.
LEMMA TypeAdd ==
    ASSUME TypeOK, NEW a \in Addr, NEW when \in Nat, NEW seq \in Nat,
           AddTimerInLoop(a, when, seq)
    PROVE  timers_' \subseteq Nat \X Addr /\ activeTimers_' \subseteq Id /\ armed' \in Nat
  BY DEF TypeOK, AddTimerInLoop, ArmAt, Id

LEMMA TypeCancel ==
    ASSUME TypeOK, NEW id \in Id, CancelInLoop(id)
    PROVE  /\ timers_' \subseteq Nat \X Addr /\ activeTimers_' \subseteq Id
           /\ live' \subseteq Addr
           /\ cancelingTimers_' \subseteq Id /\ cancelled' \subseteq Nat
           /\ UNCHANGED <<expiration, interval, sequence, created, armed>>
  BY DEF TypeOK, CancelInLoop, Mark, Id

LEMMA TypeNew ==
    ASSUME TypeOK, NEW a \in Addr, NEW when \in Nat, NEW period \in Interval,
           NewTimer(a, when, period)
    PROVE  /\ live' \subseteq Addr
           /\ expiration' \in [Addr -> Nat] /\ interval' \in [Addr -> Nat]
           /\ sequence' \in [Addr -> Nat]
           /\ created' \in Nat
  BY TimerBoundAssumption DEF TypeOK, NewTimer

\* Every reachable state of the timer queue is well typed.
THEOREM TimerTypeCorrect == Safety => []TypeOK
<1>1. Init => TypeOK
  <2>1. <<>> \in Seq([op : {"add", "cancel"}, id : Id])
      OBVIOUS
  <2>2. ASSUME Init
        PROVE  /\ expiration \in [Addr -> Nat] /\ interval \in [Addr -> Nat]
               /\ sequence \in [Addr -> Nat]
               /\ call \in [Caller -> Addr \cup {NoAddr}]
      BY <2>2 DEF Init
  <2>3. ASSUME Init
        PROVE  /\ timers_ \subseteq Nat \X Addr /\ activeTimers_ \subseteq Id
               /\ cancelingTimers_ \subseteq Id /\ ids \subseteq Id /\ cancelled \subseteq Nat
               /\ live \subseteq Addr /\ expired \subseteq Addr /\ left \subseteq expired
      BY <2>3 DEF Init
  <2>4. ASSUME Init
        PROVE  /\ clock \in Nat /\ created \in Nat /\ now \in Nat /\ armed \in Nat
               /\ callingExpiredTimers_ \in BOOLEAN /\ ready \in BOOLEAN
               /\ pc \in {"idle", "expired", "callback"}
               /\ queue \in Seq([op : {"add", "cancel"}, id : Id])
      BY <2>4, <2>1 DEF Init, NotArmed
  <2>5. QED
      BY <2>2, <2>3, <2>4 DEF TypeOK
<1>2. ASSUME TypeOK, [Next]_vars PROVE TypeOK'
  <2> USE <1>2
  <2>1. CASE UNCHANGED vars
      BY <2>1 DEF TypeOK, vars, timers, heap, handler
  <2>2. CASE Tick
      BY <2>2 DEF TypeOK, Tick, timers, heap, handler
  <2>3. CASE RunFunctor
    <3> DEFINE f == Head(queue)
    <3>2. f \in [op : {"add", "cancel"}, id : Id] /\ queue' \in Seq([op : {"add", "cancel"}, id : Id])
      <4> DEFINE S == [op : {"add", "cancel"}, id : Id]
      <4>1. queue \in Seq(S) /\ queue # <<>> /\ queue' = Tail(queue)
          BY <2>3 DEF TypeOK, RunFunctor
      <4> HIDE DEF S
      <4>2. Head(queue) \in S /\ Tail(queue) \in Seq(S)
          BY <4>1
      <4>3. QED
          BY <4>1, <4>2 DEF S
    <3>3. f.id \in Id /\ f.id[1] \in Addr /\ f.id[2] \in Nat
        BY <3>2 DEF Id
    <3>4. expiration[f.id[1]] \in Nat
        BY <3>3 DEF TypeOK
    <3>5. CASE /\ AddTimerInLoop(f.id[1], expiration[f.id[1]], f.id[2])
               /\ UNCHANGED <<heap, created, cancelingTimers_, cancelled>>
        BY <2>3, <3>2, <3>3, <3>4, <3>5, TypeAdd DEF TypeOK, RunFunctor, handler, heap
    <3>6. CASE CancelInLoop(f.id)
        BY <2>3, <3>2, <3>3, <3>6, TypeCancel DEF TypeOK, RunFunctor, handler, heap
    <3>7. QED
        BY <2>3, <3>5, <3>6 DEF RunFunctor
  <2>4. CASE Poll
      BY <2>4 DEF TypeOK, Poll, timers, heap
  <2>5. CASE HandleRead
      BY <2>5 DEF TypeOK, HandleRead, StillActive, NotArmed, heap
  <2>6. ASSUME NEW a \in Addr, RunTimer(a) PROVE TypeOK'
      BY <2>6 DEF TypeOK, RunTimer, timers, heap
  <2>7. CASE CallbackReturn
      BY <2>7 DEF TypeOK, CallbackReturn, timers, heap
  <2>8. CASE Reset
    <3>1. expiration' \in [Addr -> Nat] /\ live' \subseteq Addr
        BY <2>8 DEF TypeOK, Reset, Again
    <3>2. timers_' \subseteq Nat \X Addr /\ activeTimers_' \subseteq Id
      <4>1. \A a \in Again : a \in Addr /\ now + interval[a] \in Nat /\ sequence[a] \in Nat
          BY DEF TypeOK, Again
      <4>2. QED
          BY <2>8, <4>1 DEF TypeOK, Reset, Id
    <3>3. armed' \in Nat
        BY <2>8, <3>2 DEF TypeOK, Reset, Rearm, ArmAt
    <3>4. QED
        BY <2>8, <3>1, <3>2, <3>3 DEF TypeOK, Reset
  <2>9. ASSUME NEW a \in Addr, NEW when \in 0 .. MaxTime, NEW period \in Interval,
               AddTimer(a, when, period)
        PROVE  TypeOK'
    <3>1. when \in Nat /\ created + 1 \in Nat /\ <<a, created + 1>> \in Id
        BY TimerBoundAssumption DEF TypeOK, Id
    <3>2. QED
        BY <2>9, <3>1, TypeAdd, TypeNew DEF TypeOK, AddTimer, handler
  <2>10. ASSUME NEW th \in Caller, NEW a \in Addr, NEW when \in 0 .. MaxTime,
                NEW period \in Interval, QueueTimer(th, a, when, period)
         PROVE  TypeOK'
    <3>1. when \in Nat /\ created + 1 \in Nat /\ <<a, created + 1>> \in Id
        BY TimerBoundAssumption DEF TypeOK, Id
    <3>2. queue' \in Seq([op : {"add", "cancel"}, id : Id])
        BY <2>10, <3>1 DEF TypeOK, QueueTimer
    <3>3. QED
        BY <2>10, <3>1, <3>2, TypeNew DEF TypeOK, QueueTimer, handler
  <2>11. ASSUME NEW th \in Caller, ReturnId(th) PROVE TypeOK'
      BY <2>11 DEF TypeOK, ReturnId, timers, heap, handler, Id
  <2>12. ASSUME NEW id \in ids, Cancel(id) PROVE TypeOK'
      BY <2>12, TypeCancel DEF TypeOK, Cancel, handler
  <2>13. ASSUME NEW id \in ids, NEW th \in Caller, QueueCancel(th, id) PROVE TypeOK'
      BY <2>13 DEF TypeOK, QueueCancel, timers, heap, handler
  <2>14. QED
      BY <2>1, <2>2, <2>3, <2>4, <2>5, <2>6, <2>7, <2>8, <2>9, <2>10, <2>11, <2>12, <2>13
         DEF Next, LoopStep, UserStep
<1>3. QED
    BY <1>1, <1>2, PTL DEF Safety

-------------------------------------------------------------------------------
(* The invariant. *)

\* What the provers need to be told of ordered pairs.
LEMMA PairEqual ==
    ASSUME NEW S, NEW T, NEW p \in S \X T, NEW q \in S \X T, p[1] = q[1], p[2] = q[2]
    PROVE  p = q
  OBVIOUS

\* Pairs that differ.
LEMMA PairSecond ==
    ASSUME NEW x, NEW y, NEW u, NEW v, y # v
    PROVE  <<x, y>> # <<u, v>>
  OBVIOUS

\* Outside the functors: what a step that leaves the queue, the timers and the batch
\* alone cannot disturb.
LEMMA InvCalm ==
    ASSUME TimerInv, TypeOK', ArmInv',
           UNCHANGED <<heap, created, timers_, activeTimers_, callingExpiredTimers_, expired,
                       cancelingTimers_, queue, cancelled>>,
           pc = "idle" <=> pc' = "idle"
    PROVE  TimerInv'
  BY DEF TimerInv, SetsAgree, OwnedOnce, QueueInv, BatchInv, SequenceInv, CancelInv, Waiting,
         Queued, heap

\* The next functor is taken from the queue.
LEMMA QueueTail ==
    ASSUME TimerInv, queue # <<>>, queue' = Tail(queue), UNCHANGED sequence
    PROVE  /\ QueueInv'
           /\ \A n \in 1 .. Len(queue') : queue'[n].op = "add" => queue'[n].id[2] \notin cancelled
           /\ \A b \in Addr :
                 Queued(b)' <=> Queued(b) /\ ~(Head(queue).op = "add" /\ Head(queue).id[1] = b)
<1> DEFINE S == [op : {"add", "cancel"}, id : Id]
<1>1. queue \in Seq(S)
    BY DEF TimerInv, TypeOK
<1> HIDE DEF S
<1>2. /\ Len(queue') = Len(queue) - 1 /\ Len(queue) \in Nat \ {0}
      /\ \A n \in 1 .. Len(queue') : queue'[n] = queue[n + 1]
      /\ Head(queue) = queue[1]
    BY <1>1
<1>3. QueueInv'
    BY <1>2 DEF TimerInv, QueueInv
<1>4. \A n \in 1 .. Len(queue') : queue'[n].op = "add" => queue'[n].id[2] \notin cancelled
    BY <1>2 DEF TimerInv, CancelInv
<1>5. ASSUME NEW b \in Addr
      PROVE  Queued(b)' <=> Queued(b) /\ ~(Head(queue).op = "add" /\ Head(queue).id[1] = b)
  <2>1. ASSUME Queued(b)' PROVE Queued(b) /\ ~(Head(queue).op = "add" /\ Head(queue).id[1] = b)
    <3>1. PICK n \in 1 .. Len(queue') : queue'[n].op = "add" /\ queue'[n].id[1] = b
        BY <2>1 DEF Queued
    <3>2. n + 1 \in 1 .. Len(queue) /\ n + 1 # 1 /\ 1 \in 1 .. Len(queue)
        BY <1>2
    <3>3. queue[n + 1].op = "add" /\ queue[n + 1].id[1] = b
        BY <1>2, <3>1
    <3>4. QED
        BY <1>2, <3>2, <3>3 DEF TimerInv, QueueInv, Queued
  <2>2. ASSUME Queued(b), ~(Head(queue).op = "add" /\ Head(queue).id[1] = b) PROVE Queued(b)'
    <3>1. PICK n \in 1 .. Len(queue) : queue[n].op = "add" /\ queue[n].id[1] = b
        BY <2>2 DEF Queued
    <3>2. n # 1 /\ n - 1 \in 1 .. Len(queue') /\ (n - 1) + 1 = n
        BY <1>2, <2>2, <3>1
    <3>3. queue'[n - 1] = queue[n]
        BY <1>2, <3>2
    <3>4. QED
        BY <3>1, <3>2, <3>3 DEF Queued
  <2>3. QED
      BY <2>1, <2>2
<1>6. QED
    BY <1>3, <1>4, <1>5

\* addTimerInLoop() of a timer that does not wait.
LEMMA SetsAdd ==
    ASSUME TypeOK, SetsAgree, NEW a \in Addr, NEW when \in Nat, NEW seq \in Nat,
           AddTimerInLoop(a, when, seq), ~Waiting(a),
           expiration'[a] = when, sequence'[a] = seq,
           \A b \in Addr \ {a} : expiration'[b] = expiration[b] /\ sequence'[b] = sequence[b]
    PROVE  /\ SetsAgree'
           /\ \A b \in Addr : Waiting(b)' <=> Waiting(b) \/ b = a
<1>1. ASSUME NEW e \in timers_ PROVE e[2] \in Addr \ {a}
  <2>1. e[2] \in Addr
      BY DEF TypeOK
  <2>2. <<e[2], sequence[e[2]]>> \in activeTimers_
      BY DEF SetsAgree
  <2>3. Waiting(e[2])
      BY <2>2 DEF Waiting
  <2>4. QED
      BY <2>1, <2>3
<1>2. \A i \in activeTimers_ : i[1] \in Addr \ {a}
    BY DEF TypeOK, Waiting, Id
<1>3. /\ timers_' = timers_ \cup {<<when, a>>}
      /\ activeTimers_' = activeTimers_ \cup {<<a, seq>>}
    BY DEF AddTimerInLoop
<1>4. SetsAgree'
  <2>1. ASSUME NEW e \in timers_'
        PROVE  e[1] = expiration'[e[2]] /\ <<e[2], sequence'[e[2]]>> \in activeTimers_'
    <3>1. CASE e \in timers_
      <4>1. e[2] \in Addr \ {a}
          BY <1>1, <3>1
      <4>2. expiration'[e[2]] = expiration[e[2]] /\ sequence'[e[2]] = sequence[e[2]]
          BY <4>1
      <4>3. QED
          BY <1>3, <3>1, <4>2 DEF SetsAgree
    <3>2. CASE e = <<when, a>>
        BY <1>3, <3>2
    <3>3. QED
        BY <1>3, <3>1, <3>2
  <2>2. ASSUME NEW i \in activeTimers_'
        PROVE  i[2] = sequence'[i[1]] /\ <<expiration'[i[1]], i[1]>> \in timers_'
    <3>1. CASE i \in activeTimers_
      <4>1. i[1] \in Addr \ {a}
          BY <1>2, <3>1
      <4>2. expiration'[i[1]] = expiration[i[1]] /\ sequence'[i[1]] = sequence[i[1]]
          BY <4>1
      <4>3. QED
          BY <1>3, <3>1, <4>2 DEF SetsAgree
    <3>2. CASE i = <<a, seq>>
        BY <1>3, <3>2
    <3>3. QED
        BY <1>3, <3>1, <3>2
  <2>3. QED
      BY <2>1, <2>2 DEF SetsAgree
<1>5. ASSUME NEW b \in Addr PROVE Waiting(b)' <=> Waiting(b) \/ b = a
  <2>1. <<a, seq>>[1] = a
      OBVIOUS
  <2>2. Waiting(b)' <=> \E i \in activeTimers_' : i[1] = b
      BY DEF Waiting
  <2>3. (\E i \in activeTimers_' : i[1] = b) <=> Waiting(b) \/ <<a, seq>>[1] = b
      BY <1>3, Zenon DEF Waiting
  <2>4. QED
      BY <2>1, <2>2, <2>3
<1>6. QED
    BY <1>4, <1>5

\* addTimerInLoop() keeps the timerfd early enough.
LEMMA ArmAdd ==
    ASSUME TypeOK, ArmInv, NEW a \in Addr, NEW when \in Nat, NEW seq \in Nat,
           AddTimerInLoop(a, when, seq), UNCHANGED <<clock, pc>>
    PROVE  ArmInv'
<1>1. \A e \in timers_ : e[1] \in Nat
    BY DEF TypeOK
<1>2. clock \in Nat /\ armed \in Nat
    BY DEF TypeOK
<1>3. timers_' = timers_ \cup {<<when, a>>}
    BY DEF AddTimerInLoop
<1>4. CASE \A e \in timers_ : when < e[1]
  <2>1. armed' = IF when > clock THEN when ELSE clock + 1
      BY <1>4 DEF AddTimerInLoop, ArmAt
  <2>2. QED
      BY <1>1, <1>2, <1>3, <1>4, <2>1 DEF ArmInv, NotArmed
<1>5. CASE ~ \A e \in timers_ : when < e[1]
  <2>1. armed' = armed
      BY <1>5 DEF AddTimerInLoop
  <2>2. PICK e \in timers_ : ~(when < e[1])
      BY <1>5
  <2>3. (pc = "idle" \/ when = 0) => armed # NotArmed /\ (armed <= when \/ armed <= clock + 1)
      BY <1>1, <1>2, <2>2 DEF ArmInv
  <2>4. QED
      BY <1>3, <2>1, <2>3 DEF ArmInv
<1>6. QED
    BY <1>4, <1>5

\* cancelInLoop() of any id.
LEMMA SetsCancel ==
    ASSUME TypeOK, SetsAgree, NEW id \in Id, CancelInLoop(id)
    PROVE  /\ SetsAgree'
           /\ id \in activeTimers_ => \A b \in Addr : Waiting(b)' <=> Waiting(b) /\ b # id[1]
           /\ id \in activeTimers_ => Waiting(id[1])
           /\ id \notin activeTimers_ => UNCHANGED <<timers_, activeTimers_, live>>
<1>1. UNCHANGED <<expiration, sequence>>
    BY DEF CancelInLoop
<1>2. CASE id \notin activeTimers_
    BY <1>1, <1>2 DEF CancelInLoop, SetsAgree
<1>3. CASE id \in activeTimers_
  <2>1. /\ timers_' = timers_ \ {<<expiration[id[1]], id[1]>>}
        /\ activeTimers_' = activeTimers_ \ {id}
      BY <1>3 DEF CancelInLoop
  <2>2. timers_ \subseteq Nat \X Addr /\ activeTimers_ \subseteq Addr \X Nat
      BY DEF TypeOK, Id
  <2>3. id \in Addr \X Nat /\ expiration[id[1]] \in Nat
      BY <1>3, <2>2 DEF TypeOK
  <2>4. ASSUME NEW i \in activeTimers_, i[1] = id[1] PROVE i = id
    <3>1. i[2] = sequence[i[1]] /\ id[2] = sequence[id[1]]
        BY <1>3 DEF SetsAgree
    <3>2. i[2] = id[2]
        BY <2>4, <3>1
    <3>3. QED
        BY <2>2, <2>3, <2>4, <3>2, PairEqual
  <2>5. ASSUME NEW e \in timers_, e[2] = id[1] PROVE e = <<expiration[id[1]], id[1]>>
    <3>1. e[1] = expiration[id[1]]
        BY <2>5 DEF SetsAgree
    <3>2. QED
        BY <2>2, <2>5, <3>1
  <2>6. SetsAgree'
    <3>1. ASSUME NEW e \in timers_'
          PROVE  e[1] = expiration'[e[2]] /\ <<e[2], sequence'[e[2]]>> \in activeTimers_'
      <4>1. e \in timers_ /\ e[2] # id[1]
          BY <2>1, <2>5
      <4>2. <<e[2], sequence[e[2]]>> \in activeTimers_ /\ e[1] = expiration[e[2]]
          BY <4>1 DEF SetsAgree
      <4>3. <<e[2], sequence[e[2]]>> # id
          BY <4>1
      <4>4. QED
          BY <1>1, <2>1, <4>2, <4>3
    <3>2. ASSUME NEW i \in activeTimers_'
          PROVE  i[2] = sequence'[i[1]] /\ <<expiration'[i[1]], i[1]>> \in timers_'
      <4>1. i \in activeTimers_ /\ i[1] # id[1]
          BY <2>1, <2>4
      <4>2. <<expiration[i[1]], i[1]>> \in timers_ /\ i[2] = sequence[i[1]]
          BY <4>1 DEF SetsAgree
      <4>3. <<expiration[i[1]], i[1]>> # <<expiration[id[1]], id[1]>>
          BY <4>1, PairSecond, Zenon
      <4>4. QED
          BY <1>1, <2>1, <4>2, <4>3
    <3>3. QED
        BY <3>1, <3>2 DEF SetsAgree
  <2>7. \A b \in Addr : Waiting(b)' <=> Waiting(b) /\ b # id[1]
      BY <2>1, <2>4 DEF Waiting
  <2>8. QED
      BY <1>3, <2>6, <2>7 DEF Waiting
<1>4. QED
    BY <1>2, <1>3

\* A timer that cancelInLoop() knows exists, is not queued, and has its sequence alone.
LEMMA KnownTimer ==
    ASSUME TimerInv, NEW id \in Id, Known(id)
    PROVE  /\ id[1] \in live /\ sequence[id[1]] = id[2] /\ ~Queued(id[1])
           /\ id[2] \in Nat /\ id[2] <= created
           /\ \A b \in live : sequence[b] = id[2] => b = id[1]
<1>1. id[1] \in Addr /\ id[2] \in Nat /\ live \subseteq Addr
    BY DEF TimerInv, TypeOK, Id
<1>2. sequence[id[1]] = id[2] /\ (Waiting(id[1]) \/ id[1] \in expired)
    BY DEF Known, TimerInv, SetsAgree, Waiting
<1>3. id[1] \in live /\ ~Queued(id[1])
    BY <1>1, <1>2 DEF TimerInv, OwnedOnce
<1>4. QED
    BY <1>1, <1>2, <1>3 DEF TimerInv, SequenceInv

\* cancel() of any id, by the loop thread or by the functor of another.
LEMMA InvCancel ==
    ASSUME TimerInv, TypeOK', NEW id \in Id, CancelInLoop(id), UNCHANGED <<clock, handler>>,
           \/ UNCHANGED queue
           \/ queue # <<>> /\ queue' = Tail(queue) /\ Head(queue).op = "cancel"
    PROVE  TimerInv'
<1>1. /\ UNCHANGED <<expiration, interval, sequence, created, armed, clock>>
      /\ UNCHANGED <<callingExpiredTimers_, pc, expired>>
      /\ live' \subseteq live /\ timers_' \subseteq timers_ /\ activeTimers_' \subseteq activeTimers_
    BY DEF CancelInLoop, handler
<1>2. QueueInv'
    BY <1>1, QueueTail DEF TimerInv, QueueInv
<1>3. ASSUME NEW b \in Addr PROVE Queued(b)' <=> Queued(b)
    BY <1>1, QueueTail DEF Queued
<1>4. /\ SetsAgree'
      /\ id \in activeTimers_ => \A b \in Addr : Waiting(b)' <=> Waiting(b) /\ b # id[1]
      /\ id \in activeTimers_ => Waiting(id[1])
      /\ id \notin activeTimers_ => UNCHANGED <<timers_, activeTimers_, live>>
    BY SetsCancel DEF TimerInv
<1>5. OwnedOnce'
  <2>1. CASE id \notin activeTimers_
      BY <1>1, <1>3, <1>4, <2>1 DEF TimerInv, OwnedOnce, Waiting
  <2>2. CASE id \in activeTimers_
    <3>1. live' = live \ {id[1]}
        BY <2>2 DEF CancelInLoop
    <3>2. QED
        BY <1>1, <1>3, <1>4, <2>2, <3>1 DEF TimerInv, OwnedOnce
  <2>3. QED
      BY <2>1, <2>2
<1>6. BatchInv' /\ ArmInv' /\ SequenceInv'
    BY <1>1 DEF TimerInv, BatchInv, ArmInv, SequenceInv
<1>7. CASE ~Known(id)
  <2>1. cancelled' = cancelled /\ cancelingTimers_ \subseteq cancelingTimers_'
      BY <1>7 DEF CancelInLoop, Mark
  <2>2. \A n \in 1 .. Len(queue') : queue'[n].op = "add" => queue'[n].id[2] \notin cancelled
      BY <1>1, QueueTail DEF TimerInv, CancelInv
  <2>3. CancelInv'
      BY <1>1, <2>1, <2>2 DEF TimerInv, CancelInv
  <2>4. QED
      BY <1>2, <1>4, <1>5, <1>6, <2>3 DEF TimerInv
<1>8. CASE Known(id)
  <2>1. cancelled' = cancelled \cup {id[2]} /\ cancelingTimers_ \subseteq cancelingTimers_'
      BY <1>8 DEF CancelInLoop, Mark
  <2>2. \A s \in cancelled' : s <= created'
      BY <1>1, <1>8, <2>1, KnownTimer DEF TimerInv, CancelInv
  <2>3. ASSUME NEW i \in activeTimers_' PROVE i[2] \notin cancelled'
    <3>1. i \in activeTimers_ /\ i[1] \in Addr /\ i[2] = sequence[i[1]] /\ Waiting(i[1])
        BY <1>1 DEF TimerInv, TypeOK, SetsAgree, Waiting, Id
    <3>2. i[1] \in live /\ i[1] \notin expired
        BY <3>1 DEF TimerInv, OwnedOnce
    <3>3. i[2] = id[2] => i[1] = id[1]
        BY <1>8, <3>1, <3>2, KnownTimer
    <3>4. i[1] # id[1]
      <4>1. CASE id \in activeTimers_
        <5>1. Waiting(i[1])'
            BY DEF Waiting
        <5>2. QED
            BY <1>4, <3>1, <4>1, <5>1
      <4>2. CASE id \notin activeTimers_
          BY <1>8, <3>2, <4>2 DEF Known
      <4>3. QED
          BY <4>1, <4>2
    <3>5. QED
        BY <2>1, <3>1, <3>3, <3>4 DEF TimerInv, CancelInv
  <2>4. ASSUME NEW n \in 1 .. Len(queue'), queue'[n].op = "add"
        PROVE  queue'[n].id[2] \notin cancelled'
    <3>1. PICK q \in Id : q = queue'[n].id
      <4> DEFINE S == [op : {"add", "cancel"}, id : Id]
      <4>1. queue' \in Seq(S)
          BY DEF TypeOK
      <4> HIDE DEF S
      <4>2. queue'[n] \in S
          BY <4>1
      <4>3. QED
          BY <4>2 DEF S
    <3>2. q[1] \in Addr /\ q[2] \notin cancelled
        BY <1>1, <2>4, <3>1, QueueTail DEF TimerInv, CancelInv, Id
    <3>3. q[2] = sequence[q[1]]
        BY <1>1, <1>2, <2>4, <3>1 DEF QueueInv
    <3>4. Queued(q[1])'
        BY <2>4, <3>1 DEF Queued
    <3>5. Queued(q[1]) /\ q[1] \in live
        BY <1>3, <3>2, <3>4 DEF TimerInv, OwnedOnce
    <3>6. q[2] # id[2]
        BY <1>8, <3>3, <3>5, KnownTimer
    <3>7. QED
        BY <2>1, <3>1, <3>2, <3>6
  <2>5. ASSUME NEW a \in expired', sequence'[a] \in cancelled'
        PROVE  <<a, sequence'[a]>> \in cancelingTimers_'
    <3>1. a \in expired /\ a \in Addr /\ sequence'[a] = sequence[a]
        BY <1>1 DEF TimerInv, TypeOK
    <3>2. CASE sequence[a] \in cancelled
        BY <2>1, <3>1, <3>2 DEF TimerInv, CancelInv
    <3>3. CASE sequence[a] \notin cancelled
      <4>1. sequence[a] = id[2]
          BY <2>1, <2>5, <3>1, <3>3
      <4>2. a \in live /\ ~Waiting(a)
          BY <3>1 DEF TimerInv, OwnedOnce
      <4>3. a = id[1]
          BY <1>8, <4>1, <4>2, KnownTimer
      <4>4. id \notin activeTimers_
          BY <1>4, <4>2, <4>3
      <4>5. callingExpiredTimers_
          BY <3>1 DEF TimerInv, BatchInv
      <4>6. id \in cancelingTimers_'
          BY <4>4, <4>5 DEF CancelInLoop, Mark
      <4>7. id = <<id[1], id[2]>>
          BY DEF Id
      <4>8. QED
          BY <3>1, <4>1, <4>3, <4>6, <4>7
    <3>4. QED
        BY <3>2, <3>3
  <2>6. CancelInv'
      BY <2>2, <2>3, <2>4, <2>5 DEF CancelInv
  <2>7. QED
      BY <1>2, <1>4, <1>5, <1>6, <2>6 DEF TimerInv
<1>9. QED
    BY <1>7, <1>8

\* What a queued addTimerInLoop() says of its timer.
LEMMA QueuedTimer ==
    ASSUME TimerInv, NEW m \in 1 .. Len(queue), queue[m].op = "add"
    PROVE  /\ queue[m].id[1] \in Addr /\ queue[m].id[2] = sequence[queue[m].id[1]]
           /\ queue[m].id[2] \notin cancelled
           /\ Queued(queue[m].id[1]) /\ queue[m].id[1] \in live
<1> DEFINE S == [op : {"add", "cancel"}, id : Id]
<1>1. queue \in Seq(S)
    BY DEF TimerInv, TypeOK
<1> HIDE DEF S
<1>2. queue[m] \in S
    BY <1>1
<1>3. queue[m].id[1] \in Addr
    BY <1>2 DEF S, Id
<1>4. Queued(queue[m].id[1])
    BY DEF Queued
<1>5. queue[m].id[1] \in live
    BY <1>3, <1>4 DEF TimerInv, OwnedOnce
<1>6. queue[m].id[2] = sequence[queue[m].id[1]] /\ queue[m].id[2] \notin cancelled
    BY DEF TimerInv, QueueInv, CancelInv
<1>7. QED
    BY <1>3, <1>4, <1>5, <1>6

\* The functor of another thread's addTimer().
LEMMA InvRunAdd ==
    ASSUME TimerInv, TypeOK', queue # <<>>, queue' = Tail(queue), Head(queue).op = "add",
           NEW id \in Id, id = Head(queue).id,
           AddTimerInLoop(id[1], expiration[id[1]], id[2]),
           UNCHANGED <<heap, created, cancelingTimers_, cancelled, clock, handler>>
    PROVE  TimerInv'
<1>1. UNCHANGED <<live, expiration, interval, sequence, created, callingExpiredTimers_, pc,
                  expired, cancelingTimers_, cancelled, clock>>
    BY DEF heap, handler
<1>2. /\ id[1] \in Addr /\ id[2] \in Nat /\ id[2] = sequence[id[1]] /\ id[2] \notin cancelled
      /\ Queued(id[1]) /\ id[1] \in live
  <2>1. 1 \in 1 .. Len(queue) /\ Head(queue) = queue[1]
      BY DEF TimerInv, TypeOK
  <2>2. QED
      BY <2>1, QueuedTimer DEF Id
<1>3. ~Waiting(id[1]) /\ id[1] \notin expired /\ expiration[id[1]] \in Nat
    BY <1>2 DEF TimerInv, OwnedOnce, TypeOK
<1>4. SetsAgree' /\ \A b \in Addr : Waiting(b)' <=> Waiting(b) \/ b = id[1]
    BY <1>1, <1>2, <1>3, SetsAdd DEF TimerInv
<1>5. ASSUME NEW b \in Addr PROVE Queued(b)' <=> Queued(b) /\ b # id[1]
    BY <1>1, QueueTail
<1>6. OwnedOnce'
    BY <1>1, <1>2, <1>3, <1>4, <1>5 DEF TimerInv, OwnedOnce
<1>7. QueueInv' /\ BatchInv' /\ SequenceInv'
    BY <1>1, QueueTail DEF TimerInv, BatchInv, SequenceInv
<1>8. ArmInv'
    BY <1>1, <1>2, <1>3, ArmAdd DEF TimerInv
<1>9. CancelInv'
  <2>1. activeTimers_' = activeTimers_ \cup {<<id[1], id[2]>>}
      BY DEF AddTimerInLoop
  <2>2. \A i \in activeTimers_' : i[2] \notin cancelled
      BY <1>2, <2>1 DEF TimerInv, CancelInv
  <2>3. QED
      BY <1>1, <2>2, QueueTail DEF TimerInv, CancelInv
<1>10. QED
    BY <1>4, <1>6, <1>7, <1>8, <1>9 DEF TimerInv

\* A new timer has its address and its sequence alone, and disturbs no other.
LEMMA FreshTimer ==
    ASSUME TimerInv, NEW a \in Addr, NEW when \in Nat, NEW period, NewTimer(a, when, period),
           UNCHANGED cancelled
    PROVE  /\ created + 1 \in Nat /\ live' = live \cup {a} /\ a \notin live
           /\ expiration'[a] = when /\ sequence'[a] = created + 1
           /\ \A b \in Addr \ {a} :
                 expiration'[b] = expiration[b] /\ sequence'[b] = sequence[b]
           /\ ~Queued(a) /\ ~Waiting(a) /\ a \notin expired
           /\ created + 1 \notin cancelled /\ \A s \in cancelled : s <= created'
           /\ SequenceInv'
<1>1. /\ created \in Nat /\ live \subseteq Addr /\ cancelled \subseteq Nat
      /\ expiration \in [Addr -> Nat] /\ sequence \in [Addr -> Nat]
    BY DEF TimerInv, TypeOK
<1>2. /\ created' = created + 1 /\ live' = live \cup {a} /\ a \notin live
      /\ expiration'[a] = when /\ sequence'[a] = created + 1
      /\ \A b \in Addr \ {a} : expiration'[b] = expiration[b] /\ sequence'[b] = sequence[b]
    BY <1>1 DEF NewTimer
<1>3. ~Queued(a) /\ ~Waiting(a) /\ a \notin expired
    BY <1>2 DEF TimerInv, OwnedOnce
<1>4. created + 1 \notin cancelled /\ \A s \in cancelled : s <= created'
    BY <1>1, <1>2 DEF TimerInv, CancelInv
<1>5. SequenceInv'
  <2>1. \A b \in Addr : sequence[b] \in Nat /\ sequence[b] <= created
      BY <1>1 DEF TimerInv, SequenceInv
  <2>2. \A b \in Addr : sequence'[b] <= created'
      BY <1>1, <1>2, <2>1
  <2>3. \A b \in Addr \ {a} : sequence'[b] # sequence'[a]
      BY <1>1, <1>2, <2>1
  <2>4. QED
      BY <1>2, <2>2, <2>3 DEF TimerInv, SequenceInv
<1>6. QED
    BY <1>1, <1>2, <1>3, <1>4, <1>5

\* addTimer() in the loop thread.
LEMMA InvAddTimer ==
    ASSUME TimerInv, TypeOK', NEW a \in Addr, NEW when \in Nat, NEW period,
           AddTimer(a, when, period)
    PROVE  TimerInv'
<1>1. NewTimer(a, when, period) /\ AddTimerInLoop(a, when, created + 1)
    BY DEF AddTimer
<1>2. UNCHANGED <<clock, cancelingTimers_, callingExpiredTimers_, pc, expired, queue, cancelled>>
    BY DEF AddTimer, handler
<1>3. /\ created + 1 \in Nat /\ live' = live \cup {a} /\ a \notin live
      /\ expiration'[a] = when /\ sequence'[a] = created + 1
      /\ \A b \in Addr \ {a} : expiration'[b] = expiration[b] /\ sequence'[b] = sequence[b]
      /\ ~Queued(a) /\ ~Waiting(a) /\ a \notin expired
      /\ created + 1 \notin cancelled /\ \A s \in cancelled : s <= created'
      /\ SequenceInv'
    BY <1>1, <1>2, FreshTimer
<1>4. SetsAgree' /\ \A b \in Addr : Waiting(b)' <=> Waiting(b) \/ b = a
    BY <1>1, <1>3, SetsAdd DEF TimerInv
<1>5. ASSUME NEW b \in Addr PROVE Queued(b)' <=> Queued(b)
    BY <1>2 DEF Queued
<1>6. OwnedOnce'
    BY <1>2, <1>3, <1>4, <1>5 DEF TimerInv, OwnedOnce
<1>7. QueueInv'
  <2>1. ASSUME NEW m \in 1 .. Len(queue), queue[m].op = "add"
        PROVE  queue[m].id[2] = sequence'[queue[m].id[1]]
    <3>1. queue[m].id[1] \in Addr \ {a} /\ queue[m].id[2] = sequence[queue[m].id[1]]
        BY <1>3, <2>1, QueuedTimer
    <3>2. QED
        BY <1>3, <3>1
  <2>2. QED
      BY <1>2, <2>1 DEF TimerInv, QueueInv
<1>8. BatchInv' /\ ArmInv'
    BY <1>1, <1>2, <1>3, ArmAdd DEF TimerInv, BatchInv
<1>9. CancelInv'
  <2>1. activeTimers_' = activeTimers_ \cup {<<a, created + 1>>}
      BY <1>1 DEF AddTimerInLoop
  <2>2. \A i \in activeTimers_' : i[2] \notin cancelled
      BY <1>3, <2>1 DEF TimerInv, CancelInv
  <2>3. \A b \in expired : sequence'[b] = sequence[b]
      BY <1>3 DEF TimerInv, TypeOK
  <2>4. QED
      BY <1>2, <1>3, <2>2, <2>3 DEF TimerInv, CancelInv
<1>10. QED
    BY <1>3, <1>4, <1>6, <1>7, <1>8, <1>9 DEF TimerInv

\* addTimer() in another thread, up to the functor it queues.
LEMMA InvQueueTimer ==
    ASSUME TimerInv, TypeOK', NEW th \in Caller, NEW a \in Addr, NEW when \in Nat, NEW period,
           QueueTimer(th, a, when, period)
    PROVE  TimerInv'
<1> DEFINE x == [op |-> "add", id |-> <<a, created + 1>>]
<1>1. NewTimer(a, when, period) /\ queue' = Append(queue, x)
    BY DEF QueueTimer
<1>2. UNCHANGED <<clock, timers_, activeTimers_, armed, cancelingTimers_,
                  callingExpiredTimers_, pc, expired, cancelled>>
    BY DEF QueueTimer, handler
<1>3. /\ created + 1 \in Nat /\ live' = live \cup {a} /\ a \notin live
      /\ expiration'[a] = when /\ sequence'[a] = created + 1
      /\ \A b \in Addr \ {a} : expiration'[b] = expiration[b] /\ sequence'[b] = sequence[b]
      /\ ~Queued(a) /\ ~Waiting(a) /\ a \notin expired
      /\ created + 1 \notin cancelled /\ \A s \in cancelled : s <= created'
      /\ SequenceInv'
    BY <1>1, <1>2, FreshTimer
<1>4. /\ Len(queue') = Len(queue) + 1 /\ Len(queue) \in Nat
      /\ \A n \in 1 .. Len(queue) : queue'[n] = queue[n]
      /\ queue'[Len(queue) + 1] = x
  <2> DEFINE S == [op : {"add", "cancel"}, id : Id]
  <2>1. queue \in Seq(S)
      BY DEF TimerInv, TypeOK
  <2> HIDE DEF S, x
  <2>2. QED
      BY <1>1, <2>1
<1>5. SetsAgree'
  <2>1. \A e \in timers_ : e[2] \in Addr \ {a}
    <3>1. ASSUME NEW e \in timers_ PROVE e[2] \in Addr \ {a}
      <4>1. e[2] \in Addr /\ <<e[2], sequence[e[2]]>> \in activeTimers_
          BY DEF TimerInv, TypeOK, SetsAgree
      <4>2. Waiting(e[2])
          BY <4>1 DEF Waiting
      <4>3. QED
          BY <1>3, <4>1, <4>2
    <3>2. QED
        BY <3>1
  <2>2. \A i \in activeTimers_ : i[1] \in Addr \ {a}
      BY <1>3 DEF TimerInv, TypeOK, Id, Waiting
  <2>3. \A e \in timers_ : e[1] = expiration'[e[2]] /\ <<e[2], sequence'[e[2]]>> \in activeTimers_
      BY <1>3, <2>1 DEF TimerInv, SetsAgree
  <2>4. \A i \in activeTimers_ : i[2] = sequence'[i[1]] /\ <<expiration'[i[1]], i[1]>> \in timers_
      BY <1>3, <2>2 DEF TimerInv, SetsAgree
  <2>5. QED
      BY <1>2, <2>3, <2>4 DEF SetsAgree
<1>6. ASSUME NEW b \in Addr PROVE Queued(b)' <=> Queued(b) \/ b = a
  <2>1. (\E n \in 1 .. Len(queue) : queue'[n].op = "add" /\ queue'[n].id[1] = b) <=> Queued(b)
      BY <1>4 DEF Queued
  <2>2. queue'[Len(queue) + 1].op = "add" /\ queue'[Len(queue) + 1].id[1] = a
      BY <1>4
  <2>3. 1 .. Len(queue') = 1 .. Len(queue) \cup {Len(queue) + 1}
      BY <1>4
  <2>4. QED
      BY <2>1, <2>2, <2>3 DEF Queued
<1>7. OwnedOnce'
  <2>1. \A b \in Addr : Waiting(b)' <=> Waiting(b)
      BY <1>2 DEF Waiting
  <2>2. QED
      BY <1>2, <1>3, <1>6, <2>1 DEF TimerInv, OwnedOnce
<1>8. ASSUME NEW m \in 1 .. Len(queue'), queue'[m].op = "add"
      PROVE  /\ queue'[m].id[2] = sequence'[queue'[m].id[1]]
             /\ queue'[m].id[2] \notin cancelled
             /\ m \in 1 .. Len(queue) <=> queue'[m].id[1] # a
  <2>1. CASE m \in 1 .. Len(queue)
    <3>1. queue[m].op = "add" /\ queue'[m] = queue[m]
        BY <1>4, <1>8, <2>1
    <3>2. queue[m].id[1] \in Addr \ {a} /\ queue[m].id[2] = sequence[queue[m].id[1]]
        BY <1>3, <2>1, <3>1, QueuedTimer
    <3>3. QED
        BY <1>3, <2>1, <3>1, <3>2, QueuedTimer
  <2>2. CASE m = Len(queue) + 1
      BY <1>3, <1>4, <2>2
  <2>3. QED
      BY <1>4, <2>1, <2>2
<1>9. QueueInv'
  <2>1. ASSUME NEW m \in 1 .. Len(queue'), NEW n \in 1 .. Len(queue'),
               queue'[m].op = "add", queue'[n].op = "add", queue'[n].id[1] = queue'[m].id[1]
        PROVE  n = m
    <3>1. CASE m \in 1 .. Len(queue)
      <4>1. n \in 1 .. Len(queue)
          BY <1>8, <2>1, <3>1
      <4>2. QED
          BY <1>4, <2>1, <3>1, <4>1 DEF TimerInv, QueueInv
    <3>2. CASE m \notin 1 .. Len(queue)
      <4>1. n \notin 1 .. Len(queue)
          BY <1>8, <2>1, <3>2
      <4>2. QED
          BY <1>4, <3>2, <4>1
    <3>3. QED
        BY <3>1, <3>2
  <2>2. QED
      BY <1>8, <2>1 DEF QueueInv
<1>10. BatchInv' /\ ArmInv'
    BY <1>2 DEF TimerInv, BatchInv, ArmInv
<1>11. CancelInv'
  <2>1. \A b \in expired : sequence'[b] = sequence[b]
      BY <1>3 DEF TimerInv, TypeOK
  <2>2. QED
      BY <1>2, <1>3, <1>8, <2>1 DEF TimerInv, CancelInv
<1>12. QED
    BY <1>3, <1>5, <1>7, <1>9, <1>10, <1>11 DEF TimerInv

\* cancel() in another thread.
LEMMA InvQueueCancel ==
    ASSUME TimerInv, TypeOK', NEW th \in Caller, NEW id \in Id, QueueCancel(th, id)
    PROVE  TimerInv'
<1> DEFINE x == [op |-> "cancel", id |-> id]
<1>1. UNCHANGED <<clock, heap, created, timers_, activeTimers_, armed, cancelingTimers_,
                  callingExpiredTimers_, pc, expired, cancelled>>
    BY DEF QueueCancel, handler, timers
<1>2. /\ Len(queue') = Len(queue) + 1 /\ Len(queue) \in Nat
      /\ \A n \in 1 .. Len(queue) : queue'[n] = queue[n]
      /\ queue'[Len(queue) + 1] = x
  <2> DEFINE S == [op : {"add", "cancel"}, id : Id]
  <2>1. queue \in Seq(S) /\ queue' = Append(queue, x)
      BY DEF TimerInv, TypeOK, QueueCancel
  <2> HIDE DEF S, x
  <2>2. QED
      BY <2>1
<1>3. \A n \in 1 .. Len(queue') : queue'[n].op = "add" => n \in 1 .. Len(queue)
    BY <1>2
<1>4. \A b \in Addr : Queued(b)' <=> Queued(b)
    BY <1>2, <1>3 DEF Queued
<1>5. QueueInv'
    BY <1>1, <1>2, <1>3 DEF TimerInv, QueueInv, heap
<1>6. CancelInv'
    BY <1>1, <1>2, <1>3 DEF TimerInv, CancelInv, heap
<1>7. SetsAgree' /\ OwnedOnce' /\ BatchInv' /\ ArmInv' /\ SequenceInv'
    BY <1>1, <1>4 DEF TimerInv, SetsAgree, OwnedOnce, BatchInv, ArmInv, SequenceInv, Waiting,
                      heap
<1>8. QED
    BY <1>5, <1>6, <1>7 DEF TimerInv

\* handleRead() takes out the timers whose time has come: those and no others expire.
LEMMA InvHandleRead ==
    ASSUME TimerInv, TypeOK', HandleRead
    PROVE  TimerInv'
<1>1. /\ UNCHANGED <<clock, live, expiration, interval, sequence, created, queue, cancelled>>
      /\ expired' = {a \in Addr : \E t \in 0 .. clock : <<t, a>> \in timers_}
      /\ timers_' = {e \in timers_ : e[1] > clock}
      /\ activeTimers_' = {i \in activeTimers_ : i[1] \notin expired'}
      /\ callingExpiredTimers_' = TRUE /\ pc' = "expired" /\ pc = "idle"
    BY DEF HandleRead, StillActive, heap
<1>2. expired = {} /\ clock \in Nat /\ expiration \in [Addr -> Nat]
    BY <1>1 DEF TimerInv, BatchInv, TypeOK
<1>3. \A a \in expired' : a \in Addr /\ expiration[a] <= clock /\ <<a, sequence[a]>> \in activeTimers_
  <2>1. ASSUME NEW a \in expired'
        PROVE  a \in Addr /\ expiration[a] <= clock /\ <<a, sequence[a]>> \in activeTimers_
    <3>1. PICK t \in 0 .. clock : <<t, a>> \in timers_
        BY <1>1
    <3>2. t = expiration[a] /\ <<a, sequence[a]>> \in activeTimers_
        BY <3>1 DEF TimerInv, SetsAgree
    <3>3. QED
        BY <1>1, <1>2, <3>2
  <2>2. QED
      BY <2>1
<1>4. \A i \in activeTimers_ :
         i[1] \in Addr /\ (expiration[i[1]] <= clock => i[1] \in expired')
  <2>1. ASSUME NEW i \in activeTimers_
        PROVE  i[1] \in Addr /\ (expiration[i[1]] <= clock => i[1] \in expired')
    <3>1. i[1] \in Addr /\ <<expiration[i[1]], i[1]>> \in timers_
        BY DEF TimerInv, TypeOK, SetsAgree, Id
    <3>2. expiration[i[1]] <= clock => expiration[i[1]] \in 0 .. clock
        BY <1>2, <3>1
    <3>3. QED
        BY <1>1, <3>1, <3>2
  <2>2. QED
      BY <2>1
<1>5. SetsAgree'
  <2>1. ASSUME NEW e \in timers_'
        PROVE  e[1] = expiration[e[2]] /\ <<e[2], sequence[e[2]]>> \in activeTimers_'
    <3>1. e \in timers_ /\ e[1] > clock /\ e[1] \in Nat
        BY <1>1 DEF TimerInv, TypeOK
    <3>2. e[1] = expiration[e[2]] /\ <<e[2], sequence[e[2]]>> \in activeTimers_
        BY <3>1 DEF TimerInv, SetsAgree
    <3>3. e[2] \notin expired'
        BY <1>2, <1>3, <3>1, <3>2
    <3>4. <<e[2], sequence[e[2]]>>[1] = e[2]
        OBVIOUS
    <3>5. QED
        BY <1>1, <3>2, <3>3, <3>4
  <2>2. ASSUME NEW i \in activeTimers_'
        PROVE  i[2] = sequence[i[1]] /\ <<expiration[i[1]], i[1]>> \in timers_'
    <3>1. i \in activeTimers_ /\ i[1] \notin expired'
        BY <1>1
    <3>2. i[2] = sequence[i[1]] /\ <<expiration[i[1]], i[1]>> \in timers_
        BY <3>1 DEF TimerInv, SetsAgree
    <3>3. i[1] \in Addr /\ expiration[i[1]] \in Nat /\ ~(expiration[i[1]] <= clock)
        BY <1>2, <1>4, <3>1
    <3>4. expiration[i[1]] > clock /\ <<expiration[i[1]], i[1]>>[1] = expiration[i[1]]
        BY <1>2, <3>3
    <3>5. QED
        BY <1>1, <3>2, <3>4
  <2>3. QED
      BY <1>1, <2>1, <2>2 DEF SetsAgree
<1>6. ASSUME NEW b \in Addr
      PROVE  /\ Waiting(b) <=> Waiting(b)' \/ b \in expired'
             /\ ~(Waiting(b)' /\ b \in expired')
             /\ Queued(b)' <=> Queued(b)
  <2>1. b \in expired' => Waiting(b)
      BY <1>3 DEF Waiting
  <2>2. Waiting(b)' <=> Waiting(b) /\ b \notin expired'
      BY <1>1 DEF Waiting
  <2>3. Queued(b)' <=> Queued(b)
      BY <1>1 DEF Queued
  <2>4. QED
      BY <2>1, <2>2, <2>3
<1>7. OwnedOnce'
    BY <1>1, <1>2, <1>6 DEF TimerInv, OwnedOnce
<1>8. QueueInv' /\ BatchInv' /\ SequenceInv'
    BY <1>1 DEF TimerInv, QueueInv, BatchInv, SequenceInv
<1>9. ArmInv'
  <2>1. \A e \in timers_' : e[1] # 0
      BY <1>1, <1>2 DEF TimerInv, TypeOK
  <2>2. QED
      BY <1>1, <2>1 DEF ArmInv
<1>10. CancelInv'
  <2>1. \A a \in expired' : sequence[a] \notin cancelled
    <3>1. ASSUME NEW a \in expired' PROVE sequence[a] \notin cancelled
      <4>1. <<a, sequence[a]>> \in activeTimers_ /\ <<a, sequence[a]>>[2] = sequence[a]
          BY <1>3
      <4>2. QED
          BY <4>1 DEF TimerInv, CancelInv
    <3>2. QED
        BY <3>1
  <2>2. QED
      BY <1>1, <2>1 DEF TimerInv, CancelInv
<1>11. QED
    BY <1>5, <1>7, <1>8, <1>9, <1>10 DEF TimerInv

\* reset() starts again the repeating timers that no callback has cancelled.
LEMMA InvReset ==
    ASSUME TimerInv, TypeOK', Reset
    PROVE  TimerInv'
<1>1. /\ UNCHANGED <<clock, interval, sequence, created, queue, cancelled, cancelingTimers_>>
      /\ live' = live \ (expired \ Again)
      /\ expiration' = [a \in Addr |-> IF a \in Again THEN now + interval[a] ELSE expiration[a]]
      /\ timers_' = timers_ \cup {<<now + interval[a], a>> : a \in Again}
      /\ activeTimers_' = activeTimers_ \cup {<<a, sequence[a]>> : a \in Again}
      /\ Rearm /\ callingExpiredTimers_' = FALSE /\ pc' = "idle" /\ expired' = {}
    BY DEF Reset, Deletes
<1>2. /\ now \in Nat /\ clock \in Nat /\ armed \in Nat
      /\ \A a \in Again : /\ a \in Addr /\ a \in expired /\ interval[a] \in Nat /\ interval[a] > 0
                          /\ <<a, sequence[a]>> \notin cancelingTimers_
    BY DEF TimerInv, TypeOK, Again
<1>3. \A a \in Addr : expiration'[a] = IF a \in Again THEN now + interval[a] ELSE expiration[a]
    BY <1>1
<1>4. ASSUME NEW e \in timers_
      PROVE  /\ e[2] \in Addr \ Again /\ e[1] \in Nat
             /\ e[1] = expiration'[e[2]] /\ <<e[2], sequence[e[2]]>> \in activeTimers_'
  <2>1. e[2] \in Addr /\ e[1] \in Nat /\ <<e[2], sequence[e[2]]>> \in activeTimers_
      BY DEF TimerInv, TypeOK, SetsAgree
  <2>2. Waiting(e[2])
      BY <2>1 DEF Waiting
  <2>3. e[2] \notin Again
      BY <1>2, <2>1, <2>2 DEF TimerInv, OwnedOnce
  <2>4. e[1] = expiration[e[2]]
      BY DEF TimerInv, SetsAgree
  <2>5. QED
      BY <1>1, <1>3, <2>1, <2>3, <2>4
<1>5. ASSUME NEW i \in activeTimers_
      PROVE  /\ i[1] \in Addr \ Again /\ i[2] = sequence[i[1]]
             /\ <<expiration'[i[1]], i[1]>> \in timers_'
  <2>1. i[1] \in Addr /\ i[2] = sequence[i[1]] /\ <<expiration[i[1]], i[1]>> \in timers_
      BY DEF TimerInv, TypeOK, SetsAgree, Id
  <2>2. Waiting(i[1])
      BY DEF Waiting
  <2>3. i[1] \notin Again
      BY <1>2, <2>1, <2>2 DEF TimerInv, OwnedOnce
  <2>4. QED
      BY <1>1, <1>3, <2>1, <2>3
<1>6. ASSUME NEW a \in Again
      PROVE  /\ <<now + interval[a], a>> \in timers_' /\ expiration'[a] = now + interval[a]
             /\ <<a, sequence[a]>> \in activeTimers_'
    BY <1>1, <1>2, <1>3
<1>7. SetsAgree'
  <2>1. ASSUME NEW e \in timers_'
        PROVE  e[1] = expiration'[e[2]] /\ <<e[2], sequence[e[2]]>> \in activeTimers_'
    <3>1. CASE e \in timers_
        BY <1>4, <3>1
    <3>2. ASSUME NEW a \in Again, e = <<now + interval[a], a>>
          PROVE  e[1] = expiration'[e[2]] /\ <<e[2], sequence[e[2]]>> \in activeTimers_'
      <4>1. e[1] = now + interval[a] /\ e[2] = a
          BY <3>2
      <4>2. QED
          BY <1>6, <4>1
    <3>3. QED
        BY <1>1, <3>1, <3>2
  <2>2. ASSUME NEW i \in activeTimers_'
        PROVE  i[2] = sequence[i[1]] /\ <<expiration'[i[1]], i[1]>> \in timers_'
    <3>1. CASE i \in activeTimers_
        BY <1>5, <3>1
    <3>2. ASSUME NEW a \in Again, i = <<a, sequence[a]>>
          PROVE  i[2] = sequence[i[1]] /\ <<expiration'[i[1]], i[1]>> \in timers_'
      <4>1. i[1] = a /\ i[2] = sequence[a]
          BY <3>2
      <4>2. QED
          BY <1>6, <4>1
    <3>3. QED
        BY <1>1, <3>1, <3>2
  <2>3. QED
      BY <1>1, <2>1, <2>2 DEF SetsAgree
<1>8. ASSUME NEW b \in Addr
      PROVE  /\ Waiting(b)' <=> Waiting(b) \/ b \in Again
             /\ Queued(b)' <=> Queued(b)
  <2>1. ASSUME b \in Again PROVE Waiting(b)'
    <3>1. <<b, sequence[b]>> \in activeTimers_' /\ <<b, sequence[b]>>[1] = b
        BY <1>6, <2>1
    <3>2. QED
        BY <3>1 DEF Waiting
  <2>2. ASSUME Waiting(b)' PROVE Waiting(b) \/ b \in Again
    <3>1. PICK i \in activeTimers_' : i[1] = b
        BY <2>2 DEF Waiting
    <3>2. CASE i \in activeTimers_
        BY <3>1, <3>2 DEF Waiting
    <3>3. ASSUME NEW a \in Again, i = <<a, sequence[a]>> PROVE b \in Again
        BY <3>1, <3>3
    <3>4. QED
        BY <1>1, <3>2, <3>3
  <2>3. Waiting(b) => Waiting(b)'
      BY <1>1 DEF Waiting
  <2>4. Queued(b)' <=> Queued(b)
      BY <1>1 DEF Queued
  <2>5. QED
      BY <2>1, <2>2, <2>3, <2>4
<1>9. OwnedOnce'
    BY <1>1, <1>2, <1>8 DEF TimerInv, OwnedOnce
<1>10. QueueInv' /\ BatchInv'
    BY <1>1 DEF TimerInv, QueueInv, BatchInv
<1>11. SequenceInv'
    BY <1>1 DEF TimerInv, SequenceInv
<1>12. ArmInv'
  <2>1. \A e \in timers_' : e[1] \in Nat
      BY DEF TypeOK
  <2>2. CASE timers_' = {}
      BY <2>2 DEF ArmInv
  <2>3. ASSUME NEW e \in timers_', \A x \in timers_' : e[1] <= x[1],
               armed' = IF e[1] = 0 THEN armed ELSE ArmAt(e[1])
        PROVE  ArmInv'
    <3>1. CASE e[1] = 0
      <4>1. e \in timers_
        <5>1. ASSUME NEW a \in Again PROVE e # <<now + interval[a], a>>
          <6>1. interval[a] \in Nat /\ interval[a] > 0
              BY <1>2
          <6>2. now + interval[a] # 0
              BY <1>2, <6>1
          <6>3. QED
              BY <3>1, <6>2
        <5>2. QED
            BY <1>1, <5>1
      <4>2. armed # NotArmed /\ (armed <= 0 \/ armed <= clock + 1)
          BY <3>1, <4>1 DEF TimerInv, ArmInv
      <4>3. armed' = armed /\ armed # NotArmed /\ armed <= clock + 1
          BY <1>2, <2>3, <3>1, <4>2
      <4>4. QED
          BY <1>1, <4>3 DEF ArmInv
    <3>2. CASE e[1] # 0
      <4>1. e[1] \in Nat /\ armed' = IF e[1] > clock THEN e[1] ELSE clock + 1
          BY <2>1, <2>3, <3>2 DEF ArmAt
      <4>2. armed' # 0 /\ (armed' = e[1] \/ armed' = clock + 1)
          BY <1>2, <3>2, <4>1
      <4>3. QED
          BY <1>1, <1>2, <2>1, <2>3, <4>2 DEF ArmInv, NotArmed
    <3>3. QED
        BY <3>1, <3>2
  <2>4. QED
      BY <1>1, <2>2, <2>3 DEF Rearm
<1>13. CancelInv'
  <2>1. ASSUME NEW i \in activeTimers_' PROVE i[2] \notin cancelled
    <3>1. CASE i \in activeTimers_
        BY <3>1 DEF TimerInv, CancelInv
    <3>2. ASSUME NEW a \in Again, i = <<a, sequence[a]>> PROVE i[2] \notin cancelled
      <4>1. i[2] = sequence[a] /\ sequence[a] \notin cancelled
          BY <1>2, <3>2 DEF TimerInv, CancelInv
      <4>2. QED
          BY <4>1
    <3>3. QED
        BY <1>1, <3>1, <3>2
  <2>2. QED
      BY <1>1, <2>1 DEF TimerInv, CancelInv
<1>14. QED
    BY <1>7, <1>9, <1>10, <1>11, <1>12, <1>13 DEF TimerInv

-------------------------------------------------------------------------------
(* The theorems. *)

\* What the queue, the sets, the batch, the timerfd and the marks of TimerQueue.cpp
\* keep of each other in every reachable state.
THEOREM TimerInvariant == Safety => []TimerInv
<1>1. Init => TimerInv
  <2>1. <<>> \in Seq([op : {"add", "cancel"}, id : Id])
      OBVIOUS
  <2>2. ASSUME Init PROVE TypeOK
    <3>1. /\ expiration \in [Addr -> Nat] /\ interval \in [Addr -> Nat]
          /\ sequence \in [Addr -> Nat] /\ call \in [Caller -> Addr \cup {NoAddr}]
        BY <2>2 DEF Init
    <3>2. QED
        BY <2>1, <2>2, <3>1 DEF Init, TypeOK, NotArmed
  <2>3. ASSUME Init
        PROVE  SetsAgree /\ OwnedOnce /\ QueueInv /\ BatchInv /\ ArmInv /\ SequenceInv /\ CancelInv
    <3>1. /\ live = {} /\ timers_ = {} /\ activeTimers_ = {} /\ expired = {} /\ cancelled = {}
          /\ queue = <<>> /\ Len(queue) = 0 /\ pc = "idle" /\ callingExpiredTimers_ = FALSE
          /\ created = 0 /\ \A a \in Addr : sequence[a] = 0
        BY <2>3 DEF Init
    <3>2. QED
        BY <3>1 DEF SetsAgree, OwnedOnce, QueueInv, BatchInv, ArmInv, SequenceInv, CancelInv,
                    Queued, Waiting
  <2>4. QED
      BY <2>2, <2>3 DEF TimerInv
<1>2. ASSUME TimerInv, TypeOK', [Next]_vars PROVE TimerInv'
  <2> USE <1>2
  <2>1. CASE UNCHANGED vars
      BY <2>1, InvCalm DEF vars, timers, handler, TimerInv, ArmInv
  <2>2. CASE Tick
    <3>1. ArmInv'
        BY <2>2 DEF Tick, TimerInv, TypeOK, ArmInv, timers, handler
    <3>2. QED
        BY <2>2, <3>1, InvCalm DEF Tick, timers, handler
  <2>3. CASE RunFunctor
    <3>1. queue # <<>> /\ queue' = Tail(queue) /\ UNCHANGED <<clock, handler, call, ids>>
        BY <2>3 DEF RunFunctor
    <3>2. Head(queue) \in [op : {"add", "cancel"}, id : Id]
      <4> DEFINE S == [op : {"add", "cancel"}, id : Id]
      <4>1. queue \in Seq(S)
          BY DEF TimerInv, TypeOK
      <4> HIDE DEF S
      <4>2. Head(queue) \in S
          BY <3>1, <4>1
      <4>3. QED
          BY <4>2 DEF S
    <3>3. PICK id \in Id : id = Head(queue).id
        BY <3>2
    <3>4. CASE /\ Head(queue).op = "add"
               /\ AddTimerInLoop(id[1], expiration[id[1]], id[2])
               /\ UNCHANGED <<heap, created, cancelingTimers_, cancelled>>
        BY <3>1, <3>3, <3>4, InvRunAdd
    <3>5. CASE Head(queue).op = "cancel" /\ CancelInLoop(id)
        BY <3>1, <3>3, <3>5, InvCancel
    <3>6. QED
        BY <2>3, <3>3, <3>4, <3>5 DEF RunFunctor
  <2>4. CASE Poll
      BY <2>4, InvCalm DEF Poll, timers, TimerInv, ArmInv
  <2>5. CASE HandleRead
      BY <2>5, InvHandleRead
  <2>6. ASSUME NEW a \in Addr, RunTimer(a) PROVE TimerInv'
      BY <2>6, InvCalm DEF RunTimer, timers, TimerInv, ArmInv
  <2>7. CASE CallbackReturn
      BY <2>7, InvCalm DEF CallbackReturn, timers, TimerInv, ArmInv
  <2>8. CASE Reset
      BY <2>8, InvReset
  <2>9. ASSUME NEW a \in Addr, NEW when \in 0 .. MaxTime, NEW period \in Interval,
               \/ AddTimer(a, when, period)
               \/ \E th \in Caller : QueueTimer(th, a, when, period)
        PROVE  TimerInv'
    <3>1. when \in Nat
        BY TimerBoundAssumption
    <3>2. QED
        BY <2>9, <3>1, InvAddTimer, InvQueueTimer
  <2>10. ASSUME NEW th \in Caller, ReturnId(th) PROVE TimerInv'
      BY <2>10, InvCalm DEF ReturnId, timers, handler, TimerInv, ArmInv
  <2>11. ASSUME NEW id \in ids, Cancel(id) \/ \E th \in Caller : QueueCancel(th, id)
         PROVE  TimerInv'
    <3>1. id \in Id
        BY DEF TimerInv, TypeOK
    <3>2. CASE Cancel(id)
        BY <3>1, <3>2, InvCancel DEF Cancel
    <3>3. QED
        BY <2>11, <3>1, <3>2, InvQueueCancel
  <2>12. QED
      BY <2>1, <2>2, <2>3, <2>4, <2>5, <2>6, <2>7, <2>8, <2>9, <2>10, <2>11
         DEF Next, LoopStep, UserStep
<1>3. QED
    BY <1>1, <1>2, TimerTypeCorrect, PTL DEF Safety

\* The two sets of a timer queue always hold the same timers.
THEOREM SetsAgreeHolds == Safety => []SetsAgree
<1>1. TimerInv => SetsAgree
    BY DEF TimerInv
<1>2. QED
    BY <1>1, TimerInvariant, PTL

\* Every timer is owned exactly once: none is leaked, deleted twice or run after its
\* deletion.
THEOREM OwnedOnceHolds == Safety => []OwnedOnce
<1>1. TimerInv => OwnedOnce
    BY DEF TimerInv
<1>2. QED
    BY <1>1, TimerInvariant, PTL

\* Outside handleRead() the timerfd is armed early enough for every timer that waits.
THEOREM ArmedForEarliestHolds == Safety => []ArmedForEarliest
<1>1. TimerInv => ArmedForEarliest
    BY DEF TimerInv, ArmInv, ArmedForEarliest
<1>2. QED
    BY <1>1, TimerInvariant, PTL

\* A timer the loop knew when it was cancelled never waits again.
THEOREM CancelSticksHolds == Safety => []CancelSticks
<1>1. TimerInv => CancelSticks
    BY DEF TimerInv, CancelInv, CancelSticks
<1>2. QED
    BY <1>1, TimerInvariant, PTL
===============================================================================
