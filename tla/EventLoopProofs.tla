---------------------------- MODULE EventLoopProofs ----------------------------
(***************************************************************************)
(* Theorems about EventLoop, for any set of callers, functors and          *)
(* descriptors and any bounds: type correctness, the two "nobody sleeps on *)
(* work" invariants, that the loop implements SerialExecutor, and, for a   *)
(* loop in a thread of its own (EventLoopThread), that it still makes only *)
(* steps of EventLoop and who can have ended it.                           *)
(***************************************************************************)
EXTENDS EventLoopThread, SequenceLemmas, TLAPS

(* Type correctness. *)

LEMMA TypeInit == Init => TypeOK
<1>1. \A S : <<>> \in Seq(S)
    BY SeqTypes
<1>2. Init => call \in [Thread -> {"none", "queued", "quitting"}]
    BY DEF Init
<1>3. Init => /\ pendingFunctors_ \in Seq(Functor) /\ functors \in Seq(Functor)
              /\ stack \in Seq(Frame)
    BY <1>1 DEF Init
<1>4. Init => active \subseteq IoFd \cup {WakeupFd}
    BY DEF Init
<1>5. Init => early \in Nat
    BY DEF Init
<1>6. Init => looping_ \in BOOLEAN /\ quit_ \in BOOLEAN /\ functorPending_ \in BOOLEAN /\ eventfd \in BOOLEAN
    BY DEF Init
<1>7. Init => pc \in {"out", "while", "poll", "dispatch", "swap", "run"}
    BY DEF Init
<1>8. QED
    BY <1>2, <1>3, <1>4, <1>5, <1>6, <1>7, Zenon DEF TypeOK

LEMMA TypeLoopStep == TypeOK /\ LoopStep => TypeOK'
<1> SUFFICES ASSUME TypeOK, LoopStep PROVE TypeOK'
    OBVIOUS
<1> USE DEF TypeOK
<1>1. CASE LoopEnter
    BY <1>1 DEF LoopEnter
<1>2. CASE CheckQuit
    BY <1>2 DEF CheckQuit
<1>3. ASSUME NEW ready \in SUBSET (IoFd \cup {WakeupFd}), Poll(ready)
      PROVE  TypeOK'
    BY <1>3 DEF Poll
<1>4. CASE PollTimeout
    BY <1>4 DEF PollTimeout
<1>5. ASSUME NEW fd \in IoFd \cup {WakeupFd}, Dispatch(fd)
      PROVE  TypeOK'
  <2>1. CASE fd = WakeupFd
      BY <1>5, <2>1 DEF Dispatch
  <2>2. CASE fd # WakeupFd
    <3>1. <<fd>> \in Seq(Frame)
        BY <2>2, SeqTypes DEF Frame
    <3>2. QED
        BY <1>5, <2>2, <3>1 DEF Dispatch
  <2>3. QED
      BY <2>1, <2>2
<1>6. CASE DoPendingFunctors
    BY <1>6 DEF DoPendingFunctors
<1>7. CASE Swap
    BY <1>7 DEF Swap
<1>8. CASE RunFunctor
  <2>1. Head(functors) \in Functor /\ Tail(functors) \in Seq(Functor)
      BY <1>8, HeadTailTypes DEF RunFunctor
  <2>2. <<Head(functors)>> \in Seq(Frame)
      BY <2>1, SeqTypes DEF Frame
  <2>3. QED
      BY <1>8, <2>1, <2>2 DEF RunFunctor
<1>9. CASE DoPendingDone
    BY <1>9 DEF DoPendingDone
<1>10. CASE UserReturn
  <2>1. stack' \in Seq(Frame)
      BY <1>10, FrontType DEF UserReturn
  <2>2. QED
      BY <1>10, <2>1 DEF UserReturn
<1>11. QED
    BY <1>1, <1>2, <1>3, <1>4, <1>5, <1>6, <1>7, <1>8, <1>9, <1>10 DEF LoopStep

LEMMA TypeCallStep ==
    ASSUME TypeOK, NEW th \in Thread, CallStep(th) PROVE TypeOK'
<1> USE DEF TypeOK
<1>1. ASSUME NEW f \in Functor, QueueInLoop(th, f) PROVE TypeOK'
    BY <1>1 DEF QueueInLoop
<1>2. ASSUME NEW f \in Functor, RunInLoop(th, f) PROVE TypeOK'
  <2>1. CASE th # LoopThread
      BY <1>1, <1>2, <2>1 DEF RunInLoop
  <2>2. CASE th = LoopThread
    <3>1. Append(stack, f) \in Seq(Frame)
        BY SeqTypes DEF Frame
    <3>2. QED
        BY <1>2, <2>2, <3>1 DEF RunInLoop
  <2>3. QED
      BY <2>1, <2>2
<1>3. CASE QueueWake(th)
    BY <1>3 DEF QueueWake
<1>4. CASE Quit(th)
    BY <1>4 DEF Quit
<1>5. CASE QuitWake(th)
    BY <1>5 DEF QuitWake
<1>6. CASE Wakeup(th)
    BY <1>6 DEF Wakeup
<1>7. QED
    BY <1>1, <1>2, <1>3, <1>4, <1>5, <1>6 DEF CallStep

\* Every variable keeps its type, whatever the loop thread and the callers do.
THEOREM TypeCorrect == Safety => []TypeOK
<1>1. TypeOK /\ [Next]_vars => TypeOK'
  <2>1. TypeOK /\ UNCHANGED vars => TypeOK'
      BY DEF TypeOK, vars
  <2>2. QED
      BY <2>1, TypeLoopStep, TypeCallStep DEF Next
<1>2. QED
    BY <1>1, TypeInit, PTL DEF Safety

-------------------------------------------------------------------------------
(* Nobody sleeps on work. *)

\* Someone who will set the eventfd before the loop thread can block: another
\* thread between the push and the write, or the loop thread itself, inside a
\* functor that queues.
WillWake == \E th \in Thread : /\ call[th] = "queued"
                               /\ th # LoopThread \/ functorPending_

\* The loop thread is in library code at these points.
Quiet == pc \in {"while", "poll", "swap"} => InLibrary

PendingFlag == functorPending_ <=> pc \in {"swap", "run"}

\* Wherever the queue may be found nonempty on the way to epoll_wait.  Between
\* epoll_wait and the swap nothing is claimed: the swap is still to come.
Woken == pc \in {"out", "while", "poll", "run"} /\ Len(pendingFunctors_) > early
             => eventfd \/ WillWake

\* The invariant that NoLostWakeup and NoLostQuit follow from.
WakeInv == /\ TypeOK
           /\ Quiet
           /\ PendingFlag
           /\ Woken
           /\ NoLostQuit

LEMMA WakeInit == Init => WakeInv
<1>1. Init => Len(pendingFunctors_) = early
    BY DEF Init
<1>2. Init => ~(Len(pendingFunctors_) > early)
    BY <1>1 DEF Init
<1>3. QED
    BY <1>2, TypeInit DEF Init, WakeInv, Quiet, PendingFlag, Woken, NoLostQuit

LEMMA WakeLoopStep == WakeInv /\ LoopStep => WakeInv'
<1> SUFFICES ASSUME WakeInv, LoopStep PROVE WakeInv'
    OBVIOUS
<1>0. TypeOK'
    BY TypeLoopStep DEF WakeInv
<1> USE <1>0 DEF WakeInv, Quiet, PendingFlag, Woken, NoLostQuit, WillWake, InLibrary
<1>1. CASE LoopEnter
    BY <1>1 DEF LoopEnter
<1>2. CASE CheckQuit
    BY <1>2 DEF CheckQuit
<1>3. ASSUME NEW ready \in SUBSET (IoFd \cup {WakeupFd}), Poll(ready)
      PROVE  WakeInv'
    BY <1>3 DEF Poll
<1>4. CASE PollTimeout
    BY <1>4 DEF PollTimeout
<1>5. ASSUME NEW fd \in IoFd \cup {WakeupFd}, Dispatch(fd)
      PROVE  WakeInv'
    BY <1>5 DEF Dispatch
<1>6. CASE DoPendingFunctors
    BY <1>6 DEF DoPendingFunctors
<1>7. CASE Swap
  <2>1. ~(Len(pendingFunctors_') > early')
    <3>1. Len(<<>>) = 0
        OBVIOUS
    <3>2. QED
        BY <1>7, <3>1 DEF Swap
  <2>2. QED
      BY <1>7, <2>1 DEF Swap
<1>8. CASE RunFunctor
    BY <1>8 DEF RunFunctor
<1>9. CASE DoPendingDone
    BY <1>9 DEF DoPendingDone
<1>10. CASE UserReturn
    BY <1>10 DEF UserReturn
<1>11. QED
    BY <1>1, <1>2, <1>3, <1>4, <1>5, <1>6, <1>7, <1>8, <1>9, <1>10 DEF LoopStep

LEMMA WakeCallStep ==
    ASSUME WakeInv, NEW th \in Thread, CallStep(th) PROVE WakeInv'
<1>0. TypeOK'
    BY TypeCallStep DEF WakeInv
<1> USE <1>0 DEF WakeInv, Quiet, PendingFlag, Woken, NoLostQuit, WillWake, InLibrary,
                 MayCall, TypeOK
<1>1. ASSUME NEW f \in Functor, QueueInLoop(th, f) PROVE WakeInv'
    BY <1>1 DEF QueueInLoop
<1>2. ASSUME NEW f \in Functor, RunInLoop(th, f) PROVE WakeInv'
  <2>1. CASE th # LoopThread
      BY <1>1, <1>2, <2>1 DEF RunInLoop
  <2>2. CASE th = LoopThread
      BY <1>2, <2>2 DEF RunInLoop
  <2>3. QED
      BY <2>1, <2>2
<1>3. CASE QueueWake(th)
  <2>1. \A t \in Thread : t # th => call'[t] = call[t]
      BY <1>3 DEF QueueWake
  <2>2. ASSUME ~eventfd', WillWake PROVE WillWake'
    <3>1. PICK t \in Thread : call[t] = "queued" /\ (t # LoopThread \/ functorPending_)
        BY <2>2
    <3>2. t # th
        BY <1>3, <2>2, <3>1 DEF QueueWake
    <3>3. QED
        BY <1>3, <2>1, <3>1, <3>2 DEF QueueWake
  <2>3. Woken'
      BY <1>3, <2>2 DEF QueueWake
  <2>4. NoLostQuit'
      BY <1>3, <2>1 DEF QueueWake, Thread
  <2>5. QED
      BY <1>3, <2>3, <2>4 DEF QueueWake
<1>4. CASE Quit(th)
  <2>1. Woken'
    <3>1. \A t \in Thread : call[t] = "queued" => call'[t] = "queued"
        BY <1>4 DEF Quit
    <3>2. QED
        BY <1>4, <3>1 DEF Quit
  <2>2. NoLostQuit'
    <3>1. th # LoopThread => th \in Caller /\ call'[th] = "quitting"
        BY <1>4 DEF Quit, Thread
    <3>2. th = LoopThread => pc' # "poll"
        BY <1>4 DEF Quit
    <3>3. QED
        BY <3>1, <3>2
  <2>3. QED
      BY <1>4, <2>1, <2>2 DEF Quit
<1>5. CASE QuitWake(th)
    BY <1>5 DEF QuitWake
<1>6. CASE Wakeup(th)
    BY <1>6 DEF Wakeup
<1>7. QED
    BY <1>1, <1>2, <1>3, <1>4, <1>5, <1>6 DEF CallStep

THEOREM WakeInvariant == Safety => []WakeInv
<1>1. WakeInv /\ [Next]_vars => WakeInv'
  <2>1. WakeInv /\ UNCHANGED vars => WakeInv'
      BY DEF vars, WakeInv, TypeOK, Quiet, PendingFlag, Woken, NoLostQuit, WillWake,
             InLibrary
  <2>2. QED
      BY <2>1, WakeLoopStep, WakeCallStep DEF Next
<1>2. QED
    BY <1>1, WakeInit, PTL DEF Safety

\* The loop thread never blocks in epoll_wait over a functor that someone else
\* queued without the eventfd being set, or about to be.
THEOREM NoLostWakeupHolds == Safety => []NoLostWakeup
<1>1. WakeInv => NoLostWakeup
    BY DEF WakeInv, Woken, WillWake, NoLostWakeup
<1>2. QED
    BY <1>1, WakeInvariant, PTL

\* Nor over a quit().
THEOREM NoLostQuitHolds == Safety => []NoLostQuit
<1>1. WakeInv => NoLostQuit
    BY DEF WakeInv
<1>2. QED
    BY <1>1, WakeInvariant, PTL

-------------------------------------------------------------------------------
(* The loop implements the serial executor. *)

\* Outside its loop the batch of doPendingFunctors() is empty; the bottom frame
\* inside it is a functor; looping_ says whether the loop thread is in loop().
BatchInv == /\ WakeInv
            /\ pc # "run" => functors = <<>>
            /\ pc = "run" /\ stack # <<>> => stack[1] \in Functor
            /\ looping_ <=> pc # "out"

LEMMA BatchStep == BatchInv /\ [Next]_vars => BatchInv'
<1> SUFFICES ASSUME BatchInv, [Next]_vars PROVE BatchInv'
    OBVIOUS
<1> USE DEF BatchInv
<1>0. WakeInv' /\ TypeOK
  <2>1. WakeInv /\ UNCHANGED vars => WakeInv'
      BY DEF vars, WakeInv, TypeOK, Quiet, PendingFlag, Woken, NoLostQuit, WillWake,
             InLibrary
  <2>2. QED
      BY <2>1, WakeLoopStep, WakeCallStep DEF Next, WakeInv
<1> USE <1>0
<1>1. CASE UNCHANGED vars
    BY <1>1 DEF vars
<1>2. CASE LoopEnter
    BY <1>2 DEF LoopEnter
<1>3. CASE CheckQuit
    BY <1>3 DEF CheckQuit
<1>4. ASSUME NEW ready \in SUBSET (IoFd \cup {WakeupFd}), Poll(ready)
      PROVE  BatchInv'
    BY <1>4 DEF Poll
<1>5. CASE PollTimeout
    BY <1>5 DEF PollTimeout
<1>6. ASSUME NEW fd \in IoFd \cup {WakeupFd}, Dispatch(fd)
      PROVE  BatchInv'
    BY <1>6 DEF Dispatch
<1>7. CASE DoPendingFunctors
    BY <1>7 DEF DoPendingFunctors
<1>8. CASE Swap
    BY <1>8 DEF Swap, WakeInv, Quiet, InLibrary
<1>9. CASE RunFunctor
  <2>1. Head(functors) \in Functor
      BY <1>9, HeadTailTypes DEF RunFunctor, TypeOK
  <2>2. <<Head(functors)>>[1] = Head(functors)
      OBVIOUS
  <2>3. QED
      BY <1>9, <2>1, <2>2 DEF RunFunctor
<1>10. CASE DoPendingDone
    BY <1>10 DEF DoPendingDone
<1>11. CASE UserReturn
  <2>1. CASE Len(stack) = 1
      BY <1>11, <2>1, FrontOfOne DEF UserReturn, TypeOK
  <2>2. CASE Len(stack) # 1
      BY <1>11, <2>2, FrontOfMore DEF UserReturn, TypeOK
  <2>3. QED
      BY <2>1, <2>2
<1>12. ASSUME NEW th \in Thread, CallStep(th)
       PROVE  BatchInv'
  <2>1. ASSUME NEW f \in Functor, QueueInLoop(th, f) PROVE BatchInv'
      BY <2>1 DEF QueueInLoop
  <2>2. ASSUME NEW f \in Functor, RunInLoop(th, f) PROVE BatchInv'
    <3>1. CASE th # LoopThread
        BY <2>1, <2>2, <3>1 DEF RunInLoop
    <3>2. CASE th = LoopThread
      <4>1. f \in Frame
          BY DEF Frame
      <4>2. ASSUME stack # <<>> PROVE stack'[1] = stack[1]
        <5>1. stack \in Seq(Frame) /\ stack' = Append(stack, f)
            BY <2>2, <3>2 DEF RunInLoop, TypeOK
        <5>2. QED
            BY <4>1, <4>2, <5>1, PushBottom
      <4>3. pc = "run" => stack # <<>>
          BY <2>2, <3>2 DEF RunInLoop, MayCall
      <4>4. QED
          BY <2>2, <3>2, <4>2, <4>3 DEF RunInLoop
    <3>3. QED
        BY <3>1, <3>2
  <2>3. CASE QueueWake(th)
      BY <2>3 DEF QueueWake
  <2>4. CASE Quit(th)
      BY <2>4 DEF Quit
  <2>5. CASE QuitWake(th)
      BY <2>5 DEF QuitWake
  <2>6. CASE Wakeup(th)
      BY <2>6 DEF Wakeup
  <2>7. QED
      BY <1>12, <2>1, <2>2, <2>3, <2>4, <2>5, <2>6 DEF CallStep
<1>13. QED
    BY <1>1, <1>2, <1>3, <1>4, <1>5, <1>6, <1>7, <1>8, <1>9, <1>10, <1>11, <1>12
    DEF Next, LoopStep

LEMMA ExecutorInit == Init => Executor!Init
<1>1. Init => Queue = <<>>
    BY TwoPartQueue, SeqTypes DEF Init, Queue
<1>2. QED
    BY <1>1 DEF Init, Executor!Init, Running

LEMMA ExecutorStep ==
    BatchInv /\ BatchInv' /\ [Next]_vars => [Executor!Next]_(Executor!vars)
<1> SUFFICES ASSUME BatchInv, BatchInv', [Next]_vars
             PROVE  [Executor!Next]_(Executor!vars)
    OBVIOUS
<1>0. /\ TypeOK
      /\ functors \in Seq(Functor) /\ pendingFunctors_ \in Seq(Functor)
      /\ stack \in Seq(Frame)
    BY DEF BatchInv, WakeInv, TypeOK
<1> USE <1>0
<1>a. ASSUME UNCHANGED <<looping_, functors, pendingFunctors_, pc, stack>>
      PROVE  [Executor!Next]_(Executor!vars)
    BY <1>a DEF Executor!vars, Queue, Running
<1>b. ASSUME UNCHANGED <<looping_, Queue, Running>>
      PROVE  [Executor!Next]_(Executor!vars)
    BY <1>b DEF Executor!vars
<1>1. CASE UNCHANGED vars
    BY <1>1, <1>a DEF vars
<1>2. CASE LoopEnter
  <2>1. Executor!Open
      BY <1>2 DEF LoopEnter, Executor!Open, Queue, Running
  <2>2. QED
      BY <2>1 DEF Executor!Next
<1>3. CASE CheckQuit
  <2>1. CASE quit_
    <3>1. Executor!Close
        BY <1>3, <2>1 DEF CheckQuit, Executor!Close, Queue, Running, BatchInv
    <3>2. QED
        BY <3>1 DEF Executor!Next
  <2>2. CASE ~quit_
      BY <1>3, <2>2, <1>b DEF CheckQuit, Queue, Running
  <2>3. QED
      BY <2>1, <2>2
<1>4. ASSUME NEW ready \in SUBSET (IoFd \cup {WakeupFd}), Poll(ready)
      PROVE  [Executor!Next]_(Executor!vars)
    BY <1>4, <1>b DEF Poll, Queue, Running
<1>5. CASE PollTimeout
    BY <1>5, <1>b DEF PollTimeout, Queue, Running
<1>6. ASSUME NEW fd \in IoFd \cup {WakeupFd}, Dispatch(fd)
      PROVE  [Executor!Next]_(Executor!vars)
    BY <1>6, <1>b DEF Dispatch, Queue, Running
<1>7. CASE DoPendingFunctors
    BY <1>7, <1>b DEF DoPendingFunctors, Queue, Running
<1>8. CASE Swap
  <2>1. functors = <<>> /\ stack = <<>> /\ stack' = <<>>
      BY <1>8 DEF Swap, BatchInv, WakeInv, Quiet, InLibrary
  <2>2. <<>> \o pendingFunctors_ = pendingFunctors_ \o <<>>
      BY TwoPartQueue, SeqTypes
  <2>3. UNCHANGED Queue
      BY <1>8, <2>1, <2>2 DEF Swap, Queue
  <2>4. UNCHANGED Running
      BY <2>1 DEF Running
  <2>5. QED
      BY <1>8, <1>b, <2>3, <2>4 DEF Swap
<1>9. CASE RunFunctor
  <2>1. /\ Queue # <<>>
        /\ Head(Queue) = Head(functors)
        /\ Tail(Queue) = Tail(functors) \o pendingFunctors_
      BY <1>9, TwoPartQueue DEF RunFunctor, Queue
  <2>2. Queue' = Tail(Queue)
      BY <1>9, <2>1 DEF RunFunctor, Queue
  <2>3. Running = NoFunctor
      BY <1>9 DEF RunFunctor, InLibrary, Running
  <2>4. Running' = Head(Queue)
    <3>1. <<Head(functors)>> # <<>> /\ <<Head(functors)>>[1] = Head(functors)
        OBVIOUS
    <3>2. QED
        BY <1>9, <2>1, <3>1 DEF RunFunctor, Running
  <2>5. looping_ /\ UNCHANGED looping_
      BY <1>9 DEF RunFunctor, BatchInv
  <2>6. Executor!Start
      BY <2>1, <2>2, <2>3, <2>4, <2>5 DEF Executor!Start
  <2>7. QED
      BY <2>6 DEF Executor!Next
<1>10. CASE DoPendingDone
    BY <1>10, <1>b DEF DoPendingDone, InLibrary, Queue, Running
<1>11. CASE UserReturn
  <2>1. UNCHANGED <<looping_, Queue, pc>> /\ stack # <<>>
      BY <1>11 DEF UserReturn, Queue
  <2>2. CASE pc = "run" /\ Len(stack) = 1
    <3>1. Running = stack[1] /\ stack[1] \in Functor
        BY <2>1, <2>2 DEF Running, BatchInv
    <3>2. stack' = <<>>
        BY <1>11, <2>2, FrontOfOne DEF UserReturn
    <3>3. Running # NoFunctor
        BY <3>1, FrameAssumption
    <3>4. Executor!Finish
        BY <2>1, <3>2, <3>3 DEF Executor!Finish, Running
    <3>5. QED
        BY <3>4 DEF Executor!Next
  <2>3. CASE pc = "run" /\ Len(stack) # 1
    <3>1. stack' # <<>> /\ stack'[1] = stack[1]
        BY <1>11, <2>1, <2>3, FrontOfMore DEF UserReturn
    <3>2. QED
        BY <1>b, <2>1, <3>1 DEF Running
  <2>4. CASE pc # "run"
      BY <1>b, <2>1, <2>4 DEF Running
  <2>5. QED
      BY <2>2, <2>3, <2>4
<1>12. ASSUME NEW th \in Thread, CallStep(th)
       PROVE  [Executor!Next]_(Executor!vars)
  <2>1. ASSUME NEW f \in Functor, QueueInLoop(th, f)
        PROVE  [Executor!Next]_(Executor!vars)
    <3>1. Queue' = Append(Queue, f)
      <4>1. functors \o Append(pendingFunctors_, f) = Append(functors \o pendingFunctors_, f)
          BY TwoPartQueue
      <4>2. QED
          BY <2>1, <4>1 DEF QueueInLoop, Queue
    <3>2. UNCHANGED <<looping_, Running>>
        BY <2>1 DEF QueueInLoop, Running
    <3>3. Executor!Submit(f)
        BY <3>1, <3>2 DEF Executor!Submit
    <3>4. QED
        BY <3>3 DEF Executor!Next
  <2>2. ASSUME NEW f \in Functor, RunInLoop(th, f)
        PROVE  [Executor!Next]_(Executor!vars)
    <3>1. CASE th # LoopThread
        BY <2>1, <2>2, <3>1 DEF RunInLoop
    <3>2. CASE th = LoopThread
      <4>1. UNCHANGED <<looping_, Queue, pc>> /\ stack' = Append(stack, f)
          BY <2>2, <3>2 DEF RunInLoop, Queue
      <4>2. CASE pc = "run"
        <5>1. stack # <<>> /\ f \in Frame
            BY <2>2, <3>2, <4>2 DEF RunInLoop, MayCall, Frame
        <5>2. stack' # <<>> /\ stack'[1] = stack[1]
            BY <4>1, <5>1, PushBottom
        <5>3. QED
            BY <1>b, <4>1, <5>1, <5>2 DEF Running
      <4>3. CASE pc # "run"
          BY <1>b, <4>1, <4>3 DEF Running
      <4>4. QED
          BY <4>2, <4>3
    <3>3. QED
        BY <3>1, <3>2
  <2>3. CASE QueueWake(th)
      BY <2>3, <1>a DEF QueueWake
  <2>4. CASE Quit(th)
      BY <2>4, <1>a DEF Quit
  <2>5. CASE QuitWake(th)
      BY <2>5, <1>a DEF QuitWake
  <2>6. CASE Wakeup(th)
      BY <2>6, <1>a DEF Wakeup
  <2>7. QED
      BY <1>12, <2>1, <2>2, <2>3, <2>4, <2>5, <2>6 DEF CallStep
<1>13. QED
    BY <1>1, <1>2, <1>3, <1>4, <1>5, <1>6, <1>7, <1>8, <1>9, <1>10, <1>11, <1>12
    DEF Next, LoopStep

\* Every behaviour of the loop is one of the serial executor: functors are taken
\* in the order they were queued, each once, one at a time, only inside loop().
THEOREM LoopIsSerialExecutor == Safety => ExecutorSafety
<1>1. Init => BatchInv
    BY WakeInit DEF Init, BatchInv
<1>2. Safety => []BatchInv
    BY <1>1, BatchStep, PTL DEF Safety
<1>3. QED
    BY <1>2, ExecutorInit, ExecutorStep, PTL DEF Safety, ExecutorSafety, Executor!Safety

-------------------------------------------------------------------------------
(* A loop in a thread of its own is used as EventLoop says it is, so that    *)
(* what is proved above holds there; and which accesses to a destroyed       *)
(* object there can be.                                                      *)

\* Every step is one of the loop, or leaves it alone.
LEMMA OwnerStepIsLoopStep == OwnerStep => [Next]_vars
<1> SUFFICES ASSUME OwnerStep PROVE [Next]_vars
    OBVIOUS
<1>1. CASE DestroyQuit
  <2>1. CASE Quit(Owner)
      BY <2>1, OwnerAssumption DEF Next, CallStep, Thread
  <2>2. CASE UNCHANGED vars
      BY <2>2
  <2>3. QED
      BY <1>1, <2>1, <2>2 DEF DestroyQuit
<1>2. CASE ThreadStart \/ LatchWait \/ StartLoopCheck \/ SpuriousWakeup \/ Destroy \/ Join
    BY <1>2 DEF ThreadStart, LatchWait, StartLoopCheck, SpuriousWakeup, Destroy, Join
<1>3. QED
    BY <1>1, <1>2 DEF OwnerStep

LEMMA ChildStepIsLoopStep == ChildStep => [Next]_vars
<1> SUFFICES ASSUME ChildStep PROVE [Next]_vars
    OBVIOUS
<1>1. CASE CallbackReturn
    BY <1>1 DEF CallbackReturn, Next, LoopStep
<1>2. CASE EnterLoop
    BY <1>2 DEF EnterLoop, Next, LoopStep
<1>3. CASE InsideLoop
    BY <1>3 DEF InsideLoop, Next
<1>4. CASE LatchCountDown \/ ConstructLoop \/ Publish \/ ClearLoop \/ Unlock \/ DestroyLoop
    BY <1>4 DEF LatchCountDown, ConstructLoop, Publish, ClearLoop, Unlock, DestroyLoop
<1>5. QED
    BY <1>1, <1>2, <1>3, <1>4 DEF ChildStep

LEMMA CallIsLoopStep ==
    ASSUME NEW th \in Thread, NewCall(th) \/ FinishCall(th) \/ FinishCallTooLate(th)
    PROVE  [Next]_vars
<1>1. CASE NewCall(th)
  <2>1. CallStep(th)
      BY <1>1 DEF NewCall, CallStep
  <2>2. QED
      BY <2>1 DEF Next
<1>2. CASE FinishCall(th)
  <2>1. CallStep(th)
      BY <1>2 DEF FinishCall, CallStep
  <2>2. QED
      BY <2>1 DEF Next
<1>3. CASE FinishCallTooLate(th)
    BY <1>3 DEF FinishCallTooLate
<1>4. QED
    BY <1>1, <1>2, <1>3

\* A loop in a thread of its own is used as EventLoop allows, so that no wakeup and no quit
\* is lost there either, and its functors run as those of a serial executor
\* (threadFunc(), startLoop() and the destructor).
THEOREM ThreadUsesLoop == ThreadSafety => Safety
<1>1. ThreadInit => Init
    BY DEF ThreadInit
<1>2. [ThreadNext]_allVars => [Next]_vars
  <2>1. UNCHANGED allVars => UNCHANGED vars
      BY DEF allVars
  <2>2. ThreadNext => [Next]_vars
      BY OwnerStepIsLoopStep, ChildStepIsLoopStep, CallIsLoopStep DEF ThreadNext
  <2>3. QED
      BY <2>1, <2>2
<1>3. QED
    BY <1>1, <1>2, PTL DEF ThreadSafety, Safety

-------------------------------------------------------------------------------
(* The life of the loop. *)

\* The fields of EventLoopThread and where its two threads can be.
OwnTypeOK ==
    /\ loop_ \in BOOLEAN
    /\ child \in {"none", "latch", "ctor", "callback", "enter", "loop", "clear",
                  "unlock", "destroy", "end"}
    /\ owner \in {"new", "latch", "check", "wait", "using", "quit", "join", "gone"}
    /\ fate \in {"ok", "abort", "undefined"}
    /\ userQuit \in BOOLEAN

\* loop_ points to the loop exactly between its publication and its withdrawal.
Published == loop_ <=> child \in {"enter", "loop", "clear"}

\* The child is in loop() exactly while the loop says so, and it calls the loop only
\* where user code runs.
ChildPlace ==
    /\ looping_ <=> child = "loop"
    /\ pc = "out" <=> ~looping_
    /\ child \notin {"callback", "loop"} => InLibrary

\* How far the child is when the owner is where it is.
OwnerPlace ==
    /\ owner = "new" => child = "none"
    /\ owner \in {"using", "quit", "join"} =>
          child \in {"enter", "loop", "clear", "unlock", "destroy", "end"}
    /\ owner = "gone" => child \in {"none", "unlock", "destroy", "end"}
    /\ owner \notin {"new", "gone"} => child # "none"

\* Before the destructor has called quit(), the loop ends only because of the user.
EndsByUser ==
    /\ child = "loop" /\ quit_ /\ owner # "join" => userQuit
    /\ child \in {"clear", "unlock", "destroy"} /\ owner # "join" => userQuit
    /\ child = "end" /\ owner \notin {"join", "gone"} => userQuit

\* What can have become undefined.
LateOnly == fate = "undefined" /\ ~userQuit => \E th \in Caller : call[th] # "none"

LifeInv == OwnTypeOK /\ Published /\ ChildPlace /\ OwnerPlace /\ EndsByUser /\ LateOnly

LEMMA LifeInit == ThreadInit => LifeInv
  BY DEF ThreadInit, Init, LifeInv, OwnTypeOK, Published, ChildPlace, OwnerPlace, EndsByUser,
         LateOnly, InLibrary, Thread

LEMMA OwnerKeepsLife ==
    ASSUME TypeOK, LifeInv, fate = "ok", OwnerStep PROVE LifeInv'
<1> USE DEF LifeInv, OwnTypeOK, Published, ChildPlace, OwnerPlace, EndsByUser, LateOnly, InLibrary
<1>1. CASE ThreadStart
    BY <1>1 DEF ThreadStart, vars
<1>2. CASE LatchWait
    BY <1>2 DEF LatchWait, vars
<1>3. CASE StartLoopCheck
    BY <1>3 DEF StartLoopCheck, vars
<1>4. CASE SpuriousWakeup
    BY <1>4 DEF SpuriousWakeup, vars
<1>5. CASE Destroy
    BY <1>5 DEF Destroy, vars
<1>6. CASE DestroyQuit
  <2>1. CASE Quit(Owner) /\ owner' = "join" /\ UNCHANGED fate
    <3>1. Owner # LoopThread
        BY OwnerAssumption, ThreadAssumption
    <3>2. call'[LoopThread] = call[LoopThread]
        BY <2>1, <3>1 DEF Quit, TypeOK, Thread
    <3>3. QED
        BY <1>6, <2>1, <3>2 DEF DestroyQuit, Quit
  <2>2. CASE ~(Alive /\ loop_) /\ fate' = "undefined" /\ UNCHANGED <<vars, owner>>
      BY <1>6, <2>2 DEF DestroyQuit, Alive, vars
  <2>3. QED
      BY <1>6, <2>1, <2>2 DEF DestroyQuit
<1>7. CASE Join
    BY <1>7 DEF Join, vars
<1>8. QED
    BY <1>1, <1>2, <1>3, <1>4, <1>5, <1>6, <1>7 DEF OwnerStep

\* The steps of the loop that can change what LifeInv speaks of.
LEMMA LoopStepEffect ==
    ASSUME WakeInv, LoopStep, ~(pc = "out")
    PROVE  /\ call' = call /\ quit_' = quit_
           /\ \/ UNCHANGED looping_ /\ pc' # "out"
              \/ pc = "while" /\ quit_ /\ ~looping_' /\ pc' = "out" /\ UNCHANGED stack
<1>1. CASE LoopEnter
    BY <1>1 DEF LoopEnter
<1>2. CASE CheckQuit
    BY <1>2 DEF CheckQuit
<1>3. ASSUME NEW ready, Poll(ready) PROVE call' = call /\ quit_' = quit_ /\ UNCHANGED looping_ /\ pc' # "out"
    BY <1>3 DEF Poll
<1>4. ASSUME NEW fd, Dispatch(fd) PROVE call' = call /\ quit_' = quit_ /\ UNCHANGED looping_ /\ pc' # "out"
    BY <1>4 DEF Dispatch
<1>5. CASE PollTimeout \/ DoPendingFunctors \/ Swap \/ RunFunctor \/ DoPendingDone \/ UserReturn
    BY <1>5 DEF PollTimeout, DoPendingFunctors, Swap, RunFunctor, DoPendingDone, UserReturn
<1>6. QED
    BY <1>1, <1>2, <1>3, <1>4, <1>5 DEF LoopStep

LEMMA ChildKeepsLife ==
    ASSUME WakeInv, LifeInv, fate = "ok", ChildStep PROVE LifeInv'
<1> USE DEF LifeInv, OwnTypeOK, Published, ChildPlace, OwnerPlace, EndsByUser, LateOnly, InLibrary
<1>1. CASE LatchCountDown
    BY <1>1 DEF LatchCountDown, vars
<1>2. CASE ConstructLoop
    BY <1>2 DEF ConstructLoop, vars
<1>3. CASE CallbackReturn
    BY <1>3 DEF CallbackReturn, UserReturn, ownVars
<1>4. CASE Publish
    BY <1>4 DEF Publish, vars
<1>5. CASE EnterLoop
    BY <1>5 DEF EnterLoop, LoopEnter
<1>6. CASE InsideLoop
  <2>1. child = "loop" /\ looping_ /\ LoopStep /\ pc # "out" /\ UNCHANGED <<loop_, owner, fate, userQuit>>
      BY <1>6 DEF InsideLoop
  <2>2. child' = IF looping_' THEN "loop" ELSE "clear"
      BY <1>6 DEF InsideLoop
  <2>3. CASE UNCHANGED looping_ /\ pc' # "out"
      BY <2>1, <2>2, <2>3, LoopStepEffect
  <2>4. CASE pc = "while" /\ quit_ /\ ~looping_' /\ pc' = "out" /\ UNCHANGED stack
    <3>1. InLibrary
        BY <2>4 DEF WakeInv, Quiet
    <3>2. QED
        BY <2>1, <2>2, <2>4, <3>1, LoopStepEffect
  <2>5. QED
      BY <2>1, <2>3, <2>4, LoopStepEffect
<1>7. CASE ClearLoop
    BY <1>7 DEF ClearLoop, vars
<1>8. CASE Unlock
    BY <1>8 DEF Unlock, vars
<1>9. CASE DestroyLoop
    BY <1>9 DEF DestroyLoop, vars
<1>10. QED
    BY <1>1, <1>2, <1>3, <1>4, <1>5, <1>6, <1>7, <1>8, <1>9 DEF ChildStep

\* A call on the loop concerns its caller, the queue, the eventfd and quit_ only.
LEMMA CallsKeepLife ==
    ASSUME TypeOK, LifeInv, fate = "ok", NEW th \in Thread,
           NewCall(th) \/ FinishCall(th) \/ FinishCallTooLate(th)
    PROVE  LifeInv'
<1> USE DEF LifeInv, OwnTypeOK, Published, ChildPlace, OwnerPlace, EndsByUser, LateOnly, InLibrary
<1>1. CASE NewCall(th)
  <2>1. /\ UNCHANGED <<loop_, child, owner, fate, looping_, pc>>
        /\ userQuit' \in BOOLEAN /\ (userQuit => userQuit')
        /\ (UNCHANGED quit_ \/ userQuit')
    <3> DEFINE Done == /\ UNCHANGED <<looping_, pc>> /\ userQuit' \in BOOLEAN
                       /\ (userQuit => userQuit') /\ (UNCHANGED quit_ \/ userQuit')
    <3>1. UNCHANGED <<loop_, child, owner, fate>>
        BY <1>1 DEF NewCall
    <3>2. Quit(th) /\ userQuit' = TRUE => Done
        BY DEF Quit
    <3>3. ASSUME NEW f \in Functor, QueueInLoop(th, f) \/ RunInLoop(th, f), UNCHANGED userQuit
          PROVE  Done
        BY <3>3 DEF QueueInLoop, RunInLoop
    <3>4. Wakeup(th) /\ UNCHANGED userQuit => Done
        BY DEF Wakeup
    <3>5. Done
      <4> HIDE DEF Done
      <4>1. QED
          BY <1>1, <3>2, <3>3, <3>4, Zenon DEF NewCall
    <3>6. QED
        BY <3>1, <3>5
  <2>2. child \notin {"callback", "loop"} => InLibrary'
    <3>1. CASE th = LoopThread
        BY <1>1, <3>1 DEF NewCall, HasPointer
    <3>2. CASE th # LoopThread
      <4>1. UNCHANGED stack /\ call'[LoopThread] = call[LoopThread]
          BY <1>1, <3>2 DEF NewCall, QueueInLoop, RunInLoop, Wakeup, Quit, TypeOK, Thread
      <4>2. QED
          BY <4>1
    <3>3. QED
        BY <3>1, <3>2
  <2>3. OwnTypeOK' /\ Published' /\ OwnerPlace' /\ LateOnly'
      BY <2>1
  <2>4. ChildPlace'
      BY <2>1, <2>2
  <2>5. EndsByUser'
      BY <2>1
  <2>6. QED
      BY <2>3, <2>4, <2>5
<1>2. CASE FinishCall(th)
  <2>1. UNCHANGED <<ownVars, looping_, quit_, pc, stack>>
      BY <1>2 DEF FinishCall, QueueWake, QuitWake
  <2>2. call[LoopThread] = "none" => call'[LoopThread] = "none"
      BY <1>2 DEF FinishCall, QueueWake, QuitWake, TypeOK, Thread
  <2>3. QED
      BY <2>1, <2>2 DEF ownVars
<1>3. CASE FinishCallTooLate(th)
  <2>1. th \in Caller
    <3>1. child \notin {"callback", "loop"}
        BY <1>3 DEF FinishCallTooLate, Alive
    <3>2. QED
        BY <1>3, <3>1 DEF FinishCallTooLate, Thread
  <2>2. QED
      BY <1>3, <2>1 DEF FinishCallTooLate, vars
<1>4. QED
    BY <1>1, <1>2, <1>3

\* Where the owner, its child and loop_ are when, and who can have quit the loop.
THEOREM LifeInvariant == ThreadSafety => []LifeInv
<1>1. WakeInv /\ LifeInv /\ [ThreadNext]_allVars => LifeInv'
  <2>1. LifeInv /\ UNCHANGED allVars => LifeInv'
      BY DEF allVars, vars, ownVars, LifeInv, OwnTypeOK, Published, ChildPlace, OwnerPlace,
             EndsByUser, LateOnly, InLibrary
  <2>2. WakeInv /\ LifeInv /\ ThreadNext => LifeInv'
      BY OwnerKeepsLife, ChildKeepsLife, CallsKeepLife DEF ThreadNext, WakeInv
  <2>3. QED
      BY <2>1, <2>2
<1>2. ThreadSafety => []WakeInv
    BY ThreadUsesLoop, WakeInvariant, PTL
<1>3. QED
    BY <1>1, <1>2, LifeInit, PTL DEF ThreadSafety

\* Every variable of the thread, its owner and the loop keeps its type.
THEOREM ThreadTypeCorrect == ThreadSafety => []ThreadTypeOK
<1>1. TypeOK /\ LifeInv => ThreadTypeOK
    BY DEF LifeInv, OwnTypeOK, ThreadTypeOK
<1>2. QED
    BY <1>1, LifeInvariant, ThreadUsesLoop, TypeCorrect, PTL

\* loop_ never points to a loop that is gone, and if nobody but the destructor quits the loop
\* then the only access to a destroyed object is the late write of a call that was under way
\* when the loop ended (EventLoopThread.cc, and "not 100% thread safe" in EventLoop.h).
THEOREM OnlyLateWakeHolds == ThreadSafety => []OnlyLateWakeIsUndefined
<1>1. LifeInv => OnlyLateWakeIsUndefined
    BY DEF LifeInv, OwnTypeOK, Published, OwnerPlace, EndsByUser, LateOnly, Alive,
           OnlyLateWakeIsUndefined
<1>2. QED
    BY <1>1, LifeInvariant, PTL
===============================================================================
