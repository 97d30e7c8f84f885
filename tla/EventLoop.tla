------------------------------- MODULE EventLoop -------------------------------
(***************************************************************************)
(* The reactor (src/net/EventLoop.cpp): one loop thread that alternates    *)
(* between epoll_wait, the handlers of the ready descriptors and the       *)
(* functors other threads injected, and any number of threads that queue   *)
(* functors, ask the loop to quit or wake it up.  A queueInLoop() or a     *)
(* quit() is two steps, as in the code: the shared variable is written     *)
(* first, the eventfd afterwards, and any other thread may run in between. *)
(*                                                                         *)
(* User code (the body of a functor, of an I/O callback, and what the loop *)
(* thread does before and after loop()) is arbitrary: it makes any of the  *)
(* calls the class offers, nested through runInLoop(), and then returns.   *)
(***************************************************************************)
EXTENDS Naturals, Sequences

CONSTANTS LoopThread,   \* the thread that created the loop and runs loop()
          Caller,       \* the other threads that use the loop
          Functor,      \* what can be queued
          IoFd,         \* descriptors with a user callback: sockets, the timerfd
          WakeupFd,     \* the eventfd of the loop
          NoFunctor,    \* stands for "no functor is running"
          MaxPending,   \* bound: longest pendingFunctors_ explored
          MaxDepth      \* bound: deepest nesting of runInLoop() explored

ASSUME ThreadAssumption == LoopThread \notin Caller
ASSUME FdAssumption == WakeupFd \notin IoFd
ASSUME FrameAssumption == Functor \cap IoFd = {} /\ NoFunctor \notin Functor
ASSUME BoundAssumption == MaxPending \in Nat \ {0} /\ MaxDepth \in Nat \ {0}

VARIABLES
    looping_, quit_, functorPending_,   \* the flags of the class
    pendingFunctors_,   \* functors queued, guarded by mutex_
    functors,           \* local of doPendingFunctors(): what is left of its batch
    active,             \* actFdEventList_: descriptors not yet dispatched
    eventfd,            \* the counter of wakeupFd_ is not zero
    pc,                 \* where the loop thread is
    stack,              \* user code the loop thread is in, outermost first
    call,               \* for each thread, the call it is in the middle of
    early               \* history: how many of pendingFunctors_ the loop thread
                        \* queued before it entered loop()

vars == <<looping_, quit_, functorPending_, pendingFunctors_, functors, active,
          eventfd, pc, stack, call, early>>

Thread == Caller \cup {LoopThread}
Frame == Functor \cup IoFd

TypeOK ==
    /\ looping_ \in BOOLEAN /\ quit_ \in BOOLEAN /\ functorPending_ \in BOOLEAN
    /\ pendingFunctors_ \in Seq(Functor)
    /\ functors \in Seq(Functor)
    /\ active \subseteq IoFd \cup {WakeupFd}
    /\ eventfd \in BOOLEAN
    /\ pc \in {"out", "while", "poll", "dispatch", "swap", "run"}
    /\ stack \in Seq(Frame)
    /\ call \in [Thread -> {"none", "queued", "quitting"}]
    /\ early \in Nat

\* The constructor: wakeupFd_ is registered for reading and never removed.
Init ==
    /\ looping_ = FALSE /\ quit_ = FALSE /\ functorPending_ = FALSE
    /\ pendingFunctors_ = <<>> /\ functors = <<>>
    /\ active = {}
    /\ eventfd = FALSE
    /\ pc = "out"
    /\ stack = <<>>
    /\ call = [t \in Thread |-> "none"]
    /\ early = 0

-------------------------------------------------------------------------------
(* The loop thread inside loop() and doPendingFunctors(). *)

\* The loop thread executes library code, not a callback or a nested call.
InLibrary == stack = <<>> /\ call[LoopThread] = "none"

\* loop(): a quit() that came earlier is forgotten.
LoopEnter ==
    /\ pc = "out" /\ InLibrary /\ ~looping_
    /\ looping_' = TRUE
    /\ quit_' = FALSE
    /\ pc' = "while"
    /\ UNCHANGED <<functorPending_, pendingFunctors_, functors, active, eventfd,
                   stack, call, early>>

\* while (!quit_), and what follows the loop.
CheckQuit ==
    /\ pc = "while"
    /\ IF quit_ THEN pc' = "out"  /\ looping_' = FALSE
                ELSE pc' = "poll" /\ UNCHANGED looping_
    /\ UNCHANGED <<quit_, functorPending_, pendingFunctors_, functors, active,
                   eventfd, stack, call, early>>

\* epoll_wait returns ready descriptors; the eventfd is among them exactly when
\* its counter is not zero, the others as the outside world decides.
Poll(ready) ==
    /\ pc = "poll"
    /\ ready # {}
    /\ WakeupFd \in ready <=> eventfd
    /\ active' = ready
    /\ pc' = "dispatch"
    /\ UNCHANGED <<looping_, quit_, functorPending_, pendingFunctors_, functors,
                   eventfd, stack, call, early>>

\* Mutation: a round without events skips the functors.
PollTimeoutSkips ==
    /\ pc = "poll" /\ ~eventfd
    /\ pc' = "while"
    /\ UNCHANGED <<looping_, quit_, functorPending_, pendingFunctors_, functors,
                   active, eventfd, stack, call, early>>

\* epoll_wait returns nothing: kPollTimeMs elapsed, or EINTR.
PollTimeout ==
    /\ pc = "poll" /\ ~eventfd
    /\ pc' = "dispatch"
    /\ UNCHANGED <<looping_, quit_, functorPending_, pendingFunctors_, functors,
                   active, eventfd, stack, call, early>>

\* Mutation: the eventfd is dispatched as if it had a user callback, nothing reads it.
DispatchUnread(fd) ==
    /\ pc = "dispatch" /\ InLibrary
    /\ fd \in active
    /\ active' = active \ {fd}
    /\ stack' = <<fd>>
    /\ UNCHANGED <<looping_, quit_, functorPending_, pendingFunctors_, functors,
                   eventfd, pc, call, early>>

\* handleEvent() of the eventfd reads the counter down to zero; handleEvent() of
\* any other descriptor enters its user callback.
Dispatch(fd) ==
    /\ pc = "dispatch" /\ InLibrary
    /\ fd \in active
    /\ active' = active \ {fd}
    /\ IF fd = WakeupFd THEN eventfd' = FALSE /\ UNCHANGED stack
                        ELSE stack' = <<fd>>  /\ UNCHANGED eventfd
    /\ UNCHANGED <<looping_, quit_, functorPending_, pendingFunctors_, functors,
                   pc, call, early>>

\* doPendingFunctors() up to the mutex.
DoPendingFunctors ==
    /\ pc = "dispatch" /\ InLibrary /\ active = {}
    /\ functorPending_' = TRUE
    /\ pc' = "swap"
    /\ UNCHANGED <<looping_, quit_, pendingFunctors_, functors, active, eventfd,
                   stack, call, early>>

\* Mutation: the queue is copied instead of swapped with the empty local.
SwapByCopy ==
    /\ pc = "swap"
    /\ functors' = pendingFunctors_
    /\ early' = 0
    /\ pc' = "run"
    /\ UNCHANGED <<looping_, quit_, functorPending_, pendingFunctors_, active,
                   eventfd, stack, call>>

\* functors.swap(pendingFunctors_) under mutex_.
Swap ==
    /\ pc = "swap"
    /\ functors' = pendingFunctors_
    /\ pendingFunctors_' = <<>>
    /\ early' = 0
    /\ pc' = "run"
    /\ UNCHANGED <<looping_, quit_, functorPending_, active, eventfd, stack, call>>

\* functors[i]().
RunFunctor ==
    /\ pc = "run" /\ InLibrary /\ functors # <<>>
    /\ stack' = <<Head(functors)>>
    /\ functors' = Tail(functors)
    /\ UNCHANGED <<looping_, quit_, functorPending_, pendingFunctors_, active,
                   eventfd, pc, call, early>>

\* Mutation: the queue is drained until it is found empty.
DrainUntilEmpty ==
    /\ pc = "run" /\ InLibrary /\ functors = <<>>
    /\ functorPending_' = (pendingFunctors_ # <<>>)
    /\ pc' = IF pendingFunctors_ # <<>> THEN "swap" ELSE "while"
    /\ UNCHANGED <<looping_, quit_, pendingFunctors_, functors, active, eventfd,
                   stack, call, early>>

\* The batch is done: back to the test of the while loop.
DoPendingDone ==
    /\ pc = "run" /\ InLibrary /\ functors = <<>>
    /\ functorPending_' = FALSE
    /\ pc' = "while"
    /\ UNCHANGED <<looping_, quit_, pendingFunctors_, functors, active, eventfd,
                   stack, call, early>>

\* The innermost user code returns.
UserReturn ==
    /\ stack # <<>> /\ call[LoopThread] = "none"
    /\ stack' = SubSeq(stack, 1, Len(stack) - 1)
    /\ UNCHANGED <<looping_, quit_, functorPending_, pendingFunctors_, functors,
                   active, eventfd, pc, call, early>>

-------------------------------------------------------------------------------
(* Calls made by the other threads, and by user code in the loop thread. *)

MayCall(th) == /\ call[th] = "none"
               /\ th = LoopThread => pc = "out" \/ stack # <<>>

\* queueInLoop(), first step: push_back under mutex_.
QueueInLoop(th, f) ==
    /\ MayCall(th)
    /\ Len(pendingFunctors_) < MaxPending
    /\ pendingFunctors_' = Append(pendingFunctors_, f)
    /\ call' = [call EXCEPT ![th] = "queued"]
    /\ early' = IF th = LoopThread /\ pc = "out" THEN early + 1 ELSE early
    /\ UNCHANGED <<looping_, quit_, functorPending_, functors, active, eventfd,
                   pc, stack>>

\* Mutation: only the other threads wake the loop up.
QueueWakeForeign(th) ==
    /\ call[th] = "queued"
    /\ eventfd' = (eventfd \/ th # LoopThread)
    /\ call' = [call EXCEPT ![th] = "none"]
    /\ UNCHANGED <<looping_, quit_, functorPending_, pendingFunctors_, functors,
                   active, pc, stack, early>>

\* queueInLoop(), second step: the test after the mutex is released, and the
\* write to the eventfd.
QueueWake(th) ==
    /\ call[th] = "queued"
    /\ eventfd' = (eventfd \/ th # LoopThread \/ functorPending_)
    /\ call' = [call EXCEPT ![th] = "none"]
    /\ UNCHANGED <<looping_, quit_, functorPending_, pendingFunctors_, functors,
                   active, pc, stack, early>>

\* runInLoop(): at once, inside the caller, when that is the loop thread.
RunInLoop(th, f) ==
    \/ /\ th = LoopThread /\ MayCall(th)
       /\ Len(stack) < MaxDepth
       /\ stack' = Append(stack, f)
       /\ UNCHANGED <<looping_, quit_, functorPending_, pendingFunctors_,
                      functors, active, eventfd, pc, call, early>>
    \/ /\ th # LoopThread
       /\ QueueInLoop(th, f)

\* quit(), first step, and the whole of it in the loop thread.
Quit(th) ==
    /\ MayCall(th)
    /\ quit_' = TRUE
    /\ call' = [call EXCEPT ![th] = IF th = LoopThread THEN "none" ELSE "quitting"]
    /\ UNCHANGED <<looping_, functorPending_, pendingFunctors_, functors, active,
                   eventfd, pc, stack, early>>

\* Mutation: quit() leaves the loop asleep.
QuitNoWake(th) ==
    /\ call[th] = "quitting"
    /\ call' = [call EXCEPT ![th] = "none"]
    /\ UNCHANGED <<looping_, quit_, functorPending_, pendingFunctors_, functors,
                   active, eventfd, pc, stack, early>>

\* quit(), second step: wakeup().
QuitWake(th) ==
    /\ call[th] = "quitting"
    /\ eventfd' = TRUE
    /\ call' = [call EXCEPT ![th] = "none"]
    /\ UNCHANGED <<looping_, quit_, functorPending_, pendingFunctors_, functors,
                   active, pc, stack, early>>

\* wakeup() called for its own sake.
Wakeup(th) ==
    /\ MayCall(th)
    /\ eventfd' = TRUE
    /\ UNCHANGED <<looping_, quit_, functorPending_, pendingFunctors_, functors,
                   active, pc, stack, call, early>>

-------------------------------------------------------------------------------
LoopStep ==
    \/ LoopEnter \/ CheckQuit
    \/ \E ready \in SUBSET (IoFd \cup {WakeupFd}) : Poll(ready)
    \/ PollTimeout
    \/ \E fd \in IoFd \cup {WakeupFd} : Dispatch(fd)
    \/ DoPendingFunctors \/ Swap \/ RunFunctor \/ DoPendingDone
    \/ UserReturn

CallStep(th) ==
    \/ \E f \in Functor : QueueInLoop(th, f) \/ RunInLoop(th, f)
    \/ QueueWake(th)
    \/ Quit(th) \/ QuitWake(th)
    \/ Wakeup(th)

Next == LoopStep \/ \E th \in Thread : CallStep(th)

Safety == Init /\ [][Next]_vars

(***************************************************************************)
(* The scheduler runs every thread: a step of the loop thread or the       *)
(* second half of a call, once enabled, is taken.  User code ends: a       *)
(* function that is entered returns, however many calls it makes first     *)
(* (strong fairness, since each call disables the return for a while).     *)
(* Nothing is assumed of the world outside: no descriptor need become      *)
(* ready, no thread need call, loop() need not be entered, and epoll_wait  *)
(* is never helped by its 10 s timeout, unless a property says so.         *)
(***************************************************************************)
Fairness ==
    /\ WF_vars(CheckQuit)
    /\ WF_vars(eventfd /\ \E ready \in SUBSET (IoFd \cup {WakeupFd}) : Poll(ready))
    /\ WF_vars(\E fd \in IoFd \cup {WakeupFd} : Dispatch(fd))
    /\ WF_vars(DoPendingFunctors)
    /\ WF_vars(Swap) /\ WF_vars(RunFunctor) /\ WF_vars(DoPendingDone)
    /\ \A th \in Thread : WF_vars(QueueWake(th)) /\ WF_vars(QuitWake(th))
    /\ \A d \in 1 .. MaxDepth : SF_vars(Len(stack) = d /\ UserReturn)

Spec == Safety /\ Fairness

-------------------------------------------------------------------------------
(* Safety. *)

\* No thread sleeps on work: when the loop thread is about to block in
\* epoll_wait, every functor that another thread or a callback queued has set
\* the eventfd, or its caller is about to.  (The functors the loop thread
\* queued before loop() never wake it: early.)
NoLostWakeup ==
    pc = "poll" /\ Len(pendingFunctors_) > early
        => eventfd \/ \E th \in Thread : call[th] = "queued"

\* A quit() is not slept on either: it finds the loop outside epoll_wait, or
\* sets the eventfd, or is about to.
NoLostQuit ==
    pc = "poll" /\ quit_ => eventfd \/ \E th \in Caller : call[th] = "quitting"

(* Progress. *)

\* Functors that queue functors do not keep the loop from its descriptors: each
\* round goes back to epoll_wait, because a round runs one batch only.
LoopPolls == looping_ ~> (pc = "poll" \/ ~looping_)

(* The abstract executor: its queue is the unfinished batch followed by
   pendingFunctors_, its running task the outermost function of the batch. *)

Queue == functors \o pendingFunctors_

Running == IF pc = "run" /\ stack # <<>> THEN stack[1] ELSE NoFunctor

Executor == INSTANCE SerialExecutor
    WITH Task <- Functor, NoTask <- NoFunctor,
         open <- looping_, queue <- Queue, running <- Running

\* Functors run one at a time in the order they were queued, each exactly once,
\* only inside loop(); what a quit() leaves queued is kept for the next loop().
ExecutorSafety == Executor!Safety

\* If the timeout of epoll_wait does occur, every functor queued before or during
\* loop() is started and ends: the loop keeps the executor's promise of progress.
ExecutorProgress == WF_vars(PollTimeout) => Executor!Fairness
===============================================================================
