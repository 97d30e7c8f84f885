---------------------------- MODULE EventLoopThread ----------------------------
(***************************************************************************)
(* A thread that runs one EventLoop (src/net/EventLoopThread.cc), and the  *)
(* thread that owns it: it starts the loop, uses it, and destroys it.  The *)
(* loop is a local variable of the child thread and loop_ is a pointer to  *)
(* it, which the destructor reads without the mutex.                       *)
(*                                                                         *)
(* A step that touches an object after its destruction makes the process   *)
(* "undefined", a failed assertion makes it "abort"; nothing is modelled   *)
(* after either.                                                           *)
(***************************************************************************)
EXTENDS EventLoop

CONSTANTS Owner,    \* the thread that owns the EventLoopThread object
          NDebug    \* the build defines NDEBUG (src/CMakeLists.txt does not)

ASSUME OwnerAssumption == Owner \in Caller /\ NDebug \in BOOLEAN

VARIABLES
    loop_,      \* loop_ is not NULL
    child,      \* where the child thread is
    owner,      \* where the owner is
    fate,       \* what became of the process
    userQuit    \* history: someone other than the destructor called quit(), and
                \* loop() has not forgotten it

ownVars == <<loop_, child, owner, fate, userQuit>>
allVars == <<vars, ownVars>>

\* The loop object exists while its thread is inside threadFunc().
Alive == child \in {"callback", "enter", "loop", "clear", "unlock"}

InStartLoop == owner \in {"latch", "check", "wait"}

ThreadTypeOK ==
    /\ TypeOK
    /\ loop_ \in BOOLEAN
    /\ child \in {"none", "latch", "ctor", "callback", "enter", "loop", "clear",
                  "unlock", "destroy", "end"}
    /\ owner \in {"new", "latch", "check", "wait", "using", "quit", "join", "gone"}
    /\ fate \in {"ok", "abort", "undefined"}
    /\ userQuit \in BOOLEAN

ThreadInit ==
    /\ Init
    /\ loop_ = FALSE
    /\ child = "none" /\ owner = "new"
    /\ fate = "ok"
    /\ userQuit = FALSE

-------------------------------------------------------------------------------
(* The owner: startLoop(). *)

\* thread_.start() creates the thread and then waits for its latch.
ThreadStart ==
    /\ owner = "new"
    /\ owner' = "latch"
    /\ child' = "latch"
    /\ UNCHANGED <<vars, loop_, fate, userQuit>>

\* latch_.wait() returns once the child has counted down.
LatchWait ==
    /\ owner = "latch" /\ child # "latch"
    /\ owner' = "check"
    /\ UNCHANGED <<vars, loop_, child, fate, userQuit>>

\* while (loop_ == NULL) cond_.wait(), one test under mutex_.
StartLoopCheck ==
    /\ owner = "check" /\ child # "unlock"
    /\ owner' = IF loop_ THEN "using" ELSE "wait"
    /\ UNCHANGED <<vars, loop_, child, fate, userQuit>>

\* pthread_cond_wait may return for no reason.
SpuriousWakeup ==
    /\ owner = "wait"
    /\ owner' = "check"
    /\ UNCHANGED <<vars, loop_, child, fate, userQuit>>

(* The owner: ~EventLoopThread(). *)

\* The unsynchronised test of loop_.  With NULL the thread is detached and the
\* members, mutex_ among them, are gone.
Destroy ==
    /\ owner \in {"new", "using"} /\ call[Owner] = "none"
    /\ owner' = IF loop_ THEN "quit" ELSE "gone"
    /\ UNCHANGED <<vars, loop_, child, fate, userQuit>>

\* loop_->quit(), first step.  loop_ is read again, or still in a register: when
\* it has become NULL the call may go through a null pointer.
DestroyQuit ==
    /\ owner = "quit"
    /\ \/ Alive /\ Quit(Owner) /\ owner' = "join" /\ UNCHANGED fate
       \/ ~(Alive /\ loop_) /\ fate' = "undefined" /\ UNCHANGED <<vars, owner>>
    /\ UNCHANGED <<loop_, child, userQuit>>

\* thread_.join().
Join ==
    /\ owner = "join" /\ call[Owner] = "none"
    /\ child = "end"
    /\ owner' = "gone"
    /\ UNCHANGED <<vars, loop_, child, fate, userQuit>>

-------------------------------------------------------------------------------
(* The child: runInThread() and threadFunc(). *)

\* latch_->countDown().
LatchCountDown ==
    /\ child = "latch"
    /\ child' = "ctor"
    /\ UNCHANGED <<vars, loop_, owner, fate, userQuit>>

\* EventLoop loop;
ConstructLoop ==
    /\ child = "ctor"
    /\ child' = "callback"
    /\ UNCHANGED <<vars, loop_, owner, fate, userQuit>>

\* Mutation: loop_ is set and nobody is told.
PublishSilently ==
    /\ child = "callback" /\ InLibrary
    /\ loop_' = TRUE
    /\ child' = "enter"
    /\ UNCHANGED <<vars, owner, fate, userQuit>>

\* callback_ has returned: loop_ = &loop and cond_.notify(), under mutex_.
Publish ==
    /\ child = "callback" /\ InLibrary
    /\ loop_' = TRUE
    /\ owner' = IF owner = "wait" THEN "check" ELSE owner
    /\ child' = "enter"
    /\ UNCHANGED <<vars, fate, userQuit>>

\* loop.loop() is called once.
EnterLoop ==
    /\ child = "enter"
    /\ LoopEnter
    /\ child' = "loop"
    /\ userQuit' = FALSE
    /\ UNCHANGED <<loop_, owner, fate>>

\* A step of the loop; the one that leaves loop() returns to threadFunc().
InsideLoop ==
    /\ child = "loop"
    /\ LoopStep
    /\ child' = IF looping_' THEN "loop" ELSE "clear"
    /\ UNCHANGED <<loop_, owner, fate, userQuit>>

\* The end of the user code the child runs in callback_.
CallbackReturn ==
    /\ child = "callback"
    /\ UserReturn
    /\ UNCHANGED ownVars

\* Mutation: loop_ is left pointing at the loop that is about to be destroyed.
ClearLoopForgets ==
    /\ child = "clear"
    /\ IF owner = "gone"
         THEN fate' = "undefined" /\ UNCHANGED child
         ELSE child' = "unlock" /\ UNCHANGED fate
    /\ UNCHANGED <<vars, loop_, owner, userQuit>>

\* The lock, and loop_ = NULL.
ClearLoop ==
    /\ child = "clear"
    /\ IF owner = "gone"
         THEN fate' = "undefined" /\ UNCHANGED <<loop_, child>>
         ELSE loop_' = FALSE /\ child' = "unlock" /\ UNCHANGED fate
    /\ UNCHANGED <<vars, owner, userQuit>>

\* The end of threadFunc(): mutex_ is released, if it still exists.
Unlock ==
    /\ child = "unlock"
    /\ IF owner = "gone"
         THEN fate' = "undefined" /\ UNCHANGED child
         ELSE child' = "destroy" /\ UNCHANGED fate
    /\ UNCHANGED <<vars, loop_, owner, userQuit>>

\* ~EventLoop(): ~TimerQueue() removes a handler that still has events, and the
\* assertion of Epoll::removeHandler() fails in a build that has assertions.
DestroyLoop ==
    /\ child = "destroy"
    /\ IF NDebug THEN child' = "end" /\ UNCHANGED fate
                 ELSE fate' = "abort" /\ UNCHANGED child
    /\ UNCHANGED <<vars, loop_, owner, userQuit>>

-------------------------------------------------------------------------------
(* Calls on the loop. *)

\* A thread that holds a pointer to the loop: the child, in callback_ and in the
\* functors and callbacks of its loop, and the others once startLoop() returned.
\* A new call is made on a loop that exists; its second step may come too late.
HasPointer(th) == IF th = LoopThread THEN child \in {"callback", "loop"}
                                     ELSE owner \in {"using", "quit", "join"} /\ Alive

NewCall(th) ==
    /\ HasPointer(th)
    /\ th = Owner => owner = "using"
    /\ \/ /\ \/ \E f \in Functor : QueueInLoop(th, f) \/ RunInLoop(th, f)
             \/ Wakeup(th)
          /\ UNCHANGED userQuit
       \/ Quit(th) /\ userQuit' = TRUE
    /\ UNCHANGED <<loop_, child, owner, fate>>

\* The write to the eventfd of a loop that exists.
FinishCall(th) ==
    /\ Alive
    /\ QueueWake(th) \/ QuitWake(th)
    /\ UNCHANGED ownVars

\* The write to the eventfd of a loop that was destroyed meanwhile.
FinishCallTooLate(th) ==
    /\ ~Alive
    /\ call[th] # "none"
    /\ fate' = "undefined"
    /\ UNCHANGED <<vars, loop_, child, owner, userQuit>>

-------------------------------------------------------------------------------
OwnerStep == ThreadStart \/ LatchWait \/ StartLoopCheck \/ SpuriousWakeup
             \/ Destroy \/ DestroyQuit \/ Join

ChildStep == LatchCountDown \/ ConstructLoop \/ CallbackReturn \/ Publish \/ EnterLoop
             \/ InsideLoop \/ ClearLoop \/ Unlock \/ DestroyLoop

ThreadNext ==
    /\ fate = "ok"
    /\ \/ OwnerStep
       \/ ChildStep
       \/ \E th \in Thread : NewCall(th) \/ FinishCall(th) \/ FinishCallTooLate(th)

ThreadSafety == ThreadInit /\ [][ThreadNext]_allVars

(***************************************************************************)
(* Both threads are scheduled, what they entered of the library they       *)
(* leave, and user code returns.  When to start, use and destroy is the    *)
(* program's choice; nobody is woken from a condition variable without a   *)
(* reason and epoll_wait is not rescued by its timeout or by I/O.          *)
(***************************************************************************)
Prompt == pc # "poll" \/ eventfd

ThreadFairness ==
    /\ WF_allVars(fate = "ok" /\ (LatchWait \/ StartLoopCheck \/ DestroyQuit \/ Join))
    /\ WF_allVars(fate = "ok" /\ stack = <<>> /\ Prompt /\ ChildStep)
    /\ SF_allVars(fate = "ok" /\ Publish)
    /\ \A th \in Thread :
         WF_allVars(fate = "ok" /\ (FinishCall(th) \/ FinishCallTooLate(th)))
    /\ \A d \in 1 .. MaxDepth : SF_allVars(fate = "ok" /\ Len(stack) = d /\ (InsideLoop \/ CallbackReturn))

ThreadSpec == ThreadSafety /\ ThreadFairness

-------------------------------------------------------------------------------
(* Safety. *)

\* loop_ never points to a loop that is gone; and if nobody but the destructor quits the
\* loop, then the destructor leaves no thread behind that has started, and the only thing
\* that can touch a destroyed object is the second half of a call that was under way when
\* the loop ended: never loop_, never mutex_ (threadFunc(), the destructor, wakeup()).
OnlyLateWakeIsUndefined ==
    /\ loop_ => Alive
    /\ owner = "gone" /\ ~userQuit => child \in {"none", "end"}
    /\ fate = "undefined" /\ ~userQuit => \E th \in Caller : call[th] # "none"

(* Progress. *)

\* startLoop() returns, unless the loop has come and gone before the owner looked
\* (callback_ queued a functor that quits) and loop_ is NULL for good.
StartLoopReturns ==
    InStartLoop ~> owner = "using" \/ (~loop_ /\ ~Alive /\ userQuit) \/ fate # "ok"

\* Once the destructor's quit() falls into loop(), the destructor returns.
DestructorReturnsIfLooping ==
    owner = "join" /\ looping_ /\ quit_ ~> owner = "gone" \/ fate # "ok"

\* quit() quits the loop, so the destructor returns (EventLoop.h:74).
DestructorReturns == owner = "join" ~> owner = "gone" \/ fate # "ok"
===============================================================================
