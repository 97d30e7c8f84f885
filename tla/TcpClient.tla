-------------------------------- MODULE TcpClient --------------------------------
(***************************************************************************)
(* A client (src/net/TcpClient.cpp) and the socket that connects for it    *)
(* (src/net/ConnectSocket.cpp): attempts, retry timers, and one link.      *)
(* connect(), disconnect() and stop() may be called by any thread; what    *)
(* they ask of the ConnectSocket is done in the loop thread, at once if    *)
(* the caller is the loop thread and start() is asked, by a queued functor *)
(* otherwise.                                                              *)
(*                                                                         *)
(* A retry timer may be due at any time, so retryTimeMs_ is left out.  The *)
(* registration of the descriptors and the assertions about it are in      *)
(* Poller; here they have no effect, as in a build without assertions.     *)
(* What a link does between its creation and its end is in LinkedSocket.   *)
(***************************************************************************)
EXTENDS Naturals, Sequences, FiniteSets

CONSTANTS LoopThread, Caller,   \* the thread of the loop, and the others
          MaxConnects,          \* bound: calls of TcpClient::connect()
          MaxQueue              \* bound: functors queued or about to be

ASSUME ClientThreadAssumption == LoopThread \notin Caller
ASSUME ClientBoundAssumption == MaxConnects \in Nat /\ MaxQueue \in Nat

VARIABLES
    retry_, connect_,   \* of TcpClient
    connectState_,      \* of ConnectSocket
    polled,             \* fd_ is open and registered
    link,               \* what tcpLinkSPtr_ points to: none, up, closing (kDisconnecting)
    timers,             \* number of retry timers not due yet
    queue,              \* functors of the loop
    call,               \* how far each thread is in a call, see Call
    open,               \* number of descriptors open: the socket's and the link's
    calls,              \* history: number of calls of connect()
    status,             \* history: "trying", or why there is nothing more to do
    undefined           \* a call has used a link that is gone

socket == <<connectState_, polled, open, timers, status>>
vars == <<retry_, connect_, socket, link, queue, call, calls, undefined>>

Thread == Caller \cup {LoopThread}

\* In connect() and stop() before the ConnectSocket is called; in disconnect() before
\* mutex_ is taken; in disconnect() with mutex_, after tcpLinkSPtr_ was found set.
Call == {"idle", "connect", "stop", "disconnect", "shutdown"}

TypeOK == /\ retry_ \in BOOLEAN /\ connect_ \in BOOLEAN
          /\ connectState_ \in {"Stopped", "Connecting", "Connected"}
          /\ polled \in BOOLEAN
          /\ link \in {"none", "up", "closing"}
          /\ timers \in Nat /\ open \in Nat /\ calls \in Nat
          /\ queue \in Seq({"start", "stop"})
          /\ call \in [Thread -> Call]
          /\ status \in {"unstarted", "trying", "stopped", "hopeless", "dropped"}
          /\ undefined \in BOOLEAN

Init ==
    /\ retry_ = FALSE /\ connect_ = TRUE
    /\ connectState_ = "Stopped" /\ polled = FALSE
    /\ link = "none"
    /\ timers = 0
    /\ queue = <<>>
    /\ call = [t \in Thread |-> "idle"]
    /\ open = 0
    /\ calls = 0 /\ status = "unstarted" /\ undefined = FALSE

\* The loop thread is between two handlers.
LoopIdle == call[LoopThread] = "idle" /\ ~undefined

-------------------------------------------------------------------------------
(* ConnectSocket, in the loop thread.  Each operation is given the number  *)
(* of timers and of open descriptors there are when it begins.             *)

\* connect() is under way, is to be tried again, or failed for good.
Outcome == {"pending", "refused", "hopeless"}

\* Mutation: nobody who has called stop() or disconnect() is served by a retry.
RetryWanted(n) == IF connect_ THEN n + 1 ELSE n

\* runAfter() in retry().
RunAfter(n) == n + 1

\* retry(), which also closes the descriptor.
Retry(n) == connectState_' = "Stopped" /\ polled' = FALSE /\ timers' = RunAfter(n)

\* Mutation: a hopeless failure is tried again like the others.
HopelessRetries(n) == connectState_' = "Connecting" /\ polled' = FALSE /\ timers' = RunAfter(n)

\* A connect() that fails for good leaves its descriptor closed and its state as it is.
Hopeless(n) == connectState_' = "Connecting" /\ polled' = FALSE /\ timers' = n

\* connect()
Connect(outcome, n, opened) ==
    \/ /\ outcome = "pending"
       /\ connectState_' = "Connecting" /\ polled' = TRUE /\ timers' = n
       /\ open' = opened + 1 /\ status' = "trying"
    \/ outcome = "refused" /\ Retry(n) /\ open' = opened /\ status' = "trying"
    \/ outcome = "hopeless" /\ Hopeless(n) /\ open' = opened /\ status' = "hopeless"

\* Mutation: a connection that is established does not keep the socket from starting.
MayStartConnected == connectState_ # "Connecting"

MayStart == connectState_ = "Stopped"

\* startInLoop()
StartInLoop(outcome, n) ==
    IF MayStart THEN Connect(outcome, n, open)
                ELSE timers' = n /\ UNCHANGED <<connectState_, polled, open, status>>

\* stopInLoop(): a descriptor that a hopeless connect() has closed is closed again.
StopInLoop ==
    IF connectState_ = "Connecting"
      THEN /\ connectState_' = "Stopped" /\ polled' = FALSE
           /\ open' = IF polled THEN open - 1 ELSE open
           /\ status' = "stopped"
           /\ UNCHANGED timers
      ELSE UNCHANGED socket

\* doPendingFunctors(), one functor.
RunFunctor ==
    /\ LoopIdle /\ queue # <<>>
    /\ queue' = Tail(queue)
    /\ \/ Head(queue) = "start" /\ \E outcome \in Outcome : StartInLoop(outcome, timers)
       \/ Head(queue) = "stop" /\ StopInLoop
    /\ UNCHANGED <<retry_, connect_, link, call, calls, undefined>>

\* Mutation: the last timer runs once too often.
TimerWaitsOrRan == timers >= 0

TimerWaits == timers > 0

\* A retry timer runs start().
RetryTimer(outcome) ==
    /\ LoopIdle /\ TimerWaits
    /\ StartInLoop(outcome, timers - 1)
    /\ UNCHANGED <<retry_, connect_, link, queue, call, calls, undefined>>

\* handleWrite() of an attempt that failed, or that has connected to itself.
AttemptFails ==
    /\ LoopIdle /\ polled /\ connectState_ = "Connecting"
    /\ Retry(timers)
    /\ open' = open - 1
    /\ UNCHANGED <<status, retry_, connect_, link, queue, call, calls, undefined>>

\* handleWrite() of one that succeeded, and newConnection().
AttemptSucceeds ==
    /\ LoopIdle /\ polled /\ connectState_ = "Connecting"
    /\ connectState_' = "Connected" /\ polled' = FALSE
    /\ link' = "up"
    /\ UNCHANGED <<open, timers, status, retry_, connect_, queue, call, calls, undefined>>

-------------------------------------------------------------------------------
(* TcpClient. *)

\* Mutation: restart() asks start(), which finds the socket connected.
RestartStarts(outcome) ==
    open' = open - 1 /\ UNCHANGED <<connectState_, polled, timers, status>>

\* restart(), while the descriptor of the link is still open.
Restart(outcome) == Connect(outcome, timers, open - 1)

\* The link is closed by the peer, or by an error: handleClose() and delConnection().  The
\* link is destroyed at once here; a callback that was given it may keep it, and with it
\* its descriptor, beyond the restart: that is in Poller.
LinkEnds(outcome) ==
    /\ LoopIdle /\ link # "none"
    /\ link' = "none"
    /\ IF retry_ /\ connect_
         THEN Restart(outcome)
         ELSE /\ open' = open - 1 /\ status' = "dropped"
              /\ UNCHANGED <<connectState_, polled, timers>>
    /\ UNCHANGED <<retry_, connect_, queue, call, calls, undefined>>

EnableRetry ==
    /\ ~undefined /\ ~retry_
    /\ retry_' = TRUE
    /\ UNCHANGED <<connect_, socket, link, queue, call, calls, undefined>>

\* Threads that will queue a functor.
Asking == {t \in Thread : call[t] \in {"connect", "stop"}}

\* connect(), stop() and disconnect() up to and including the assignment of connect_.
Begin(th, what) ==
    /\ ~undefined /\ call[th] = "idle"
    /\ what \in {"connect", "stop", "disconnect"}
    /\ what = "connect" => calls < MaxConnects
    /\ what # "disconnect" => Len(queue) + Cardinality(Asking) < MaxQueue
    /\ calls' = IF what = "connect" THEN calls + 1 ELSE calls
    /\ connect_' = (what = "connect")
    /\ call' = [call EXCEPT ![th] = what]
    /\ UNCHANGED <<retry_, socket, link, queue, undefined>>

\* The rest of connect(): start() is done at once in the loop thread.
Start(th, outcome) ==
    /\ ~undefined /\ call[th] = "connect"
    /\ call' = [call EXCEPT ![th] = "idle"]
    /\ IF th = LoopThread
         THEN StartInLoop(outcome, timers) /\ UNCHANGED queue
         ELSE queue' = Append(queue, "start") /\ UNCHANGED socket
    /\ UNCHANGED <<retry_, connect_, link, calls, undefined>>

\* The rest of stop(), which is always queued.
Stop(th) ==
    /\ ~undefined /\ call[th] = "stop"
    /\ call' = [call EXCEPT ![th] = "idle"]
    /\ queue' = Append(queue, "stop")
    /\ UNCHANGED <<retry_, connect_, socket, link, calls, undefined>>

\* disconnect() takes mutex_, which the loop thread does not when it changes
\* tcpLinkSPtr_, and looks at the pointer ...
FindLink(th) ==
    /\ ~undefined /\ call[th] = "disconnect"
    /\ \A t \in Thread : call[t] # "shutdown"
    /\ call' = [call EXCEPT ![th] = IF link = "none" THEN "idle" ELSE "shutdown"]
    /\ UNCHANGED <<retry_, connect_, socket, link, queue, calls, undefined>>

\* ... and then calls shutdown() through it.
ShutdownLink(th) ==
    /\ ~undefined /\ call[th] = "shutdown"
    /\ call' = [call EXCEPT ![th] = "idle"]
    /\ IF link = "none" THEN undefined' = TRUE /\ UNCHANGED link
                        ELSE link' = "closing" /\ UNCHANGED undefined
    /\ UNCHANGED <<retry_, connect_, socket, queue, calls>>

-------------------------------------------------------------------------------
LoopStep ==
    \/ RunFunctor \/ AttemptFails \/ AttemptSucceeds
    \/ \E outcome \in Outcome : RetryTimer(outcome) \/ LinkEnds(outcome)

CallStep ==
    \/ EnableRetry
    \/ \E th \in Thread :
          \/ \E what \in Call : Begin(th, what)
          \/ \E outcome \in Outcome : Start(th, outcome)
          \/ Stop(th) \/ FindLink(th) \/ ShutdownLink(th)

Next == LoopStep \/ CallStep

Safety == Init /\ [][Next]_vars

(***************************************************************************)
(* The loop goes round (EventLoop: LoopPolls, NoLostWakeup), timers become *)
(* due (TimerQueue: TimersRun), calls go on.  Of the server: among         *)
(* attempts that never end, some are taken up, and of those some succeed.  *)
(***************************************************************************)
Fairness ==
    /\ WF_vars(RunFunctor)
    /\ WF_vars(\E outcome \in Outcome : RetryTimer(outcome))
    /\ WF_vars(AttemptFails \/ AttemptSucceeds)
    /\ \A th \in Thread : /\ WF_vars(\E outcome \in Outcome : Start(th, outcome))
                          /\ WF_vars(Stop(th)) /\ WF_vars(FindLink(th)) /\ WF_vars(ShutdownLink(th))
    /\ SF_vars(RetryTimer("pending")) /\ SF_vars(AttemptSucceeds)

Spec == Safety /\ Fairness

-------------------------------------------------------------------------------
(* Properties. *)

\* Whatever timers, calls and restarts come together, a client has one descriptor at
\* most, of an attempt or of a link, and none that it has lost sight of.  (A descriptor
\* of a closed link that a callback keeps is the program's.)
OneConnection ==
    /\ open = (IF polled THEN 1 ELSE 0) + (IF link # "none" THEN 1 ELSE 0)
    /\ open <= 1

\* "Keeps trying to connect to the server" (ConnectSocket.h:19, :21): unless it was
\* never started, was stopped, met a hopeless error or was not to connect again, a
\* client has a link, an attempt, or a timer that will make one.
NeverGivesUp == status = "trying" => link # "none" \/ polled \/ timers > 0

\* Retries do not multiply: there are no more timers and attempts together than
\* connect() was called.
OneChainPerCall == timers + (IF connectState_ = "Stopped" THEN 0 ELSE 1) <= calls

\* A client that is not stopped, and not left alone with a hopeless error, is
\* connected again and again, or stays so.
KeepsTrying == <>[](status = "trying" /\ ~undefined) => []<>(link # "none")
===============================================================================
