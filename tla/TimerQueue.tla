------------------------------- MODULE TimerQueue -------------------------------
(***************************************************************************)
(* The timers of one loop (src/net/TimerQueue.cpp): a set of timers by     *)
(* expiration, a set by address, and one timerfd armed for the earliest.   *)
(* Any thread adds and cancels timers; what other threads ask for is done  *)
(* by functors of the loop, in the order it was queued.  A callback runs   *)
(* in the loop thread in the middle of handleRead() and may itself add and *)
(* cancel timers, its own included.                                        *)
(*                                                                         *)
(* Time is counted in units no shorter than the 100 microseconds below     *)
(* which the code never arms the timerfd.  Timers live at addresses that   *)
(* are reused; a freed address keeps its content until then.               *)
(***************************************************************************)
EXTENDS Naturals, Sequences

CONSTANTS LoopThread, Caller,   \* the thread of the loop, and the others
          Addr,                 \* addresses of timers, natural numbers
          NoAddr,               \* stands for "no addTimer() is under way"
          Interval,             \* interval_: 0 for a timer that runs once
          MaxTime,              \* bound: the clock stops there
          MaxCreated,           \* bound: timers created
          MaxQueue              \* bound: functors queued

ASSUME TimerThreadAssumption == LoopThread \notin Caller
ASSUME TimerAddrAssumption == Addr \subseteq Nat /\ NoAddr \notin Addr
ASSUME TimerBoundAssumption ==
    /\ Interval \subseteq Nat
    /\ MaxTime \in Nat /\ MaxCreated \in Nat /\ MaxQueue \in Nat

VARIABLES
    clock,          \* Timestamp::now()
    live,           \* addresses where a Timer exists
    expiration, interval, sequence,     \* expiration_ etc. of the Timer at each address
    created,        \* Timer::s_numCreated_
    timers_, activeTimers_, callingExpiredTimers_, cancelingTimers_,
    armed,          \* expiration of the timerfd, 0 when it is not armed
    ready,          \* epoll_wait has reported the timerfd, not dispatched yet
    pc,             \* handleRead(): idle, expired (between two timers), callback
    now, expired,   \* its locals
    left,           \* the part of expired that has not run
    queue,          \* functors of other threads, not run yet
    call,           \* the timer a thread in addTimer() has handed to the loop
    ids,            \* the TimerIds the program has been given
    cancelled       \* history: sequences of the timers that cancelInLoop() found

heap == <<live, expiration, interval, sequence>>
timers == <<heap, created, timers_, activeTimers_, armed>>
handler == <<callingExpiredTimers_, ready, pc, now, expired, left>>
vars == <<clock, timers, cancelingTimers_, handler, queue, call, ids, cancelled>>

Thread == Caller \cup {LoopThread}
Id == Addr \X Nat       \* a TimerId: timer_ and sequence_
NotArmed == 0

TypeOK ==
    /\ clock \in Nat
    /\ live \subseteq Addr
    /\ expiration \in [Addr -> Nat] /\ interval \in [Addr -> Nat] /\ sequence \in [Addr -> Nat]
    /\ created \in Nat
    /\ timers_ \subseteq Nat \X Addr
    /\ activeTimers_ \subseteq Id
    /\ callingExpiredTimers_ \in BOOLEAN
    /\ cancelingTimers_ \subseteq Id
    /\ armed \in Nat /\ ready \in BOOLEAN
    /\ pc \in {"idle", "expired", "callback"}
    /\ now \in Nat
    /\ expired \subseteq Addr /\ left \subseteq expired
    /\ queue \in Seq([op : {"add", "cancel"}, id : Id])
    /\ call \in [Caller -> Addr \cup {NoAddr}]
    /\ ids \subseteq Id
    /\ cancelled \subseteq Nat

Init ==
    /\ clock = 0
    /\ live = {}
    /\ expiration = [a \in Addr |-> 0] /\ interval = [a \in Addr |-> 0]
    /\ sequence = [a \in Addr |-> 0]
    /\ created = 0
    /\ timers_ = {} /\ activeTimers_ = {}
    /\ callingExpiredTimers_ = FALSE /\ cancelingTimers_ = {}
    /\ armed = NotArmed /\ ready = FALSE
    /\ pc = "idle" /\ now = 0 /\ expired = {} /\ left = {}
    /\ queue = <<>>
    /\ call = [t \in Caller |-> NoAddr]
    /\ ids = {}
    /\ cancelled = {}

-------------------------------------------------------------------------------
(* Time and the timerfd. *)

Tick == /\ clock < MaxTime
        /\ clock' = clock + 1
        /\ UNCHANGED <<timers, cancelingTimers_, handler, queue, call, ids, cancelled>>

\* resetTimerfd(): never less than 100 microseconds ahead.
ArmAt(when) == IF when > clock THEN when ELSE clock + 1

Readable == armed # NotArmed /\ armed <= clock

-------------------------------------------------------------------------------
(* In the loop thread, on behalf of anyone. *)

\* Mutation: only a first timer arms the timerfd.
InsertArmsFirst(a, when, seq) ==
    /\ timers_' = timers_ \cup {<<when, a>>}
    /\ activeTimers_' = activeTimers_ \cup {<<a, seq>>}
    /\ armed' = IF timers_ = {} THEN ArmAt(when) ELSE armed

\* Mutation: the entry is put together the wrong way round.
InsertSwapped(a, when, seq) ==
    /\ timers_' = timers_ \cup {<<a, when>>}
    /\ activeTimers_' = activeTimers_ \cup {<<a, seq>>}
    /\ armed' = IF \A e \in timers_ : when < e[1] THEN ArmAt(when) ELSE armed

\* addTimerInLoop() and insert().
AddTimerInLoop(a, when, seq) ==
    /\ timers_' = timers_ \cup {<<when, a>>}
    /\ activeTimers_' = activeTimers_ \cup {<<a, seq>>}
    /\ armed' = IF \A e \in timers_ : when < e[1] THEN ArmAt(when) ELSE armed

\* The timer named by id waits, or has expired and is not deleted yet.
Known(id) == \/ id \in activeTimers_
             \/ id[1] \in expired /\ sequence[id[1]] = id[2]

\* Mutation: a timer that is running cannot be cancelled.
MarkNothing(id) == cancelingTimers_

\* cancelingTimers_ after the cancel of a timer that does not wait.
Mark(id) == IF callingExpiredTimers_ THEN cancelingTimers_ \cup {id} ELSE cancelingTimers_

\* cancelInLoop(): a timer that is waiting is deleted, one that has expired is
\* marked, anything else is ignored.
CancelInLoop(id) ==
    /\ IF id \in activeTimers_
         THEN /\ timers_' = timers_ \ {<<expiration[id[1]], id[1]>>}
              /\ activeTimers_' = activeTimers_ \ {id}
              /\ live' = live \ {id[1]}
              /\ UNCHANGED cancelingTimers_
         ELSE /\ cancelingTimers_' = Mark(id)
              /\ UNCHANGED <<timers_, activeTimers_, live>>
    /\ cancelled' = IF Known(id) THEN cancelled \cup {id[2]} ELSE cancelled
    /\ UNCHANGED <<expiration, interval, sequence, created, armed>>

\* doPendingFunctors(), one functor: after the handlers of the round.
RunFunctor ==
    /\ pc = "idle" /\ ~ready /\ queue # <<>>
    /\ LET f == Head(queue) IN
       \/ /\ f.op = "add"
          /\ AddTimerInLoop(f.id[1], expiration[f.id[1]], f.id[2])
          /\ UNCHANGED <<heap, created, cancelingTimers_, cancelled>>
       \/ f.op = "cancel" /\ CancelInLoop(f.id)
    /\ queue' = Tail(queue)
    /\ UNCHANGED <<clock, handler, call, ids>>

-------------------------------------------------------------------------------
(* The timerfd is readable: epoll_wait, later handleRead(). *)

Poll ==
    /\ pc = "idle" /\ Readable /\ ~ready
    /\ ready' = TRUE
    /\ UNCHANGED <<clock, timers, cancelingTimers_, callingExpiredTimers_, pc, now, expired,
                   left, queue, call, ids, cancelled>>

\* Mutation: expired timers stay in activeTimers_, where a cancel() finds them.
StillActiveAll(gone) == activeTimers_

\* activeTimers_ after getExpired().
StillActive(gone) == {i \in activeTimers_ : i[1] \notin gone}

\* handleRead() up to the first callback: readTimerfd(), which finds nothing to read
\* if a handler before it armed the timerfd again, and getExpired().
HandleRead ==
    /\ pc = "idle" /\ ready
    /\ armed' = IF Readable THEN NotArmed ELSE armed
    /\ expired' = {a \in Addr : \E t \in 0 .. clock : <<t, a>> \in timers_}
    /\ left' = expired'
    /\ timers_' = {e \in timers_ : e[1] > clock}
    /\ activeTimers_' = StillActive(expired')
    /\ now' = clock
    /\ callingExpiredTimers_' = TRUE /\ cancelingTimers_' = {}
    /\ ready' = FALSE
    /\ pc' = "expired"
    /\ UNCHANGED <<clock, heap, created, queue, call, ids, cancelled>>

\* Order of the entries of timers_: by expiration, then by address.
Before(a, b) == \/ expiration[a] < expiration[b]
                \/ expiration[a] = expiration[b] /\ a < b

\* it->second->run().
RunTimer(a) ==
    /\ pc = "expired" /\ a \in left
    /\ \A b \in left \ {a} : Before(a, b)
    /\ left' = left \ {a}
    /\ pc' = "callback"
    /\ UNCHANGED <<clock, timers, cancelingTimers_, callingExpiredTimers_, ready, now, expired,
                   queue, call, ids, cancelled>>

CallbackReturn ==
    /\ pc = "callback"
    /\ pc' = "expired"
    /\ UNCHANGED <<clock, timers, cancelingTimers_, callingExpiredTimers_, ready, now, expired,
                   left, queue, call, ids, cancelled>>

\* The expired timers that reset() starts again.
Again == {a \in expired : /\ interval[a] > 0
                          /\ <<a, sequence[a]>> \notin cancelingTimers_}

\* Mutation: a repeating timer that was cancelled is dropped without being deleted.
DeletesLeak == {a \in expired \ Again : interval[a] = 0}

\* The expired timers that reset() deletes.
Deletes == expired \ Again

\* Mutation: reset() forgets to arm the timerfd.
RearmNothing == UNCHANGED armed

\* The end of reset(): an expiration of 0 is no valid Timestamp and arms nothing.
Rearm == \/ timers_' = {} /\ UNCHANGED armed
         \/ \E e \in timers_' :
              /\ \A x \in timers_' : e[1] <= x[1]
              /\ armed' = IF e[1] = 0 THEN armed ELSE ArmAt(e[1])

\* The end of handleRead(): reset().
Reset ==
    /\ pc = "expired" /\ left = {}
    /\ live' = live \ Deletes
    /\ expiration' = [a \in Addr |-> IF a \in Again THEN now + interval[a] ELSE expiration[a]]
    /\ timers_' = timers_ \cup {<<now + interval[a], a>> : a \in Again}
    /\ activeTimers_' = activeTimers_ \cup {<<a, sequence[a]>> : a \in Again}
    /\ Rearm
    /\ callingExpiredTimers_' = FALSE
    /\ pc' = "idle" /\ expired' = {}
    /\ UNCHANGED <<clock, interval, sequence, created, cancelingTimers_, ready, now, left,
                   queue, call, ids, cancelled>>

-------------------------------------------------------------------------------
(* What the program calls. *)

\* new Timer(...), at an address that is free.
NewTimer(a, when, period) ==
    /\ created < MaxCreated
    /\ a \notin live
    /\ created' = created + 1
    /\ live' = live \cup {a}
    /\ expiration' = [expiration EXCEPT ![a] = when]
    /\ interval' = [interval EXCEPT ![a] = period]
    /\ sequence' = [sequence EXCEPT ![a] = created + 1]

\* addTimer() in the loop thread, from a callback, a functor or another handler.
AddTimer(a, when, period) ==
    /\ pc \in {"idle", "callback"}
    /\ NewTimer(a, when, period)
    /\ AddTimerInLoop(a, when, created + 1)
    /\ ids' = ids \cup {<<a, created + 1>>}
    /\ UNCHANGED <<clock, cancelingTimers_, handler, queue, call, cancelled>>

\* addTimer() in another thread: the timer is handed over with runInLoop() ...
QueueTimer(th, a, when, period) ==
    /\ call[th] = NoAddr
    /\ Len(queue) < MaxQueue
    /\ NewTimer(a, when, period)
    /\ queue' = Append(queue, [op |-> "add", id |-> <<a, created + 1>>])
    /\ call' = [call EXCEPT ![th] = a]
    /\ UNCHANGED <<clock, timers_, activeTimers_, armed, cancelingTimers_, handler, ids, cancelled>>

\* ... and then its sequence is read for the TimerId.  If the timer is gone, what is
\* read is what the memory holds: the old content, or that of the next timer there.
ReturnId(th) ==
    /\ call[th] # NoAddr
    /\ ids' = ids \cup {<<call[th], sequence[call[th]]>>}
    /\ call' = [call EXCEPT ![th] = NoAddr]
    /\ UNCHANGED <<clock, timers, cancelingTimers_, handler, queue, cancelled>>

\* cancel() in the loop thread.
Cancel(id) ==
    /\ pc \in {"idle", "callback"}
    /\ CancelInLoop(id)
    /\ UNCHANGED <<clock, handler, queue, call, ids>>

\* cancel() in another thread.
QueueCancel(th, id) ==
    /\ call[th] = NoAddr
    /\ Len(queue) < MaxQueue
    /\ queue' = Append(queue, [op |-> "cancel", id |-> id])
    /\ UNCHANGED <<clock, timers, cancelingTimers_, handler, call, ids, cancelled>>

-------------------------------------------------------------------------------
LoopStep == \/ RunFunctor \/ Poll \/ HandleRead
            \/ \E a \in Addr : RunTimer(a)
            \/ CallbackReturn \/ Reset

UserStep == \/ \E a \in Addr, when \in 0 .. MaxTime, period \in Interval :
                  \/ AddTimer(a, when, period)
                  \/ \E th \in Caller : QueueTimer(th, a, when, period)
            \/ \E th \in Caller : ReturnId(th)
            \/ \E id \in ids : Cancel(id) \/ \E th \in Caller : QueueCancel(th, id)

Next == Tick \/ LoopStep \/ UserStep

Safety == Init /\ [][Next]_vars

(***************************************************************************)
(* Time passes, the loop goes round (EventLoop: LoopPolls, NoLostWakeup)   *)
(* and callbacks return.  Nothing is assumed of the program.               *)
(***************************************************************************)
Fairness ==
    /\ WF_vars(Tick)
    /\ WF_vars(RunFunctor) /\ WF_vars(Poll) /\ WF_vars(HandleRead)
    /\ WF_vars(\E a \in Addr : RunTimer(a))
    /\ WF_vars(CallbackReturn) /\ WF_vars(Reset)
    /\ \A th \in Caller : WF_vars(ReturnId(th))

Spec == Safety /\ Fairness

-------------------------------------------------------------------------------
(* Properties. *)

\* The two sets hold the same timers, each once and under its own expiration and
\* sequence: the assertions on their sizes and on what erase() and insert() return.
SetsAgree ==
    /\ \A e \in timers_ : e[1] = expiration[e[2]] /\ <<e[2], sequence[e[2]]>> \in activeTimers_
    /\ \A i \in activeTimers_ : i[2] = sequence[i[1]] /\ <<expiration[i[1]], i[1]>> \in timers_

Waiting(a) == \E i \in activeTimers_ : i[1] = a
Queued(a) == \E n \in 1 .. Len(queue) : queue[n].op = "add" /\ queue[n].id[1] = a

\* A timer that exists is owned by exactly one of: a functor that will add it, the
\* two sets, the handleRead() that runs it.  None is leaked, deleted twice, or run
\* after it was deleted, whatever callbacks cancel.
OwnedOnce ==
    \A a \in Addr :
        /\ a \in live <=> Queued(a) \/ Waiting(a) \/ a \in expired
        /\ ~(Queued(a) /\ Waiting(a)) /\ ~(Queued(a) /\ a \in expired)
        /\ ~(Waiting(a) /\ a \in expired)

\* Outside handleRead(), a timerfd with timers is armed, and no later than the
\* earliest of them, or the least the code arms it for.
ArmedForEarliest ==
    pc = "idle" => \A e \in timers_ :
        armed # NotArmed /\ (armed <= e[1] \/ armed <= clock + 1)

\* A timer the loop knew when it was cancelled never waits again, not even one that
\* repeats and was cancelled by a callback that ran together with it.
CancelSticks == pc = "idle" => \A i \in activeTimers_ : i[2] \notin cancelled

\* The timerfd is armed for a time the clock does not reach.
TimeUp == clock = MaxTime /\ armed > clock

\* A timer that waits runs when its time has come, or is cancelled.
TimersRun ==
    \A a \in Addr, t \in 0 .. MaxTime :
        <<t, a>> \in timers_ ~> <<t, a>> \notin timers_ \/ TimeUp

\* "Safe to call from other threads" (EventLoop.h:82): while a thread is still in
\* addTimer(), the timer whose sequence it is about to read exists.
SequenceOfLiveTimer == \A th \in Caller : call[th] # NoAddr => call[th] \in live
===============================================================================
