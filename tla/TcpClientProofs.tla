----------------------------- MODULE TcpClientProofs -----------------------------
(***************************************************************************)
(* Theorems about TcpClient, for any threads and bounds: type correctness, *)
(* the one connection of a client, that it never gives up by itself, and   *)
(* that its retries do not multiply.                                       *)
(***************************************************************************)
EXTENDS TcpClient, SequenceLemmas, FiniteSetTheorems, TLAPS

\* What connectState_ says of the descriptor and of the link.  A socket that is
\* connecting without a descriptor has met a hopeless error; one that is connected
\* without a link is not used again.
StateInv ==
    /\ polled => connectState_ = "Connecting"
    /\ link # "none" => connectState_ = "Connected"
    /\ connectState_ = "Connecting" /\ ~polled => status = "hopeless"
    /\ connectState_ = "Connected" /\ link = "none" => status = "dropped"

ClientInv == OneConnection /\ NeverGivesUp /\ StateInv

\* A client that was just constructed.
LEMMA ClientInit == Init => TypeOK /\ ClientInv
<1> SUFFICES ASSUME Init PROVE TypeOK /\ ClientInv
    OBVIOUS
<1>1. <<>> \in Seq({"start", "stop"}) /\ [t \in Thread |-> "idle"] \in [Thread -> Call]
    BY DEF Call
<1>2. TypeOK
    BY <1>1 DEF Init, TypeOK
<1>3. ClientInv
    BY DEF Init, ClientInv, OneConnection, NeverGivesUp, StateInv
<1>4. QED
    BY <1>2, <1>3

\* The descriptors that are open, case by case.
LEMMA OpenCount ==
    ASSUME TypeOK, ClientInv
    PROVE  /\ polled => link = "none" /\ open = 1
           /\ link # "none" => ~polled /\ open = 1
           /\ ~polled /\ link = "none" => open = 0
  BY DEF TypeOK, ClientInv, OneConnection, StateInv

\* connect() of a socket that has no descriptor, when there is no link.
LEMMA ConnectKeeps ==
    ASSUME NEW outcome \in Outcome, NEW n \in Nat, Connect(outcome, n, 0), link' = "none"
    PROVE  /\ ClientInv'
           /\ connectState_' \in {"Stopped", "Connecting", "Connected"} /\ polled' \in BOOLEAN
           /\ timers' \in Nat /\ open' \in Nat
           /\ status' \in {"unstarted", "trying", "stopped", "hopeless", "dropped"}
<1> USE DEF ClientInv, OneConnection, NeverGivesUp, StateInv
<1>1. CASE outcome = "pending"
    BY <1>1 DEF Connect
<1>2. CASE outcome = "refused"
  <2>1. ~polled' /\ polled' \in BOOLEAN
      BY <1>2 DEF Connect, Retry
  <2>2. connectState_' = "Stopped" /\ timers' = n + 1 /\ open' = 0 /\ status' = "trying"
      BY <1>2 DEF Connect, Retry, RunAfter
  <2>3. QED
      BY <2>1, <2>2
<1>3. CASE outcome = "hopeless"
  <2>1. ~polled' /\ polled' \in BOOLEAN
      BY <1>3 DEF Connect, Hopeless
  <2>2. connectState_' = "Connecting" /\ timers' = n /\ open' = 0 /\ status' = "hopeless"
      BY <1>3 DEF Connect, Hopeless
  <2>3. QED
      BY <2>1, <2>2
<1>4. QED
    BY <1>1, <1>2, <1>3 DEF Outcome

\* startInLoop(), by a functor, in the loop thread, or by one of the timers.
LEMMA StartKeeps ==
    ASSUME TypeOK, ClientInv, NEW outcome \in Outcome, NEW n \in Nat,
           n = timers \/ n = timers - 1,
           StartInLoop(outcome, n), UNCHANGED link
    PROVE  /\ ClientInv'
           /\ connectState_' \in {"Stopped", "Connecting", "Connected"} /\ polled' \in BOOLEAN
           /\ timers' \in Nat /\ open' \in Nat
           /\ status' \in {"unstarted", "trying", "stopped", "hopeless", "dropped"}
<1>1. CASE MayStart
  <2>1. ~polled /\ link = "none" /\ open = 0
      BY <1>1, OpenCount DEF MayStart, ClientInv, StateInv
  <2>2. Connect(outcome, n, 0)
      BY <1>1, <2>1 DEF StartInLoop
  <2>3. QED
      BY <2>1, <2>2, ConnectKeeps
<1>2. CASE ~MayStart
  <2>1. /\ timers' = n /\ UNCHANGED <<connectState_, polled, open, status, link>>
        /\ connectState_ # "Stopped"
      BY <1>2 DEF StartInLoop, MayStart
  <2>2. QED
      BY <2>1 DEF TypeOK, ClientInv, OneConnection, NeverGivesUp, StateInv
<1>3. QED
    BY <1>1, <1>2

\* What a step of another thread, or of the loop thread between two handlers, leaves
\* alone.
LEMMA CallKeeps ==
    ASSUME ClientInv, UNCHANGED <<socket, link>>
    PROVE  ClientInv'
  BY DEF ClientInv, OneConnection, NeverGivesUp, StateInv, socket

\* Every step of TcpClient.cpp and ConnectSocket.cpp keeps the invariant.
LEMMA ClientNext ==
    ASSUME TypeOK, ClientInv, [Next]_vars
    PROVE  TypeOK' /\ ClientInv'
<1> DEFINE S == {"start", "stop"}
<1>1. CASE UNCHANGED vars
    BY <1>1, CallKeeps DEF TypeOK, vars, socket
<1>2. CASE RunFunctor
  <2>1. queue' \in Seq(S)
    <3>1. queue \in Seq(S) /\ queue # <<>> /\ queue' = Tail(queue)
        BY <1>2 DEF TypeOK, RunFunctor
    <3> HIDE DEF S
    <3>2. QED
        BY <3>1
  <2>2. UNCHANGED <<retry_, connect_, link, call, calls, undefined>>
      BY <1>2 DEF RunFunctor
  <2>3. ASSUME NEW outcome \in Outcome, StartInLoop(outcome, timers) PROVE TypeOK' /\ ClientInv'
    <3>1. timers \in Nat
        BY DEF TypeOK
    <3>2. QED
        BY <2>1, <2>2, <2>3, <3>1, StartKeeps DEF TypeOK
  <2>4. CASE StopInLoop
    <3>1. CASE connectState_ = "Connecting"
      <4>1. link = "none" /\ open' = 0
          BY <2>4, <3>1, OpenCount DEF StopInLoop, ClientInv, StateInv
      <4>2. ~polled' /\ polled' \in BOOLEAN
          BY <2>4, <3>1 DEF StopInLoop
      <4>3. connectState_' = "Stopped" /\ status' = "stopped" /\ timers' = timers
          BY <2>4, <3>1 DEF StopInLoop
      <4>4. QED
          BY <2>1, <2>2, <4>1, <4>2, <4>3 DEF TypeOK, ClientInv, OneConnection, NeverGivesUp,
                                             StateInv
    <3>2. CASE connectState_ # "Connecting"
        BY <2>1, <2>2, <2>4, <3>2, CallKeeps DEF StopInLoop, socket, TypeOK
    <3>3. QED
        BY <3>1, <3>2
  <2>5. QED
      BY <1>2, <2>3, <2>4 DEF RunFunctor
<1>3. CASE AttemptFails
  <2>1. link = "none" /\ open' = 0
      BY <1>3, OpenCount DEF AttemptFails
  <2>2. timers' \in Nat /\ timers' > 0
      BY <1>3 DEF AttemptFails, Retry, RunAfter, TypeOK
  <2>3. ~polled' /\ polled' \in BOOLEAN
      BY <1>3 DEF AttemptFails, Retry
  <2>4. /\ connectState_' = "Stopped"
        /\ UNCHANGED <<status, retry_, connect_, link, queue, call, calls, undefined>>
      BY <1>3 DEF AttemptFails, Retry
  <2>5. QED
      BY <2>1, <2>2, <2>3, <2>4 DEF TypeOK, ClientInv, OneConnection, NeverGivesUp, StateInv
<1>4. CASE AttemptSucceeds
  <2>1. link = "none" /\ open = 1
      BY <1>4, OpenCount DEF AttemptSucceeds
  <2>2. ~polled' /\ polled' \in BOOLEAN
      BY <1>4 DEF AttemptSucceeds
  <2>3. /\ connectState_' = "Connected" /\ link' = "up"
        /\ UNCHANGED <<open, timers, status, retry_, connect_, queue, call, calls, undefined>>
      BY <1>4 DEF AttemptSucceeds
  <2>4. QED
      BY <2>1, <2>2, <2>3 DEF TypeOK, ClientInv, OneConnection, NeverGivesUp, StateInv
<1>5. ASSUME NEW outcome \in Outcome, RetryTimer(outcome) PROVE TypeOK' /\ ClientInv'
  <2>1. timers - 1 \in Nat
      BY <1>5 DEF RetryTimer, TimerWaits, TypeOK
  <2>2. QED
      BY <1>5, <2>1, StartKeeps DEF RetryTimer, TypeOK
<1>6. ASSUME NEW outcome \in Outcome, LinkEnds(outcome) PROVE TypeOK' /\ ClientInv'
  <2>1. ~polled /\ open - 1 = 0 /\ connectState_ = "Connected" /\ timers \in Nat
      BY <1>6, OpenCount DEF LinkEnds, ClientInv, StateInv, TypeOK
  <2>2. link' = "none" /\ UNCHANGED <<retry_, connect_, queue, call, calls, undefined>>
      BY <1>6 DEF LinkEnds
  <2>3. CASE Restart(outcome)
      BY <2>1, <2>2, <2>3, ConnectKeeps DEF Restart, TypeOK
  <2>4. CASE open' = open - 1 /\ status' = "dropped" /\ UNCHANGED <<connectState_, polled, timers>>
      BY <2>1, <2>2, <2>4 DEF TypeOK, ClientInv, OneConnection, NeverGivesUp, StateInv
  <2>5. QED
      BY <1>6, <2>3, <2>4 DEF LinkEnds
<1>7. CASE EnableRetry
    BY <1>7, CallKeeps DEF EnableRetry, TypeOK, socket
<1>8. ASSUME NEW th \in Thread, NEW what \in Call, Begin(th, what) PROVE TypeOK' /\ ClientInv'
    BY <1>8, CallKeeps DEF Begin, TypeOK, socket
<1>9. ASSUME NEW th \in Thread, NEW outcome \in Outcome, Start(th, outcome)
      PROVE  TypeOK' /\ ClientInv'
  <2>1. call' \in [Thread -> Call] /\ UNCHANGED <<retry_, connect_, link, calls, undefined>>
      BY <1>9 DEF Start, TypeOK, Call
  <2>2. CASE th = LoopThread
    <3>1. StartInLoop(outcome, timers) /\ UNCHANGED queue /\ timers \in Nat
        BY <1>9, <2>2 DEF Start, TypeOK
    <3>2. QED
        BY <2>1, <3>1, StartKeeps DEF TypeOK
  <2>3. CASE th # LoopThread
    <3>1. queue' = Append(queue, "start") /\ UNCHANGED socket
        BY <1>9, <2>3 DEF Start
    <3>2. QED
        BY <2>1, <3>1, CallKeeps DEF TypeOK, socket
  <2>4. QED
      BY <2>2, <2>3
<1>10. ASSUME NEW th \in Thread, Stop(th) PROVE TypeOK' /\ ClientInv'
    BY <1>10, CallKeeps DEF Stop, TypeOK, socket, Call
<1>11. ASSUME NEW th \in Thread, FindLink(th) PROVE TypeOK' /\ ClientInv'
    BY <1>11, CallKeeps DEF FindLink, TypeOK, socket, Call
<1>12. ASSUME NEW th \in Thread, ShutdownLink(th) PROVE TypeOK' /\ ClientInv'
    BY <1>12 DEF ShutdownLink, TypeOK, socket, Call, ClientInv, OneConnection, NeverGivesUp,
                 StateInv
<1>13. QED
    BY <1>1, <1>2, <1>3, <1>4, <1>5, <1>6, <1>7, <1>8, <1>9, <1>10, <1>11, <1>12
       DEF Next, LoopStep, CallStep

-------------------------------------------------------------------------------
\* Every reachable state of a client is well typed.
THEOREM ClientTypeCorrect == Safety => []TypeOK
<1>1. QED
    BY ClientInit, ClientNext, PTL DEF Safety

\* connect(), restart() and the retry timers never leave a client with two descriptors, or
\* with one it has lost sight of.
THEOREM OneConnectionHolds == Safety => []OneConnection
<1>1. ClientInv => OneConnection
    BY DEF ClientInv
<1>2. QED
    BY <1>1, ClientInit, ClientNext, PTL DEF Safety

\* A client whose last attempt was to be tried again has a link, an attempt, or a timer.
THEOREM NeverGivesUpHolds == Safety => []NeverGivesUp
<1>1. ClientInv => NeverGivesUp
    BY DEF ClientInv
<1>2. QED
    BY <1>1, ClientInit, ClientNext, PTL DEF Safety

-------------------------------------------------------------------------------
(* Every chain of attempts, each the retry of the one before, began with a  *)
(* call of connect().                                                       *)

\* Where a functor that will start the socket is queued, and the threads that are about
\* to queue one or to start the socket themselves.
Starts(q) == {i \in 1 .. Len(q) : q[i] = "start"}
Connecting == {t \in Thread : call[t] = "connect"}

Active == IF connectState_ = "Stopped" THEN 0 ELSE 1

\* A chain is a timer, an attempt or a link, or is still to begin.
ChainInv ==
    /\ IsFiniteSet(Connecting)
    /\ timers + Active + Cardinality(Starts(queue)) + Cardinality(Connecting) <= calls

Functors == {"start", "stop"}

LEMMA StartsAreFinite ==
    ASSUME NEW q \in Seq(Functors)
    PROVE  IsFiniteSet(Starts(q)) /\ Cardinality(Starts(q)) \in Nat
<1>1. IsFiniteSet(1 .. Len(q))
    BY FS_Interval
<1>2. Starts(q) \in SUBSET (1 .. Len(q))
    BY DEF Starts
<1>3. QED
    BY <1>1, <1>2, FS_Subset, FS_CardinalityType

LEMMA StartsOfAppend ==
    ASSUME NEW q \in Seq(Functors), NEW f \in Functors
    PROVE  Cardinality(Starts(Append(q, f))) =
              Cardinality(Starts(q)) + (IF f = "start" THEN 1 ELSE 0)
<1> DEFINE r == Append(q, f)
<1>1. /\ Len(r) = Len(q) + 1 /\ Len(q) \in Nat
      /\ \A i \in 1 .. Len(q) : r[i] = q[i]
      /\ r[Len(q) + 1] = f
    OBVIOUS
<1> HIDE DEF r
<1>2. CASE f = "start"
  <2>1. Starts(r) = Starts(q) \cup {Len(q) + 1}
      BY <1>1, <1>2 DEF Starts
  <2>2. Len(q) + 1 \notin Starts(q)
      BY <1>1 DEF Starts
  <2>3. QED
      BY <1>2, <2>1, <2>2, StartsAreFinite, FS_AddElement DEF r
<1>3. CASE f # "start"
  <2>1. Starts(r) = Starts(q)
      BY <1>1, <1>3 DEF Starts
  <2>2. QED
      BY <1>3, <2>1, StartsAreFinite DEF r
<1>4. QED
    BY <1>2, <1>3

LEMMA StartsOfTail ==
    ASSUME NEW q \in Seq(Functors), q # <<>>
    PROVE  Cardinality(Starts(Tail(q))) <=
              Cardinality(Starts(q)) - (IF Head(q) = "start" THEN 1 ELSE 0)
<1> DEFINE r == Tail(q)
           shift == [i \in Starts(r) |-> i + 1]
<1>1. /\ Len(q) \in Nat /\ Len(q) >= 1 /\ Len(r) = Len(q) - 1
      /\ \A i \in 1 .. Len(r) : r[i] = q[i + 1]
      /\ Head(q) = q[1]
    OBVIOUS
<1> HIDE DEF r
<1>2. shift \in Injection(Starts(r), Starts(q) \ {1})
  <2>1. ASSUME NEW i \in Starts(r) PROVE i \in Nat /\ i + 1 \in Starts(q) \ {1}
      BY <1>1 DEF Starts
  <2>2. \A i, j \in Starts(r) : shift[i] = shift[j] => i = j
      BY <2>1
  <2>3. QED
      BY <2>1, <2>2 DEF Injection, IsInjective
<1>3. IsFiniteSet(Starts(q) \ {1}) /\ Cardinality(Starts(q) \ {1}) =
          IF 1 \in Starts(q) THEN Cardinality(Starts(q)) - 1 ELSE Cardinality(Starts(q))
    BY StartsAreFinite, FS_RemoveElement
<1>4. Cardinality(Starts(r)) <= Cardinality(Starts(q) \ {1})
    BY <1>2, <1>3, FS_Injection
<1>5. 1 \in Starts(q) <=> Head(q) = "start"
    BY <1>1 DEF Starts
<1>6. QED
    BY <1>3, <1>4, <1>5, StartsAreFinite DEF r

\* Starting the socket adds a timer or makes it active, and not both.
LEMMA StartAddsOne ==
    ASSUME NEW outcome \in Outcome, NEW n \in Nat, StartInLoop(outcome, n)
    PROVE  timers' \in Nat /\ timers' + Active' <= n + 1
                           /\ (connectState_ # "Stopped" => timers' + Active' <= n + Active)
<1>1. CASE MayStart
  <2>1. CASE outcome = "pending"
      BY <1>1, <2>1 DEF StartInLoop, MayStart, Connect, Active
  <2>2. CASE outcome = "refused"
      BY <1>1, <2>2 DEF StartInLoop, MayStart, Connect, Retry, RunAfter, Active
  <2>3. CASE outcome = "hopeless"
      BY <1>1, <2>3 DEF StartInLoop, MayStart, Connect, Hopeless, Active
  <2>4. QED
      BY <2>1, <2>2, <2>3 DEF Outcome
<1>2. CASE ~MayStart
    BY <1>2 DEF StartInLoop, MayStart, Active
<1>3. QED
    BY <1>1, <1>2

LEMMA ChainInit == Init => ChainInv
<1> SUFFICES ASSUME Init PROVE ChainInv
    OBVIOUS
<1>1. Connecting = {} /\ Starts(queue) = {}
    BY DEF Init, Connecting, Starts
<1>2. timers = 0 /\ Active = 0 /\ calls = 0
    BY DEF Init, Active
<1>3. QED
    BY <1>1, <1>2, FS_EmptySet DEF ChainInv

\* The numbers of ChainInv.
LEMMA ChainNumbers ==
    ASSUME TypeOK, ChainInv
    PROVE  /\ timers \in Nat /\ Active \in Nat /\ calls \in Nat
           /\ Cardinality(Starts(queue)) \in Nat /\ Cardinality(Connecting) \in Nat
           /\ queue \in Seq(Functors)
<1>1. queue \in Seq(Functors)
    BY DEF TypeOK, Functors
<1>2. QED
    BY <1>1, StartsAreFinite, FS_CardinalityType DEF ChainInv, TypeOK, Active

\* A thread begins or ends its part in connect().
LEMMA ConnectingChanges ==
    ASSUME TypeOK, ChainInv, NEW th \in Thread, NEW c \in Call,
           call' = [call EXCEPT ![th] = c]
    PROVE  /\ IsFiniteSet(Connecting')
           /\ call[th] # "connect" /\ c # "connect" => Cardinality(Connecting') = Cardinality(Connecting)
           /\ call[th] # "connect" /\ c = "connect" => Cardinality(Connecting') = Cardinality(Connecting) + 1
           /\ call[th] = "connect" /\ c # "connect" => Cardinality(Connecting') = Cardinality(Connecting) - 1
<1>1. call \in [Thread -> Call] /\ IsFiniteSet(Connecting)
    BY DEF TypeOK, ChainInv
<1>2. CASE c = "connect"
  <2>1. Connecting' = Connecting \cup {th}
      BY <1>1, <1>2 DEF Connecting
  <2>2. call[th] # "connect" => th \notin Connecting
      BY DEF Connecting
  <2>3. QED
      BY <1>1, <1>2, <2>1, <2>2, FS_AddElement
<1>3. CASE c # "connect"
  <2>1. Connecting' = Connecting \ {th}
      BY <1>1, <1>3 DEF Connecting
  <2>2. th \in Connecting <=> call[th] = "connect"
      BY DEF Connecting
  <2>3. QED
      BY <1>1, <1>3, <2>1, <2>2, FS_RemoveElement
<1>4. QED
    BY <1>2, <1>3

\* A step that leaves the queue and the callers alone, and has no more chains after it.
LEMMA SocketStepKeeps ==
    ASSUME TypeOK, ChainInv, UNCHANGED <<queue, call, calls>>,
           timers' \in Nat, timers' + Active' <= timers + Active
    PROVE  ChainInv'
<1>1. Connecting' = Connecting /\ Starts(queue)' = Starts(queue) /\ calls' = calls
    BY DEF Connecting, Starts
<1>2. Active' \in Nat
    BY DEF Active
<1>3. ASSUME NEW t \in Nat, NEW a \in Nat, NEW u \in Nat, NEW b \in Nat, NEW s \in Nat,
             NEW c \in Nat, NEW n \in Nat, t + a + s + c <= n, u + b <= t + a
      PROVE  u + b + s + c <= n
    BY <1>3
<1>4. timers' + Active' + Cardinality(Starts(queue)) + Cardinality(Connecting) <= calls
    BY <1>2, <1>3, ChainNumbers DEF ChainInv
<1>5. QED
    BY <1>1, <1>4 DEF ChainInv

\* A chain that begins for the socket was one of the queue or of a caller before.
LEMMA ChainsMove ==
    ASSUME NEW t \in Int, NEW a \in Int, NEW s \in Int, NEW c \in Int, NEW n \in Int,
           NEW u \in Int, NEW b \in Int, NEW r \in Int, NEW d \in Int, NEW k \in Int,
           t + a + s + c <= n, u + b <= t + a + k, r + d <= s + c - k
    PROVE  u + b + r + d <= n
  OBVIOUS

\* A socket that is started has a timer or is active, whatever it had before.
LEMMA OneMore ==
    ASSUME NEW t \in Nat, NEW a \in Nat, NEW u \in Nat, NEW b \in Nat, u + b <= t + 1
    PROVE  u + b <= t + a + 1
  OBVIOUS

LEMMA NatIsInt == \A n \in Nat : n \in Int
  OBVIOUS

LEMMA SameNumber ==
    ASSUME NEW t \in Nat, NEW a \in Nat, NEW u \in Nat, NEW b \in Nat, u + b <= t - 1 + 1
    PROVE  u + b <= t + a
  OBVIOUS

\* No step begins a chain but the call of connect().
LEMMA ChainNext ==
    ASSUME TypeOK, ClientInv, ChainInv, [Next]_vars
    PROVE  ChainInv'
<1> DEFINE starts == Cardinality(Starts(queue))
           connecting == Cardinality(Connecting)
<1>nat. /\ timers \in Nat /\ Active \in Nat /\ calls \in Nat /\ starts \in Nat
      /\ connecting \in Nat /\ queue \in Seq(Functors) /\ Active' \in Nat
      /\ timers + Active + starts + connecting <= calls
    BY ChainNumbers DEF ChainInv, Active
<1>int. /\ timers \in Int /\ Active \in Int /\ calls \in Int /\ starts \in Int
       /\ connecting \in Int /\ Active' \in Int
       /\ timers + Active + starts + connecting <= calls
    BY <1>nat
<1>1. CASE UNCHANGED vars
    BY <1>nat, <1>1, SocketStepKeeps DEF vars, socket, Active
<1>2. CASE RunFunctor
  <2>1. Connecting' = Connecting /\ calls' = calls
      BY <1>2 DEF RunFunctor, Connecting
  <2>2. Cardinality(Starts(queue)') <= starts - (IF Head(queue) = "start" THEN 1 ELSE 0)
      BY <1>nat, <1>2, StartsOfTail DEF RunFunctor, Starts
  <2>3. Cardinality(Starts(queue)') \in Nat
    <3>1. Tail(queue) \in Seq(Functors)
        BY <1>nat, <1>2, HeadTailTypes DEF RunFunctor
    <3>2. QED
        BY <1>2, <3>1, StartsAreFinite DEF RunFunctor, Starts
  <2>4. timers' \in Nat /\ timers' + Active' <=
            timers + Active + (IF Head(queue) = "start" THEN 1 ELSE 0)
    <3>1. ASSUME NEW outcome \in Outcome, StartInLoop(outcome, timers)
          PROVE  timers' \in Nat /\ timers' + Active' <= timers + Active + 1
        BY <1>nat, <3>1, StartAddsOne
    <3>2. StopInLoop => timers' = timers /\ Active' <= Active
        BY DEF StopInLoop, socket, Active
    <3>3. QED
        BY <1>nat, <1>2, <3>1, <3>2 DEF RunFunctor
  <2> DEFINE k == IF Head(queue) = "start" THEN 1 ELSE 0
  <2>5. k \in Int /\ Cardinality(Starts(queue)') + connecting <= starts + connecting - k
      BY <1>nat, <2>2, <2>3
  <2> HIDE DEF starts, connecting, k
  <2>6. timers' + Active' <= timers + Active + k
      BY <2>4 DEF k
  <2>7. timers' + Active' + Cardinality(Starts(queue)') + connecting <= calls
      BY <1>int, <2>3, <2>4, <2>5, <2>6, ChainsMove, NatIsInt, Zenon
  <2>8. QED
      BY <2>1, <2>7 DEF ChainInv, connecting
<1>3. CASE AttemptFails
  <2>1. timers' = timers + 1 /\ Active = 1 /\ Active' = 0
      BY <1>3 DEF AttemptFails, Retry, RunAfter, Active
  <2>2. QED
      BY <1>nat, <1>3, <2>1, SocketStepKeeps DEF AttemptFails
<1>4. CASE AttemptSucceeds
  <2>1. timers' = timers /\ Active' = Active
      BY <1>4 DEF AttemptSucceeds, Active
  <2>2. QED
      BY <1>nat, <1>4, <2>1, SocketStepKeeps DEF AttemptSucceeds
<1>5. ASSUME NEW outcome \in Outcome, RetryTimer(outcome) PROVE ChainInv'
  <2>1. timers - 1 \in Nat
      BY <1>nat, <1>5 DEF RetryTimer, TimerWaits
  <2>2. timers' \in Nat /\ timers' + Active' <= timers - 1 + 1
      BY <1>5, <2>1, StartAddsOne DEF RetryTimer
  <2>3. timers' + Active' <= timers + Active
      BY <1>nat, <2>2, SameNumber, Zenon
  <2>4. QED
      BY <1>5, <2>2, <2>3, SocketStepKeeps DEF RetryTimer
<1>6. ASSUME NEW outcome \in Outcome, LinkEnds(outcome) PROVE ChainInv'
  <2>1. Active = 1
      BY <1>6 DEF LinkEnds, ClientInv, StateInv, Active
  <2>2. timers' \in Nat /\ timers' + Active' <= timers + 1
    <3>1. CASE UNCHANGED <<connectState_, timers>>
        BY <1>nat, <2>1, <3>1 DEF Active
    <3>2. CASE outcome = "pending" /\ Restart(outcome)
        BY <1>nat, <3>2 DEF Restart, Connect, Active
    <3>3. CASE outcome = "refused" /\ Restart(outcome)
        BY <1>nat, <3>3 DEF Restart, Connect, Retry, RunAfter, Active
    <3>4. CASE outcome = "hopeless" /\ Restart(outcome)
        BY <1>nat, <3>4 DEF Restart, Connect, Hopeless, Active
    <3>5. QED
        BY <1>6, <3>1, <3>2, <3>3, <3>4 DEF LinkEnds, Outcome
  <2>3. QED
      BY <1>nat, <1>6, <2>1, <2>2, SocketStepKeeps DEF LinkEnds
<1>7. CASE EnableRetry
    BY <1>nat, <1>7, SocketStepKeeps DEF EnableRetry, socket, Active
<1>8. ASSUME NEW th \in Thread, NEW what \in Call, Begin(th, what) PROVE ChainInv'
  <2>1. /\ Starts(queue)' = Starts(queue) /\ timers' = timers /\ Active' = Active
        /\ call[th] # "connect" /\ call' = [call EXCEPT ![th] = what]
        /\ calls' = IF what = "connect" THEN calls + 1 ELSE calls
      BY <1>8 DEF Begin, socket, Starts, Active
  <2>2. IsFiniteSet(Connecting')
        /\ Cardinality(Connecting') = IF what = "connect" THEN connecting + 1 ELSE connecting
      BY <2>1, ConnectingChanges
  <2>3. QED
      BY <1>nat, <2>1, <2>2 DEF ChainInv
<1>9. ASSUME NEW th \in Thread, NEW outcome \in Outcome, Start(th, outcome) PROVE ChainInv'
  <2>1. IsFiniteSet(Connecting') /\ Cardinality(Connecting') = connecting - 1 /\ calls' = calls
      BY <1>9, ConnectingChanges DEF Start, Call
  <2>2. CASE th = LoopThread
    <3>1. StartInLoop(outcome, timers) /\ Starts(queue)' = Starts(queue)
        BY <1>9, <2>2 DEF Start, Starts
    <3>2. timers' \in Nat /\ timers' + Active' <= timers + 1
        BY <1>nat, <3>1, StartAddsOne
    <3> DEFINE begun == 1
               fewer == connecting - 1
    <3>3. timers' + Active' <= timers + Active + begun
        BY <1>nat, <3>2, OneMore
    <3>4. /\ timers' \in Int /\ fewer \in Int /\ begun \in Int
          /\ starts + fewer <= starts + connecting - begun
        BY <1>nat, <3>2
    <3> HIDE DEF starts, connecting, begun, fewer
    <3>5. timers' + Active' + starts + fewer <= calls
        BY <1>int, <3>3, <3>4, ChainsMove, Zenon
    <3>6. QED
        BY <2>1, <3>1, <3>5 DEF ChainInv, starts, connecting, fewer
  <2>3. CASE th # LoopThread
    <3>1. queue' = Append(queue, "start") /\ timers' = timers /\ Active' = Active
        BY <1>9, <2>3 DEF Start, socket, Active
    <3>2. Cardinality(Starts(queue)') = starts + 1
        BY <1>nat, <3>1, StartsOfAppend DEF Starts, Functors
    <3>3. QED
        BY <1>nat, <2>1, <3>1, <3>2 DEF ChainInv
  <2>4. QED
      BY <2>2, <2>3
<1>10. ASSUME NEW th \in Thread, Stop(th) PROVE ChainInv'
  <2>1. /\ queue' = Append(queue, "stop") /\ timers' = timers /\ Active' = Active
        /\ calls' = calls
      BY <1>10 DEF Stop, socket, Active
  <2>2. Cardinality(Starts(queue)') = starts
    <3>1. "stop" \in Functors /\ Starts(queue)' = Starts(Append(queue, "stop"))
        BY <2>1 DEF Functors, Starts
    <3>2. QED
        BY <1>nat, <3>1, StartsOfAppend
  <2>3. IsFiniteSet(Connecting') /\ Cardinality(Connecting') = connecting
      BY <1>10, ConnectingChanges DEF Stop, Call
  <2>4. QED
      BY <1>nat, <2>1, <2>2, <2>3 DEF ChainInv
<1>11. ASSUME NEW th \in Thread, FindLink(th) \/ ShutdownLink(th) PROVE ChainInv'
  <2>1. /\ Starts(queue)' = Starts(queue) /\ timers' = timers /\ Active' = Active
        /\ calls' = calls
      BY <1>11 DEF FindLink, ShutdownLink, socket, Starts, Active
  <2>2. IsFiniteSet(Connecting') /\ Cardinality(Connecting') = connecting
    <3>1. CASE FindLink(th)
        BY <3>1, ConnectingChanges DEF FindLink, Call
    <3>2. CASE ShutdownLink(th)
        BY <3>2, ConnectingChanges DEF ShutdownLink, Call
    <3>3. QED
        BY <1>11, <3>1, <3>2
  <2>3. QED
      BY <1>nat, <2>1, <2>2 DEF ChainInv
<1>12. QED
    BY <1>1, <1>2, <1>3, <1>4, <1>5, <1>6, <1>7, <1>8, <1>9, <1>10, <1>11
       DEF Next, LoopStep, CallStep

\* Retries do not multiply: there are no more timers and attempts together than connect()
\* was called, whichever calls, retries and restarts come together.
THEOREM OneChainPerCallHolds == Safety => []OneChainPerCall
<1>1. TypeOK /\ ChainInv => OneChainPerCall
  <2>1. SUFFICES ASSUME TypeOK, ChainInv PROVE OneChainPerCall
      OBVIOUS
  <2>2. timers + Active <= calls
      BY <2>1, ChainNumbers DEF ChainInv
  <2>3. QED
      BY <2>2 DEF OneChainPerCall, Active
<1>2. QED
    BY <1>1, ClientInit, ChainInit, ClientNext, ChainNext, PTL DEF Safety
===============================================================================
