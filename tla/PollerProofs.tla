----------------------------- MODULE PollerProofs -----------------------------
(***************************************************************************)
(* Theorems about Poller, for any links, descriptors and programs: type    *)
(* correctness, that the three views of a descriptor agree, that every     *)
(* open descriptor has one owner, and where the process can abort.         *)
(***************************************************************************)
EXTENDS Poller, TLAPS

(* Type correctness: every operation on the table yields a table.          *)

LEMMA AbortType ==
    ASSUME NEW t \in TableType, NEW h \in Handler, NEW failure \in Failure
    PROVE  Abort(t, h, failure) \in TableType
BY DEF Abort, TableType

LEMMA EpollCtlType ==
    ASSUME NEW t \in TableType, NEW h \in Handler, NEW op
    PROVE  EpollCtl(t, op, h) \in TableType
<1> DEFINE f == t.fd[h]
           t2 == IF op = "DEL" THEN Watching(t, f, NoHandler, {})
                               ELSE Watching(t, f, h, t.events[h])
           condition == f \in t.open /\ (t.interest[f] = NoHandler <=> op = "ADD")
<1>1. condition => t2 \in TableType
    BY DEF TableType, Watching
<1>2. EpollCtl(t, op, h) = Check(t, h, condition, "epoll_ctl", t2)
    BY DEF EpollCtl
<1> HIDE DEF condition, t2
<1>3. QED
    BY <1>1, <1>2, AbortType DEF Check, WhileRunning, Failure

LEMMA UpdateHandlerType ==
    ASSUME NEW t \in TableType, NEW h \in Handler
    PROVE  UpdateHandler(t, h) \in TableType
<1> DEFINE f == t.fd[h]
           t1 == [t EXCEPT !.fd2handler[f] = h, !.state[h] = "Added"]
           t2 == [t EXCEPT !.state[h] = "Added"]
           t3 == [t EXCEPT !.state[h] = "Deleted"]
<1>1. t1 \in TableType /\ t2 \in TableType /\ t3 \in TableType
    BY DEF TableType
<1>2. CASE t.state[h] = "New"
  <2>1. UpdateHandler(t, h) =
            Check(t, h, t.fd2handler[f] = NoHandler, "duplicate", EpollCtl(t1, "ADD", h))
      BY <1>2 DEF UpdateHandler
  <2>2. QED
      BY <1>1, <2>1, EpollCtlType, AbortType DEF Check, WhileRunning, Failure
<1>3. CASE t.state[h] = "Deleted"
    BY <1>1, <1>3, EpollCtlType DEF UpdateHandler
<1>4. CASE t.state[h] = "Added"
  <2> DEFINE t4 == IF t.events[h] = {} THEN EpollCtl(t3, "DEL", h) ELSE EpollCtl(t, "MOD", h)
  <2>1. UpdateHandler(t, h) = Check(t, h, t.fd2handler[f] = h, "unregistered", t4)
      BY <1>4 DEF UpdateHandler
  <2>2. t4 \in TableType
      BY <1>1, EpollCtlType
  <2> HIDE DEF t4
  <2>3. QED
      BY <2>1, <2>2, AbortType DEF Check, WhileRunning, Failure
<1>5. t.state[h] \in {"New", "Added", "Deleted"}
    BY DEF TableType
<1>6. QED
    BY <1>2, <1>3, <1>4, <1>5

LEMMA RemoveHandlerType ==
    ASSUME NEW t \in TableType, NEW h \in Handler
    PROVE  RemoveHandler(t, h) \in TableType
<1> DEFINE f == t.fd[h]
           gone == [t EXCEPT !.fd2handler[f] = NoHandler, !.state[h] = "New"]
           t2 == IF t.state[h] = "Added" THEN EpollCtl(gone, "DEL", h) ELSE gone
           t3 == Check(t, h, t.events[h] = {}, "isNoneEvent", t2)
<1>1. gone \in TableType
    BY DEF TableType
<1>2. t2 \in TableType
    BY <1>1, EpollCtlType
<1>3. t3 \in TableType
    BY <1>2, AbortType DEF Check, WhileRunning, Failure
<1>4. RemoveHandler(t, h) = Check(t, h, t.fd2handler[f] = h, "unregistered", t3)
    BY DEF RemoveHandler
<1>5. QED
    BY <1>3, <1>4, AbortType DEF Check, WhileRunning, Failure

LEMMA UpdateInPollType ==
    ASSUME NEW t \in TableType, NEW h \in Handler,
           NEW flag \in {"AddEvent", "ModEvent", "DelEvent"}
    PROVE  UpdateInPoll(t, h, flag) \in TableType
<1>1. CASE flag = "AddEvent"
  <2>1. UpdateInPoll(t, h, flag) = Check(t, h, t.state[h] # "Added", "added", UpdateHandler(t, h))
      BY <1>1 DEF UpdateInPoll
  <2>2. QED
      BY <2>1, UpdateHandlerType, AbortType DEF Check, WhileRunning, Failure
<1>2. CASE flag = "ModEvent"
  <2>1. UpdateInPoll(t, h, flag) =
            Check(t, h, t.state[h] = "Added", "notAdded", UpdateHandler(t, h))
      BY <1>2 DEF UpdateInPoll
  <2>2. QED
      BY <2>1, UpdateHandlerType, AbortType DEF Check, WhileRunning, Failure
<1>3. CASE flag = "DelEvent"
    BY <1>3, RemoveHandlerType DEF UpdateInPoll
<1>4. QED
    BY <1>1, <1>2, <1>3

LEMMA SetEventsType ==
    ASSUME NEW t \in TableType, NEW h \in Handler, NEW events \in SUBSET Event
    PROVE  SetEvents(t, h, events) \in TableType
BY DEF SetEvents, WhileRunning, TableType

LEMMA ConstructType ==
    ASSUME NEW t \in TableType, NEW h \in Handler, NEW f \in Fd
    PROVE  Construct(t, h, f) \in TableType
BY DEF Construct, TableType

LEMMA CloseType ==
    ASSUME NEW t \in TableType, NEW f
    PROVE  Close(t, f) \in TableType
<1>1. f \in t.open => [Watching(t, f, NoHandler, {}) EXCEPT !.open = @ \ {f}] \in TableType
    BY DEF TableType, Watching
<1>2. QED
    BY <1>1 DEF Close, WhileRunning

LEMMA DestructType ==
    ASSUME NEW t \in TableType, NEW h \in Handler
    PROVE  Destruct(t, h) \in TableType
BY SetEventsType, UpdateInPollType, CloseType DEF Destruct

LEMMA RegisteredType ==
    ASSUME NEW t \in TableType, NEW h \in Handler
    PROVE  Registered(t, h) \in TableType
BY SetEventsType, UpdateInPollType DEF Registered, Event

LEMMA ConnectTableType ==
    ASSUME NEW t \in TableType, NEW f \in Fd \cup {NoFd}, NEW outcome \in Outcome
    PROVE  ConnectTable(t, f, outcome) \in TableType
<1> DEFINE taken == [t EXCEPT !.fd[Connector] = f, !.open = @ \cup {f}]
           opened == Check(t, Connector, f # NoFd, "socket", taken)
<1>1. opened \in TableType /\ Connector \in Handler
  <2>1. Connector \in Handler /\ (f # NoFd => taken \in TableType)
      BY DEF TableType, Handler
  <2> HIDE DEF taken
  <2>2. QED
      BY <2>1, AbortType DEF Check, WhileRunning, Failure
<1>2. ConnectTable(t, f, outcome) =
          IF outcome = "progress"
            THEN UpdateInPoll(SetEvents(opened, Connector, {"write"}), Connector, "AddEvent")
            ELSE Close(opened, f)
    BY DEF ConnectTable
<1> HIDE DEF opened
<1>3. QED
    BY <1>1, <1>2, SetEventsType, UpdateInPollType, CloseType DEF Event

LEMMA HandlerKinds ==
    /\ TimerFd \in Handler /\ WakeupFd \in Handler /\ Listener \in Handler /\ Connector \in Handler
    /\ \A h \in ServerLink \cup ClientLink : h \in Handler
BY DEF Handler

LEMMA TypeInit == Init => TypeOK
BY DEF Init, TypeOK, TableType

LEMMA TypeStep ==
    ASSUME TypeOK, [Next]_vars,
           Running /\ table.state[Connector] = "Added" => table.fd[Connector] \in table.open
    PROVE  TypeOK'
<1> USE HandlerKinds
<1>1. /\ table \in TableType /\ Free \subseteq Fd
      /\ Offered \subseteq Fd \cup {NoFd} /\ \A f \in Offered : f # NoFd => f \in Fd
    BY DEF TypeOK, Free, Offered
<1>2. ASSUME NEW hasEpoll \in BOOLEAN, NEW f \in Offered, NEW g \in Offered,
             NewLoop(hasEpoll, f, g)
      PROVE  TypeOK'
  <2> DEFINE made == Registered(Construct(table, TimerFd, f), TimerFd)
             timer == Check(table, TimerFd, f # NoFd, "timerfd_create",
                      Check(table, TimerFd, hasEpoll, "epoll_create1", made))
             loop == Registered(Construct(timer, WakeupFd, g), WakeupFd)
  <2>1. table' = Check(timer, WakeupFd, g # NoFd, "eventfd", loop)
      BY <1>2 DEF NewLoop
  <2>2. f # NoFd => made \in TableType
      BY <1>1, ConstructType, RegisteredType
  <2> HIDE DEF made
  <2>3. timer \in TableType
      BY <1>1, <2>2, AbortType DEF Check, WhileRunning, Failure
  <2> HIDE DEF timer
  <2>4. g # NoFd => loop \in TableType
      BY <1>1, <2>3, ConstructType, RegisteredType
  <2> HIDE DEF loop
  <2>5. table' \in TableType
      BY <2>1, <2>3, <2>4, AbortType DEF Check, WhileRunning, Failure
  <2>6. QED
      BY <1>2, <2>5 DEF NewLoop, TypeOK
<1>3. CASE DestroyLoop
    BY <1>1, <1>3, DestructType, UpdateInPollType, CloseType DEF DestroyLoop, TypeOK
<1>4. ASSUME NEW f \in Offered, NEW g \in Offered, NEW bound \in BOOLEAN, NewServer(f, g, bound)
      PROVE  TypeOK'
  <2> DEFINE made == [Construct(table, Listener, f) EXCEPT !.open = @ \cup ({g} \ {NoFd})]
  <2>1. \A t \in TableType : [t EXCEPT !.open = @ \cup ({g} \ {NoFd})] \in TableType
      BY <1>1 DEF TableType
  <2>2. f # NoFd => made \in TableType
      BY <1>1, <2>1, ConstructType
  <2>3. table' = Check(table, Listener, f # NoFd, "socket",
                 Check(table, Listener, bound, "bind", made))
      BY <1>4 DEF NewServer
  <2> HIDE DEF made
  <2>4. table' \in TableType
      BY <1>1, <2>2, <2>3, AbortType DEF Check, WhileRunning, Failure
  <2>5. QED
      BY <1>1, <1>4, <2>4 DEF NewServer, TypeOK
<1>5. ASSUME NEW listening \in BOOLEAN, StartServer(listening) PROVE TypeOK'
  <2>1. table' \in TableType
      BY <1>1, <1>5, RegisteredType, AbortType DEF StartServer, Check, WhileRunning, Failure
  <2>2. QED
      BY <1>5, <2>1 DEF StartServer, TypeOK
<1>6. ASSUME NEW h \in ServerLink, NEW f \in Free, Accept(h, f) PROVE TypeOK'
    BY <1>1, <1>6, ConstructType, RegisteredType DEF Accept, TypeOK
<1>7. CASE AcceptFails
  <2>1. table' \in TableType
      BY <1>1, <1>7, AbortType DEF AcceptFails, Failure
  <2>2. QED
      BY <1>7, <2>1 DEF AcceptFails, TypeOK
<1>8. ASSUME NEW h \in ServerLink \cup ClientLink, BlockedSend(h) \/ BufferSent(h) PROVE TypeOK'
  <2>1. table.events[h] \subseteq Event
      BY <1>1 DEF TableType
  <2>2. QED
      BY <1>1, <1>8, <2>1, SetEventsType, UpdateInPollType DEF BlockedSend, BufferSent, TypeOK, Event
<1>9. ASSUME NEW h \in ServerLink, NEW shared \in BOOLEAN, ServerLinkClose(h, shared) PROVE TypeOK'
  <2>1. Closed(table, h) \in TableType
      BY <1>1, SetEventsType, UpdateInPollType DEF Closed
  <2>2. QED
      BY <1>9, <2>1, DestructType DEF ServerLinkClose, LetGo, LifeLeft, TypeOK
<1>10. ASSUME NEW h \in ServerLink \cup ClientLink, LastReference(h) \/ DestroyServerLink(h)
       PROVE  TypeOK'
    BY <1>1, <1>10, DestructType DEF LastReference, DestroyServerLink, TypeOK
<1>11. CASE DestroyServer
    BY <1>11 DEF DestroyServer, TypeOK
<1>12. CASE DestroyListener
    BY <1>1, <1>12, CloseType, DestructType DEF DestroyListener, TypeOK
<1>13. CASE NewClient
  <2>1. table' \in TableType
      BY <1>1, <1>13 DEF NewClient, TableType
  <2>2. QED
      BY <1>13, <2>1 DEF NewClient, TypeOK
<1>14. ASSUME NEW f \in Offered, NEW outcome \in Outcome, Connect(f, outcome) PROVE TypeOK'
    BY <1>1, <1>14, ConnectTableType DEF Connect, ConnectState, TypeOK
<1>15. ConnectorRemoved \in TableType
    BY <1>1, SetEventsType, UpdateInPollType DEF ConnectorRemoved
<1>16. CASE ConnectFailed \/ StopConnecting
    BY <1>15, <1>16, CloseType DEF ConnectFailed, StopConnecting, TypeOK
<1>17. ASSUME NEW h \in ClientLink, Connected(h), Running PROVE TypeOK'
  <2>1. table.fd[Connector] \in Fd
      BY <1>1, <1>17 DEF Connected, ConnectorWritable, TableType
  <2>2. Construct(ConnectorRemoved, h, table.fd[Connector]) \in TableType
      BY <1>15, <2>1, ConstructType
  <2>3. QED
      BY <1>17, <2>2, RegisteredType DEF Connected, TypeOK
<1>18. ASSUME NEW h \in ClientLink PROVE ClientLinkRemoved(h) \in TableType
    BY <1>1, SetEventsType, UpdateInPollType DEF ClientLinkRemoved, Closed
<1>19. ASSUME NEW h \in ClientLink, NEW shared \in BOOLEAN, ClientLinkClose(h, shared) PROVE TypeOK'
    BY <1>18, <1>19, DestructType DEF ClientLinkClose, LetGo, LifeLeft, TypeOK
<1>20. ASSUME NEW h \in ClientLink, NEW shared \in BOOLEAN, NEW f \in Offered,
              NEW outcome \in Outcome, ClientLinkCloseRetry(h, shared, f, outcome)
       PROVE  TypeOK'
  <2>1. ConnectTable(ClientLinkRemoved(h), f, outcome) \in TableType
      BY <1>1, <1>18, ConnectTableType
  <2>2. table' \in TableType
      BY <1>20, <2>1, DestructType DEF ClientLinkCloseRetry, LetGo
  <2>3. QED
      BY <1>20, <2>2 DEF ClientLinkCloseRetry, ConnectState, LifeLeft, TypeOK
<1>21. CASE DestroyClient \/ \E h \in ClientLink, shared \in BOOLEAN : DestroyLinkedClient(h, shared)
    BY <1>1, <1>21, DestructType DEF DestroyClient, DestroyLinkedClient, LetGo, TypeOK
<1>22. CASE PeerGone
  <2>1. table' \in TableType
      BY <1>15, <1>22, AbortType DEF PeerGone, Check, WhileRunning, Failure
  <2>2. QED
      BY <1>22, <2>1 DEF PeerGone, TypeOK
<1>23. CASE UNCHANGED vars
    BY <1>23 DEF vars, TypeOK
<1>24. QED
    BY <1>2, <1>3, <1>4, <1>5, <1>6, <1>7, <1>8, <1>9, <1>10, <1>11, <1>12, <1>13, <1>14,
       <1>16, <1>17, <1>19, <1>20, <1>21, <1>22, <1>23
    DEF Next, LoopOp, ServerOp, ClientOp, LinkOp, DestructorOp

-------------------------------------------------------------------------------
(* The inductive invariant.  The table t is consistent with the handlers S that   *)
(* hold a descriptor and the descriptors X held in reserve: each open descriptor  *)
(* has one of these as its only holder, what is registered is among S, and the    *)
(* three views agree.                                                             *)

Held(t, S, X) ==
    /\ X \subseteq t.open
    /\ \A h \in S : t.fd[h] \in t.open \ X
    /\ \A h, k \in S : t.fd[h] = t.fd[k] => h = k
    /\ \A f \in t.open \ X : \E h \in S : t.fd[h] = f

Views(t, S) ==
    /\ t.fd2handler[NoFd] = NoHandler
    /\ \A h \in Handler \ S : t.state[h] = "New"
    /\ \A f \in Fd, h \in Handler :
          /\ t.interest[f] = h <=> t.state[h] = "Added" /\ t.fd[h] = f
          /\ t.interest[f] = h => t.mask[f] = t.events[h]
          /\ t.fd2handler[f] = h <=> t.state[h] # "New" /\ t.fd[h] = f

Consistent(t, S, X) == t.failed = "none" /\ Held(t, S, X) /\ Views(t, S)

Holders == {h \in Handler : Exists(h) /\ (h = Connector => table.state[h] = "Added")}
Reserve == {idleFd} \ {NoFd}

\* Where each kind of handler is in its life.
LoopStage ==
    /\ Exists(TimerFd) <=> Exists(WakeupFd)
    /\ \A h \in {TimerFd, WakeupFd} :
          /\ life[h] # "dropped"
          /\ Exists(h) => table.state[h] = "Added" /\ table.events[h] = {"read"}

ServerStage ==
    /\ ~Exists(Listener) => idleFd = NoFd
    /\ \A h \in ServerLink : life[h] = "dropped" => table.state[h] # "New"
    /\ \A h \in ServerLink \cup ClientLink :
          life[h] = "live" => table.state[h] = "Added" /\ "read" \in table.events[h]

ClientStage ==
    /\ \A h \in ClientLink : /\ life[h] = "dropped" => table.state[h] = "New"
                             /\ life[h] = "live" => /\ connecting = "Connected"
                                                    /\ life[Connector] = "live"
    /\ \A h, k \in ClientLink : life[h] = "live" /\ life[k] = "live" => h = k
    /\ life[Connector] # "dropped"
    /\ table.state[Connector] = "Added" => connecting = "Connecting"

Core == /\ Consistent(table, Holders, Reserve)
        /\ LoopStage /\ ServerStage /\ ClientStage

\* An operation leaves the core of the invariant, or a failure that is known.
Safe == Core \/ (~Running /\ FailuresAreKnown)

IInv == TypeOK /\ Safe

-------------------------------------------------------------------------------
(* What the operations do to a table t that has not failed: the fields of the     *)
(* table r that results.                                                          *)

Watches(t, r, h, events) ==
    /\ r \in TableType
    /\ r.fd = t.fd /\ r.open = t.open /\ r.failed = "none"
    /\ r.events = [t.events EXCEPT ![h] = events]
    /\ r.state = [t.state EXCEPT ![h] = "Added"]
    /\ r.fd2handler = [t.fd2handler EXCEPT ![t.fd[h]] = h]
    /\ r.interest = [t.interest EXCEPT ![t.fd[h]] = h]
    /\ r.mask = [t.mask EXCEPT ![t.fd[h]] = events]

Unwatches(t, r, h) ==
    /\ r \in TableType
    /\ r.fd = t.fd /\ r.open = t.open /\ r.failed = "none"
    /\ r.events = [t.events EXCEPT ![h] = {}]
    /\ r.state = [t.state EXCEPT ![h] = "Deleted"]
    /\ r.fd2handler = t.fd2handler
    /\ r.interest = [t.interest EXCEPT ![t.fd[h]] = NoHandler]
    /\ r.mask = [t.mask EXCEPT ![t.fd[h]] = {}]

\* With open as the only difference between a handler that was removed and one that is gone.
Removes(t, r, h, open) ==
    /\ r \in TableType
    /\ r.fd = t.fd /\ r.open = open /\ r.failed = "none"
    /\ r.events = [t.events EXCEPT ![h] = {}]
    /\ r.state = [t.state EXCEPT ![h] = "New"]
    /\ r.fd2handler = [t.fd2handler EXCEPT ![t.fd[h]] = NoHandler]
    /\ r.interest = [t.interest EXCEPT ![t.fd[h]] = NoHandler]
    /\ r.mask = [t.mask EXCEPT ![t.fd[h]] = {}]

\* Likewise of the parts they are made of.
SetsEvents(t, r, h, events) ==
    /\ r \in TableType
    /\ r.fd = t.fd /\ r.open = t.open /\ r.failed = "none" /\ r.state = t.state
    /\ r.events = [t.events EXCEPT ![h] = events]
    /\ r.fd2handler = t.fd2handler /\ r.interest = t.interest /\ r.mask = t.mask

SetsInterest(t, r, f, h, events, open) ==
    /\ r \in TableType
    /\ r.fd = t.fd /\ r.open = open /\ r.failed = "none" /\ r.state = t.state
    /\ r.events = t.events /\ r.fd2handler = t.fd2handler
    /\ r.interest = [t.interest EXCEPT ![f] = h]
    /\ r.mask = [t.mask EXCEPT ![f] = events]

LEMMA SetEventsDone ==
    ASSUME NEW t \in TableType, NEW h \in Handler, NEW events \in SUBSET Event,
           t.failed = "none"
    PROVE  SetsEvents(t, SetEvents(t, h, events), h, events)
BY DEF SetEvents, WhileRunning, SetsEvents, TableType

LEMMA WatchingDone ==
    ASSUME NEW t \in TableType, NEW f \in Fd, NEW h \in Handler \cup {NoHandler},
           NEW events \in SUBSET Event, t.failed = "none"
    PROVE  SetsInterest(t, Watching(t, f, h, events), f, h, events, t.open)
BY DEF Watching, SetsInterest, TableType

LEMMA CloseDone ==
    ASSUME NEW t \in TableType, NEW f \in t.open, t.failed = "none"
    PROVE  SetsInterest(t, Close(t, f), f, NoHandler, {}, t.open \ {f})
<1> DEFINE w == Watching(t, f, NoHandler, {})
           r == [w EXCEPT !.open = @ \ {f}]
<1>1. f \in Fd
    BY DEF TableType
<1>2. SetsInterest(t, w, f, NoHandler, {}, t.open)
    BY <1>1, WatchingDone
<1>3. Close(t, f) = r
    BY DEF Close, WhileRunning
<1> HIDE DEF w
<1>4. SetsInterest(t, r, f, NoHandler, {}, t.open \ {f})
    BY <1>2 DEF SetsInterest, TableType
<1>5. QED
    BY <1>3, <1>4

LEMMA EpollCtlDone ==
    ASSUME NEW t \in TableType, NEW h \in Handler, t.failed = "none", t.fd[h] \in t.open
    PROVE  /\ t.interest[t.fd[h]] = NoHandler =>
                 EpollCtl(t, "ADD", h) = Watching(t, t.fd[h], h, t.events[h])
           /\ t.interest[t.fd[h]] # NoHandler =>
                 /\ EpollCtl(t, "MOD", h) = Watching(t, t.fd[h], h, t.events[h])
                 /\ EpollCtl(t, "DEL", h) = Watching(t, t.fd[h], NoHandler, {})
BY DEF EpollCtl, Check, WhileRunning

LEMMA AddEvent ==
    ASSUME NEW t \in TableType, NEW h \in Handler, NEW events \in SUBSET Event,
           t.failed = "none", t.state[h] = "New", t.fd[h] \in t.open,
           t.fd2handler[t.fd[h]] = NoHandler, t.interest[t.fd[h]] = NoHandler
    PROVE  Watches(t, UpdateInPoll(SetEvents(t, h, events), h, "AddEvent"), h, events)
<1> DEFINE f == t.fd[h]
           t1 == SetEvents(t, h, events)
           t2 == [t1 EXCEPT !.fd2handler[f] = h, !.state[h] = "Added"]
           r == Watching(t2, f, h, events)
<1>1. f \in Fd
    BY DEF TableType
<1>2. SetsEvents(t, t1, h, events)
    BY SetEventsDone
<1> HIDE DEF t1
<1>3. UpdateInPoll(t1, h, "AddEvent") = EpollCtl(t2, "ADD", h)
    BY <1>2 DEF SetsEvents, UpdateInPoll, Check, WhileRunning, UpdateHandler
<1>4. t2 \in TableType /\ t2.failed = "none"
    BY <1>1, <1>2 DEF SetsEvents, TableType
<1>5. /\ t2.fd = t.fd /\ t2.open = t.open
      /\ t2.state = [t.state EXCEPT ![h] = "Added"]
      /\ t2.events = [t.events EXCEPT ![h] = events]
      /\ t2.fd2handler = [t.fd2handler EXCEPT ![f] = h]
      /\ t2.interest = t.interest /\ t2.mask = t.mask
    BY <1>1, <1>2 DEF SetsEvents, TableType
<1> HIDE DEF t2
<1>6. t2.events[h] = events /\ t2.fd[h] = f /\ f \in t2.open /\ t2.interest[f] = NoHandler
    BY <1>1, <1>5 DEF TableType
<1>7. EpollCtl(t2, "ADD", h) = r
    BY <1>4, <1>6, EpollCtlDone
<1>8. SetsInterest(t2, r, f, h, events, t2.open)
    BY <1>1, <1>4, WatchingDone
<1> HIDE DEF r
<1>9. Watches(t, r, h, events)
    BY <1>4, <1>5, <1>8 DEF SetsInterest, Watches
<1>10. QED
    BY <1>3, <1>7, <1>9 DEF t1

LEMMA ModEventSome ==
    ASSUME NEW t \in TableType, NEW h \in Handler, NEW events \in SUBSET Event, events # {},
           t.failed = "none", t.state[h] = "Added", t.fd[h] \in t.open,
           t.fd2handler[t.fd[h]] = h, t.interest[t.fd[h]] = h
    PROVE  Watches(t, UpdateInPoll(SetEvents(t, h, events), h, "ModEvent"), h, events)
<1> DEFINE f == t.fd[h]
           t1 == SetEvents(t, h, events)
           r == Watching(t1, f, h, events)
<1>1. f \in Fd /\ h # NoHandler
    BY PollerAssumption DEF TableType
<1>2. SetsEvents(t, t1, h, events)
    BY SetEventsDone
<1> HIDE DEF t1
<1>3. t1.events[h] = events
    BY <1>2 DEF SetsEvents, TableType
<1>4. UpdateInPoll(t1, h, "ModEvent") = EpollCtl(t1, "MOD", h)
    BY <1>2, <1>3 DEF SetsEvents, UpdateInPoll, Check, WhileRunning, UpdateHandler
<1>5. t1 \in TableType /\ t1.failed = "none" /\ t1.fd[h] = f /\ f \in t1.open /\ t1.interest[f] = h
    BY <1>2 DEF SetsEvents
<1>6. EpollCtl(t1, "MOD", h) = r
    BY <1>1, <1>3, <1>5, EpollCtlDone
<1>7. SetsInterest(t1, r, f, h, events, t1.open)
    BY <1>1, <1>5, WatchingDone
<1>8. t.state = [t.state EXCEPT ![h] = "Added"] /\ t.fd2handler = [t.fd2handler EXCEPT ![f] = h]
    BY DEF TableType
<1> HIDE DEF r
<1>9. Watches(t, r, h, events)
    BY <1>2, <1>7, <1>8 DEF SetsInterest, SetsEvents, Watches
<1>10. QED
    BY <1>4, <1>6, <1>9 DEF t1

LEMMA ModEventNone ==
    ASSUME NEW t \in TableType, NEW h \in Handler,
           t.failed = "none", t.state[h] = "Added", t.fd[h] \in t.open,
           t.fd2handler[t.fd[h]] = h, t.interest[t.fd[h]] = h
    PROVE  Unwatches(t, UpdateInPoll(SetEvents(t, h, {}), h, "ModEvent"), h)
<1> DEFINE f == t.fd[h]
           t1 == SetEvents(t, h, {})
           t2 == [t1 EXCEPT !.state[h] = "Deleted"]
           r == Watching(t2, f, NoHandler, {})
<1>1. f \in Fd /\ h # NoHandler
    BY PollerAssumption DEF TableType
<1>2. SetsEvents(t, t1, h, {})
    BY SetEventsDone
<1> HIDE DEF t1
<1>3. t1.events[h] = {}
    BY <1>2 DEF SetsEvents, TableType
<1>4. UpdateInPoll(t1, h, "ModEvent") = EpollCtl(t2, "DEL", h)
    BY <1>2, <1>3 DEF SetsEvents, UpdateInPoll, Check, WhileRunning, UpdateHandler
<1>5. t2 \in TableType /\ t2.failed = "none"
    BY <1>1, <1>2 DEF SetsEvents, TableType
<1>6. /\ t2.fd = t.fd /\ t2.open = t.open
      /\ t2.state = [t.state EXCEPT ![h] = "Deleted"]
      /\ t2.events = [t.events EXCEPT ![h] = {}]
      /\ t2.fd2handler = t.fd2handler
      /\ t2.interest = t.interest /\ t2.mask = t.mask
    BY <1>1, <1>2 DEF SetsEvents, TableType
<1> HIDE DEF t2
<1>7. t2.fd[h] = f /\ f \in t2.open /\ t2.interest[f] = h
    BY <1>6
<1>8. EpollCtl(t2, "DEL", h) = r
    BY <1>1, <1>5, <1>7, EpollCtlDone
<1>9. SetsInterest(t2, r, f, NoHandler, {}, t2.open)
    BY <1>1, <1>5, WatchingDone
<1> HIDE DEF r
<1>10. Unwatches(t, r, h)
    BY <1>5, <1>6, <1>9 DEF SetsInterest, Unwatches
<1>11. QED
    BY <1>4, <1>8, <1>10 DEF t1

LEMMA DelEventAdded ==
    ASSUME NEW t \in TableType, NEW h \in Handler,
           t.failed = "none", t.state[h] = "Added", t.fd[h] \in t.open,
           t.fd2handler[t.fd[h]] = h, t.interest[t.fd[h]] = h
    PROVE  Removes(t, UpdateInPoll(SetEvents(t, h, {}), h, "DelEvent"), h, t.open)
<1> DEFINE f == t.fd[h]
           t1 == SetEvents(t, h, {})
           t2 == [t1 EXCEPT !.fd2handler[f] = NoHandler, !.state[h] = "New"]
           r == Watching(t2, f, NoHandler, {})
<1>1. f \in Fd /\ h # NoHandler
    BY PollerAssumption DEF TableType
<1>2. SetsEvents(t, t1, h, {})
    BY SetEventsDone
<1> HIDE DEF t1
<1>3. t1.events[h] = {}
    BY <1>2 DEF SetsEvents, TableType
<1>4. UpdateInPoll(t1, h, "DelEvent") = EpollCtl(t2, "DEL", h)
    BY <1>2, <1>3 DEF SetsEvents, UpdateInPoll, Check, WhileRunning, RemoveHandler
<1>5. t2 \in TableType /\ t2.failed = "none"
    BY <1>1, <1>2 DEF SetsEvents, TableType
<1>6. /\ t2.fd = t.fd /\ t2.open = t.open
      /\ t2.state = [t.state EXCEPT ![h] = "New"]
      /\ t2.events = [t.events EXCEPT ![h] = {}]
      /\ t2.fd2handler = [t.fd2handler EXCEPT ![f] = NoHandler]
      /\ t2.interest = t.interest /\ t2.mask = t.mask
    BY <1>1, <1>2 DEF SetsEvents, TableType
<1> HIDE DEF t2
<1>7. t2.fd[h] = f /\ f \in t2.open /\ t2.interest[f] = h
    BY <1>6
<1>8. EpollCtl(t2, "DEL", h) = r
    BY <1>1, <1>5, <1>7, EpollCtlDone
<1>9. SetsInterest(t2, r, f, NoHandler, {}, t2.open)
    BY <1>1, <1>5, WatchingDone
<1> HIDE DEF r
<1>10. Removes(t, r, h, t.open)
    BY <1>5, <1>6, <1>9 DEF SetsInterest, Removes
<1>11. QED
    BY <1>4, <1>8, <1>10 DEF t1

LEMMA DelEventDeleted ==
    ASSUME NEW t \in TableType, NEW h \in Handler,
           t.failed = "none", t.state[h] = "Deleted", t.fd[h] \in t.open,
           t.fd2handler[t.fd[h]] = h
    PROVE  LET r == UpdateInPoll(SetEvents(t, h, {}), h, "DelEvent") IN
           /\ r \in TableType
           /\ r.fd = t.fd /\ r.open = t.open /\ r.failed = "none"
           /\ r.events = [t.events EXCEPT ![h] = {}]
           /\ r.state = [t.state EXCEPT ![h] = "New"]
           /\ r.fd2handler = [t.fd2handler EXCEPT ![t.fd[h]] = NoHandler]
           /\ r.interest = t.interest /\ r.mask = t.mask
<1> DEFINE t1 == SetEvents(t, h, {})
           r == [t1 EXCEPT !.fd2handler[t.fd[h]] = NoHandler, !.state[h] = "New"]
<1>1. t.fd[h] \in Fd
    BY DEF TableType
<1>2. SetsEvents(t, t1, h, {})
    BY SetEventsDone
<1> HIDE DEF t1
<1>3. t1.events[h] = {}
    BY <1>2 DEF SetsEvents, TableType
<1>4. UpdateInPoll(t1, h, "DelEvent") = r
    BY <1>2, <1>3 DEF SetsEvents, UpdateInPoll, Check, WhileRunning, RemoveHandler
<1>5. /\ r \in TableType
      /\ r.fd = t.fd /\ r.open = t.open /\ r.failed = "none"
      /\ r.events = [t.events EXCEPT ![h] = {}]
      /\ r.state = [t.state EXCEPT ![h] = "New"]
      /\ r.fd2handler = [t.fd2handler EXCEPT ![t.fd[h]] = NoHandler]
      /\ r.interest = t.interest /\ r.mask = t.mask
    BY <1>1, <1>2 DEF SetsEvents, TableType
<1> HIDE DEF r
<1>6. QED
    BY <1>4, <1>5 DEF t1

LEMMA DestructAdded ==
    ASSUME NEW t \in TableType, NEW h \in Handler,
           t.failed = "none", t.state[h] = "Added", t.fd[h] \in t.open,
           t.fd2handler[t.fd[h]] = h, t.interest[t.fd[h]] = h
    PROVE  Removes(t, Destruct(t, h), h, t.open \ {t.fd[h]})
<1> DEFINE f == t.fd[h]
           t1 == UpdateInPoll(SetEvents(t, h, {}), h, "DelEvent")
           r == Close(t1, f)
<1>1. Removes(t, t1, h, t.open)
    BY DelEventAdded
<1>2. Destruct(t, h) = r
    BY DEF Destruct
<1> HIDE DEF t1
<1>3. t1 \in TableType /\ t1.failed = "none" /\ f \in t1.open
    BY <1>1 DEF Removes
<1>4. SetsInterest(t1, r, f, NoHandler, {}, t1.open \ {f})
    BY <1>3, CloseDone
<1>5. r.interest = t1.interest /\ r.mask = t1.mask
  <2>1. f \in Fd /\ t.interest \in [Fd -> Handler \cup {NoHandler}] /\ t.mask \in [Fd -> SUBSET Event]
      BY DEF TableType
  <2>2. /\ t1.interest = [t.interest EXCEPT ![f] = NoHandler] /\ t1.mask = [t.mask EXCEPT ![f] = {}]
        /\ r.interest = [t1.interest EXCEPT ![f] = NoHandler] /\ r.mask = [t1.mask EXCEPT ![f] = {}]
      BY <1>1, <1>4 DEF SetsInterest, Removes
  <2>3. /\ [[t.interest EXCEPT ![f] = NoHandler] EXCEPT ![f] = NoHandler] =
               [t.interest EXCEPT ![f] = NoHandler]
        /\ [[t.mask EXCEPT ![f] = {}] EXCEPT ![f] = {}] = [t.mask EXCEPT ![f] = {}]
      BY <2>1
  <2>4. QED
      BY <2>2, <2>3
<1> HIDE DEF r
<1>6. QED
    BY <1>1, <1>2, <1>4, <1>5 DEF SetsInterest, Removes

LEMMA DestructDeleted ==
    ASSUME NEW t \in TableType, NEW h \in Handler,
           t.failed = "none", t.state[h] = "Deleted", t.fd[h] \in t.open,
           t.fd2handler[t.fd[h]] = h
    PROVE  Removes(t, Destruct(t, h), h, t.open \ {t.fd[h]})
<1> DEFINE f == t.fd[h]
           t1 == UpdateInPoll(SetEvents(t, h, {}), h, "DelEvent")
           r == Close(t1, f)
<1>1. /\ t1 \in TableType
      /\ t1.fd = t.fd /\ t1.open = t.open /\ t1.failed = "none"
      /\ t1.events = [t.events EXCEPT ![h] = {}]
      /\ t1.state = [t.state EXCEPT ![h] = "New"]
      /\ t1.fd2handler = [t.fd2handler EXCEPT ![t.fd[h]] = NoHandler]
      /\ t1.interest = t.interest /\ t1.mask = t.mask
    BY DelEventDeleted
<1>2. Destruct(t, h) = r
    BY DEF Destruct
<1> HIDE DEF t1
<1>3. t1 \in TableType /\ t1.failed = "none" /\ f \in t1.open
    BY <1>1
<1>4. SetsInterest(t1, r, f, NoHandler, {}, t1.open \ {f})
    BY <1>3, CloseDone
<1> HIDE DEF r
<1>5. QED
    BY <1>1, <1>2, <1>4 DEF SetsInterest, Removes

-------------------------------------------------------------------------------
(* What these do to a consistent table.                                           *)

LEMMA Entries ==
    ASSUME NEW t \in TableType, NEW S \in SUBSET Handler, NEW X, Consistent(t, S, X), NEW h \in S
    PROVE  /\ t.fd[h] \in t.open /\ t.fd[h] \in Fd /\ t.failed = "none"
           /\ t.state[h] = "New" => /\ t.fd2handler[t.fd[h]] = NoHandler
                                    /\ t.interest[t.fd[h]] = NoHandler
           /\ t.state[h] = "Added" => t.interest[t.fd[h]] = h
           /\ t.state[h] # "New" => t.fd2handler[t.fd[h]] = h
<1> DEFINE f == t.fd[h]
<1>1. /\ f \in t.open /\ f \in Fd /\ h \in Handler /\ t.failed = "none"
      /\ t.fd2handler[f] \in Handler \cup {NoHandler} /\ t.interest[f] \in Handler \cup {NoHandler}
    BY DEF Consistent, Held, TableType
<1>2. ASSUME NEW k \in Handler, t.state[k] # "New", t.fd[k] = f PROVE k = h
    BY <1>1, <1>2 DEF Consistent, Held, Views
<1>3. \A k \in Handler : /\ t.fd2handler[f] = k => t.state[k] # "New" /\ t.fd[k] = f
                         /\ t.interest[f] = k => t.state[k] = "Added" /\ t.fd[k] = f
    BY <1>1 DEF Consistent, Views
<1>4. t.state[h] = "Added" => t.interest[f] = h
    BY <1>1 DEF Consistent, Views
<1>5. t.state[h] # "New" => t.fd2handler[f] = h
    BY <1>1 DEF Consistent, Views
<1>6. QED
    BY <1>1, <1>2, <1>3, <1>4, <1>5

\* A handler that holds nothing gets the descriptor number f.
Assigns(t, r, h, f, open) ==
    /\ r \in TableType
    /\ r.fd = [t.fd EXCEPT ![h] = f] /\ r.open = open /\ r.failed = "none"
    /\ r.state = t.state
    /\ \A k \in Handler \ {h} : r.events[k] = t.events[k]
    /\ r.fd2handler = t.fd2handler /\ r.interest = t.interest
    /\ \A g \in Fd \cap t.open : r.mask[g] = t.mask[g]

LEMMA AssignsViews ==
    ASSUME NEW t \in TableType, NEW S \in SUBSET Handler, NEW X, Consistent(t, S, X),
           NEW h \in Handler \ S, NEW f \in Fd \cup {NoFd}, NEW r, NEW open,
           Assigns(t, r, h, f, open)
    PROVE  Views(r, S)
<1>1. t.state[h] = "New" /\ r.state = t.state /\ t.fd \in [Handler -> Fd \cup {NoFd}]
    BY DEF Consistent, Views, Assigns, TableType
<1>2. ASSUME NEW k \in Handler, k # h PROVE r.fd[k] = t.fd[k] /\ r.events[k] = t.events[k]
    BY <1>2 DEF Assigns, TableType
<1>3. ASSUME NEW g \in Fd, NEW k \in Handler, t.state[k] # "New", t.fd[k] = g
      PROVE  r.mask[g] = t.mask[g]
  <2>1. k \in S /\ g \in t.open
      BY <1>3 DEF Consistent, Held, Views
  <2>2. QED
      BY <2>1 DEF Assigns
<1>4. ASSUME NEW g \in Fd, NEW k \in Handler
      PROVE  /\ r.interest[g] = k <=> r.state[k] = "Added" /\ r.fd[k] = g
             /\ r.interest[g] = k => r.mask[g] = r.events[k]
             /\ r.fd2handler[g] = k <=> r.state[k] # "New" /\ r.fd[k] = g
  <2>1. /\ t.interest[g] = k <=> t.state[k] = "Added" /\ t.fd[k] = g
        /\ t.interest[g] = k => t.mask[g] = t.events[k]
        /\ t.fd2handler[g] = k <=> t.state[k] # "New" /\ t.fd[k] = g
      BY DEF Consistent, Views
  <2>2. r.interest = t.interest /\ r.fd2handler = t.fd2handler
      BY DEF Assigns
  <2>3. QED
      BY <1>1, <1>2, <1>3, <2>1, <2>2
<1>5. r.fd2handler[NoFd] = NoHandler /\ \A k \in Handler \ S : r.state[k] = "New"
    BY DEF Consistent, Views, Assigns
<1>6. QED
    BY <1>4, <1>5 DEF Views

LEMMA AssignsNothing ==
    ASSUME NEW t \in TableType, NEW S \in SUBSET Handler, NEW X, Consistent(t, S, X),
           NEW h \in Handler \ S, NEW f \in Fd \cup {NoFd}, NEW r, Assigns(t, r, h, f, t.open)
    PROVE  Consistent(r, S, X)
<1>1. Views(r, S)
    BY AssignsViews
<1>2. r.open = t.open /\ r.failed = "none" /\ \A k \in S : r.fd[k] = t.fd[k]
    BY DEF Assigns, TableType
<1>3. Held(r, S, X)
    BY <1>2 DEF Consistent, Held
<1>4. QED
    BY <1>1, <1>2, <1>3 DEF Consistent

LEMMA AssignsHolder ==
    ASSUME NEW t \in TableType, NEW S \in SUBSET Handler, NEW X, Consistent(t, S, X),
           NEW h \in Handler \ S, NEW f \in Fd, f \notin t.open \/ f \in X,
           NEW r, Assigns(t, r, h, f, t.open \cup {f})
    PROVE  Consistent(r, S \cup {h}, X \ {f})
<1>1. Views(r, S) /\ f \in Fd \cup {NoFd}
    BY AssignsViews
<1>2. Views(r, S \cup {h})
    BY <1>1 DEF Views
<1>3. /\ r.open = t.open \cup {f} /\ r.failed = "none" /\ r.fd[h] = f
      /\ \A k \in S : r.fd[k] = t.fd[k]
    BY DEF Assigns, TableType
<1>4. Held(r, S \cup {h}, X \ {f})
  <2>1. \A k \in S : t.fd[k] # f
      BY DEF Consistent, Held
  <2>2. QED
      BY <1>3, <2>1 DEF Consistent, Held
<1>5. QED
    BY <1>2, <1>3, <1>4 DEF Consistent

LEMMA WatchesConsistent ==
    ASSUME NEW t \in TableType, NEW S \in SUBSET Handler, NEW X, Consistent(t, S, X),
           NEW h \in S, NEW events \in SUBSET Event, NEW r, Watches(t, r, h, events)
    PROVE  Consistent(r, S, X)
<1> DEFINE f == t.fd[h]
<1>1. f \in Fd /\ f # NoFd /\ h \in Handler /\ h # NoHandler
    BY Entries, PollerAssumption
<1>2. r.fd = t.fd /\ r.open = t.open /\ r.failed = "none"
    BY DEF Watches
<1>3. \A k \in Handler : t.state[k] # "New" /\ t.fd[k] = f => k = h
    BY <1>1 DEF Consistent, Held, Views
<1>4. /\ \A k \in Handler : k # h => r.state[k] = t.state[k] /\ r.events[k] = t.events[k]
      /\ r.state[h] = "Added" /\ r.events[h] = events
    BY <1>1 DEF Watches, TableType
<1>5. /\ \A g \in Fd \cup {NoFd} : g # f => r.fd2handler[g] = t.fd2handler[g]
      /\ \A g \in Fd : g # f => r.interest[g] = t.interest[g] /\ r.mask[g] = t.mask[g]
      /\ r.fd2handler[f] = h /\ r.interest[f] = h /\ r.mask[f] = events
    BY <1>1 DEF Watches, TableType
<1>6. ASSUME NEW g \in Fd, NEW k \in Handler
      PROVE  /\ r.interest[g] = k <=> r.state[k] = "Added" /\ r.fd[k] = g
             /\ r.interest[g] = k => r.mask[g] = r.events[k]
             /\ r.fd2handler[g] = k <=> r.state[k] # "New" /\ r.fd[k] = g
  <2>1. /\ t.interest[g] = k <=> t.state[k] = "Added" /\ t.fd[k] = g
        /\ t.interest[g] = k => t.mask[g] = t.events[k]
        /\ t.fd2handler[g] = k <=> t.state[k] # "New" /\ t.fd[k] = g
      BY DEF Consistent, Views
  <2>2. CASE g = f
      BY <1>1, <1>2, <1>3, <1>4, <1>5, <2>2
  <2>3. CASE g # f
      BY <1>1, <1>2, <1>4, <1>5, <2>1, <2>3
  <2>4. QED
      BY <2>2, <2>3
<1>7. r.fd2handler[NoFd] = NoHandler /\ \A k \in Handler \ S : r.state[k] = "New"
    BY <1>1, <1>4, <1>5 DEF Consistent, Views
<1>8. Held(r, S, X)
    BY <1>2 DEF Consistent, Held
<1>9. QED
    BY <1>2, <1>6, <1>7, <1>8 DEF Consistent, Views

LEMMA UnwatchesConsistent ==
    ASSUME NEW t \in TableType, NEW S \in SUBSET Handler, NEW X, Consistent(t, S, X),
           NEW h \in S, t.state[h] = "Added", NEW r, Unwatches(t, r, h)
    PROVE  Consistent(r, S, X)
<1> DEFINE f == t.fd[h]
<1>1. f \in Fd /\ h \in Handler /\ NoHandler \notin Handler
    BY Entries, PollerAssumption
<1>2. r.fd = t.fd /\ r.open = t.open /\ r.failed = "none" /\ r.fd2handler = t.fd2handler
    BY DEF Unwatches
<1>3. \A k \in Handler : t.state[k] # "New" /\ t.fd[k] = f => k = h
    BY <1>1 DEF Consistent, Held, Views
<1>4. /\ \A k \in Handler : k # h => r.state[k] = t.state[k] /\ r.events[k] = t.events[k]
      /\ r.state[h] = "Deleted"
    BY <1>1 DEF Unwatches, TableType
<1>5. /\ \A g \in Fd : g # f => r.interest[g] = t.interest[g] /\ r.mask[g] = t.mask[g]
      /\ r.interest[f] = NoHandler
    BY <1>1 DEF Unwatches, TableType
<1>6. ASSUME NEW g \in Fd, NEW k \in Handler
      PROVE  /\ r.interest[g] = k <=> r.state[k] = "Added" /\ r.fd[k] = g
             /\ r.interest[g] = k => r.mask[g] = r.events[k]
             /\ r.fd2handler[g] = k <=> r.state[k] # "New" /\ r.fd[k] = g
  <2>1. /\ t.interest[g] = k <=> t.state[k] = "Added" /\ t.fd[k] = g
        /\ t.interest[g] = k => t.mask[g] = t.events[k]
        /\ t.fd2handler[g] = k <=> t.state[k] # "New" /\ t.fd[k] = g
      BY DEF Consistent, Views
  <2>2. CASE g = f
      BY <1>1, <1>2, <1>3, <1>4, <1>5, <2>1, <2>2
  <2>3. CASE g # f
      BY <1>1, <1>2, <1>4, <1>5, <2>1, <2>3
  <2>4. QED
      BY <2>2, <2>3
<1>7. r.fd2handler[NoFd] = NoHandler /\ \A k \in Handler \ S : r.state[k] = "New"
    BY <1>1, <1>2, <1>4 DEF Consistent, Views
<1>8. Held(r, S, X)
    BY <1>2 DEF Consistent, Held
<1>9. QED
    BY <1>2, <1>6, <1>7, <1>8 DEF Consistent, Views

LEMMA RemovesViews ==
    ASSUME NEW t \in TableType, NEW S \in SUBSET Handler, NEW X, Consistent(t, S, X),
           NEW h \in S, NEW r, NEW open, Removes(t, r, h, open)
    PROVE  Views(r, S \ {h})
<1> DEFINE f == t.fd[h]
<1>1. f \in Fd /\ f # NoFd /\ h \in Handler /\ NoHandler \notin Handler
    BY Entries, PollerAssumption
<1>2. r.fd = t.fd
    BY DEF Removes
<1>3. \A k \in Handler : t.state[k] # "New" /\ t.fd[k] = f => k = h
    BY <1>1 DEF Consistent, Held, Views
<1>4. /\ \A k \in Handler : k # h => r.state[k] = t.state[k] /\ r.events[k] = t.events[k]
      /\ r.state[h] = "New"
    BY <1>1 DEF Removes, TableType
<1>5. /\ \A g \in Fd \cup {NoFd} : g # f => r.fd2handler[g] = t.fd2handler[g]
      /\ \A g \in Fd : g # f => r.interest[g] = t.interest[g] /\ r.mask[g] = t.mask[g]
      /\ r.fd2handler[f] = NoHandler /\ r.interest[f] = NoHandler
    BY <1>1 DEF Removes, TableType
<1>6. ASSUME NEW g \in Fd, NEW k \in Handler
      PROVE  /\ r.interest[g] = k <=> r.state[k] = "Added" /\ r.fd[k] = g
             /\ r.interest[g] = k => r.mask[g] = r.events[k]
             /\ r.fd2handler[g] = k <=> r.state[k] # "New" /\ r.fd[k] = g
  <2>1. /\ t.interest[g] = k <=> t.state[k] = "Added" /\ t.fd[k] = g
        /\ t.interest[g] = k => t.mask[g] = t.events[k]
        /\ t.fd2handler[g] = k <=> t.state[k] # "New" /\ t.fd[k] = g
      BY DEF Consistent, Views
  <2>2. CASE g = f
      BY <1>1, <1>2, <1>3, <1>4, <1>5, <2>2
  <2>3. CASE g # f
      BY <1>1, <1>2, <1>4, <1>5, <2>1, <2>3
  <2>4. QED
      BY <2>2, <2>3
<1>7. r.fd2handler[NoFd] = NoHandler /\ \A k \in Handler \ (S \ {h}) : r.state[k] = "New"
    BY <1>1, <1>4, <1>5 DEF Consistent, Views
<1>8. QED
    BY <1>6, <1>7 DEF Views

LEMMA RemovesConsistent ==
    ASSUME NEW t \in TableType, NEW S \in SUBSET Handler, NEW X, Consistent(t, S, X),
           NEW h \in S, NEW r
    PROVE  /\ Removes(t, r, h, t.open \ {t.fd[h]}) => Consistent(r, S \ {h}, X)
           /\ Removes(t, r, h, t.open) => Consistent(r, S \ {h}, X \cup {t.fd[h]})
<1>1. ASSUME Removes(t, r, h, t.open \ {t.fd[h]}) PROVE Consistent(r, S \ {h}, X)
  <2>1. Views(r, S \ {h})
      BY <1>1, RemovesViews
  <2>2. r.fd = t.fd /\ r.open = t.open \ {t.fd[h]} /\ r.failed = "none"
      BY <1>1 DEF Removes
  <2>3. Held(r, S \ {h}, X)
      BY <2>2 DEF Consistent, Held
  <2>4. QED
      BY <2>1, <2>2, <2>3 DEF Consistent
<1>2. ASSUME Removes(t, r, h, t.open) PROVE Consistent(r, S \ {h}, X \cup {t.fd[h]})
  <2>1. Views(r, S \ {h})
      BY <1>2, RemovesViews
  <2>2. r.fd = t.fd /\ r.open = t.open /\ r.failed = "none"
      BY <1>2 DEF Removes
  <2>3. Held(r, S \ {h}, X \cup {t.fd[h]})
      BY <2>2 DEF Consistent, Held
  <2>4. QED
      BY <2>1, <2>2, <2>3 DEF Consistent
<1>3. QED
    BY <1>1, <1>2

LEMMA ReserveOpened ==
    ASSUME NEW t \in TableType, NEW S \in SUBSET Handler, NEW X, Consistent(t, S, X),
           NEW f \in Fd \ t.open
    PROVE  Consistent([t EXCEPT !.open = @ \cup {f}], S, X \cup {f})
<1> DEFINE r == [t EXCEPT !.open = @ \cup {f}]
<1>1. /\ r.open = t.open \cup {f} /\ r.fd = t.fd /\ r.failed = t.failed /\ r.state = t.state
      /\ r.fd2handler = t.fd2handler /\ r.interest = t.interest /\ r.mask = t.mask
      /\ r.events = t.events
    BY DEF TableType
<1> HIDE DEF r
<1>2. Held(r, S, X \cup {f})
    BY <1>1 DEF Consistent, Held
<1>3. Views(r, S)
    BY <1>1 DEF Consistent, Views
<1>4. QED
    BY <1>1, <1>2, <1>3 DEF Consistent, r

LEMMA ReserveClosed ==
    ASSUME NEW t \in TableType, NEW S \in SUBSET Handler, NEW X, Consistent(t, S, X), NEW f \in X
    PROVE  Consistent(Close(t, f), S, X \ {f})
<1> DEFINE r == Close(t, f)
<1>1. f \in t.open /\ f \in Fd /\ t.failed = "none"
    BY DEF Consistent, Held, TableType
<1>2. SetsInterest(t, r, f, NoHandler, {}, t.open \ {f})
    BY <1>1, CloseDone
<1> HIDE DEF r
<1>3. r.open = t.open \ {f} /\ r.fd = t.fd /\ r.failed = "none" /\ r.state = t.state
      /\ r.fd2handler = t.fd2handler /\ r.events = t.events
    BY <1>2 DEF SetsInterest
<1>4. \A h \in S : t.fd[h] # f
    BY DEF Consistent, Held
<1>5. /\ \A g \in Fd \ {f} : r.interest[g] = t.interest[g] /\ r.mask[g] = t.mask[g]
      /\ r.interest[f] = NoHandler /\ NoHandler \notin Handler
    BY <1>1, <1>2, PollerAssumption DEF SetsInterest, TableType
<1>6. Held(r, S, X \ {f})
    BY <1>3, <1>4 DEF Consistent, Held
<1>7. ASSUME NEW g \in Fd, NEW h \in Handler
      PROVE  /\ r.interest[g] = h <=> r.state[h] = "Added" /\ r.fd[h] = g
             /\ r.interest[g] = h => r.mask[g] = r.events[h]
             /\ r.fd2handler[g] = h <=> r.state[h] # "New" /\ r.fd[h] = g
  <2>1. /\ t.interest[g] = h <=> t.state[h] = "Added" /\ t.fd[h] = g
        /\ t.interest[g] = h => t.mask[g] = t.events[h]
        /\ t.fd2handler[g] = h <=> t.state[h] # "New" /\ t.fd[h] = g
        /\ h \notin S => t.state[h] = "New"
      BY DEF Consistent, Views
  <2>2. QED
      BY <1>3, <1>4, <1>5, <2>1
<1>8. Views(r, S)
    BY <1>3, <1>7 DEF Consistent, Views
<1>9. QED
    BY <1>3, <1>6, <1>8 DEF Consistent, r

\* Handler h is in another state and asks for other events; the others do not notice.
Turns(t, r, h, state, events) ==
    /\ r \in TableType /\ r.failed = "none"
    /\ r.state = [t.state EXCEPT ![h] = state]
    /\ r.events[h] = events
    /\ \A k \in Handler \ {h} : r.events[k] = t.events[k]

LEMMA TurnsParts ==
    ASSUME NEW t \in TableType, NEW h \in Handler, NEW r, NEW state, NEW events,
           Turns(t, r, h, state, events)
    PROVE  /\ r \in TableType /\ r.failed = "none"
           /\ r.state[h] = state /\ r.events[h] = events
           /\ \A k \in Handler \ {h} : r.state[k] = t.state[k] /\ r.events[k] = t.events[k]
BY DEF Turns, TableType

LEMMA TurnsTwice ==
    ASSUME NEW t \in TableType, NEW h \in Handler, NEW t1, NEW r, NEW state1, NEW state,
           NEW events1, NEW events, Turns(t, t1, h, state1, events1), Turns(t1, r, h, state, events)
    PROVE  Turns(t, r, h, state, events)
<1>1. [[t.state EXCEPT ![h] = state1] EXCEPT ![h] = state] = [t.state EXCEPT ![h] = state]
    BY DEF TableType
<1>2. QED
    BY <1>1 DEF Turns

LEMMA ConstructDone ==
    ASSUME NEW t \in TableType, NEW S \in SUBSET Handler, NEW X, Consistent(t, S, X),
           NEW h \in Handler \ S, NEW f \in Fd, f \notin t.open \/ f \in X
    PROVE  LET r == Construct(t, h, f) IN
           /\ Turns(t, r, h, "New", {}) /\ r.open = t.open \cup {f}
           /\ Consistent(r, S \cup {h}, X \ {f})
<1> DEFINE r == Construct(t, h, f)
<1>1. t.failed = "none" /\ t.state[h] = "New"
    BY DEF Consistent, Views
<1>2. r \in TableType
    BY ConstructType
<1>3. t.state = [t.state EXCEPT ![h] = "New"]
    BY <1>1 DEF TableType
<1>4. Assigns(t, r, h, f, t.open \cup {f})
    BY <1>1, <1>2, <1>3 DEF Assigns, Construct, TableType
<1>5. r.events[h] = {}
    BY DEF Construct, TableType
<1> HIDE DEF r
<1>6. Consistent(r, S \cup {h}, X \ {f})
    BY <1>4, AssignsHolder
<1>7. Turns(t, r, h, "New", {}) /\ r.open = t.open \cup {f}
    BY <1>3, <1>4, <1>5 DEF Turns, Assigns
<1>8. QED
    BY <1>6, <1>7 DEF r

LEMMA StartDone ==
    ASSUME NEW t \in TableType, NEW S \in SUBSET Handler, NEW X, Consistent(t, S, X),
           NEW h \in S, t.state[h] = "New", NEW events \in SUBSET Event
    PROVE  LET r == UpdateInPoll(SetEvents(t, h, events), h, "AddEvent") IN
           Turns(t, r, h, "Added", events) /\ Consistent(r, S, X) /\ r.open = t.open
<1> DEFINE r == UpdateInPoll(SetEvents(t, h, events), h, "AddEvent")
<1>1. /\ t.fd[h] \in t.open /\ t.failed = "none"
      /\ t.fd2handler[t.fd[h]] = NoHandler /\ t.interest[t.fd[h]] = NoHandler
    BY Entries
<1>2. Watches(t, r, h, events)
    BY <1>1, AddEvent
<1> HIDE DEF r
<1>3. Consistent(r, S, X)
    BY <1>2, WatchesConsistent
<1>4. Turns(t, r, h, "Added", events) /\ r.open = t.open
    BY <1>2 DEF Turns, Watches, TableType
<1>5. QED
    BY <1>3, <1>4 DEF r

LEMMA JoinDone ==
    ASSUME NEW t \in TableType, NEW S \in SUBSET Handler, NEW X, Consistent(t, S, X),
           NEW h \in Handler \ S, NEW f \in Fd, f \notin t.open \/ f \in X
    PROVE  LET r == Registered(Construct(t, h, f), h) IN
           /\ Turns(t, r, h, "Added", {"read"}) /\ r.open = t.open \cup {f}
           /\ Consistent(r, S \cup {h}, X \ {f})
<1> DEFINE t1 == Construct(t, h, f)
           r == UpdateInPoll(SetEvents(t1, h, {"read"}), h, "AddEvent")
           S2 == S \cup {h}
           X2 == X \ {f}
<1>1. Turns(t, t1, h, "New", {}) /\ t1.open = t.open \cup {f} /\ Consistent(t1, S2, X2)
    BY ConstructDone
<1> HIDE DEF t1
<1>2. t1 \in TableType /\ t1.state[h] = "New"
    BY <1>1, TurnsParts
<1>3. {"read"} \in SUBSET Event /\ S2 \in SUBSET Handler /\ h \in S2
    BY DEF Event
<1>4. Turns(t1, r, h, "Added", {"read"}) /\ Consistent(r, S2, X2) /\ r.open = t1.open
    BY <1>1, <1>2, <1>3, StartDone
<1> HIDE DEF r
<1>5. Turns(t, r, h, "Added", {"read"})
    BY <1>1, <1>4, TurnsTwice
<1>6. QED
    BY <1>1, <1>4, <1>5 DEF r, t1, Registered

LEMMA ModDone ==
    ASSUME NEW t \in TableType, NEW S \in SUBSET Handler, NEW X, Consistent(t, S, X),
           NEW h \in S, t.state[h] = "Added", NEW events \in SUBSET Event
    PROVE  LET r == UpdateInPoll(SetEvents(t, h, events), h, "ModEvent") IN
           /\ Turns(t, r, h, IF events = {} THEN "Deleted" ELSE "Added", events)
           /\ Consistent(r, S, X)
<1> DEFINE r == UpdateInPoll(SetEvents(t, h, events), h, "ModEvent")
<1>1. /\ t.fd[h] \in t.open /\ t.failed = "none"
      /\ t.fd2handler[t.fd[h]] = h /\ t.interest[t.fd[h]] = h
    BY Entries
<1>2. CASE events # {}
  <2>1. Watches(t, r, h, events)
      BY <1>1, <1>2, ModEventSome
  <2> HIDE DEF r
  <2>2. Consistent(r, S, X)
      BY <2>1, WatchesConsistent
  <2>3. Turns(t, r, h, "Added", events)
      BY <2>1 DEF Turns, Watches, TableType
  <2>4. QED
      BY <1>2, <2>2, <2>3 DEF r
<1>3. CASE events = {}
  <2>1. Unwatches(t, r, h)
      BY <1>1, <1>3, ModEventNone
  <2> HIDE DEF r
  <2>2. Consistent(r, S, X)
      BY <2>1, UnwatchesConsistent
  <2>3. Turns(t, r, h, "Deleted", events)
      BY <1>3, <2>1 DEF Turns, Unwatches, TableType
  <2>4. QED
      BY <1>3, <2>2, <2>3 DEF r
<1>4. QED
    BY <1>2, <1>3

LEMMA DestructDone ==
    ASSUME NEW t \in TableType, NEW S \in SUBSET Handler, NEW X, Consistent(t, S, X),
           NEW h \in S, t.state[h] # "New"
    PROVE  Turns(t, Destruct(t, h), h, "New", {}) /\ Consistent(Destruct(t, h), S \ {h}, X)
<1> DEFINE r == Destruct(t, h)
<1>1. /\ t.fd[h] \in t.open /\ t.failed = "none" /\ t.fd2handler[t.fd[h]] = h
      /\ t.state[h] = "Added" => t.interest[t.fd[h]] = h
    BY Entries
<1>2. t.state[h] \in {"Added", "Deleted"}
    BY DEF TableType
<1>3. Removes(t, r, h, t.open \ {t.fd[h]})
    BY <1>1, <1>2, DestructAdded, DestructDeleted
<1> HIDE DEF r
<1>4. Consistent(r, S \ {h}, X)
    BY <1>3, RemovesConsistent
<1>5. Turns(t, r, h, "New", {})
    BY <1>3 DEF Turns, Removes, TableType
<1>6. QED
    BY <1>4, <1>5 DEF r

\* What happens once something has failed: nothing.
LEMMA Frozen ==
    ASSUME NEW t, t.failed # "none", NEW h, NEW f, NEW events
    PROVE  /\ SetEvents(t, h, events) = t /\ Close(t, f) = t
           /\ UpdateInPoll(t, h, "AddEvent") = t /\ UpdateInPoll(t, h, "ModEvent") = t
           /\ UpdateInPoll(t, h, "DelEvent") = t
           /\ Destruct(t, h) = t
<1>1. SetEvents(t, h, events) = t /\ Close(t, f) = t /\ SetEvents(t, h, {}) = t
    BY DEF SetEvents, Close, WhileRunning
<1>2. UpdateInPoll(t, h, "AddEvent") = t
    BY DEF UpdateInPoll, Check, WhileRunning
<1>3. UpdateInPoll(t, h, "ModEvent") = t
    BY DEF UpdateInPoll, Check, WhileRunning
<1>4. UpdateInPoll(t, h, "DelEvent") = t
    BY DEF UpdateInPoll, RemoveHandler, Check, WhileRunning
<1>5. Destruct(t, h) = Close(t, t.fd[h])
    BY <1>1, <1>4 DEF Destruct
<1>6. Close(t, t.fd[h]) = t
    BY DEF Close, WhileRunning
<1>7. QED
    BY <1>1, <1>2, <1>3, <1>4, <1>5, <1>6

\* A handler that is not registered cannot be removed.
LEMMA RemoveUnknown ==
    ASSUME NEW t \in TableType, NEW S \in SUBSET Handler, NEW X, Consistent(t, S, X),
           NEW h \in Handler, t.state[h] = "New"
    PROVE  LET r == UpdateInPoll(SetEvents(t, h, {}), h, "DelEvent") IN
           /\ r.failed = "unregistered" /\ r.culprit = h /\ r.state = t.state
           /\ Destruct(t, h) = r
<1> DEFINE t1 == SetEvents(t, h, {})
           r == UpdateInPoll(t1, h, "DelEvent")
<1>1. t.failed = "none" /\ t.fd[h] \in Fd \cup {NoFd} /\ NoHandler \notin Handler
    BY PollerAssumption DEF Consistent, TableType
<1>2. t.fd2handler[t.fd[h]] # h
    BY <1>1 DEF Consistent, Views
<1>3. SetsEvents(t, t1, h, {})
    BY <1>1, SetEventsDone
<1>4. Destruct(t, h) = Close(r, t.fd[h])
    BY DEF Destruct
<1> HIDE DEF t1
<1>5. r = Abort(t1, h, "unregistered")
    BY <1>2, <1>3 DEF UpdateInPoll, RemoveHandler, Check, WhileRunning, SetsEvents
<1>6. r.failed = "unregistered" /\ r.culprit = h /\ r.state = t.state
    BY <1>3, <1>5 DEF Abort, SetsEvents, TableType
<1> HIDE DEF r
<1>7. Close(r, t.fd[h]) = r
    BY <1>6 DEF Close, WhileRunning
<1>8. QED
    BY <1>4, <1>6, <1>7 DEF r, t1

LEMMA RemoveDone ==
    ASSUME NEW t \in TableType, NEW S \in SUBSET Handler, NEW X, Consistent(t, S, X),
           NEW h \in S, t.state[h] = "Added"
    PROVE  LET r == UpdateInPoll(SetEvents(t, h, {}), h, "DelEvent") IN
           Turns(t, r, h, "New", {}) /\ Consistent(r, S \ {h}, X \cup {t.fd[h]})
<1> DEFINE r == UpdateInPoll(SetEvents(t, h, {}), h, "DelEvent")
<1>1. /\ t.fd[h] \in t.open /\ t.failed = "none"
      /\ t.fd2handler[t.fd[h]] = h /\ t.interest[t.fd[h]] = h
    BY Entries
<1>2. Removes(t, r, h, t.open)
    BY <1>1, DelEventAdded
<1> HIDE DEF r
<1>3. Consistent(r, S \ {h}, X \cup {t.fd[h]})
    BY <1>2, RemovesConsistent
<1>4. Turns(t, r, h, "New", {})
    BY <1>2 DEF Turns, Removes, TableType
<1>5. QED
    BY <1>3, <1>4 DEF r

\* A descriptor that was set aside is given back to a handler that is not registered.
LEMMA KeepsHolder ==
    ASSUME NEW t \in TableType, NEW S \in SUBSET Handler, NEW X, NEW h \in Handler \ S,
           Consistent(t, S, X \cup {t.fd[h]}), t.fd[h] \notin X
    PROVE  Consistent(t, S \cup {h}, X)
<1>1. Held(t, S \cup {h}, X)
    BY DEF Consistent, Held
<1>2. Views(t, S \cup {h})
    BY DEF Consistent, Views
<1>3. QED
    BY <1>1, <1>2 DEF Consistent

\* The links of a client are removed twice before their destructor removes them again.
LEMMA RemoveClosedDone ==
    ASSUME NEW t \in TableType, NEW S \in SUBSET Handler, NEW X, Consistent(t, S, X),
           NEW h \in S, t.state[h] = "Added"
    PROVE  LET r == UpdateInPoll(Closed(t, h), h, "DelEvent") IN
           Turns(t, r, h, "New", {}) /\ r.open = t.open /\ Consistent(r, S, X)
<1> DEFINE f == t.fd[h]
           t1 == Closed(t, h)
           r == UpdateInPoll(t1, h, "DelEvent")
<1>1. /\ f \in t.open /\ f \in Fd /\ t.failed = "none"
      /\ t.fd2handler[t.fd[h]] = h /\ t.interest[t.fd[h]] = h
    BY Entries
<1>2. Unwatches(t, t1, h)
    BY <1>1, ModEventNone DEF Closed
<1> HIDE DEF t1
<1>3. /\ t1 \in TableType /\ t1.failed = "none" /\ t1.fd[h] = f /\ f \in t1.open
      /\ t1.state[h] = "Deleted" /\ t1.fd2handler[f] = h /\ t1.events[h] = {}
    BY <1>1, <1>2 DEF Unwatches, TableType
<1>4. SetEvents(t1, h, {}) = t1
  <2>1. [t1 EXCEPT !.events[h] = {}] = t1
      BY <1>3 DEF TableType
  <2>2. QED
      BY <1>3, <2>1 DEF SetEvents, WhileRunning
<1>5. /\ r \in TableType
      /\ r.fd = t1.fd /\ r.open = t1.open /\ r.failed = "none"
      /\ r.events = [t1.events EXCEPT ![h] = {}]
      /\ r.state = [t1.state EXCEPT ![h] = "New"]
      /\ r.fd2handler = [t1.fd2handler EXCEPT ![f] = NoHandler]
      /\ r.interest = t1.interest /\ r.mask = t1.mask
    BY <1>3, <1>4, DelEventDeleted
<1> HIDE DEF r
<1>6. /\ [[t.events EXCEPT ![h] = {}] EXCEPT ![h] = {}] = [t.events EXCEPT ![h] = {}]
      /\ [[t.state EXCEPT ![h] = "Deleted"] EXCEPT ![h] = "New"] = [t.state EXCEPT ![h] = "New"]
    BY DEF TableType
<1>7. Removes(t, r, h, t.open)
    BY <1>2, <1>5, <1>6 DEF Removes, Unwatches
<1>8. Consistent(r, S \ {h}, X \cup {f})
    BY <1>7, RemovesConsistent
<1>9. Turns(t, r, h, "New", {}) /\ r.open = t.open /\ r.fd[h] = f
    BY <1>7 DEF Turns, Removes, TableType
<1>10. f \notin X /\ (S \ {h}) \cup {h} = S
    BY DEF Consistent, Held
<1>11. Consistent(r, S, X)
  <2> DEFINE S1 == S \ {h}
  <2>1. Consistent(r, S1, X \cup {r.fd[h]}) /\ S1 \in SUBSET Handler /\ h \in Handler \ S1
      BY <1>8, <1>9
  <2>2. S1 \cup {h} = S
      BY <1>10
  <2> HIDE DEF S1
  <2>3. QED
      BY <1>5, <1>9, <1>10, <2>1, <2>2, KeepsHolder
<1>12. QED
    BY <1>9, <1>11 DEF r, t1

LEMMA ConnectTableDone ==
    ASSUME NEW t \in TableType, NEW S \in SUBSET Handler, NEW X, Consistent(t, S, X),
           Connector \notin S, NEW f \in Fd \ t.open, NEW outcome \in Outcome
    PROVE  LET r == ConnectTable(t, f, outcome) IN
           /\ outcome = "progress" => /\ Turns(t, r, Connector, "Added", {"write"})
                                      /\ Consistent(r, S \cup {Connector}, X)
           /\ outcome # "progress" => /\ r \in TableType /\ r.state = t.state
                                      /\ r.events = t.events
                                      /\ Consistent(r, S, X)
<1> DEFINE t1 == [t EXCEPT !.fd[Connector] = f, !.open = @ \cup {f}]
           S2 == S \cup {Connector}
           r == ConnectTable(t, f, outcome)
<1>1. /\ t.failed = "none" /\ Connector \in Handler \ S /\ t.state[Connector] = "New" /\ X \ {f} = X
      /\ S2 \in SUBSET Handler /\ Connector \in S2
    BY HandlerKinds DEF Consistent, Held, Views
<1>2. t1 \in TableType
    BY <1>1 DEF TableType
<1>3. t1.events = t.events /\ t1.mask = t.mask /\ t1.state = t.state
    BY DEF TableType
<1>4. Assigns(t, t1, Connector, f, t.open \cup {f})
    BY <1>1, <1>2 DEF Assigns, TableType
<1>5. Check(t, Connector, f # NoFd, "socket", t1) = t1
    BY <1>1, PollerAssumption DEF Check, WhileRunning
<1> HIDE DEF t1
<1>6. Consistent(t1, S2, X)
    BY <1>1, <1>4, AssignsHolder
<1>7. CASE outcome = "progress"
  <2> DEFINE r2 == UpdateInPoll(SetEvents(t1, Connector, {"write"}), Connector, "AddEvent")
  <2>1. r = r2
      BY <1>5, <1>7 DEF ConnectTable, t1
  <2>2. {"write"} \in SUBSET Event
      BY DEF Event
  <2>3. Turns(t1, r2, Connector, "Added", {"write"}) /\ Consistent(r2, S2, X)
      BY <1>1, <1>2, <1>3, <1>6, <2>2, StartDone
  <2> HIDE DEF r2, r
  <2>4. Turns(t, r, Connector, "Added", {"write"})
      BY <1>3, <2>1, <2>3 DEF Turns
  <2>5. QED
      BY <1>7, <2>1, <2>3, <2>4 DEF r
<1>8. CASE outcome # "progress"
  <2>1. r = Close(t1, f)
      BY <1>5, <1>8 DEF ConnectTable, t1
  <2> HIDE DEF r
  <2>2. f \in t1.open /\ t1.failed = "none" /\ t1.open \ {f} = t.open
      BY <1>4 DEF Assigns
  <2>3. SetsInterest(t1, r, f, NoHandler, {}, t.open)
      BY <1>2, <2>1, <2>2, CloseDone
  <2>4. t.interest[f] = NoHandler
      BY DEF Consistent, Held, Views, TableType
  <2>5. r.interest = t.interest
    <3>1. t.interest = [t.interest EXCEPT ![f] = NoHandler]
        BY <2>4 DEF TableType
    <3>2. QED
        BY <1>4, <2>3, <3>1 DEF Assigns, SetsInterest
  <2>6. \A g \in Fd \cap t.open : r.mask[g] = t.mask[g]
      BY <1>3, <2>3 DEF SetsInterest, TableType
  <2>7. Assigns(t, r, Connector, f, t.open)
      BY <1>4, <2>3, <2>5, <2>6 DEF Assigns, SetsInterest
  <2>8. Consistent(r, S, X)
      BY <1>1, <2>7, AssignsNothing
  <2>9. r \in TableType /\ r.state = t.state /\ r.events = t.events
      BY <1>3, <2>3 DEF SetsInterest
  <2>10. QED
      BY <1>8, <2>8, <2>9 DEF r
<1>9. QED
    BY <1>7, <1>8

LEMMA AbortDone ==
    ASSUME NEW t \in TableType, NEW h \in Handler, NEW failure \in Failure
    PROVE  Abort(t, h, failure).failed = failure /\ Abort(t, h, failure).culprit = h
BY DEF Abort, TableType

LEMMA ConnectTableRefused ==
    ASSUME NEW t \in TableType, t.failed = "none", NEW outcome \in Outcome
    PROVE  LET r == ConnectTable(t, NoFd, outcome) IN
           r.failed = "socket" /\ r.culprit = Connector
<1> DEFINE opened == Check(t, Connector, NoFd # NoFd, "socket",
                           [t EXCEPT !.fd[Connector] = NoFd, !.open = @ \cup {NoFd}])
           r == ConnectTable(t, NoFd, outcome)
<1>1. opened = Abort(t, Connector, "socket")
    BY DEF Check, WhileRunning
<1>2. opened.failed = "socket" /\ opened.culprit = Connector
    BY <1>1, AbortDone, HandlerKinds DEF Failure
<1>3. r = IF outcome = "progress"
            THEN UpdateInPoll(SetEvents(opened, Connector, {"write"}), Connector, "AddEvent")
            ELSE Close(opened, NoFd)
    BY DEF ConnectTable
<1> HIDE DEF opened, r
<1>4. r = opened
    BY <1>2, <1>3, Frozen
<1>5. QED
    BY <1>2, <1>4 DEF r

-------------------------------------------------------------------------------
(* Each operation, from a state of the invariant.                                 *)

LEMMA Distinct ==
    /\ TimerFd # WakeupFd /\ Listener \notin {TimerFd, WakeupFd}
    /\ Connector \notin {TimerFd, WakeupFd, Listener}
    /\ \A h \in ServerLink : h \notin ClientLink \cup {TimerFd, WakeupFd, Listener, Connector}
    /\ \A h \in ClientLink : h \notin ServerLink \cup {TimerFd, WakeupFd, Listener, Connector}
    /\ NoHandler \notin Handler /\ NoFd \notin Fd
BY PollerAssumption

LEMMA CoreFacts ==
    ASSUME TypeOK, Core
    PROVE  /\ table \in TableType /\ Holders \in SUBSET Handler /\ Running
           /\ Reserve \subseteq table.open
           /\ \A f \in Free : f \in Fd /\ f \notin table.open /\ Reserve \ {f} = Reserve
BY DEF TypeOK, Core, Consistent, Held, Holders, Running, Free

\* A call the kernel refuses is a failure that is known.
LEMMA RefusedIsSafe == ASSUME KernelRefused' PROVE Safe'
BY DEF KernelRefused, Safe, Running, FailuresAreKnown

LEMMA StepNewLoopRefused ==
    ASSUME TypeOK, Core, NEW hasEpoll \in BOOLEAN, NEW f \in Offered, NEW g \in Offered,
           NewLoop(hasEpoll, f, g), f = NoFd \/ ~hasEpoll \/ g = NoFd
    PROVE  Safe'
<1> USE HandlerKinds, Distinct
<1> DEFINE made == Registered(Construct(table, TimerFd, f), TimerFd)
           timer == Check(table, TimerFd, f # NoFd, "timerfd_create",
                    Check(table, TimerFd, hasEpoll, "epoll_create1", made))
           S1 == Holders \cup {TimerFd}
<1>1. /\ table \in TableType /\ Holders \in SUBSET Handler /\ Consistent(table, Holders, Reserve)
      /\ table.failed = "none"
    BY CoreFacts DEF Core, Consistent
<1>2. table' = Check(timer, WakeupFd, g # NoFd, "eventfd",
                     Registered(Construct(timer, WakeupFd, g), WakeupFd))
    BY DEF NewLoop
<1> HIDE DEF made
<1>3. ASSUME f = NoFd \/ ~hasEpoll PROVE Safe'
  <2>1. PICK call \in {"timerfd_create", "epoll_create1"} : timer = Abort(table, TimerFd, call)
      BY <1>1, <1>3 DEF Check, WhileRunning
  <2> HIDE DEF timer
  <2>2. timer.failed = call /\ timer.culprit = TimerFd
      BY <1>1, <2>1, AbortDone DEF Failure
  <2>3. table' = timer
      BY <1>2, <2>2 DEF Check, WhileRunning
  <2>4. QED
      BY <2>2, <2>3, RefusedIsSafe DEF KernelRefused
<1>4. ASSUME f # NoFd, hasEpoll, g = NoFd PROVE Safe'
  <2>1. timer = made
      BY <1>1, <1>4 DEF Check, WhileRunning
  <2>2. f \in Fd /\ f \notin table.open /\ TimerFd \in Handler \ Holders
      BY <1>1, <1>4 DEF NewLoop, Holders, Unused, Exists, Offered, Free
  <2>3. Turns(table, made, TimerFd, "Added", {"read"})
      BY <1>1, <2>2, JoinDone DEF made
  <2>4. made \in TableType /\ made.failed = "none"
      BY <1>1, <2>3, TurnsParts
  <2> HIDE DEF timer
  <2>5. table' = Abort(made, WakeupFd, "eventfd")
      BY <1>2, <1>4, <2>1, <2>4 DEF Check, WhileRunning
  <2>6. table'.failed = "eventfd" /\ table'.culprit = WakeupFd
      BY <2>4, <2>5, AbortDone DEF Failure
  <2>7. QED
      BY <2>6, RefusedIsSafe DEF KernelRefused
<1>5. QED
    BY <1>3, <1>4

LEMMA StepNewLoop ==
    ASSUME TypeOK, Core, NEW f \in Free, NEW g \in Free, NewLoop(TRUE, f, g)
    PROVE  Safe'
<1> USE HandlerKinds, Distinct
<1> DEFINE t1 == Registered(Construct(table, TimerFd, f), TimerFd)
           r == Registered(Construct(t1, WakeupFd, g), WakeupFd)
           S1 == Holders \cup {TimerFd}
           S2 == S1 \cup {WakeupFd}
<1>1. /\ table \in TableType /\ Holders \in SUBSET Handler /\ Consistent(table, Holders, Reserve)
      /\ f \in Fd /\ f \notin table.open /\ g \in Fd /\ g \notin table.open
      /\ Reserve \ {f} = Reserve /\ Reserve \ {g} = Reserve
    BY CoreFacts DEF Core
<1>2. /\ f # g /\ f # NoFd /\ g # NoFd
      /\ TimerFd \in Handler \ Holders /\ WakeupFd \in Handler \ S1 /\ S1 \in SUBSET Handler
    BY <1>1 DEF NewLoop, Holders, Unused, Exists
<1>3. Turns(table, t1, TimerFd, "Added", {"read"}) /\ t1.open = table.open \cup {f}
      /\ Consistent(t1, S1, Reserve)
  <2>1. Turns(table, t1, TimerFd, "Added", {"read"}) /\ t1.open = table.open \cup {f}
        /\ Consistent(t1, S1, Reserve \ {f})
      BY <1>1, <1>2, JoinDone
  <2>2. QED
      BY <1>1, <2>1
<1> HIDE DEF t1
<1>4. /\ t1 \in TableType /\ t1.state[TimerFd] = "Added" /\ t1.events[TimerFd] = {"read"}
      /\ \A k \in Handler \ {TimerFd} : t1.state[k] = table.state[k] /\ t1.events[k] = table.events[k]
    BY <1>1, <1>3, TurnsParts
<1>5. Turns(t1, r, WakeupFd, "Added", {"read"}) /\ Consistent(r, S2, Reserve)
  <2>1. g \notin t1.open
      BY <1>1, <1>2, <1>3
  <2>2. Turns(t1, r, WakeupFd, "Added", {"read"}) /\ Consistent(r, S2, Reserve \ {g})
      BY <1>1, <1>2, <1>3, <1>4, <2>1, JoinDone
  <2>3. QED
      BY <1>1, <2>2
<1>6. table' = r
  <2> DEFINE timer == Check(table, TimerFd, f # NoFd, "timerfd_create",
                      Check(table, TimerFd, TRUE, "epoll_create1", t1))
  <2>1. table' = Check(timer, WakeupFd, g # NoFd, "eventfd",
                       Registered(Construct(timer, WakeupFd, g), WakeupFd))
      BY DEF NewLoop, t1
  <2>2. timer = t1
      BY <1>1, <1>2 DEF Consistent, Check, WhileRunning
  <2> HIDE DEF timer
  <2>3. t1.failed = "none"
      BY <1>3 DEF Turns
  <2>4. QED
      BY <1>2, <2>1, <2>2, <2>3 DEF Check, WhileRunning
<1> HIDE DEF r
<1>7. /\ table'.failed = "none"
      /\ table'.state[WakeupFd] = "Added" /\ table'.events[WakeupFd] = {"read"}
      /\ table'.state[TimerFd] = "Added" /\ table'.events[TimerFd] = {"read"}
      /\ \A k \in Handler \ {TimerFd, WakeupFd} :
            table'.state[k] = table.state[k] /\ table'.events[k] = table.events[k]
    BY <1>4, <1>5, <1>6, TurnsParts
<1>8. /\ life' = [life EXCEPT ![TimerFd] = "live", ![WakeupFd] = "live"]
      /\ life \in [Handler -> {"unborn", "live", "dropped", "dead"}]
      /\ UNCHANGED <<idleFd, connecting>>
    BY DEF NewLoop, TypeOK
<1>9. Holders' = S2 /\ Reserve' = Reserve
    BY <1>7, <1>8 DEF Holders, Reserve, Exists
<1>10. LoopStage' /\ ServerStage' /\ ClientStage'
    BY <1>7, <1>8 DEF Core, LoopStage, ServerStage, ClientStage, Exists
<1>11. QED
    BY <1>5, <1>6, <1>9, <1>10 DEF Safe, Core

LEMMA StepNewServer ==
    ASSUME TypeOK, Core, NEW f \in Offered, NEW g \in Offered, NEW bound \in BOOLEAN,
           NewServer(f, g, bound)
    PROVE  Safe'
<1> USE HandlerKinds, Distinct
<1> DEFINE t1 == Construct(table, Listener, f)
           reserve == {g} \ {NoFd}
           r == [t1 EXCEPT !.open = @ \cup reserve]
           S1 == Holders \cup {Listener}
<1>1. /\ table \in TableType /\ Holders \in SUBSET Handler /\ Consistent(table, Holders, Reserve)
      /\ table.failed = "none"
    BY CoreFacts DEF Core, Consistent
<1>2. table' = Check(table, Listener, f # NoFd, "socket", Check(table, Listener, bound, "bind", r))
    BY DEF NewServer
<1> HIDE DEF r
<1>3. ASSUME f = NoFd \/ ~bound PROVE Safe'
  <2>1. PICK call \in {"socket", "bind"} : table' = Abort(table, Listener, call)
      BY <1>1, <1>2, <1>3 DEF Check, WhileRunning
  <2>2. table'.failed = call /\ table'.culprit = Listener
      BY <1>1, <2>1, AbortDone DEF Failure
  <2>3. QED
      BY <2>2, RefusedIsSafe DEF KernelRefused
<1>4. ASSUME f # NoFd, bound PROVE Safe'
  <2>1. table' = r
      BY <1>1, <1>2, <1>4 DEF Check, WhileRunning
  <2>2. /\ f \in Fd /\ f \notin table.open /\ Reserve \ {f} = Reserve
        /\ f # g /\ (g # NoFd => g \in Fd /\ g \notin table.open)
        /\ Listener \in Handler \ Holders /\ S1 \in SUBSET Handler
      BY <1>1, <1>4, CoreFacts DEF NewServer, Holders, Unused, Exists, Offered, Free
  <2>3. /\ Turns(table, t1, Listener, "New", {}) /\ t1.open = table.open \cup {f}
        /\ Consistent(t1, S1, Reserve)
    <3>1. Turns(table, t1, Listener, "New", {}) /\ t1.open = table.open \cup {f}
          /\ Consistent(t1, S1, Reserve \ {f})
        BY <1>1, <2>2, ConstructDone
    <3>2. QED
        BY <2>2, <3>1
  <2> HIDE DEF t1
  <2>4. /\ t1 \in TableType
        /\ \A k \in Handler \ {Listener} :
              t1.state[k] = table.state[k] /\ t1.events[k] = table.events[k]
      BY <1>1, <2>3, TurnsParts
  <2>5. Consistent(r, S1, Reserve \cup reserve)
    <3>1. CASE g = NoFd
      <4>1. reserve = {} /\ [t1 EXCEPT !.open = t1.open] = t1
          BY <2>4, <3>1 DEF TableType
      <4>2. r = t1
          BY <4>1 DEF r
      <4>3. QED
          BY <2>3, <4>1, <4>2
    <3>2. CASE g # NoFd
      <4>1. reserve = {g} /\ g \in Fd \ t1.open
          BY <2>2, <2>3, <3>2
      <4>2. QED
          BY <2>2, <2>3, <2>4, <4>1, ReserveOpened DEF r
    <3>3. QED
        BY <3>1, <3>2
  <2>6. r.state = t1.state /\ r.events = t1.events
      BY <2>4 DEF r, TableType
  <2>7. \A k \in Handler \ {Listener} :
            table'.state[k] = table.state[k] /\ table'.events[k] = table.events[k]
      BY <2>1, <2>4, <2>6
  <2>8. /\ life' = [life EXCEPT ![Listener] = "live"] /\ ~Exists(Listener) /\ Unused(Listener)
        /\ life \in [Handler -> {"unborn", "live", "dropped", "dead"}]
        /\ idleFd' = g /\ UNCHANGED connecting
      BY DEF NewServer, TypeOK, Unused, Exists
  <2>9. Reserve = {}
      BY <2>8 DEF Core, ServerStage, Reserve
  <2>10. Holders' = S1 /\ Reserve' = reserve
      BY <2>7, <2>8 DEF Holders, Reserve, Exists
  <2>11. LoopStage' /\ ServerStage' /\ ClientStage'
      BY <2>7, <2>8 DEF Core, LoopStage, ServerStage, ClientStage, Exists
  <2>12. QED
      BY <2>1, <2>5, <2>9, <2>10, <2>11 DEF Safe, Core
<1>5. QED
    BY <1>3, <1>4

LEMMA StepStartServerRefused ==
    ASSUME TypeOK, Core, StartServer(FALSE)
    PROVE  Safe'
<1>1. table \in TableType /\ table.failed = "none"
    BY CoreFacts DEF Running
<1>2. table' = Abort(table, Listener, "listen")
    BY <1>1 DEF StartServer, Check, WhileRunning
<1>3. table'.failed = "listen" /\ table'.culprit = Listener
    BY <1>1, <1>2, AbortDone, HandlerKinds DEF Failure
<1>4. QED
    BY <1>3, RefusedIsSafe DEF KernelRefused

LEMMA StepStartServer ==
    ASSUME TypeOK, Core, StartServer(TRUE)
    PROVE  Safe'
<1> USE HandlerKinds, Distinct
<1>1. /\ table \in TableType /\ Holders \in SUBSET Handler /\ Consistent(table, Holders, Reserve)
      /\ {"read"} \in SUBSET Event
    BY CoreFacts DEF Core, Event
<1>2. Listener \in Holders /\ table.state[Listener] = "New"
    BY DEF StartServer, Holders, Exists
<1>3. Turns(table, table', Listener, "Added", {"read"}) /\ Consistent(table', Holders, Reserve)
  <2>1. table' = Registered(table, Listener)
      BY <1>1 DEF StartServer, Consistent, Check, WhileRunning
  <2>2. QED
      BY <1>1, <1>2, <2>1, StartDone DEF Registered
<1>4. \A k \in Handler \ {Listener} :
          table'.state[k] = table.state[k] /\ table'.events[k] = table.events[k]
    BY <1>1, <1>3, TurnsParts
<1>5. UNCHANGED <<life, idleFd, connecting>>
    BY DEF StartServer
<1>6. Holders' = Holders /\ Reserve' = Reserve
    BY <1>4, <1>5 DEF Holders, Reserve, Exists
<1>7. LoopStage' /\ ServerStage' /\ ClientStage'
    BY <1>4, <1>5 DEF Core, LoopStage, ServerStage, ClientStage, Exists
<1>8. QED
    BY <1>3, <1>6, <1>7 DEF Safe, Core

LEMMA StepAccept ==
    ASSUME TypeOK, Core, NEW h \in ServerLink, NEW f \in Free, Accept(h, f)
    PROVE  Safe'
<1> USE HandlerKinds, Distinct
<1>1. /\ table \in TableType /\ Holders \in SUBSET Handler /\ Consistent(table, Holders, Reserve)
      /\ f \in Fd /\ f \notin table.open /\ Reserve \ {f} = Reserve
    BY CoreFacts DEF Core
<1>2. h \in Handler \ Holders
    BY DEF Accept, Holders, Unused, Exists
<1>3. Turns(table, table', h, "Added", {"read"}) /\ Consistent(table', Holders \cup {h}, Reserve)
  <2>1. /\ Turns(table, table', h, "Added", {"read"})
        /\ Consistent(table', Holders \cup {h}, Reserve \ {f})
      BY <1>1, <1>2, JoinDone DEF Accept
  <2>2. QED
      BY <1>1, <2>1
<1>4. /\ table'.state[h] = "Added" /\ table'.events[h] = {"read"}
      /\ \A k \in Handler \ {h} :
            table'.state[k] = table.state[k] /\ table'.events[k] = table.events[k]
    BY <1>1, <1>2, <1>3, TurnsParts
<1>5. /\ life' = [life EXCEPT ![h] = "live"] /\ UNCHANGED <<idleFd, connecting>>
      /\ life \in [Handler -> {"unborn", "live", "dropped", "dead"}]
    BY DEF Accept, TypeOK
<1>6. Holders' = Holders \cup {h} /\ Reserve' = Reserve
    BY <1>2, <1>4, <1>5 DEF Holders, Reserve, Exists
<1>7. LoopStage' /\ ServerStage' /\ ClientStage'
    BY <1>2, <1>4, <1>5 DEF Core, LoopStage, ServerStage, ClientStage, Exists
<1>8. QED
    BY <1>3, <1>6, <1>7 DEF Safe, Core

LEMMA StepLink ==
    ASSUME TypeOK, Core, NEW h \in ServerLink \cup ClientLink, BlockedSend(h) \/ BufferSent(h)
    PROVE  Safe'
<1> USE HandlerKinds, Distinct
<1>1. /\ table \in TableType /\ Holders \in SUBSET Handler /\ Consistent(table, Holders, Reserve)
    BY CoreFacts DEF Core
<1>2. life[h] = "live" /\ h \in Holders /\ table.state[h] = "Added" /\ "read" \in table.events[h]
    BY DEF BlockedSend, BufferSent, Core, ServerStage, Holders, Exists
<1>3. PICK events \in SUBSET Event :
          /\ "read" \in events
          /\ table' = UpdateInPoll(SetEvents(table, h, events), h, "ModEvent")
  <2>1. table.events[h] \in SUBSET Event
      BY <1>1, <1>2 DEF TableType
  <2>2. QED
      BY <1>2, <2>1 DEF BlockedSend, BufferSent, Event
<1>4. Turns(table, table', h, "Added", events) /\ Consistent(table', Holders, Reserve)
    BY <1>1, <1>2, <1>3, ModDone
<1>5. /\ table'.state[h] = "Added" /\ table'.events[h] = events
      /\ \A k \in Handler \ {h} :
            table'.state[k] = table.state[k] /\ table'.events[k] = table.events[k]
    BY <1>1, <1>2, <1>4, TurnsParts
<1>6. UNCHANGED <<life, idleFd, connecting>>
    BY DEF BlockedSend, BufferSent
<1>7. Holders' = Holders /\ Reserve' = Reserve
    BY <1>5, <1>6 DEF Holders, Reserve, Exists
<1>8. LoopStage' /\ ServerStage' /\ ClientStage'
    BY <1>2, <1>3, <1>5, <1>6 DEF Core, LoopStage, ServerStage, ClientStage, Exists
<1>9. QED
    BY <1>4, <1>7, <1>8 DEF Safe, Core

LEMMA StepDestroyLoop ==
    ASSUME TypeOK, Core, DestroyLoop
    PROVE  Safe'
<1> USE HandlerKinds, Distinct
<1> DEFINE t1 == Destruct(table, WakeupFd)
           t2 == UpdateInPoll(t1, TimerFd, "DelEvent")
           S1 == Holders \ {WakeupFd}
<1>1. /\ table \in TableType /\ Holders \in SUBSET Handler /\ Consistent(table, Holders, Reserve)
      /\ S1 \in SUBSET Handler
    BY CoreFacts DEF Core
<1>2. /\ WakeupFd \in Holders /\ TimerFd \in S1
      /\ table.state[WakeupFd] = "Added" /\ table.state[TimerFd] = "Added"
      /\ table.events[TimerFd] = {"read"}
    BY DEF DestroyLoop, Core, LoopStage, Holders, Exists
<1>3. Turns(table, t1, WakeupFd, "New", {}) /\ Consistent(t1, S1, Reserve)
    BY <1>1, <1>2, DestructDone
<1>4. table' = Destruct(Close(t2, table.fd[TimerFd]), TimerFd)
    BY DEF DestroyLoop
<1> HIDE DEF t1
<1>5. t1 \in TableType /\ t1.state[TimerFd] = "Added" /\ t1.events[TimerFd] = {"read"}
    BY <1>1, <1>2, <1>3, TurnsParts
<1>6. t1.fd2handler[t1.fd[TimerFd]] = TimerFd /\ t1.failed = "none"
    BY <1>1, <1>2, <1>3, <1>5, Entries
<1>7. t2 = Abort(t1, TimerFd, "isNoneEvent")
    BY <1>5, <1>6 DEF UpdateInPoll, RemoveHandler, Check, WhileRunning
<1> HIDE DEF t2
<1>8. t2.failed = "isNoneEvent" /\ t2.culprit = TimerFd
    BY <1>5, <1>7 DEF Abort, TableType
<1>9. table' = t2
    BY <1>4, <1>8, Frozen
<1>10. QED
    BY <1>8, <1>9 DEF Safe, Running, FailuresAreKnown

LEMMA StepAcceptFails ==
    ASSUME TypeOK, Core, AcceptFails
    PROVE  Safe'
<1>1. table'.failed = "accept" /\ table'.culprit = Listener
    BY CoreFacts, AbortDone, HandlerKinds DEF AcceptFails, Failure
<1>2. QED
    BY <1>1, RefusedIsSafe DEF KernelRefused

\* A link that is destroyed, by itself or with its server.
LEMMA StepDestruct ==
    ASSUME TypeOK, Core, NEW h \in ServerLink, LastReference(h) \/ DestroyServerLink(h)
    PROVE  Safe'
<1> USE HandlerKinds, Distinct
<1>1. /\ table \in TableType /\ Holders \in SUBSET Handler /\ Consistent(table, Holders, Reserve)
    BY CoreFacts DEF Core
<1>2. h \in Holders /\ table.state[h] # "New"
    BY DEF LastReference, DestroyServerLink, Core, ServerStage, Holders, Exists
<1>3. Turns(table, table', h, "New", {}) /\ Consistent(table', Holders \ {h}, Reserve)
    BY <1>1, <1>2, DestructDone DEF LastReference, DestroyServerLink
<1>4. \A k \in Handler \ {h} : table'.state[k] = table.state[k] /\ table'.events[k] = table.events[k]
    BY <1>1, <1>2, <1>3, TurnsParts
<1>5. /\ life' = [life EXCEPT ![h] = "dead"] /\ UNCHANGED <<idleFd, connecting>>
      /\ life \in [Handler -> {"unborn", "live", "dropped", "dead"}]
    BY DEF LastReference, DestroyServerLink, TypeOK
<1>6. Holders' = Holders \ {h} /\ Reserve' = Reserve
    BY <1>2, <1>4, <1>5 DEF Holders, Reserve, Exists
<1>7. LoopStage' /\ ServerStage' /\ ClientStage'
    BY <1>2, <1>4, <1>5 DEF Core, LoopStage, ServerStage, ClientStage, Exists
<1>8. QED
    BY <1>3, <1>6, <1>7 DEF Safe, Core

LEMMA StepServerLinkClose ==
    ASSUME TypeOK, Core, NEW h \in ServerLink, NEW shared \in BOOLEAN, ServerLinkClose(h, shared)
    PROVE  Safe'
<1> USE HandlerKinds, Distinct
<1> DEFINE t1 == Closed(table, h)
<1>1. /\ table \in TableType /\ Holders \in SUBSET Handler /\ Consistent(table, Holders, Reserve)
      /\ {} \in SUBSET Event
    BY CoreFacts DEF Core
<1>2. h \in Holders /\ table.state[h] = "Added"
    BY DEF ServerLinkClose, Core, ServerStage, Holders, Exists
<1>3. Turns(table, t1, h, "Deleted", {}) /\ Consistent(t1, Holders, Reserve)
    BY <1>1, <1>2, ModDone DEF Closed
<1> HIDE DEF t1
<1>4. /\ t1 \in TableType /\ t1.state[h] = "Deleted"
      /\ \A k \in Handler \ {h} : t1.state[k] = table.state[k] /\ t1.events[k] = table.events[k]
    BY <1>1, <1>2, <1>3, TurnsParts
<1>5. /\ life' = [life EXCEPT ![h] = IF shared THEN "dropped" ELSE "dead"]
      /\ UNCHANGED <<idleFd, connecting>>
      /\ life \in [Handler -> {"unborn", "live", "dropped", "dead"}]
    BY DEF ServerLinkClose, LifeLeft, TypeOK
<1>6. CASE shared
  <2>1. table' = t1
      BY <1>6 DEF ServerLinkClose, LetGo, t1
  <2>2. Holders' = Holders /\ Reserve' = Reserve
      BY <1>2, <1>4, <1>5, <1>6, <2>1 DEF Holders, Reserve, Exists
  <2>3. LoopStage' /\ ServerStage' /\ ClientStage'
      BY <1>2, <1>4, <1>5, <1>6, <2>1 DEF Core, LoopStage, ServerStage, ClientStage, Exists
  <2>4. QED
      BY <1>3, <2>1, <2>2, <2>3 DEF Safe, Core
<1>7. CASE ~shared
  <2>1. table' = Destruct(t1, h)
      BY <1>7 DEF ServerLinkClose, LetGo, t1
  <2>2. Turns(t1, table', h, "New", {}) /\ Consistent(table', Holders \ {h}, Reserve)
      BY <1>1, <1>2, <1>3, <1>4, <2>1, DestructDone
  <2>3. \A k \in Handler \ {h} :
            table'.state[k] = table.state[k] /\ table'.events[k] = table.events[k]
      BY <1>2, <1>4, <2>2, TurnsParts
  <2>4. Holders' = Holders \ {h} /\ Reserve' = Reserve
      BY <1>2, <1>5, <1>7, <2>3 DEF Holders, Reserve, Exists
  <2>5. LoopStage' /\ ServerStage' /\ ClientStage'
      BY <1>2, <1>5, <1>7, <2>3 DEF Core, LoopStage, ServerStage, ClientStage, Exists
  <2>6. QED
      BY <2>2, <2>4, <2>5 DEF Safe, Core
<1>8. QED
    BY <1>6, <1>7

LEMMA StepDestroyServer ==
    ASSUME TypeOK, Core, DestroyServer
    PROVE  Safe'
<1> USE HandlerKinds, Distinct
<1>1. /\ life' = [life EXCEPT ![Listener] = "dropped"] /\ life[Listener] = "live"
      /\ UNCHANGED <<table, idleFd, connecting>>
      /\ life \in [Handler -> {"unborn", "live", "dropped", "dead"}]
    BY DEF DestroyServer, TypeOK
<1>2. Holders' = Holders /\ Reserve' = Reserve
    BY <1>1 DEF Holders, Reserve, Exists
<1>3. LoopStage' /\ ServerStage' /\ ClientStage'
    BY <1>1 DEF Core, LoopStage, ServerStage, ClientStage, Exists
<1>4. QED
    BY <1>1, <1>2, <1>3 DEF Safe, Core

LEMMA StepDestroyListener ==
    ASSUME TypeOK, Core, DestroyListener
    PROVE  Safe'
<1> USE HandlerKinds, Distinct
<1> DEFINE t1 == Close(table, idleFd)
<1>1. /\ table \in TableType /\ Holders \in SUBSET Handler /\ Consistent(table, Holders, Reserve)
      /\ Running /\ Reserve \subseteq table.open
    BY CoreFacts DEF Core
<1>2. Listener \in Holders /\ (idleFd # NoFd => idleFd \in Reserve /\ Reserve = {idleFd})
    BY DEF DestroyListener, Destroying, Holders, Reserve, Exists
<1>3. Consistent(t1, Holders, Reserve \ {idleFd}) /\ t1 \in TableType
      /\ t1.state = table.state /\ t1.events = table.events
  <2>1. CASE idleFd # NoFd
    <3>1. Consistent(t1, Holders, Reserve \ {idleFd}) /\ t1 \in TableType
        BY <1>1, <1>2, <2>1, ReserveClosed, CloseType
    <3>2. SetsInterest(table, t1, idleFd, NoHandler, {}, table.open \ {idleFd})
        BY <1>1, <1>2, <2>1, CloseDone DEF Running
    <3>3. QED
        BY <3>1, <3>2 DEF SetsInterest
  <2>2. CASE idleFd = NoFd
    <3>1. t1 = table /\ Reserve \ {idleFd} = Reserve
        BY <1>1, <2>2 DEF Close, WhileRunning, TableType, Reserve
    <3>2. QED
        BY <1>1, <3>1
  <2>3. QED
      BY <2>1, <2>2
<1>4. table' = Destruct(t1, Listener)
    BY DEF DestroyListener
<1> HIDE DEF t1
<1>5. CASE t1.state[Listener] = "New"
  <2>1. table'.failed = "unregistered" /\ table'.culprit = Listener /\ table'.state = t1.state
      BY <1>1, <1>3, <1>4, <1>5, RemoveUnknown
  <2>2. QED
      BY <1>5, <2>1 DEF Safe, Running, FailuresAreKnown
<1>6. CASE t1.state[Listener] # "New"
  <2>1. /\ Turns(t1, table', Listener, "New", {})
        /\ Consistent(table', Holders \ {Listener}, Reserve \ {idleFd})
      BY <1>1, <1>2, <1>3, <1>4, <1>6, DestructDone
  <2>2. \A k \in Handler \ {Listener} :
            table'.state[k] = table.state[k] /\ table'.events[k] = table.events[k]
      BY <1>3, <2>1, TurnsParts
  <2>3. /\ life' = [life EXCEPT ![Listener] = "dead"] /\ idleFd' = NoFd /\ UNCHANGED connecting
        /\ life \in [Handler -> {"unborn", "live", "dropped", "dead"}]
      BY DEF DestroyListener, TypeOK
  <2>4. Holders' = Holders \ {Listener} /\ Reserve' = Reserve \ {idleFd}
      BY <2>2, <2>3 DEF Holders, Reserve, Exists
  <2>5. LoopStage' /\ ServerStage' /\ ClientStage'
      BY <2>2, <2>3 DEF Core, LoopStage, ServerStage, ClientStage, Exists
  <2>6. QED
      BY <2>1, <2>4, <2>5 DEF Safe, Core
<1>7. QED
    BY <1>5, <1>6

LEMMA StepNewClient ==
    ASSUME TypeOK, Core, NewClient
    PROVE  Safe'
<1> USE HandlerKinds, Distinct
<1>1. /\ table \in TableType /\ Holders \in SUBSET Handler /\ Consistent(table, Holders, Reserve)
    BY CoreFacts DEF Core
<1>2. Connector \in Handler \ Holders /\ NoFd \in Fd \cup {NoFd} /\ ~Exists(Connector)
    BY DEF NewClient, Holders, Unused, Exists
<1>3. table.state[Connector] = "New" /\ table.failed = "none"
    BY <1>1, <1>2 DEF Consistent, Views
<1>4. /\ table' \in TableType /\ table'.fd = [table.fd EXCEPT ![Connector] = NoFd]
      /\ table'.open = table.open /\ table'.failed = "none"
      /\ table'.fd2handler = table.fd2handler /\ table'.interest = table.interest
      /\ table'.mask = table.mask
      /\ table'.state = [table.state EXCEPT ![Connector] = "New"]
      /\ table'.events = [table.events EXCEPT ![Connector] = {}]
    BY <1>1, <1>3 DEF NewClient, TableType
<1>5. /\ table'.state = table.state
      /\ \A k \in Handler \ {Connector} : table'.events[k] = table.events[k]
    BY <1>1, <1>3, <1>4 DEF TableType
<1>6. Assigns(table, table', Connector, NoFd, table.open)
    BY <1>4, <1>5 DEF Assigns
<1>7. Consistent(table', Holders, Reserve)
    BY <1>1, <1>2, <1>6, AssignsNothing
<1>8. /\ life' = [life EXCEPT ![Connector] = "live"] /\ UNCHANGED idleFd
      /\ life \in [Handler -> {"unborn", "live", "dropped", "dead"}]
    BY DEF NewClient, TypeOK
<1>9. Holders' = Holders /\ Reserve' = Reserve
    BY <1>2, <1>3, <1>5, <1>8 DEF Holders, Reserve, Exists
<1>10. LoopStage' /\ ServerStage' /\ ClientStage'
    BY <1>2, <1>3, <1>5, <1>8 DEF Core, LoopStage, ServerStage, ClientStage, Exists
<1>11. QED
    BY <1>7, <1>9, <1>10 DEF Safe, Core

LEMMA StepConnectRefused ==
    ASSUME TypeOK, Core, NEW outcome \in Outcome, Connect(NoFd, outcome)
    PROVE  Safe'
<1>1. table'.failed = "socket" /\ table'.culprit = Connector
    BY CoreFacts, ConnectTableRefused DEF Connect, Running
<1>2. QED
    BY <1>1, RefusedIsSafe DEF KernelRefused

LEMMA StepConnect ==
    ASSUME TypeOK, Core, NEW f \in Free, NEW outcome \in Outcome, Connect(f, outcome)
    PROVE  Safe'
<1> USE HandlerKinds, Distinct
<1> DEFINE S2 == Holders \cup {Connector}
<1>1. /\ table \in TableType /\ Holders \in SUBSET Handler /\ Consistent(table, Holders, Reserve)
      /\ f \in Fd \ table.open
    BY CoreFacts DEF Core
<1>2. Connector \notin Holders
    BY DEF Connect, Core, ClientStage, Holders
<1>3. /\ life[Connector] = "live" /\ connecting = "Stopped"
      /\ connecting' = ConnectState(f, outcome) /\ UNCHANGED <<life, idleFd>>
      /\ Reserve' = Reserve
    BY DEF Connect, Reserve
<1>4. CASE outcome = "progress"
  <2>1. Turns(table, table', Connector, "Added", {"write"}) /\ Consistent(table', S2, Reserve)
      BY <1>1, <1>2, <1>4, ConnectTableDone DEF Connect
  <2>2. /\ table'.state[Connector] = "Added"
        /\ \A k \in Handler \ {Connector} :
              table'.state[k] = table.state[k] /\ table'.events[k] = table.events[k]
      BY <1>1, <2>1, TurnsParts
  <2>3. Holders' = S2
      BY <1>3, <2>2 DEF Holders, Exists
  <2>4. LoopStage' /\ ServerStage' /\ ClientStage'
      BY <1>3, <1>4, <2>2
      DEF Core, LoopStage, ServerStage, ClientStage, Exists, ConnectState
  <2>5. QED
      BY <1>3, <2>1, <2>3, <2>4 DEF Safe, Core
<1>5. CASE outcome # "progress"
  <2>1. /\ table'.state = table.state /\ table'.events = table.events
        /\ Consistent(table', Holders, Reserve)
      BY <1>1, <1>2, <1>5, ConnectTableDone DEF Connect
  <2>2. Holders' = Holders
      BY <1>3, <2>1 DEF Holders, Exists
  <2>3. LoopStage' /\ ServerStage' /\ ClientStage'
      BY <1>2, <1>3, <2>1
      DEF Core, LoopStage, ServerStage, ClientStage, Holders, Exists
  <2>4. QED
      BY <1>3, <2>1, <2>2, <2>3 DEF Safe, Core
<1>6. QED
    BY <1>4, <1>5

\* A connector that is still connecting is removed and closed like any handler.
LEMMA ConnectorGone ==
    ASSUME TypeOK, Core, life[Connector] = "live", table' = Destruct(table, Connector),
           life' = life \/ life' = [life EXCEPT ![Connector] = "dead"],
           connecting' \in {"Stopped", connecting}, idleFd' = idleFd,
           \A h \in ClientLink : life[h] # "live"
    PROVE  Safe'
<1> USE HandlerKinds, Distinct
<1>1. /\ table \in TableType /\ Holders \in SUBSET Handler /\ Consistent(table, Holders, Reserve)
      /\ life \in [Handler -> {"unborn", "live", "dropped", "dead"}]
    BY CoreFacts DEF Core, TypeOK
<1>2. CASE table.state[Connector] = "Added"
  <2>1. Connector \in Holders
      BY <1>2 DEF Holders, Exists
  <2>2. /\ Turns(table, table', Connector, "New", {})
        /\ Consistent(table', Holders \ {Connector}, Reserve)
      BY <1>1, <1>2, <2>1, DestructDone
  <2>3. /\ table'.state[Connector] = "New"
        /\ \A k \in Handler \ {Connector} :
              table'.state[k] = table.state[k] /\ table'.events[k] = table.events[k]
      BY <1>1, <2>2, TurnsParts
  <2>4. Holders' = Holders \ {Connector} /\ Reserve' = Reserve
      BY <1>1, <2>3 DEF Holders, Reserve, Exists
  <2>5. LoopStage' /\ ServerStage' /\ ClientStage'
      BY <1>1, <2>3 DEF Core, LoopStage, ServerStage, ClientStage, Exists
  <2>6. QED
      BY <2>2, <2>4, <2>5 DEF Safe, Core
<1>3. CASE table.state[Connector] # "Added"
  <2>1. table.state[Connector] = "New"
      BY <1>1, <1>3 DEF Consistent, Views, Holders
  <2>2. table'.failed = "unregistered" /\ table'.culprit = Connector
      BY <1>1, <2>1, RemoveUnknown
  <2>3. QED
      BY <2>2 DEF Safe, Running, FailuresAreKnown
<1>4. QED
    BY <1>2, <1>3

LEMMA NoLinkWhileConnecting ==
    ASSUME Core, connecting = "Connecting"
    PROVE  \A h \in ClientLink : life[h] # "live"
BY DEF Core, ClientStage

LEMMA StepConnectorGone ==
    ASSUME TypeOK, Core, ConnectFailed \/ StopConnecting \/ DestroyClient
    PROVE  Safe'
<1>1. CASE ConnectFailed \/ StopConnecting
  <2>1. /\ life[Connector] = "live" /\ connecting = "Connecting"
        /\ table' = Close(ConnectorRemoved, table.fd[Connector])
        /\ connecting' = "Stopped" /\ UNCHANGED <<life, idleFd>>
      BY <1>1 DEF ConnectFailed, StopConnecting, ConnectorWritable
  <2>2. table' = Destruct(table, Connector)
      BY <2>1 DEF ConnectorRemoved, Destruct
  <2>3. QED
      BY <2>1, <2>2, NoLinkWhileConnecting, ConnectorGone
<1>2. CASE DestroyClient
    BY <1>2, ConnectorGone DEF DestroyClient
<1>3. QED
    BY <1>1, <1>2

LEMMA StepConnected ==
    ASSUME TypeOK, Core, NEW h \in ClientLink, Connected(h)
    PROVE  Safe'
<1> USE HandlerKinds, Distinct
<1> DEFINE t1 == ConnectorRemoved
           f == table.fd[Connector]
           S1 == Holders \ {Connector}
           X1 == Reserve \cup {f}
<1>1. /\ table \in TableType /\ Holders \in SUBSET Handler /\ Consistent(table, Holders, Reserve)
    BY CoreFacts DEF Core
<1>2. /\ Connector \in Holders /\ table.state[Connector] = "Added" /\ h \in Handler \ S1
      /\ S1 \in SUBSET Handler /\ f \in X1
    BY DEF Connected, ConnectorWritable, Holders, Unused, Exists
<1>3. f \in Fd /\ X1 \ {f} = Reserve
    BY <1>1, <1>2, Entries DEF Consistent, Held
<1>4. Turns(table, t1, Connector, "New", {}) /\ Consistent(t1, S1, X1)
    BY <1>1, <1>2, RemoveDone DEF ConnectorRemoved
<1>5. table' = Registered(Construct(t1, h, f), h)
    BY DEF Connected
<1> HIDE DEF t1, X1
<1>6. /\ t1 \in TableType /\ t1.state[Connector] = "New"
      /\ \A k \in Handler \ {Connector} :
            t1.state[k] = table.state[k] /\ t1.events[k] = table.events[k]
    BY <1>1, <1>4, TurnsParts
<1>7. Turns(t1, table', h, "Added", {"read"}) /\ Consistent(table', S1 \cup {h}, X1 \ {f})
    BY <1>2, <1>3, <1>4, <1>5, <1>6, JoinDone
<1>8. /\ table'.state[h] = "Added" /\ table'.events[h] = {"read"} /\ table'.state[Connector] = "New"
      /\ \A k \in Handler \ {Connector, h} :
            table'.state[k] = table.state[k] /\ table'.events[k] = table.events[k]
    BY <1>2, <1>6, <1>7, TurnsParts
<1>9. /\ life' = [life EXCEPT ![h] = "live"] /\ idleFd' = idleFd /\ connecting' = "Connected"
      /\ life \in [Handler -> {"unborn", "live", "dropped", "dead"}] /\ life[Connector] = "live"
    BY DEF Connected, ConnectorWritable, TypeOK
<1>10. Holders' = S1 \cup {h} /\ Reserve' = Reserve
    BY <1>2, <1>8, <1>9 DEF Holders, Reserve, Exists
<1>11. LoopStage' /\ ServerStage' /\ ClientStage'
    BY <1>2, <1>8, <1>9 DEF Core, LoopStage, ServerStage, ClientStage, Exists
<1>12. QED
    BY <1>3, <1>7, <1>10, <1>11 DEF Safe, Core

LEMMA StepPeerGone ==
    ASSUME TypeOK, Core, PeerGone
    PROVE  Safe'
<1> USE HandlerKinds
<1> DEFINE t1 == ConnectorRemoved
<1>1. /\ table \in TableType /\ Holders \in SUBSET Handler /\ Consistent(table, Holders, Reserve)
      /\ Connector \in Holders /\ table.state[Connector] = "Added"
    BY CoreFacts DEF Core, PeerGone, ConnectorWritable, Holders, Exists
<1>2. Turns(table, t1, Connector, "New", {})
    BY <1>1, RemoveDone DEF ConnectorRemoved
<1>3. table' = Check(t1, Connector, FALSE, "getpeername", t1)
    BY DEF PeerGone
<1> HIDE DEF t1
<1>4. t1 \in TableType /\ t1.failed = "none"
    BY <1>2 DEF Turns
<1>5. table' = Abort(t1, Connector, "getpeername")
    BY <1>3, <1>4 DEF Check, WhileRunning
<1>6. table'.failed = "getpeername" /\ table'.culprit = Connector
    BY <1>4, <1>5, AbortDone DEF Failure
<1>7. QED
    BY <1>6, RefusedIsSafe DEF KernelRefused

\* The link of a client once its owner has removed it: it still holds its descriptor.
LEMMA ClientLinkLeft ==
    ASSUME TypeOK, Core, NEW h \in ClientLink, life[h] = "live"
    PROVE  LET t1 == ClientLinkRemoved(h) IN
           /\ Turns(table, t1, h, "New", {}) /\ t1.open = table.open
           /\ Consistent(t1, Holders, Reserve)
           /\ h \in Holders /\ Connector \notin Holders /\ connecting = "Connected"
           /\ \A k \in ClientLink \ {h} : life[k] # "live"
<1> USE HandlerKinds, Distinct
<1>1. /\ table \in TableType /\ Holders \in SUBSET Handler /\ Consistent(table, Holders, Reserve)
    BY CoreFacts DEF Core
<1>2. /\ h \in Holders /\ table.state[h] = "Added" /\ Connector \notin Holders
      /\ connecting = "Connected" /\ \A k \in ClientLink \ {h} : life[k] # "live"
    BY DEF Core, ServerStage, ClientStage, Holders, Exists
<1>3. QED
    BY <1>1, <1>2, RemoveClosedDone DEF ClientLinkRemoved

\* Destroyed, it is removed once too often.
LEMMA ClientLinkGone ==
    ASSUME NEW t \in TableType, NEW S \in SUBSET Handler, NEW X, Consistent(t, S, X),
           NEW h \in ClientLink, t.state[h] = "New", table' = Destruct(t, h)
    PROVE  Safe'
<1>1. table'.failed = "unregistered" /\ table'.culprit = h
    BY HandlerKinds, RemoveUnknown
<1>2. QED
    BY <1>1 DEF Safe, Running, FailuresAreKnown

LEMMA StepClientLinkClose ==
    ASSUME TypeOK, Core, NEW h \in ClientLink, NEW shared \in BOOLEAN, ClientLinkClose(h, shared)
    PROVE  Safe'
<1> USE HandlerKinds, Distinct
<1> DEFINE t1 == ClientLinkRemoved(h)
<1>1. /\ table \in TableType /\ Holders \in SUBSET Handler
      /\ life[h] = "live" /\ table' = LetGo(t1, h, shared)
    BY CoreFacts DEF ClientLinkClose
<1>2. /\ Turns(table, t1, h, "New", {}) /\ Consistent(t1, Holders, Reserve)
      /\ h \in Holders /\ Connector \notin Holders
    BY <1>1, ClientLinkLeft
<1> HIDE DEF t1
<1>3. /\ t1 \in TableType /\ t1.state[h] = "New"
      /\ \A k \in Handler \ {h} : t1.state[k] = table.state[k] /\ t1.events[k] = table.events[k]
    BY <1>1, <1>2, TurnsParts
<1>4. CASE ~shared
    BY <1>1, <1>2, <1>3, <1>4, ClientLinkGone DEF LetGo
<1>5. CASE shared
  <2>1. /\ table' = t1 /\ life' = [life EXCEPT ![h] = "dropped"] /\ UNCHANGED <<idleFd, connecting>>
        /\ life \in [Handler -> {"unborn", "live", "dropped", "dead"}]
      BY <1>1, <1>5 DEF ClientLinkClose, LetGo, LifeLeft, TypeOK
  <2>2. Holders' = Holders /\ Reserve' = Reserve
      BY <1>2, <1>3, <2>1 DEF Holders, Reserve, Exists
  <2>3. LoopStage' /\ ServerStage' /\ ClientStage'
      BY <1>3, <2>1 DEF Core, LoopStage, ServerStage, ClientStage, Exists
  <2>4. QED
      BY <1>2, <2>1, <2>2, <2>3 DEF Safe, Core
<1>6. QED
    BY <1>4, <1>5

LEMMA StepClientLinkCloseRetry ==
    ASSUME TypeOK, Core, NEW h \in ClientLink, NEW shared \in BOOLEAN, NEW f \in Offered,
           NEW outcome \in Outcome, ClientLinkCloseRetry(h, shared, f, outcome)
    PROVE  Safe'
<1> USE HandlerKinds, Distinct
<1> DEFINE t1 == ClientLinkRemoved(h)
           r == ConnectTable(t1, f, outcome)
           S2 == Holders \cup {Connector}
<1>1. /\ table \in TableType /\ Holders \in SUBSET Handler /\ S2 \in SUBSET Handler
      /\ life[h] = "live" /\ table' = LetGo(r, h, shared)
    BY CoreFacts DEF ClientLinkCloseRetry
<1>2. /\ Turns(table, t1, h, "New", {}) /\ t1.open = table.open /\ Consistent(t1, Holders, Reserve)
      /\ h \in Holders /\ Connector \notin Holders
      /\ \A k \in ClientLink \ {h} : life[k] # "live"
    BY <1>1, ClientLinkLeft
<1> HIDE DEF t1
<1>3. /\ t1 \in TableType /\ t1.failed = "none" /\ t1.state[h] = "New"
      /\ \A k \in Handler \ {h} : t1.state[k] = table.state[k] /\ t1.events[k] = table.events[k]
    BY <1>1, <1>2, TurnsParts
<1>4. CASE f = NoFd
  <2>1. r.failed = "socket" /\ r.culprit = Connector
      BY <1>3, <1>4, ConnectTableRefused
  <2> HIDE DEF r
  <2>2. table' = r
      BY <1>1, <2>1, Frozen DEF LetGo
  <2>3. QED
      BY <2>1, <2>2, RefusedIsSafe DEF KernelRefused
<1>5. CASE f # NoFd
  <2>1. f \in Fd \ t1.open
      BY <1>2, <1>5 DEF Offered, Free
  <2>2. /\ outcome = "progress" => /\ Turns(t1, r, Connector, "Added", {"write"})
                                   /\ Consistent(r, S2, Reserve)
        /\ outcome # "progress" => /\ r \in TableType /\ r.state = t1.state
                                   /\ r.events = t1.events /\ Consistent(r, Holders, Reserve)
      BY <1>1, <1>2, <1>3, <2>1, ConnectTableDone
  <2> HIDE DEF r
  <2>3. /\ r \in TableType /\ r.state[h] = "New"
        /\ r.state[Connector] = IF outcome = "progress" THEN "Added" ELSE "New"
        /\ \A k \in Handler \ {h, Connector} :
              r.state[k] = table.state[k] /\ r.events[k] = table.events[k]
    <3>1. t1.state[Connector] = "New"
        BY <1>2 DEF Consistent, Views
    <3>2. CASE outcome = "progress"
        BY <1>2, <1>3, <2>2, <3>2, TurnsParts
    <3>3. CASE outcome # "progress"
        BY <1>3, <2>2, <3>1, <3>3
    <3>4. QED
        BY <3>2, <3>3
  <2>4. CASE ~shared
      BY <1>1, <2>2, <2>3, <2>4, ClientLinkGone DEF LetGo
  <2>5. CASE shared
    <3>1. /\ table' = r /\ life' = [life EXCEPT ![h] = "dropped"] /\ idleFd' = idleFd
          /\ connecting' = ConnectState(f, outcome)
          /\ life \in [Handler -> {"unborn", "live", "dropped", "dead"}]
        BY <1>1, <2>5 DEF ClientLinkCloseRetry, LetGo, LifeLeft, TypeOK
    <3>2. life[Connector] = "live" /\ life'[Connector] = "live" /\ Reserve' = Reserve
        BY <1>1, <3>1 DEF Core, ClientStage, Reserve
    <3>3. Holders' = IF outcome = "progress" THEN S2 ELSE Holders
        BY <1>2, <2>3, <3>1, <3>2 DEF Holders, Exists
    <3>4. LoopStage' /\ ServerStage' /\ ClientStage'
        BY <1>2, <2>3, <3>1, <3>2
        DEF Core, LoopStage, ServerStage, ClientStage, Exists, ConnectState
    <3>5. QED
        BY <2>2, <3>1, <3>2, <3>3, <3>4 DEF Safe, Core
  <2>6. QED
      BY <2>4, <2>5
<1>6. QED
    BY <1>4, <1>5

LEMMA StepLastClientReference ==
    ASSUME TypeOK, Core, NEW h \in ClientLink, LastReference(h)
    PROVE  Safe'
<1>1. /\ table \in TableType /\ Holders \in SUBSET Handler /\ Consistent(table, Holders, Reserve)
    BY CoreFacts DEF Core
<1>2. table.state[h] = "New" /\ table' = Destruct(table, h)
    BY DEF LastReference, Core, ClientStage
<1>3. QED
    BY <1>1, <1>2, ClientLinkGone

\* A client is destroyed with its link: its connector is not registered any more.
LEMMA StepDestroyLinkedClient ==
    ASSUME TypeOK, Core, NEW h \in ClientLink, NEW shared \in BOOLEAN,
           DestroyLinkedClient(h, shared)
    PROVE  Safe'
<1> USE HandlerKinds, Distinct
<1> DEFINE t1 == LetGo(table, h, shared)
<1>1. /\ table \in TableType /\ Holders \in SUBSET Handler /\ Consistent(table, Holders, Reserve)
      /\ life[h] = "live" /\ h \in Handler
    BY CoreFacts DEF Core, DestroyLinkedClient
<1>2. h \in Holders /\ table.state[h] = "Added" /\ Connector \notin Holders /\ h # Connector
    BY <1>1 DEF Core, ServerStage, ClientStage, Holders, Exists
<1>3. table.state[Connector] = "New"
    BY <1>1, <1>2 DEF Consistent, Views
<1>4. PICK S \in SUBSET Handler :
          t1 \in TableType /\ t1.state[Connector] = "New" /\ Consistent(t1, S, Reserve)
  <2>1. CASE shared
      BY <1>1, <1>3, <2>1 DEF LetGo
  <2>2. CASE ~shared
    <3> DEFINE S1 == Holders \ {h}
    <3>1. t1 = Destruct(table, h)
        BY <2>2 DEF LetGo
    <3> HIDE DEF t1
    <3>2. Turns(table, t1, h, "New", {}) /\ Consistent(t1, S1, Reserve)
        BY <1>1, <1>2, <3>1, DestructDone
    <3>3. t1 \in TableType /\ t1.state[Connector] = "New"
        BY <1>1, <1>2, <1>3, <3>2, TurnsParts
    <3>4. QED
        BY <1>1, <3>2, <3>3
  <2>3. QED
      BY <2>1, <2>2
<1>5. table' = Destruct(t1, Connector)
    BY DEF DestroyLinkedClient
<1> HIDE DEF t1
<1>6. table'.failed = "unregistered" /\ table'.culprit = Connector
    BY <1>4, <1>5, RemoveUnknown
<1>7. QED
    BY <1>6 DEF Safe, Running, FailuresAreKnown

LEMMA InvInit == Init => IInv
<1> SUFFICES ASSUME Init PROVE IInv
    OBVIOUS
<1>1. /\ \A h \in Handler : life[h] = "unborn" /\ table.state[h] = "New"
      /\ table.failed = "none" /\ table.open = {}
      /\ table.fd = [h \in Handler |-> NoFd]
      /\ table.fd2handler = [f \in Fd \cup {NoFd} |-> NoHandler]
      /\ table.interest = [f \in Fd |-> NoHandler]
      /\ idleFd = NoFd
    BY DEF Init
<1>2. Holders = {} /\ Reserve = {}
    BY <1>1 DEF Holders, Reserve, Exists
<1>3. Consistent(table, {}, {})
    BY <1>1, Distinct DEF Consistent, Held, Views
<1>4. LoopStage /\ ServerStage /\ ClientStage
    BY <1>1, HandlerKinds DEF LoopStage, ServerStage, ClientStage, Exists
<1>5. QED
    BY <1>2, <1>3, <1>4, TypeInit DEF IInv, Safe, Core

LEMMA InvStep == IInv /\ [Next]_vars => IInv'
<1> SUFFICES ASSUME IInv, [Next]_vars PROVE IInv'
    OBVIOUS
<1>1. CASE UNCHANGED vars
    BY <1>1 DEF vars, IInv, TypeOK, Safe, Core, Consistent, Held, Views, Holders, Reserve, Exists,
                LoopStage, ServerStage, ClientStage, Running, FailuresAreKnown, KernelRefused
<1>2. CASE Next
  <2>1. TypeOK /\ Core
      BY <1>2 DEF IInv, Safe, Next
  <2>2. table.state[Connector] = "Added" => table.fd[Connector] \in table.open
      BY <2>1, HandlerKinds DEF Core, Consistent, Held, Views
  <2>3. TypeOK'
      BY <2>1, <2>2, TypeStep
  <2>4. ASSUME LoopOp PROVE Safe'
      BY <2>1, <2>4, StepNewLoopRefused, StepNewLoop, StepDestroyLoop
      DEF LoopOp, Offered
  <2>5. ASSUME ServerOp PROVE Safe'
      BY <2>1, <2>5, StepNewServer, StepStartServerRefused, StepStartServer, StepAccept,
         StepAcceptFails, StepServerLinkClose, StepDestroyServer
      DEF ServerOp
  <2>6. ASSUME ClientOp PROVE Safe'
      BY <2>1, <2>6, StepNewClient, StepConnectRefused, StepConnect, StepConnectorGone,
         StepConnected, StepPeerGone, StepClientLinkClose, StepClientLinkCloseRetry,
         StepDestroyLinkedClient
      DEF ClientOp, Offered
  <2>7. ASSUME LinkOp PROVE Safe'
      BY <2>1, <2>7, StepLink, StepDestruct, StepLastClientReference DEF LinkOp
  <2>8. ASSUME DestructorOp PROVE Safe'
      BY <2>1, <2>8, StepDestruct, StepDestroyListener DEF DestructorOp
  <2>9. QED
      BY <1>2, <2>3, <2>4, <2>5, <2>6, <2>7, <2>8 DEF Next, IInv
<1>3. QED
    BY <1>1, <1>2

\* The invariant is inductive: no operation leaves it, whatever handlers come and go.
THEOREM PollerInvariant == Spec => []IInv
<1>1. QED
    BY InvInit, InvStep, PTL DEF Spec

-------------------------------------------------------------------------------
(* What the invariant gives. *)

\* The table of handlers and descriptors stays well typed through every operation of
\* the loop, the server and the client.
THEOREM PollerTypeCorrect == Spec => []TypeOK
<1>1. IInv => TypeOK
    BY DEF IInv
<1>2. QED
    BY <1>1, PollerInvariant, PTL

\* However descriptor numbers are given out again, the kernel's interest list, fd2handler
\* and the handlers' own fields agree as long as the process has not aborted.
THEOREM ViewsAgreeHolds == Spec => []ViewsAgree
<1>1. ASSUME IInv PROVE ViewsAgree
  <2>1. ASSUME Running, NEW f \in Fd, NEW h \in Handler
        PROVE  LET owner == Exists(h) /\ table.fd[h] = f IN
               /\ table.interest[f] = h <=> owner /\ table.state[h] = "Added"
               /\ table.interest[f] = h => table.mask[f] = table.events[h]
               /\ table.fd2handler[f] = h <=> owner /\ table.state[h] # "New"
    <3>1. Views(table, Holders)
        BY <1>1, <2>1 DEF IInv, Safe, Core, Consistent
    <3>2. table.state[h] # "New" => Exists(h)
        BY <3>1 DEF Views, Holders
    <3>3. QED
        BY <3>1, <3>2 DEF Views
  <2>2. QED
      BY <2>1 DEF ViewsAgree
<1>2. QED
    BY <1>1, PollerInvariant, PTL

\* No descriptor leaks and none is closed under its owner: what is open is what the existing
\* handlers, the connection attempt under way and the reserve of the server hold.
THEOREM DescriptorsOwnedHolds == Spec => []DescriptorsOwned
<1>1. ASSUME IInv PROVE DescriptorsOwned
  <2>1. ASSUME Running PROVE table.open = Owned
    <3>1. Held(table, Holders, Reserve) /\ Views(table, Holders)
        BY <1>1, <2>1 DEF IInv, Safe, Core, Consistent
    <3>2. Connector \in Holders <=> table.state[Connector] = "Added"
        BY <3>1, HandlerKinds DEF Views, Holders
    <3>3. Owned = {table.fd[h] : h \in Holders} \cup Reserve
        BY <3>2, HandlerKinds DEF Owned, Holders, Reserve
    <3>4. QED
        BY <3>1, <3>3 DEF Held
  <2>2. QED
      BY <2>1 DEF DescriptorsOwned
<1>2. QED
    BY <1>1, PollerInvariant, PTL

\* Beside the calls the kernel refuses, the process aborts in the registration code only where
\* the loop removes its timerfd, a client removes its connector or its link once too often,
\* or a server that was never started is destroyed.
THEOREM FailuresAreKnownHolds == Spec => []FailuresAreKnown
<1>1. IInv => FailuresAreKnown
    BY DEF IInv, Safe, Core, Consistent, FailuresAreKnown
<1>2. QED
    BY <1>1, PollerInvariant, PTL

===============================================================================
