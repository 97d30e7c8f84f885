-------------------------------- MODULE Poller --------------------------------
(***************************************************************************)
(* The registration of descriptors of one loop: Epoll (src/net/Epoll.cpp), *)
(* the FdHandler base class (src/net/FdHandler.cpp), and what each class   *)
(* derived from it does with its registration over its life: the timerfd   *)
(* and the eventfd of the loop, the listening socket, the links of a       *)
(* server, and the connecting socket and the link of a client.             *)
(*                                                                         *)
(* Everything here runs in the loop thread, one callback at a time.  The   *)
(* three views of a descriptor must agree: the handler's own fields, the   *)
(* map fd2handler, and the interest list the kernel keeps for epoll_fd.    *)
(* An assertion that fails, or LOG_FATAL, aborts the process.  The kernel  *)
(* may refuse any call that opens a descriptor, whatever the reason: the   *)
(* limit of the process, which other loops and the program share, the      *)
(* limit of the system, or memory.                                         *)
(***************************************************************************)
EXTENDS Naturals

CONSTANTS
    TimerFd, WakeupFd,      \* the two handlers every EventLoop owns
    Listener,               \* the listening socket of a server
    ServerLink,             \* the links a server accepts
    Connector, ClientLink,  \* the connecting socket of a client, and its links
    Fd,                     \* descriptor numbers left once epoll_fd is open
    NoFd, NoHandler,
    Program                 \* what this program does: a subset of Operation

\* The last three are what a program may avoid: to destroy the loop, a server it
\* never started, or a client.
Operation == {"server", "client", "destroyLoop", "destroyUnstarted", "destroyClient"}

Handler == {TimerFd, WakeupFd, Listener, Connector} \cup ServerLink \cup ClientLink

ASSUME PollerAssumption ==
    /\ NoFd \notin Fd /\ NoHandler \notin Handler
    /\ TimerFd # WakeupFd
    /\ Listener \notin {TimerFd, WakeupFd} /\ Connector \notin {TimerFd, WakeupFd, Listener}
    /\ ServerLink \cap ClientLink = {}
    /\ (ServerLink \cup ClientLink) \cap {TimerFd, WakeupFd, Listener, Connector} = {}
    /\ Program \subseteq Operation

VARIABLES
    life,       \* of each handler: unborn, live, dropped (a closed link that someone
                \* still shares, a server whose destructor runs) or dead
    table,      \* what FdHandler, Epoll and the kernel record, see TableType
    idleFd,     \* idleFd_ of the listening socket
    connecting  \* connectState_ of the connector: Stopped, Connecting, Connected

vars == <<life, table, idleFd, connecting>>

Event == {"read", "write"}      \* kReadEvent, kWriteEvent

\* What aborts the process: an assertion, epoll_ctl, or a refused call.
Failure == {"unregistered", "isNoneEvent", "duplicate", "notAdded", "added", "epoll_ctl",
            "epoll_create1", "timerfd_create", "eventfd", "socket", "bind", "listen",
            "accept", "getpeername"}

TableType ==
    [fd : [Handler -> Fd \cup {NoFd}],                        \* fd_
     events : [Handler -> SUBSET Event],                      \* events_
     state : [Handler -> {"New", "Added", "Deleted"}],        \* state_in_poll
     fd2handler : [Fd \cup {NoFd} -> Handler \cup {NoHandler}],
     interest : [Fd -> Handler \cup {NoHandler}],             \* data.ptr in the kernel
     mask : [Fd -> SUBSET Event],                             \* events in the kernel
     open : SUBSET Fd,
     failed : Failure \cup {"none"},
     culprit : Handler \cup {NoHandler}]                      \* whose step failed

TypeOK == /\ life \in [Handler -> {"unborn", "live", "dropped", "dead"}]
          /\ table \in TableType
          /\ idleFd \in Fd \cup {NoFd}
          /\ connecting \in {"Stopped", "Connecting", "Connected"}

Init ==
    /\ life = [h \in Handler |-> "unborn"]
    /\ table = [fd |-> [h \in Handler |-> NoFd],
                events |-> [h \in Handler |-> {}],
                state |-> [h \in Handler |-> "New"],
                fd2handler |-> [f \in Fd \cup {NoFd} |-> NoHandler],
                interest |-> [f \in Fd |-> NoHandler],
                mask |-> [f \in Fd |-> {}],
                open |-> {},
                failed |-> "none",
                culprit |-> NoHandler]
    /\ idleFd = NoFd
    /\ connecting = "Stopped"

-------------------------------------------------------------------------------
(* Operations on the table t.  The first failure is the last thing that      *)
(* happens: an operation on a table that has failed changes nothing.         *)

WhileRunning(t, t2) == IF t.failed = "none" THEN t2 ELSE t

Abort(t, h, failure) == [t EXCEPT !.failed = failure, !.culprit = h]

\* An assertion, or LOG_FATAL on an error, on behalf of handler h.
Check(t, h, condition, failure, t2) ==
    WhileRunning(t, IF condition THEN t2 ELSE Abort(t, h, failure))

\* The kernel's interest list: descriptor f with data.ptr h.
Watching(t, f, h, events) == [t EXCEPT !.interest[f] = h, !.mask[f] = events]

\* Epoll::update(): epoll_ctl refuses a closed descriptor, to add twice and to
\* change or delete what is not there, and LOG_FATAL follows.
EpollCtl(t, op, h) ==
    LET f == t.fd[h] IN
    Check(t, h, f \in t.open /\ (t.interest[f] = NoHandler <=> op = "ADD"), "epoll_ctl",
          IF op = "DEL" THEN Watching(t, f, NoHandler, {})
                        ELSE Watching(t, f, h, t.events[h]))

\* Mutation: a handler with no events stays marked as added.
UpdateHandlerStaysAdded(t, h) ==
    LET f == t.fd[h] IN
    CASE t.state[h] = "New" ->
           Check(t, h, t.fd2handler[f] = NoHandler, "duplicate",
                 EpollCtl([t EXCEPT !.fd2handler[f] = h, !.state[h] = "Added"], "ADD", h))
      [] t.state[h] = "Deleted" ->
           EpollCtl([t EXCEPT !.state[h] = "Added"], "ADD", h)
      [] OTHER ->
           Check(t, h, t.fd2handler[f] = h, "unregistered",
                 EpollCtl(t, IF t.events[h] = {} THEN "DEL" ELSE "MOD", h))

\* Epoll::updateHandler().
UpdateHandler(t, h) ==
    LET f == t.fd[h] IN
    CASE t.state[h] = "New" ->
           Check(t, h, t.fd2handler[f] = NoHandler, "duplicate",
                 EpollCtl([t EXCEPT !.fd2handler[f] = h, !.state[h] = "Added"], "ADD", h))
      [] t.state[h] = "Deleted" ->
           EpollCtl([t EXCEPT !.state[h] = "Added"], "ADD", h)
      [] OTHER ->
           Check(t, h, t.fd2handler[f] = h, "unregistered",
                 IF t.events[h] = {}
                   THEN EpollCtl([t EXCEPT !.state[h] = "Deleted"], "DEL", h)
                   ELSE EpollCtl(t, "MOD", h))

\* Mutation: a handler is removed and its map entry stays.
RemoveHandlerKeepsEntry(t, h) ==
    LET f == t.fd[h]
        gone == [t EXCEPT !.state[h] = "New"] IN
    Check(t, h, t.fd2handler[f] = h, "unregistered",
    Check(t, h, t.events[h] = {}, "isNoneEvent",
          IF t.state[h] = "Added" THEN EpollCtl(gone, "DEL", h) ELSE gone))

\* Epoll::removeHandler().
RemoveHandler(t, h) ==
    LET f == t.fd[h]
        gone == [t EXCEPT !.fd2handler[f] = NoHandler, !.state[h] = "New"] IN
    Check(t, h, t.fd2handler[f] = h, "unregistered",
    Check(t, h, t.events[h] = {}, "isNoneEvent",
          IF t.state[h] = "Added" THEN EpollCtl(gone, "DEL", h) ELSE gone))

\* FdHandler::updateInPoll().
UpdateInPoll(t, h, flag) ==
    CASE flag = "AddEvent" -> Check(t, h, t.state[h] # "Added", "added", UpdateHandler(t, h))
      [] flag = "ModEvent" -> Check(t, h, t.state[h] = "Added", "notAdded", UpdateHandler(t, h))
      [] flag = "DelEvent" -> RemoveHandler(t, h)

\* enableReading(), disableWriting() and the like: events_ only.
SetEvents(t, h, events) == WhileRunning(t, [t EXCEPT !.events[h] = events])

\* The constructor, on a descriptor the kernel has just handed out.
Construct(t, h, f) ==
    [t EXCEPT !.fd[h] = f, !.events[h] = {}, !.state[h] = "New", !.open = @ \cup {f}]

\* close(): the kernel drops the descriptor from every interest list.
Close(t, f) ==
    WhileRunning(t,
          IF f \notin t.open THEN t
          ELSE [Watching(t, f, NoHandler, {}) EXCEPT !.open = @ \ {f}])

\* Mutation: a handler does not close its descriptor.
DestructLeaks(t, h) ==
    UpdateInPoll(SetEvents(t, h, {}), h, "DelEvent")

\* FdHandler::~FdHandler().
Destruct(t, h) ==
    LET removed == UpdateInPoll(SetEvents(t, h, {}), h, "DelEvent") IN
    Close(removed, t.fd[h])

-------------------------------------------------------------------------------
(* What the classes do. *)

Free == Fd \ table.open
Offered == Free \cup {NoFd}      \* what a call that opens a descriptor returns
Running == table.failed = "none"
Exists(h) == life[h] \in {"live", "dropped"}
Unused(h) == life[h] \in {"unborn", "dead"}

\* enableReading() on a fresh handler, then updateInPoll(AddEvent).
Registered(t, h) == UpdateInPoll(SetEvents(t, h, {"read"}), h, "AddEvent")

\* EventLoop::EventLoop(): the TimerQueue opens its timerfd and registers it, then
\* wakeupFd_ does.  epoll_create1() is not checked, but without epoll_fd the first
\* epoll_ctl fails.
NewLoop(hasEpoll, f, g) ==
    /\ Unused(TimerFd) /\ Unused(WakeupFd)
    /\ f = g => f = NoFd
    /\ LET timer == Check(table, TimerFd, f # NoFd, "timerfd_create",
                    Check(table, TimerFd, hasEpoll, "epoll_create1",
                          Registered(Construct(table, TimerFd, f), TimerFd)))
       IN  table' = Check(timer, WakeupFd, g # NoFd, "eventfd",
                          Registered(Construct(timer, WakeupFd, g), WakeupFd))
    /\ life' = [life EXCEPT ![TimerFd] = "live", ![WakeupFd] = "live"]
    /\ UNCHANGED <<idleFd, connecting>>

\* EventLoop::~EventLoop(): wakeupFd_, then the TimerQueue, whose destructor
\* removes and closes the timerfd before its base class does both again.
DestroyLoop ==
    /\ "destroyLoop" \in Program
    /\ \A h \in Handler : Exists(h) <=> h \in {TimerFd, WakeupFd}
    /\ LET noWakeup == Destruct(table, WakeupFd)
           removed == UpdateInPoll(noWakeup, TimerFd, "DelEvent")
       IN  table' = Destruct(Close(removed, table.fd[TimerFd]), TimerFd)
    /\ life' = [life EXCEPT ![TimerFd] = "dead", ![WakeupFd] = "dead"]
    /\ UNCHANGED <<idleFd, connecting>>

\* TcpServer::TcpServer(): the listening socket, not registered yet, and the
\* descriptor it keeps in reserve, which it can do without.
NewServer(f, g, bound) ==
    /\ "server" \in Program /\ Exists(TimerFd) /\ Unused(Listener)
    /\ f = g => f = NoFd
    /\ table' = Check(table, Listener, f # NoFd, "socket",
                Check(table, Listener, bound, "bind",
                      [Construct(table, Listener, f) EXCEPT !.open = @ \cup ({g} \ {NoFd})]))
    /\ idleFd' = g
    /\ life' = [life EXCEPT ![Listener] = "live"]
    /\ UNCHANGED connecting

\* TcpServer::start().
StartServer(listening) ==
    /\ life[Listener] = "live" /\ table.state[Listener] = "New"
    /\ table' = Check(table, Listener, listening, "listen", Registered(table, Listener))
    /\ UNCHANGED <<life, idleFd, connecting>>

\* ListeningSocket::handleRead() and TcpServer::newConnection() without a thread
\* pool: the link is made and prepare() runs at once.
Accept(h, f) ==
    /\ h \in ServerLink /\ Unused(h)
    /\ life[Listener] = "live" /\ "read" \in table.events[Listener]
    /\ table' = Registered(Construct(table, h, f), h)
    /\ life' = [life EXCEPT ![h] = "live"]
    /\ UNCHANGED <<idleFd, connecting>>

\* ListeningSocket::accept() fails, for want of a descriptor or because the peer has
\* gone: LOG_FATAL, whatever errno says.
AcceptFails ==
    /\ life[Listener] = "live" /\ "read" \in table.events[Listener]
    /\ table' = Abort(table, Listener, "accept")
    /\ UNCHANGED <<life, idleFd, connecting>>

\* LinkedSocket::sendInLoop() that could not write everything.
BlockedSend(h) ==
    /\ h \in ServerLink \cup ClientLink /\ life[h] = "live"
    /\ "write" \notin table.events[h]
    /\ table' = UpdateInPoll(SetEvents(table, h, table.events[h] \cup {"write"}),
                             h, "ModEvent")
    /\ UNCHANGED <<life, idleFd, connecting>>

\* LinkedSocket::handleWrite() that emptied outputBuffer_.
BufferSent(h) ==
    /\ h \in ServerLink \cup ClientLink /\ life[h] = "live"
    /\ "write" \in table.events[h]
    /\ table' = UpdateInPoll(SetEvents(table, h, table.events[h] \ {"write"}),
                             h, "ModEvent")
    /\ UNCHANGED <<life, idleFd, connecting>>

\* LinkedSocket::handleClose(), up to owner_->delConnection().
Closed(t, h) == UpdateInPoll(SetEvents(t, h, {}), h, "ModEvent")

\* Its owner has let a link go: it is destroyed at once, unless a queued functor or
\* the user still shares it.
LetGo(t, h, shared) == IF shared THEN t ELSE Destruct(t, h)
LifeLeft(h, shared) == [life EXCEPT ![h] = IF shared THEN "dropped" ELSE "dead"]

\* handleClose() of a link whose server erases it from name2connection.
ServerLinkClose(h, shared) ==
    /\ h \in ServerLink /\ life[h] = "live"
    /\ table' = LetGo(Closed(table, h), h, shared)
    /\ life' = LifeLeft(h, shared)
    /\ UNCHANGED <<idleFd, connecting>>

\* The last shared pointer to a closed link goes.
LastReference(h) ==
    /\ h \in ServerLink \cup ClientLink /\ life[h] = "dropped"
    /\ table' = Destruct(table, h)
    /\ life' = [life EXCEPT ![h] = "dead"]
    /\ UNCHANGED <<idleFd, connecting>>

\* TcpServer::~TcpServer() begins, and nothing else runs in the loop thread until it is done.
DestroyServer ==
    /\ life[Listener] = "live"
    /\ table.state[Listener] = "New" => "destroyUnstarted" \in Program
    /\ life' = [life EXCEPT ![Listener] = "dropped"]
    /\ UNCHANGED <<table, idleFd, connecting>>

Destroying == life[Listener] = "dropped"

\* name2connection goes first, and with it the links it holds, in any order.
DestroyServerLink(h) ==
    /\ Destroying
    /\ h \in ServerLink /\ life[h] = "live"
    /\ table' = Destruct(table, h)
    /\ life' = [life EXCEPT ![h] = "dead"]
    /\ UNCHANGED <<idleFd, connecting>>

\* Then the reserve descriptor is closed, and the listening socket removed and closed.
DestroyListener ==
    /\ Destroying
    /\ \A h \in ServerLink : life[h] # "live"
    /\ table' = Destruct(Close(table, idleFd), Listener)
    /\ life' = [life EXCEPT ![Listener] = "dead"]
    /\ idleFd' = NoFd
    /\ UNCHANGED connecting

\* Mutation: the -1 of the connecting socket is taken for an open descriptor.
NewClientOpensNothing ==
    /\ "client" \in Program /\ Exists(TimerFd) /\ Unused(Connector)
    /\ table' = Construct(table, Connector, NoFd)
    /\ connecting' = "Stopped"
    /\ life' = [life EXCEPT ![Connector] = "live"]
    /\ UNCHANGED idleFd

\* TcpClient::TcpClient(): a connecting socket with no descriptor.
NewClient ==
    /\ "client" \in Program /\ Exists(TimerFd) /\ Unused(Connector)
    /\ table' = [table EXCEPT !.fd[Connector] = NoFd, !.state[Connector] = "New",
                              !.events[Connector] = {}]
    /\ connecting' = "Stopped"
    /\ life' = [life EXCEPT ![Connector] = "live"]
    /\ UNCHANGED idleFd

\* ConnectSocket::connect() on what socket() returned, by what connect() returns: under
\* way, to be retried later (after retry()), or hopeless.
Outcome == {"progress", "retry", "fatal"}

ConnectTable(t, f, outcome) ==
    LET opened == Check(t, Connector, f # NoFd, "socket",
                        [t EXCEPT !.fd[Connector] = f, !.open = @ \cup {f}]) IN
    IF outcome = "progress"
      THEN UpdateInPoll(SetEvents(opened, Connector, {"write"}), Connector, "AddEvent")
      ELSE Close(opened, f)

ConnectState(f, outcome) ==
    IF f # NoFd /\ outcome = "retry" THEN "Stopped" ELSE "Connecting"

\* ConnectSocket::startInLoop(), called by the client or by the retry timer.
Connect(f, outcome) ==
    /\ life[Connector] = "live" /\ connecting = "Stopped"
    /\ table' = ConnectTable(table, f, outcome)
    /\ connecting' = ConnectState(f, outcome)
    /\ UNCHANGED <<life, idleFd>>

\* disableAll() and updateInPoll(DelEvent) on the connector.
ConnectorRemoved == UpdateInPoll(SetEvents(table, Connector, {}), Connector, "DelEvent")

ConnectorWritable == /\ life[Connector] = "live" /\ connecting = "Connecting"
                     /\ table.state[Connector] = "Added"

\* ConnectSocket::handleWrite(): the connection failed or leads back here, retry().
ConnectFailed ==
    /\ ConnectorWritable
    /\ table' = Close(ConnectorRemoved, table.fd[Connector])
    /\ connecting' = "Stopped"
    /\ UNCHANGED <<life, idleFd>>

\* ConnectSocket::handleWrite() and TcpClient::newConnection(): a link takes the
\* descriptor over, the connector keeps its number.
Connected(h) ==
    /\ ConnectorWritable
    /\ h \in ClientLink /\ Unused(h)
    /\ table' = Registered(Construct(ConnectorRemoved, h, table.fd[Connector]), h)
    /\ connecting' = "Connected"
    /\ life' = [life EXCEPT ![h] = "live"]
    /\ UNCHANGED idleFd

\* The peer resets the connection after handleWrite() has asked for its error: the
\* getpeername() of isSelfConnect(), or that of newConnection(), is LOG_FATAL.
PeerGone ==
    /\ ConnectorWritable
    /\ table' = Check(ConnectorRemoved, Connector, FALSE, "getpeername", ConnectorRemoved)
    /\ connecting' \in {"Connecting", "Connected"}
    /\ UNCHANGED <<life, idleFd>>

\* ConnectSocket::stopInLoop().
StopConnecting ==
    /\ life[Connector] = "live" /\ connecting = "Connecting"
    /\ table' = Close(ConnectorRemoved, table.fd[Connector])
    /\ connecting' = "Stopped"
    /\ UNCHANGED <<life, idleFd>>

\* handleClose() of a client's link, up to the restart of the connector in
\* TcpClient::delConnection(), which has removed the link from the poller.
ClientLinkRemoved(h) == UpdateInPoll(Closed(table, h), h, "DelEvent")

\* The connection is not wanted any more.  A callback may have kept the link; its
\* destructor removes it again.
ClientLinkClose(h, shared) ==
    /\ h \in ClientLink /\ life[h] = "live"
    /\ table' = LetGo(ClientLinkRemoved(h), h, shared)
    /\ life' = LifeLeft(h, shared)
    /\ UNCHANGED <<idleFd, connecting>>

\* With retry_ and connect_, the connector restarts before the link goes.
ClientLinkCloseRetry(h, shared, f, outcome) ==
    /\ h \in ClientLink /\ life[h] = "live"
    /\ table' = LetGo(ConnectTable(ClientLinkRemoved(h), f, outcome), h, shared)
    /\ connecting' = ConnectState(f, outcome)
    /\ life' = LifeLeft(h, shared)
    /\ UNCHANGED idleFd

\* TcpClient::~TcpClient(): the connecting socket goes.
DestroyClient ==
    /\ "destroyClient" \in Program
    /\ life[Connector] = "live"
    /\ \A h \in ClientLink : life[h] # "live"
    /\ table' = Destruct(table, Connector)
    /\ life' = [life EXCEPT ![Connector] = "dead"]
    /\ UNCHANGED <<idleFd, connecting>>

\* With a link, that goes first, unless someone shares it.
DestroyLinkedClient(h, shared) ==
    /\ "destroyClient" \in Program
    /\ life[Connector] = "live"
    /\ h \in ClientLink /\ life[h] = "live"
    /\ table' = Destruct(LetGo(table, h, shared), Connector)
    /\ life' = [life EXCEPT ![Connector] = "dead", ![h] = IF shared THEN @ ELSE "dead"]
    /\ UNCHANGED <<idleFd, connecting>>

LoopOp == \/ \E hasEpoll \in BOOLEAN, f, g \in Offered : NewLoop(hasEpoll, f, g)
          \/ DestroyLoop

ServerOp == \/ \E f, g \in Offered, bound \in BOOLEAN : NewServer(f, g, bound)
            \/ \E listening \in BOOLEAN : StartServer(listening)
            \/ \E h \in ServerLink, f \in Free : Accept(h, f)
            \/ AcceptFails
            \/ \E h \in ServerLink, shared \in BOOLEAN : ServerLinkClose(h, shared)
            \/ DestroyServer

ClientOp == \/ NewClient
            \/ \E f \in Offered, outcome \in Outcome : Connect(f, outcome)
            \/ ConnectFailed
            \/ \E h \in ClientLink : Connected(h)
            \/ PeerGone
            \/ StopConnecting
            \/ \E h \in ClientLink, shared \in BOOLEAN : ClientLinkClose(h, shared)
            \/ \E h \in ClientLink, shared \in BOOLEAN, f \in Offered, outcome \in Outcome :
                  ClientLinkCloseRetry(h, shared, f, outcome)
            \/ DestroyClient
            \/ \E h \in ClientLink, shared \in BOOLEAN : DestroyLinkedClient(h, shared)

LinkOp == \E h \in ServerLink \cup ClientLink :
             BlockedSend(h) \/ BufferSent(h) \/ LastReference(h)

DestructorOp == \/ \E h \in ServerLink : DestroyServerLink(h)
                \/ DestroyListener

Next == /\ Running
        /\ \/ DestructorOp
           \/ ~Destroying /\ (LoopOp \/ ServerOp \/ ClientOp \/ LinkOp)

Spec == Init /\ [][Next]_vars

-------------------------------------------------------------------------------
(* Properties. *)

\* The kernel watches exactly the handlers that think they are watched, for exactly the
\* events they ask for, and holds no pointer to a destroyed handler; fd2handler leads from
\* a descriptor to the one live handler registered for it (updateHandler(), removeHandler()
\* and every caller, while descriptor numbers are given out again).
ViewsAgree ==
    Running => \A f \in Fd, h \in Handler :
        LET owner == Exists(h) /\ table.fd[h] = f IN
        /\ table.interest[f] = h <=> owner /\ table.state[h] = "Added"
        /\ table.interest[f] = h => table.mask[f] = table.events[h]
        /\ table.fd2handler[f] = h <=> owner /\ table.state[h] # "New"

\* Every open descriptor has an owner that will close it, and no owner's
\* descriptor was closed by someone else.  The connector owns the one it is
\* connecting with, no longer the one a link took over.
Owned == {table.fd[h] : h \in {x \in Handler \ {Connector} : Exists(x)}}
         \cup (IF table.state[Connector] = "Added" THEN {table.fd[Connector]} ELSE {})
         \cup ({idleFd} \ {NoFd})

DescriptorsOwned == Running => table.open = Owned

\* A call the kernel refused, LOG_FATAL, by the handler it was made for.
KernelRefused ==
    \/ table.culprit = TimerFd /\ table.failed \in {"timerfd_create", "epoll_create1"}
    \/ table.culprit = WakeupFd /\ table.failed = "eventfd"
    \/ table.culprit = Listener /\ table.failed \in {"socket", "bind", "listen", "accept"}
    \/ table.culprit = Connector /\ table.failed \in {"socket", "getpeername"}

\* Where the code above can abort the process: beside the calls the kernel refuses, no
\* assertion of FdHandler and Epoll fails and no epoll_ctl meets a wrong descriptor for
\* the links of a server, a server that was started, or the eventfd, however links come,
\* block, drain and go and whatever a client in the same loop does; what does fail is the
\* removal of the timerfd, of a client's handlers and of a server that was never started.
\* (epoll_ctl refused for memory, and the assertions of other classes, are not in this.)
FailuresAreKnown ==
    \/ table.failed = "none"
    \/ KernelRefused
    \/ table.failed = "isNoneEvent" /\ table.culprit = TimerFd
    \/ /\ table.failed = "unregistered"
       /\ \/ table.culprit \in ClientLink \cup {Connector}
          \/ table.culprit = Listener /\ table.state[Listener] = "New"
===============================================================================
