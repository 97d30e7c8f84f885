------------------------------ MODULE LinkedSocket ------------------------------
(***************************************************************************)
(* One connection of a server (src/net/LinkedSocket.cpp) in its loop       *)
(* thread, and other threads that send, shut down and force it closed.     *)
(*                                                                         *)
(* The loop appears as what SerialExecutor promises: a queue of functors,  *)
(* run in order, between which the poller reports events.  The functors of *)
(* send() and shutdown() hold a raw pointer to the link, those of          *)
(* prepare() and forceClose() a shared one; the server's map and user code *)
(* hold shared pointers.  The link is destroyed with the last of them.     *)
(*                                                                         *)
(* A message is two bytes, so that a write can stop in the middle.         *)
(***************************************************************************)
EXTENDS Naturals, Sequences

CONSTANTS
    LoopThread, \* the thread of the link's loop
    Caller,     \* the other threads that use the link
    Keeper,     \* the threads that never give up a shared pointer to it
    Msg,        \* what can be sent, each once
    NoMsg,      \* the argument of a call or functor that has none
    HighWater   \* there is a high-water-mark callback

Thread == Caller \cup {LoopThread}

ASSUME LinkAssumption ==
    /\ LoopThread \notin Caller
    /\ Keeper \subseteq Thread
    /\ NoMsg \notin Msg
    /\ HighWater \in BOOLEAN

VARIABLES
    state_,     \* kConnected, kDisconnecting, kDisconnected
    events_,    \* events the link asks for
    polled,     \* state_in_poll
    output,     \* outputBuffer_
    wire,       \* bytes the socket has taken
    fin,        \* the write side of the socket is shut down
    broken,     \* the peer has reset the connection: writing fails
    queue,      \* the functors of this link in the loop
    pc,         \* where the loop thread is
    revents,    \* what epoll_wait reported and handleEvent() has still to look at
    carry,      \* what each sendInLoop() in its high-water-mark callback has
                \* still to append, outermost first
    owned,      \* name2connection of the server holds the link
    holds,      \* the threads whose own code holds a shared pointer
    call,       \* the call each caller is in the middle of
    sent,       \* history: who sent what, in the order of the calls
    asked,      \* history: somebody's shutdown() has passed its test
    fate        \* ok, undefined, or the assertion that failed

link   == <<state_, events_, polled>>
stream == <<output, wire, fin>>
loop   == <<queue, pc, revents, carry>>
users  == <<owned, holds, call, sent, asked>>
vars   == <<link, stream, loop, users, broken, fate>>

Byte == Msg \X {1, 2}
Bytes(m) == << <<m, 1>>, <<m, 2>> >>

\* Functors in the queue and calls under way; only those of send() have a message.
Functor == [op : {"send"}, msg : Msg]
           \cup [op : {"prepare", "shutdown", "forceClose"}, msg : {NoMsg}]
Call == [op : {"send"}, msg : Msg]
        \cup [op : {"none", "shutdown", "shutdownSet", "forceClose", "forceCloseSet"},
               msg : {NoMsg}]

\* Every variable has its type: no field of the code takes another value.
TypeOK ==
    /\ state_ \in {"Connected", "Disconnecting", "Disconnected"}
    /\ events_ \subseteq {"read", "write"}
    /\ polled \in {"New", "Added", "Deleted"}
    /\ output \in Seq(Byte) /\ wire \in Seq(Byte)
    /\ fin \in BOOLEAN /\ broken \in BOOLEAN
    /\ queue \in Seq(Functor)
    /\ pc \in {"idle", "read", "message", "write", "complete", "callback", "highWater"}
    /\ revents \subseteq {"in", "out"}
    /\ carry \in Seq(Seq(Byte))
    /\ owned \in BOOLEAN
    /\ holds \subseteq Thread
    /\ call \in [Caller -> Call]
    /\ sent \in Seq([by : Thread, msg : Msg])
    /\ asked \in BOOLEAN
    /\ fate \in {"ok", "undefined", "notAdded", "closedTwice"}

\* TcpServer::newConnection(): the link is in the map and prepare() is queued.
Init ==
    /\ state_ = "Connected" /\ events_ = {} /\ polled = "New"
    /\ output = <<>> /\ wire = <<>> /\ fin = FALSE /\ broken = FALSE
    /\ queue = << [op |-> "prepare", msg |-> NoMsg] >>
    /\ pc = "idle" /\ revents = {} /\ carry = <<>>
    /\ owned = TRUE /\ holds = {}
    /\ call = [th \in Caller |-> [op |-> "none", msg |-> NoMsg]]
    /\ sent = <<>> /\ asked = FALSE
    /\ fate = "ok"

\* Mutation: user code is given raw pointers.
SharedByServer == \/ owned
                  \/ \E i \in 1 .. Len(queue) : queue[i].op \in {"prepare", "forceClose"}

\* A shared pointer to the link exists outside the stack of the loop thread.
Shared == \/ owned \/ holds # {}
          \/ \E i \in 1 .. Len(queue) : queue[i].op \in {"prepare", "forceClose"}

\* User code runs in the loop thread: a callback, whose argument is a shared pointer.
InUserCode == pc \in {"message", "complete", "callback", "highWater"}

Writing == "write" \in events_

\* A user's send() that found the link connected.
Sends(th, m) ==
    /\ state_ = "Connected"
    /\ \A i \in 1 .. Len(sent) : sent[i].msg # m
    /\ sent' = Append(sent, [by |-> th, msg |-> m])

-------------------------------------------------------------------------------
(* What the functions of the link do, as constraints on the variables they   *)
(* change.  Each leaves the others to the action that calls it.              *)

\* Mutation: the mask is that of the events reported.
EnableWrongMask == events_' = events_ \cup {"out"} /\ UNCHANGED fate

\* enableWriting() and updateInPoll(ModEvent), with its assertion.
EnableWriting ==
    IF Writing THEN UNCHANGED <<events_, fate>>
    ELSE /\ events_' = events_ \cup {"write"}
         /\ fate' = IF polled = "Added" THEN fate ELSE "notAdded"

\* Mutation: the buffer is used from its front.
PrependOutput(bytes) == output' = bytes \o output /\ EnableWriting

AppendOutput(bytes) == output' = output \o bytes /\ EnableWriting

\* sendInLoop().  Either all is written and writeComplete is called; or the rest is
\* appended, after the high-water-mark callback if that is called (its mark is not
\* initialised); or the socket refuses for good and the message is lost.  A callback is
\* user code inside user code, or the place where a functor of the link is.
SendInLoop(m) ==
    LET direct == ~Writing /\ output = <<>>
        refused == direct /\ (broken \/ fin)
        Enter(callback) == pc' = IF pc = "idle" THEN callback ELSE pc
        NothingKept == UNCHANGED <<events_, output, carry, fate>> IN
    IF state_ = "Disconnected" \/ refused
    THEN UNCHANGED <<pc, wire>> /\ NothingKept
    ELSE \E n \in IF direct THEN 0 .. 2 ELSE {0} :
            LET rest == SubSeq(Bytes(m), n + 1, 2) IN
            /\ wire' = wire \o SubSeq(Bytes(m), 1, n)
            /\ \/ n = 2 /\ Enter("callback") /\ NothingKept
               \/ n < 2 /\ AppendOutput(rest) /\ UNCHANGED <<pc, carry>>
               \/ /\ n < 2 /\ HighWater /\ Enter("highWater")
                  /\ carry' = Append(carry, rest)
                  /\ UNCHANGED <<events_, output, fate>>

\* Mutation: shutdownInLoop() does not wait for the buffer.
ShutdownAtOnce == fin' = TRUE

\* shutdownInLoop().
ShutdownInLoop == fin' = (fin \/ ~Writing)

Queue(op, m) == queue' = Append(queue, [op |-> op, msg |-> m])

-------------------------------------------------------------------------------
(* The loop thread: epoll_wait and handleEvent(). *)

\* epoll_wait reports some of what the link asked for.  An error alone is only
\* logged, and a hang-up comes with POLLIN.
PollEvent(ready) ==
    /\ pc = "idle" /\ revents = {} /\ polled = "Added"
    /\ ready # {}
    /\ "in" \in ready => "read" \in events_
    /\ "out" \in ready => Writing
    /\ revents' = ready
    /\ UNCHANGED <<link, stream, users, queue, pc, carry, broken, fate>>

\* The loop comes to the link in its list of active handlers.
Dispatch ==
    /\ pc = "idle" /\ revents # {}
    /\ pc' = "read"
    /\ UNCHANGED <<link, stream, users, queue, revents, carry, broken, fate>>

\* No POLLIN, or a read that failed for now.
NothingRead ==
    /\ pc = "read"
    /\ pc' = "write"
    /\ UNCHANGED <<link, stream, users, queue, revents, carry, broken, fate>>

\* handleRead() with data: the message callback is entered.
ReadData ==
    /\ pc = "read" /\ "in" \in revents
    /\ pc' = "message"
    /\ UNCHANGED <<link, stream, users, queue, revents, carry, broken, fate>>

\* Mutation: handleClose() without disableAll() and updateInPoll().
ReadEndStaysEnabled ==
    /\ pc = "read" /\ "in" \in revents
    /\ pc' = "write"
    /\ state_' = "Disconnected" /\ owned' = FALSE
    /\ fate' = IF state_ = "Disconnected" THEN "closedTwice" ELSE fate
    /\ UNCHANGED <<events_, polled, stream, queue, revents, carry, holds, call, sent, asked,
                   broken>>

\* handleRead() at the end of the peer's stream, and handleClose(): the server's map
\* lets the link go, and it is destroyed if nothing else holds it.
ReadEnd ==
    /\ pc = "read" /\ "in" \in revents
    /\ pc' = "write"
    /\ state_' = "Disconnected" /\ events_' = {} /\ polled' = "Deleted"
    /\ owned' = FALSE
    /\ fate' = CASE state_ = "Disconnected" -> "closedTwice"
                 [] polled # "Added" -> "notAdded"
                 [] OTHER -> fate
    /\ UNCHANGED <<stream, queue, revents, carry, holds, call, sent, asked, broken>>

\* The user's message callback returns.
MessageReturn ==
    /\ pc = "message" /\ carry = <<>>
    /\ pc' = "write"
    /\ UNCHANGED <<link, stream, users, queue, revents, carry, broken, fate>>

\* handleEvent() reads revents_ of a link that handleClose() has destroyed: what is
\* there now is anybody's guess, and so is what follows.
ReadDestroyed ==
    /\ pc = "write" /\ ~Shared
    /\ pc' = "idle" /\ revents' = {}
    /\ fate' \in {fate, "undefined"}
    /\ UNCHANGED <<link, stream, users, queue, carry, broken>>

\* handleEvent() ends without writing: no POLLOUT, handleWrite() finds that the link
\* is not writing, or ::write() fails.
NothingWritten ==
    /\ pc = "write" /\ Shared
    /\ "out" \notin revents \/ ~Writing \/ broken \/ fin
    /\ pc' = "idle" /\ revents' = {}
    /\ UNCHANGED <<link, stream, users, queue, carry, broken, fate>>

\* Mutation: writing is not disabled when the buffer is empty.
HandleWriteStaysEnabled(n) ==
    /\ pc = "write" /\ Shared
    /\ "out" \in revents /\ Writing /\ ~broken /\ ~fin
    /\ wire' = wire \o SubSeq(output, 1, n)
    /\ output' = SubSeq(output, n + 1, Len(output))
    /\ revents' = {}
    /\ pc' = IF n = Len(output) THEN "complete" ELSE "idle"
    /\ UNCHANGED <<link, fin, users, queue, carry, broken, fate>>

\* handleWrite() of n bytes; when the buffer is empty then, writing is disabled and
\* the writeComplete callback entered.
HandleWrite(n) ==
    /\ pc = "write" /\ Shared
    /\ "out" \in revents /\ Writing /\ ~broken /\ ~fin
    /\ wire' = wire \o SubSeq(output, 1, n)
    /\ output' = SubSeq(output, n + 1, Len(output))
    /\ revents' = {}
    /\ IF n = Len(output)
         THEN /\ events_' = events_ \ {"write"}
              /\ fate' = IF polled = "Added" THEN fate ELSE "notAdded"
              /\ pc' = "complete"
         ELSE pc' = "idle" /\ UNCHANGED <<events_, fate>>
    /\ UNCHANGED <<state_, polled, fin, users, queue, carry, broken>>

\* Mutation: handleWrite() does not look for a shutdown.
CompleteForgets ==
    /\ pc = "complete" /\ carry = <<>>
    /\ pc' = "idle"
    /\ UNCHANGED <<link, stream, users, queue, revents, carry, broken, fate>>

\* writeComplete returns to handleWrite(), which carries out a shutdown that had to
\* wait for the buffer.
CompleteReturn ==
    /\ pc = "complete" /\ carry = <<>>
    /\ pc' = "idle"
    /\ IF state_ = "Disconnecting" THEN ShutdownInLoop ELSE UNCHANGED fin
    /\ UNCHANGED <<link, output, wire, users, queue, revents, carry, broken, fate>>

-------------------------------------------------------------------------------
(* The loop thread: the functors of the link. *)

NextFunctor(op) == /\ pc = "idle" /\ revents = {}
                   /\ queue # <<>> /\ Head(queue).op = op

\* prepare(): enableReading() and updateInPoll(AddEvent).
RunPrepare ==
    /\ NextFunctor("prepare")
    /\ queue' = Tail(queue)
    /\ events_' = events_ \cup {"read"}
    /\ polled' = "Added"
    /\ UNCHANGED <<state_, stream, users, pc, revents, carry, broken, fate>>

\* bindSendInLoop().
RunSend ==
    /\ NextFunctor("send") /\ Shared
    /\ queue' = Tail(queue)
    /\ SendInLoop(Head(queue).msg)
    /\ UNCHANGED <<state_, polled, fin, users, revents, broken>>

RunShutdown ==
    /\ NextFunctor("shutdown") /\ Shared
    /\ queue' = Tail(queue)
    /\ ShutdownInLoop
    /\ UNCHANGED <<link, output, wire, users, pc, revents, carry, broken, fate>>

\* forceCloseInLoop() closes a link in state kConnected, which forceClose() has
\* left: nothing happens.
RunForceClose ==
    /\ NextFunctor("forceClose") /\ state_ # "Connected"
    /\ queue' = Tail(queue)
    /\ UNCHANGED <<link, stream, users, pc, revents, carry, broken, fate>>

\* A functor with a raw pointer, after the link was destroyed.
RunDangling ==
    /\ NextFunctor("send") \/ NextFunctor("shutdown")
    /\ ~Shared
    /\ queue' = Tail(queue)
    /\ fate' = "undefined"
    /\ UNCHANGED <<link, stream, users, pc, revents, carry, broken>>

(* User code in the loop thread. *)

\* It returns to a function that does not touch the link again: sendInLoop() of a
\* functor after writeComplete, or one that is about something else.
CallbackReturn ==
    /\ pc = "callback" /\ carry = <<>>
    /\ pc' = "idle"
    /\ UNCHANGED <<link, stream, users, queue, revents, carry, broken, fate>>

\* A high-water-mark callback returns to its sendInLoop(), which appends the rest.
\* Nothing but that callback's argument may have kept the link alive.
HighWaterReturn ==
    /\ carry # <<>>
    /\ carry' = SubSeq(carry, 1, Len(carry) - 1)
    /\ pc' = IF pc = "highWater" /\ Len(carry) = 1 THEN "idle" ELSE pc
    /\ IF Shared THEN AppendOutput(carry[Len(carry)])
                 ELSE fate' = "undefined" /\ UNCHANGED <<events_, output>>
    /\ UNCHANGED <<state_, polled, wire, fin, users, queue, revents, broken>>

\* Code of the loop thread that is about something else, and has kept the link:
\* another connection's callback, a timer, a functor.
OtherCode ==
    /\ pc = "idle" /\ LoopThread \in holds
    /\ pc' = "callback"
    /\ UNCHANGED <<link, stream, users, queue, revents, carry, broken, fate>>

LoopSend(m) ==
    /\ InUserCode /\ Sends(LoopThread, m)
    /\ SendInLoop(m)
    /\ UNCHANGED <<state_, polled, fin, queue, revents, owned, holds, call, asked, broken>>

LoopShutdown ==
    /\ InUserCode /\ state_ = "Connected"
    /\ state_' = "Disconnecting"
    /\ asked' = TRUE
    /\ ShutdownInLoop
    /\ UNCHANGED <<events_, polled, output, wire, loop, owned, holds, call, sent, broken, fate>>

LoopForceClose ==
    /\ InUserCode /\ state_ = "Connected"
    /\ state_' = "Disconnecting"
    /\ Queue("forceClose", NoMsg)
    /\ UNCHANGED <<events_, polled, stream, pc, revents, carry, users, broken, fate>>

\* A callback stores its shared pointer, or hands it to another thread.
Share(th) ==
    /\ InUserCode /\ th \notin holds
    /\ holds' = holds \cup {th}
    /\ UNCHANGED <<link, stream, loop, owned, call, sent, asked, broken, fate>>

-------------------------------------------------------------------------------
(* The other threads, and the peer. *)

Begin(th, op, m) == /\ th \in holds /\ call[th].op = "none"
                    /\ call' = [call EXCEPT ![th] = [op |-> op, msg |-> m]]

\* send(): the test of state_.
Send(th, m) ==
    /\ Begin(th, "send", m) /\ Sends(th, m)
    /\ UNCHANGED <<link, stream, loop, owned, holds, asked, broken, fate>>

\* shutdown() and forceClose(): the test of state_.
Shutdown(th) ==
    /\ state_ = "Connected" /\ Begin(th, "shutdown", NoMsg)
    /\ asked' = TRUE
    /\ UNCHANGED <<link, stream, loop, owned, holds, sent, broken, fate>>

ForceClose(th) ==
    /\ state_ = "Connected" /\ Begin(th, "forceClose", NoMsg)
    /\ UNCHANGED <<link, stream, loop, owned, holds, sent, asked, broken, fate>>

\* setState(kDisconnecting), whatever the state is by now.
SetDisconnecting(th) ==
    /\ call[th].op \in {"shutdown", "forceClose"}
    /\ state_' = "Disconnecting"
    /\ call' = [call EXCEPT ![th].op = IF @ = "shutdown" THEN "shutdownSet" ELSE "forceCloseSet"]
    /\ UNCHANGED <<events_, polled, stream, loop, owned, holds, sent, asked, broken, fate>>

\* The functor of the call is queued, and the call returns.
QueueCall(th) ==
    /\ call[th].op \in {"send", "shutdownSet", "forceCloseSet"}
    /\ Queue(CASE call[th].op = "send" -> "send"
               [] call[th].op = "shutdownSet" -> "shutdown"
               [] call[th].op = "forceCloseSet" -> "forceClose", call[th].msg)
    /\ call' = [call EXCEPT ![th] = [op |-> "none", msg |-> NoMsg]]
    /\ UNCHANGED <<link, stream, pc, revents, carry, owned, holds, sent, asked, broken, fate>>

\* A thread gives its shared pointer up, between its calls.  If it was the last,
\* another thread than the loop's removes the link from the poller's map, which the loop
\* may be using.
Release(th) ==
    /\ th \in holds \ Keeper
    /\ IF th = LoopThread THEN InUserCode ELSE call[th].op = "none"
    /\ holds' = holds \ {th}
    /\ UNCHANGED <<link, stream, loop, owned, call, sent, asked, broken>>
    /\ fate' \in IF Shared' \/ th = LoopThread THEN {fate} ELSE {fate, "undefined"}

\* The peer resets the connection.
Reset ==
    /\ ~broken
    /\ broken' = TRUE
    /\ UNCHANGED <<link, stream, loop, users, fate>>

-------------------------------------------------------------------------------
HandleEvent == \/ Dispatch \/ NothingRead \/ ReadData \/ ReadEnd
               \/ ReadDestroyed \/ NothingWritten
               \/ \E n \in 1 .. Len(output) : HandleWrite(n)

RunFunctor == RunPrepare \/ RunSend \/ RunShutdown \/ RunForceClose \/ RunDangling

UserReturn == MessageReturn \/ CompleteReturn \/ CallbackReturn \/ HighWaterReturn

UserCode == \/ OtherCode
            \/ \E m \in Msg : LoopSend(m)
            \/ LoopShutdown \/ LoopForceClose
            \/ \E th \in Thread : Share(th)

FinishCall(th) == SetDisconnecting(th) \/ QueueCall(th)

CallerStep(th) == \/ \E m \in Msg : Send(th, m)
                  \/ Shutdown(th) \/ ForceClose(th)
                  \/ FinishCall(th)

\* A failed assertion ends the program, and nothing can be said after undefined behaviour.
Next == /\ fate = "ok"
        /\ \/ \E ready \in SUBSET {"in", "out"} : PollEvent(ready)
           \/ HandleEvent \/ RunFunctor \/ UserReturn \/ UserCode
           \/ \E th \in Caller : CallerStep(th)
           \/ \E th \in Thread : Release(th)
           \/ Reset

Safety == Init /\ [][Next]_vars

\* The loop goes on with what it has begun, runs what is queued, user code returns, a
\* call that was begun ends, and a peer that has not reset the connection goes on reading.
Live(A) == fate = "ok" /\ A
ReportWritable == \E ready \in SUBSET {"in", "out"} : "out" \in ready /\ PollEvent(ready)
Fairness ==
    /\ SF_vars(Live(HandleEvent))
    /\ SF_vars(Live(RunFunctor))
    /\ SF_vars(Live(UserReturn))
    /\ SF_vars(Live(ReportWritable))
    /\ \A th \in Caller : WF_vars(Live(FinishCall(th)))

Spec == Safety /\ Fairness

-------------------------------------------------------------------------------
(* Properties. *)

Closed == polled = "Deleted"

\* While the link is registered it asks for writability exactly when it has something
\* to write: otherwise the bytes stay for ever, or the loop spins (enableWriting() and
\* disableWriting() in sendInLoop() and handleWrite(), callbacks in between included).
WriteInterest == ~Closed => (Writing <=> output # <<>>)

\* The connection is a byte stream, whoever sends and shuts down: bytes leave once, in
\* the order in which sendInLoop() took them, and none after or dropped by a
\* shutdown, except for what is left when the peer ends the connection (sendInLoop(),
\* handleWrite(), shutdownInLoop()).
Stream == INSTANCE ByteStream WITH Data <- {Bytes(m) : m \in Msg}, pending <- output,
                                   cut <- Closed
StreamSafety == Stream!Safety

\* What one thread sends leaves in the order of its calls, whether they were carried
\* out at once or through the queue (send(), runInLoop()).
SentInOrder ==
    LET all == wire \o output
        Place(i) == {k \in 1 .. Len(all) : all[k][1] = sent[i].msg} IN
    \A i, j \in 1 .. Len(sent) :
        i < j /\ sent[i].by = sent[j].by
            => \A k \in Place(i), l \in Place(j) : k < l

\* The assertion of handleClose() holds, even when a late setState(kDisconnecting) hides
\* that the link was closed: disabling the events is what keeps a second close away.
ClosedOnce == fate # "closedTwice"

\* A destroyed link is used only after it was closed, and never while a thread keeps a shared
\* pointer: that is how user code can be safe with send() and shutdown(), whose functors
\* hold raw pointers.
KeptIsSafe == fate = "undefined" => Closed /\ holds \cap Keeper = {}

\* updateInPoll(ModEvent) is only called for a registered handler: the assertion of
\* FdHandler.cpp:123.
ModifiedIsAdded == fate # "notAdded"

\* A shutdown() that finds the link connected is followed by the end of the stream,
\* whatever was queued and buffered before, unless the connection ends otherwise.
ShutdownEnds == asked ~> fin \/ Closed \/ broken \/ fate # "ok"
===============================================================================
