------------------------------- MODULE HttpServer -------------------------------
(***************************************************************************)
(* The HTTP server (src/net/simple_http/HttpServer.cpp) on TcpServer and   *)
(* HttpContext: the base loop gives a connection its context after it has  *)
(* handed it over; the loop of the connection reads, parses and answers.   *)
(*                                                                         *)
(* The socket and both buffers of a connection are sequences of symbols: a *)
(* Buffer is a queue, and what LinkedSocket sends arrives.  What the       *)
(* user's callback does is arbitrary.  The clients are arbitrary as well.  *)
(***************************************************************************)
EXTENDS TcpServer, HttpContext

CONSTANTS Talker,       \* the connections whose clients write and close; the others wait
          Written,      \* the lines they write
          MaxLines      \* bound: the lines they write, all together

ASSUME ClientAssumption == /\ Talker \subseteq Link /\ Written \subseteq Line
                           /\ MaxLines \in Nat

VARIABLES
    context,        \* of each connection, or NoContext
    inputBuffer,    \* what was read and not parsed
    wire,           \* what was written and not read
    sent,           \* history: the lines written
    owed,           \* history: how many answers those lines call for
    closed,         \* the clients that have closed their end
    handled,        \* history: the headers of the requests given to the callback
    answers,        \* history: how many answers were sent
    refused,        \* history: connections with a bad request
    early,          \* history: connections read before they had a context
    ahead           \* history: clients that wrote on without waiting for an answer

peer == <<wire, sent, owed, closed, ahead>>
http == <<context, inputBuffer, handled, answers, refused, early>>
vars == <<server, peer, http>>

NoContext == [NewContext EXCEPT !.state_ = "NULL"]

\* Every variable has its type: no field of the code takes another value.
TypeOK ==
    /\ ServerTypeOK
    /\ context \in [Link -> Context \cup {NoContext}]
    /\ inputBuffer \in [Link -> Seq(Symbol)] /\ wire \in [Link -> Seq(Symbol)]
    /\ sent \in [Link -> Seq(Line)]
    /\ handled \in [Link -> Seq(SUBSET HasColon)]
    /\ owed \in [Link -> Nat] /\ answers \in [Link -> Nat]
    /\ closed \subseteq Link /\ refused \subseteq Link
    /\ early \subseteq Link /\ ahead \subseteq Link

Init ==
    /\ ServerInit
    /\ context = [l \in Link |-> NoContext]
    /\ inputBuffer = [l \in Link |-> <<>>] /\ wire = [l \in Link |-> <<>>]
    /\ sent = [l \in Link |-> <<>>] /\ handled = [l \in Link |-> <<>>]
    /\ owed = [l \in Link |-> 0] /\ answers = [l \in Link |-> 0]
    /\ closed = {} /\ refused = {} /\ early = {} /\ ahead = {}

-------------------------------------------------------------------------------
(* newConnection(), in the base loop, once that of TcpServer has returned. *)

\* find(), in an assertion.
Find(l) == Accepting("handed", l) /\ EnterMap(Base, "find", l)

Found(l) ==
    /\ Accepting("find", l)
    /\ Goto(Base, "found", l)
    /\ fate' = IF name2connection[l] = "absent" THEN "notFound" ELSE fate

Lookup(l) == Accepting("found", l) /\ EnterMap(Base, "lookup", l)

\* operator[] of the map, which inserts a null pointer where it finds none.
LookedUp(l) ==
    /\ Accepting("lookup", l)
    /\ Goto(Base, "looked", l)
    /\ IF name2connection[l] = "absent"
         THEN /\ name2connection' = [name2connection EXCEPT ![l] = "null"]
              /\ fate' = "nullLink"
         ELSE UNCHANGED <<name2connection, fate>>

\* conn->connected()
TestConnected(l) ==
    /\ Accepting("looked", l)
    /\ IF state_[l] = "Connected" THEN Goto(Base, "connected", l) ELSE Return(Base)

SetContext(l) ==
    /\ Accepting("connected", l)
    /\ context' = [context EXCEPT ![l] = NewContext]
    /\ Return(Base)

\* A step of newConnection() in HttpServer.
AcceptStep(l) ==
    \/ /\ Find(l) \/ Found(l) \/ Lookup(l)
       /\ UNCHANGED <<name2connection, context>>
    \/ LookedUp(l) /\ UNCHANGED context
    \/ TestConnected(l) /\ UNCHANGED <<name2connection, fate, context>>
    \/ SetContext(l) /\ UNCHANGED <<name2connection, fate>>

BaseStep ==
    /\ \/ /\ NewConnection \/ \E l \in Link : Inserted(l) \/ HandOver(l)
          /\ UNCHANGED context
       \/ /\ \E l \in Link : AcceptStep(l)
          /\ UNCHANGED <<loops_, next_, connId_, loop, state_, handed, polled>>
    /\ UNCHANGED <<peer, inputBuffer, handled, answers, refused, early>>

-------------------------------------------------------------------------------
(* The loop of a connection. *)

\* shutdown() is called: after a bad request, and where the answer says so.
ShutsDown(l, p, close) == ~p.ok \/ (p.context.state_ = "GotAll" /\ close)

\* rcvMessage() without a context.
Ignore(l, in) ==
    /\ inputBuffer' = [inputBuffer EXCEPT ![l] = in]
    /\ early' = early \cup {l}
    /\ UNCHANGED <<server, context, handled, answers, refused>>

\* rcvMessage(), where the parser does not return.
ParserFails(p) ==
    /\ p.aborted \/ p.hasMore
    /\ fate' = IF p.aborted THEN "methodTwice" ELSE "spins"
    /\ UNCHANGED <<loops_, next_, connId_, loop, state_, handed, polled, name2connection, at>>
    /\ UNCHANGED http

\* rcvMessage() and rcvRequest(), with what parseRequest() leaves: p.  What is sent is
\* ignored unless the connection is connected.
Respond(l, p, close) ==
    LET gotAll == p.context.state_ = "GotAll"
        connected == state_[l] = "Connected" IN
    /\ ~p.aborted /\ ~p.hasMore
    /\ inputBuffer' = [inputBuffer EXCEPT ![l] = p.in]
    /\ context' = [context EXCEPT ![l] = IF gotAll THEN Reset(p.context) ELSE p.context]
    /\ handled' = [handled EXCEPT ![l] = IF gotAll THEN Append(@, p.context.headers_) ELSE @]
    /\ answers' = [answers EXCEPT ![l] = IF connected /\ (gotAll \/ ~p.ok) THEN @ + 1 ELSE @]
    /\ refused' = IF p.ok THEN refused ELSE refused \cup {l}
    /\ state_' = [state_ EXCEPT ![l] = IF connected /\ ShutsDown(l, p, close)
                                         THEN "Disconnecting" ELSE @]
    /\ UNCHANGED <<early, loops_, next_, connId_, loop, handed, polled, name2connection, at, fate>>

\* handleRead() of n symbols.
Receive(l, n) ==
    LET in == inputBuffer[l] \o SubSeq(wire[l], 1, n) IN
    /\ l \in polled /\ Idle(loop[l])
    /\ wire' = [wire EXCEPT ![l] = SubSeq(@, n + 1, Len(@))]
    /\ IF context[l] = NoContext THEN Ignore(l, in)
       ELSE \E p \in {ParseRequest(context[l], in)}, close \in BOOLEAN :
               ParserFails(p) \/ Respond(l, p, close)
    /\ UNCHANGED <<sent, owed, closed, ahead>>

ReceiveSome(l) == \E n \in 1 .. Len(wire[l]) : Receive(l, n)

\* handleRead() of the end of the stream: handleClose(), and delConnection(), which deletes
\* the context that the connection has by now.  That handleEvent() still uses the link
\* after this is in LinkedSocket.
EndOfStream(l) ==
    /\ l \in polled /\ Idle(loop[l])
    /\ l \in closed /\ wire[l] = <<>>
    /\ context' = [context EXCEPT ![l] = NoContext]
    /\ Disconnect(l)
    /\ UNCHANGED <<peer, inputBuffer, handled, answers, refused, early>>

-------------------------------------------------------------------------------
(* The clients. *)

LinesWritten == FoldSet(LAMBDA l, n : n + Len(sent[l]), 0, Link)

\* How many answers the lines of a client call for.
Owed(lines) ==
    LET reading == Reading(lines) IN Len(reading.requests) + (IF reading.bad THEN 1 ELSE 0)

Write(l, line) ==
    /\ l \in Talker \ closed /\ state_[l] # "none"
    /\ LinesWritten < MaxLines
    /\ sent' = [sent EXCEPT ![l] = Append(@, line)]
    /\ wire' = [wire EXCEPT ![l] = @ \o Symbols(line)]
    /\ owed' = [owed EXCEPT ![l] = Owed(sent'[l])]
    /\ ahead' = IF answers[l] < owed[l] THEN ahead \cup {l} ELSE ahead
    /\ UNCHANGED <<server, http, closed>>

Close(l) ==
    /\ l \in Talker \ closed /\ state_[l] # "none"
    /\ closed' = closed \cup {l}
    /\ UNCHANGED <<server, http, wire, sent, owed, ahead>>

-------------------------------------------------------------------------------

\* What the loop of a connection does with it.
LoopStep(l) ==
    \/ (Prepare(l) \/ Erased(l)) /\ UNCHANGED <<peer, http>>
    \/ ReceiveSome(l)
    \/ EndOfStream(l)

Next ==
    /\ fate = "ok"
    /\ \/ BaseStep
       \/ \E l \in Link : \/ LoopStep(l)
                          \/ Close(l)
                          \/ \E line \in Written : Write(l, line)

Safety == Init /\ [][Next]_vars

\* A loop goes on with what it has begun, runs what is queued and looks at every
\* descriptor the poller reports (EventLoop).  Nothing is assumed of the clients.
Fairness ==
    /\ WF_vars(fate = "ok" /\ BaseStep)
    /\ \A l \in Link : WF_vars(fate = "ok" /\ LoopStep(l))

Spec == Safety /\ Fairness

-------------------------------------------------------------------------------
(* Properties. *)

\* The callback is given the requests that the client wrote, with their own headers and
\* in their order, and only a line that is no request is refused, wherever the stream
\* was split between reads (parseRequest(), reset(), rcvMessage()).
ParsedAsWritten ==
    \A l \in Link :
        LET reading == Reading(sent[l]) IN
        /\ Len(handled[l]) <= Len(reading.requests)
        /\ handled[l] = SubSeq(reading.requests, 1, Len(handled[l]))
        /\ l \in refused => reading.bad /\ handled[l] = reading.requests

\* The client has written a request and waits for the answer.
Waiting(l) ==
    /\ answers[l] < owed[l]
    /\ l \notin closed \cup ahead \cup early
    /\ state_[l] = "Connected"

\* A client that writes one request at a time, and not before its connection has a
\* context, gets an answer, good or bad, however its request arrives.
WaitingClientIsAnswered == \A l \in Talker : Waiting(l) ~> (~Waiting(l) \/ fate # "ok")

\* A connection that is polled is kept alive by the map, and one that was closed has left
\* it: newConnection() and delConnection() are in two threads.
OpenLinksAreOwned ==
    \A l \in Link :
        /\ l \in polled => name2connection[l] = "link" /\ state_[l] # "Disconnected"
        /\ name2connection[l] = "link" /\ state_[l] = "Disconnected"
              => at[loop[l]] = [step |-> "erase", link |-> l]

\* The connection was closed before it got its context, which nobody deletes.
Leaked(l) == state_[l] = "Disconnected" /\ context[l] # NoContext

\* What can go wrong is: a request with a known method that was refused is looked at again
\* (assert in setMethod()); and, where the pool has threads, a connection of theirs is used
\* or closed before newConnection() has given it its context, or the map is used by two
\* threads at once.  (How long the link itself lives, in its own handleEvent() or by the
\* local reference of newConnection(), is KeptIsSafe of LinkedSocket.)
HttpFailuresAreKnown ==
    /\ fate \in {"ok", "methodTwice", "mapRace", "notFound", "nullLink"}
    /\ fate = "methodTwice" => \E l \in refused : context[l].method_
    /\ fate \in {"notFound", "nullLink"} => state_[at[Base].link] = "Disconnected"
    /\ loops_ = <<>> => /\ fate \in {"ok", "methodTwice"}
                        /\ early = {}
                        /\ \A l \in Link : ~Leaked(l)
===============================================================================
