------------------------------- MODULE TcpServer -------------------------------
(***************************************************************************)
(* A server and its connections (src/net/TcpServer.cpp,                    *)
(* EventLoopThreadPool.cc): connections are accepted in the base loop,     *)
(* handed to the loops of the pool in turn, and leave the map of the       *)
(* server in the thread of the loop they were handed to.                   *)
(*                                                                         *)
(* An operation on name2connection takes two steps, so that those of two   *)
(* threads can overlap: the map has no lock, and what happens then is      *)
(* undefined.  A connection is the number in its name.                     *)
(***************************************************************************)
EXTENDS Naturals, Sequences

CONSTANTS MaxThreads,   \* bound: threads of the pool
          MaxLinks      \* bound: connections accepted

ASSUME ServerAssumption == MaxThreads \in Nat /\ MaxLinks \in Nat

Base == 0               \* base_loop_; the loops of the pool follow
Loop == 0 .. MaxThreads
Link == 1 .. MaxLinks

VARIABLES
    loops_,             \* the loops of the threads of the pool
    next_,              \* the index of the loop that is next
    connId_,            \* the number of the next connection
    loop,               \* the loop of each connection
    state_,             \* state_ of each connection; "none" before it is accepted
    handed,             \* the connections whose prepare() is queued
    polled,             \* the connections that the poller reports
    name2connection,    \* what it has under each name
    at,                 \* where the thread of each loop is, and with which connection
    fate                \* ok, undefined behaviour, or the assertion that failed

server == <<loops_, next_, connId_, loop, state_, handed, polled, name2connection, at, fate>>

\* The steps of newConnection(), in their order, and that of delConnection().
MapStep == {"insert", "find", "lookup", "erase"}
Step == MapStep \cup {"poll", "inserted", "handed", "found", "looked", "connected"}

ServerTypeOK ==
    /\ loops_ \in Seq(Loop \ {Base})
    /\ next_ \in Nat /\ (next_ = 0 \/ next_ < Len(loops_)) /\ connId_ \in Nat \ {0}
    /\ loop \in [Link -> Loop]
    /\ state_ \in [Link -> {"none", "Connected", "Disconnecting", "Disconnected"}]
    /\ handed \subseteq Link /\ polled \subseteq Link
    /\ name2connection \in [Link -> {"absent", "link", "null"}]
    /\ at \in [Loop -> [step : Step, link : Link \cup {0}]]
    /\ fate \in {"ok", "mapRace", "notFound", "nullLink", "methodTwice", "spins"}

\* start() has started a pool of so many threads.
ServerInit ==
    /\ \E n \in 0 .. MaxThreads : loops_ = [i \in 1 .. n |-> i]
    /\ next_ = 0 /\ connId_ = 1
    /\ loop = [l \in Link |-> Base]
    /\ state_ = [l \in Link |-> "none"]
    /\ handed = {} /\ polled = {}
    /\ name2connection = [l \in Link |-> "absent"]
    /\ at = [t \in Loop |-> [step |-> "poll", link |-> 0]]
    /\ fate = "ok"

Idle(t) == at[t].step = "poll"

\* The base loop is at this step of newConnection(), with the connection l.
Accepting(step, l) == at[Base] = [step |-> step, link |-> l]

Goto(t, step, l) == at' = [at EXCEPT ![t] = [step |-> step, link |-> l]]
Return(t) == Goto(t, "poll", 0)

\* An operation on the map begins.
EnterMap(t, step, l) ==
    /\ Goto(t, step, l)
    /\ fate' = IF \E u \in Loop \ {t} : at[u].step \in MapStep THEN "mapRace" ELSE fate

-------------------------------------------------------------------------------
(* Accepting, in the base loop. *)

\* Mutation: the index wraps one too late.
GetNextLoopLate(l) ==
    IF loops_ = <<>>
      THEN loop' = [loop EXCEPT ![l] = Base] /\ UNCHANGED next_
      ELSE /\ loop' = [loop EXCEPT ![l] = loops_[next_ + 1]]
           /\ next_' = IF next_ + 1 > Len(loops_) THEN 0 ELSE next_ + 1

\* EventLoopThreadPool::getNextLoop()
GetNextLoop(l) ==
    IF loops_ = <<>>
      THEN loop' = [loop EXCEPT ![l] = Base] /\ UNCHANGED next_
      ELSE /\ loop' = [loop EXCEPT ![l] = loops_[next_ + 1]]
           /\ next_' = IF next_ + 1 >= Len(loops_) THEN 0 ELSE next_ + 1

\* newConnection(), to where it inserts the connection in the map.
NewConnection ==
    /\ Idle(Base) /\ connId_ <= MaxLinks
    /\ GetNextLoop(connId_)
    /\ connId_' = connId_ + 1
    /\ state_' = [state_ EXCEPT ![connId_] = "Connected"]
    /\ EnterMap(Base, "insert", connId_)
    /\ UNCHANGED <<loops_, handed, polled, name2connection>>

Inserted(l) ==
    /\ Accepting("insert", l)
    /\ name2connection' = [name2connection EXCEPT ![l] = "link"]
    /\ Goto(Base, "inserted", l)
    /\ UNCHANGED <<loops_, next_, connId_, loop, state_, handed, polled, fate>>

\* runInLoop() of prepare(): at once in the base loop, or through the queue of another.
HandOver(l) ==
    /\ Accepting("inserted", l)
    /\ IF loop[l] = Base
         THEN polled' = polled \cup {l} /\ UNCHANGED handed
         ELSE handed' = handed \cup {l} /\ UNCHANGED polled
    /\ Goto(Base, "handed", l)
    /\ UNCHANGED <<loops_, next_, connId_, loop, state_, name2connection, fate>>

-------------------------------------------------------------------------------
(* In the loop of the connection. *)

\* Mutation: prepare() enables reading and does not tell the poller.
PrepareUnpolled(l) ==
    /\ l \in handed /\ Idle(loop[l])
    /\ \A m \in handed : loop[m] = loop[l] => l <= m
    /\ handed' = handed \ {l}
    /\ UNCHANGED <<loops_, next_, connId_, loop, state_, polled, name2connection, at, fate>>

\* prepare(), from the queue.
Prepare(l) ==
    /\ l \in handed /\ Idle(loop[l])
    /\ \A m \in handed : loop[m] = loop[l] => l <= m
    /\ handed' = handed \ {l} /\ polled' = polled \cup {l}
    /\ UNCHANGED <<loops_, next_, connId_, loop, state_, name2connection, at, fate>>

\* Mutation: a connection that was closed is still polled.
DisconnectKeepsPolling(l) ==
    /\ state_' = [state_ EXCEPT ![l] = "Disconnected"]
    /\ EnterMap(loop[l], "erase", l)
    /\ UNCHANGED <<loops_, next_, connId_, loop, handed, polled, name2connection>>

\* handleClose(), and delConnection() to where it erases the connection from the map.
Disconnect(l) ==
    /\ state_' = [state_ EXCEPT ![l] = "Disconnected"]
    /\ polled' = polled \ {l}
    /\ EnterMap(loop[l], "erase", l)
    /\ UNCHANGED <<loops_, next_, connId_, loop, handed, name2connection>>

\* The erasure.  Whether it destroys the link, which the base loop may hold in
\* newConnection(), is not told apart: LinkedSocket has the shared pointers.
Erased(l) ==
    /\ at[loop[l]] = [step |-> "erase", link |-> l]
    /\ name2connection' = [name2connection EXCEPT ![l] = "absent"]
    /\ Return(loop[l])
    /\ UNCHANGED <<loops_, next_, connId_, loop, state_, handed, polled, fate>>
===============================================================================
