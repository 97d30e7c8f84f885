---------------------------- MODULE HttpServerProofs ----------------------------
(***************************************************************************)
(* Theorems about HttpServer and the HttpContext it parses with, for any   *)
(* number of threads and connections and any clients: who keeps a          *)
(* connection alive, although the map of the server is written by several  *)
(* threads without a lock; that requests are parsed as they were written,  *)
(* wherever the stream is split; and in which ways the server can fail.    *)
(***************************************************************************)
EXTENDS HttpServer, SequenceLemmas, TLAPS

\* Which step each thread can be at, and with which connection.
PlaceInv ==
    /\ at[Base].step \notin {"poll", "erase"} => at[Base].link \in 1 .. connId_ - 1
    /\ \A t \in Loop \ {Base} : at[t].step \in {"poll", "erase"}
    /\ \A t \in Loop : at[t].step = "erase" =>
          /\ at[t].link \in Link
          /\ state_[at[t].link] = "Disconnected" /\ loop[at[t].link] = t

\* What is known of a connection before it is accepted, while it is inserted in the map
\* and handed over, while it waits for its loop, and while it is polled.
LinkInv(l) ==
    /\ l >= connId_ => /\ state_[l] = "none" /\ name2connection[l] = "absent"
                       /\ l \notin handed /\ l \notin polled
    /\ l \in polled => /\ state_[l] \in {"Connected", "Disconnecting"}
                       /\ name2connection[l] = "link" /\ l \notin handed
    /\ l \in handed => state_[l] = "Connected" /\ name2connection[l] = "link"
    /\ Accepting("insert", l) \/ Accepting("inserted", l) =>
          state_[l] = "Connected" /\ l \notin handed /\ l \notin polled
    /\ Accepting("inserted", l) => name2connection[l] = "link"
    /\ name2connection[l] = "link" /\ state_[l] = "Disconnected" =>
          at[loop[l]] = [step |-> "erase", link |-> l]

OwnInv == ServerTypeOK /\ PlaceInv /\ \A l \in Link : LinkInv(l)

\* The base loop is a loop; connections are numbered from 1.
LEMMA Constants ==
    /\ Base \in Loop /\ Base = 0
    /\ \A l \in Link : l \in Nat /\ l # 0
    /\ \A n \in Nat : n # 0 /\ n <= MaxLinks => n \in Link
    /\ \A n \in Nat : \A l \in 1 .. n - 1 : n <= MaxLinks + 1 => l \in Link
  BY ServerAssumption DEF Base, Loop, Link

\* A server that has started its pool.
LEMMA OwnInit == ServerInit => OwnInv
<1> SUFFICES ASSUME ServerInit PROVE OwnInv
    OBVIOUS
<1>1. PICK n \in 0 .. MaxThreads : loops_ = [i \in 1 .. n |-> i]
    BY DEF ServerInit
<1>2. loops_ \in Seq(Loop \ {Base})
  <2>1. n \in Nat /\ \A i \in 1 .. n : i \in Loop \ {Base}
      BY ServerAssumption DEF Loop, Base
  <2>2. QED
      BY <1>1, <2>1
<1>3. at \in [Loop -> [step : Step, link : Link \cup {0}]]
    BY DEF ServerInit, Step
<1>4. ServerTypeOK
    BY <1>2, <1>3, Constants DEF ServerInit, ServerTypeOK
<1>5. \A t \in Loop : at[t].step = "poll"
    BY DEF ServerInit
<1>6. PlaceInv
    BY <1>5, Constants DEF PlaceInv
<1>7. ASSUME NEW l \in Link PROVE LinkInv(l)
  <2>1. ~Accepting("insert", l) /\ ~Accepting("inserted", l)
      BY <1>5, Constants DEF Accepting
  <2>2. QED
      BY <2>1 DEF LinkInv, ServerInit
<1>8. QED
    BY <1>4, <1>6, <1>7 DEF OwnInv

-------------------------------------------------------------------------------
(* The base loop. *)

\* A function changed in one place.
LEMMA Moved ==
    ASSUME ServerTypeOK, NEW t \in Loop, NEW s \in Step, NEW l \in Link \cup {0}, Goto(t, s, l)
    PROVE  /\ at' \in [Loop -> [step : Step, link : Link \cup {0}]]
           /\ at'[t] = [step |-> s, link |-> l]
           /\ \A u \in Loop \ {t} : at'[u] = at[u]
  BY DEF Goto, ServerTypeOK

\* An operation on the map moves the thread, and may race.
LEMMA Fates ==
    ASSUME ServerTypeOK, NEW t, NEW s, NEW l, EnterMap(t, s, l)
    PROVE  /\ Goto(t, s, l)
           /\ fate' \in {"ok", "mapRace", "notFound", "nullLink", "methodTwice", "spins"}
  BY DEF EnterMap, ServerTypeOK

\* getNextLoop() returns a loop, and leaves next_ within the pool.
LEMMA NextLoop ==
    ASSUME ServerTypeOK, NEW l \in Link, GetNextLoop(l)
    PROVE  /\ loop' \in [Link -> Loop]
           /\ \A m \in Link \ {l} : loop'[m] = loop[m]
           /\ next_' \in Nat /\ (next_' = 0 \/ next_' < Len(loops_))
<1>1. CASE loops_ = <<>>
    BY <1>1, Constants DEF GetNextLoop, ServerTypeOK
<1>2. CASE loops_ # <<>>
  <2>1. loops_ \in Seq(Loop \ {Base}) /\ Len(loops_) \in Nat /\ Len(loops_) # 0
      BY <1>2 DEF ServerTypeOK
  <2>2. next_ + 1 \in 1 .. Len(loops_)
      BY <2>1 DEF ServerTypeOK
  <2>3. loops_[next_ + 1] \in Loop
      BY <2>1, <2>2
  <2>4. /\ loop' = [loop EXCEPT ![l] = loops_[next_ + 1]]
        /\ next_' = IF next_ + 1 >= Len(loops_) THEN 0 ELSE next_ + 1
      BY <1>2 DEF GetNextLoop
  <2>5. next_' \in Nat /\ (next_' = 0 \/ next_' < Len(loops_))
      BY <2>1, <2>4 DEF ServerTypeOK
  <2>6. QED
      BY <2>3, <2>4, <2>5 DEF ServerTypeOK
<1>3. QED
    BY <1>1, <1>2

\* newConnection(), up to where it inserts the connection.
LEMMA NewConnectionKeeps ==
    ASSUME OwnInv, NewConnection
    PROVE  OwnInv'
<1> DEFINE c == connId_
<1>1. /\ c \in Nat /\ c # 0 /\ c \in Link /\ at[Base].step = "poll"
      /\ connId_' = c + 1
      /\ UNCHANGED <<loops_, handed, polled, name2connection>>
    BY Constants DEF NewConnection, Idle, OwnInv, ServerTypeOK
<1>2. /\ loop' \in [Link -> Loop] /\ \A m \in Link \ {c} : loop'[m] = loop[m]
      /\ next_' \in Nat /\ (next_' = 0 \/ next_' < Len(loops_))
    BY <1>1, NextLoop DEF NewConnection, OwnInv
<1>3. /\ state_' \in [Link -> {"none", "Connected", "Disconnecting", "Disconnected"}]
      /\ state_'[c] = "Connected" /\ \A m \in Link \ {c} : state_'[m] = state_[m]
    BY <1>1 DEF NewConnection, OwnInv, ServerTypeOK
<1>4. /\ at' \in [Loop -> [step : Step, link : Link \cup {0}]]
      /\ at'[Base] = [step |-> "insert", link |-> c]
      /\ \A u \in Loop \ {Base} : at'[u] = at[u]
      /\ fate' \in {"ok", "mapRace", "notFound", "nullLink", "methodTwice", "spins"}
  <2>1. "insert" \in Step /\ Base \in Loop /\ EnterMap(Base, "insert", c)
      BY Constants DEF Step, MapStep, NewConnection
  <2>2. QED
      BY <1>1, <2>1, Moved, Fates DEF OwnInv
<1>5. ServerTypeOK'
    BY <1>1, <1>2, <1>3, <1>4 DEF OwnInv, ServerTypeOK
<1>6. LinkInv(c)
    BY <1>1 DEF OwnInv
<1>7. state_[c] = "none" /\ name2connection[c] = "absent" /\ c \notin handed /\ c \notin polled
    BY <1>1, <1>6 DEF LinkInv
<1>8. PlaceInv'
  <2>1. at'[Base].link \in 1 .. connId_' - 1
      BY <1>1, <1>4
  <2>2. \A t \in Loop \ {Base} : at'[t].step \in {"poll", "erase"}
      BY <1>4 DEF OwnInv, PlaceInv
  <2>3. ASSUME NEW t \in Loop, at'[t].step = "erase"
        PROVE  /\ at'[t].link \in Link
               /\ state_'[at'[t].link] = "Disconnected" /\ loop'[at'[t].link] = t
    <3>1. t # Base
        BY <1>4, <2>3
    <3>2. /\ at'[t] = at[t] /\ at[t].link \in Link
          /\ state_[at[t].link] = "Disconnected" /\ loop[at[t].link] = t
        BY <1>4, <2>3, <3>1 DEF OwnInv, PlaceInv
    <3>3. at[t].link # c
        BY <1>7, <3>2
    <3>4. QED
        BY <1>2, <1>3, <3>2, <3>3
  <2>4. QED
      BY <2>1, <2>2, <2>3 DEF PlaceInv
<1>9. ASSUME NEW l \in Link PROVE LinkInv(l)'
  <2>1. LinkInv(l) /\ l \in Nat
      BY Constants DEF OwnInv
  <2>2. CASE l = c
      BY <1>1, <1>3, <1>4, <1>7, <2>2 DEF LinkInv, Accepting
  <2>3. CASE l # c
    <3>1. state_'[l] = state_[l] /\ loop'[l] = loop[l] /\ loop[l] \in Loop
        BY <1>2, <1>3, <2>3 DEF OwnInv, ServerTypeOK
    <3>2. ~Accepting("insert", l)' /\ ~Accepting("inserted", l)'
        BY <1>4, <2>3 DEF Accepting
    <3>3. at[loop[l]] = [step |-> "erase", link |-> l] => at'[loop[l]] = at[loop[l]]
        BY <1>1, <1>4, <3>1
    <3>4. l >= connId_' => l >= connId_
        BY <1>1, <2>1
    <3>5. QED
        BY <1>1, <2>1, <3>1, <3>2, <3>3, <3>4 DEF LinkInv
  <2>4. QED
      BY <2>2, <2>3
<1>10. QED
    BY <1>5, <1>8, <1>9 DEF OwnInv

\* Another step of newConnection(), which moves on, and may change what the map has for
\* the connection and whether its loop has it.
LEMMA AcceptKeeps ==
    ASSUME OwnInv, NEW from \in Step \ {"poll", "erase"}, NEW l \in Link, Accepting(from, l),
           NEW to \in Step \ {"insert", "erase"}, NEW to_l \in Link \cup {0},
           to # "poll" => to_l = l,
           Goto(Base, to, to_l),
           UNCHANGED <<loops_, next_, connId_, loop, state_>>,
           fate' \in {"ok", "mapRace", "notFound", "nullLink", "methodTwice", "spins"},
           name2connection' \in [Link -> {"absent", "link", "null"}],
           handed' \subseteq Link, polled' \subseteq Link,
           \A m \in Link \ {l} : /\ name2connection'[m] = name2connection[m]
                                 /\ m \in handed' <=> m \in handed
                                 /\ m \in polled' <=> m \in polled,
           l < connId_ => LinkInv(l)'
    PROVE  OwnInv'
<1>1. Base \in Loop /\ at[Base] = [step |-> from, link |-> l] /\ l < connId_
  <2>1. at[Base] = [step |-> from, link |-> l] /\ connId_ \in Nat
      BY DEF Accepting, OwnInv, ServerTypeOK
  <2>2. l \in 1 .. connId_ - 1
      BY <2>1 DEF OwnInv, PlaceInv
  <2>3. QED
      BY <2>1, <2>2, Constants
<1>2. /\ at' \in [Loop -> [step : Step, link : Link \cup {0}]]
      /\ at'[Base] = [step |-> to, link |-> to_l]
      /\ \A u \in Loop \ {Base} : at'[u] = at[u]
    BY <1>1, Moved DEF OwnInv
<1>3. ServerTypeOK'
    BY <1>2 DEF OwnInv, ServerTypeOK
<1>4. PlaceInv'
  <2>1. to # "poll" => to_l \in 1 .. connId_ - 1
      BY <1>1, Constants DEF OwnInv, ServerTypeOK
  <2>2. QED
      BY <1>2, <2>1 DEF OwnInv, PlaceInv
<1>5. ASSUME NEW m \in Link PROVE LinkInv(m)'
  <2>1. CASE m = l
      BY <1>1, <2>1
  <2>2. CASE m # l
    <3>1. LinkInv(m) /\ loop[m] \in Loop
        BY DEF OwnInv, ServerTypeOK
    <3>2. /\ name2connection'[m] = name2connection[m]
          /\ m \in handed' <=> m \in handed
          /\ m \in polled' <=> m \in polled
        BY <2>2
    <3>3. ~Accepting("insert", m)' /\ ~Accepting("inserted", m)'
        BY <1>2, <2>2 DEF Accepting
    <3>4. at[loop[m]] = [step |-> "erase", link |-> m] => at'[loop[m]] = at[loop[m]]
        BY <1>1, <1>2, <3>1
    <3>5. QED
        BY <3>1, <3>2, <3>3, <3>4 DEF LinkInv
  <2>3. QED
      BY <2>1, <2>2
<1>6. QED
    BY <1>3, <1>4, <1>5 DEF OwnInv

\* The rest of newConnection() of TcpServer.
LEMMA InsertedKeeps ==
    ASSUME OwnInv, NEW l \in Link, Inserted(l)
    PROVE  OwnInv'
<1>1. "insert" \in Step \ {"poll", "erase"} /\ "inserted" \in Step \ {"insert", "erase"}
    BY DEF Step, MapStep
<1>2. /\ Accepting("insert", l) /\ Goto(Base, "inserted", l)
      /\ UNCHANGED <<loops_, next_, connId_, loop, state_, handed, polled, fate>>
      /\ name2connection' \in [Link -> {"absent", "link", "null"}]
      /\ name2connection'[l] = "link"
      /\ \A m \in Link \ {l} : name2connection'[m] = name2connection[m]
    BY DEF Inserted, OwnInv, ServerTypeOK
<1>3. l < connId_ => LinkInv(l)'
  <2>1. LinkInv(l) /\ l \in Nat /\ connId_ \in Nat
      BY Constants DEF OwnInv, ServerTypeOK
  <2>2. state_[l] = "Connected" /\ l \notin handed /\ l \notin polled
      BY <1>2, <2>1 DEF LinkInv
  <2>3. QED
      BY <1>2, <2>1, <2>2 DEF LinkInv
<1>4. QED
    BY <1>1, <1>2, <1>3, AcceptKeeps DEF OwnInv, ServerTypeOK

\* prepare() is run or queued: the connection is in the map.
LEMMA HandOverKeeps ==
    ASSUME OwnInv, NEW l \in Link, HandOver(l)
    PROVE  OwnInv'
<1>1. "inserted" \in Step \ {"poll", "erase"} /\ "handed" \in Step \ {"insert", "erase"}
    BY DEF Step, MapStep
<1>2. /\ Accepting("inserted", l) /\ Goto(Base, "handed", l)
      /\ UNCHANGED <<loops_, next_, connId_, loop, state_, name2connection, fate>>
      /\ \/ polled' = polled \cup {l} /\ handed' = handed
         \/ handed' = handed \cup {l} /\ polled' = polled
    BY DEF HandOver
<1>3. handed' \subseteq Link /\ polled' \subseteq Link
    BY <1>2 DEF OwnInv, ServerTypeOK
<1>4. l < connId_ => LinkInv(l)'
  <2>1. LinkInv(l) /\ l \in Nat /\ connId_ \in Nat
      BY Constants DEF OwnInv, ServerTypeOK
  <2>2. /\ state_[l] = "Connected" /\ l \notin handed /\ l \notin polled
        /\ name2connection[l] = "link"
      BY <1>2, <2>1 DEF LinkInv
  <2>3. ~Accepting("insert", l)' /\ ~Accepting("inserted", l)'
    <3>1. at'[Base].step = "handed"
      <4>1. Base \in Loop /\ "handed" \in Step /\ l \in Link \cup {0}
          BY <1>1, Constants
      <4>2. at'[Base] = [step |-> "handed", link |-> l]
          BY <1>2, <4>1, Moved DEF OwnInv
      <4>3. QED
          BY <4>2
    <3>2. QED
        BY <3>1 DEF Accepting
  <2>4. l < connId_ => ~(l >= connId_')
      BY <1>2, <2>1
  <2>5. QED
      BY <1>2, <2>1, <2>2, <2>3, <2>4 DEF LinkInv
<1>5. \A m \in Link \ {l} : /\ name2connection'[m] = name2connection[m]
                            /\ m \in handed' <=> m \in handed
                            /\ m \in polled' <=> m \in polled
    BY <1>2
<1>6. QED
    BY <1>1, <1>2, <1>3, <1>4, <1>5, AcceptKeeps DEF OwnInv, ServerTypeOK

\* A step that changes nothing about the connections but the place of the base loop.
LEMMA PlaceKeeps ==
    ASSUME OwnInv, NEW from \in Step \ {"poll", "erase", "insert", "inserted"}, NEW l \in Link,
           Accepting(from, l),
           NEW to \in Step \ {"insert", "inserted", "erase"}, NEW to_l \in Link \cup {0},
           to # "poll" => to_l = l,
           Goto(Base, to, to_l),
           UNCHANGED <<loops_, next_, connId_, loop, state_, handed, polled, name2connection>>,
           fate' \in {"ok", "mapRace", "notFound", "nullLink", "methodTwice", "spins"}
    PROVE  OwnInv'
<1>1. /\ at'[Base].step = to /\ at[Base] = [step |-> from, link |-> l]
      /\ \A u \in Loop \ {Base} : at'[u] = at[u]
  <2>1. Base \in Loop /\ to \in Step /\ ServerTypeOK
      BY Constants DEF OwnInv
  <2>2. at'[Base] = [step |-> to, link |-> to_l] /\ \A u \in Loop \ {Base} : at'[u] = at[u]
      BY <2>1, Moved
  <2>3. QED
      BY <2>2 DEF Accepting
<1>2. LinkInv(l)'
  <2>1. LinkInv(l) /\ loop[l] \in Loop
      BY DEF OwnInv, ServerTypeOK
  <2>2. ~Accepting("insert", l)' /\ ~Accepting("inserted", l)'
      BY <1>1 DEF Accepting
  <2>3. at[loop[l]] = [step |-> "erase", link |-> l] => at'[loop[l]] = at[loop[l]]
      BY <1>1, <2>1
  <2>4. QED
      BY <2>1, <2>2, <2>3 DEF LinkInv
<1>3. QED
    BY <1>2, AcceptKeeps DEF OwnInv, ServerTypeOK

\* newConnection() of HttpServer: operator[] may insert a null pointer, never one that
\* keeps a connection alive.
LEMMA AcceptStepKeeps ==
    ASSUME OwnInv, NEW l \in Link, AcceptStep(l),
           UNCHANGED <<loops_, next_, connId_, loop, state_, handed, polled>>
    PROVE  OwnInv'
<1>1. /\ {"handed", "find", "found", "lookup", "looked", "connected"}
            \subseteq Step \ {"poll", "erase", "insert", "inserted"}
      /\ "poll" \in Step
    BY DEF Step, MapStep
<1>2. fate \in {"ok", "mapRace", "notFound", "nullLink", "methodTwice", "spins"}
    BY DEF OwnInv, ServerTypeOK
<1>3. CASE Find(l) /\ UNCHANGED name2connection
    BY <1>1, <1>3, Fates, PlaceKeeps DEF Find, OwnInv
<1>4. CASE Found(l) /\ UNCHANGED name2connection
    BY <1>1, <1>2, <1>4, PlaceKeeps DEF Found
<1>5. CASE Lookup(l) /\ UNCHANGED name2connection
    BY <1>1, <1>5, Fates, PlaceKeeps DEF Lookup, OwnInv
<1>6. CASE LookedUp(l)
  <2>1. /\ Accepting("lookup", l) /\ Goto(Base, "looked", l)
        /\ fate' \in {"ok", "mapRace", "notFound", "nullLink", "methodTwice", "spins"}
        /\ \/ UNCHANGED name2connection
           \/ /\ name2connection[l] = "absent"
              /\ name2connection' = [name2connection EXCEPT ![l] = "null"]
      BY <1>2, <1>6 DEF LookedUp
  <2>2. CASE UNCHANGED name2connection
      BY <1>1, <2>1, <2>2, PlaceKeeps
  <2>3. CASE name2connection[l] = "absent" /\ name2connection' = [name2connection EXCEPT ![l] = "null"]
    <3>1. /\ name2connection' \in [Link -> {"absent", "link", "null"}]
          /\ name2connection'[l] = "null"
          /\ \A m \in Link \ {l} : name2connection'[m] = name2connection[m]
        BY <2>3 DEF OwnInv, ServerTypeOK
    <3>2. l < connId_ => LinkInv(l)'
      <4>1. LinkInv(l) /\ l \in Nat /\ connId_ \in Nat
          BY Constants DEF OwnInv, ServerTypeOK
      <4>2. at'[Base].step = "looked"
        <5>1. Base \in Loop /\ "looked" \in Step /\ l \in Link \cup {0}
            BY <1>1, Constants
        <5>2. at'[Base] = [step |-> "looked", link |-> l]
            BY <2>1, <5>1, Moved DEF OwnInv
        <5>3. QED
            BY <5>2
      <4>3. l \notin handed /\ l \notin polled
          BY <2>3, <4>1 DEF LinkInv
      <4>4. l < connId_ => ~(l >= connId_')
          BY <4>1
      <4>5. QED
          BY <3>1, <4>1, <4>2, <4>3, <4>4 DEF LinkInv, Accepting
    <3>3. QED
        BY <1>1, <2>1, <3>1, <3>2, AcceptKeeps DEF OwnInv, ServerTypeOK
  <2>4. QED
      BY <2>1, <2>2, <2>3
<1>7. CASE TestConnected(l) /\ UNCHANGED <<name2connection, fate>>
    BY <1>1, <1>2, <1>7, PlaceKeeps DEF TestConnected, Return
<1>8. CASE SetContext(l) /\ UNCHANGED <<name2connection, fate>>
    BY <1>1, <1>2, <1>8, PlaceKeeps DEF SetContext, Return
<1>9. QED
    BY <1>3, <1>4, <1>5, <1>6, <1>7, <1>8 DEF AcceptStep

-------------------------------------------------------------------------------
(* The loop of a connection. *)

\* prepare(), from the queue of the loop.
LEMMA PrepareKeeps ==
    ASSUME OwnInv, NEW l \in Link, Prepare(l)
    PROVE  OwnInv'
<1>1. /\ l \in handed /\ handed' = handed \ {l} /\ polled' = polled \cup {l}
      /\ UNCHANGED <<loops_, next_, connId_, loop, state_, name2connection, at, fate>>
    BY DEF Prepare
<1>2. ServerTypeOK' /\ PlaceInv'
    BY <1>1 DEF OwnInv, ServerTypeOK, PlaceInv
<1>3. ASSUME NEW m \in Link PROVE LinkInv(m)'
  <2>1. LinkInv(m)
      BY DEF OwnInv
  <2>2. CASE m = l
      BY <1>1, <2>1, <2>2 DEF LinkInv, Accepting
  <2>3. CASE m # l
      BY <1>1, <2>1, <2>3 DEF LinkInv, Accepting
  <2>4. QED
      BY <2>2, <2>3
<1>4. QED
    BY <1>2, <1>3 DEF OwnInv

\* A connection that is polled is closed.
LEMMA DisconnectKeeps ==
    ASSUME OwnInv, NEW l \in Link, l \in polled, Idle(loop[l]), Disconnect(l)
    PROVE  OwnInv'
<1> DEFINE t == loop[l]
<1>1. t \in Loop /\ LinkInv(l) /\ l \in Nat /\ "erase" \in Step /\ at[t].step = "poll"
    BY Constants DEF OwnInv, ServerTypeOK, Step, MapStep, Idle
<1>2. /\ polled' = polled \ {l}
      /\ UNCHANGED <<loops_, next_, connId_, loop, handed, name2connection>>
      /\ EnterMap(t, "erase", l)
    BY DEF Disconnect
<1>3. /\ state_' \in [Link -> {"none", "Connected", "Disconnecting", "Disconnected"}]
      /\ state_'[l] = "Disconnected" /\ \A m \in Link \ {l} : state_'[m] = state_[m]
    BY DEF Disconnect, OwnInv, ServerTypeOK
<1> HIDE DEF t
<1>4. /\ at' \in [Loop -> [step : Step, link : Link \cup {0}]]
      /\ at'[t] = [step |-> "erase", link |-> l]
      /\ \A u \in Loop \ {t} : at'[u] = at[u]
      /\ fate' \in {"ok", "mapRace", "notFound", "nullLink", "methodTwice", "spins"}
  <2>1. l \in Link \cup {0} /\ ServerTypeOK
      BY DEF OwnInv
  <2>2. QED
      BY <1>1, <1>2, <2>1, Moved, Fates
<1>5. ServerTypeOK'
    BY <1>2, <1>3, <1>4 DEF OwnInv, ServerTypeOK
<1>6. PlaceInv'
  <2>1. at'[Base].step \notin {"poll", "erase"} => at'[Base].link \in 1 .. connId_' - 1
      BY <1>2, <1>4, Constants DEF OwnInv, PlaceInv
  <2>2. \A u \in Loop \ {Base} : at'[u].step \in {"poll", "erase"}
      BY <1>4 DEF OwnInv, PlaceInv
  <2>3. ASSUME NEW u \in Loop, at'[u].step = "erase"
        PROVE  /\ at'[u].link \in Link
               /\ state_'[at'[u].link] = "Disconnected" /\ loop'[at'[u].link] = u
    <3>1. CASE u = t
        BY <1>2, <1>3, <1>4, <3>1 DEF t
    <3>2. CASE u # t
      <4>1. /\ at'[u] = at[u] /\ at[u].link \in Link
            /\ state_[at[u].link] = "Disconnected" /\ loop[at[u].link] = u
          BY <1>4, <2>3, <3>2 DEF OwnInv, PlaceInv
      <4>2. QED
          BY <1>2, <1>3, <4>1
    <3>3. QED
        BY <3>1, <3>2
  <2>4. QED
      BY <2>1, <2>2, <2>3 DEF PlaceInv
<1>7. ASSUME NEW m \in Link PROVE LinkInv(m)'
  <2>1. LinkInv(m) /\ loop[m] \in Loop
      BY DEF OwnInv, ServerTypeOK
  <2>2. CASE m = l
    <3>1. l \notin handed /\ ~(l >= connId_) /\ state_[l] \in {"Connected", "Disconnecting"}
        BY <1>1 DEF LinkInv
    <3>2. ~Accepting("insert", l)' /\ ~Accepting("inserted", l)'
      <4>1. ~Accepting("insert", l) /\ ~Accepting("inserted", l)
          BY <1>1 DEF LinkInv
      <4>2. at'[Base] = at[Base] \/ at'[Base].step = "erase"
          BY <1>4, Constants
      <4>3. QED
          BY <4>1, <4>2 DEF Accepting
    <3>3. at'[loop'[l]] = [step |-> "erase", link |-> l]
        BY <1>2, <1>4 DEF t
    <3>4. QED
        BY <1>2, <2>2, <3>1, <3>2, <3>3 DEF LinkInv
  <2>3. CASE m # l
    <3>1. /\ state_'[m] = state_[m] /\ (m \in polled' <=> m \in polled)
          /\ at'[Base] = at[Base] \/ at'[Base].step = "erase"
        BY <1>2, <1>3, <1>4, <2>3, Constants
    <3>2. /\ Accepting("insert", m)' => Accepting("insert", m)
          /\ Accepting("inserted", m)' => Accepting("inserted", m)
        BY <3>1 DEF Accepting
    <3>3. at[loop[m]] = [step |-> "erase", link |-> m] => at'[loop[m]] = at[loop[m]]
        BY <1>1, <1>4, <2>1
    <3>4. QED
        BY <1>2, <2>1, <3>1, <3>2, <3>3 DEF LinkInv
  <2>4. QED
      BY <2>2, <2>3
<1>8. QED
    BY <1>5, <1>6, <1>7 DEF OwnInv

\* delConnection() has erased the connection.
LEMMA ErasedKeeps ==
    ASSUME OwnInv, NEW l \in Link, Erased(l)
    PROVE  OwnInv'
<1> DEFINE t == loop[l]
<1>1. t \in Loop /\ LinkInv(l) /\ "poll" \in Step /\ at[t] = [step |-> "erase", link |-> l]
    BY DEF OwnInv, ServerTypeOK, Step, Erased
<1>2. /\ Goto(t, "poll", 0)
      /\ UNCHANGED <<loops_, next_, connId_, loop, state_, handed, polled, fate>>
    BY DEF Erased, Return
<1>3. /\ name2connection' \in [Link -> {"absent", "link", "null"}]
      /\ name2connection'[l] = "absent"
      /\ \A m \in Link \ {l} : name2connection'[m] = name2connection[m]
    BY DEF Erased, OwnInv, ServerTypeOK
<1> HIDE DEF t
<1>4. /\ at' \in [Loop -> [step : Step, link : Link \cup {0}]]
      /\ at'[t] = [step |-> "poll", link |-> 0]
      /\ \A u \in Loop \ {t} : at'[u] = at[u]
  <2>1. 0 \in Link \cup {0} /\ ServerTypeOK
      BY DEF OwnInv
  <2>2. QED
      BY <1>1, <1>2, <2>1, Moved
<1>5. ServerTypeOK'
    BY <1>2, <1>3, <1>4 DEF OwnInv, ServerTypeOK
<1>6. PlaceInv'
  <2>1. at'[Base].step \notin {"poll", "erase"} => at'[Base].link \in 1 .. connId_' - 1
      BY <1>2, <1>4, Constants DEF OwnInv, PlaceInv
  <2>2. \A u \in Loop \ {Base} : at'[u].step \in {"poll", "erase"}
      BY <1>4 DEF OwnInv, PlaceInv
  <2>3. ASSUME NEW u \in Loop, at'[u].step = "erase"
        PROVE  /\ at'[u].link \in Link
               /\ state_'[at'[u].link] = "Disconnected" /\ loop'[at'[u].link] = u
    <3>1. at'[u] = at[u]
        BY <1>4, <2>3
    <3>2. QED
        BY <1>2, <2>3, <3>1 DEF OwnInv, PlaceInv
  <2>4. QED
      BY <2>1, <2>2, <2>3 DEF PlaceInv
<1>7. state_[l] = "Disconnected"
    BY <1>1 DEF OwnInv, PlaceInv
<1>8. ASSUME NEW m \in Link PROVE LinkInv(m)'
  <2>1. LinkInv(m) /\ loop[m] \in Loop
      BY DEF OwnInv, ServerTypeOK
  <2>2. at'[Base] = at[Base] \/ at'[Base].step = "poll"
      BY <1>4, Constants
  <2>3. /\ Accepting("insert", m)' => Accepting("insert", m)
        /\ Accepting("inserted", m)' => Accepting("inserted", m)
      BY <2>2 DEF Accepting
  <2>4. CASE m = l
    <3>1. l \notin handed /\ l \notin polled /\ ~(l >= connId_)
        BY <1>1, <1>7 DEF LinkInv
    <3>2. ~Accepting("insert", l) /\ ~Accepting("inserted", l)
        BY <1>1, <1>7 DEF LinkInv
    <3>3. QED
        BY <1>2, <1>3, <2>3, <2>4, <3>1, <3>2 DEF LinkInv
  <2>5. CASE m # l
    <3>1. at[loop[m]] = [step |-> "erase", link |-> m] => at'[loop[m]] = at[loop[m]]
        BY <1>1, <1>4, <2>1, <2>5
    <3>2. QED
        BY <1>2, <1>3, <2>1, <2>3, <2>5, <3>1 DEF LinkInv
  <2>6. QED
      BY <2>4, <2>5
<1>9. QED
    BY <1>5, <1>6, <1>8 DEF OwnInv

\* rcvMessage(), whatever the parser makes of what was read: the connection stays as it is,
\* or is shut down.
LEMMA RespondKeeps ==
    ASSUME OwnInv, NEW l \in Link, l \in polled, NEW p, NEW close \in BOOLEAN, Respond(l, p, close)
    PROVE  OwnInv'
<1>1. /\ UNCHANGED <<loops_, next_, connId_, loop, handed, polled, name2connection, at, fate>>
      /\ \/ state_' = state_
         \/ state_[l] = "Connected" /\ state_' = [state_ EXCEPT ![l] = "Disconnecting"]
    BY DEF Respond, OwnInv, ServerTypeOK
<1>2. /\ state_' \in [Link -> {"none", "Connected", "Disconnecting", "Disconnected"}]
      /\ \A m \in Link : \/ state_'[m] = state_[m]
                         \/ m = l /\ state_[l] = "Connected" /\ state_'[l] = "Disconnecting"
    BY <1>1 DEF OwnInv, ServerTypeOK
<1>3. ServerTypeOK'
    BY <1>1, <1>2 DEF OwnInv, ServerTypeOK
<1>4. PlaceInv'
  <2>1. ASSUME NEW t \in Loop, at[t].step = "erase"
        PROVE  at[t].link \in Link /\ state_'[at[t].link] = "Disconnected" /\ loop[at[t].link] = t
      BY <1>2, <2>1 DEF OwnInv, PlaceInv
  <2>2. QED
      BY <1>1, <2>1 DEF OwnInv, PlaceInv
<1>5. ASSUME NEW m \in Link PROVE LinkInv(m)'
  <2>1. LinkInv(m)
      BY DEF OwnInv
  <2>2. CASE state_'[m] = state_[m]
      BY <1>1, <2>1, <2>2 DEF LinkInv, Accepting
  <2>3. CASE m = l /\ state_[l] = "Connected" /\ state_'[l] = "Disconnecting"
    <3>1. l \notin handed /\ ~Accepting("insert", l) /\ ~Accepting("inserted", l)
        BY <2>1, <2>3 DEF LinkInv
    <3>2. QED
        BY <1>1, <2>1, <2>3, <3>1 DEF LinkInv, Accepting
  <2>4. QED
      BY <1>2, <2>2, <2>3
<1>6. QED
    BY <1>3, <1>4, <1>5 DEF OwnInv

\* A step that leaves the server alone, or only fails.
LEMMA SameServerKeeps ==
    ASSUME OwnInv,
           UNCHANGED <<loops_, next_, connId_, loop, state_, handed, polled, name2connection, at>>,
           fate' \in {"ok", "mapRace", "notFound", "nullLink", "methodTwice", "spins"}
    PROVE  OwnInv'
<1>1. ServerTypeOK' /\ PlaceInv'
    BY DEF OwnInv, ServerTypeOK, PlaceInv
<1>2. ASSUME NEW m \in Link PROVE LinkInv(m)'
  <2>1. LinkInv(m)
      BY DEF OwnInv
  <2>2. QED
      BY <2>1 DEF LinkInv, Accepting
<1>3. QED
    BY <1>1, <1>2 DEF OwnInv

\* handleRead() of some bytes.
LEMMA ReceiveKeeps ==
    ASSUME OwnInv, NEW l \in Link, NEW n, Receive(l, n)
    PROVE  OwnInv'
<1> DEFINE in == inputBuffer[l] \o SubSeq(wire[l], 1, n)
<1>1. fate \in {"ok", "mapRace", "notFound", "nullLink", "methodTwice", "spins"}
    BY DEF OwnInv, ServerTypeOK
<1>2. CASE Ignore(l, in)
    BY <1>1, <1>2, SameServerKeeps DEF Ignore, server
<1>3. ASSUME NEW p, ParserFails(p) PROVE OwnInv'
  <2>1. /\ fate' \in {"methodTwice", "spins"}
        /\ UNCHANGED <<loops_, next_, connId_, loop, state_, handed, polled, name2connection, at>>
      BY <1>3 DEF ParserFails
  <2>2. QED
      BY <2>1, SameServerKeeps
<1>4. ASSUME NEW p, NEW close \in BOOLEAN, Respond(l, p, close) PROVE OwnInv'
    BY <1>4, RespondKeeps DEF Receive
<1>5. QED
    BY <1>2, <1>3, <1>4 DEF Receive

\* Every step of the server keeps the invariant.
LEMMA OwnNext == OwnInv /\ [Next]_vars => OwnInv'
<1> SUFFICES ASSUME OwnInv, [Next]_vars PROVE OwnInv'
    OBVIOUS
<1>1. fate \in {"ok", "mapRace", "notFound", "nullLink", "methodTwice", "spins"}
    BY DEF OwnInv, ServerTypeOK
<1>2. CASE BaseStep
    BY <1>2, NewConnectionKeeps, InsertedKeeps, HandOverKeeps, AcceptStepKeeps DEF BaseStep
<1>3. ASSUME NEW l \in Link, LoopStep(l) PROVE OwnInv'
  <2>1. CASE Prepare(l) \/ Erased(l)
      BY <2>1, PrepareKeeps, ErasedKeeps
  <2>2. CASE ReceiveSome(l)
      BY <2>2, ReceiveKeeps DEF ReceiveSome
  <2>3. CASE EndOfStream(l)
      BY <2>3, DisconnectKeeps DEF EndOfStream
  <2>4. QED
      BY <1>3, <2>1, <2>2, <2>3 DEF LoopStep
<1>4. ASSUME NEW l \in Link, Close(l) PROVE OwnInv'
    BY <1>1, <1>4, SameServerKeeps DEF Close, server
<1>5. ASSUME NEW l \in Link, NEW line \in Written, Write(l, line) PROVE OwnInv'
    BY <1>1, <1>5, SameServerKeeps DEF Write, server
<1>6. CASE UNCHANGED vars
    BY <1>1, <1>6, SameServerKeeps DEF vars, server
<1>7. QED
    BY <1>2, <1>3, <1>4, <1>5, <1>6 DEF Next

\* The state of the server is well typed, and the steps of its threads fit together.
THEOREM ServerInvariant == Safety => []OwnInv
<1>1. Init => OwnInv
    BY OwnInit DEF Init
<1>2. QED
    BY <1>1, OwnNext, PTL DEF Safety

\* A connection that is polled is kept alive by the map of the server until the loop that
\* closes it erases it, for any threads, connections and clients (TcpServer.cpp:57, :64).
THEOREM OpenLinksAreOwnedHolds == Safety => []OpenLinksAreOwned
<1>1. OwnInv => OpenLinksAreOwned
  <2>1. SUFFICES ASSUME OwnInv, NEW l \in Link
                 PROVE  /\ l \in polled => name2connection[l] = "link" /\ state_[l] # "Disconnected"
                        /\ name2connection[l] = "link" /\ state_[l] = "Disconnected"
                              => at[loop[l]] = [step |-> "erase", link |-> l]
      BY DEF OpenLinksAreOwned
  <2>2. LinkInv(l)
      BY <2>1 DEF OwnInv
  <2>3. QED
      BY <2>2 DEF LinkInv
<1>2. QED
    BY <1>1, ServerInvariant, PTL

-------------------------------------------------------------------------------
(* The loop of parseRequest().  It is a function by its definition only if   *)
(* such a function exists: the one that takes a state of the parser to the   *)
(* state at the end of its rounds.                                           *)

\* The loop of the parser goes on, and what it does next.
Going(p) == p.hasMore /\ p.context.state_ # "GotAll"
Turn(p) == Round(p, FindCRLF(p.in))

\* Where findCRLF() stops.
LEMMA LineEnd ==
    ASSUME NEW in \in Seq(Symbol)
    PROVE  /\ FindCRLF(in) \in Nat
           /\ FindCRLF(in) # 0 => /\ FindCRLF(in) \in 1 .. Len(in) - 1
                                  /\ in[FindCRLF(in)] = "cr" /\ in[FindCRLF(in) + 1] = "lf"
           /\ \A i \in 1 .. Len(in) - 1 : in[i] = "cr" /\ in[i + 1] = "lf" => FindCRLF(in) \in 1 .. i
<1> DEFINE ends == {i \in 1 .. Len(in) - 1 : in[i] = "cr" /\ in[i + 1] = "lf"}
           crlf == FindCRLF(in)
<1>1. Len(in) \in Nat /\ ends \in SUBSET Nat
    OBVIOUS
<1>2. \A i : i \in ends <=> i \in 1 .. Len(in) - 1 /\ in[i] = "cr" /\ in[i + 1] = "lf"
    OBVIOUS
<1>3. crlf = IF ends = {} THEN 0 ELSE Min(ends)
    BY DEF FindCRLF
<1> HIDE DEF ends, crlf
<1>4. crlf \in Nat /\ (crlf # 0 => crlf \in ends) /\ \A i \in ends : crlf # 0 /\ crlf <= i
  <2>1. CASE ends = {}
      BY <1>3, <2>1
  <2>2. CASE ends # {}
    <3>1. PICK i \in ends : \A j \in ends : i <= j
        BY <1>1, <2>2, LeastNatural
    <3>2. Min(ends) \in ends /\ \A j \in ends : Min(ends) <= j
        BY <3>1 DEF Min
    <3>3. 0 \notin ends
        BY <1>2
    <3>4. QED
        BY <1>1, <1>3, <2>2, <3>2, <3>3
  <2>3. QED
      BY <2>1, <2>2
<1>5. \A i \in ends : crlf \in 1 .. i
    BY <1>1, <1>4
<1>6. QED
    BY <1>2, <1>4, <1>5 DEF crlf

\* A round of the loop: it ends the loop, or there is less to read.
LEMMA TurnType ==
    ASSUME NEW p \in Progress
    PROVE  /\ Turn(p) \in Progress
           /\ Turn(p).hasMore => Len(Turn(p).in) < Len(p.in)
<1> DEFINE crlf == FindCRLF(p.in)
<1>1. /\ p.context \in Context /\ p.in \in Seq(Symbol)
      /\ p.ok \in BOOLEAN /\ p.hasMore \in BOOLEAN /\ p.aborted \in BOOLEAN
    BY DEF Progress
<1>2. crlf \in Nat /\ (crlf # 0 => crlf \in 1 .. Len(p.in) - 1)
    BY <1>1, LineEnd
<1> HIDE DEF crlf
<1>3. crlf # 0 => /\ Retrieved(p.in, crlf) \in Seq(Symbol)
                  /\ Len(Retrieved(p.in, crlf)) < Len(p.in)
  <2>1. SUFFICES ASSUME crlf # 0
                 PROVE  /\ Retrieved(p.in, crlf) \in Seq(Symbol)
                        /\ Len(Retrieved(p.in, crlf)) < Len(p.in)
      OBVIOUS
  <2>2. \A i \in crlf + 2 .. Len(p.in) : p.in[i] \in Symbol
      BY <1>1, <1>2
  <2>3. QED
      BY <1>1, <1>2, <2>1, <2>2, SubSeqProperties DEF Retrieved
<1>4. CASE crlf = 0
    BY <1>1, <1>4 DEF Turn, Round, Progress, crlf
<1>5. CASE crlf # 0 /\ p.context.state_ = "ExpectRequestLine"
  <2>1. ProcessRequestLine(p, crlf) \in Progress
      BY <1>1, <1>3, <1>5 DEF ProcessRequestLine, Progress, Context, Contains
  <2>2. QED
  BY <1>1, <1>3, <1>5 DEF Turn, Round, ProcessRequestLine, Progress, Context, Contains, crlf
<1>6. CASE crlf # 0 /\ p.context.state_ # "ExpectRequestLine"
    BY <1>1, <1>3, <1>6 DEF Turn, Round, ProcessHeader, Progress, Context, crlf
<1>7. QED
    BY <1>4, <1>5, <1>6

\* The loop of the parser as a function exists.
LEMMA ParseUnfold ==
    \A p \in Progress : Parse[p] = IF Going(p) THEN Parse[Turn(p)] ELSE p
<1> DEFINE Chain(p, q, n, c) ==
              /\ c[0] = p /\ c[n] = q /\ ~Going(q)
              /\ \A i \in 0 .. n - 1 : Going(c[i]) /\ c[i + 1] = Turn(c[i])
           F(p) == {q \in Progress : \E n \in Nat : \E c \in [0 .. n -> Progress] : Chain(p, q, n, c)}
           g == [p \in Progress |-> CHOOSE q : q \in F(p)]
<1>1. ASSUME NEW p \in Progress, ~Going(p) PROVE F(p) = {p}
  <2>1. p \in F(p)
    <3>1. Chain(p, p, 0, [i \in 0 .. 0 |-> p])
        BY <1>1
    <3>2. 0 \in Nat /\ [i \in 0 .. 0 |-> p] \in [0 .. 0 -> Progress]
        OBVIOUS
    <3> HIDE DEF Chain
    <3>3. QED
        BY <3>1, <3>2
  <2>2. ASSUME NEW q \in F(p) PROVE q = p
    <3>1. PICK n \in Nat : \E c \in [0 .. n -> Progress] : Chain(p, q, n, c)
        OBVIOUS
    <3>2. PICK c \in [0 .. n -> Progress] : Chain(p, q, n, c)
        BY <3>1
    <3>3. n = 0
        BY <1>1, <3>2
    <3>4. QED
        BY <3>2, <3>3
  <2>3. QED
      BY <2>1, <2>2
<1>2. ASSUME NEW p \in Progress, Going(p) PROVE F(p) = F(Turn(p)) /\ Turn(p) \in Progress
  <2>1. Turn(p) \in Progress
      BY TurnType
  <2>2. ASSUME NEW q \in F(p) PROVE q \in F(Turn(p))
    <3>1. PICK n \in Nat : \E c \in [0 .. n -> Progress] : Chain(p, q, n, c)
        OBVIOUS
    <3>2. PICK c \in [0 .. n -> Progress] : Chain(p, q, n, c)
        BY <3>1
    <3>3. n # 0
        BY <1>2, <3>2
    <3> DEFINE d == [i \in 0 .. n - 1 |-> c[i + 1]]
    <3>4. n - 1 \in Nat /\ d \in [0 .. n - 1 -> Progress]
        BY <3>3
    <3>5. Chain(Turn(p), q, n - 1, d)
      <4>1. d[0] = Turn(p) /\ d[n - 1] = q
          BY <3>2, <3>3
      <4>2. ASSUME NEW i \in 0 .. n - 1 - 1 PROVE Going(d[i]) /\ d[i + 1] = Turn(d[i])
        <5>1. i + 1 \in 0 .. n - 1 /\ i \in 0 .. n - 1
            OBVIOUS
        <5>2. d[i] = c[i + 1] /\ d[i + 1] = c[i + 1 + 1]
            BY <5>1
        <5>3. QED
            BY <3>2, <5>1, <5>2
      <4>3. QED
          BY <3>2, <4>1, <4>2
    <3> HIDE DEF Chain, d
    <3>6. QED
        BY <3>4, <3>5
  <2>3. ASSUME NEW q \in F(Turn(p)) PROVE q \in F(p)
    <3>1. PICK n \in Nat : \E c \in [0 .. n -> Progress] : Chain(Turn(p), q, n, c)
        OBVIOUS
    <3>2. PICK c \in [0 .. n -> Progress] : Chain(Turn(p), q, n, c)
        BY <3>1
    <3> DEFINE d == [i \in 0 .. n + 1 |-> IF i = 0 THEN p ELSE c[i - 1]]
    <3>3. n + 1 \in Nat /\ d \in [0 .. n + 1 -> Progress]
        OBVIOUS
    <3>4. Chain(p, q, n + 1, d)
      <4>1. d[0] = p /\ d[n + 1] = q
          BY <3>2
      <4>2. ASSUME NEW i \in 0 .. n + 1 - 1 PROVE Going(d[i]) /\ d[i + 1] = Turn(d[i])
        <5>1. i + 1 \in 0 .. n + 1 /\ i \in 0 .. n + 1 /\ d[i + 1] = c[i]
            OBVIOUS
        <5>2. CASE i = 0
            BY <1>2, <3>2, <5>1, <5>2
        <5>3. CASE i # 0
          <6>1. i - 1 \in 0 .. n - 1 /\ d[i] = c[i - 1] /\ i - 1 + 1 = i
              BY <5>3
          <6>2. QED
              BY <3>2, <5>1, <6>1
        <5>4. QED
            BY <5>2, <5>3
      <4>3. ~Going(q)
          BY <3>2
      <4> HIDE DEF d
      <4>4. QED
          BY <4>1, <4>2, <4>3
    <3> HIDE DEF Chain, d
    <3>5. QED
        BY <3>3, <3>4
  <2> HIDE DEF F
  <2>4. F(p) \subseteq F(Turn(p)) /\ F(Turn(p)) \subseteq F(p)
      BY <2>2, <2>3
  <2>5. QED
      BY <2>1, <2>4
<1> HIDE DEF F
<1>3. g = [p \in Progress |-> IF Going(p) THEN g[Turn(p)] ELSE p]
  <2>1. ASSUME NEW p \in Progress PROVE g[p] = IF Going(p) THEN g[Turn(p)] ELSE p
    <3>1. CASE Going(p)
        BY <1>2, <3>1
    <3>2. CASE ~Going(p)
        BY <1>1, <3>2
    <3>3. QED
        BY <3>1, <3>2
  <2>2. g = [p \in Progress |-> g[p]]
      OBVIOUS
  <2> HIDE DEF g
  <2>3. QED
      BY <2>1, <2>2
<1> HIDE DEF g
<1>4. Parse = CHOOSE f : f = [p \in Progress |-> IF Going(p) THEN f[Turn(p)] ELSE p]
    BY DEF Parse, Going, Turn
<1>5. Parse = [p \in Progress |-> IF Going(p) THEN Parse[Turn(p)] ELSE p]
    BY <1>3, <1>4
<1>6. QED
    BY <1>5

\* What a round of the loop keeps holds where the loop ends, and the loop ends.
LEMMA ParseReaches ==
    ASSUME NEW T \in SUBSET Progress, \A p \in T : Going(p) => Turn(p) \in T,
           NEW start \in T
    PROVE  Parse[start] \in T /\ ~Going(Parse[start])
<1> DEFINE Good(p) == Parse[p] \in T /\ ~Going(Parse[p])
           Bad == {p \in T : ~Good(p)}
           Sizes == {Len(p.in) : p \in Bad}
<1>1. SUFFICES ASSUME Bad # {} PROVE FALSE
    OBVIOUS
<1>2. Sizes \in SUBSET Nat /\ Sizes # {}
  <2>1. \A p \in Progress : Len(p.in) \in Nat
      BY DEF Progress
  <2>2. QED
      BY <1>1, <2>1
<1>3. PICK p \in Bad : \A q \in Bad : Len(p.in) <= Len(q.in)
  <2> HIDE DEF Bad
  <2>1. PICK n \in Sizes : \A m \in Sizes : n <= m
      BY <1>2, LeastNatural
  <2>2. QED
      BY <2>1
<1>4. p \in T /\ p \in Progress /\ ~Good(p)
    OBVIOUS
<1>5. Going(p)
    BY <1>4, ParseUnfold
<1>6. Parse[p] = Parse[Turn(p)] /\ Turn(p) \in T /\ Turn(p) \in Progress
    BY <1>4, <1>5, ParseUnfold
<1>7. Going(Turn(p))
    BY <1>4, <1>6, ParseUnfold
<1>8. Len(Turn(p).in) < Len(p.in)
    BY <1>4, <1>7, TurnType DEF Going
<1>9. Turn(p) \in Bad
    BY <1>4, <1>6
<1>10. Len(Turn(p).in) \in Nat /\ Len(p.in) \in Nat
    BY <1>4, <1>6 DEF Progress
<1>11. QED
    BY <1>3, <1>8, <1>9, <1>10

-------------------------------------------------------------------------------
(* The reference: requests that follow each other. *)

\* What a cut is: the ends of requests that follow each other.
LEMMA CutType ==
    ASSUME NEW lines \in Seq(Line)
    PROVE  \A ends : ends \in Cuts(lines) <=>
             /\ ends \in Seq(1 .. Len(lines)) /\ 2 * Len(ends) <= Len(lines)
             /\ \A i \in 1 .. Len(ends) : IsRequest(lines, After(ends, i - 1), ends[i])
<1> DEFINE Counts == {m \in 0 .. Len(lines) : 2 * m <= Len(lines)}
           All == UNION {[1 .. n -> 1 .. Len(lines)] : n \in Counts}
<1>1. \A ends : ends \in All <=> ends \in Seq(1 .. Len(lines)) /\ 2 * Len(ends) <= Len(lines)
  <2>1. ASSUME NEW ends \in All
        PROVE  ends \in Seq(1 .. Len(lines)) /\ 2 * Len(ends) <= Len(lines)
    <3>1. PICK n \in Counts : ends \in [1 .. n -> 1 .. Len(lines)]
        OBVIOUS
    <3>2. n \in Nat /\ 2 * n <= Len(lines)
        OBVIOUS
    <3>3. QED
        BY <3>1, <3>2
  <2>2. ASSUME NEW ends \in Seq(1 .. Len(lines)), 2 * Len(ends) <= Len(lines)
        PROVE  ends \in All
    <3>1. Len(ends) \in Counts /\ ends \in [1 .. Len(ends) -> 1 .. Len(lines)]
        BY <2>2
    <3>2. QED
        BY <3>1
  <2>3. QED
      BY <2>1, <2>2
<1>2. Cuts(lines) = {ends \in All :
         \A i \in 1 .. Len(ends) : IsRequest(lines, After(ends, i - 1), ends[i])}
    BY DEF Cuts
<1> HIDE DEF All
<1>3. QED
    BY <1>1, <1>2

\* Where the lines begin that no request of a cut has.
LEMMA AfterType ==
    ASSUME NEW lines \in Seq(Line), NEW ends \in Cuts(lines), NEW n \in 0 .. Len(ends)
    PROVE  /\ After(ends, n) \in 1 .. Len(lines) + 1
           /\ 2 * n < After(ends, n)
<1>1. /\ ends \in Seq(1 .. Len(lines)) /\ Len(ends) \in Nat /\ Len(lines) \in Nat
      /\ \A i \in 1 .. Len(ends) : IsRequest(lines, After(ends, i - 1), ends[i])
    BY CutType
<1>2. \A i \in 0 .. Len(ends) : After(ends, i) \in 1 .. Len(lines) + 1
    BY <1>1 DEF After
<1> DEFINE Bad == {i \in 0 .. Len(ends) : ~(2 * i < After(ends, i))}
<1>3. Bad = {}
  <2>1. SUFFICES ASSUME Bad # {} PROVE FALSE
      OBVIOUS
  <2>2. Bad \in SUBSET Nat
      OBVIOUS
  <2>3. \E i \in Bad : \A j \in Bad : i <= j
    <3> HIDE DEF Bad
    <3>1. QED
        BY <2>1, <2>2, LeastNatural
  <2>4. PICK i \in Bad : \A j \in Bad : i <= j
      BY <2>3
  <2>5. i \in Nat /\ i # 0 /\ i \in 1 .. Len(ends)
      BY DEF After
  <2>6. i - 1 \in 0 .. Len(ends) /\ i - 1 \notin Bad
      BY <2>4, <2>5
  <2>7. 2 * (i - 1) < After(ends, i - 1) /\ After(ends, i - 1) < ends[i]
      BY <1>1, <2>5, <2>6 DEF IsRequest
  <2>8. After(ends, i) = ends[i] + 1 /\ ends[i] \in Nat /\ After(ends, i - 1) \in Nat
    <3>1. After(ends, i) = ends[i] + 1
        BY <2>5 DEF After
    <3>2. ends[i] \in 1 .. Len(lines)
        BY <1>1, <2>5
    <3>3. After(ends, i - 1) \in 1 .. Len(lines) + 1
        BY <1>2, <2>6
    <3>4. QED
        BY <1>1, <3>1, <3>2, <3>3
  <2>9. 2 * i < After(ends, i)
      BY <2>5, <2>7, <2>8
  <2>10. QED
      BY <2>9
<1>4. QED
    BY <1>2, <1>3

\* The cut of no request.
LEMMA NoCut == \A lines \in Seq(Line) : <<>> \in Cuts(lines) /\ Fields(lines, <<>>) = <<>>
<1>1. ASSUME NEW lines \in Seq(Line) PROVE <<>> \in Cuts(lines)
  <2>1. /\ <<>> \in Seq(1 .. Len(lines)) /\ Len(<<>>) = 0 /\ 2 * 0 <= Len(lines)
        /\ 1 .. 0 = {}
      OBVIOUS
  <2>2. /\ 2 * Len(<<>>) <= Len(lines)
        /\ \A i \in 1 .. Len(<<>>) : IsRequest(lines, After(<<>>, i - 1), <<>>[i])
      BY <2>1
  <2>3. QED
      BY <2>1, <2>2, CutType
<1>2. ASSUME NEW lines \in Seq(Line) PROVE Fields(lines, <<>>) = <<>>
    BY DEF Fields
<1>3. QED
    BY <1>1, <1>2

\* There is a cut that is as long as any.
LEMMA LongestCut ==
    ASSUME NEW lines \in Seq(Line)
    PROVE  \E ends \in Cuts(lines) :
              /\ \A d \in Cuts(lines) : Len(d) <= Len(ends)
              /\ Reading(lines) = [requests |-> Fields(lines, ends),
                                   bad |-> /\ After(ends, Len(ends)) <= Len(lines)
                                           /\ lines[After(ends, Len(ends))] # "request"]
<1> DEFINE Left == {Len(lines) - Len(c) : c \in Cuts(lines)}
           ends == CHOOSE c \in Cuts(lines) : \A d \in Cuts(lines) : Len(d) <= Len(c)
<1>1. \A c \in Cuts(lines) : Len(c) \in Nat /\ Len(lines) \in Nat /\ Len(c) <= Len(lines)
    BY CutType
<1>2. Left \in SUBSET Nat /\ Left # {}
    BY <1>1, NoCut
<1>3. \E c \in Cuts(lines) : \A d \in Cuts(lines) : Len(d) <= Len(c)
  <2>1. \E n \in Left : \A m \in Left : n <= m
    <3> HIDE DEF Left
    <3>1. QED
        BY <1>2, LeastNatural
  <2>2. PICK c \in Cuts(lines) : \A m \in Left : Len(lines) - Len(c) <= m
      BY <2>1
  <2>3. \A d \in Cuts(lines) : Len(lines) - Len(c) <= Len(lines) - Len(d)
      BY <2>2
  <2>4. QED
      BY <1>1, <2>3
<1>4. ends \in Cuts(lines) /\ \A d \in Cuts(lines) : Len(d) <= Len(ends)
    BY <1>3
<1>5. QED
    BY <1>4 DEF Reading

\* Two cuts differ in how many requests they have, and in nothing else.
LEMMA SameRequests ==
    ASSUME NEW lines \in Seq(Line), NEW c \in Cuts(lines), NEW d \in Cuts(lines),
           Len(c) <= Len(d)
    PROVE  \A i \in 1 .. Len(c) : c[i] = d[i]
<1>1. /\ Len(c) \in Nat /\ Len(d) \in Nat
      /\ \A i \in 1 .. Len(c) : c[i] \in Nat /\ IsRequest(lines, After(c, i - 1), c[i])
      /\ \A i \in 1 .. Len(d) : d[i] \in Nat /\ IsRequest(lines, After(d, i - 1), d[i])
  <2>1. ASSUME NEW e \in Cuts(lines)
        PROVE  /\ Len(e) \in Nat
               /\ \A i \in 1 .. Len(e) :
                    e[i] \in Nat /\ IsRequest(lines, After(e, i - 1), e[i])
    <3>1. /\ e \in Seq(1 .. Len(lines))
          /\ \A i \in 1 .. Len(e) : IsRequest(lines, After(e, i - 1), e[i])
        BY CutType
    <3>2. Len(e) \in Nat /\ \A i \in 1 .. Len(e) : e[i] \in Nat
        BY <3>1
    <3>3. QED
        BY <3>1, <3>2
  <2>2. QED
      BY <2>1
<1> DEFINE Differ == {i \in 1 .. Len(c) : c[i] # d[i]}
<1>2. SUFFICES ASSUME Differ # {} PROVE FALSE
    OBVIOUS
<1>3. \E i \in Differ : \A j \in Differ : i <= j
  <2>1. Differ \in SUBSET Nat
      OBVIOUS
  <2> HIDE DEF Differ
  <2>2. QED
      BY <1>2, <2>1, LeastNatural
<1>4. PICK i \in Differ : \A j \in Differ : i <= j
    BY <1>3
<1>5. i \in 1 .. Len(c) /\ i \in 1 .. Len(d) /\ c[i] # d[i]
    BY <1>1
<1>6. After(c, i - 1) = After(d, i - 1)
  <2>1. CASE i = 1
      BY <2>1 DEF After
  <2>2. CASE i # 1
    <3>1. i - 1 \in 1 .. Len(c) /\ i - 1 \notin Differ
        BY <1>4, <1>5, <2>2
    <3>2. c[i - 1] = d[i - 1] /\ i - 1 # 0
        BY <3>1
    <3>3. QED
        BY <3>2 DEF After
  <2>3. QED
      BY <2>1, <2>2
<1> DEFINE first == After(c, i - 1)
<1>7. first \in Nat
    BY <1>1, <1>5 DEF After
<1>8. /\ IsRequest(lines, first, c[i]) /\ IsRequest(lines, first, d[i])
      /\ c[i] \in Nat /\ d[i] \in Nat
    BY <1>1, <1>5, <1>6
<1> HIDE DEF first
<1>9. ~(c[i] < d[i])
  <2>1. c[i] < d[i] => c[i] \in first + 1 .. d[i] - 1
      BY <1>7, <1>8 DEF IsRequest
  <2>2. QED
      BY <1>8, <2>1 DEF IsRequest
<1>10. ~(d[i] < c[i])
  <2>1. d[i] < c[i] => d[i] \in first + 1 .. c[i] - 1
      BY <1>7, <1>8 DEF IsRequest
  <2>2. QED
      BY <1>8, <2>1 DEF IsRequest
<1>11. QED
    BY <1>5, <1>8, <1>9, <1>10

\* A line more, and the requests are still there.
LEMMA CutOfMore ==
    ASSUME NEW lines \in Seq(Line), NEW line \in Line, NEW ends \in Cuts(lines)
    PROVE  /\ ends \in Cuts(Append(lines, line))
           /\ Fields(Append(lines, line), ends) = Fields(lines, ends)
<1> DEFINE more == Append(lines, line)
<1>1. /\ more \in Seq(Line) /\ Len(more) = Len(lines) + 1 /\ Len(lines) \in Nat
      /\ \A i \in 1 .. Len(lines) : more[i] = lines[i]
    OBVIOUS
<1>2. /\ ends \in Seq(1 .. Len(lines)) /\ 2 * Len(ends) <= Len(lines) /\ Len(ends) \in Nat
      /\ \A i \in 1 .. Len(ends) : IsRequest(lines, After(ends, i - 1), ends[i])
    BY CutType
<1> HIDE DEF more
<1>3. ASSUME NEW i \in 1 .. Len(ends)
      PROVE  /\ IsRequest(more, After(ends, i - 1), ends[i])
             /\ {more[j] : j \in After(ends, i - 1) + 1 .. ends[i] - 1} =
                {lines[j] : j \in After(ends, i - 1) + 1 .. ends[i] - 1}
  <2> DEFINE first == After(ends, i - 1)
  <2>1. first \in 1 .. Len(lines) + 1 /\ ends[i] \in 1 .. Len(lines)
    <3>1. i - 1 \in 0 .. Len(ends)
        BY <1>2
    <3>2. QED
        BY <1>2, <3>1, AfterType
  <2>2. IsRequest(lines, first, ends[i])
      BY <1>2
  <2> HIDE DEF first
  <2>3. \A j \in first .. ends[i] : more[j] = lines[j]
      BY <1>1, <2>1
  <2>4. first < ends[i]
      BY <2>2 DEF IsRequest
  <2>5. IsRequest(more, first, ends[i])
      BY <2>1, <2>2, <2>3, <2>4 DEF IsRequest
  <2>6. \A j \in first + 1 .. ends[i] - 1 : more[j] = lines[j]
      BY <2>1, <2>3
  <2>7. {more[j] : j \in first + 1 .. ends[i] - 1} = {lines[j] : j \in first + 1 .. ends[i] - 1}
      BY <2>6
  <2>8. QED
      BY <2>5, <2>7 DEF first
<1>4. ends \in Seq(1 .. Len(more)) /\ 2 * Len(ends) <= Len(more)
    BY <1>1, <1>2
<1>5. ends \in Cuts(more)
    BY <1>1, <1>3, <1>4, CutType
<1>6. Fields(more, ends) = Fields(lines, ends)
    BY <1>3 DEF Fields
<1>7. QED
    BY <1>5, <1>6 DEF more

\* A request more.
LEMMA OneMoreRequest ==
    ASSUME NEW lines \in Seq(Line), NEW ends \in Cuts(lines), NEW last \in 1 .. Len(lines),
           IsRequest(lines, After(ends, Len(ends)), last)
    PROVE  /\ Append(ends, last) \in Cuts(lines)
           /\ After(Append(ends, last), Len(Append(ends, last))) = last + 1
           /\ Fields(lines, Append(ends, last)) =
                 Append(Fields(lines, ends),
                        {lines[j] : j \in After(ends, Len(ends)) + 1 .. last - 1})
<1> DEFINE more == Append(ends, last)
           Piece(e, i) == {lines[j] : j \in After(e, i - 1) + 1 .. e[i] - 1}
<1>1. /\ ends \in Seq(1 .. Len(lines)) /\ Len(ends) \in Nat /\ Len(lines) \in Nat
      /\ \A i \in 1 .. Len(ends) : IsRequest(lines, After(ends, i - 1), ends[i])
    BY CutType
<1>2. /\ more \in Seq(1 .. Len(lines)) /\ Len(more) = Len(ends) + 1
      /\ \A i \in 1 .. Len(ends) : more[i] = ends[i]
      /\ more[Len(ends) + 1] = last
    BY <1>1
<1> HIDE DEF more
<1>3. \A i \in 0 .. Len(ends) : After(more, i) = After(ends, i)
    BY <1>1, <1>2 DEF After
<1>4. ASSUME NEW i \in 1 .. Len(ends) + 1
      PROVE  IsRequest(lines, After(more, i - 1), more[i])
  <2>1. CASE i \in 1 .. Len(ends)
    <3>1. i - 1 \in 0 .. Len(ends)
        BY <1>1, <2>1
    <3>2. QED
        BY <1>1, <1>2, <1>3, <2>1, <3>1
  <2>2. CASE i = Len(ends) + 1
    <3>1. i - 1 = Len(ends) /\ Len(ends) \in 0 .. Len(ends)
        BY <1>1, <2>2
    <3>2. QED
        BY <1>2, <1>3, <2>2, <3>1
  <2>3. QED
      BY <1>1, <2>1, <2>2
<1>5. 2 * Len(more) <= Len(lines)
  <2>1. Len(ends) \in 0 .. Len(ends)
      BY <1>1
  <2>2. 2 * Len(ends) < After(ends, Len(ends)) /\ After(ends, Len(ends)) \in 1 .. Len(lines) + 1
      BY <2>1, AfterType
  <2>3. After(ends, Len(ends)) < last
      BY DEF IsRequest
  <2>4. QED
      BY <1>1, <1>2, <2>2, <2>3
<1>6. more \in Cuts(lines)
    BY <1>2, <1>4, <1>5, CutType
<1>7. After(more, Len(more)) = last + 1
    BY <1>1, <1>2 DEF After
<1>8. \A i \in 1 .. Len(ends) : Piece(more, i) = Piece(ends, i)
  <2>1. TAKE i \in 1 .. Len(ends)
  <2>2. i - 1 \in 0 .. Len(ends)
      BY <1>1
  <2>3. After(more, i - 1) = After(ends, i - 1) /\ more[i] = ends[i]
      BY <1>2, <1>3, <2>2
  <2>4. QED
      BY <2>3
<1>9. Piece(more, Len(ends) + 1) = {lines[j] : j \in After(ends, Len(ends)) + 1 .. last - 1}
  <2>1. Len(ends) + 1 - 1 = Len(ends) /\ Len(ends) \in 0 .. Len(ends)
      BY <1>1
  <2>2. After(more, Len(ends) + 1 - 1) = After(ends, Len(ends)) /\ more[Len(ends) + 1] = last
      BY <1>2, <1>3, <2>1
  <2>3. QED
      BY <2>2
<1>10. /\ Fields(lines, ends) = [i \in 1 .. Len(ends) |-> Piece(ends, i)]
       /\ Fields(lines, more) = [i \in 1 .. Len(ends) + 1 |-> Piece(more, i)]
    BY <1>2 DEF Fields
<1> DEFINE added == {lines[j] : j \in After(ends, Len(ends)) + 1 .. last - 1}
<1> HIDE DEF Piece, added
<1>11. Fields(lines, more) = Append(Fields(lines, ends), added)
  <2>1. Append(Fields(lines, ends), added) =
           [i \in 1 .. Len(ends) + 1 |-> IF i = Len(ends) + 1 THEN added ELSE Piece(ends, i)]
    <3>1. Len(Fields(lines, ends)) = Len(ends)
        BY <1>1, <1>10
    <3>2. QED
        BY <1>1, <1>10, <3>1
  <2>2. \A i \in 1 .. Len(ends) + 1 :
           Piece(more, i) = IF i = Len(ends) + 1 THEN added ELSE Piece(ends, i)
      BY <1>1, <1>8, <1>9 DEF added
  <2>3. QED
      BY <1>10, <2>1, <2>2
<1>12. QED
    BY <1>6, <1>7, <1>11 DEF more, added

\* What was handled and refused, told by any cut, is what the whole of the lines tells.
LEMMA CutIsReading ==
    ASSUME NEW lines \in Seq(Line), NEW ends \in Cuts(lines)
    PROVE  /\ Len(Fields(lines, ends)) <= Len(Reading(lines).requests)
           /\ Fields(lines, ends) =
                 SubSeq(Reading(lines).requests, 1, Len(Fields(lines, ends)))
           /\ /\ After(ends, Len(ends)) <= Len(lines)
              /\ lines[After(ends, Len(ends))] # "request"
              => Reading(lines).bad /\ Fields(lines, ends) = Reading(lines).requests
<1>1. PICK all \in Cuts(lines) :
         /\ \A d \in Cuts(lines) : Len(d) <= Len(all)
         /\ Reading(lines) = [requests |-> Fields(lines, all),
                              bad |-> /\ After(all, Len(all)) <= Len(lines)
                                      /\ lines[After(all, Len(all))] # "request"]
    BY LongestCut
<1> DEFINE Piece(e, i) == {lines[j] : j \in After(e, i - 1) + 1 .. e[i] - 1}
           bad == /\ After(ends, Len(ends)) <= Len(lines)
                  /\ lines[After(ends, Len(ends))] # "request"
<1>2. /\ ends \in Seq(1 .. Len(lines)) /\ all \in Seq(1 .. Len(lines))
      /\ Len(ends) \in Nat /\ Len(all) \in Nat /\ Len(lines) \in Nat
      /\ \A i \in 1 .. Len(all) : IsRequest(lines, After(all, i - 1), all[i])
    BY CutType
<1>3. Len(ends) <= Len(all)
    BY <1>1
<1>4. \A i \in 1 .. Len(ends) : ends[i] = all[i]
    BY <1>3, SameRequests
<1>5. \A i \in 0 .. Len(ends) : After(ends, i) = After(all, i)
    BY <1>2, <1>4 DEF After
<1>6. \A i \in 1 .. Len(ends) : Piece(ends, i) = Piece(all, i)
  <2>1. TAKE i \in 1 .. Len(ends)
  <2>2. i - 1 \in 0 .. Len(ends)
      BY <1>2
  <2>3. After(ends, i - 1) = After(all, i - 1) /\ ends[i] = all[i]
      BY <1>4, <1>5, <2>2
  <2>4. QED
      BY <2>3
<1>7. /\ Fields(lines, ends) = [i \in 1 .. Len(ends) |-> Piece(ends, i)]
      /\ Fields(lines, all) = [i \in 1 .. Len(all) |-> Piece(all, i)]
    BY DEF Fields
<1> HIDE DEF Piece
<1>8. Len(Fields(lines, ends)) = Len(ends) /\ Len(Fields(lines, all)) = Len(all)
    BY <1>2, <1>7
<1>9. Fields(lines, ends) = SubSeq(Fields(lines, all), 1, Len(ends))
  <2>1. SubSeq(Fields(lines, all), 1, Len(ends)) = [i \in 1 .. Len(ends) |-> Fields(lines, all)[i]]
      BY <1>2
  <2>2. \A i \in 1 .. Len(ends) : Fields(lines, all)[i] = Piece(all, i)
      BY <1>2, <1>3, <1>7
  <2>3. QED
      BY <1>6, <1>7, <2>1, <2>2
<1>10. ASSUME bad PROVE Len(ends) = Len(all)
  <2>1. SUFFICES ASSUME Len(ends) < Len(all) PROVE FALSE
      BY <1>2, <1>3
  <2>2. Len(ends) + 1 \in 1 .. Len(all) /\ Len(ends) + 1 - 1 = Len(ends)
      BY <1>2, <2>1
  <2>3. IsRequest(lines, After(all, Len(ends)), all[Len(ends) + 1])
      BY <1>2, <2>2
  <2>4. After(all, Len(ends)) = After(ends, Len(ends))
      BY <1>2, <1>5
  <2>5. QED
      BY <1>10, <2>3, <2>4 DEF IsRequest
<1>11. ASSUME bad PROVE ends = all
  <2>1. Len(ends) = Len(all)
      BY <1>10, <1>11
  <2>2. QED
      BY <1>2, <1>4, <2>1, SeqEqual
<1>12. /\ Reading(lines).requests = Fields(lines, all)
       /\ ends = all /\ bad => Reading(lines).bad
    BY <1>1
<1>13. QED
    BY <1>3, <1>8, <1>9, <1>11, <1>12

-------------------------------------------------------------------------------
(* The bytes of a stream, and the lines they are.                            *)

\* The bytes are the lines after the first k, one after the other: pos says how many of them
\* there are up to the end of each line.
Laid(bytes, lines, k) ==
    \E pos \in [k .. Len(lines) -> Nat] :
        /\ pos[k] = 0 /\ pos[Len(lines)] = Len(bytes)
        /\ \A i, j \in k .. Len(lines) : i <= j => pos[i] <= pos[j]
        /\ \A i \in k + 1 .. Len(lines) :
              /\ pos[i] = pos[i - 1] + Len(Symbols(lines[i]))
              /\ \A j \in 1 .. Len(Symbols(lines[i])) :
                    bytes[pos[i - 1] + j] = Symbols(lines[i])[j]

\* What a line is written as: it ends in a carriage return and a line feed, and has no other.
LEMMA SymbolsOf ==
    ASSUME NEW line \in Line
    PROVE  /\ Symbols(line) \in Seq(Symbol) /\ Len(Symbols(line)) \in Nat
           /\ line = "empty" => /\ Len(Symbols(line)) = 2
                                /\ Symbols(line)[1] = "cr" /\ Symbols(line)[2] = "lf"
           /\ line # "empty" => /\ Len(Symbols(line)) = 3 /\ line # "cr"
                                /\ Symbols(line)[1] = line
                                /\ Symbols(line)[2] = "cr" /\ Symbols(line)[3] = "lf"
<1>1. "cr" \in Symbol /\ "lf" \in Symbol
    BY DEF Symbol
<1>2. CASE line = "empty"
  <2>1. Symbols(line) = <<"cr", "lf">>
      BY <1>2 DEF Symbols
  <2>2. /\ <<"cr", "lf">> \in Seq(Symbol) /\ Len(<<"cr", "lf">>) = 2
        /\ <<"cr", "lf">>[1] = "cr" /\ <<"cr", "lf">>[2] = "lf"
      BY <1>1
  <2>3. QED
      BY <1>2, <2>1, <2>2
<1>3. CASE line # "empty"
  <2>1. Symbols(line) = <<line, "cr", "lf">>
      BY <1>3 DEF Symbols
  <2>2. line \in Symbol /\ line # "cr"
      BY <1>3 DEF Symbol, Line
  <2>3. QED
      BY <1>1, <1>3, <2>1, <2>2
<1>4. QED
    BY <1>2, <1>3

\* Nothing was written.
LEMMA NothingLaid == Laid(<<>>, <<>>, 0)
<1> DEFINE pos == [i \in 0 .. 0 |-> 0]
<1>1. pos \in [0 .. Len(<<>>) -> Nat] /\ pos[0] = 0 /\ pos[Len(<<>>)] = Len(<<>>)
    OBVIOUS
<1>2. \A i, j \in 0 .. Len(<<>>) : pos[i] <= pos[j]
    OBVIOUS
<1>3. 0 + 1 .. Len(<<>>) = {}
    OBVIOUS
<1> HIDE DEF pos
<1>4. QED
    BY <1>1, <1>2, <1>3 DEF Laid

\* A line is written.
LEMMA LineWritten ==
    ASSUME NEW lines \in Seq(Line), NEW bytes \in Seq(Symbol), NEW k \in 0 .. Len(lines),
           NEW line \in Line, Laid(bytes, lines, k)
    PROVE  Laid(bytes \o Symbols(line), Append(lines, line), k)
<1> DEFINE n == Len(lines)
           size == Len(Symbols(line))
           text == Symbols(line)
           more == Append(lines, line)
           longer == bytes \o Symbols(line)
<1>1. n \in Nat /\ k \in Nat /\ k <= n /\ text \in Seq(Symbol) /\ size \in Nat
    BY SymbolsOf
<1>2. /\ more \in Seq(Line) /\ Len(more) = n + 1 /\ more[n + 1] = line
      /\ \A i \in 1 .. n : more[i] = lines[i]
    OBVIOUS
<1>3. /\ Len(longer) = Len(bytes) + size /\ Len(bytes) \in Nat
      /\ \A i \in 1 .. Len(bytes) : longer[i] = bytes[i]
      /\ \A i \in 1 .. size : longer[Len(bytes) + i] = text[i]
    BY <1>1
<1>4. PICK pos \in [k .. n -> Nat] :
        /\ pos[k] = 0 /\ pos[n] = Len(bytes)
        /\ \A i, j \in k .. n : i <= j => pos[i] <= pos[j]
        /\ \A i \in k + 1 .. n :
              /\ pos[i] = pos[i - 1] + Len(Symbols(lines[i]))
              /\ \A j \in 1 .. Len(Symbols(lines[i])) :
                    bytes[pos[i - 1] + j] = Symbols(lines[i])[j]
    BY DEF Laid
<1> DEFINE new == [i \in k .. n + 1 |-> IF i = n + 1 THEN pos[n] + size ELSE pos[i]]
<1> HIDE DEF n, size, text, more, longer
<1>5. \A i \in k .. n : pos[i] \in Nat /\ pos[i] <= Len(bytes)
    BY <1>1, <1>4
<1>6. new \in [k .. n + 1 -> Nat]
    BY <1>1, <1>5
<1>7. /\ new[n + 1] = Len(bytes) + size
      /\ \A i \in k .. n : new[i] = pos[i]
    BY <1>1, <1>4
<1> HIDE DEF new
<1>8. new[k] = 0 /\ new[n + 1] = Len(longer)
    BY <1>1, <1>3, <1>4, <1>7
<1>9. \A i, j \in k .. n + 1 : i <= j => new[i] <= new[j]
  <2>1. SUFFICES ASSUME NEW i \in k .. n + 1, NEW j \in k .. n + 1, i <= j PROVE new[i] <= new[j]
      OBVIOUS
  <2>2. CASE j \in k .. n
    <3>1. i \in k .. n
        BY <1>1, <2>1, <2>2
    <3>2. pos[i] <= pos[j] /\ new[i] = pos[i] /\ new[j] = pos[j]
        BY <1>4, <1>7, <2>1, <2>2, <3>1
    <3>3. QED
        BY <3>2
  <2>3. CASE i \in k .. n /\ j = n + 1
      BY <1>1, <1>3, <1>5, <1>7, <2>3
  <2>4. CASE i = n + 1 /\ j = n + 1
      BY <1>1, <1>3, <1>7, <2>4
  <2>5. QED
      BY <1>1, <2>1, <2>2, <2>3, <2>4
<1>10. ASSUME NEW i \in k + 1 .. n + 1
       PROVE  /\ new[i] = new[i - 1] + Len(Symbols(more[i]))
              /\ \A j \in 1 .. Len(Symbols(more[i])) :
                    longer[new[i - 1] + j] = Symbols(more[i])[j]
  <2>1. i - 1 \in k .. n /\ i \in Nat
      BY <1>1
  <2>2. CASE i = n + 1
    <3>1. more[i] = line /\ i - 1 = n /\ new[i - 1] = Len(bytes)
        BY <1>1, <1>2, <1>4, <1>7, <2>1, <2>2
    <3>2. QED
        BY <1>3, <1>7, <2>2, <3>1 DEF size, text
  <2>3. CASE i # n + 1
    <3>1. i \in k + 1 .. n /\ i \in 1 .. n /\ i \in k .. n
        BY <1>1, <2>3
    <3>2. more[i] = lines[i] /\ new[i - 1] = pos[i - 1] /\ new[i] = pos[i]
        BY <1>2, <1>7, <2>1, <3>1
    <3>3. pos[i] = pos[i - 1] + Len(Symbols(lines[i])) /\ pos[i - 1] \in Nat /\ pos[i] <= Len(bytes)
        BY <1>4, <1>5, <2>1, <3>1
    <3>4. lines[i] \in Line
        BY <3>1 DEF n
    <3>5. Len(Symbols(lines[i])) \in Nat
        BY <3>4, SymbolsOf
    <3>6. ASSUME NEW j \in 1 .. Len(Symbols(lines[i]))
          PROVE  longer[pos[i - 1] + j] = Symbols(lines[i])[j]
      <4>1. pos[i - 1] + j \in 1 .. Len(bytes)
          BY <1>3, <3>3, <3>5
      <4>2. longer[pos[i - 1] + j] = bytes[pos[i - 1] + j]
          BY <1>3, <4>1
      <4>3. QED
          BY <1>4, <3>1, <4>2
    <3>7. QED
        BY <3>2, <3>3, <3>6
  <2>4. QED
      BY <2>2, <2>3
<1>11. Laid(longer, more, k)
  <2>1. new \in [k .. Len(more) -> Nat] /\ new[Len(more)] = Len(longer)
      BY <1>2, <1>6, <1>8
  <2>2. \A i, j \in k .. Len(more) : i <= j => new[i] <= new[j]
      BY <1>2, <1>9
  <2>3. \A i \in k + 1 .. Len(more) :
            /\ new[i] = new[i - 1] + Len(Symbols(more[i]))
            /\ \A j \in 1 .. Len(Symbols(more[i])) :
                  longer[new[i - 1] + j] = Symbols(more[i])[j]
      BY <1>2, <1>10
  <2>4. QED
      BY <1>8, <2>1, <2>2, <2>3 DEF Laid
<1>12. QED
    BY <1>11 DEF longer, more

\* The first line end that is found ends the first line: what is before it is the text of the
\* line, and what is after it are the other lines.
LEMMA FirstLine ==
    ASSUME NEW lines \in Seq(Line), NEW in \in Seq(Symbol), NEW w \in Seq(Symbol),
           NEW k \in 0 .. Len(lines), Laid(in \o w, lines, k), FindCRLF(in) # 0
    PROVE  /\ k + 1 \in 1 .. Len(lines)
           /\ SubSeq(in, 1, FindCRLF(in) - 1) =
                 IF lines[k + 1] = "empty" THEN <<>> ELSE <<lines[k + 1]>>
           /\ Retrieved(in, FindCRLF(in)) \in Seq(Symbol)
           /\ Laid(Retrieved(in, FindCRLF(in)) \o w, lines, k + 1)
<1> DEFINE n == Len(lines)
           crlf == FindCRLF(in)
           bytes == in \o w
           rest == Retrieved(in, crlf)
<1>1. /\ crlf \in 1 .. Len(in) - 1 /\ in[crlf] = "cr" /\ in[crlf + 1] = "lf"
      /\ \A i \in 1 .. Len(in) - 1 : in[i] = "cr" /\ in[i + 1] = "lf" => crlf <= i
    BY LineEnd
<1>2. /\ bytes \in Seq(Symbol) /\ Len(bytes) = Len(in) + Len(w)
      /\ Len(in) \in Nat /\ Len(w) \in Nat
      /\ \A i \in 1 .. Len(in) : bytes[i] = in[i]
      /\ \A i \in 1 .. Len(w) : bytes[Len(in) + i] = w[i]
    OBVIOUS
<1>3. n \in Nat /\ k \in Nat /\ k <= n
    OBVIOUS
<1>4. PICK pos \in [k .. n -> Nat] :
        /\ pos[k] = 0 /\ pos[n] = Len(bytes)
        /\ \A i, j \in k .. n : i <= j => pos[i] <= pos[j]
        /\ \A i \in k + 1 .. n :
              /\ pos[i] = pos[i - 1] + Len(Symbols(lines[i]))
              /\ \A j \in 1 .. Len(Symbols(lines[i])) :
                    bytes[pos[i - 1] + j] = Symbols(lines[i])[j]
    BY DEF Laid
<1> HIDE DEF n, crlf, bytes
<1>5. k # n
    BY <1>1, <1>2, <1>4
<1>6. /\ k + 1 \in 1 .. n /\ k + 1 \in k + 1 .. n /\ k + 1 \in k .. n /\ k + 1 - 1 = k
    BY <1>3, <1>5
<1> DEFINE line == lines[k + 1]
           size == Len(Symbols(line))
<1>7. line \in Line
    BY <1>6 DEF n
<1>8. pos[k + 1] = size /\ \A j \in 1 .. size : bytes[j] = Symbols(line)[j]
  <2>1. size \in Nat
      BY <1>7, SymbolsOf
  <2>2. /\ pos[k + 1] = pos[k] + size
        /\ \A j \in 1 .. size : bytes[pos[k] + j] = Symbols(line)[j]
      BY <1>4, <1>6
  <2>3. QED
      BY <1>4, <2>1, <2>2
<1> HIDE DEF line
<1>9. /\ crlf = size - 1 /\ size \in {2, 3}
      /\ SubSeq(in, 1, crlf - 1) = IF line = "empty" THEN <<>> ELSE <<line>>
  <2>1. CASE line = "empty"
    <3>1. size = 2 /\ bytes[1] = "cr" /\ bytes[2] = "lf"
        BY <1>7, <1>8, <2>1, SymbolsOf
    <3>2. crlf = 1
      <4>1. 1 \in 1 .. Len(in) - 1 /\ 1 \in 1 .. Len(in) /\ 2 \in 1 .. Len(in)
          BY <1>1, <1>2
      <4>2. in[1] = "cr" /\ in[1 + 1] = "lf"
          BY <1>2, <3>1, <4>1
      <4>3. crlf <= 1
          BY <1>1, <4>1, <4>2
      <4>4. QED
          BY <1>1, <4>3
    <3>3. SubSeq(in, 1, 0) = <<>>
        BY SubSeqEmpty
    <3>4. QED
        BY <2>1, <3>1, <3>2, <3>3
  <2>2. CASE line # "empty"
    <3>1. size = 3 /\ 1 \in 1 .. 3 /\ 2 \in 1 .. 3 /\ 3 \in 1 .. 3
        BY <1>7, <2>2, SymbolsOf
    <3>2. size = 3 /\ bytes[1] = line /\ bytes[2] = "cr" /\ bytes[3] = "lf" /\ line # "cr"
      <4>1. bytes[1] = Symbols(line)[1] /\ bytes[2] = Symbols(line)[2] /\ bytes[3] = Symbols(line)[3]
          BY <1>8, <3>1
      <4>2. QED
          BY <1>7, <2>2, <3>1, <4>1, SymbolsOf
    <3>3. crlf # 1 /\ 1 \in 1 .. Len(in)
      <4>1. 1 \in 1 .. Len(in)
          BY <1>1, <1>2
      <4>2. in[1] # "cr"
          BY <1>2, <3>2, <4>1
      <4>3. QED
          BY <1>1, <4>1, <4>2
    <3>4. crlf = 2
      <4>1. 2 \in 1 .. Len(in) - 1 /\ 2 \in 1 .. Len(in) /\ 3 \in 1 .. Len(in)
          BY <1>1, <1>2, <3>3
      <4>2. in[2] = "cr" /\ in[2 + 1] = "lf"
          BY <1>2, <3>2, <4>1
      <4>3. crlf <= 2
          BY <1>1, <4>1, <4>2
      <4>4. QED
          BY <1>1, <3>3, <4>3
    <3>5. SubSeq(in, 1, 1) = <<line>>
      <4>1. in[1] = line
          BY <1>2, <3>2, <3>3
      <4>2. 1 <= Len(in)
          BY <1>2, <3>3
      <4>3. QED
          BY <4>1, <4>2, FirstAlone
    <3>6. QED
        BY <2>2, <3>2, <3>4, <3>5
  <2>3. QED
      BY <2>1, <2>2
<1> HIDE DEF size
<1>10. /\ rest \in Seq(Symbol) /\ Len(rest) = Len(in) - size
       /\ \A i \in 1 .. Len(rest) : rest[i] = in[size + i]
  <2>1. rest = SubSeq(in, size + 1, Len(in)) /\ size + 1 \in Nat /\ size <= Len(in)
      BY <1>1, <1>2, <1>9 DEF Retrieved
  <2> HIDE DEF rest
  <2>2. \A i \in size + 1 .. Len(in) : in[i] \in Symbol
      BY <1>9
  <2>3. QED
      BY <1>2, <1>9, <2>1, <2>2, SubSeqProperties
<1> HIDE DEF rest
<1> DEFINE left == rest \o w
<1>11. /\ Len(left) = Len(bytes) - size
       /\ \A i \in 1 .. Len(left) : left[i] = bytes[size + i]
  <2>1. /\ Len(left) = Len(rest) + Len(w) /\ Len(rest) \in Nat
        /\ \A i \in 1 .. Len(rest) : left[i] = rest[i]
        /\ \A i \in 1 .. Len(w) : left[Len(rest) + i] = w[i]
    <3>1. rest \in Seq(Symbol)
        BY <1>10
    <3>2. QED
        BY <3>1, Joined
  <2> HIDE DEF left
  <2>2. Len(left) = Len(bytes) - size
      BY <1>2, <1>9, <1>10, <2>1
  <2>3. ASSUME NEW i \in 1 .. Len(left) PROVE left[i] = bytes[size + i]
    <3>1. CASE i \in 1 .. Len(rest)
      <4>1. size + i \in 1 .. Len(in)
          BY <1>2, <1>9, <1>10, <3>1
      <4>2. QED
          BY <1>2, <1>10, <2>1, <3>1, <4>1
    <3>2. CASE i \notin 1 .. Len(rest)
      <4>1. i - Len(rest) \in 1 .. Len(w) /\ Len(rest) + (i - Len(rest)) = i
            /\ Len(in) + (i - Len(rest)) = size + i
          BY <1>2, <1>9, <1>10, <2>1, <3>2
      <4>2. QED
          BY <1>2, <2>1, <4>1
    <3>3. QED
        BY <3>1, <3>2
  <2>4. QED
      BY <2>2, <2>3
<1> HIDE DEF left
<1> DEFINE new == [i \in k + 1 .. n |-> pos[i] - size]
<1>12. \A i \in k + 1 .. n : i \in k .. n /\ pos[i] \in Nat /\ size <= pos[i] /\ pos[i] <= Len(bytes)
    BY <1>3, <1>4, <1>6, <1>8
<1>13. new \in [k + 1 .. n -> Nat] /\ \A i \in k + 1 .. n : new[i] = pos[i] - size
    BY <1>9, <1>12
<1> HIDE DEF new
<1>14. new[k + 1] = 0 /\ new[n] = Len(left)
  <2>1. n \in k + 1 .. n
      BY <1>3, <1>5
  <2>2. QED
      BY <1>4, <1>6, <1>8, <1>9, <1>11, <1>13, <2>1
<1>15. \A i, j \in k + 1 .. n : i <= j => new[i] <= new[j]
    BY <1>4, <1>9, <1>12, <1>13
<1>16. ASSUME NEW i \in k + 1 + 1 .. n
       PROVE  /\ new[i] = new[i - 1] + Len(Symbols(lines[i]))
              /\ \A j \in 1 .. Len(Symbols(lines[i])) :
                    left[new[i - 1] + j] = Symbols(lines[i])[j]
  <2>1. i \in k + 1 .. n /\ i - 1 \in k + 1 .. n /\ i \in 1 .. n
      BY <1>3
  <2>2. lines[i] \in Line
      BY <2>1 DEF n
  <2>3. Len(Symbols(lines[i])) \in Nat
      BY <2>2, SymbolsOf
  <2>4. /\ pos[i] = pos[i - 1] + Len(Symbols(lines[i]))
        /\ \A j \in 1 .. Len(Symbols(lines[i])) :
              bytes[pos[i - 1] + j] = Symbols(lines[i])[j]
      BY <1>4, <2>1
  <2>5. /\ new[i] = pos[i] - size /\ new[i - 1] = pos[i - 1] - size
        /\ pos[i] \in Nat /\ pos[i - 1] \in Nat /\ size <= pos[i - 1] /\ pos[i] <= Len(bytes)
      BY <1>12, <1>13, <2>1
  <2>6. new[i] = new[i - 1] + Len(Symbols(lines[i]))
      BY <1>9, <2>3, <2>4, <2>5
  <2>7. ASSUME NEW j \in 1 .. Len(Symbols(lines[i]))
        PROVE  left[new[i - 1] + j] = Symbols(lines[i])[j]
    <3>1. j \in Nat /\ 1 <= j /\ j <= Len(Symbols(lines[i])) /\ size \in Nat /\ Len(bytes) \in Nat
        BY <1>2, <1>9, <2>3
    <3>2. pos[i] = pos[i - 1] + Len(Symbols(lines[i])) /\ Len(left) = Len(bytes) - size
        BY <1>11, <2>4
    <3> DEFINE a == pos[i - 1]
               b == pos[i]
               c == Len(Symbols(lines[i]))
               e == Len(bytes)
               f == Len(left)
    <3>3. /\ a \in Nat /\ b \in Nat /\ c \in Nat /\ e \in Nat /\ size <= a /\ b <= e
          /\ b = a + c /\ f = e - size /\ j <= c
        BY <2>3, <2>5, <3>1, <3>2
    <3>4. new[i - 1] = a - size
        BY <2>5
    <3> HIDE DEF a, b, c, e, f
    <3>5. (a - size) + j \in 1 .. f /\ size + ((a - size) + j) = a + j
        BY <3>1, <3>3
    <3>6. /\ new[i - 1] + j \in 1 .. Len(left) /\ size + (new[i - 1] + j) = pos[i - 1] + j
        BY <3>4, <3>5 DEF a, f
    <3>7. left[new[i - 1] + j] = bytes[pos[i - 1] + j]
        BY <1>11, <3>6
    <3>8. QED
        BY <2>4, <3>7
  <2>8. QED
      BY <2>6, <2>7
<1>17. Laid(left, lines, k + 1)
    BY <1>13, <1>14, <1>15, <1>16 DEF Laid, n
<1>18. QED
    BY <1>6, <1>9, <1>10, <1>17 DEF n, crlf, line, rest, left

-------------------------------------------------------------------------------
(* What the parser makes of the bytes.                                       *)

Text(p) == SubSeq(p.in, 1, FindCRLF(p.in) - 1)
Left(p) == Retrieved(p.in, FindCRLF(p.in))

\* What a round of the loop may do.
LEMMA TurnCases ==
    ASSUME NEW p \in Progress, Going(p)
    PROVE  LET q == Turn(p) IN
           \/ /\ q.in = p.in /\ q.context = p.context /\ q.ok = p.ok /\ ~q.hasMore
              /\ q.aborted => p.aborted \/ (p.context.state_ = "ExpectRequestLine" /\ p.context.method_)
           \/ /\ FindCRLF(p.in) # 0 /\ p.context.state_ = "ExpectRequestLine"
              /\ Text(p) # <<"request">>
              /\ q.in = p.in /\ q.context.state_ = "ExpectRequestLine"
              /\ q.context.headers_ = p.context.headers_
              /\ ~q.ok /\ ~q.hasMore /\ q.aborted = p.aborted
           \/ /\ FindCRLF(p.in) # 0 /\ p.context.state_ = "ExpectRequestLine"
              /\ Text(p) = <<"request">>
              /\ q.in = Left(p) /\ q.context.state_ = "ExpectHeaders"
              /\ q.context.headers_ = p.context.headers_
              /\ q.ok = p.ok /\ q.aborted = p.aborted
           \/ /\ FindCRLF(p.in) # 0 /\ p.context.state_ = "ExpectHeaders"
              /\ Contains(Text(p), HasColon)
              /\ q.in = Left(p) /\ q.context.state_ = "ExpectHeaders"
              /\ q.context.headers_ = p.context.headers_ \cup (Range(Text(p)) \cap HasColon)
              /\ q.ok = p.ok /\ q.aborted = p.aborted
           \/ /\ FindCRLF(p.in) # 0 /\ p.context.state_ = "ExpectHeaders"
              /\ ~Contains(Text(p), HasColon)
              /\ q.in = Left(p) /\ q.context.state_ = "GotAll"
              /\ q.context.headers_ = p.context.headers_
              /\ q.ok = p.ok /\ ~q.hasMore /\ q.aborted = p.aborted
<1> DEFINE crlf == FindCRLF(p.in)
           text == SubSeq(p.in, 1, crlf - 1)
<1>1. /\ p.context \in Context /\ p \in Progress
      /\ p.context.state_ \in {"ExpectRequestLine", "ExpectHeaders"}
    BY DEF Progress, Context, Going
<1>2. CASE crlf = 0
    BY <1>1, <1>2 DEF Turn, Round, Progress
<1>3. CASE crlf # 0 /\ p.context.state_ = "ExpectRequestLine"
  <2>1. Turn(p) = ProcessRequestLine(p, crlf)
      BY <1>3 DEF Turn, Round
  <2> DEFINE set == [p EXCEPT !.context.method_ = IF Contains(text, HasSpace)
                                                   THEN Contains(text, HasMethod) ELSE @]
  <2>2. /\ set \in Progress /\ set.in = p.in /\ set.context.state_ = p.context.state_
        /\ set.context.headers_ = p.context.headers_
        /\ set.ok = p.ok /\ set.aborted = p.aborted
      BY <1>1 DEF Progress, Context, Contains
  <2>5. CASE Contains(text, HasSpace) /\ p.context.method_
      BY <1>1, <1>3, <2>1, <2>5 DEF ProcessRequestLine, Progress
  <2> HIDE DEF set
  <2>3. CASE ~(Contains(text, HasSpace) /\ p.context.method_) /\ text = <<"request">>
    <3>1. Turn(p) = [set EXCEPT !.in = Retrieved(@, crlf), !.context.state_ = "ExpectHeaders"]
        BY <2>1, <2>3 DEF ProcessRequestLine, set
    <3>2. QED
        BY <1>3, <2>2, <2>3, <3>1 DEF Text, Left, Progress, Context
  <2>4. CASE ~(Contains(text, HasSpace) /\ p.context.method_) /\ text # <<"request">>
    <3>1. Turn(p) = [set EXCEPT !.ok = FALSE, !.hasMore = FALSE]
        BY <2>1, <2>4 DEF ProcessRequestLine, set
    <3>2. QED
        BY <1>3, <2>2, <2>4, <3>1 DEF Text, Left, Progress, Context
  <2>6. QED
      BY <2>3, <2>4, <2>5
<1>4. CASE crlf # 0 /\ p.context.state_ = "ExpectHeaders"
  <2>1. Turn(p) = ProcessHeader(p, crlf)
      BY <1>4 DEF Turn, Round
  <2>2. QED
      BY <1>1, <1>4, <2>1 DEF ProcessHeader, Progress, Context, Text, Left
<1>5. QED
    BY <1>1, <1>2, <1>3, <1>4

\* What a context knows when k lines were parsed, of which the requests of a cut have the
\* first.
Knows(c, lines, ends, k) ==
    LET first == After(ends, Len(ends)) IN
    /\ c.state_ \in {"NULL", "ExpectRequestLine"} => k + 1 = first /\ c.headers_ = {}
    /\ c.state_ = "ExpectHeaders" =>
          /\ first <= k /\ lines[first] = "request"
          /\ \A j \in first + 1 .. k : lines[j] \in HasColon
          /\ c.headers_ = {lines[j] : j \in first + 1 .. k}
    /\ c.state_ = "GotAll" =>
          /\ IsRequest(lines, first, k)
          /\ c.headers_ = {lines[j] : j \in first + 1 .. k - 1}

\* What the parser has left and what follows it are the lines that it has not parsed.
Reads(p, lines, ends, w) ==
    \E k \in 0 .. Len(lines) :
        /\ Laid(p.in \o w, lines, k)
        /\ Knows(p.context, lines, ends, k)
        /\ ~p.ok => /\ p.context.state_ = "ExpectRequestLine"
                    /\ k + 1 \in 1 .. Len(lines) /\ lines[k + 1] # "request"

\* A round of the loop goes on with the lines it has not parsed: it takes a line and knows
\* what it says, or leaves it.
LEMMA TurnReads ==
    ASSUME NEW lines \in Seq(Line), NEW ends \in Cuts(lines), NEW w \in Seq(Symbol),
           NEW p \in Progress, Going(p), p.ok, Reads(p, lines, ends, w)
    PROVE  Reads(Turn(p), lines, ends, w)
<1> DEFINE q == Turn(p)
           first == After(ends, Len(ends))
           text == Text(p)
<1>1. PICK k \in 0 .. Len(lines) : Laid(p.in \o w, lines, k) /\ Knows(p.context, lines, ends, k)
    BY DEF Reads
<1>2. /\ k \in Nat /\ Len(lines) \in Nat /\ first \in 1 .. Len(lines) + 1 /\ first \in Nat
      /\ p.in \in Seq(Symbol)
  <2>1. Len(ends) \in 0 .. Len(ends)
      BY CutType
  <2>2. QED
      BY <2>1, AfterType DEF Progress
<1>3. FindCRLF(p.in) # 0 =>
         /\ k + 1 \in 1 .. Len(lines) /\ k + 1 \in 0 .. Len(lines)
         /\ text = IF lines[k + 1] = "empty" THEN <<>> ELSE <<lines[k + 1]>>
         /\ Laid(Left(p) \o w, lines, k + 1)
    BY <1>1, <1>2, FirstLine DEF Text, Left
<1>4. CASE q.in = p.in /\ q.context = p.context /\ q.ok = p.ok
    BY <1>1, <1>4 DEF Reads
<1> HIDE DEF q, text
<1>5. CASE /\ FindCRLF(p.in) # 0 /\ p.context.state_ = "ExpectRequestLine"
           /\ text # <<"request">>
           /\ q.in = p.in /\ q.context.state_ = "ExpectRequestLine"
           /\ q.context.headers_ = p.context.headers_ /\ ~q.ok
  <2>1. lines[k + 1] # "request"
      BY <1>3, <1>5
  <2>2. Knows(q.context, lines, ends, k)
      BY <1>1, <1>5 DEF Knows
  <2>3. QED
      BY <1>1, <1>3, <1>5, <2>1, <2>2 DEF Reads, q
<1>6. CASE /\ FindCRLF(p.in) # 0 /\ p.context.state_ = "ExpectRequestLine"
           /\ text = <<"request">>
           /\ q.in = Left(p) /\ q.context.state_ = "ExpectHeaders"
           /\ q.context.headers_ = p.context.headers_ /\ q.ok = p.ok
  <2>1. lines[k + 1] = "request"
      BY <1>3, <1>6
  <2>2. k + 1 = first /\ q.context.headers_ = {}
      BY <1>1, <1>6 DEF Knows
  <2>3. first + 1 .. k + 1 = {}
      BY <1>2, <2>2
  <2>4. Knows(q.context, lines, ends, k + 1)
      BY <1>2, <1>6, <2>1, <2>2, <2>3 DEF Knows
  <2>5. QED
      BY <1>3, <1>6, <2>4 DEF Reads, q
<1>7. CASE /\ FindCRLF(p.in) # 0 /\ p.context.state_ = "ExpectHeaders"
           /\ Contains(text, HasColon)
           /\ q.in = Left(p) /\ q.context.state_ = "ExpectHeaders"
           /\ q.context.headers_ = p.context.headers_ \cup (Range(text) \cap HasColon)
           /\ q.ok = p.ok
  <2>1. text = <<lines[k + 1]>> /\ lines[k + 1] \in HasColon
      BY <1>3, <1>7 DEF Contains
  <2>2. Range(text) \cap HasColon = {lines[k + 1]}
      BY <2>1 DEF Range
  <2>3. /\ first <= k /\ lines[first] = "request"
        /\ \A j \in first + 1 .. k : lines[j] \in HasColon
        /\ p.context.headers_ = {lines[j] : j \in first + 1 .. k}
      BY <1>1, <1>7 DEF Knows
  <2>4. first + 1 .. k + 1 = (first + 1 .. k) \cup {k + 1}
    <3>1. \A m, n \in Nat : m <= n + 1 => m .. n + 1 = (m .. n) \cup {n + 1}
        OBVIOUS
    <3>2. first + 1 \in Nat /\ first + 1 <= k + 1
        BY <1>2, <2>3
    <3>3. QED
        BY <1>2, <3>1, <3>2
  <2>5. q.context.headers_ = {lines[j] : j \in first + 1 .. k + 1}
      BY <1>7, <2>2, <2>3, <2>4
  <2>6. first <= k + 1 /\ \A j \in first + 1 .. k + 1 : lines[j] \in HasColon
      BY <1>2, <2>1, <2>3, <2>4
  <2>7. Knows(q.context, lines, ends, k + 1)
      BY <1>7, <2>3, <2>5, <2>6 DEF Knows
  <2>8. QED
      BY <1>3, <1>7, <2>7 DEF Reads, q
<1>8. CASE /\ FindCRLF(p.in) # 0 /\ p.context.state_ = "ExpectHeaders"
           /\ ~Contains(text, HasColon)
           /\ q.in = Left(p) /\ q.context.state_ = "GotAll"
           /\ q.context.headers_ = p.context.headers_ /\ q.ok = p.ok
  <2>1. lines[k + 1] \notin HasColon
    <3>1. CASE lines[k + 1] = "empty"
        BY <3>1 DEF HasColon
    <3>2. CASE lines[k + 1] # "empty"
      <4>1. text = <<lines[k + 1]>>
          BY <1>3, <1>8, <3>2
      <4>2. Len(text) = 1 /\ 1 \in 1 .. Len(text) /\ text[1] = lines[k + 1]
          BY <4>1
      <4>3. QED
          BY <1>8, <4>2 DEF Contains
    <3>3. QED
        BY <3>1, <3>2
  <2>2. /\ first <= k /\ lines[first] = "request"
        /\ \A j \in first + 1 .. k : lines[j] \in HasColon
        /\ p.context.headers_ = {lines[j] : j \in first + 1 .. k}
      BY <1>1, <1>8 DEF Knows
  <2>3. first < k + 1 /\ k + 1 - 1 = k
      BY <1>2, <2>2
  <2>4. IsRequest(lines, first, k + 1)
      BY <2>1, <2>2, <2>3 DEF IsRequest
  <2>5. Knows(q.context, lines, ends, k + 1)
      BY <1>8, <2>2, <2>3, <2>4 DEF Knows
  <2>6. QED
      BY <1>3, <1>8, <2>5 DEF Reads, q
<1>9. QED
    BY <1>4, <1>5, <1>6, <1>7, <1>8, TurnCases DEF q, text

\* What parseRequest() is given.
Given(c, in) == [context |-> c, in |-> in, ok |-> TRUE, hasMore |-> TRUE, aborted |-> FALSE]

\* parseRequest() returns; the assertion in setMethod() fails only where it was given a context
\* that had a method and no request line.
LEMMA ParseEnds ==
    ASSUME NEW c \in Context, c.state_ # "GotAll", NEW in \in Seq(Symbol)
    PROVE  LET p == ParseRequest(c, in)
               had == c.state_ = "ExpectRequestLine" /\ c.method_ IN
           /\ p \in Progress /\ ~p.hasMore
           /\ p.aborted => had
           /\ p.context.state_ = "ExpectRequestLine" /\ p.context.method_ => had \/ ~p.ok
           /\ ~p.ok => p.context.state_ = "ExpectRequestLine"
<1> DEFINE had == c.state_ = "ExpectRequestLine" /\ c.method_
           Good(p) == /\ p.context.state_ = "GotAll" => ~p.hasMore
                      /\ p.aborted => had
                      /\ p.context.state_ = "ExpectRequestLine" /\ p.context.method_ => had \/ ~p.ok
                      /\ ~p.ok => p.context.state_ = "ExpectRequestLine" /\ ~p.hasMore
           T == {p \in Progress : Good(p)}
<1>1. ASSUME NEW p \in T, Going(p) PROVE Turn(p) \in T
  <2>1. p \in Progress /\ Good(p) /\ Turn(p) \in Progress
      BY TurnType
  <2>2. Good(Turn(p))
      BY <1>1, <2>1, TurnCases DEF Going
  <2>3. QED
      BY <2>1, <2>2
<1>2. Given(c, in) \in T
    BY DEF Given, Progress
<1>3. ParseRequest(c, in) = Parse[Given(c, in)]
    BY DEF ParseRequest, Given
<1>4. T \in SUBSET Progress
    OBVIOUS
<1> HIDE DEF T
<1>5. Parse[Given(c, in)] \in T /\ ~Going(Parse[Given(c, in)])
    BY <1>1, <1>2, <1>4, ParseReaches
<1>6. QED
    BY <1>3, <1>5 DEF T, Going

\* parseRequest() reads what is written, and leaves what it has not read.
LEMMA ParseReads ==
    ASSUME NEW lines \in Seq(Line), NEW ends \in Cuts(lines), NEW w \in Seq(Symbol),
           NEW c \in Context, c.state_ # "GotAll", NEW in \in Seq(Symbol),
           NEW k \in 0 .. Len(lines), Laid(in \o w, lines, k), Knows(c, lines, ends, k)
    PROVE  Reads(ParseRequest(c, in), lines, ends, w)
<1> DEFINE T == {p \in Progress : Reads(p, lines, ends, w) /\ (p.hasMore => p.ok)}
<1>1. ASSUME NEW p \in T, Going(p) PROVE Turn(p) \in T
  <2>1. p \in Progress /\ p.ok /\ Turn(p) \in Progress /\ Reads(p, lines, ends, w)
      BY <1>1, TurnType DEF Going
  <2>2. Reads(Turn(p), lines, ends, w)
      BY <1>1, <2>1, TurnReads
  <2>3. Turn(p).hasMore => Turn(p).ok
      BY <1>1, <2>1, TurnCases
  <2>4. QED
      BY <2>1, <2>2, <2>3
<1>2. Given(c, in) \in T
  <2>1. Given(c, in) \in Progress /\ Given(c, in).ok
      BY DEF Given, Progress
  <2>2. Reads(Given(c, in), lines, ends, w)
      BY DEF Given, Reads
  <2>3. QED
      BY <2>1, <2>2
<1>3. ParseRequest(c, in) = Parse[Given(c, in)]
    BY DEF ParseRequest, Given
<1>4. T \in SUBSET Progress
    OBVIOUS
<1> HIDE DEF T
<1>5. Parse[Given(c, in)] \in T
    BY <1>1, <1>2, <1>4, ParseReaches
<1>6. QED
    BY <1>3, <1>5 DEF T

-------------------------------------------------------------------------------
(* Types.                                                                    *)

\* What each variable of the HTTP server holds; a context that is kept has not got all.
HttpTypeOK ==
    /\ context \in [Link -> Context \cup {NoContext}]
    /\ \A l \in Link : context[l].state_ # "GotAll"
    /\ inputBuffer \in [Link -> Seq(Symbol)] /\ wire \in [Link -> Seq(Symbol)]
    /\ sent \in [Link -> Seq(Line)]
    /\ handled \in [Link -> Seq(SUBSET HasColon)]
    /\ owed \in [Link -> Nat] /\ answers \in [Link -> Nat]
    /\ closed \subseteq Link /\ refused \subseteq Link
    /\ early \subseteq Link /\ ahead \subseteq Link

\* The context that a connection is given, and that of none.
LEMMA Contexts ==
    /\ NewContext \in Context /\ NewContext.state_ = "ExpectRequestLine"
    /\ NewContext.headers_ = {} /\ ~NewContext.method_
    /\ NoContext.state_ = "NULL" /\ NoContext.headers_ = {} /\ ~NoContext.method_
    /\ NoContext \notin Context
  BY DEF NewContext, NoContext, Context

\* What a client is owed is a number.
LEMMA OwedType == \A lines \in Seq(Line) : Owed(lines) \in Nat
<1>1. SUFFICES ASSUME NEW lines \in Seq(Line) PROVE Owed(lines) \in Nat
    OBVIOUS
<1>2. PICK ends \in Cuts(lines) : Reading(lines).requests = Fields(lines, ends)
    BY LongestCut
<1>3. Len(ends) \in Nat
    BY CutType
<1>4. Len(Fields(lines, ends)) = Len(ends)
    BY <1>3 DEF Fields
<1>5. QED
    BY <1>2, <1>3, <1>4 DEF Owed

\* A server without connections.
LEMMA HttpTypeInit == Init => HttpTypeOK
<1>1. Init => context = [l \in Link |-> NoContext]
    BY DEF Init
<1>2. QED
    BY <1>1, Contexts DEF Init, HttpTypeOK

\* What is read, and what is left to read.
LEMMA Parts ==
    ASSUME HttpTypeOK, NEW l \in Link, NEW n \in 1 .. Len(wire[l])
    PROVE  /\ inputBuffer[l] \o SubSeq(wire[l], 1, n) \in Seq(Symbol)
           /\ SubSeq(wire[l], n + 1, Len(wire[l])) \in Seq(Symbol)
           /\ (inputBuffer[l] \o SubSeq(wire[l], 1, n)) \o SubSeq(wire[l], n + 1, Len(wire[l])) =
                 inputBuffer[l] \o wire[l]
<1>1. inputBuffer[l] \in Seq(Symbol) /\ wire[l] \in Seq(Symbol)
    BY DEF HttpTypeOK
<1>2. QED
    BY <1>1, SplitAt

\* The parser is run on a context that a connection has.
LEMMA ParserRuns ==
    ASSUME HttpTypeOK, NEW l \in Link, context[l] # NoContext, NEW in \in Seq(Symbol)
    PROVE  LET p == ParseRequest(context[l], in)
               had == context[l].state_ = "ExpectRequestLine" /\ context[l].method_ IN
           /\ p \in Progress /\ ~p.hasMore
           /\ p.aborted => had
           /\ p.context.state_ = "ExpectRequestLine" /\ p.context.method_ => had \/ ~p.ok
           /\ ~p.ok => p.context.state_ = "ExpectRequestLine"
<1>1. context[l] \in Context /\ context[l].state_ # "GotAll"
    BY DEF HttpTypeOK
<1>2. QED
    BY <1>1, ParseEnds

\* What rcvMessage() and rcvRequest() change, and of which connection.
LEMMA RespondType ==
    ASSUME HttpTypeOK, NEW l \in Link, NEW p \in Progress, NEW close \in BOOLEAN,
           Respond(l, p, close)
    PROVE  /\ context' \in [Link -> Context \cup {NoContext}]
           /\ \A m \in Link : context'[m].state_ # "GotAll"
           /\ context'[l] \in Context
           /\ context'[l] = IF p.context.state_ = "GotAll" THEN NewContext ELSE p.context
           /\ \A m \in Link \ {l} : context'[m] = context[m]
           /\ inputBuffer' \in [Link -> Seq(Symbol)]
           /\ inputBuffer'[l] = p.in
           /\ \A m \in Link \ {l} : inputBuffer'[m] = inputBuffer[m]
           /\ handled' \in [Link -> Seq(SUBSET HasColon)]
           /\ handled'[l] = IF p.context.state_ = "GotAll"
                              THEN Append(handled[l], p.context.headers_) ELSE handled[l]
           /\ \A m \in Link \ {l} : handled'[m] = handled[m]
           /\ answers' \in [Link -> Nat]
           /\ refused' = IF p.ok THEN refused ELSE refused \cup {l}
<1>1. p.context \in Context /\ p.in \in Seq(Symbol) /\ p.context.headers_ \in SUBSET HasColon
    BY DEF Progress, Context
<1> DEFINE gotAll == p.context.state_ = "GotAll"
<1>2. /\ inputBuffer' = [inputBuffer EXCEPT ![l] = p.in]
      /\ context' = [context EXCEPT ![l] = IF gotAll THEN NewContext ELSE p.context]
      /\ handled' = [handled EXCEPT ![l] = IF gotAll THEN Append(@, p.context.headers_) ELSE @]
      /\ \/ answers' = answers
         \/ answers' = [answers EXCEPT ![l] = @ + 1]
      /\ refused' = IF p.ok THEN refused ELSE refused \cup {l}
    BY DEF Respond, Reset, HttpTypeOK
<1>3. (IF gotAll THEN NewContext ELSE p.context) \in Context
      /\ (IF gotAll THEN NewContext ELSE p.context).state_ # "GotAll"
    BY <1>1, Contexts
<1> DEFINE c == IF gotAll THEN NewContext ELSE p.context
<1>4. c \in Context /\ c.state_ # "GotAll" /\ context' = [context EXCEPT ![l] = c]
    BY <1>2, <1>3
<1>5. c = IF p.context.state_ = "GotAll" THEN NewContext ELSE p.context
    OBVIOUS
<1> HIDE DEF c
<1>6. /\ context' \in [Link -> Context \cup {NoContext}] /\ context'[l] = c
      /\ \A m \in Link \ {l} : context'[m] = context[m]
    BY <1>4 DEF HttpTypeOK
<1>7. \A m \in Link : context'[m].state_ # "GotAll"
    BY <1>4, <1>6 DEF HttpTypeOK
<1>8. /\ inputBuffer' \in [Link -> Seq(Symbol)] /\ inputBuffer'[l] = p.in
      /\ \A m \in Link \ {l} : inputBuffer'[m] = inputBuffer[m]
    BY <1>1, <1>2 DEF HttpTypeOK
<1>9. /\ handled' \in [Link -> Seq(SUBSET HasColon)]
      /\ handled'[l] = IF gotAll THEN Append(handled[l], p.context.headers_) ELSE handled[l]
      /\ \A m \in Link \ {l} : handled'[m] = handled[m]
  <2>1. handled[l] \in Seq(SUBSET HasColon)
      BY DEF HttpTypeOK
  <2> DEFINE h == IF gotAll THEN Append(handled[l], p.context.headers_) ELSE handled[l]
  <2>2. h \in Seq(SUBSET HasColon)
      BY <1>1, <2>1
  <2>3. handled' = [handled EXCEPT ![l] = h]
      BY <1>2
  <2>4. h = IF gotAll THEN Append(handled[l], p.context.headers_) ELSE handled[l]
      OBVIOUS
  <2> HIDE DEF h
  <2>5. /\ handled' \in [Link -> Seq(SUBSET HasColon)] /\ handled'[l] = h
        /\ \A m \in Link \ {l} : handled'[m] = handled[m]
      BY <2>2, <2>3 DEF HttpTypeOK
  <2>6. QED
      BY <2>4, <2>5
<1>10. answers' \in [Link -> Nat]
  <2>1. answers \in [Link -> Nat] /\ answers[l] + 1 \in Nat
      BY DEF HttpTypeOK
  <2>2. answers' = answers \/ answers' = [answers EXCEPT ![l] = answers[l] + 1]
      BY <1>2
  <2>3. QED
      BY <2>1, <2>2
<1>11. QED
    BY <1>2, <1>4, <1>5, <1>6, <1>7, <1>8, <1>9, <1>10

\* handleRead() of some bytes keeps the types: what is parsed is parsed from a context that
\* has not got all.
LEMMA ReceiveType ==
    ASSUME HttpTypeOK, NEW l \in Link, NEW n \in 1 .. Len(wire[l]), Receive(l, n)
    PROVE  HttpTypeOK'
<1> DEFINE in == inputBuffer[l] \o SubSeq(wire[l], 1, n)
<1>1. in \in Seq(Symbol) /\ SubSeq(wire[l], n + 1, Len(wire[l])) \in Seq(Symbol)
    BY Parts
<1>2. /\ wire' = [wire EXCEPT ![l] = SubSeq(wire[l], n + 1, Len(wire[l]))]
      /\ UNCHANGED <<sent, owed, closed, ahead>>
    BY DEF Receive, HttpTypeOK
<1>3. wire' \in [Link -> Seq(Symbol)]
    BY <1>1, <1>2 DEF HttpTypeOK
<1>4. CASE context[l] = NoContext
  <2>1. Ignore(l, in)
      BY <1>4 DEF Receive
  <2> HIDE DEF in
  <2>2. QED
      BY <1>1, <1>2, <1>3, <2>1 DEF Ignore, HttpTypeOK
<1>5. CASE context[l] # NoContext
  <2> DEFINE p == ParseRequest(context[l], in)
  <2>1. PICK close \in BOOLEAN : ParserFails(p) \/ Respond(l, p, close)
      BY <1>5 DEF Receive
  <2> HIDE DEF in
  <2>2. p \in Progress
      BY <1>1, <1>5, ParserRuns
  <2> HIDE DEF p
  <2>3. CASE ParserFails(p)
      BY <1>2, <1>3, <2>3 DEF ParserFails, http, HttpTypeOK
  <2>4. CASE Respond(l, p, close)
    <3>1. early' = early
        BY <2>4 DEF Respond
    <3>2. refused' \subseteq Link
      <4>1. refused' = refused \/ refused' = refused \cup {l}
          BY <2>2, <2>4, RespondType
      <4>2. QED
          BY <4>1 DEF HttpTypeOK
    <3>3. /\ context' \in [Link -> Context \cup {NoContext}]
          /\ \A m \in Link : context'[m].state_ # "GotAll"
          /\ inputBuffer' \in [Link -> Seq(Symbol)]
          /\ handled' \in [Link -> Seq(SUBSET HasColon)] /\ answers' \in [Link -> Nat]
        BY <2>2, <2>4, RespondType
    <3>4. QED
        BY <1>2, <1>3, <3>1, <3>2, <3>3 DEF HttpTypeOK
  <2>5. QED
      BY <2>1, <2>3, <2>4
<1>6. QED
    BY <1>4, <1>5

\* A client writes.
LEMMA WriteType ==
    ASSUME HttpTypeOK, NEW l \in Link, NEW line \in Written, Write(l, line)
    PROVE  HttpTypeOK'
<1>1. line \in Line
    BY ClientAssumption
<1>2. sent[l] \in Seq(Line) /\ wire[l] \in Seq(Symbol)
    BY DEF HttpTypeOK
<1>3. Append(sent[l], line) \in Seq(Line) /\ wire[l] \o Symbols(line) \in Seq(Symbol)
    BY <1>1, <1>2, SymbolsOf
<1>4. /\ sent' = [sent EXCEPT ![l] = Append(sent[l], line)]
      /\ wire' = [wire EXCEPT ![l] = wire[l] \o Symbols(line)]
      /\ owed' = [owed EXCEPT ![l] = Owed(sent'[l])]
      /\ ahead' = ahead \/ ahead' = ahead \cup {l}
      /\ UNCHANGED <<closed, http>>
    BY DEF Write
<1>5. /\ sent' \in [Link -> Seq(Line)] /\ sent'[l] = Append(sent[l], line)
      /\ wire' \in [Link -> Seq(Symbol)]
    BY <1>3, <1>4 DEF HttpTypeOK
<1>6. Owed(sent'[l]) \in Nat
    BY <1>3, <1>5, OwedType
<1>7. owed' \in [Link -> Nat]
    BY <1>4, <1>6 DEF HttpTypeOK
<1>8. QED
    BY <1>4, <1>5, <1>7 DEF http, HttpTypeOK

\* Every step keeps the types.
LEMMA HttpTypeNext == HttpTypeOK /\ [Next]_vars => HttpTypeOK'
<1> SUFFICES ASSUME HttpTypeOK, [Next]_vars PROVE HttpTypeOK'
    OBVIOUS
<1>1. CASE BaseStep
  <2>1. /\ UNCHANGED <<peer, inputBuffer, handled, answers, refused, early>>
        /\ \/ UNCHANGED context
           \/ \E l \in Link : context' = [context EXCEPT ![l] = NewContext]
      BY <1>1 DEF BaseStep, AcceptStep, SetContext
  <2>2. /\ context' \in [Link -> Context \cup {NoContext}]
        /\ \A l \in Link : context'[l].state_ # "GotAll"
      BY <2>1, Contexts DEF HttpTypeOK
  <2>3. QED
      BY <2>1, <2>2 DEF HttpTypeOK, peer
<1>2. ASSUME NEW l \in Link, LoopStep(l) PROVE HttpTypeOK'
  <2>1. CASE UNCHANGED <<peer, http>>
      BY <2>1 DEF HttpTypeOK, peer, http
  <2>2. CASE ReceiveSome(l)
      BY <2>2, ReceiveType DEF ReceiveSome
  <2>3. CASE EndOfStream(l)
    <3>1. /\ UNCHANGED <<peer, inputBuffer, handled, answers, refused, early>>
          /\ context' = [context EXCEPT ![l] = NoContext]
        BY <2>3 DEF EndOfStream
    <3>2. /\ context' \in [Link -> Context \cup {NoContext}]
          /\ \A m \in Link : context'[m].state_ # "GotAll"
        BY <3>1, Contexts DEF HttpTypeOK
    <3>3. QED
        BY <3>1, <3>2 DEF HttpTypeOK, peer
  <2>4. QED
      BY <1>2, <2>1, <2>2, <2>3 DEF LoopStep
<1>3. ASSUME NEW l \in Link, Close(l) PROVE HttpTypeOK'
    BY <1>3 DEF Close, http, HttpTypeOK
<1>4. ASSUME NEW l \in Link, NEW line \in Written, Write(l, line) PROVE HttpTypeOK'
    BY <1>4, WriteType
<1>5. CASE UNCHANGED vars
    BY <1>5 DEF vars, peer, http, HttpTypeOK
<1>6. QED
    BY <1>1, <1>2, <1>3, <1>4, <1>5 DEF Next

\* The state of the connections, their contexts and their clients is well typed.
LEMMA HttpTyped == Safety => []HttpTypeOK
  BY HttpTypeInit, HttpTypeNext, PTL DEF Safety

\* Every variable of the HTTP server keeps its type, for any threads, connections and
\* clients: the parser returns, whatever is written (HttpContext::parseRequest()), and no
\* context that is kept has got all (HttpServer::rcvMessage()).
THEOREM HttpTypeCorrect == Safety => []TypeOK
<1>1. OwnInv /\ HttpTypeOK => TypeOK
    BY DEF OwnInv, HttpTypeOK, TypeOK
<1>2. QED
    BY <1>1, ServerInvariant, HttpTyped, PTL

-------------------------------------------------------------------------------
(* Requests are parsed as they were written.                                 *)

\* What was handled and refused of a connection, and what it still has to parse, are what its
\* client wrote.
StreamInv(l) ==
    /\ \E ends \in Cuts(sent[l]) :
          /\ handled[l] = Fields(sent[l], ends)
          /\ l \in refused => /\ After(ends, Len(ends)) <= Len(sent[l])
                              /\ sent[l][After(ends, Len(ends))] # "request"
          /\ fate = "ok" /\ state_[l] # "Disconnected" =>
                \E k \in 0 .. Len(sent[l]) :
                    /\ Laid(inputBuffer[l] \o wire[l], sent[l], k)
                    /\ Knows(context[l], sent[l], ends, k)
    /\ context[l].state_ = "ExpectRequestLine" /\ context[l].method_ => l \in refused

StreamsInv == \A l \in Link : StreamInv(l)

\* Nothing was written or handled.
LEMMA StreamsInit == Init => StreamsInv
<1> SUFFICES ASSUME Init, NEW l \in Link PROVE StreamInv(l)
    BY DEF StreamsInv
<1>1. /\ sent[l] = <<>> /\ handled[l] = <<>> /\ inputBuffer[l] = <<>> /\ wire[l] = <<>>
      /\ context[l] = NoContext /\ l \notin refused
    BY DEF Init
<1>2. <<>> \in Seq(Line) /\ <<>> \in Seq(Symbol) /\ Len(<<>>) = 0
    OBVIOUS
<1>3. <<>> \in Cuts(sent[l]) /\ handled[l] = Fields(sent[l], <<>>)
    BY <1>1, <1>2, NoCut
<1>4. inputBuffer[l] \o wire[l] = <<>> /\ 0 \in 0 .. Len(sent[l])
    BY <1>1, <1>2
<1>5. Laid(inputBuffer[l] \o wire[l], sent[l], 0)
    BY <1>1, <1>4, NothingLaid
<1>6. After(<<>>, Len(<<>>)) = 1
    BY <1>2 DEF After
<1>7. Knows(context[l], sent[l], <<>>, 0)
    BY <1>1, <1>6, Contexts DEF Knows
<1>8. QED
    BY <1>1, <1>3, <1>4, <1>5, <1>7, Contexts DEF StreamInv

\* A connection of which nothing was read, written, parsed or handled; it may be closed.
LEMMA StreamSame ==
    ASSUME NEW l \in Link, StreamInv(l),
           sent'[l] = sent[l], handled'[l] = handled[l], l \in refused' <=> l \in refused,
           fate' = "ok" => /\ fate = "ok"
                           /\ inputBuffer'[l] \o wire'[l] = inputBuffer[l] \o wire[l],
           state_'[l] # "Disconnected" =>
              /\ state_[l] # "Disconnected"
              /\ context'[l] = context[l] \/ (context[l] = NoContext /\ context'[l] = NewContext),
           context'[l] \in {context[l], NoContext, NewContext}
    PROVE  StreamInv(l)'
<1>1. PICK ends \in Cuts(sent[l]) :
          /\ handled[l] = Fields(sent[l], ends)
          /\ l \in refused => /\ After(ends, Len(ends)) <= Len(sent[l])
                              /\ sent[l][After(ends, Len(ends))] # "request"
          /\ fate = "ok" /\ state_[l] # "Disconnected" =>
                \E k \in 0 .. Len(sent[l]) :
                    /\ Laid(inputBuffer[l] \o wire[l], sent[l], k)
                    /\ Knows(context[l], sent[l], ends, k)
    BY DEF StreamInv
<1>2. ASSUME fate' = "ok", state_'[l] # "Disconnected"
      PROVE  \E k \in 0 .. Len(sent'[l]) :
                 /\ Laid(inputBuffer'[l] \o wire'[l], sent'[l], k)
                 /\ Knows(context'[l], sent'[l], ends, k)
  <2>1. PICK k \in 0 .. Len(sent[l]) :
           /\ Laid(inputBuffer[l] \o wire[l], sent[l], k)
           /\ Knows(context[l], sent[l], ends, k)
      BY <1>1, <1>2
  <2>2. Knows(context'[l], sent[l], ends, k)
    <3>1. CASE context'[l] = context[l]
        BY <2>1, <3>1
    <3>2. CASE context[l] = NoContext /\ context'[l] = NewContext
        BY <2>1, <3>2, Contexts DEF Knows
    <3>3. QED
        BY <1>2, <3>1, <3>2
  <2>3. QED
      BY <1>2, <2>1, <2>2
<1>3. context'[l].state_ = "ExpectRequestLine" /\ context'[l].method_ => l \in refused'
    BY Contexts DEF StreamInv
<1>4. QED
    BY <1>1, <1>2, <1>3 DEF StreamInv

\* A line is written.
LEMMA KnowsMore ==
    ASSUME NEW lines \in Seq(Line), NEW line \in Line, NEW ends \in Cuts(lines),
           NEW k \in 0 .. Len(lines), NEW c, c.state_ # "GotAll", Knows(c, lines, ends, k)
    PROVE  Knows(c, Append(lines, line), ends, k)
<1> DEFINE first == After(ends, Len(ends))
           more == Append(lines, line)
<1>1. /\ first \in Nat /\ 1 <= first /\ k \in Nat /\ Len(lines) \in Nat /\ k <= Len(lines)
  <2>1. Len(ends) \in 0 .. Len(ends)
      BY CutType
  <2>2. QED
      BY <2>1, AfterType
<1>2. \A j \in 1 .. Len(lines) : more[j] = lines[j]
    OBVIOUS
<1> HIDE DEF first, more
<1>3. ASSUME c.state_ = "ExpectHeaders"
      PROVE  /\ first <= k /\ more[first] = "request"
             /\ \A j \in first + 1 .. k : more[j] \in HasColon
             /\ c.headers_ = {more[j] : j \in first + 1 .. k}
  <2>1. /\ first <= k /\ lines[first] = "request"
        /\ \A j \in first + 1 .. k : lines[j] \in HasColon
        /\ c.headers_ = {lines[j] : j \in first + 1 .. k}
      BY <1>3 DEF Knows, first
  <2>2. more[first] = lines[first] /\ \A j \in first + 1 .. k : more[j] = lines[j]
      BY <1>1, <1>2, <2>1
  <2>3. {more[j] : j \in first + 1 .. k} = {lines[j] : j \in first + 1 .. k}
      BY <2>2
  <2>4. QED
      BY <2>1, <2>2, <2>3
<1>4. c.state_ \in {"NULL", "ExpectRequestLine"} => k + 1 = first /\ c.headers_ = {}
    BY DEF Knows, first
<1>5. QED
    BY <1>3, <1>4 DEF Knows, first, more

\* A client writes a line: it comes after what was not parsed.
LEMMA StreamWritten ==
    ASSUME HttpTypeOK, NEW l \in Link, StreamInv(l), NEW line \in Written, Write(l, line)
    PROVE  StreamInv(l)'
<1> DEFINE lines == sent[l]
<1>1. /\ line \in Line /\ lines \in Seq(Line) /\ Len(lines) \in Nat
      /\ inputBuffer[l] \in Seq(Symbol) /\ wire[l] \in Seq(Symbol)
      /\ context[l].state_ # "GotAll"
    BY ClientAssumption DEF HttpTypeOK
<1>2. /\ sent'[l] = Append(lines, line) /\ wire'[l] = wire[l] \o Symbols(line)
      /\ UNCHANGED <<context, inputBuffer, handled, refused, fate, state_>>
    BY DEF Write, http, server, HttpTypeOK
<1>3. PICK ends \in Cuts(lines) :
          /\ handled[l] = Fields(lines, ends)
          /\ l \in refused => /\ After(ends, Len(ends)) <= Len(lines)
                              /\ lines[After(ends, Len(ends))] # "request"
          /\ fate = "ok" /\ state_[l] # "Disconnected" =>
                \E k \in 0 .. Len(lines) :
                    /\ Laid(inputBuffer[l] \o wire[l], lines, k)
                    /\ Knows(context[l], lines, ends, k)
    BY DEF StreamInv
<1> DEFINE more == Append(lines, line)
           first == After(ends, Len(ends))
<1>4. /\ Len(more) = Len(lines) + 1 /\ \A j \in 1 .. Len(lines) : more[j] = lines[j]
    BY <1>1
<1>5. ends \in Cuts(more) /\ Fields(more, ends) = Fields(lines, ends)
    BY <1>1, CutOfMore
<1>6. first \in Nat /\ 1 <= first
  <2>1. Len(ends) \in 0 .. Len(ends)
      BY <1>1, CutType
  <2>2. QED
      BY <1>1, <2>1, AfterType
<1> HIDE DEF lines, more, first
<1>7. l \in refused => first <= Len(more) /\ more[first] # "request"
  <2>1. SUFFICES ASSUME l \in refused PROVE first <= Len(more) /\ more[first] # "request"
      OBVIOUS
  <2>2. first <= Len(lines) /\ lines[first] # "request"
      BY <1>3, <2>1 DEF first
  <2>3. first \in 1 .. Len(lines)
      BY <1>1, <1>6, <2>2
  <2>4. QED
      BY <1>1, <1>4, <1>6, <2>2, <2>3
<1>8. ASSUME fate = "ok", state_[l] # "Disconnected"
      PROVE  \E k \in 0 .. Len(more) :
                 /\ Laid(inputBuffer[l] \o (wire[l] \o Symbols(line)), more, k)
                 /\ Knows(context[l], more, ends, k)
  <2>1. PICK k \in 0 .. Len(lines) :
           Laid(inputBuffer[l] \o wire[l], lines, k) /\ Knows(context[l], lines, ends, k)
      BY <1>3, <1>8
  <2>2. k \in 0 .. Len(more)
      BY <1>1, <1>4
  <2>3. Knows(context[l], more, ends, k)
      BY <1>1, <2>1, KnowsMore DEF more
  <2>4. inputBuffer[l] \o wire[l] \in Seq(Symbol) /\ Symbols(line) \in Seq(Symbol)
      BY <1>1, SymbolsOf
  <2>5. Laid((inputBuffer[l] \o wire[l]) \o Symbols(line), more, k)
    <3> DEFINE bytes == inputBuffer[l] \o wire[l]
    <3>1. bytes \in Seq(Symbol) /\ Laid(bytes, lines, k) /\ line \in Line /\ lines \in Seq(Line)
        BY <1>1, <2>1, <2>4
    <3> HIDE DEF bytes
    <3>2. Laid(bytes \o Symbols(line), Append(lines, line), k)
        BY <3>1, LineWritten
    <3>3. QED
        BY <3>2 DEF bytes, more
  <2>6. (inputBuffer[l] \o wire[l]) \o Symbols(line) = inputBuffer[l] \o (wire[l] \o Symbols(line))
    <3> DEFINE b == inputBuffer[l]
               w == wire[l]
               t == Symbols(line)
    <3>1. b \in Seq(Symbol) /\ w \in Seq(Symbol) /\ t \in Seq(Symbol)
        BY <1>1, <2>4
    <3> HIDE DEF b, w, t
    <3>2. (b \o w) \o t = b \o (w \o t)
        BY <3>1, Regrouped
    <3>3. QED
        BY <3>2 DEF b, w, t
  <2>7. QED
      BY <2>2, <2>3, <2>5, <2>6
<1>9. QED
    BY <1>2, <1>3, <1>5, <1>7, <1>8 DEF StreamInv, lines, more, first

\* rcvMessage() and rcvRequest(), with what the parser has read.
LEMMA StreamAnswered ==
    ASSUME HttpTypeOK, OwnInv, NEW l \in Link, StreamInv(l), fate = "ok", l \in polled,
           context[l] # NoContext,
           NEW in \in Seq(Symbol), NEW w \in Seq(Symbol), in \o w = inputBuffer[l] \o wire[l],
           NEW p, p = ParseRequest(context[l], in), NEW close \in BOOLEAN, Respond(l, p, close),
           wire'[l] = w, sent' = sent
    PROVE  StreamInv(l)'
<1> DEFINE lines == sent[l]
           c == context[l]
<1>1. /\ lines \in Seq(Line) /\ Len(lines) \in Nat
      /\ c \in Context /\ c.state_ # "GotAll"
    BY DEF HttpTypeOK
<1>2. PICK ends \in Cuts(lines) :
          /\ handled[l] = Fields(lines, ends)
          /\ l \in refused => /\ After(ends, Len(ends)) <= Len(lines)
                              /\ lines[After(ends, Len(ends))] # "request"
          /\ fate = "ok" /\ state_[l] # "Disconnected" =>
                \E k \in 0 .. Len(lines) :
                    /\ Laid(inputBuffer[l] \o wire[l], lines, k)
                    /\ Knows(c, lines, ends, k)
    BY DEF StreamInv
<1> DEFINE first == After(ends, Len(ends))
<1>3. c.state_ = "ExpectRequestLine" /\ c.method_ => l \in refused
    BY DEF StreamInv
<1>4. state_[l] # "Disconnected"
    BY DEF OwnInv, LinkInv
<1>5. /\ p \in Progress
      /\ p.context.state_ = "ExpectRequestLine" /\ p.context.method_ =>
            (c.state_ = "ExpectRequestLine" /\ c.method_) \/ ~p.ok
    BY ParserRuns
<1>6. /\ context'[l] = IF p.context.state_ = "GotAll" THEN NewContext ELSE p.context
      /\ inputBuffer'[l] = p.in
      /\ handled'[l] = IF p.context.state_ = "GotAll"
                         THEN Append(handled[l], p.context.headers_) ELSE handled[l]
      /\ refused' = IF p.ok THEN refused ELSE refused \cup {l}
      /\ inputBuffer'[l] \o wire'[l] = p.in \o w /\ sent'[l] = lines
    BY <1>5, RespondType
<1>7. first \in Nat /\ 1 <= first
  <2>1. Len(ends) \in 0 .. Len(ends)
      BY <1>1, CutType
  <2>2. QED
    <3>1. lines \in Seq(Line)
        BY <1>1
    <3> HIDE DEF lines
    <3>2. After(ends, Len(ends)) \in 1 .. Len(lines) + 1
        BY <2>1, <3>1, AfterType
    <3>3. QED
        BY <1>1, <3>2
<1>8. Reads(p, lines, ends, w)
  <2>1. PICK k \in 0 .. Len(lines) :
           Laid(inputBuffer[l] \o wire[l], lines, k) /\ Knows(c, lines, ends, k)
      BY <1>2, <1>4
  <2>2. Laid(in \o w, lines, k)
      BY <2>1
  <2>3. QED
      BY <1>1, <2>1, <2>2, ParseReads
<1>9. PICK k \in 0 .. Len(lines) :
        /\ Laid(p.in \o w, lines, k)
        /\ Knows(p.context, lines, ends, k)
        /\ ~p.ok => /\ p.context.state_ = "ExpectRequestLine"
                    /\ k + 1 \in 1 .. Len(lines) /\ lines[k + 1] # "request"
    BY <1>8 DEF Reads
<1> HIDE DEF lines, c, first
<1>10. CASE p.context.state_ = "GotAll"
  <2> DEFINE more == Append(ends, k)
  <2>1. /\ IsRequest(lines, first, k)
        /\ p.context.headers_ = {lines[j] : j \in first + 1 .. k - 1}
      BY <1>9, <1>10 DEF Knows, first
  <2>2. k \in 1 .. Len(lines)
      BY <1>1, <1>7, <2>1 DEF IsRequest
  <2>3. /\ more \in Cuts(lines) /\ After(more, Len(more)) = k + 1
        /\ Fields(lines, more) = Append(Fields(lines, ends), p.context.headers_)
      BY <1>1, <2>1, <2>2, OneMoreRequest DEF first
  <2>4. handled'[l] = Fields(lines, more)
      BY <1>2, <1>6, <1>10, <2>3
  <2>5. l \notin refused'
    <3>1. lines[first] = "request"
        BY <2>1 DEF IsRequest
    <3>2. l \notin refused
        BY <1>2, <3>1 DEF first
    <3>3. p.ok
        BY <1>9, <1>10
    <3>4. QED
        BY <1>6, <3>2, <3>3
  <2>6. context'[l] = NewContext
      BY <1>6, <1>10
  <2> HIDE DEF more
  <2>7. Knows(context'[l], lines, more, k)
      BY <2>3, <2>6, Contexts DEF Knows
  <2>8. Laid(inputBuffer'[l] \o wire'[l], lines, k)
      BY <1>6, <1>9
  <2>9. QED
      BY <1>6, <2>3, <2>4, <2>5, <2>6, <2>7, <2>8, Contexts DEF StreamInv
<1>11. CASE p.context.state_ # "GotAll"
  <2>1. context'[l] = p.context /\ handled'[l] = Fields(lines, ends)
      BY <1>2, <1>6, <1>11
  <2>2. l \in refused' => first <= Len(lines) /\ lines[first] # "request"
    <3>1. CASE p.ok
        BY <1>2, <1>6, <3>1 DEF first
    <3>2. CASE ~p.ok
      <4>1. k + 1 = first
          BY <1>9, <3>2 DEF Knows, first
      <4>2. QED
          BY <1>1, <1>9, <3>2, <4>1
    <3>3. QED
        BY <3>1, <3>2
  <2>3. context'[l].state_ = "ExpectRequestLine" /\ context'[l].method_ => l \in refused'
    <3>1. CASE p.ok
        BY <1>3, <1>5, <1>6, <2>1, <3>1
    <3>2. CASE ~p.ok
        BY <1>6, <3>2
    <3>3. QED
        BY <3>1, <3>2
  <2>4. Laid(inputBuffer'[l] \o wire'[l], lines, k)
      BY <1>6, <1>9
  <2>5. QED
      BY <1>6, <1>9, <2>1, <2>2, <2>3, <2>4 DEF StreamInv, first
<1>12. QED
    BY <1>10, <1>11

\* The base loop is accepting the connection l.
Busy(l) == at[Base].link = l /\ at[Base].step \notin {"poll", "erase"}

\* A connection has its context when newConnection() has returned, and not before.
FreshInv == \A l \in Link : context[l] # NoContext => l < connId_ /\ ~Busy(l)

\* No connection has a context.
LEMMA FreshInit == Init => FreshInv
  BY DEF Init, FreshInv

\* What a step of newConnection() does to the place of the base loop.
LEMMA AcceptMoves ==
    ASSUME OwnInv, NEW l \in Link,
           Inserted(l) \/ HandOver(l) \/ AcceptStep(l)
    PROVE  /\ Busy(l) /\ l < connId_
           /\ at'[Base].step = "poll" \/ at'[Base].link = l
<1>1. PICK u \in {"insert", "inserted", "handed", "find", "found", "lookup", "looked", "connected"} :
         Accepting(u, l)
    BY DEF Inserted, HandOver, AcceptStep, Find, Found, Lookup, LookedUp, TestConnected, SetContext
<1>2. Busy(l)
    BY <1>1 DEF Accepting, Busy
<1>3. l < connId_
  <2>1. l \in 1 .. connId_ - 1
      BY <1>2 DEF Busy, OwnInv, PlaceInv
  <2>2. QED
      BY <2>1 DEF OwnInv, ServerTypeOK
<1>4. PICK s \in Step, m \in {l, 0} : Goto(Base, s, m) /\ (m = l \/ s = "poll")
    BY DEF Inserted, HandOver, AcceptStep, Find, Found, Lookup, LookedUp, TestConnected,
           SetContext, EnterMap, Return, Step, MapStep
<1>5. at'[Base] = [step |-> s, link |-> m]
    BY <1>4, Constants, Moved DEF OwnInv
<1>6. QED
    BY <1>2, <1>3, <1>4, <1>5

\* delConnection() returns: where it leaves the threads.
LEMMA ErasedMoves ==
    ASSUME OwnInv, NEW l \in Link, Erased(l)
    PROVE  /\ loop[l] \in Loop /\ at[loop[l]] = [step |-> "erase", link |-> l]
           /\ at'[loop[l]] = [step |-> "poll", link |-> 0]
           /\ \A u \in Loop \ {loop[l]} : at'[u] = at[u]
           /\ state_[l] = "Disconnected"
<1> DEFINE t == loop[l]
<1>1. t \in Loop /\ "poll" \in Step /\ at[t] = [step |-> "erase", link |-> l]
    BY DEF OwnInv, ServerTypeOK, Step, Erased
<1>2. Goto(t, "poll", 0)
    BY DEF Erased, Return
<1> HIDE DEF t
<1>3. /\ at'[t] = [step |-> "poll", link |-> 0]
      /\ \A u \in Loop \ {t} : at'[u] = at[u]
  <2>1. 0 \in Link \cup {0} /\ ServerTypeOK
      BY DEF OwnInv
  <2>2. QED
      BY <1>1, <1>2, <2>1, Moved
<1>4. state_[l] = "Disconnected"
    BY <1>1 DEF OwnInv, PlaceInv
<1>5. QED
    BY <1>1, <1>3, <1>4 DEF t

\* A connection closes: where it leaves the threads.
LEMMA DisconnectMoves ==
    ASSUME OwnInv, NEW l \in Link, Disconnect(l)
    PROVE  /\ loop[l] \in Loop
           /\ at'[loop[l]] = [step |-> "erase", link |-> l]
           /\ \A u \in Loop \ {loop[l]} : at'[u] = at[u]
           /\ state_'[l] = "Disconnected" /\ \A m \in Link \ {l} : state_'[m] = state_[m]
<1> DEFINE t == loop[l]
<1>1. t \in Loop /\ "erase" \in Step
    BY DEF OwnInv, ServerTypeOK, Step, MapStep
<1>2. Goto(t, "erase", l)
    BY DEF Disconnect, EnterMap
<1> HIDE DEF t
<1>3. /\ at'[t] = [step |-> "erase", link |-> l]
      /\ \A u \in Loop \ {t} : at'[u] = at[u]
  <2>1. l \in Link \cup {0} /\ ServerTypeOK
      BY DEF OwnInv
  <2>2. QED
      BY <1>1, <1>2, <2>1, Moved
<1>4. state_'[l] = "Disconnected" /\ \A m \in Link \ {l} : state_'[m] = state_[m]
    BY DEF Disconnect, OwnInv, ServerTypeOK
<1>5. QED
    BY <1>1, <1>3, <1>4 DEF t

\* newConnection() begins: where it leaves the threads.
LEMMA NewConnectionMoves ==
    ASSUME OwnInv, NewConnection
    PROVE  /\ connId_ \in Link /\ connId_' = connId_ + 1 /\ at[Base].step = "poll"
           /\ at'[Base] = [step |-> "insert", link |-> connId_]
           /\ \A u \in Loop \ {Base} : at'[u] = at[u]
           /\ state_'[connId_] = "Connected"
           /\ \A m \in Link \ {connId_} : state_'[m] = state_[m]
<1>1. /\ connId_ \in Link /\ "insert" \in Step /\ Base \in Loop
  <2>1. connId_ \in Nat /\ connId_ # 0 /\ connId_ <= MaxLinks
      BY DEF NewConnection, OwnInv, ServerTypeOK
  <2>2. QED
      BY <2>1, Constants DEF Step, MapStep
<1>2. Goto(Base, "insert", connId_) /\ connId_' = connId_ + 1 /\ at[Base].step = "poll"
      /\ state_' = [state_ EXCEPT ![connId_] = "Connected"]
    BY DEF NewConnection, EnterMap, Idle
<1>3. /\ at'[Base] = [step |-> "insert", link |-> connId_]
      /\ \A u \in Loop \ {Base} : at'[u] = at[u]
  <2>1. connId_ \in Link \cup {0} /\ ServerTypeOK
      BY <1>1 DEF OwnInv
  <2>2. QED
      BY <1>1, <1>2, <2>1, Moved
<1>4. QED
    BY <1>1, <1>2, <1>3 DEF OwnInv, ServerTypeOK

\* What the loop of a connection does to its context.
LEMMA ContextMoves ==
    ASSUME HttpTypeOK, NEW l \in Link, LoopStep(l)
    PROVE  /\ \A m \in Link \ {l} : context'[m] = context[m]
           /\ context[l] = NoContext => context'[l] = NoContext
<1>1. CASE UNCHANGED <<peer, http>>
    BY <1>1 DEF http
<1>2. CASE EndOfStream(l)
    BY <1>2 DEF EndOfStream, HttpTypeOK
<1>3. ASSUME NEW n \in 1 .. Len(wire[l]), Receive(l, n)
      PROVE  /\ \A m \in Link \ {l} : context'[m] = context[m]
             /\ context[l] = NoContext => context'[l] = NoContext
  <2>1. CASE context[l] = NoContext
      BY <1>3, <2>1 DEF Receive, Ignore
  <2>2. CASE context[l] # NoContext
    <3> DEFINE in == inputBuffer[l] \o SubSeq(wire[l], 1, n)
               p == ParseRequest(context[l], in)
    <3>1. PICK close \in BOOLEAN : ParserFails(p) \/ Respond(l, p, close)
        BY <1>3, <2>2 DEF Receive
    <3>2. in \in Seq(Symbol)
        BY Parts
    <3> HIDE DEF in
    <3>3. p \in Progress
        BY <2>2, <3>2, ParserRuns
    <3> HIDE DEF p
    <3>4. CASE ParserFails(p)
        BY <3>4 DEF ParserFails, http
    <3>5. CASE Respond(l, p, close)
        BY <2>2, <3>3, <3>5, RespondType
    <3>6. QED
        BY <3>1, <3>4, <3>5
  <2>3. QED
      BY <2>1, <2>2
<1>4. QED
    BY <1>1, <1>2, <1>3 DEF LoopStep, ReceiveSome

\* Every step of the server keeps it: setContext() is the last of newConnection().
LEMMA FreshNext == OwnInv /\ HttpTypeOK /\ FreshInv /\ [Next]_vars => FreshInv'
<1> SUFFICES ASSUME OwnInv, HttpTypeOK, FreshInv, [Next]_vars,
                    NEW m \in Link, context'[m] # NoContext
             PROVE  m < connId_' /\ ~Busy(m)'
    BY DEF FreshInv
<1>1. m \in Nat /\ connId_ \in Nat
    BY Constants DEF OwnInv, ServerTypeOK
<1>2. CASE NewConnection /\ UNCHANGED context
  <2>1. m < connId_
      BY <1>2 DEF FreshInv
  <2>2. QED
      BY <1>1, <1>2, <2>1, NewConnectionMoves DEF Busy
<1>3. ASSUME NEW l \in Link,
             \/ (Inserted(l) \/ HandOver(l)) /\ UNCHANGED context
             \/ AcceptStep(l) /\ UNCHANGED connId_
      PROVE  m < connId_' /\ ~Busy(m)'
  <2>1. /\ Busy(l) /\ l < connId_ /\ connId_' = connId_
        /\ at'[Base].step = "poll" \/ at'[Base].link = l
      BY <1>3, AcceptMoves DEF Inserted, HandOver
  <2>2. CASE context'[m] = context[m]
      BY <2>1, <2>2 DEF FreshInv, Busy
  <2>3. CASE context'[m] # context[m]
    <3>1. SetContext(l)
        BY <1>3, <2>3 DEF AcceptStep
    <3>2. at'[Base].step = "poll"
        BY <3>1, Constants DEF SetContext, Return, Goto, OwnInv, ServerTypeOK
    <3>3. m = l
        BY <2>3, <3>1 DEF SetContext, HttpTypeOK
    <3>4. QED
        BY <2>1, <3>2, <3>3 DEF Busy
  <2>4. QED
      BY <2>2, <2>3
<1>4. ASSUME NEW l \in Link, LoopStep(l) PROVE m < connId_' /\ ~Busy(m)'
  <2>1. context[m] # NoContext
      BY <1>4, ContextMoves
  <2>2. m < connId_ /\ ~Busy(m)
      BY <2>1 DEF FreshInv
  <2>3. connId_' = connId_
      BY <1>4 DEF LoopStep, Prepare, Erased, ReceiveSome, Receive, Ignore, ParserFails,
                  Respond, EndOfStream, Disconnect, server
  <2>4. CASE at'[Base] = at[Base] \/ at'[Base].step \in {"poll", "erase"}
      BY <2>2, <2>3, <2>4 DEF Busy
  <2>5. at'[Base] = at[Base] \/ at'[Base].step \in {"poll", "erase"}
    <3>1. CASE Erased(l)
      <4>1. /\ at'[loop[l]] = [step |-> "poll", link |-> 0]
            /\ \A u \in Loop \ {loop[l]} : at'[u] = at[u]
          BY <3>1, ErasedMoves
      <4>2. CASE loop[l] = Base
          BY <4>1, <4>2
      <4>3. CASE loop[l] # Base
          BY <4>1, <4>3, Constants
      <4>4. QED
          BY <4>2, <4>3
    <3>2. CASE EndOfStream(l)
      <4>1. Disconnect(l)
          BY <3>2 DEF EndOfStream
      <4>2. /\ at'[loop[l]] = [step |-> "erase", link |-> l]
            /\ \A u \in Loop \ {loop[l]} : at'[u] = at[u]
          BY <4>1, DisconnectMoves
      <4>3. CASE loop[l] = Base
          BY <4>2, <4>3
      <4>4. CASE loop[l] # Base
          BY <4>2, <4>4, Constants
      <4>5. QED
          BY <4>3, <4>4
    <3>3. CASE Prepare(l) \/ ReceiveSome(l)
        BY <3>3 DEF Prepare, ReceiveSome, Receive, Ignore, ParserFails, Respond, server
    <3>4. QED
        BY <1>4, <3>1, <3>2, <3>3 DEF LoopStep
  <2>6. QED
      BY <2>4, <2>5
<1>5. CASE UNCHANGED <<context, connId_, at>>
    BY <1>5 DEF FreshInv, Busy
<1>6. QED
    BY <1>2, <1>3, <1>4, <1>5 DEF Next, BaseStep, Close, Write, vars, http, server

-------------------------------------------------------------------------------
\* handleRead() of some bytes, with a context or without.
LEMMA StreamReceived ==
    ASSUME HttpTypeOK, OwnInv, StreamsInv, fate = "ok", NEW l \in Link,
           NEW n \in 1 .. Len(wire[l]), Receive(l, n)
    PROVE  StreamsInv'
<1> DEFINE in == inputBuffer[l] \o SubSeq(wire[l], 1, n)
           w == SubSeq(wire[l], n + 1, Len(wire[l]))
<1>1. /\ in \in Seq(Symbol) /\ w \in Seq(Symbol)
      /\ in \o w = inputBuffer[l] \o wire[l]
    BY Parts
<1>2. /\ wire'[l] = w /\ \A m \in Link \ {l} : wire'[m] = wire[m]
      /\ sent' = sent /\ l \in polled
    BY DEF Receive, HttpTypeOK
<1>3. CASE context[l] = NoContext
  <2>1. Ignore(l, in)
      BY <1>3 DEF Receive
  <2> HIDE DEF in, w
  <2>2. /\ inputBuffer'[l] = in /\ \A m \in Link \ {l} : inputBuffer'[m] = inputBuffer[m]
        /\ UNCHANGED <<fate, state_, context, handled, refused>>
      BY <1>1, <2>1 DEF Ignore, server, HttpTypeOK
  <2>3. \A m \in Link : inputBuffer'[m] \o wire'[m] = inputBuffer[m] \o wire[m]
      BY <1>1, <1>2, <2>2
  <2>4. QED
      BY <1>2, <2>2, <2>3, StreamSame DEF StreamsInv
<1>4. CASE context[l] # NoContext
  <2> DEFINE p == ParseRequest(context[l], in)
  <2>1. PICK close \in BOOLEAN : ParserFails(p) \/ Respond(l, p, close)
      BY <1>4 DEF Receive
  <2> HIDE DEF in, w
  <2>2. p \in Progress
      BY <1>1, <1>4, ParserRuns
  <2>3. CASE ParserFails(p)
    <3>1. fate' # "ok" /\ UNCHANGED <<state_, context, handled, refused>>
        BY <2>3 DEF ParserFails, http
    <3>2. QED
        BY <1>2, <3>1, StreamSame DEF StreamsInv
  <2>4. CASE Respond(l, p, close)
    <3>1. StreamInv(l)'
      <4>1. StreamInv(l)
          BY DEF StreamsInv
      <4>2. QED
          BY <1>1, <1>2, <1>4, <2>4, <4>1, StreamAnswered
    <3>2. ASSUME NEW m \in Link \ {l} PROVE StreamInv(m)'
      <4> HIDE DEF p
      <4>1. /\ inputBuffer'[m] = inputBuffer[m] /\ context'[m] = context[m]
            /\ handled'[m] = handled[m] /\ (m \in refused' <=> m \in refused)
        <5>1. refused' = refused \/ refused' = refused \cup {l}
            BY <2>4 DEF Respond
        <5>2. QED
            BY <2>2, <2>4, <5>1, RespondType
      <4>2. fate' = fate /\ state_'[m] = state_[m]
          BY <2>4 DEF Respond, OwnInv, ServerTypeOK
      <4>3. StreamInv(m) /\ wire'[m] = wire[m] /\ sent'[m] = sent[m] /\ m \in Link
          BY <1>2 DEF StreamsInv
      <4>4. QED
          BY <4>1, <4>2, <4>3, StreamSame
    <3>3. QED
        BY <3>1, <3>2 DEF StreamsInv
  <2>5. QED
      BY <2>1, <2>3, <2>4
<1>5. QED
    BY <1>3, <1>4

\* Every step keeps what was parsed in line with what was written.
LEMMA StreamsNext ==
    OwnInv /\ HttpTypeOK /\ FreshInv /\ StreamsInv /\ [Next]_vars => StreamsInv'
<1> SUFFICES ASSUME OwnInv, HttpTypeOK, FreshInv, StreamsInv, [Next]_vars
             PROVE  StreamsInv'
    OBVIOUS
<1>1. CASE fate = "ok" /\ BaseStep
  <2>1. UNCHANGED <<sent, wire, inputBuffer, handled, refused>>
      BY <1>1 DEF BaseStep, peer
  <2>2. ASSUME NEW m \in Link
        PROVE  /\ context'[m] \in {context[m], NewContext}
               /\ state_'[m] # "Disconnected" =>
                     /\ state_[m] # "Disconnected"
                     /\ context'[m] = context[m] \/ (context[m] = NoContext /\ context'[m] = NewContext)
    <3>1. CASE NewConnection /\ UNCHANGED context
      <4>1. state_'[m] = state_[m] \/ (m = connId_ /\ connId_ \in Link)
          BY <3>1, NewConnectionMoves
      <4>2. connId_ \in Link => state_[connId_] = "none"
        <5>1. ASSUME connId_ \in Link PROVE LinkInv(connId_) /\ connId_ \in Nat
            BY <5>1, Constants DEF OwnInv
        <5>2. QED
            BY <5>1 DEF LinkInv
      <4>3. QED
          BY <3>1, <4>1, <4>2
    <3>2. CASE UNCHANGED <<state_, context>>
        BY <3>2
    <3>3. ASSUME NEW l \in Link, SetContext(l), AcceptStep(l), UNCHANGED state_
          PROVE  /\ context'[m] = context[m] \/ (context[m] = NoContext /\ context'[m] = NewContext)
      <4>1. Busy(l)
          BY <3>3, AcceptMoves
      <4>2. context[l] = NoContext
          BY <4>1 DEF FreshInv
      <4>3. QED
          BY <3>3, <4>2 DEF SetContext, HttpTypeOK
    <3>4. QED
        BY <1>1, <3>1, <3>2, <3>3 DEF BaseStep, AcceptStep, Inserted, HandOver
  <2>3. fate' = "ok" => fate = "ok"
      BY <1>1
  <2>4. ASSUME NEW m \in Link PROVE StreamInv(m)'
    <3>1. context'[m] \in {context[m], NoContext, NewContext} /\ StreamInv(m)
        BY <2>2 DEF StreamsInv
    <3>2. QED
        BY <2>1, <2>2, <2>3, <3>1, StreamSame
  <2>5. QED
      BY <2>4 DEF StreamsInv
<1>2. ASSUME NEW l \in Link, fate = "ok", LoopStep(l) PROVE StreamsInv'
  <2>1. CASE (Prepare(l) \/ Erased(l)) /\ UNCHANGED <<peer, http>>
    <3>1. UNCHANGED <<sent, wire, inputBuffer, handled, refused, context, state_, fate>>
        BY <2>1 DEF Prepare, Erased, peer, http
    <3>2. QED
        BY <3>1, StreamSame DEF StreamsInv
  <2>2. CASE ReceiveSome(l)
      BY <1>2, <2>2, StreamReceived DEF ReceiveSome
  <2>3. CASE EndOfStream(l)
    <3>1. /\ UNCHANGED <<sent, wire, inputBuffer, handled, refused>>
          /\ context' = [context EXCEPT ![l] = NoContext] /\ Disconnect(l)
        BY <2>3 DEF EndOfStream, peer
    <3>2. /\ context'[l] = NoContext /\ \A m \in Link \ {l} : context'[m] = context[m]
        BY <3>1 DEF HttpTypeOK
    <3>3. state_'[l] = "Disconnected" /\ \A m \in Link \ {l} : state_'[m] = state_[m]
        BY <3>1, DisconnectMoves
    <3>4. ASSUME NEW m \in Link PROVE StreamInv(m)'
      <4>1. StreamInv(m)
          BY DEF StreamsInv
      <4>2. CASE m = l
          BY <1>2, <3>1, <3>2, <3>3, <4>1, <4>2, StreamSame
      <4>3. CASE m # l
          BY <1>2, <3>1, <3>2, <3>3, <4>1, <4>3, StreamSame
      <4>4. QED
          BY <4>2, <4>3
    <3>5. QED
        BY <3>4 DEF StreamsInv
  <2>4. QED
      BY <1>2, <2>1, <2>2, <2>3 DEF LoopStep
<1>3. ASSUME NEW l \in Link, NEW line \in Written, Write(l, line) PROVE StreamsInv'
  <2>1. ASSUME NEW m \in Link PROVE StreamInv(m)'
    <3>1. StreamInv(m)
        BY DEF StreamsInv
    <3>2. CASE m = l
        BY <1>3, <3>1, <3>2, StreamWritten
    <3>3. CASE m # l
      <4>1. /\ UNCHANGED <<context, inputBuffer, handled, refused, fate, state_>>
            /\ sent'[m] = sent[m] /\ wire'[m] = wire[m]
          BY <1>3, <3>3 DEF Write, http, server, HttpTypeOK
      <4>2. QED
          BY <3>1, <4>1, StreamSame
    <3>4. QED
        BY <3>2, <3>3
  <2>2. QED
      BY <2>1 DEF StreamsInv
<1>4. ASSUME NEW l \in Link, Close(l) PROVE StreamsInv'
  <2>1. UNCHANGED <<sent, wire, inputBuffer, handled, refused, context, state_, fate>>
      BY <1>4 DEF Close, http, server
  <2>2. QED
      BY <2>1, StreamSame DEF StreamsInv
<1>5. CASE UNCHANGED vars
  <2>1. UNCHANGED <<sent, wire, inputBuffer, handled, refused, context, state_, fate>>
      BY <1>5 DEF vars, peer, http, server
  <2>2. QED
      BY <2>1, StreamSame DEF StreamsInv
<1>6. QED
    BY <1>1, <1>2, <1>3, <1>4, <1>5 DEF Next

\* What a connection has handled, refused and not parsed is what its client wrote.
LEMMA StreamsHold == Safety => [](OwnInv /\ HttpTypeOK /\ StreamsInv)
<1>1. Init => FreshInv /\ StreamsInv
    BY FreshInit, StreamsInit
<1>2. QED
    BY <1>1, ServerInvariant, HttpTyped, FreshNext, StreamsNext, PTL DEF Safety

\* The callback is given the requests that the client wrote, in their order and with their own
\* headers, however many lines it wrote and wherever the stream was split between reads; only a
\* line that is no request is refused (parseRequest(), reset(), rcvMessage()).
THEOREM ParsedAsWrittenHolds == Safety => []ParsedAsWritten
<1>1. HttpTypeOK /\ StreamsInv => ParsedAsWritten
  <2>1. SUFFICES ASSUME HttpTypeOK, StreamsInv, NEW l \in Link
                 PROVE  LET reading == Reading(sent[l]) IN
                        /\ Len(handled[l]) <= Len(reading.requests)
                        /\ handled[l] = SubSeq(reading.requests, 1, Len(handled[l]))
                        /\ l \in refused => reading.bad /\ handled[l] = reading.requests
      BY DEF ParsedAsWritten
  <2>2. sent[l] \in Seq(Line)
      BY <2>1 DEF HttpTypeOK
  <2>3. PICK ends \in Cuts(sent[l]) :
          /\ handled[l] = Fields(sent[l], ends)
          /\ l \in refused => /\ After(ends, Len(ends)) <= Len(sent[l])
                              /\ sent[l][After(ends, Len(ends))] # "request"
      BY <2>1 DEF StreamsInv, StreamInv
  <2>4. QED
      BY <2>2, <2>3, CutIsReading
<1>2. QED
    BY <1>1, StreamsHold, PTL

-------------------------------------------------------------------------------
(* In which ways the server can fail.                                        *)

\* What has failed, and why: a connection that the map does not have, although it was
\* accepted, was closed.
KnownInv ==
    /\ fate \in {"ok", "methodTwice", "mapRace", "notFound", "nullLink"}
    /\ fate = "methodTwice" => \E l \in refused : context[l].method_
    /\ fate \in {"notFound", "nullLink"} => state_[at[Base].link] = "Disconnected"
    /\ \A l \in Link : l < connId_ /\ name2connection[l] = "absent" =>
          Accepting("insert", l) \/ state_[l] = "Disconnected"

\* What holds of a server without threads: the base loop does one thing after the other, so
\* that a connection gets its context before it is read, and closes after it has got it.
AloneLink(l) ==
    /\ loop[l] = Base
    /\ ~Leaked(l)
    /\ l \in polled => context[l] # NoContext \/ Busy(l)
    /\ Busy(l) => /\ state_[l] = "Connected"
                  /\ at[Base].step # "insert" => name2connection[l] = "link"

Alone ==
    /\ fate \in {"ok", "methodTwice"}
    /\ early = {} /\ handed = {}
    /\ \A t \in Loop \ {Base} : at[t].step = "poll"
    /\ \A l \in Link : AloneLink(l)

AloneInv == loops_ = <<>> => Alone

\* Nothing has failed.
LEMMA FailuresInit == Init => KnownInv /\ AloneInv
<1> SUFFICES ASSUME Init PROVE KnownInv /\ AloneInv
    OBVIOUS
<1>1. \A t \in Loop : at[t].step = "poll"
    BY DEF Init, ServerInit
<1>2. \A l \in Link : ~(l < 1)
    BY Constants
<1>3. KnownInv
    BY <1>2 DEF Init, ServerInit, KnownInv
<1>4. AloneInv
    BY <1>1, Constants DEF Init, ServerInit, AloneInv, Alone, AloneLink, Leaked, Busy
<1>5. QED
    BY <1>3, <1>4

\* A step of newConnection() after its first: where it leaves the base loop, what it does to the
\* connection and to the map, and how it may fail.
LEMMA AcceptDoes ==
    ASSUME OwnInv, HttpTypeOK, fate = "ok", NEW l \in Link,
           \/ (Inserted(l) \/ HandOver(l)) /\ UNCHANGED context
           \/ AcceptStep(l) /\ UNCHANGED <<loops_, next_, connId_, loop, state_, handed, polled>>
    PROVE  /\ UNCHANGED <<loops_, connId_, loop, state_>>
           /\ at[Base].link = l /\ at[Base].step \notin {"poll", "erase"}
           /\ at'[Base].step \notin {"insert", "erase"}
           /\ at'[Base].step = "poll" \/ at'[Base].link = l
           /\ \A u \in Loop \ {Base} : at'[u] = at[u]
           /\ \A m \in Link \ {l} : /\ name2connection'[m] = name2connection[m]
                                    /\ context'[m] = context[m]
                                    /\ m \in polled' <=> m \in polled
           /\ name2connection'[l] = "absent" => name2connection[l] = "absent" /\ at[Base].step # "insert"
           /\ at[Base].step = "insert" \/ name2connection[l] = "link" => name2connection'[l] = "link"
           /\ \/ fate' = "ok"
              \/ fate' = "mapRace" /\ \E u \in Loop \ {Base} : at[u].step \in MapStep
              \/ /\ fate' \in {"notFound", "nullLink"} /\ at'[Base].link = l
                 /\ name2connection[l] = "absent" /\ at[Base].step # "insert"
           /\ loop[l] = Base => /\ handed' = handed
                                /\ polled' = polled \/ at'[Base].step = "handed"
           /\ context'[l] \in {context[l], NewContext}
           /\ at'[Base].step = "poll" /\ state_[l] = "Connected" => context'[l] = NewContext
<1>1. /\ Base \in Loop /\ ServerTypeOK /\ l \in Link \cup {0} /\ 0 \in Link \cup {0}
      /\ {"poll", "inserted", "handed", "find", "found", "lookup", "looked", "connected"} \subseteq Step
    BY Constants DEF OwnInv, Step, MapStep
<1>2. ASSUME NEW s \in Step, NEW m \in Link \cup {0}, Goto(Base, s, m)
      PROVE  at'[Base] = [step |-> s, link |-> m] /\ \A u \in Loop \ {Base} : at'[u] = at[u]
    BY <1>1, <1>2, Moved
<1>3. ASSUME NEW s \in {"find", "lookup"}, EnterMap(Base, s, l)
      PROVE  /\ Goto(Base, s, l)
             /\ fate' = "ok" \/ (fate' = "mapRace" /\ \E u \in Loop \ {Base} : at[u].step \in MapStep)
    BY <1>3 DEF EnterMap
<1>4. CASE Inserted(l) /\ UNCHANGED context
  <2>1. Goto(Base, "inserted", l)
      BY <1>4 DEF Inserted
  <2>2. at'[Base] = [step |-> "inserted", link |-> l] /\ \A u \in Loop \ {Base} : at'[u] = at[u]
      BY <1>1, <1>2, <2>1
  <2>3. /\ name2connection'[l] = "link"
        /\ \A m \in Link \ {l} : name2connection'[m] = name2connection[m]
      BY <1>1, <1>4 DEF Inserted, ServerTypeOK
  <2>4. QED
      BY <1>4, <2>2, <2>3 DEF Inserted, Accepting
<1>5. CASE HandOver(l) /\ UNCHANGED context
  <2>1. Goto(Base, "handed", l)
      BY <1>5 DEF HandOver
  <2>2. at'[Base] = [step |-> "handed", link |-> l] /\ \A u \in Loop \ {Base} : at'[u] = at[u]
      BY <1>1, <1>2, <2>1
  <2>3. QED
      BY <1>5, <2>2 DEF HandOver, Accepting
<1>6. CASE AcceptStep(l) /\ UNCHANGED <<loops_, next_, connId_, loop, state_, handed, polled>>
  <2>1. CASE Find(l) /\ UNCHANGED <<name2connection, context>>
    <3>1. Goto(Base, "find", l)
          /\ (fate' = "ok" \/ (fate' = "mapRace" /\ \E u \in Loop \ {Base} : at[u].step \in MapStep))
        BY <1>3, <2>1 DEF Find
    <3>2. at'[Base] = [step |-> "find", link |-> l] /\ \A u \in Loop \ {Base} : at'[u] = at[u]
        BY <1>1, <1>2, <3>1
    <3>3. QED
        BY <1>6, <2>1, <3>1, <3>2 DEF Find, Accepting
  <2>2. CASE Found(l) /\ UNCHANGED <<name2connection, context>>
    <3>1. Goto(Base, "found", l)
        BY <2>2 DEF Found
    <3>2. at'[Base] = [step |-> "found", link |-> l] /\ \A u \in Loop \ {Base} : at'[u] = at[u]
        BY <1>1, <1>2, <3>1
    <3>3. QED
        BY <1>6, <2>2, <3>2 DEF Found, Accepting
  <2>3. CASE Lookup(l) /\ UNCHANGED <<name2connection, context>>
    <3>1. Goto(Base, "lookup", l)
          /\ (fate' = "ok" \/ (fate' = "mapRace" /\ \E u \in Loop \ {Base} : at[u].step \in MapStep))
        BY <1>3, <2>3 DEF Lookup
    <3>2. at'[Base] = [step |-> "lookup", link |-> l] /\ \A u \in Loop \ {Base} : at'[u] = at[u]
        BY <1>1, <1>2, <3>1
    <3>3. QED
        BY <1>6, <2>3, <3>1, <3>2 DEF Lookup, Accepting
  <2>4. CASE LookedUp(l) /\ UNCHANGED context
    <3>1. Goto(Base, "looked", l)
        BY <2>4 DEF LookedUp
    <3>2. at'[Base] = [step |-> "looked", link |-> l] /\ \A u \in Loop \ {Base} : at'[u] = at[u]
        BY <1>1, <1>2, <3>1
    <3>3. /\ name2connection'[l] # "absent"
          /\ name2connection[l] = "link" => name2connection'[l] = "link"
          /\ \A m \in Link \ {l} : name2connection'[m] = name2connection[m]
          /\ fate' = "ok" \/ (fate' = "nullLink" /\ name2connection[l] = "absent")
        BY <1>1, <2>4 DEF LookedUp, ServerTypeOK
    <3>4. QED
        BY <1>6, <2>4, <3>2, <3>3 DEF LookedUp, Accepting
  <2>5. CASE TestConnected(l) /\ UNCHANGED <<name2connection, fate, context>>
    <3>1. \/ Goto(Base, "connected", l)
          \/ Goto(Base, "poll", 0) /\ state_[l] # "Connected"
        BY <2>5 DEF TestConnected, Return
    <3>2. /\ at'[Base] \in {[step |-> "connected", link |-> l], [step |-> "poll", link |-> 0]}
          /\ at'[Base].step = "poll" => state_[l] # "Connected"
          /\ \A u \in Loop \ {Base} : at'[u] = at[u]
      <4>1. CASE Goto(Base, "connected", l)
        <5>1. at'[Base] = [step |-> "connected", link |-> l] /\ \A u \in Loop \ {Base} : at'[u] = at[u]
            BY <1>1, <1>2, <4>1
        <5>2. QED
            BY <5>1
      <4>2. CASE Goto(Base, "poll", 0) /\ state_[l] # "Connected"
          BY <1>1, <1>2, <4>2
      <4>3. QED
          BY <3>1, <4>1, <4>2
    <3>3. at[Base] = [step |-> "looked", link |-> l]
        BY <2>5 DEF TestConnected, Accepting
    <3>4. at'[Base].step \in {"connected", "poll"} /\ (at'[Base].step = "poll" \/ at'[Base].link = l)
        BY <3>2
    <3>5. UNCHANGED <<loops_, connId_, loop, state_, handed, polled, name2connection, fate, context>>
        BY <1>6, <2>5
    <3>6. QED
        BY <3>2, <3>3, <3>4, <3>5
  <2>6. CASE SetContext(l) /\ UNCHANGED <<name2connection, fate>>
    <3>1. Goto(Base, "poll", 0)
        BY <2>6 DEF SetContext, Return
    <3>2. at'[Base] = [step |-> "poll", link |-> 0] /\ \A u \in Loop \ {Base} : at'[u] = at[u]
        BY <1>1, <1>2, <3>1
    <3>3. context'[l] = NewContext /\ \A m \in Link \ {l} : context'[m] = context[m]
        BY <2>6 DEF SetContext, HttpTypeOK
    <3>4. QED
        BY <1>6, <2>6, <3>2, <3>3 DEF SetContext, Accepting
  <2>7. QED
      BY <1>6, <2>1, <2>2, <2>3, <2>4, <2>5, <2>6 DEF AcceptStep
<1>7. QED
    BY <1>4, <1>5, <1>6

\* A step of newConnection() after its first: without threads, the map has the connection, and
\* it has its context before it is read.
LEMMA AcceptFails ==
    ASSUME OwnInv, HttpTypeOK, KnownInv, AloneInv, fate = "ok", NEW l \in Link,
           \/ (Inserted(l) \/ HandOver(l)) /\ UNCHANGED context
           \/ AcceptStep(l) /\ UNCHANGED <<loops_, next_, connId_, loop, state_, handed, polled>>,
           UNCHANGED <<refused, early>>
    PROVE  KnownInv' /\ AloneInv'
<1>1. l \in Nat /\ connId_ \in Nat /\ l < connId_
  <2>1. l \in 1 .. connId_ - 1
      BY AcceptDoes DEF OwnInv, PlaceInv
  <2>2. QED
      BY <2>1 DEF OwnInv, ServerTypeOK
<1>2. at[Base].step # "insert" /\ name2connection[l] = "absent" => state_[l] = "Disconnected"
  <2>1. ~(at[Base].step = "insert") => ~Accepting("insert", l)
      BY DEF Accepting
  <2>2. QED
      BY <1>1, <2>1 DEF KnownInv
<1>3. KnownInv'
  <2>1. ASSUME NEW m \in Link, m < connId_', name2connection'[m] = "absent"
        PROVE  state_'[m] = "Disconnected"
    <3>1. CASE m = l
        BY <1>2, <2>1, <3>1, AcceptDoes
    <3>2. CASE m # l
      <4>1. ~Accepting("insert", m)
        <5>1. at[Base].link # m
            BY <3>2, AcceptDoes
        <5>2. QED
            BY <5>1 DEF Accepting
      <4>2. m < connId_ /\ name2connection[m] = "absent" /\ state_' = state_
          BY <2>1, <3>2, AcceptDoes
      <4>3. QED
          BY <4>1, <4>2 DEF KnownInv
    <3>3. QED
        BY <3>1, <3>2
  <2>2. /\ fate' \in {"ok", "mapRace", "notFound", "nullLink"}
        /\ fate' \in {"notFound", "nullLink"} => state_'[at'[Base].link] = "Disconnected"
      BY <1>2, AcceptDoes
  <2>3. QED
      BY <2>1, <2>2 DEF KnownInv
<1>4. ASSUME loops_' = <<>> PROVE Alone'
  <2>1. Alone
      BY <1>4, AcceptDoes DEF AloneInv
  <2>2. /\ Busy(l) /\ AloneLink(l) /\ state_[l] = "Connected" /\ loop[l] = Base
        /\ at[Base].step # "insert" => name2connection[l] = "link"
      BY <2>1, AcceptDoes DEF Alone, AloneLink, Busy
  <2>3. name2connection'[l] = "link"
      BY <2>2, AcceptDoes
  <2>4. fate' = "ok"
    <3>1. ~\E u \in Loop \ {Base} : at[u].step \in MapStep
        BY <2>1 DEF Alone, MapStep
    <3>2. ~(name2connection[l] = "absent" /\ at[Base].step # "insert")
        BY <2>2
    <3>3. QED
        BY <3>1, <3>2, AcceptDoes
  <2>5. early' = {} /\ handed' = {} /\ \A t \in Loop \ {Base} : at'[t].step = "poll"
      BY <2>1, <2>2, AcceptDoes DEF Alone
  <2>6. ASSUME NEW m \in Link PROVE AloneLink(m)'
    <3>1. AloneLink(m)
        BY <2>1 DEF Alone
    <3>2. CASE m = l
      <4>1. loop'[l] = Base /\ state_'[l] = "Connected"
          BY <2>2, AcceptDoes
      <4>2. l \in polled' => context'[l] # NoContext \/ Busy(l)'
        <5>1. CASE at'[Base].step = "poll"
          <6>1. context'[l] = NewContext
              BY <2>2, <5>1, AcceptDoes
          <6>2. QED
              BY <6>1, Contexts
        <5>2. CASE at'[Base].step # "poll"
            BY <5>2, AcceptDoes DEF Busy
        <5>3. QED
            BY <5>1, <5>2
      <4>3. QED
          BY <2>3, <3>2, <4>1, <4>2 DEF AloneLink, Leaked
    <3>3. CASE m # l
      <4>1. ~Busy(m) /\ ~Busy(m)'
          BY <3>3, AcceptDoes DEF Busy
      <4>2. context'[m] = context[m] /\ (m \in polled' <=> m \in polled)
            /\ state_' = state_ /\ loop' = loop
          BY <3>3, AcceptDoes
      <4>3. QED
          BY <3>1, <4>1, <4>2 DEF AloneLink, Leaked
    <3>4. QED
        BY <3>2, <3>3
  <2>7. QED
      BY <2>4, <2>5, <2>6 DEF Alone
<1>5. QED
    BY <1>3, <1>4 DEF AloneInv

\* A new connection: nothing is queued, and no other thread uses the map, in a server without
\* threads.
LEMMA NewConnectionFails ==
    ASSUME OwnInv, FreshInv, KnownInv, AloneInv, fate = "ok", NewConnection,
           UNCHANGED <<context, refused, early>>
    PROVE  KnownInv' /\ AloneInv'
<1> DEFINE c == connId_
<1>1. /\ c \in Link /\ connId_' = c + 1 /\ at[Base].step = "poll"
      /\ at'[Base] = [step |-> "insert", link |-> c]
      /\ \A u \in Loop \ {Base} : at'[u] = at[u]
      /\ state_'[c] = "Connected" /\ \A m \in Link \ {c} : state_'[m] = state_[m]
    BY NewConnectionMoves
<1>2. /\ UNCHANGED <<loops_, handed, polled, name2connection>>
      /\ fate' = "ok" \/ (fate' = "mapRace" /\ \E u \in Loop \ {Base} : at[u].step \in MapStep)
      /\ GetNextLoop(c)
    BY DEF NewConnection, EnterMap
<1>3. ASSUME NEW m \in Link \ {c}, m < connId_' PROVE m < connId_
  <2>1. m \in Nat /\ c \in Nat /\ m # c
      BY <1>1, Constants
  <2>2. QED
      BY <1>1, <1>3, <2>1
<1> HIDE DEF c
<1>4. KnownInv'
  <2>1. ASSUME NEW m \in Link, m < connId_', name2connection'[m] = "absent"
        PROVE  Accepting("insert", m)' \/ state_'[m] = "Disconnected"
    <3>1. CASE m = c
        BY <1>1, <3>1 DEF Accepting
    <3>2. CASE m # c
      <4>1. ~Accepting("insert", m)
          BY <1>1 DEF Accepting
      <4>2. m < connId_ /\ name2connection[m] = "absent"
          BY <1>2, <1>3, <2>1, <3>2
      <4>3. QED
          BY <1>1, <3>2, <4>1, <4>2 DEF KnownInv
    <3>3. QED
        BY <3>1, <3>2
  <2>2. fate' \in {"ok", "mapRace"}
      BY <1>2
  <2>3. QED
      BY <2>1, <2>2 DEF KnownInv
<1>5. ASSUME loops_' = <<>> PROVE Alone'
  <2>1. Alone /\ loops_ = <<>>
      BY <1>2, <1>5 DEF AloneInv
  <2>2. fate' = "ok"
      BY <1>2, <2>1 DEF Alone, MapStep
  <2>3. /\ early' = {} /\ handed' = {}
        /\ \A t \in Loop \ {Base} : at'[t].step = "poll"
      BY <1>1, <1>2, <2>1 DEF Alone
  <2>4. ASSUME NEW m \in Link PROVE AloneLink(m)'
    <3>1. AloneLink(m) /\ ~Busy(m)
        BY <1>1, <2>1 DEF Alone, Busy
    <3>2. loop' = [loop EXCEPT ![c] = Base]
        BY <1>2, <2>1 DEF GetNextLoop
    <3>3. loop'[m] = Base
        BY <3>1, <3>2 DEF AloneLink, OwnInv, ServerTypeOK
    <3>4. CASE m = c
      <4>1. m \notin polled
        <5>1. LinkInv(c) /\ c \in Nat
            BY <1>1, Constants DEF OwnInv
        <5>2. QED
            BY <3>4, <5>1 DEF LinkInv, c
      <4>2. QED
          BY <1>1, <1>2, <3>3, <3>4, <4>1 DEF AloneLink, Leaked
    <3>5. CASE m # c
      <4>1. ~Busy(m)'
          BY <1>1, <3>5 DEF Busy
      <4>2. QED
          BY <1>1, <1>2, <3>1, <3>3, <3>5, <4>1 DEF AloneLink, Leaked
    <3>6. QED
        BY <3>4, <3>5
  <2>5. QED
      BY <2>2, <2>3, <2>4 DEF Alone
<1>6. QED
    BY <1>4, <1>5 DEF AloneInv

\* A connection closes: the loop that has it was idle, and it loses its context.
LEMMA EndOfStreamFails ==
    ASSUME OwnInv, HttpTypeOK, KnownInv, AloneInv, fate = "ok", NEW l \in Link, EndOfStream(l)
    PROVE  KnownInv' /\ AloneInv'
<1>1. /\ loop[l] \in Loop /\ at[loop[l]].step = "poll"
      /\ at'[loop[l]] = [step |-> "erase", link |-> l]
      /\ \A u \in Loop \ {loop[l]} : at'[u] = at[u]
      /\ state_'[l] = "Disconnected" /\ \A m \in Link \ {l} : state_'[m] = state_[m]
    BY DisconnectMoves DEF EndOfStream, Idle
<1>2. /\ UNCHANGED <<loops_, connId_, loop, handed, name2connection, refused, early>>
      /\ polled' = polled \ {l} /\ context' = [context EXCEPT ![l] = NoContext]
      /\ \/ fate' = "ok"
         \/ fate' = "mapRace" /\ \E u \in Loop \ {loop[l]} : at[u].step \in MapStep
    BY DEF EndOfStream, Disconnect, EnterMap
<1>3. at'[Base] = at[Base] \/ (at[Base].step = "poll" /\ at'[Base].step = "erase")
  <2>1. CASE loop[l] = Base
      BY <1>1, <2>1
  <2>2. CASE loop[l] # Base
      BY <1>1, <2>2, Constants
  <2>3. QED
      BY <2>1, <2>2
<1>4. context'[l] = NoContext /\ \A m \in Link \ {l} : context'[m] = context[m]
    BY <1>2 DEF HttpTypeOK
<1>5. KnownInv'
  <2>1. ASSUME NEW m \in Link, m < connId_', name2connection'[m] = "absent"
        PROVE  Accepting("insert", m)' \/ state_'[m] = "Disconnected"
    <3>1. Accepting("insert", m) \/ state_[m] = "Disconnected"
        BY <1>2, <2>1 DEF KnownInv
    <3>2. Accepting("insert", m) => Accepting("insert", m)'
        BY <1>3 DEF Accepting
    <3>3. QED
        BY <1>1, <3>1, <3>2
  <2>2. fate' \in {"ok", "mapRace"}
      BY <1>2
  <2>3. QED
      BY <2>1, <2>2 DEF KnownInv
<1>6. ASSUME loops_' = <<>> PROVE Alone'
  <2>1. Alone
      BY <1>2, <1>6 DEF AloneInv
  <2>2. loop[l] = Base
      BY <2>1 DEF Alone, AloneLink
  <2>3. /\ fate' = "ok" /\ early' = {} /\ handed' = {}
        /\ \A t \in Loop \ {Base} : at'[t].step = "poll"
      BY <1>1, <1>2, <2>1, <2>2 DEF Alone, MapStep
  <2>4. ASSUME NEW m \in Link PROVE AloneLink(m)'
    <3>1. AloneLink(m) /\ ~Busy(m) /\ ~Busy(m)'
        BY <1>1, <2>1, <2>2 DEF Alone, Busy
    <3>2. QED
        BY <1>1, <1>2, <1>4, <3>1 DEF AloneLink, Leaked
  <2>5. QED
      BY <2>3, <2>4 DEF Alone
<1>7. QED
    BY <1>5, <1>6 DEF AloneInv

\* delConnection() returns: the connection that has left the map was closed.
LEMMA ErasedFails ==
    ASSUME OwnInv, HttpTypeOK, KnownInv, AloneInv, fate = "ok", NEW l \in Link, Erased(l),
           UNCHANGED <<context, refused, early>>
    PROVE  KnownInv' /\ AloneInv'
<1>1. /\ loop[l] \in Loop /\ at[loop[l]] = [step |-> "erase", link |-> l]
      /\ at'[loop[l]] = [step |-> "poll", link |-> 0]
      /\ \A u \in Loop \ {loop[l]} : at'[u] = at[u]
      /\ state_[l] = "Disconnected"
    BY ErasedMoves
<1>2. /\ UNCHANGED <<loops_, connId_, loop, state_, handed, polled, fate>>
      /\ \A m \in Link \ {l} : name2connection'[m] = name2connection[m]
    BY DEF Erased, OwnInv, ServerTypeOK
<1>3. at'[Base] = at[Base] \/ (at[Base].step = "erase" /\ at'[Base].step = "poll")
  <2>1. CASE loop[l] = Base
      BY <1>1, <2>1
  <2>2. CASE loop[l] # Base
      BY <1>1, <2>2, Constants
  <2>3. QED
      BY <2>1, <2>2
<1>4. KnownInv'
  <2>1. ASSUME NEW m \in Link, m < connId_', name2connection'[m] = "absent"
        PROVE  Accepting("insert", m)' \/ state_'[m] = "Disconnected"
    <3>1. CASE m = l
        BY <1>1, <1>2, <3>1
    <3>2. CASE m # l
      <4>1. Accepting("insert", m) \/ state_[m] = "Disconnected"
          BY <1>2, <2>1, <3>2 DEF KnownInv
      <4>2. Accepting("insert", m) => Accepting("insert", m)'
          BY <1>3 DEF Accepting
      <4>3. QED
          BY <1>2, <4>1, <4>2
    <3>3. QED
        BY <3>1, <3>2
  <2>2. QED
      BY <1>2, <2>1 DEF KnownInv
<1>5. ASSUME loops_' = <<>> PROVE Alone'
  <2>1. Alone
      BY <1>2, <1>5 DEF AloneInv
  <2>2. loop[l] = Base
      BY <2>1 DEF Alone, AloneLink
  <2>3. \A t \in Loop \ {Base} : at'[t].step = "poll"
      BY <1>1, <2>1, <2>2 DEF Alone
  <2>4. ASSUME NEW m \in Link PROVE AloneLink(m)'
    <3>1. AloneLink(m) /\ ~Busy(m) /\ ~Busy(m)'
        BY <1>1, <2>1, <2>2 DEF Alone, Busy
    <3>2. QED
        BY <1>2, <3>1 DEF AloneLink, Leaked
  <2>5. QED
      BY <1>2, <2>1, <2>3, <2>4 DEF Alone
<1>6. QED
    BY <1>4, <1>5 DEF AloneInv

\* A step that leaves the places of the threads and the map alone: prepare(), what a read makes of
\* the context and the state of a connection, and the clients.
LEMMA SamePlaceFails ==
    ASSUME KnownInv, AloneInv, fate = "ok", fate' = "ok",
           UNCHANGED <<loops_, connId_, loop, name2connection, at>>,
           loops_ = <<>> => UNCHANGED <<early, handed, polled>>,
           \A m \in Link : /\ state_[m] = "Disconnected" <=> state_'[m] = "Disconnected"
                           /\ \/ state_'[m] = state_[m] /\ context'[m] = context[m]
                              \/ /\ loops_ = <<>> => ~Busy(m)
                                 /\ state_[m] # "Disconnected" /\ context'[m] # NoContext
    PROVE  KnownInv' /\ AloneInv'
<1>1. KnownInv'
    BY DEF KnownInv, Accepting
<1>2. ASSUME loops_' = <<>> PROVE Alone'
  <2>1. Alone /\ loops_ = <<>>
      BY <1>2 DEF AloneInv
  <2>2. ASSUME NEW m \in Link PROVE AloneLink(m)'
    <3>1. AloneLink(m) /\ (Busy(m)' <=> Busy(m))
        BY <2>1 DEF Alone, Busy
    <3>2. QED
        BY <2>1, <3>1 DEF AloneLink, Leaked
  <2>3. QED
      BY <2>1, <2>2 DEF Alone
<1>3. QED
    BY <1>1, <1>2 DEF AloneInv

\* rcvMessage(): the parser ends, and aborts only on a context that a refused request has left.
LEMMA ReceiveFails ==
    ASSUME OwnInv, HttpTypeOK, StreamsInv, KnownInv, AloneInv, fate = "ok", NEW l \in Link,
           NEW n \in 1 .. Len(wire[l]), Receive(l, n)
    PROVE  KnownInv' /\ AloneInv'
<1> DEFINE in == inputBuffer[l] \o SubSeq(wire[l], 1, n)
<1>1. in \in Seq(Symbol) /\ l \in polled /\ at[loop[l]].step = "poll"
    BY Parts DEF Receive, Idle
<1>2. state_[l] # "Disconnected"
    BY <1>1 DEF OwnInv, LinkInv
<1>3. loops_ = <<>> => /\ \A m \in Link : ~Busy(m)
                       /\ context[l] # NoContext
    BY <1>1 DEF AloneInv, Alone, AloneLink, Busy
<1>4. CASE context[l] = NoContext
  <2>1. Ignore(l, in)
      BY <1>4 DEF Receive
  <2> HIDE DEF in
  <2>2. UNCHANGED <<server, context, refused>> /\ loops_ # <<>>
      BY <1>3, <1>4, <2>1 DEF Ignore
  <2>3. QED
      BY <2>2, SamePlaceFails DEF server
<1>5. CASE context[l] # NoContext
  <2> DEFINE p == ParseRequest(context[l], in)
  <2>1. PICK close \in BOOLEAN : ParserFails(p) \/ Respond(l, p, close)
      BY <1>5 DEF Receive
  <2> HIDE DEF in
  <2>2. /\ p \in Progress /\ ~p.hasMore
        /\ p.aborted => context[l].state_ = "ExpectRequestLine" /\ context[l].method_
      BY <1>1, <1>5, ParserRuns
  <2> HIDE DEF p
  <2>3. CASE ParserFails(p)
    <3>1. /\ p.aborted /\ fate' = "methodTwice"
          /\ UNCHANGED <<loops_, next_, connId_, loop, state_, handed, polled, name2connection, at>>
          /\ UNCHANGED <<context, refused, early>>
        BY <2>2, <2>3 DEF ParserFails, http
    <3>2. l \in refused /\ context[l].method_
        BY <2>2, <3>1 DEF StreamsInv, StreamInv
    <3>3. KnownInv'
        BY <3>1, <3>2 DEF KnownInv, Accepting
    <3>4. Alone => Alone'
        BY <3>1 DEF Alone, AloneLink, Leaked, Busy
    <3>5. QED
        BY <3>1, <3>3, <3>4 DEF AloneInv
  <2>4. CASE Respond(l, p, close)
    <3>1. /\ UNCHANGED <<early, loops_, connId_, loop, handed, polled, name2connection, at, fate>>
          /\ state_' = state_ \/ state_' = [state_ EXCEPT ![l] = "Disconnecting"]
        BY <2>4 DEF Respond, OwnInv, ServerTypeOK
    <3>2. \A m \in Link \ {l} : state_'[m] = state_[m]
        BY <3>1 DEF OwnInv, ServerTypeOK
    <3>3. state_'[l] # "Disconnected"
        BY <1>2, <3>1 DEF OwnInv, ServerTypeOK
    <3>4. /\ context'[l] # NoContext
          /\ \A m \in Link \ {l} : context'[m] = context[m]
        BY <2>2, <2>4, RespondType, Contexts
    <3>5. ASSUME NEW m \in Link
          PROVE  /\ state_[m] = "Disconnected" <=> state_'[m] = "Disconnected"
                 /\ \/ state_'[m] = state_[m] /\ context'[m] = context[m]
                    \/ /\ loops_ = <<>> => ~Busy(m)
                       /\ state_[m] # "Disconnected" /\ context'[m] # NoContext
        BY <1>2, <1>3, <3>2, <3>3, <3>4
    <3>6. QED
        BY <3>1, <3>5, SamePlaceFails
  <2>5. QED
      BY <2>1, <2>3, <2>4
<1>6. QED
    BY <1>4, <1>5

\* Every step keeps what is known of the failures.
LEMMA FailuresNext ==
    OwnInv /\ HttpTypeOK /\ FreshInv /\ StreamsInv /\ KnownInv /\ AloneInv /\ [Next]_vars
        => KnownInv' /\ AloneInv'
<1> SUFFICES ASSUME OwnInv, HttpTypeOK, FreshInv, StreamsInv, KnownInv, AloneInv, [Next]_vars
             PROVE  KnownInv' /\ AloneInv'
    OBVIOUS
<1>1. CASE fate = "ok" /\ BaseStep
  <2>1. UNCHANGED <<refused, early>>
      BY <1>1 DEF BaseStep
  <2>2. CASE NewConnection /\ UNCHANGED context
      BY <1>1, <2>1, <2>2, NewConnectionFails
  <2>3. ASSUME NEW l \in Link,
               \/ (Inserted(l) \/ HandOver(l)) /\ UNCHANGED context
               \/ AcceptStep(l) /\ UNCHANGED <<loops_, next_, connId_, loop, state_, handed, polled>>
        PROVE  KnownInv' /\ AloneInv'
      BY <1>1, <2>1, <2>3, AcceptFails
  <2>4. QED
      BY <1>1, <2>2, <2>3 DEF BaseStep
<1>2. ASSUME NEW l \in Link, fate = "ok", LoopStep(l) PROVE KnownInv' /\ AloneInv'
  <2>1. CASE Prepare(l) /\ UNCHANGED <<peer, http>>
    <3>1. /\ l \in handed
          /\ UNCHANGED <<loops_, connId_, loop, state_, name2connection, at, fate, context, early>>
        BY <2>1 DEF Prepare, http
    <3>2. loops_ # <<>>
        BY <3>1 DEF AloneInv, Alone
    <3>3. QED
        BY <1>2, <3>1, <3>2, SamePlaceFails
  <2>2. CASE Erased(l) /\ UNCHANGED <<peer, http>>
      BY <1>2, <2>2, ErasedFails DEF http
  <2>3. CASE ReceiveSome(l)
      BY <1>2, <2>3, ReceiveFails DEF ReceiveSome
  <2>4. CASE EndOfStream(l)
      BY <1>2, <2>4, EndOfStreamFails
  <2>5. QED
      BY <1>2, <2>1, <2>2, <2>3, <2>4 DEF LoopStep
<1>3. CASE UNCHANGED <<server, http>>
    BY <1>3 DEF server, http, KnownInv, Accepting, AloneInv, Alone, AloneLink, Leaked, Busy
<1>4. QED
    BY <1>1, <1>2, <1>3 DEF Next, Close, Write, vars

\* What has failed is known, and in a server without threads one thing follows the other.
LEMMA FailuresHold == Safety => [](KnownInv /\ AloneInv)
<1>1. Init => FreshInv /\ KnownInv /\ AloneInv
    BY FreshInit, FailuresInit
<1>2. QED
    BY <1>1, StreamsHold, FreshNext, FailuresNext, PTL DEF Safety

\* An HTTP server fails only in the known ways, for any threads, connections and clients: the
\* assertion in setMethod() on a request that was refused, two threads in the map, a connection
\* that closed before newConnection() found it; and, where the pool has no threads, only the
\* first (HttpRequest.h:37, TcpServer.cpp:57 and :64, HttpServer.cpp:101 and :102).
THEOREM HttpFailuresAreKnownHolds == Safety => []HttpFailuresAreKnown
<1>1. KnownInv /\ AloneInv => HttpFailuresAreKnown
    BY DEF KnownInv, AloneInv, Alone, AloneLink, HttpFailuresAreKnown
<1>2. QED
    BY <1>1, FailuresHold, PTL
===============================================================================
