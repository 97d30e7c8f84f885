-------------------------- MODULE LinkedSocketProofs --------------------------
(***************************************************************************)
(* Theorems about LinkedSocket, for any threads and messages: type         *)
(* correctness, the interest in writability, the safety of a kept link,    *)
(* that a connection implements ByteStream, and the order of what a thread *)
(* sends.                                                                  *)
(***************************************************************************)
EXTENDS LinkedSocket, SequenceLemmas, TLAPS

(* Type correctness. *)

\* The two parts of a message that a write leaves and takes.
LEMMA MessageParts ==
    ASSUME NEW m \in Msg, NEW n \in 0 .. 2
    PROVE  /\ Bytes(m) \in Seq(Byte) /\ Len(Bytes(m)) = 2
           /\ SubSeq(Bytes(m), 1, n) \in Seq(Byte)
           /\ SubSeq(Bytes(m), n + 1, 2) \in Seq(Byte)
           /\ SubSeq(Bytes(m), n + 1, 2) = <<>> <=> n = 2
<1>1. Bytes(m) \in Seq(Byte) /\ Len(Bytes(m)) = 2
    BY DEF Bytes, Byte
<1>2. n \in Nat /\ n + 1 \in Nat /\ 1 <= n + 1 /\ n <= 2 /\ (2 < n + 1 <=> n = 2)
    OBVIOUS
<1>3. SubSeq(Bytes(m), 1, n) \in Seq(Byte)
  <2>1. 1 \in Nat /\ 1 <= 1 /\ n <= Len(Bytes(m))
      BY <1>1, <1>2
  <2>2. QED
      BY <1>1, <1>2, <2>1, PieceType
<1>4. /\ SubSeq(Bytes(m), n + 1, 2) \in Seq(Byte)
      /\ SubSeq(Bytes(m), n + 1, 2) = <<>> <=> 2 < n + 1
    BY <1>1, <1>2, PieceType
<1>5. QED
    BY <1>1, <1>2, <1>3, <1>4

\* What sendInLoop() leaves behind is well typed.
LEMMA TypeSendInLoop ==
    ASSUME TypeOK, NEW m \in Msg, SendInLoop(m)
    PROVE  /\ events_' \subseteq {"read", "write"}
           /\ output' \in Seq(Byte) /\ wire' \in Seq(Byte)
           /\ carry' \in Seq(Seq(Byte))
           /\ pc' \in {"idle", "read", "message", "write", "complete", "callback", "highWater"}
           /\ fate' \in {"ok", "undefined", "notAdded", "closedTwice"}
<1> USE DEF TypeOK
<1>1. CASE UNCHANGED <<pc, wire, events_, output, carry, fate>>
    BY <1>1
<1>2. ASSUME NEW n \in 0 .. 2,
             wire' = wire \o SubSeq(Bytes(m), 1, n),
             \/ /\ pc' = IF pc = "idle" THEN "callback" ELSE pc
                /\ UNCHANGED <<events_, output, carry, fate>>
             \/ AppendOutput(SubSeq(Bytes(m), n + 1, 2)) /\ UNCHANGED <<pc, carry>>
             \/ /\ pc' = IF pc = "idle" THEN "highWater" ELSE pc
                /\ carry' = Append(carry, SubSeq(Bytes(m), n + 1, 2))
                /\ UNCHANGED <<events_, output, fate>>
      PROVE  /\ events_' \subseteq {"read", "write"}
             /\ output' \in Seq(Byte) /\ wire' \in Seq(Byte)
             /\ carry' \in Seq(Seq(Byte))
             /\ pc' \in {"idle", "read", "message", "write", "complete", "callback", "highWater"}
             /\ fate' \in {"ok", "undefined", "notAdded", "closedTwice"}
  <2>1. SubSeq(Bytes(m), 1, n) \in Seq(Byte) /\ SubSeq(Bytes(m), n + 1, 2) \in Seq(Byte)
      BY MessageParts
  <2>2. wire' \in Seq(Byte)
      BY <1>2, <2>1, ConcatProperties
  <2>3. output \o SubSeq(Bytes(m), n + 1, 2) \in Seq(Byte)
      BY <2>1, ConcatProperties
  <2>4. Append(carry, SubSeq(Bytes(m), n + 1, 2)) \in Seq(Seq(Byte))
      BY <2>1, SeqTypes
  <2>5. QED
      BY <1>2, <2>2, <2>3, <2>4 DEF AppendOutput, EnableWriting
<1>3. (IF ~Writing /\ output = <<>> THEN 0 .. 2 ELSE {0}) \subseteq 0 .. 2
    OBVIOUS
<1>4. QED
    BY <1>1, <1>2, <1>3 DEF SendInLoop

LEMMA TypeInit == Init => TypeOK
<1> SUFFICES ASSUME Init PROVE TypeOK
    OBVIOUS
<1> USE DEF Init
<1>1. \A S : <<>> \in Seq(S)
    BY SeqTypes
<1>2. [op |-> "prepare", msg |-> NoMsg] \in Functor
    BY DEF Functor
<1>3. queue \in Seq(Functor)
    BY <1>2, SeqTypes
<1>4. call \in [Caller -> Call]
    BY DEF Call
<1>5. /\ output \in Seq(Byte) /\ wire \in Seq(Byte) /\ carry \in Seq(Seq(Byte))
      /\ sent \in Seq([by : Thread, msg : Msg])
    BY <1>1
<1>6. QED
    BY <1>3, <1>4, <1>5 DEF TypeOK

LEMMA TypeEvent ==
    ASSUME TypeOK, \/ \E ready \in SUBSET {"in", "out"} : PollEvent(ready)
                   \/ HandleEvent
    PROVE  TypeOK'
<1> USE DEF TypeOK, link, stream, users
<1>1. ASSUME NEW ready \in SUBSET {"in", "out"}, PollEvent(ready) PROVE TypeOK'
    BY <1>1 DEF PollEvent
<1>2. CASE Dispatch
    BY <1>2 DEF Dispatch
<1>3. CASE NothingRead
    BY <1>3 DEF NothingRead
<1>4. CASE ReadData
    BY <1>4 DEF ReadData
<1>5. CASE ReadEnd
    BY <1>5 DEF ReadEnd
<1>6. CASE ReadDestroyed
    BY <1>6 DEF ReadDestroyed
<1>7. CASE NothingWritten
    BY <1>7 DEF NothingWritten
<1>8. ASSUME NEW n \in 1 .. Len(output), HandleWrite(n) PROVE TypeOK'
  <2>1. Len(output) \in Nat /\ n \in Nat /\ n + 1 \in Nat /\ 1 <= n + 1 /\ n <= Len(output)
      OBVIOUS
  <2>2. SubSeq(output, 1, n) \in Seq(Byte) /\ SubSeq(output, n + 1, Len(output)) \in Seq(Byte)
    <3>1. 1 \in Nat /\ 1 <= 1 /\ Len(output) <= Len(output) /\ output \in Seq(Byte)
        BY <2>1
    <3>2. QED
        BY <2>1, <3>1, PieceType
  <2>3. wire \o SubSeq(output, 1, n) \in Seq(Byte)
      BY <2>2, ConcatProperties
  <2>4. QED
      BY <1>8, <2>2, <2>3 DEF HandleWrite
<1>9. QED
    BY <1>1, <1>2, <1>3, <1>4, <1>5, <1>6, <1>7, <1>8 DEF HandleEvent

LEMMA TypeFunctor ==
    ASSUME TypeOK, RunFunctor
    PROVE  TypeOK'
<1> USE DEF TypeOK, link, stream, users
<1>1. Head(queue) \in Functor /\ queue' \in Seq(Functor)
  <2>1. queue # <<>> /\ queue' = Tail(queue)
      BY DEF RunFunctor, RunPrepare, RunSend, RunShutdown, RunForceClose, RunDangling,
             NextFunctor
  <2>2. QED
      BY <2>1, HeadTailTypes
<1>2. CASE RunPrepare
    BY <1>1, <1>2 DEF RunPrepare
<1>3. CASE RunSend
  <2>1. Head(queue).msg \in Msg
      BY <1>1, <1>3 DEF RunSend, NextFunctor, Functor
  <2>2. QED
      BY <1>1, <1>3, <2>1, TypeSendInLoop DEF RunSend
<1>4. CASE RunShutdown
    BY <1>1, <1>4 DEF RunShutdown, ShutdownInLoop
<1>5. CASE RunForceClose
    BY <1>1, <1>5 DEF RunForceClose
<1>6. CASE RunDangling
    BY <1>1, <1>6 DEF RunDangling
<1>7. QED
    BY <1>2, <1>3, <1>4, <1>5, <1>6 DEF RunFunctor

LEMMA TypeUser ==
    ASSUME TypeOK, UserReturn \/ UserCode
    PROVE  TypeOK'
<1> USE DEF TypeOK, link, stream, users, loop
<1>1. CASE MessageReturn
    BY <1>1 DEF MessageReturn
<1>2. CASE CompleteReturn
    BY <1>2 DEF CompleteReturn, ShutdownInLoop
<1>3. CASE CallbackReturn
    BY <1>3 DEF CallbackReturn
<1>4. CASE HighWaterReturn
  <2>1. carry # <<>> /\ Len(carry) \in 1 .. Len(carry)
      BY <1>4 DEF HighWaterReturn
  <2>2. carry[Len(carry)] \in Seq(Byte) /\ carry' \in Seq(Seq(Byte))
      BY <1>4, <2>1, FrontType DEF HighWaterReturn
  <2>3. output \o carry[Len(carry)] \in Seq(Byte)
      BY <2>2, ConcatProperties
  <2>4. QED
      BY <1>4, <2>2, <2>3 DEF HighWaterReturn, AppendOutput, EnableWriting
<1>5. CASE OtherCode
    BY <1>5 DEF OtherCode
<1>6. ASSUME NEW m \in Msg, LoopSend(m) PROVE TypeOK'
  <2>1. sent' \in Seq([by : Thread, msg : Msg])
    <3>1. [by |-> LoopThread, msg |-> m] \in [by : Thread, msg : Msg]
        BY DEF Thread
    <3>2. QED
        BY <1>6, <3>1, SeqTypes DEF LoopSend, Sends
  <2>2. QED
      BY <1>6, <2>1, TypeSendInLoop DEF LoopSend
<1>7. CASE LoopShutdown
    BY <1>7 DEF LoopShutdown, ShutdownInLoop
<1>8. CASE LoopForceClose
  <2>1. [op |-> "forceClose", msg |-> NoMsg] \in Functor
      BY DEF Functor
  <2>2. QED
      BY <1>8, <2>1, SeqTypes DEF LoopForceClose, Queue
<1>9. ASSUME NEW th \in Thread, Share(th) PROVE TypeOK'
    BY <1>9 DEF Share
<1>10. QED
    BY <1>1, <1>2, <1>3, <1>4, <1>5, <1>6, <1>7, <1>8, <1>9 DEF UserReturn, UserCode

LEMMA TypeOutside ==
    ASSUME TypeOK, \/ \E th \in Caller : CallerStep(th)
                   \/ \E th \in Thread : Release(th)
                   \/ Reset
    PROVE  TypeOK'
<1> USE DEF TypeOK, link, stream, users, loop
<1>1. ASSUME NEW th \in Caller, NEW m \in Msg, Send(th, m) PROVE TypeOK'
  <2>1. sent' \in Seq([by : Thread, msg : Msg])
    <3>1. [by |-> th, msg |-> m] \in [by : Thread, msg : Msg]
        BY DEF Thread
    <3>2. QED
        BY <1>1, <3>1, SeqTypes DEF Send, Sends
  <2>2. call' \in [Caller -> Call]
      BY <1>1 DEF Send, Begin, Call
  <2>3. QED
      BY <1>1, <2>1, <2>2 DEF Send
<1>2. ASSUME NEW th \in Caller, Shutdown(th) PROVE TypeOK'
  <2>1. [op |-> "shutdown", msg |-> NoMsg] \in Call
      BY DEF Call
  <2>2. call' \in [Caller -> Call]
      BY <1>2, <2>1 DEF Shutdown, Begin
  <2>3. QED
      BY <1>2, <2>2 DEF Shutdown
<1>3. ASSUME NEW th \in Caller, ForceClose(th) PROVE TypeOK'
  <2>1. [op |-> "forceClose", msg |-> NoMsg] \in Call
      BY DEF Call
  <2>2. call' \in [Caller -> Call]
      BY <1>3, <2>1 DEF ForceClose, Begin
  <2>3. QED
      BY <1>3, <2>2 DEF ForceClose
<1>4. ASSUME NEW th \in Caller, SetDisconnecting(th) PROVE TypeOK'
  <2>1. call' \in [Caller -> Call]
      BY <1>4 DEF SetDisconnecting, Call
  <2>2. QED
      BY <1>4, <2>1 DEF SetDisconnecting
<1>5. ASSUME NEW th \in Caller, QueueCall(th) PROVE TypeOK'
  <2>1. call' \in [Caller -> Call]
      BY <1>5 DEF QueueCall, Call
  <2>2. [op |-> CASE call[th].op = "send" -> "send"
                  [] call[th].op = "shutdownSet" -> "shutdown"
                  [] call[th].op = "forceCloseSet" -> "forceClose",
         msg |-> call[th].msg] \in Functor
      BY <1>5 DEF QueueCall, Call, Functor
  <2>3. queue' \in Seq(Functor)
      BY <1>5, <2>2, SeqTypes DEF QueueCall, Queue
  <2>4. QED
      BY <1>5, <2>1, <2>3 DEF QueueCall
<1>6. ASSUME NEW th \in Thread, Release(th) PROVE TypeOK'
    BY <1>6 DEF Release
<1>7. CASE Reset
    BY <1>7 DEF Reset
<1>8. QED
    BY <1>1, <1>2, <1>3, <1>4, <1>5, <1>6, <1>7 DEF CallerStep, FinishCall

LEMMA TypeStep == TypeOK /\ [Next]_vars => TypeOK'
<1> SUFFICES ASSUME TypeOK, [Next]_vars PROVE TypeOK'
    OBVIOUS
<1>1. CASE Next
    BY <1>1, TypeEvent, TypeFunctor, TypeUser, TypeOutside DEF Next
<1>2. CASE UNCHANGED vars
    BY <1>2 DEF TypeOK, vars, link, stream, loop, users
<1>3. QED
    BY <1>1, <1>2

\* Every reachable state of a connection is well typed.
THEOREM LinkTypeCorrect == Safety => []TypeOK
    BY TypeInit, TypeStep, PTL DEF Safety

-------------------------------------------------------------------------------
(* The interest in writability, and the safety of a kept link.              *)
(* WriteInterest needs to know that a high-water-mark callback leaves bytes *)
(* to append, and that prepare() finds a link that is not registered yet;   *)
(* KeptIsSafe that only a closed link has left the server's map.            *)

CarryInv == \A i \in 1 .. Len(carry) : carry[i] # <<>>

PrepareInv ==
    /\ \A i \in 1 .. Len(queue) : queue[i].op = "prepare" => i = 1 /\ polled = "New"
    /\ revents # {} => polled # "New"

OwnedInv == owned \/ Closed

LinkInv == CarryInv /\ PrepareInv /\ OwnedInv /\ WriteInterest /\ KeptIsSafe

LEMMA InvInit == Init => LinkInv
    BY DEF Init, LinkInv, CarryInv, PrepareInv, OwnedInv, WriteInterest, KeptIsSafe, Writing,
           Closed

\* A step that touches none of it.
LEMMA InvStutter ==
    LinkInv /\ UNCHANGED <<events_, polled, output, queue, revents, carry, owned, holds, fate>>
        => LinkInv'
    BY DEF LinkInv, CarryInv, PrepareInv, OwnedInv, WriteInterest, KeptIsSafe, Writing, Closed

\* Appending something to the buffer asks for writability.
LEMMA InvAppend ==
    ASSUME TypeOK, WriteInterest, NEW bytes \in Seq(Byte), bytes # <<>>, AppendOutput(bytes),
           UNCHANGED polled
    PROVE  WriteInterest' /\ (fate' = "undefined" => fate = "undefined")
<1>1. output \o bytes # <<>>
    BY DEF TypeOK
<1>2. QED
    BY <1>1 DEF AppendOutput, EnableWriting, WriteInterest, Writing, Closed

\* What sendInLoop() does to the parts it can disturb.
LEMMA InvSendInLoop ==
    ASSUME TypeOK, LinkInv, NEW m \in Msg, SendInLoop(m), UNCHANGED polled
    PROVE  WriteInterest' /\ CarryInv' /\ (fate' = "undefined" => fate = "undefined")
<1>1. CASE UNCHANGED <<events_, output, carry, fate>>
    BY <1>1 DEF LinkInv, WriteInterest, CarryInv, Writing, Closed
<1>2. ASSUME NEW n \in 0 .. 2, n < 2,
             \/ AppendOutput(SubSeq(Bytes(m), n + 1, 2)) /\ UNCHANGED carry
             \/ /\ carry' = Append(carry, SubSeq(Bytes(m), n + 1, 2))
                /\ UNCHANGED <<events_, output, fate>>
      PROVE  WriteInterest' /\ CarryInv' /\ (fate' = "undefined" => fate = "undefined")
  <2> DEFINE rest == SubSeq(Bytes(m), n + 1, 2)
  <2>1. rest \in Seq(Byte) /\ rest # <<>>
      BY <1>2, MessageParts
  <2>2. CASE AppendOutput(rest) /\ UNCHANGED carry
    <3>1. WriteInterest' /\ (fate' = "undefined" => fate = "undefined")
        BY <2>1, <2>2, InvAppend DEF LinkInv
    <3>2. QED
        BY <2>2, <3>1 DEF LinkInv, CarryInv
  <2>3. CASE carry' = Append(carry, rest) /\ UNCHANGED <<events_, output, fate>>
    <3>1. carry \in Seq(Seq(Byte))
        BY DEF TypeOK
    <3> HIDE DEF rest
    <3>2. CarryInv'
        BY <2>1, <2>3, <3>1, AppendProperties DEF LinkInv, CarryInv
    <3>3. QED
        BY <2>3, <3>2 DEF LinkInv, WriteInterest, Writing, Closed
  <2>4. QED
      BY <1>2, <2>2, <2>3
<1>3. (IF ~Writing /\ output = <<>> THEN 0 .. 2 ELSE {0}) \subseteq 0 .. 2
    OBVIOUS
<1>4. QED
    BY <1>1, <1>2, <1>3 DEF SendInLoop

LEMMA InvEvent ==
    ASSUME TypeOK, LinkInv, fate = "ok",
           \/ \E ready \in SUBSET {"in", "out"} : PollEvent(ready)
           \/ HandleEvent
    PROVE  LinkInv'
<1> USE DEF link, stream, users
<1>1. ASSUME NEW ready \in SUBSET {"in", "out"}, PollEvent(ready) PROVE LinkInv'
    BY <1>1 DEF PollEvent, LinkInv, CarryInv, PrepareInv, OwnedInv, WriteInterest, KeptIsSafe,
                Writing, Closed
<1>2. CASE Dispatch \/ NothingRead \/ ReadData
    BY <1>2, InvStutter DEF Dispatch, NothingRead, ReadData
<1>3. CASE ReadEnd
  <2>1. polled # "New" /\ polled' = "Deleted" /\ fate' # "undefined"
      BY <1>3 DEF ReadEnd, LinkInv, PrepareInv
  <2>2. PrepareInv'
      BY <1>3, <2>1 DEF ReadEnd, LinkInv, PrepareInv
  <2>3. QED
      BY <1>3, <2>1, <2>2 DEF ReadEnd, LinkInv, CarryInv, OwnedInv, WriteInterest, KeptIsSafe,
                              Closed
<1>4. CASE ReadDestroyed
  <2>1. holds = {} /\ Closed
      BY <1>4 DEF ReadDestroyed, Shared, LinkInv, OwnedInv
  <2>2. QED
      BY <1>4, <2>1 DEF ReadDestroyed, LinkInv, CarryInv, PrepareInv, OwnedInv, WriteInterest,
                        KeptIsSafe, Writing, Closed
<1>5. CASE NothingWritten
    BY <1>5 DEF NothingWritten, LinkInv, CarryInv, PrepareInv, OwnedInv, WriteInterest,
                KeptIsSafe, Writing, Closed
<1>6. ASSUME NEW n \in 1 .. Len(output), HandleWrite(n) PROVE LinkInv'
  <2>1. output' = <<>> <=> n = Len(output)
    <3>1. /\ output \in Seq(Byte) /\ Len(output) \in Nat /\ n + 1 \in Nat /\ 1 <= n + 1
          /\ Len(output) <= Len(output)
          /\ (Len(output) < n + 1 <=> n = Len(output))
        BY DEF TypeOK
    <3>2. SubSeq(output, n + 1, Len(output)) = <<>> <=> Len(output) < n + 1
        BY <3>1, PieceType
    <3>3. QED
        BY <1>6, <3>1, <3>2 DEF HandleWrite
  <2>2. WriteInterest' /\ fate' # "undefined"
      BY <1>6, <2>1 DEF HandleWrite, WriteInterest, Writing, Closed
  <2>3. QED
      BY <1>6, <2>2 DEF HandleWrite, LinkInv, CarryInv, PrepareInv, OwnedInv, KeptIsSafe, Closed
<1>7. QED
    BY <1>1, <1>2, <1>3, <1>4, <1>5, <1>6 DEF HandleEvent

\* Taking a functor from the queue leaves no prepare() behind.
LEMMA InvTail ==
    ASSUME TypeOK, PrepareInv, queue # <<>>, queue' = Tail(queue), UNCHANGED revents,
           polled' # "New" \/ UNCHANGED polled
    PROVE  /\ \A i \in 1 .. Len(queue') : queue'[i].op # "prepare"
           /\ (UNCHANGED polled => PrepareInv')
<1>1. queue \in Seq(Functor) /\ Len(queue) \in Nat
    BY DEF TypeOK
<1>2. /\ Len(queue') = Len(queue) - 1
      /\ \A i \in 1 .. Len(queue') : queue'[i] = queue[i + 1]
    BY <1>1
<1>3. ASSUME NEW i \in 1 .. Len(queue') PROVE queue'[i].op # "prepare"
  <2>1. i + 1 \in 1 .. Len(queue) /\ i + 1 # 1
      BY <1>1, <1>2
  <2>2. QED
      BY <1>2, <2>1 DEF PrepareInv
<1>4. QED
    BY <1>3 DEF PrepareInv

\* prepare() finds the link unregistered.
LEMMA RunPrepareIsFirst ==
    ASSUME TypeOK, LinkInv, RunPrepare
    PROVE  polled = "New" /\ revents = {}
<1>1. queue \in Seq(Functor) /\ queue # <<>> /\ revents = {} /\ Head(queue).op = "prepare"
    BY DEF TypeOK, RunPrepare, NextFunctor
<1>2. 1 \in 1 .. Len(queue) /\ queue[1] = Head(queue)
    BY <1>1
<1>3. QED
    BY <1>1, <1>2 DEF LinkInv, PrepareInv

LEMMA InvFunctor ==
    ASSUME TypeOK, LinkInv, fate = "ok", RunFunctor
    PROVE  LinkInv'
<1> USE DEF link, stream, users
<1>1. queue # <<>> /\ queue' = Tail(queue) /\ UNCHANGED revents
    BY DEF RunFunctor, RunPrepare, RunSend, RunShutdown, RunForceClose, RunDangling, NextFunctor
<1>2. CASE RunPrepare
  <2>1. polled = "New" /\ revents = {}
      BY <1>2, RunPrepareIsFirst
  <2>2. polled' = "Added" /\ UNCHANGED owned
      BY <1>2 DEF RunPrepare
  <2>3. PrepareInv'
      BY <1>1, <2>2, InvTail DEF LinkInv, PrepareInv
  <2>4. QED
      BY <1>2, <2>1, <2>3 DEF RunPrepare, LinkInv, CarryInv, OwnedInv, WriteInterest, KeptIsSafe,
                              Writing, Closed
<1>3. ASSUME UNCHANGED polled PROVE PrepareInv'
    BY <1>1, <1>3, InvTail DEF LinkInv
<1>4. CASE RunSend
  <2>1. Head(queue).msg \in Msg
    <3>1. Head(queue) \in Functor
        BY <1>1, HeadTailTypes DEF TypeOK
    <3>2. QED
        BY <1>4, <3>1 DEF RunSend, NextFunctor, Functor
  <2>2. UNCHANGED <<polled, owned, holds>> /\ SendInLoop(Head(queue).msg)
      BY <1>4 DEF RunSend
  <2>3. WriteInterest' /\ CarryInv' /\ fate' # "undefined"
      BY <2>1, <2>2, InvSendInLoop
  <2>4. QED
      BY <1>3, <2>2, <2>3 DEF LinkInv, OwnedInv, KeptIsSafe, Closed
<1>5. CASE RunShutdown \/ RunForceClose
    BY <1>3, <1>5 DEF RunShutdown, RunForceClose, LinkInv, CarryInv, OwnedInv, WriteInterest,
                      KeptIsSafe, Writing, Closed
<1>6. CASE RunDangling
  <2>1. holds = {} /\ Closed
      BY <1>6 DEF RunDangling, Shared, LinkInv, OwnedInv
  <2>2. QED
      BY <1>3, <1>6, <2>1 DEF RunDangling, LinkInv, CarryInv, OwnedInv, WriteInterest,
                              KeptIsSafe, Writing, Closed
<1>7. QED
    BY <1>2, <1>4, <1>5, <1>6 DEF RunFunctor

LEMMA InvUser ==
    ASSUME TypeOK, LinkInv, fate = "ok", UserReturn \/ UserCode
    PROVE  LinkInv'
<1> USE DEF link, stream, users, loop
<1>1. CASE MessageReturn \/ CompleteReturn \/ CallbackReturn \/ OtherCode \/ LoopShutdown
    BY <1>1, InvStutter DEF MessageReturn, CompleteReturn, CallbackReturn, OtherCode,
                            LoopShutdown
<1>2. CASE HighWaterReturn
  <2>1. carry \in Seq(Seq(Byte)) /\ carry # <<>> /\ Len(carry) \in 1 .. Len(carry)
      BY <1>2 DEF HighWaterReturn, TypeOK
  <2>2. carry[Len(carry)] \in Seq(Byte) /\ carry[Len(carry)] # <<>>
      BY <2>1 DEF LinkInv, CarryInv
  <2>3. CarryInv'
    <3>1. carry' = SubSeq(carry, 1, Len(carry) - 1)
        BY <1>2 DEF HighWaterReturn
    <3>2. Len(carry') < Len(carry) /\ \A i \in 1 .. Len(carry') : carry'[i] = carry[i]
        BY <2>1, <3>1
    <3>3. Len(carry') \in Nat
        BY <2>1, <3>1
    <3>4. QED
        BY <2>1, <3>2, <3>3 DEF LinkInv, CarryInv
  <2>4. CASE Shared
    <3>1. AppendOutput(carry[Len(carry)]) /\ UNCHANGED polled
        BY <1>2, <2>4 DEF HighWaterReturn
    <3>2. WriteInterest' /\ fate' # "undefined"
        BY <2>2, <3>1, InvAppend DEF LinkInv
    <3>3. QED
        BY <1>2, <2>3, <3>2 DEF HighWaterReturn, LinkInv, PrepareInv, OwnedInv, KeptIsSafe,
                                Closed
  <2>5. CASE ~Shared
    <3>1. holds = {} /\ Closed
        BY <2>5 DEF Shared, LinkInv, OwnedInv
    <3>2. QED
        BY <1>2, <2>3, <2>5, <3>1 DEF HighWaterReturn, LinkInv, PrepareInv, OwnedInv, KeptIsSafe,
                                      WriteInterest, Closed
  <2>6. QED
      BY <2>4, <2>5
<1>3. ASSUME NEW m \in Msg, LoopSend(m) PROVE LinkInv'
  <2>1. UNCHANGED <<polled, queue, revents, owned, holds>> /\ SendInLoop(m)
      BY <1>3 DEF LoopSend
  <2>2. WriteInterest' /\ CarryInv' /\ fate' # "undefined"
      BY <2>1, InvSendInLoop
  <2>3. QED
      BY <2>1, <2>2 DEF LinkInv, PrepareInv, OwnedInv, KeptIsSafe, Closed
<1>4. CASE LoopForceClose
  <2>1. PrepareInv'
      BY <1>4 DEF LoopForceClose, Queue, LinkInv, PrepareInv, TypeOK
  <2>2. QED
      BY <1>4, <2>1 DEF LoopForceClose, LinkInv, CarryInv, OwnedInv, WriteInterest, KeptIsSafe,
                        Writing, Closed
<1>5. ASSUME NEW th \in Thread, Share(th) PROVE LinkInv'
    BY <1>5 DEF Share, LinkInv, CarryInv, PrepareInv, OwnedInv, WriteInterest, KeptIsSafe,
                Writing, Closed
<1>6. QED
    BY <1>1, <1>2, <1>3, <1>4, <1>5 DEF UserReturn, UserCode

LEMMA InvOutside ==
    ASSUME TypeOK, LinkInv, fate = "ok",
           \/ \E th \in Caller : CallerStep(th)
           \/ \E th \in Thread : Release(th)
           \/ Reset
    PROVE  LinkInv'
<1> USE DEF link, stream, users, loop
<1>1. ASSUME NEW th \in Caller,
             \/ \E m \in Msg : Send(th, m)
             \/ Shutdown(th) \/ ForceClose(th) \/ SetDisconnecting(th)
      PROVE  LinkInv'
    BY <1>1, InvStutter DEF Send, Shutdown, ForceClose, SetDisconnecting
<1>2. ASSUME NEW th \in Caller, QueueCall(th) PROVE LinkInv'
  <2>1. PrepareInv'
    <3>1. \E op \in {"send", "shutdown", "forceClose"} :
             \E m : queue' = Append(queue, [op |-> op, msg |-> m])
        BY <1>2 DEF QueueCall, Queue
    <3>2. UNCHANGED <<polled, revents>>
        BY <1>2 DEF QueueCall
    <3>3. QED
        BY <3>1, <3>2 DEF LinkInv, PrepareInv, TypeOK
  <2>2. QED
      BY <1>2, <2>1 DEF QueueCall, LinkInv, CarryInv, OwnedInv, WriteInterest, KeptIsSafe,
                        Writing, Closed
<1>3. ASSUME NEW th \in Thread, Release(th) PROVE LinkInv'
  <2>1. fate' = "undefined" => holds' = {} /\ Closed
      BY <1>3 DEF Release, Shared, LinkInv, OwnedInv
  <2>2. QED
      BY <1>3, <2>1 DEF Release, LinkInv, CarryInv, PrepareInv, OwnedInv, WriteInterest,
                        KeptIsSafe, Writing, Closed
<1>4. CASE Reset
    BY <1>4, InvStutter DEF Reset
<1>5. QED
    BY <1>1, <1>2, <1>3, <1>4 DEF CallerStep, FinishCall

LEMMA InvStep == TypeOK /\ LinkInv /\ [Next]_vars => LinkInv'
<1> SUFFICES ASSUME TypeOK, LinkInv, [Next]_vars PROVE LinkInv'
    OBVIOUS
<1>1. CASE Next
    BY <1>1, InvEvent, InvFunctor, InvUser, InvOutside DEF Next
<1>2. CASE UNCHANGED vars
    BY <1>2, InvStutter DEF vars, link, stream, loop, users
<1>3. QED
    BY <1>1, <1>2

LEMMA LinkInvariant == Safety => []LinkInv
    BY InvInit, InvStep, LinkTypeCorrect, PTL DEF Safety

\* While it is registered, a link asks for writability exactly when its buffer is not empty.
THEOREM WriteInterestHolds == Safety => []WriteInterest
<1>1. LinkInv => WriteInterest
    BY DEF LinkInv
<1>2. QED
    BY <1>1, LinkInvariant, PTL

\* A link is used after its destruction only if it was closed and no thread that keeps
\* its pointer had one.
THEOREM KeptIsSafeHolds == Safety => []KeptIsSafe
<1>1. LinkInv => KeptIsSafe
    BY DEF LinkInv
<1>2. QED
    BY <1>1, LinkInvariant, PTL

-------------------------------------------------------------------------------
(* A link is closed once, although a late setState(kDisconnecting) may undo  *)
(* the state it left: outside the rest of handleEvent() after handleClose(), *)
(* an event that is still to be looked at belongs to a registered link.      *)

CloseInv ==
    /\ revents # {} /\ pc # "write" => polled = "Added"
    /\ state_ = "Disconnected" => Closed
    /\ ClosedOnce

LEMMA CloseSendInLoop ==
    ASSUME CloseInv, NEW m, SendInLoop(m), UNCHANGED <<state_, polled, revents>>,
           pc = "idle" => revents = {}
    PROVE  CloseInv'
<1>1. /\ pc' = pc \/ (pc = "idle" /\ pc' \in {"callback", "highWater"})
      /\ fate' = fate \/ fate' = "notAdded"
    BY DEF SendInLoop, AppendOutput, EnableWriting
<1>2. QED
    BY <1>1 DEF CloseInv, ClosedOnce, Closed

LEMMA CloseStep == TypeOK /\ LinkInv /\ CloseInv /\ [Next]_vars => CloseInv'
<1> SUFFICES ASSUME TypeOK, LinkInv, CloseInv, [Next]_vars PROVE CloseInv'
    OBVIOUS
<1> USE DEF link, stream, users, loop
<1>1. ASSUME UNCHANGED <<state_, polled, revents, pc>>, fate' # "closedTwice"
      PROVE  CloseInv'
    BY <1>1 DEF CloseInv, ClosedOnce, Closed
<1>2. ASSUME NEW ready \in SUBSET {"in", "out"}, PollEvent(ready) PROVE CloseInv'
    BY <1>2 DEF PollEvent, CloseInv, ClosedOnce, Closed
<1>3. CASE HandleEvent
  <2>1. CASE Dispatch \/ NothingRead \/ ReadData
      BY <2>1 DEF Dispatch, NothingRead, ReadData, CloseInv, ClosedOnce, Closed
  <2>2. CASE ReadEnd
    <3>1. polled = "Added" /\ state_ # "Disconnected"
        BY <2>2 DEF ReadEnd, CloseInv, Closed
    <3>2. QED
        BY <2>2, <3>1 DEF ReadEnd, CloseInv, ClosedOnce, Closed
  <2>3. CASE ReadDestroyed
      BY <2>3 DEF ReadDestroyed, CloseInv, ClosedOnce, Closed
  <2>4. CASE NothingWritten
      BY <2>4 DEF NothingWritten, CloseInv, ClosedOnce, Closed
  <2>5. ASSUME NEW n \in 1 .. Len(output), HandleWrite(n) PROVE CloseInv'
      BY <2>5 DEF HandleWrite, CloseInv, ClosedOnce, Closed
  <2>6. QED
      BY <1>3, <2>1, <2>2, <2>3, <2>4, <2>5 DEF HandleEvent
<1>4. CASE RunFunctor
  <2>1. CASE RunPrepare
    <3>1. polled = "New" /\ revents = {}
        BY <2>1, RunPrepareIsFirst
    <3>2. QED
        BY <2>1, <3>1 DEF RunPrepare, CloseInv, ClosedOnce, Closed
  <2>2. CASE RunSend
      BY <2>2, CloseSendInLoop DEF RunSend, NextFunctor
  <2>3. CASE RunShutdown \/ RunForceClose \/ RunDangling
      BY <2>3, <1>1 DEF RunShutdown, RunForceClose, RunDangling, CloseInv, ClosedOnce
  <2>4. QED
      BY <1>4, <2>1, <2>2, <2>3 DEF RunFunctor
<1>5. CASE UserReturn
  <2>1. CASE MessageReturn \/ CompleteReturn \/ CallbackReturn
      BY <2>1 DEF MessageReturn, CompleteReturn, CallbackReturn, CloseInv, ClosedOnce, Closed
  <2>2. CASE HighWaterReturn
      BY <2>2 DEF HighWaterReturn, AppendOutput, EnableWriting, CloseInv, ClosedOnce, Closed
  <2>3. QED
      BY <1>5, <2>1, <2>2 DEF UserReturn
<1>6. CASE UserCode
  <2>1. ASSUME NEW m \in Msg, LoopSend(m) PROVE CloseInv'
      BY <2>1, CloseSendInLoop DEF LoopSend, InUserCode
  <2>2. CASE LoopShutdown \/ LoopForceClose \/ OtherCode
      BY <2>2 DEF LoopShutdown, LoopForceClose, OtherCode, CloseInv, ClosedOnce, Closed
  <2>3. CASE \E th \in Thread : Share(th)
      BY <2>3, <1>1 DEF Share, CloseInv, ClosedOnce
  <2>4. QED
      BY <1>6, <2>1, <2>2, <2>3 DEF UserCode
<1>7. CASE \E th \in Caller : CallerStep(th)
  <2>1. UNCHANGED <<polled, revents, pc, fate>> /\ (UNCHANGED state_ \/ state_' = "Disconnecting")
      BY <1>7 DEF CallerStep, FinishCall, Send, Shutdown, ForceClose, SetDisconnecting,
                  QueueCall
  <2>2. QED
      BY <2>1 DEF CloseInv, ClosedOnce, Closed
<1>8. CASE (\E th \in Thread : Release(th)) \/ Reset
    BY <1>8, <1>1 DEF Release, Reset, CloseInv, ClosedOnce
<1>9. CASE UNCHANGED vars
    BY <1>9, <1>1 DEF vars, CloseInv, ClosedOnce
<1>10. QED
    BY <1>2, <1>3, <1>4, <1>5, <1>6, <1>7, <1>8, <1>9 DEF Next

\* The assertion at the head of handleClose() never fails.
THEOREM ClosedOnceHolds == Safety => []ClosedOnce
<1>1. Init => CloseInv
    BY DEF Init, CloseInv, ClosedOnce
<1>2. CloseInv => ClosedOnce
    BY DEF CloseInv
<1>3. QED
    BY <1>1, <1>2, CloseStep, LinkTypeCorrect, LinkInvariant, PTL DEF Safety

-------------------------------------------------------------------------------
(* Without a high-water-mark callback a connection implements ByteStream. *)

\* Nothing waits for such a callback, and the end of the stream follows the last byte.
StreamInv == carry = <<>> /\ (fin /\ ~Closed => output = <<>>)

StreamNext == Stream!Next \/ UNCHANGED <<output, wire, fin, Closed>>

LEMMA StreamInit == Init => Stream!Init /\ StreamInv
    BY DEF Init, Stream!Init, StreamInv, Closed

LEMMA StreamStutter ==
    StreamInv /\ UNCHANGED <<polled, output, wire, fin, carry>> => StreamNext /\ StreamInv'
    BY DEF StreamInv, StreamNext, Closed

LEMMA StreamSendInLoop ==
    ASSUME ~HighWater, TypeOK, LinkInv, StreamInv, NEW m \in Msg, SendInLoop(m),
           UNCHANGED <<polled, fin>>
    PROVE  StreamNext /\ StreamInv'
<1> DEFINE d == Bytes(m)
           direct == ~Writing /\ output = <<>>
<1>1. /\ d \in {Bytes(x) : x \in Msg} /\ d \in Seq(Byte) /\ Len(d) = 2
      /\ output \in Seq(Byte) /\ wire \in Seq(Byte)
  <2>1. 0 \in 0 .. 2
      OBVIOUS
  <2>2. QED
      BY <2>1, MessageParts DEF TypeOK
<1>2. CASE UNCHANGED <<output, wire, carry>>
    BY <1>2, StreamStutter
<1>3. ASSUME ~(state_ = "Disconnected" \/ (direct /\ (broken \/ fin))),
             NEW n \in 0 .. 2, direct \/ n = 0,
             wire' = wire \o SubSeq(d, 1, n),
             \/ n = 2 /\ UNCHANGED <<output, carry>>
             \/ n < 2 /\ output' = output \o SubSeq(d, n + 1, 2) /\ UNCHANGED carry
      PROVE  StreamNext /\ StreamInv'
  <2>1. CASE direct
    <3>1. output \o d = d /\ ~fin
        BY <1>1, <1>3, <2>1, ConcatEmptySeq
    <3>2. output' = SubSeq(d, n + 1, 2)
      <4>1. SubSeq(d, n + 1, 2) \in Seq(Byte) /\ (n = 2 => SubSeq(d, n + 1, 2) = <<>>)
          BY MessageParts
      <4> HIDE DEF d
      <4>2. QED
          BY <1>3, <2>1, <4>1, ConcatEmptySeq
    <3>3. Stream!Transmit(output \o d, n)
      <4> HIDE DEF d
      <4>1. QED
          BY <1>1, <1>3, <3>1, <3>2 DEF Stream!Transmit, Closed
    <3>4. n \in 0 .. Len(output \o d)
        BY <1>1, <3>1
    <3>5. Stream!Accept(d)
        BY <3>1, <3>3, <3>4 DEF Stream!Accept
    <3>6. QED
        BY <1>1, <1>3, <3>1, <3>5 DEF StreamNext, Stream!Next, StreamInv
  <2>2. CASE ~direct
    <3>1. n = 0 /\ SubSeq(d, 1, 0) = <<>> /\ SubSeq(d, 1, 2) = d
        BY <1>1, <1>3, <2>2, SubSeqEmpty, SubSeqFull
    <3>2. wire' = wire /\ output' = output \o d
      <4>1. n + 1 = 1 /\ wire \o <<>> = wire
          BY <1>1, <3>1, ConcatEmptySeq
      <4>2. wire' = wire \o SubSeq(d, 1, 0)
          BY <1>3, <3>1
      <4> HIDE DEF d
      <4>3. n < 2 /\ n # 2
          BY <3>1
      <4>4. output' = output \o SubSeq(d, n + 1, 2)
          BY <1>3, <4>3
      <4>5. QED
          BY <3>1, <4>1, <4>2, <4>4
    <3>3. output \o d \in Seq(Byte)
        BY <1>1, ConcatProperties
    <3>4. Stream!Transmit(output \o d, 0)
      <4> DEFINE all == output \o d
      <4>1. SubSeq(all, 1, 0) = <<>> /\ SubSeq(all, 0 + 1, Len(all)) = all
          BY <3>3, SubSeqEmpty, SubSeqFull
      <4> HIDE DEF all, d
      <4>2. wire \o <<>> = wire
          BY <1>1, ConcatEmptySeq
      <4>3. output' = all
          BY <3>2 DEF all
      <4>4. QED
          BY <3>2, <4>1, <4>2, <4>3 DEF Stream!Transmit, Closed, all
    <3>5. ~fin \/ Closed
        BY <1>3, <2>2 DEF StreamInv, LinkInv, WriteInterest
    <3>6. 0 \in 0 .. Len(output \o d)
        BY <3>3
    <3>7. Stream!Accept(d) \/ Stream!Waste(d)
        BY <3>4, <3>5, <3>6 DEF Stream!Accept, Stream!Waste
    <3>8. fin /\ ~Closed => FALSE
        BY <3>5
    <3>9. QED
        BY <1>1, <1>3, <3>7, <3>8 DEF StreamNext, Stream!Next, StreamInv, Closed
  <2>3. QED
      BY <2>1, <2>2
<1>4. QED
    BY <1>2, <1>3 DEF SendInLoop, AppendOutput

\* shutdownInLoop() ends a stream whose buffer is empty.
LEMMA StreamShutdown ==
    ASSUME TypeOK, LinkInv, StreamInv, ShutdownInLoop,
           UNCHANGED <<polled, output, wire, carry>>
    PROVE  StreamNext /\ StreamInv'
<1>1. CASE fin' = fin
    BY <1>1, StreamStutter
<1>2. CASE fin' # fin
  <2>1. ~fin /\ fin' = TRUE /\ (output = <<>> \/ Closed)
      BY <1>2 DEF TypeOK, ShutdownInLoop, LinkInv, WriteInterest
  <2>2. Stream!Finish
      BY <2>1 DEF Stream!Finish, Closed
  <2>3. QED
      BY <2>1, <2>2 DEF StreamNext, Stream!Next, StreamInv, Closed
<1>3. QED
    BY <1>1, <1>2

\* Bytes leave the buffer from its front.
LEMMA StreamWrite ==
    ASSUME TypeOK, StreamInv, NEW n \in 1 .. Len(output), HandleWrite(n)
    PROVE  StreamNext /\ StreamInv'
<1> USE DEF users
<1>1. ~fin /\ UNCHANGED <<fin, carry>>
    BY DEF HandleWrite
<1>2. Stream!Transmit(output, n)
    BY DEF HandleWrite, Stream!Transmit, Closed
<1>3. Stream!Leave
    BY <1>1, <1>2 DEF Stream!Leave
<1>4. QED
    BY <1>1, <1>3 DEF StreamNext, Stream!Next, StreamInv

LEMMA StreamStep ==
    ASSUME ~HighWater, TypeOK, LinkInv, StreamInv, [Next]_vars
    PROVE  StreamNext /\ StreamInv'
<1> USE DEF link, stream, users, loop
<1>1. ASSUME NEW ready \in SUBSET {"in", "out"}, PollEvent(ready) PROVE StreamNext /\ StreamInv'
    BY <1>1, StreamStutter DEF PollEvent
<1>2. CASE HandleEvent
  <2>1. CASE Dispatch \/ NothingRead \/ ReadData \/ ReadDestroyed \/ NothingWritten
      BY <2>1, StreamStutter DEF Dispatch, NothingRead, ReadData, ReadDestroyed, NothingWritten
  <2>2. CASE ReadEnd
    <3>1. Stream!Cut
        BY <2>2 DEF ReadEnd, Stream!Cut, Closed
    <3>2. QED
        BY <2>2, <3>1 DEF ReadEnd, StreamNext, Stream!Next, StreamInv, Closed
  <2>3. QED
      BY <1>2, <2>1, <2>2, StreamWrite DEF HandleEvent
<1>3. CASE RunFunctor
  <2>1. CASE RunPrepare
    <3>1. polled = "New" /\ polled' = "Added"
        BY <2>1, RunPrepareIsFirst DEF RunPrepare
    <3>2. QED
        BY <2>1, <3>1 DEF RunPrepare, StreamNext, StreamInv, Closed
  <2>2. CASE RunSend
    <3>1. Head(queue).msg \in Msg
      <4>1. Head(queue) \in Functor
          BY <2>2, HeadTailTypes DEF TypeOK, RunSend, NextFunctor
      <4>2. QED
          BY <2>2, <4>1 DEF RunSend, NextFunctor, Functor
    <3>2. QED
        BY <2>2, <3>1, StreamSendInLoop DEF RunSend
  <2>3. CASE RunShutdown
      BY <2>3, StreamShutdown DEF RunShutdown
  <2>4. CASE RunForceClose \/ RunDangling
      BY <2>4, StreamStutter DEF RunForceClose, RunDangling
  <2>5. QED
      BY <1>3, <2>1, <2>2, <2>3, <2>4 DEF RunFunctor
<1>4. CASE UserReturn
  <2>1. CASE MessageReturn \/ CallbackReturn
      BY <2>1, StreamStutter DEF MessageReturn, CallbackReturn
  <2>2. CASE CompleteReturn
      BY <2>2, StreamShutdown, StreamStutter DEF CompleteReturn
  <2>3. ~HighWaterReturn
      BY DEF HighWaterReturn, StreamInv
  <2>4. QED
      BY <1>4, <2>1, <2>2, <2>3 DEF UserReturn
<1>5. CASE UserCode
  <2>1. ASSUME NEW m \in Msg, LoopSend(m) PROVE StreamNext /\ StreamInv'
      BY <2>1, StreamSendInLoop DEF LoopSend
  <2>2. CASE LoopShutdown
      BY <2>2, StreamShutdown DEF LoopShutdown
  <2>3. CASE OtherCode \/ LoopForceClose \/ \E th \in Thread : Share(th)
      BY <2>3, StreamStutter DEF OtherCode, LoopForceClose, Share
  <2>4. QED
      BY <1>5, <2>1, <2>2, <2>3 DEF UserCode
<1>6. CASE \/ \E th \in Caller : CallerStep(th)
           \/ \E th \in Thread : Release(th)
           \/ Reset
    BY <1>6, StreamStutter DEF CallerStep, FinishCall, Send, Shutdown, ForceClose,
                               SetDisconnecting, QueueCall, Release, Reset
<1>7. CASE UNCHANGED vars
    BY <1>7, StreamStutter DEF vars
<1>8. QED
    BY <1>1, <1>2, <1>3, <1>4, <1>5, <1>6, <1>7 DEF Next

LEMMA StreamInvariant ==
    ASSUME ~HighWater
    PROVE  Safety => []StreamInv
<1>1. TypeOK /\ LinkInv /\ StreamInv /\ [Next]_vars => StreamInv'
    BY StreamStep
<1>2. QED
    BY <1>1, StreamInit, LinkTypeCorrect, LinkInvariant, PTL DEF Safety

\* A connection without a high-water-mark callback implements the byte stream: nothing is
\* lost, repeated or reordered before the end, whoever sends and shuts down.
THEOREM LinkIsByteStream ==
    ASSUME ~HighWater
    PROVE  Safety => StreamSafety
<1>1. TypeOK /\ LinkInv /\ StreamInv /\ [Next]_vars => StreamNext /\ StreamInv'
    BY StreamStep
<1>2. StreamNext => [Stream!Next]_(Stream!vars)
    BY DEF StreamNext, Stream!vars
<1>3. QED
    BY <1>1, <1>2, StreamInvariant, StreamInit, LinkTypeCorrect, LinkInvariant, PTL
    DEF Safety, StreamSafety, Stream!Safety

-------------------------------------------------------------------------------
(* Without such a callback, what one thread sends leaves in the order of its calls. *)

\* The bytes sendInLoop() has taken so far.
Taken == wire \o output

\* More of a message is taken, and nothing else changes there.
Takes(m) ==
    /\ Len(Taken) <= Len(Taken')
    /\ \A k \in 1 .. Len(Taken) : Taken'[k] = Taken[k]
    /\ \A k \in 1 .. Len(Taken') : Len(Taken) < k => Taken'[k][1] = m

Calls == 1 .. Len(sent)

\* A message is sent once, and is nowhere unless it was sent.
KnownInv ==
    /\ \A i, j \in Calls : sent[i].msg = sent[j].msg => i = j
    /\ \A k \in 1 .. Len(Taken) : \E i \in Calls : sent[i].msg = Taken[k][1]
    /\ \A p \in 1 .. Len(queue) : queue[p].msg \in Msg => \E i \in Calls : sent[i].msg = queue[p].msg
    /\ \A th \in Caller : call[th].msg \in Msg => \E i \in Calls : sent[i].msg = call[th].msg

\* The call a thread is in the middle of is its last.
LastCallInv ==
    \A th \in Caller, i \in Calls : call[th].msg = sent[i].msg =>
        /\ sent[i].by = th
        /\ \A j \in Calls : i < j => sent[j].by # th

\* What is queued was sent by another thread, and of what that thread sent later nothing
\* is taken and everything is queued behind it.
QueuedInv ==
    \A p \in 1 .. Len(queue), i \in Calls : queue[p].msg = sent[i].msg =>
        /\ sent[i].by \in Caller
        /\ \A j \in Calls : i < j /\ sent[j].by = sent[i].by =>
              /\ \A k \in 1 .. Len(Taken) : Taken[k][1] # sent[j].msg
              /\ \A q \in 1 .. Len(queue) : queue[q].msg = sent[j].msg => p < q

TakenInOrder ==
    \A i, j \in Calls : i < j /\ sent[i].by = sent[j].by =>
        \A k, l \in 1 .. Len(Taken) : Taken[k][1] = sent[i].msg /\ Taken[l][1] = sent[j].msg => k < l

OrderInv == KnownInv /\ LastCallInv /\ QueuedInv /\ TakenInOrder

LEMMA OrderInit == Init => OrderInv
<1> SUFFICES ASSUME Init PROVE OrderInv
    OBVIOUS
<1>1. Calls = {} /\ Len(Taken) = 0
    BY DEF Init, Calls, Taken
<1>2. Len(queue) = 1 /\ queue[1].msg = NoMsg /\ \A th \in Caller : call[th].msg = NoMsg
    BY DEF Init
<1>3. QED
    BY <1>1, <1>2, LinkAssumption DEF OrderInv, KnownInv, LastCallInv, QueuedInv, TakenInOrder

LEMMA OrderTypes ==
    ASSUME TypeOK
    PROVE  /\ Len(Taken) \in Nat /\ Len(queue) \in Nat /\ Len(sent) \in Nat
           /\ Taken \in Seq(Byte)
           /\ \A i \in Calls : sent[i].msg \in Msg /\ sent[i].by \in Thread
           /\ \A p \in 1 .. Len(queue) : queue[p].msg \in Msg \cup {NoMsg}
           /\ \A th \in Caller : call[th].msg \in Msg \cup {NoMsg}
<1>1. Taken \in Seq(Byte)
    BY DEF TypeOK, Taken
<1>2. \A p \in 1 .. Len(queue) : queue[p] \in Functor
    BY DEF TypeOK
<1>3. \A th \in Caller : call[th] \in Call
    BY DEF TypeOK
<1>4. \A i \in Calls : sent[i] \in [by : Thread, msg : Msg]
  <2> DEFINE S == [by : Thread, msg : Msg]
  <2>1. sent \in Seq(S)
      BY DEF TypeOK
  <2> HIDE DEF S
  <2>2. \A i \in Calls : sent[i] \in S
      BY <2>1 DEF Calls
  <2>3. QED
      BY <2>2 DEF S
<1>5. Len(Taken) \in Nat /\ Len(queue) \in Nat /\ Len(sent) \in Nat
    BY <1>1 DEF TypeOK
<1>6. QED
    BY <1>1, <1>2, <1>3, <1>4, <1>5 DEF Functor, Call

\* Nothing of it changes; the place of a call may.
LEMMA OrderStutter ==
    ASSUME OrderInv, UNCHANGED <<sent, queue, Taken>>,
           \A th \in Caller : call'[th].msg = call[th].msg
    PROVE  OrderInv'
<1>1. Calls' = Calls
    BY DEF Calls
<1>2. QED
    BY <1>1 DEF OrderInv, KnownInv, LastCallInv, QueuedInv, TakenInOrder

\* A functor is run, and a message it may have is taken.
LEMMA OrderRun ==
    ASSUME TypeOK, OrderInv, queue # <<>>, queue' = Tail(queue), UNCHANGED <<sent, call>>,
           Takes(Head(queue).msg), Taken' \in Seq(Byte)
    PROVE  OrderInv'
<1> DEFINE m == Head(queue).msg
<1>1. /\ queue[1].msg = m /\ 1 \in 1 .. Len(queue)
      /\ Len(queue') \in Nat
      /\ \A p \in 1 .. Len(queue') : p + 1 \in 1 .. Len(queue) /\ queue'[p] = queue[p + 1]
    BY DEF TypeOK
<1>2. /\ Calls' = Calls /\ Len(Taken) \in Nat /\ Len(Taken') \in Nat /\ Len(sent) \in Nat
      /\ \A i \in Calls : sent[i].msg \in Msg
      /\ \A k \in 1 .. Len(Taken') : Taken'[k][1] \in Msg
    BY OrderTypes DEF Calls, Byte
<1>3. /\ Len(Taken) <= Len(Taken')
      /\ \A k \in 1 .. Len(Taken') :
            IF Len(Taken) < k THEN Taken'[k][1] = m
                              ELSE k \in 1 .. Len(Taken) /\ Taken'[k] = Taken[k]
    BY <1>2 DEF Takes
<1> HIDE DEF m
<1>4. KnownInv'
    BY <1>1, <1>2, <1>3 DEF OrderInv, KnownInv
<1>5. LastCallInv'
    BY <1>2 DEF OrderInv, LastCallInv
<1>6. \A i \in Calls, j \in Calls : i < j /\ sent[j].by = sent[i].by /\ m = sent[i].msg =>
          \A k \in 1 .. Len(Taken) : Taken[k][1] # sent[j].msg
    BY <1>1 DEF OrderInv, QueuedInv
<1>7. QueuedInv'
  <2> SUFFICES ASSUME NEW p \in 1 .. Len(queue'), NEW i \in Calls, queue'[p].msg = sent[i].msg
               PROVE  /\ sent[i].by \in Caller
                      /\ \A j \in Calls : i < j /\ sent[j].by = sent[i].by =>
                            /\ \A k \in 1 .. Len(Taken') : Taken'[k][1] # sent[j].msg
                            /\ \A q \in 1 .. Len(queue') : queue'[q].msg = sent[j].msg => p < q
      BY <1>2 DEF QueuedInv
  <2>1. /\ sent[i].by \in Caller
        /\ \A j \in Calls : i < j /\ sent[j].by = sent[i].by =>
              /\ \A k \in 1 .. Len(Taken) : Taken[k][1] # sent[j].msg
              /\ \A q \in 1 .. Len(queue) : queue[q].msg = sent[j].msg => p + 1 < q
      BY <1>1 DEF OrderInv, QueuedInv
  <2>2. ASSUME NEW j \in Calls, i < j, sent[j].by = sent[i].by
        PROVE  sent[j].msg # m
      BY <1>1, <2>1, <2>2
  <2>3. ASSUME NEW j \in Calls, i < j, sent[j].by = sent[i].by,
               NEW q \in 1 .. Len(queue'), queue'[q].msg = sent[j].msg
        PROVE  p < q
    <3>1. p + 1 < q + 1
        BY <1>1, <2>1, <2>3
    <3>2. QED
        BY <1>1, <3>1
  <2>4. QED
      BY <1>3, <2>1, <2>2, <2>3
<1>8. TakenInOrder'
  <2> SUFFICES ASSUME NEW i \in Calls, NEW j \in Calls, i < j, sent[i].by = sent[j].by,
                      NEW k \in 1 .. Len(Taken'), NEW l \in 1 .. Len(Taken'),
                      Taken'[k][1] = sent[i].msg, Taken'[l][1] = sent[j].msg
               PROVE  k < l
      BY <1>2 DEF TakenInOrder
  <2>1. CASE Len(Taken) < k
    <3>1. m = sent[i].msg
        BY <1>3, <2>1
    <3>2. m # sent[j].msg
        BY <1>2, <3>1 DEF OrderInv, KnownInv, Calls
    <3>3. QED
        BY <1>3, <1>6, <3>1, <3>2
  <2>2. CASE ~(Len(Taken) < k)
    <3>1. CASE Len(Taken) < l
        BY <1>2, <2>2, <3>1
    <3>2. CASE ~(Len(Taken) < l)
        BY <1>3, <2>2, <3>2 DEF OrderInv, TakenInOrder
    <3>3. QED
        BY <3>1, <3>2
  <2>3. QED
      BY <2>1, <2>2
<1>9. QED
    BY <1>4, <1>5, <1>7, <1>8 DEF OrderInv

\* A call is noted: of another thread, which begins, or of the loop thread, which takes the
\* message at once.
LEMMA OrderSent ==
    ASSUME TypeOK, OrderInv, NEW th \in Thread, NEW m \in Msg, Sends(th, m),
           UNCHANGED queue, Takes(m), Taken' \in Seq(Byte),
           \/ th = LoopThread /\ UNCHANGED call
           \/ /\ th \in Caller /\ UNCHANGED Taken
              /\ call' = [call EXCEPT ![th] = [op |-> "send", msg |-> m]]
    PROVE  OrderInv'
<1> DEFINE n == Len(sent) + 1
<1>1. /\ n \in Nat /\ Calls' = Calls \cup {n}
      /\ \A i \in Calls : i \in Nat /\ i < n /\ sent'[i] = sent[i] /\ sent[i].msg # m
      /\ sent'[n].by = th /\ sent'[n].msg = m
    BY OrderTypes DEF TypeOK, Sends, Calls
<1> HIDE DEF n
<1>2. /\ Len(Taken) \in Nat /\ Len(Taken') \in Nat /\ Len(queue) \in Nat
      /\ \A i \in Calls : sent[i].msg \in Msg
      /\ \A k \in 1 .. Len(Taken') :
            IF Len(Taken) < k THEN Taken'[k][1] = m
                              ELSE k \in 1 .. Len(Taken) /\ Taken'[k] = Taken[k]
    BY OrderTypes DEF Takes
<1>3. \A t \in Caller : IF t = th THEN call'[t].msg = m ELSE call'[t] = call[t]
    BY LinkAssumption DEF TypeOK
<1>4. /\ \A k \in 1 .. Len(Taken) : Taken[k][1] # m
      /\ \A p \in 1 .. Len(queue) : queue[p].msg # m
      /\ \A t \in Caller : call[t].msg # m
  <2>1. \A k \in 1 .. Len(Taken) : Taken[k][1] # m
      BY <1>1 DEF OrderInv, KnownInv
  <2>2. \A p \in 1 .. Len(queue) : queue[p].msg # m
      BY <1>1 DEF OrderInv, KnownInv
  <2>3. \A t \in Caller : call[t].msg # m
      BY <1>1 DEF OrderInv, KnownInv
  <2>4. QED
      BY <2>1, <2>2, <2>3
<1>5. KnownInv'
  <2>1. \A i, j \in Calls' : sent'[i].msg = sent'[j].msg => i = j
      BY <1>1 DEF OrderInv, KnownInv
  <2>2. \A k \in 1 .. Len(Taken') : \E i \in Calls' : sent'[i].msg = Taken'[k][1]
    <3>1. \A k \in 1 .. Len(Taken') : Taken'[k][1] = m \/ \E i \in Calls : sent[i].msg = Taken'[k][1]
        BY <1>2 DEF OrderInv, KnownInv
    <3>2. QED
        BY <1>1, <3>1
  <2>3. \A p \in 1 .. Len(queue) : queue[p].msg \in Msg => \E i \in Calls' : sent'[i].msg = queue[p].msg
      BY <1>1 DEF OrderInv, KnownInv
  <2>4. \A t \in Caller : call'[t].msg \in Msg => \E i \in Calls' : sent'[i].msg = call'[t].msg
      BY <1>1, <1>3 DEF OrderInv, KnownInv
  <2>5. QED
      BY <2>1, <2>2, <2>3, <2>4 DEF KnownInv
<1>6. LastCallInv'
  <2> SUFFICES ASSUME NEW t \in Caller, NEW i \in Calls', call'[t].msg = sent'[i].msg
               PROVE  sent'[i].by = t /\ \A j \in Calls' : i < j => sent'[j].by # t
      BY DEF LastCallInv
  <2>1. CASE t = th
      BY <1>1, <1>3, <2>1
  <2>2. CASE t # th
      BY <1>1, <1>3, <1>4, <2>2 DEF OrderInv, LastCallInv
  <2>3. QED
      BY <2>1, <2>2
<1>7. QueuedInv'
  <2> SUFFICES ASSUME NEW p \in 1 .. Len(queue), NEW i \in Calls', queue[p].msg = sent'[i].msg
               PROVE  /\ sent'[i].by \in Caller
                      /\ \A j \in Calls' : i < j /\ sent'[j].by = sent'[i].by =>
                            /\ \A k \in 1 .. Len(Taken') : Taken'[k][1] # sent'[j].msg
                            /\ \A q \in 1 .. Len(queue) : queue[q].msg = sent'[j].msg => p < q
      BY DEF QueuedInv
  <2>1. i \in Calls /\ sent'[i] = sent[i]
      BY <1>1, <1>4
  <2>2. sent[i].by \in Caller
      BY <2>1 DEF OrderInv, QueuedInv
  <2>3. ASSUME NEW j \in Calls, i < j, sent'[j].by = sent'[i].by
        PROVE  /\ \A k \in 1 .. Len(Taken') : Taken'[k][1] # sent'[j].msg
               /\ \A q \in 1 .. Len(queue) : queue[q].msg = sent'[j].msg => p < q
    <3>1. sent'[j] = sent[j] /\ sent[j].msg # m /\ sent[j].by = sent[i].by
        BY <1>1, <2>1, <2>3
    <3>2. /\ \A k \in 1 .. Len(Taken) : Taken[k][1] # sent[j].msg
          /\ \A q \in 1 .. Len(queue) : queue[q].msg = sent[j].msg => p < q
        BY <2>1, <2>3, <3>1 DEF OrderInv, QueuedInv
    <3>3. QED
        BY <1>2, <3>1, <3>2
  <2>4. ASSUME th = sent[i].by
        PROVE  /\ \A k \in 1 .. Len(Taken') : Taken'[k][1] # m
               /\ \A q \in 1 .. Len(queue) : queue[q].msg = m => p < q
      BY <1>4, <2>2, <2>4, LinkAssumption
  <2>5. QED
      BY <1>1, <2>1, <2>2, <2>3, <2>4
<1>8. TakenInOrder'
  <2> SUFFICES ASSUME NEW i \in Calls', NEW j \in Calls', i < j, sent'[i].by = sent'[j].by,
                      NEW k \in 1 .. Len(Taken'), NEW l \in 1 .. Len(Taken'),
                      Taken'[k][1] = sent'[i].msg, Taken'[l][1] = sent'[j].msg
               PROVE  k < l
      BY DEF TakenInOrder
  <2>1. i \in Calls /\ sent'[i] = sent[i] /\ sent[i].msg # m
      BY <1>1
  <2>2. k \in 1 .. Len(Taken) /\ Taken'[k] = Taken[k]
      BY <1>2, <2>1
  <2>3. CASE Len(Taken) < l
      BY <1>2, <2>2, <2>3
  <2>4. CASE ~(Len(Taken) < l)
    <3>1. l \in 1 .. Len(Taken) /\ Taken'[l] = Taken[l]
        BY <1>2, <2>4
    <3>2. j \in Calls /\ sent'[j] = sent[j]
        BY <1>1, <1>4, <3>1
    <3>3. QED
        BY <2>1, <2>2, <3>1, <3>2 DEF OrderInv, TakenInOrder
  <2>5. QED
      BY <2>3, <2>4
<1>9. QED
    BY <1>5, <1>6, <1>7, <1>8 DEF OrderInv

\* A functor is queued, and if it is that of a call the call returns.
LEMMA OrderQueue ==
    ASSUME TypeOK, OrderInv, NEW op, NEW m \in Msg \cup {NoMsg}, Queue(op, m),
           UNCHANGED <<sent, Taken>>,
           \/ m = NoMsg /\ UNCHANGED call
           \/ \E th \in Caller : /\ call[th].msg = m
                                 /\ call' = [call EXCEPT ![th] = [op |-> "none", msg |-> NoMsg]]
    PROVE  OrderInv'
<1> DEFINE n == Len(queue) + 1
<1>1. /\ n \in Nat /\ Len(queue) \in Nat /\ Len(queue') = n
      /\ \A p \in 1 .. n : IF p = n THEN queue'[p].msg = m
                                    ELSE p \in 1 .. Len(queue) /\ p < n /\ queue'[p] = queue[p]
    BY DEF TypeOK, Queue
<1> HIDE DEF n
<1>2. /\ Calls' = Calls /\ UNCHANGED <<sent, Taken>>
      /\ \A i \in Calls : sent[i].msg \in Msg /\ sent[i].msg # NoMsg
    BY OrderTypes, LinkAssumption DEF Calls
<1>3. \A th \in Caller : call'[th].msg = call[th].msg \/ call'[th].msg = NoMsg
  <2>1. call \in [Caller -> Call]
      BY DEF TypeOK
  <2>2. QED
      BY <2>1
<1>4. ASSUME NEW i \in Calls, sent[i].msg = m
      PROVE  /\ sent[i].by \in Caller
             /\ \A j \in Calls : i < j => sent[j].by # sent[i].by
    BY <1>2, <1>4 DEF OrderInv, LastCallInv
<1>5. KnownInv'
  <2>1. m \in Msg => \E i \in Calls : sent[i].msg = m
      BY LinkAssumption DEF OrderInv, KnownInv
  <2>2. QED
      BY <1>1, <1>2, <1>3, <2>1, LinkAssumption DEF OrderInv, KnownInv
<1>6. LastCallInv'
    BY <1>2, <1>3 DEF OrderInv, LastCallInv
<1>7. QueuedInv'
  <2> SUFFICES ASSUME NEW p \in 1 .. n, NEW i \in Calls, queue'[p].msg = sent[i].msg
               PROVE  /\ sent[i].by \in Caller
                      /\ \A j \in Calls : i < j /\ sent[j].by = sent[i].by =>
                            /\ \A k \in 1 .. Len(Taken) : Taken[k][1] # sent[j].msg
                            /\ \A q \in 1 .. n : queue'[q].msg = sent[j].msg => p < q
      BY <1>1, <1>2 DEF QueuedInv
  <2>1. CASE p = n
      BY <1>1, <1>4, <2>1
  <2>2. CASE p # n
    <3>1. p \in 1 .. Len(queue) /\ queue[p].msg = sent[i].msg /\ p < n
        BY <1>1, <2>2
    <3>2. /\ sent[i].by \in Caller
          /\ \A j \in Calls : i < j /\ sent[j].by = sent[i].by =>
                /\ \A k \in 1 .. Len(Taken) : Taken[k][1] # sent[j].msg
                /\ \A q \in 1 .. Len(queue) : queue[q].msg = sent[j].msg => p < q
        BY <3>1 DEF OrderInv, QueuedInv
    <3>3. QED
        BY <1>1, <3>1, <3>2
  <2>3. QED
      BY <2>1, <2>2
<1>8. TakenInOrder'
    BY <1>2 DEF OrderInv, TakenInOrder
<1>9. QED
    BY <1>5, <1>6, <1>7, <1>8 DEF OrderInv

\* Without a callback in between, sendInLoop() takes its message as a whole or not at all.
LEMMA SendTakes ==
    ASSUME ~HighWater, TypeOK, NEW m \in Msg, SendInLoop(m)
    PROVE  Takes(m)
<1> DEFINE direct == ~Writing /\ output = <<>>
<1>1. output \in Seq(Byte) /\ wire \in Seq(Byte)
    BY DEF TypeOK
<1>2. CASE UNCHANGED <<wire, output>>
  <2>1. Taken' = Taken /\ Len(Taken) \in Nat
      BY <1>1, <1>2 DEF Taken
  <2>2. QED
      BY <2>1 DEF Takes
<1>3. ASSUME NEW n \in 0 .. 2, direct \/ n = 0,
             wire' = wire \o SubSeq(Bytes(m), 1, n),
             \/ n = 2 /\ UNCHANGED output
             \/ n < 2 /\ output' = output \o SubSeq(Bytes(m), n + 1, 2)
      PROVE  Takes(m)
  <2> DEFINE u == SubSeq(Bytes(m), 1, n)
             v == SubSeq(Bytes(m), n + 1, 2)
  <2>1. /\ u \in Seq(Byte) /\ v \in Seq(Byte)
        /\ \A k \in 1 .. Len(u) : u[k][1] = m
        /\ \A k \in 1 .. Len(v) : v[k][1] = m
        /\ n = 0 => u = <<>>
        /\ n = 2 => v = <<>>
    <3>1. Len(Bytes(m)) = 2 /\ Bytes(m) \in Seq(Byte) /\ \A k \in 1 .. 2 : Bytes(m)[k][1] = m
        BY MessageParts DEF Bytes
    <3>2. n = 0 \/ n = 1 \/ n = 2
        OBVIOUS
    <3> DEFINE b == Bytes(m)
    <3> HIDE DEF b
    <3>3. Len(b) = 2 /\ b \in Seq(Byte) /\ \A k \in 1 .. 2 : b[k][1] = m
        BY <3>1 DEF b
    <3>4. /\ \A k \in 1 .. Len(SubSeq(b, 1, n)) : SubSeq(b, 1, n)[k][1] = m
          /\ \A k \in 1 .. Len(SubSeq(b, n + 1, 2)) : SubSeq(b, n + 1, 2)[k][1] = m
        BY <3>2, <3>3
    <3>5. n = 0 => u = <<>>
        BY SubSeqEmpty, <3>1
    <3>6. QED
        BY <3>4, <3>5, MessageParts DEF b
  <2> HIDE DEF u, v
  <2>2. wire' = wire \o u /\ output' = output \o v
    <3>1. output \o <<>> = output
        BY <1>1, ConcatEmptySeq
    <3>2. wire' = wire \o u
        BY <1>3 DEF u
    <3>3. n < 2 => output' = output \o v
      <4>1. n < 2 => n # 2
          OBVIOUS
      <4>2. n < 2 => output' = output \o SubSeq(Bytes(m), n + 1, 2)
          BY <1>3, <4>1
      <4>3. QED
          BY <4>2 DEF v
    <3>4. n = 2 => output' = output \o v
        BY <1>3, <2>1, <3>1
    <3>5. QED
        BY <3>2, <3>3, <3>4
  <2>3. u = <<>> \/ output = <<>>
      BY <1>3, <2>1
  <2>4. QED
    <3>1. CASE u = <<>>
      <4>1. wire' = wire
          BY <1>1, <2>2, <3>1, ConcatEmptySeq
      <4>2. Taken' = wire \o (output \o v)
          BY <2>2, <4>1 DEF Taken
      <4>3. QED
          BY <1>1, <2>1, <4>2 DEF Takes, Taken
    <3>2. CASE output = <<>>
      <4>1. output' = v /\ Taken = wire
          BY <1>1, <2>1, <2>2, <3>2, ConcatEmptySeq DEF Taken
      <4>2. Taken' = (wire \o u) \o v
          BY <2>2, <4>1 DEF Taken
      <4>3. QED
          BY <1>1, <2>1, <4>1, <4>2 DEF Takes
    <3>3. QED
        BY <2>3, <3>1, <3>2
<1>4. CASE state_ = "Disconnected" \/ (direct /\ (broken \/ fin))
    BY <1>2, <1>4 DEF SendInLoop
<1>5. CASE ~(state_ = "Disconnected" \/ (direct /\ (broken \/ fin)))
  <2>1. PICK n \in IF direct THEN 0 .. 2 ELSE {0} :
            /\ wire' = wire \o SubSeq(Bytes(m), 1, n)
            /\ \/ n = 2 /\ UNCHANGED output
               \/ n < 2 /\ output' = output \o SubSeq(Bytes(m), n + 1, 2)
      BY <1>5 DEF SendInLoop, AppendOutput
  <2>2. n \in 0 .. 2 /\ (direct \/ n = 0)
      BY <2>1
  <2>3. QED
      BY <1>3, <2>1, <2>2
<1>6. QED
    BY <1>4, <1>5

\* A write moves bytes from the buffer to the socket.
LEMMA WriteMoves ==
    ASSUME TypeOK, NEW n \in 1 .. Len(output), HandleWrite(n)
    PROVE  Taken' = Taken
<1>1. output \in Seq(Byte) /\ wire \in Seq(Byte) /\ Len(output) \in Nat
    BY DEF TypeOK
<1>2. output = SubSeq(output, 1, n) \o SubSeq(output, n + 1, Len(output))
    BY <1>1
<1>3. /\ SubSeq(output, 1, n) \in Seq(Byte)
      /\ SubSeq(output, n + 1, Len(output)) \in Seq(Byte)
    BY <1>1, PieceType
<1>4. /\ wire' = wire \o SubSeq(output, 1, n)
      /\ output' = SubSeq(output, n + 1, Len(output))
    BY DEF HandleWrite
<1> DEFINE u == SubSeq(output, 1, n)
           v == SubSeq(output, n + 1, Len(output))
<1> HIDE DEF u, v
<1>5. (wire \o u) \o v = wire \o (u \o v)
  <2>1. wire \in Seq(Byte) /\ u \in Seq(Byte) /\ v \in Seq(Byte)
      BY <1>1, <1>3 DEF u, v
  <2>2. QED
      BY <2>1, ConcatAssociative
<1>6. QED
    BY <1>2, <1>4, <1>5 DEF Taken, u, v

LEMMA TakesNothing == ASSUME TypeOK, Taken' = Taken, NEW m PROVE Takes(m)
    BY OrderTypes DEF Takes

LEMMA OrderStep ==
    ASSUME ~HighWater, TypeOK, TypeOK', StreamInv, OrderInv, [Next]_vars
    PROVE  OrderInv'
<1> USE DEF link, stream, users, loop
<1>1. Taken' \in Seq(Byte) /\ (UNCHANGED <<wire, output>> => Taken' = Taken)
  <2>1. wire' \in Seq(Byte) /\ output' \in Seq(Byte)
      BY DEF TypeOK
  <2>2. QED
      BY <2>1, ConcatProperties DEF Taken
<1>2. ASSUME UNCHANGED <<sent, queue, wire, output, call>> PROVE OrderInv'
    BY <1>1, <1>2, OrderStutter
<1>3. CASE HandleEvent \/ \E ready \in SUBSET {"in", "out"} : PollEvent(ready)
  <2>1. ASSUME NEW n \in 1 .. Len(output), HandleWrite(n) PROVE OrderInv'
    <3>1. UNCHANGED <<sent, queue, call>>
        BY <2>1 DEF HandleWrite
    <3>2. QED
        BY <2>1, <3>1, WriteMoves, OrderStutter
  <2>2. ASSUME NEW ready \in SUBSET {"in", "out"}, PollEvent(ready) PROVE OrderInv'
      BY <1>2, <2>2 DEF PollEvent
  <2>3. CASE Dispatch \/ NothingRead \/ ReadData \/ ReadEnd \/ ReadDestroyed \/ NothingWritten
      BY <1>2, <2>3 DEF Dispatch, NothingRead, ReadData, ReadEnd, ReadDestroyed, NothingWritten
  <2>4. QED
      BY <1>3, <2>1, <2>2, <2>3 DEF HandleEvent
<1>4. CASE RunFunctor
  <2>1. queue # <<>> /\ queue' = Tail(queue) /\ UNCHANGED <<sent, call>>
      BY <1>4 DEF RunFunctor, RunPrepare, RunSend, RunShutdown, RunForceClose, RunDangling,
                  NextFunctor
  <2>2. CASE RunSend
    <3>1. Head(queue).msg \in Msg
      <4>1. Head(queue) \in Functor /\ Head(queue).op = "send"
          BY <2>2, HeadTailTypes DEF TypeOK, RunSend, NextFunctor
      <4>2. QED
          BY <4>1 DEF Functor
    <3>2. SendInLoop(Head(queue).msg)
        BY <2>2 DEF RunSend
    <3>3. QED
        BY <1>1, <2>1, <3>1, <3>2, SendTakes, OrderRun
  <2>3. CASE RunPrepare \/ RunShutdown \/ RunForceClose \/ RunDangling
    <3>1. UNCHANGED <<wire, output>>
        BY <2>3 DEF RunPrepare, RunShutdown, RunForceClose, RunDangling
    <3>2. QED
        BY <1>1, <2>1, <3>1, TakesNothing, OrderRun
  <2>4. QED
      BY <1>4, <2>2, <2>3 DEF RunFunctor
<1>5. CASE UserReturn
  <2>1. ~HighWaterReturn
      BY DEF HighWaterReturn, StreamInv
  <2>2. CASE MessageReturn \/ CompleteReturn \/ CallbackReturn
      BY <1>2, <2>2 DEF MessageReturn, CompleteReturn, CallbackReturn
  <2>3. QED
      BY <1>5, <2>1, <2>2 DEF UserReturn
<1>6. CASE UserCode
  <2>1. ASSUME NEW m \in Msg, LoopSend(m) PROVE OrderInv'
    <3>1. Sends(LoopThread, m) /\ SendInLoop(m) /\ UNCHANGED <<queue, call>>
        BY <2>1 DEF LoopSend
    <3>2. LoopThread \in Thread
        BY DEF Thread
    <3>3. QED
        BY <1>1, <3>1, <3>2, SendTakes, OrderSent
  <2>2. CASE LoopForceClose
    <3>1. Queue("forceClose", NoMsg) /\ UNCHANGED <<sent, call, wire, output>>
        BY <2>2 DEF LoopForceClose
    <3>2. QED
        BY <1>1, <3>1, OrderQueue
  <2>3. CASE OtherCode \/ LoopShutdown \/ \E th \in Thread : Share(th)
      BY <1>2, <2>3 DEF OtherCode, LoopShutdown, Share
  <2>4. QED
      BY <1>6, <2>1, <2>2, <2>3 DEF UserCode
<1>7. ASSUME NEW th \in Caller, CallerStep(th) PROVE OrderInv'
  <2>1. ASSUME NEW m \in Msg, Send(th, m) PROVE OrderInv'
    <3>1. /\ Sends(th, m) /\ UNCHANGED <<queue, wire, output>>
          /\ call' = [call EXCEPT ![th] = [op |-> "send", msg |-> m]]
        BY <2>1 DEF Send, Begin
    <3>2. th \in Thread
        BY DEF Thread
    <3>3. QED
        BY <1>1, <3>1, <3>2, TakesNothing, OrderSent
  <2>2. CASE Shutdown(th) \/ ForceClose(th) \/ SetDisconnecting(th)
    <3>1. call \in [Caller -> Call] /\ (call[th].op = "none" => call[th].msg = NoMsg)
      <4>1. call \in [Caller -> Call]
          BY DEF TypeOK
      <4>2. QED
          BY <4>1 DEF Call
    <3>2. UNCHANGED <<sent, queue, wire, output>>
        BY <2>2 DEF Shutdown, ForceClose, SetDisconnecting
    <3>3. \A t \in Caller : call'[t].msg = call[t].msg
      <4>1. CASE Shutdown(th) \/ ForceClose(th)
          BY <3>1, <4>1 DEF Shutdown, ForceClose, Begin
      <4>2. CASE SetDisconnecting(th)
          BY <3>1, <4>2 DEF SetDisconnecting, Call
      <4>3. QED
          BY <2>2, <4>1, <4>2
    <3>4. QED
        BY <1>1, <3>2, <3>3, OrderStutter
  <2>3. CASE QueueCall(th)
    <3>1. /\ call' = [call EXCEPT ![th] = [op |-> "none", msg |-> NoMsg]]
          /\ UNCHANGED <<sent, wire, output>>
          /\ \E op : Queue(op, call[th].msg)
        BY <2>3 DEF QueueCall
    <3>2. call[th].msg \in Msg \cup {NoMsg}
        BY OrderTypes
    <3>3. QED
        BY <1>1, <3>1, <3>2, OrderQueue
  <2>4. QED
      BY <1>7, <2>1, <2>2, <2>3 DEF CallerStep, FinishCall
<1>8. CASE Reset \/ \E th \in Thread : Release(th)
    BY <1>2, <1>8 DEF Reset, Release
<1>9. CASE UNCHANGED vars
    BY <1>2, <1>9 DEF vars
<1>10. QED
    BY <1>3, <1>4, <1>5, <1>6, <1>7, <1>8, <1>9 DEF Next

\* Without a high-water-mark callback, what a thread sends leaves in the order of its calls,
\* whether each was carried out at once or through the queue (send(), runInLoop()).
THEOREM SentInOrderHolds ==
    ASSUME ~HighWater
    PROVE  Safety => []SentInOrder
<1>1. TypeOK /\ TypeOK' /\ StreamInv /\ OrderInv /\ [Next]_vars => OrderInv'
    BY OrderStep
<1>2. OrderInv => SentInOrder
    BY DEF OrderInv, TakenInOrder, SentInOrder, Calls, Taken
<1>3. QED
    BY <1>1, <1>2, OrderInit, LinkTypeCorrect, StreamInvariant, PTL DEF Safety
===============================================================================
