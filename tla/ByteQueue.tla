------------------------------- MODULE ByteQueue -------------------------------
(***************************************************************************)
(* What a Buffer promises: a queue of bytes that is written at its end and *)
(* read from its front, where what was written last can be taken back and  *)
(* a header put before what was written first.                             *)
(***************************************************************************)
EXTENDS Naturals, Sequences

VARIABLE content

Init == content = <<>>

Push(data) == content' = content \o data

Pop(n) == n <= Len(content) /\ content' = SubSeq(content, n + 1, Len(content))

TakeBack(n) == n <= Len(content) /\ content' = SubSeq(content, 1, Len(content) - n)

PushFront(data) == content' = data \o content
===============================================================================
