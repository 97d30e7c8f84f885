------------------------------- MODULE ByteStream -------------------------------
(***************************************************************************)
(* What a connection promises to its user: one stream of bytes.  What is   *)
(* accepted leaves in the order of acceptance, each byte once, and the end *)
(* of the stream comes after everything accepted before it, unless the     *)
(* peer has cut the connection off, and is final.                          *)
(* Nothing is said of threads, callbacks, partial writes or readiness.     *)
(***************************************************************************)
EXTENDS Naturals, Sequences

CONSTANT Data           \* the pieces of data that can be accepted: sequences

VARIABLES pending,      \* accepted and not yet given to the network
          wire,         \* given to the network
          fin,          \* the end of the stream was given to the network
          cut           \* the peer has ended the connection

vars == <<pending, wire, fin, cut>>

Init == pending = <<>> /\ wire = <<>> /\ fin = FALSE /\ cut = FALSE

\* The first n bytes of bytes leave, the others are kept.
Transmit(bytes, n) ==
    /\ wire' = wire \o SubSeq(bytes, 1, n)
    /\ pending' = SubSeq(bytes, n + 1, Len(bytes))
    /\ UNCHANGED <<fin, cut>>

Accept(d) == ~fin /\ \E n \in 0 .. Len(pending \o d) : Transmit(pending \o d, n)

Leave == ~fin /\ \E n \in 1 .. Len(pending) : Transmit(pending, n)

Finish == /\ ~fin /\ (pending = <<>> \/ cut)
          /\ fin' = TRUE
          /\ UNCHANGED <<pending, wire, cut>>

Cut == cut' = TRUE /\ UNCHANGED <<pending, wire, fin>>

\* What is accepted after that goes nowhere.
Waste(d) == cut /\ Transmit(pending \o d, 0)

Next == (\E d \in Data : Accept(d) \/ Waste(d)) \/ Leave \/ Finish \/ Cut

Safety == Init /\ [][Next]_vars
===============================================================================
