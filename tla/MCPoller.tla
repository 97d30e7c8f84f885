------------------------------- MODULE MCPoller -------------------------------
(* The instances of Poller that TLC explores.  Descriptor numbers play the same *)
(* part until they are handed out; so do the links of a server, and of a client. *)
EXTENDS Poller, TLC

Symmetry == Permutations(Fd) \cup Permutations(ServerLink)
            \cup Permutations(ClientLink)
===============================================================================
