------------------------------- MODULE MCIrc -------------------------------
(* The addresses of sockets and clients, the nicks and the channel names are
   interchangeable. *)
EXTENDS Irc, TLC

Symmetry ==
    Permutations(Sock) \cup Permutations(Client) \cup Permutations(Nick) \cup Permutations(Chan)
=============================================================================
