----------------------------- MODULE MCSockList -----------------------------
(* SockList on a few addresses. *)
EXTENDS SockList, TLC

Symmetry == Permutations(Sock)
=============================================================================
