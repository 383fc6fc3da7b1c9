---------------------------- MODULE MCRecvBuffer ----------------------------
(* RecvBuffer with boundaries as sequences of model bytes. *)
EXTENDS RecvBuffer

CONSTANTS a, n

\* One byte, two bytes that may overlap themselves such as an empty line, and
\* packets of a fixed size.
AllBoundaries == {<<n>>, <<n, n>>, <<a, n>>, <<>>}
NoBoundary == {<<>>}
=============================================================================
