------------------------------- MODULE MCHttp -------------------------------
(* Three versions of each file: the second is written in the same second as *)
(* the first and is as long, the third is shorter.                          *)
EXTENDS Http

MCSize == <<2, 2, 1>>
MCSecond == <<1, 1, 2>>
=============================================================================
