----------------------------- MODULE MCNutRoute -----------------------------
(* Three servers in a row.  c calls a, which makes them a ring.  When a loses its  *)
(* connection to b it calls b again, which has too many connections as long as it  *)
(* is connected to c.                                                              *)
EXTENDS NutRoute

CONSTANTS a, b, c

MCLink == {<<a, b>>, <<b, c>>}
MCHosts == [n \in Node |-> CASE n = a -> {b} [] n = b -> {} [] n = c -> {a}]
MCConnections == [n \in Node |-> CASE n = a -> 1 [] n = b -> 0 [] n = c -> 2]
=============================================================================
