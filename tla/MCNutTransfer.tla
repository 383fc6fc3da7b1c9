--------------------------- MODULE MCNutTransfer ----------------------------
(* Two hosts offer the same file. *)
EXTENDS NutTransfer, TLC

CONSTANTS o1, o2, f

MCFileOf == (o1 :> f) @@ (o2 :> f)
=============================================================================
