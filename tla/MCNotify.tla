------------------------------ MODULE MCNotify ------------------------------
(* p1 waits with a timeout and p2 without; p1 has a place for one guard,   *)
(* and the thread p3 for two.                                              *)
EXTENDS Notify, TLC

CONSTANTS p1, p2, p3, g1, g2, g3

OfDef      == g1 :> p1 @@ g2 :> p3 @@ g3 :> p3
MayCallDef == p1 :> [predicate : BOOLEAN, timed : {TRUE}] @@
              p2 :> [predicate : {TRUE}, timed : {FALSE}]
=============================================================================
