------------------------------- MODULE Numbers -------------------------------
(***************************************************************************)
(* The components that compute with numbers, side by side: they share      *)
(* nothing.                                                                *)
(***************************************************************************)
EXTENDS NumberCycle, SystemTime, IntegerText

\* After any calls to any of them they give the right numbers, each but for the
\* exceptions its own property names (NumberCycle.hpp, SystemTime.cpp,
\* util.hpp).
NumbersRight == CycleRight /\ SystemTimeRight /\ TextsRight

=============================================================================
