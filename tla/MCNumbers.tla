------------------------------ MODULE MCNumbers ------------------------------
(* The components that compute with numbers, each a machine of its own: in  *)
(* a behaviour one of them, the subject, is used and the others stay as     *)
(* they began.                                                              *)
EXTENDS Numbers, Time

VARIABLE subject

timeVars == <<dur, instant, exact, instantExact, lapse>>

\* The others begin in one state each.
MCInit ==
    /\ subject \in {"NumberCycle", "SystemTime", "IntegerText", "Time"}
    /\ NumberCycleInit
    /\ SystemTimeInit /\ (subject # "SystemTime" => ~inTicks)
    /\ IF subject = "IntegerText" THEN IntegerTextInit ELSE conv = PrintOf("unsigned", 0)
    /\ Init

MCNext ==
    /\ UNCHANGED subject
    /\ \/ /\ subject = "NumberCycle" /\ NumberCycleNext
          /\ UNCHANGED <<systemTimeVars, conv, timeVars>>
       \/ /\ subject = "SystemTime" /\ SystemTimeNext
          /\ UNCHANGED <<numberCycleVars, conv, timeVars>>
       \/ /\ subject = "IntegerText" /\ IntegerTextNext
          /\ UNCHANGED <<numberCycleVars, systemTimeVars, timeVars>>
       \/ /\ subject = "Time" /\ Next
          /\ UNCHANGED <<numberCycleVars, systemTimeVars, conv>>

MCSpec == MCInit /\ [][MCNext]_<<subject, numberCycleVars, systemTimeVars, conv, timeVars>>

-----------------------------------------------------------------------------
(* The ends of ranges, the texts that are parsed, and the digits that the  *)
(* code writes down.                                                       *)

S == INSTANCE SequencesExt

EndsDef == {MIN_INT, MIN_INT + 1, 0, 1, MAX_INT}

ParsedDef ==
    S!SeqOf({Minus, 1, 2, 8}, 4) \cup S!SeqOf({Junk, 0, 5, 6}, 2)
      \cup {<<2, 5, 5>>, <<2, 5, 6>>, <<Minus, 2, 5, 6>>, <<0, 0, 1>>, <<1, Junk, 2>>}

SmallestDef == <<1, 2, 8>>
WideDef     == <<2, 5, 6>>

=============================================================================
