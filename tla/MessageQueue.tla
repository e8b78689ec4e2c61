---------------------------- MODULE MessageQueue ----------------------------
(***************************************************************************)
(* What asp::Channel promises, whatever threads use it: messages come out  *)
(* once each, in the order in which they were sent, and a receiver comes   *)
(* back with nothing only at a moment when there is nothing to receive.    *)
(* No lock, condition variable or timeout appears here.                    *)
(***************************************************************************)
EXTENDS Naturals, Sequences

CONSTANTS Procs,   \* the threads that send and receive
          Msgs,    \* the messages
          NoMsg    \* std::nullopt

VARIABLES sent,    \* every message sent so far, in order
          taken,   \* how many of them have been received
          last     \* last[p]: what p's most recent receive returned

vars == <<sent, taken, last>>

Init ==
    /\ sent = <<>>
    /\ taken = 0
    /\ last = [p \in Procs |-> NoMsg]

Send(m) ==
    /\ sent' = Append(sent, m)
    /\ UNCHANGED <<taken, last>>

Deliver(p) ==
    /\ taken < Len(sent)
    /\ taken' = taken + 1
    /\ last' = [last EXCEPT ![p] = sent[taken + 1]]
    /\ UNCHANGED sent

Miss(p) ==
    /\ taken = Len(sent)
    /\ last' = [last EXCEPT ![p] = NoMsg]
    /\ UNCHANGED <<sent, taken>>

Next ==
    \/ \E m \in Msgs : Send(m)
    \/ \E p \in Procs : Deliver(p) \/ Miss(p)

Spec == Init /\ [][Next]_vars
=============================================================================
