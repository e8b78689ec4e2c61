--------------------------- MODULE Channel_proofs ---------------------------
(***************************************************************************)
(* Theorems about Channel, for any finite set of threads, any messages and *)
(* any bound on how many are sent.                                         *)
(***************************************************************************)
EXTENDS Channel, SequenceTheorems, FiniteSetTheorems, TLAPS

-----------------------------------------------------------------------------
(* Sequences.                                                              *)

\* What push does to a queue: one element longer, the others where they were.
LEMMA AppendedSeq ==
    ASSUME NEW S, NEW s \in Seq(S), NEW e \in S
    PROVE  /\ Append(s, e) \in Seq(S)
           /\ Len(Append(s, e)) = Len(s) + 1
           /\ \A i \in 1..Len(s) : Append(s, e)[i] = s[i]
           /\ Append(s, e)[Len(s) + 1] = e
  BY AppendProperties, LenProperties

\* What doPop does to a queue: the front goes, the others move up by one.
LEMMA PoppedSeq ==
    ASSUME NEW S, NEW s \in Seq(S), s # <<>>
    PROVE  /\ Head(s) \in S
           /\ Tail(s) \in Seq(S)
           /\ Len(s) \in Nat \ {0}
           /\ Len(Tail(s)) = Len(s) - 1
           /\ Head(s) = s[1]
           /\ \A i \in 1..Len(Tail(s)) : Tail(s)[i] = s[i + 1]
  BY HeadTailProperties, EmptySeq

-----------------------------------------------------------------------------
(* Type correctness.                                                       *)

\* Every state of the channel is well typed, and a thread is inside a
\* blocking operation exactly while the condition variable knows it
\* (Channel.hpp 49-79).
THEOREM TypeCorrect == Spec => []TypeOK
<1>1. Init => TypeOK
  BY EmptySeq DEF Init, TypeOK, Calls, CvStates
<1>2. TypeOK /\ [Next]_vars => TypeOK'
  <2> SUFFICES ASSUME TypeOK, [Next]_vars
               PROVE  TypeOK'
    OBVIOUS
  <2> USE DEF TypeOK, Calls, CvStates
  <2>1. ASSUME NEW p \in Procs, NEW m \in Msgs, Push(p, m)
        PROVE  TypeOK'
    <3>1. queue' \in Seq(Msgs) /\ sent' \in Seq(Msgs)
      BY <2>1, AppendedSeq DEF Push
    <3>2. QED
      BY <2>1, <3>1 DEF Push, NotifyOne, Asleep, Idle
  <2>2. ASSUME NEW p \in Procs, DoPop(p)
        PROVE  /\ queue' \in Seq(Msgs) /\ sent' \in Seq(Msgs)
               /\ last' \in [Procs -> Msgs \cup {NoMsg}]
    BY <2>2, PoppedSeq DEF DoPop
  <2>3. ASSUME NEW p \in Procs, TryPop(p)
        PROVE  TypeOK'
    BY <2>2, <2>3 DEF TryPop, Nothing
  <2>4. ASSUME NEW p \in Procs, PopTimeout(p)
        PROVE  TypeOK'
    BY <2>2, <2>4 DEF PopTimeout, Block
  <2>5. ASSUME NEW p \in Procs, WaitForMessages(p)
        PROVE  TypeOK'
    BY <2>5 DEF WaitForMessages, Block
  <2>6. ASSUME NEW p \in Procs, SpuriousWake(p) \/ Timeout(p)
        PROVE  TypeOK'
    BY <2>6 DEF SpuriousWake, Timeout
  <2>7. ASSUME NEW p \in Procs, WakePop(p)
        PROVE  TypeOK'
    BY <2>2, <2>7 DEF WakePop, Return
  <2>8. ASSUME NEW p \in Procs, WakePeek(p)
        PROVE  TypeOK'
    BY <2>8 DEF WakePeek, Return
  <2>9. ASSUME NEW p \in Procs, WakeAgain(p)
        PROVE  TypeOK'
    BY <2>9 DEF WakeAgain, Block
  <2>10. ASSUME NEW p \in Procs, WakeExpired(p)
         PROVE  TypeOK'
    BY <2>10 DEF WakeExpired, Nothing, Return
  <2>11. CASE UNCHANGED vars
    BY <2>11 DEF vars
  <2> QED
    BY <2>1, <2>3, <2>4, <2>5, <2>6, <2>7, <2>8, <2>9, <2>10, <2>11
    DEF Next, Resume
<1> QED
  BY <1>1, <1>2, PTL DEF Spec

-----------------------------------------------------------------------------
(* What a step can do to the two sequences: nothing, a push, or a pop.     *)

Pushes == \E m \in Msgs : queue' = Append(queue, m) /\ sent' = Append(sent, m)
Pops   == queue # <<>> /\ queue' = Tail(queue) /\ sent' = sent

\* No operation touches the queue in any other way.
LEMMA QueueSteps ==
    ASSUME [Next]_vars
    PROVE  Pushes \/ Pops \/ UNCHANGED <<queue, sent>>
  BY DEF Next, vars, Pushes, Pops, Push, TryPop, PopTimeout, WaitForMessages,
         SpuriousWake, Timeout, Resume, WakePop, WakePeek, WakeAgain,
         WakeExpired, DoPop, Nothing, Block

\* No message is lost, duplicated or overtaken inside the channel: the queue
\* is always the tail end of what was pushed (Channel.hpp 99-122).
THEOREM QueueCorrect == Spec => []QueueIsSuffix
<1>1. Init => QueueIsSuffix
  BY EmptySeq DEF Init, QueueIsSuffix
<1>2. TypeOK /\ QueueIsSuffix /\ [Next]_vars => QueueIsSuffix'
  <2> SUFFICES ASSUME TypeOK, QueueIsSuffix, [Next]_vars
               PROVE  QueueIsSuffix'
    OBVIOUS
  <2>1. /\ queue \in Seq(Msgs) /\ Len(queue) \in Nat
        /\ sent \in Seq(Msgs) /\ Len(sent) \in Nat
    BY LenProperties DEF TypeOK
  <2>2. CASE Pushes
    <3>1. PICK m \in Msgs : queue' = Append(queue, m) /\ sent' = Append(sent, m)
      BY <2>2 DEF Pushes
    <3>2. /\ Len(queue') = Len(queue) + 1
          /\ \A i \in 1..Len(queue) : queue'[i] = queue[i]
          /\ queue'[Len(queue) + 1] = m
      BY <2>1, <3>1, AppendedSeq
    <3>3. /\ Len(sent') = Len(sent) + 1
          /\ \A i \in 1..Len(sent) : sent'[i] = sent[i]
          /\ sent'[Len(sent) + 1] = m
      BY <2>1, <3>1, AppendedSeq
    <3>4. ASSUME NEW i \in 1..Len(queue')
          PROVE  queue'[i] = sent'[Len(sent') - Len(queue') + i]
      <4>1. Len(sent') - Len(queue') + i = Len(sent) - Len(queue) + i
        BY <2>1, <3>2, <3>3
      <4>2. CASE i = Len(queue) + 1
        BY <2>1, <3>2, <3>3, <4>1, <4>2
      <4>3. CASE i # Len(queue) + 1
        <5>1. i \in 1..Len(queue) /\ Len(sent) - Len(queue) + i \in 1..Len(sent)
          BY <2>1, <3>2, <4>3 DEF QueueIsSuffix
        <5> QED
          BY <3>2, <3>3, <4>1, <5>1 DEF QueueIsSuffix
      <4> QED
        BY <4>2, <4>3
    <3> QED
      BY <2>1, <3>2, <3>3, <3>4 DEF QueueIsSuffix
  <2>3. CASE Pops
    <3>1. /\ Len(queue) # 0 /\ Len(queue') = Len(queue) - 1 /\ sent' = sent
          /\ \A i \in 1..Len(queue') : queue'[i] = queue[i + 1]
      BY <2>1, <2>3, PoppedSeq DEF Pops
    <3>2. ASSUME NEW i \in 1..Len(queue')
          PROVE  queue'[i] = sent'[Len(sent') - Len(queue') + i]
      <4>1. i + 1 \in 1..Len(queue)
        BY <2>1, <3>1
      <4>2. Len(sent') - Len(queue') + i = Len(sent) - Len(queue) + (i + 1)
        BY <2>1, <3>1
      <4> QED
        BY <3>1, <4>1, <4>2 DEF QueueIsSuffix
    <3> QED
      BY <2>1, <3>1, <3>2 DEF QueueIsSuffix
  <2>4. CASE UNCHANGED <<queue, sent>>
    BY <2>4 DEF QueueIsSuffix
  <2> QED
    BY <2>2, <2>3, <2>4, QueueSteps
<1> QED
  BY <1>1, <1>2, TypeCorrect, PTL DEF Spec

-----------------------------------------------------------------------------
(* The wake-up invariant.  It needs that nobody is in waitForMessages: such *)
(* a thread would use up a notification and leave the message behind.      *)

PeekersAreKnown == ~peeked => \A p \in Procs : call[p] # "waitForMessages"

\* A thread inside waitForMessages has left its mark.
LEMMA PeekersKnown == Spec => []PeekersAreKnown
<1>1. Init => PeekersAreKnown
  BY DEF Init, PeekersAreKnown
<1>2. TypeOK /\ PeekersAreKnown /\ [Next]_vars => PeekersAreKnown'
  BY DEF TypeOK, PeekersAreKnown, Next, vars, Push, TryPop, PopTimeout,
         WaitForMessages, SpuriousWake, Timeout, Resume, WakePop, WakePeek,
         WakeAgain, WakeExpired, Block, Return
<1> QED
  BY <1>1, <1>2, TypeCorrect, PTL DEF Spec

\* The set of woken threads is finite, and how it grows and shrinks.
LEMMA WokenCount ==
    /\ IsFiniteSet(Woken)
    /\ Cardinality(Woken) \in Nat
    /\ \A p \in Procs \ Woken : Cardinality(Woken \cup {p}) = Cardinality(Woken) + 1
    /\ \A p \in Woken : Cardinality(Woken \ {p}) = Cardinality(Woken) - 1
<1>1. IsFiniteSet(Woken)
  BY ChannelAssumption, FS_Subset DEF Woken
<1> QED
  BY <1>1, FS_CardinalityType, FS_AddElement, FS_RemoveElement

\* As long as anybody sleeps, every message in the queue has a woken receiver
\* on its way to it, until a thread waits in waitForMessages
\* (Channel.hpp 55, 99-111).
THEOREM WakeupCorrect == Spec => []NoLostWakeup
<1>1. Init => NoLostWakeup
  BY DEF Init, NoLostWakeup, Asleep
<1>2. TypeOK /\ PeekersAreKnown /\ NoLostWakeup /\ [Next]_vars => NoLostWakeup'
  <2> SUFFICES ASSUME TypeOK, PeekersAreKnown, NoLostWakeup, [Next]_vars,
                      ~peeked', Asleep' # {}
               PROVE  Len(queue') <= Cardinality(Woken')
    BY DEF NoLostWakeup
  <2>0. ~peeked
    BY DEF Next, vars, TypeOK, Push, TryPop, PopTimeout, WaitForMessages,
           SpuriousWake, Timeout, Resume, WakePop, WakePeek, WakeAgain, WakeExpired
  <2>1. queue \in Seq(Msgs) /\ Len(queue) \in Nat /\ cv \in [Procs -> CvStates]
    BY LenProperties DEF TypeOK
  <2>2. Cardinality(Woken) \in Nat
    BY WokenCount
  <2>3. CASE UNCHANGED <<queue, cv>>
    BY <2>0, <2>3 DEF NoLostWakeup, Woken, Asleep
  <2>4. ASSUME queue' = <<>>
        PROVE  Len(queue') <= Cardinality(Woken')
    <3>1. IsFiniteSet(Woken')
      BY ChannelAssumption, FS_Subset DEF Woken
    <3> QED
      BY <2>4, <3>1, FS_CardinalityType, EmptySeq
  <2>5. ASSUME NEW p \in Procs, NEW m \in Msgs, Push(p, m)
        PROVE  Len(queue') <= Cardinality(Woken')
    <3>1. Len(queue') = Len(queue) + 1
      BY <2>1, <2>5, AppendedSeq DEF Push
    <3>2. PICK q \in Asleep : cv' = [cv EXCEPT ![q] = "signalled"]
      BY <2>5 DEF Push, NotifyOne, Asleep
    <3>3. Woken' = Woken \cup {q} /\ q \in Procs \ Woken
      BY <2>1, <3>2 DEF Woken, Asleep, CvStates
    <3> QED
      BY <2>0, <2>1, <2>2, <3>1, <3>2, <3>3, WokenCount DEF NoLostWakeup
  <2>6. ASSUME NEW p \in Procs, DoPop(p), UNCHANGED cv
        PROVE  Len(queue') <= Cardinality(Woken')
    <3>1. Len(queue') = Len(queue) - 1
      BY <2>1, <2>6, PoppedSeq DEF DoPop
    <3> QED
      BY <2>0, <2>1, <2>2, <2>6, <3>1 DEF NoLostWakeup, Woken, Asleep
  <2>7. ASSUME NEW p \in Procs, SpuriousWake(p) \/ Timeout(p)
        PROVE  Len(queue') <= Cardinality(Woken')
    <3>1. Woken' = Woken \cup {p} /\ p \in Procs \ Woken /\ p \in Asleep
      BY <2>1, <2>7 DEF Woken, Asleep, CvStates, SpuriousWake, Timeout
    <3>2. queue' = queue
      BY <2>7 DEF SpuriousWake, Timeout
    <3> QED
      BY <2>0, <2>1, <2>2, <3>1, <3>2, WokenCount DEF NoLostWakeup
  <2>8. ASSUME NEW p \in Procs, WakePop(p)
        PROVE  Len(queue') <= Cardinality(Woken')
    <3>1. Len(queue') = Len(queue) - 1
      BY <2>1, <2>8, PoppedSeq DEF WakePop, DoPop
    <3>2. Woken' = Woken \ {p} /\ p \in Woken /\ Asleep' = Asleep
      BY <2>1, <2>8 DEF Woken, Asleep, CvStates, WakePop, Return
    <3> QED
      BY <2>0, <2>1, <2>2, <3>1, <3>2, WokenCount DEF NoLostWakeup
  <2>9. ASSUME NEW p \in Procs
        PROVE  /\ ~WakePeek(p)
               /\ Nothing(p) => queue' = <<>>
               /\ \A op : Block(p, op) => queue' = <<>>
    BY <2>0, <2>9 DEF WakePeek, PeekersAreKnown, Nothing, Block
  <2>10. ASSUME NEW p \in Procs,
                TryPop(p) \/ PopTimeout(p) \/ WaitForMessages(p)
                  \/ WakeAgain(p) \/ WakeExpired(p)
         PROVE  Len(queue') <= Cardinality(Woken')
    BY <2>4, <2>6, <2>9, <2>10
    DEF TryPop, PopTimeout, WaitForMessages, WakeAgain, WakeExpired
  <2> QED
    BY <2>3, <2>5, <2>7, <2>8, <2>9, <2>10 DEF Next, Resume, vars
<1> QED
  BY <1>1, <1>2, TypeCorrect, PeekersKnown, PTL DEF Spec

-----------------------------------------------------------------------------
(* Refinement.                                                             *)

\* Of everything a step can do, an observer sees a push, a receive, a receive
\* that came back empty-handed, or nothing.
LEMMA ObservableSteps ==
    ASSUME [Next]_vars
    PROVE  \/ Pushes /\ UNCHANGED last
           \/ \E p \in Procs : DoPop(p) \/ Nothing(p)
           \/ UNCHANGED <<queue, sent, last>>
  BY DEF Next, vars, Pushes, Push, TryPop, PopTimeout, WaitForMessages,
         SpuriousWake, Timeout, Resume, WakePop, WakePeek, WakeAgain,
         WakeExpired, Block

\* The channel implements a FIFO queue: receives return the pushed messages
\* once each and in order, and come back empty-handed only when there is
\* nothing to receive (Channel.hpp 49-111).
THEOREM ChannelIsFifo == Spec => ImplementsFifo
<1> DEFINE taken == Len(sent) - Len(queue)
<1>1. Init => Fifo!Init
  BY EmptySeq DEF Init, Fifo!Init
<1>2. TypeOK /\ QueueIsSuffix /\ [Next]_vars => [Fifo!Next]_(Fifo!vars)
  <2> SUFFICES ASSUME TypeOK, QueueIsSuffix, [Next]_vars
               PROVE  [Fifo!Next]_(Fifo!vars)
    OBVIOUS
  <2>1. /\ queue \in Seq(Msgs) /\ Len(queue) \in Nat
        /\ sent \in Seq(Msgs) /\ Len(sent) \in Nat
        /\ Len(queue) <= Len(sent)
    BY LenProperties DEF TypeOK, QueueIsSuffix
  <2>2. CASE Pushes /\ UNCHANGED last
    <3>1. PICK m \in Msgs : queue' = Append(queue, m) /\ sent' = Append(sent, m)
      BY <2>2 DEF Pushes
    <3>2. Len(queue') = Len(queue) + 1 /\ Len(sent') = Len(sent) + 1
      BY <2>1, <3>1, AppendedSeq
    <3>3. taken' = taken
      BY <2>1, <3>2
    <3>4. Fifo!Send(m)
      BY <2>2, <3>1, <3>3 DEF Fifo!Send
    <3> QED
      BY <3>4 DEF Fifo!Next
  <2>3. ASSUME NEW p \in Procs, DoPop(p)
        PROVE  Fifo!Deliver(p)
    <3>1. /\ Len(queue) # 0 /\ Len(queue') = Len(queue) - 1
          /\ sent' = sent /\ Head(queue) = queue[1]
      BY <2>1, <2>3, PoppedSeq DEF DoPop
    <3>2. taken < Len(sent) /\ taken' = taken + 1
      BY <2>1, <3>1
    <3>3. Head(queue) = sent[taken + 1]
      BY <2>1, <3>1 DEF QueueIsSuffix
    <3> QED
      BY <2>3, <3>2, <3>3 DEF DoPop, Fifo!Deliver
  <2>4. ASSUME NEW p \in Procs, Nothing(p)
        PROVE  Fifo!Miss(p)
    BY <2>1, <2>4, EmptySeq DEF Nothing, Fifo!Miss
  <2>5. CASE UNCHANGED <<queue, sent, last>>
    BY <2>5 DEF Fifo!vars
  <2> QED
    BY <2>2, <2>3, <2>4, <2>5, ObservableSteps DEF Fifo!Next
<1> QED
  BY <1>1, <1>2, TypeCorrect, QueueCorrect, PTL DEF Spec, ImplementsFifo, Fifo!Spec
=============================================================================
