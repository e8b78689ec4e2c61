------------------------------- MODULE Channel -------------------------------
(***************************************************************************)
(* asp::Channel<T> (include/asp/sync/Channel.hpp): a std::queue behind one *)
(* mutex and one condition variable.                                       *)
(*                                                                         *)
(* Every operation runs from its lock to its unlock, or to the point where *)
(* the condition variable releases the mutex, without another operation    *)
(* in between: that stretch is one step.  A wait is three steps: the       *)
(* caller falls asleep, it is woken (by notify_one, by its deadline, or    *)
(* spuriously), and it has the mutex again and looks at the queue.         *)
(* Between the last two any other thread may take the lock first.          *)
(*                                                                         *)
(* A message stands for its payload.  pop() has no step: its last line     *)
(* does not compile when instantiated, so no program calls it.             *)
(***************************************************************************)
EXTENDS Naturals, Sequences, FiniteSets

CONSTANTS Procs,    \* the threads that use the channel
          Peekers,  \* those of them that may call waitForMessages
          Msgs,     \* the messages
          NoMsg,    \* std::nullopt
          MaxSent   \* bound: how many messages are sent in all

ASSUME ChannelAssumption ==
    /\ IsFiniteSet(Procs)
    /\ Peekers \subseteq Procs
    /\ NoMsg \notin Msgs
    /\ MaxSent \in Nat

VARIABLES queue,   \* the std::queue
          call,    \* call[p]: the blocking operation p is inside, if any
          cv,      \* cv[p]: p's place in the condition variable
          sent,    \* history: every message pushed, in order
          last,    \* history: what p's latest pop returned
          peeked   \* history: some thread has slept in waitForMessages

vars == <<queue, call, cv, sent, last, peeked>>

Calls    == {"none", "popTimeout", "waitForMessages"}
CvStates == {"running", "asleep", "signalled", "expired"}

Asleep == {p \in Procs : cv[p] = "asleep"}
Woken  == {p \in Procs : cv[p] \in {"signalled", "expired"}}

Init ==
    /\ queue = <<>>
    /\ call = [p \in Procs |-> "none"]
    /\ cv   = [p \in Procs |-> "running"]
    /\ sent = <<>>
    /\ last = [p \in Procs |-> NoMsg]
    /\ peeked = FALSE

-----------------------------------------------------------------------------
(* The pieces of a critical section.                                       *)

Idle(p) == call[p] = "none"

\* doPop: the front element leaves the queue and is p's result.
DoPop(p) ==
    /\ queue # <<>>
    /\ queue' = Tail(queue)
    /\ last'  = [last EXCEPT ![p] = Head(queue)]
    /\ UNCHANGED sent

\* The result std::nullopt (or popNow's exception).
Nothing(p) ==
    /\ queue = <<>>
    /\ last' = [last EXCEPT ![p] = NoMsg]
    /\ UNCHANGED <<queue, sent>>

\* wait_for with a false predicate: release the mutex and sleep.
Block(p, op) ==
    /\ queue = <<>>
    /\ call' = [call EXCEPT ![p] = op]
    /\ cv'   = [cv EXCEPT ![p] = "asleep"]
    /\ UNCHANGED <<queue, sent, last>>

\* Mistake: only the push that makes the queue non-empty notifies.
NotifyWhenEmpty ==
    \/ /\ Asleep = {} \/ queue # <<>>
       /\ UNCHANGED cv
    \/ /\ queue = <<>>
       /\ \E q \in Asleep : cv' = [cv EXCEPT ![q] = "signalled"]

\* notify_one: some sleeper, if there is one, leaves the wait set.
NotifyOne ==
    \/ /\ Asleep = {}
       /\ UNCHANGED cv
    \/ \E q \in Asleep : cv' = [cv EXCEPT ![q] = "signalled"]

\* Mistake: the caller leaves without being taken off the wait set.
ReturnAsleep(p) ==
    /\ call' = [call EXCEPT ![p] = "none"]
    /\ UNCHANGED cv

\* A blocking operation ends and its caller runs on.
Return(p) ==
    /\ call' = [call EXCEPT ![p] = "none"]
    /\ cv'   = [cv EXCEPT ![p] = "running"]

-----------------------------------------------------------------------------
(* The operations.                                                         *)

Push(p, m) ==
    /\ Idle(p)
    /\ Len(sent) < MaxSent
    /\ queue' = Append(queue, m)
    /\ sent'  = Append(sent, m)
    /\ NotifyOne
    /\ UNCHANGED <<call, last, peeked>>

\* tryPop and popNow: they differ in how they say that there is nothing.
TryPop(p) ==
    /\ Idle(p)
    /\ DoPop(p) \/ Nothing(p)
    /\ UNCHANGED <<call, cv, peeked>>

PopTimeout(p) ==
    /\ Idle(p)
    /\ \/ DoPop(p) /\ UNCHANGED <<call, cv>>
       \/ Block(p, "popTimeout")
    /\ UNCHANGED peeked

\* With data at hand waitForMessages returns at once and changes nothing.
WaitForMessages(p) ==
    /\ Idle(p)
    /\ p \in Peekers
    /\ Block(p, "waitForMessages")
    /\ peeked' = TRUE

-----------------------------------------------------------------------------
(* Waking up: the end of wait_for.                                         *)

SpuriousWake(p) ==
    /\ cv[p] = "asleep"
    /\ cv' = [cv EXCEPT ![p] = "signalled"]
    /\ UNCHANGED <<queue, call, sent, last, peeked>>

\* Mistake: the deadline is taken for one more wake-up and starts anew.
TimeoutRestarts(p) ==
    /\ cv[p] = "asleep"
    /\ cv' = [cv EXCEPT ![p] = "signalled"]
    /\ UNCHANGED <<queue, call, sent, last, peeked>>

Timeout(p) ==
    /\ cv[p] = "asleep"
    /\ cv' = [cv EXCEPT ![p] = "expired"]
    /\ UNCHANGED <<queue, call, sent, last, peeked>>

\* The predicate is evaluated under the lock however the wait ended.
WakePop(p) ==
    /\ p \in Woken
    /\ call[p] = "popTimeout"
    /\ DoPop(p)
    /\ Return(p)
    /\ UNCHANGED peeked

WakePeek(p) ==
    /\ p \in Woken
    /\ call[p] = "waitForMessages"
    /\ queue # <<>> \/ cv[p] = "expired"
    /\ Return(p)
    /\ UNCHANGED <<queue, sent, last, peeked>>

\* Woken before the deadline with nothing there: sleep again.
WakeAgain(p) ==
    /\ cv[p] = "signalled"
    /\ Block(p, call[p])
    /\ UNCHANGED peeked

\* Mistake: after a timeout the queue is not looked at again.
WakeExpiredBlindly(p) ==
    /\ cv[p] = "expired"
    /\ call[p] = "popTimeout"
    /\ last' = [last EXCEPT ![p] = NoMsg]
    /\ Return(p)
    /\ UNCHANGED <<queue, sent, peeked>>

WakeExpired(p) ==
    /\ cv[p] = "expired"
    /\ call[p] = "popTimeout"
    /\ Nothing(p)
    /\ Return(p)
    /\ UNCHANGED peeked

Resume(p) == WakePop(p) \/ WakePeek(p) \/ WakeAgain(p) \/ WakeExpired(p)

-----------------------------------------------------------------------------
Next ==
    \E p \in Procs :
        \/ \E m \in Msgs : Push(p, m)
        \/ TryPop(p) \/ PopTimeout(p) \/ WaitForMessages(p)
        \/ SpuriousWake(p) \/ Timeout(p) \/ Resume(p)

Spec == Init /\ [][Next]_vars

\* A woken thread gets the mutex in the end: critical sections are short and
\* the mutex is always released.  The deadline is absolute (wait_for turns the
\* timeout into a time point once), so waking up spuriously again and again
\* does not put it off.
Fairness == \A p \in Procs : WF_vars(Resume(p)) /\ SF_vars(Timeout(p))

FairSpec == Spec /\ Fairness

-----------------------------------------------------------------------------
(* Properties.                                                             *)

\* Types; and a thread is inside a blocking operation exactly while the
\* condition variable knows it (Channel.hpp 49-79).
TypeOK ==
    /\ queue \in Seq(Msgs)
    /\ sent \in Seq(Msgs)
    /\ call \in [Procs -> Calls]
    /\ cv \in [Procs -> CvStates]
    /\ last \in [Procs -> Msgs \cup {NoMsg}]
    /\ peeked \in BOOLEAN
    /\ \A p \in Procs : call[p] = "none" <=> cv[p] = "running"

\* No message is lost, duplicated or overtaken inside the channel: the queue
\* is always the tail end of what was pushed (Channel.hpp 99-122).
QueueIsSuffix ==
    /\ Len(queue) <= Len(sent)
    /\ \A i \in 1..Len(queue) : queue[i] = sent[Len(sent) - Len(queue) + i]

\* Every message waiting in the queue has a receiver on its way to it as long
\* as anybody sleeps: one notify_one per push is enough, whichever of the
\* sleepers it wakes, however wake-ups, deadlines and pops by threads that
\* never slept are interleaved (Channel.hpp 55, 99-111).  It takes that
\* nobody has waited in waitForMessages.
NoLostWakeup ==
    ~peeked /\ Asleep # {} => Len(queue) <= Cardinality(Woken)

\* The comments of pop and popTimeout: a receiver blocks until there is data
\* (Channel.hpp 30, 42).  If there is data and a receiver sleeps, somebody
\* has been woken to take it.
BlocksOnlyWithoutData ==
    (\E p \in Asleep : call[p] = "popTimeout") /\ queue # <<>> => Woken # {}

\* As an observer sees it the channel is a FIFO queue: receives return the
\* next message in order and come back empty-handed only when it is empty,
\* also when a deadline passes while a message is being pushed.
Fifo == INSTANCE MessageQueue WITH taken <- Len(sent) - Len(queue)
ImplementsFifo == Fifo!Spec

\* A blocking operation with a timeout returns, whatever the others do
\* (Channel.hpp 42, 47: "will return std::nullopt if the given timeout
\* expires before there's available data").
CallReturns == \A p \in Procs : call[p] # "none" ~> call[p] = "none"
=============================================================================
