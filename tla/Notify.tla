------------------------------- MODULE Notify -------------------------------
(***************************************************************************)
(* asp::Notify (include/asp/sync/Notify.hpp, platform/unix/Notify.cpp and  *)
(* platform/windows/Notify.cpp) together with the lock a caller's          *)
(* predicate takes: waiters wait for work that other threads put behind an *)
(* asp::Mutex or asp::SpinLock and announce with notifyOne or notifyAll.   *)
(*                                                                         *)
(* A Notify has a mutex of its own (inner), which the waiter holds from    *)
(* its entry to its sleep and while the predicate runs.  The two notifying *)
(* functions do not take it.  Both platforms have the same steps, but for  *)
(* a deadline that has passed: Windows looks before it sleeps again.       *)
(*                                                                         *)
(* The predicate is the usual one: it locks the work, takes one piece if   *)
(* there is one, and says whether it did.                                  *)
(***************************************************************************)
EXTENDS Mutex

CONSTANTS Waiters,    \* the threads that may wait
          MayCall,    \* MayCall[p]: the forms of wait() that p calls
          WorkLock,   \* the lock in front of the work
          MaxWork     \* bound: how many pieces of work are made in all

ASSUME NotifyAssumption ==
    /\ Waiters \subseteq Threads
    /\ MayCall \in [Waiters -> SUBSET [predicate : BOOLEAN, timed : BOOLEAN]]
    /\ WorkLock \in Locks
    /\ MaxWork \in Nat

VARIABLES inner,    \* the thread that holds the Notify's own mutex
          stage,    \* stage[p]: where p is inside wait()
          how,      \* how[p]: which wait() p called
          work,     \* pieces of work behind WorkLock
          made,     \* history: how many there were in all
          owes,     \* owes[p]: p has made work and not notified yet
          missed    \* history: waiters a notification has passed over

notifyVars == <<inner, stage, how, work, made, owes, missed>>
vars == <<mutexVars, notifyVars>>

Stages == {"out", "checking", "leaving", "asleep", "woken", "expired"}
Waits  == [predicate : BOOLEAN, timed : BOOLEAN]
NoWait == [predicate |-> TRUE, timed |-> FALSE]

TypeOK ==
    /\ MutexTypeOK
    /\ inner \in Waiters \cup {Null}
    /\ stage \in [Waiters -> Stages]
    /\ how \in [Waiters -> Waits]
    /\ work \in 0 .. MaxWork /\ made \in 0 .. MaxWork
    /\ owes \in [Threads -> BOOLEAN]
    /\ missed \subseteq Waiters

Init ==
    /\ MutexInit
    /\ inner = Null
    /\ stage = [p \in Waiters |-> "out"]
    /\ how = [p \in Waiters |-> NoWait]
    /\ work = 0 /\ made = 0
    /\ owes = [p \in Threads |-> FALSE]
    /\ missed = {}

Outside(p) == p \in Waiters => stage[p] = "out"
Asleep == {p \in Waiters : stage[p] = "asleep"}

\* Those whose predicate said no and who are about to sleep.
Leaving == {p \in Waiters : stage[p] = "leaving"}

Goes(p, s) == stage' = [stage EXCEPT ![p] = s]

\* p leaves wait() and with it the inner mutex.
Returns(p) ==
    /\ Goes(p, "out")
    /\ how' = [how EXCEPT ![p] = NoWait]
    /\ inner' = Null

-----------------------------------------------------------------------------
(* The waiters.                                                            *)

\* A thread that holds no lock calls wait().  It takes the inner mutex, and
\* without a predicate it is about to sleep at once.
Wait(p, h) ==
    /\ stage[p] = "out"
    /\ h \in MayCall[p]
    /\ ~owes[p]
    /\ \A g \in Guards : Of[g] = p => ~guard[g].locked
    /\ inner = Null /\ inner' = p
    /\ how' = [how EXCEPT ![p] = h]
    /\ Goes(p, IF h.predicate THEN "checking" ELSE "leaving")
    /\ UNCHANGED <<mutexVars, work, made, owes, missed>>

\* predicate(): the lock of the work is held only inside this step, which
\* waits for it with the inner mutex in hand.
Check(p) ==
    /\ stage[p] = "checking"
    /\ CanTake(p, WorkLock)
    /\ \/ work > 0 /\ work' = work - 1 /\ Returns(p)
       \/ work = 0 /\ Goes(p, "leaving") /\ UNCHANGED <<work, inner, how>>
    /\ UNCHANGED <<mutexVars, made, owes, missed>>

\* pthread_cond_wait, pthread_cond_timedwait: release and sleep in one step.
Sleep(p) ==
    /\ stage[p] = "leaving"
    /\ Goes(p, "asleep") /\ inner' = Null
    /\ UNCHANGED <<mutexVars, how, work, made, owes, missed>>

\* Windows: leftTime is zero, so the thread gives up without sleeping.
GiveUp(p) ==
    /\ stage[p] = "leaving"
    /\ how[p] = [predicate |-> TRUE, timed |-> TRUE]
    /\ Returns(p)
    /\ missed' = missed \ {p}
    /\ UNCHANGED <<mutexVars, work, made, owes>>

\* The condition variable wakes a sleeper that nobody notified.
SpuriousWake(p) ==
    /\ stage[p] = "asleep"
    /\ Goes(p, "woken")
    /\ missed' = missed \ {p}
    /\ UNCHANGED <<mutexVars, inner, how, work, made, owes>>

Timeout(p) ==
    /\ stage[p] = "asleep" /\ how[p].timed
    /\ Goes(p, "expired")
    /\ missed' = missed \ {p}
    /\ UNCHANGED <<mutexVars, inner, how, work, made, owes>>

\* Mistake: `if (!predicate())` for `while (!predicate())`.
RegainOnce(p) ==
    /\ stage[p] = "woken"
    /\ inner = Null
    /\ Returns(p)
    /\ UNCHANGED <<mutexVars, work, made, owes, missed>>

\* Awake with the inner mutex: the predicate is asked again, and a wait
\* without one returns true.
Regain(p) ==
    /\ stage[p] = "woken"
    /\ inner = Null
    /\ \/ how[p].predicate /\ inner' = p /\ Goes(p, "checking") /\ UNCHANGED how
       \/ ~how[p].predicate /\ Returns(p)
    /\ UNCHANGED <<mutexVars, work, made, owes, missed>>

\* Mistake: the deadline is taken for a wake-up, and the wait goes on from its start.
ExpireAndWait(p) ==
    /\ stage[p] = "expired"
    /\ inner = Null
    /\ inner' = p /\ Goes(p, "leaving")
    /\ UNCHANGED <<mutexVars, how, work, made, owes, missed>>

\* ETIMEDOUT: wait() returns false, and the predicate is not asked again.
Expire(p) ==
    /\ stage[p] = "expired"
    /\ inner = Null
    /\ Returns(p)
    /\ UNCHANGED <<mutexVars, work, made, owes, missed>>

-----------------------------------------------------------------------------
(* The notifying side.                                                     *)

\* A thread inside the lock puts one piece of work there.
MakeWork(p) ==
    /\ Outside(p) /\ ~owes[p]
    /\ made < MaxWork
    /\ \E g \in Holding(WorkLock) : Of[g] = p
    /\ work' = work + 1 /\ made' = made + 1
    /\ owes' = [owes EXCEPT ![p] = TRUE]
    /\ UNCHANGED <<mutexVars, inner, stage, how, missed>>

\* Whoever is told nothing although it looks for work and is not awake.
PassedOver(told) == {q \in Asleep \cup Leaving : how[q].predicate} \ told

\* pthread_cond_signal: one sleeper, if there is any.  With none the call is
\* lost on those about to sleep, and one that wakes a thread without a
\* predicate is lost on those that have one.
NotifyOne(p) ==
    /\ Outside(p)
    /\ owes' = [owes EXCEPT ![p] = FALSE]
    /\ \/ /\ Asleep = {}
          /\ missed' = missed \cup PassedOver({})
          /\ UNCHANGED stage
       \/ \E q \in Asleep :
             /\ Goes(q, "woken")
             /\ missed' = (IF how[q].predicate THEN missed ELSE missed \cup PassedOver({q})) \ {q}
    /\ UNCHANGED <<mutexVars, inner, how, work, made>>

\* pthread_cond_broadcast: every sleeper, and nobody who is about to sleep.
NotifyAll(p) ==
    /\ Outside(p)
    /\ owes' = [owes EXCEPT ![p] = FALSE]
    /\ stage' = [q \in Waiters |-> IF q \in Asleep THEN "woken" ELSE stage[q]]
    /\ missed' = (missed \ Asleep) \cup PassedOver(Asleep)
    /\ UNCHANGED <<mutexVars, inner, how, work, made>>

-----------------------------------------------------------------------------
\* A thread that holds the work's lock locks no other one (its own again,
\* if that is recursive): nothing inside the predicate waits for it.
InOrder(g, l) == l # WorkLock => \A h \in Holding(WorkLock) : Of[h] # Of[g]

UseGuard(g) ==
    /\ Outside(Of[g])
    /\ \/ \E l \in Locks : InOrder(g, l) /\ Lock(g, l)
       \/ InOrder(g, guard[g].mtx) /\ Relock(g)
       \/ Unlock(g) \/ Drop(g)
       \/ \E h \in Guards : MoveConstruct(g, h) \/ MoveAssign(g, h)
    /\ UNCHANGED notifyVars

WaitStep(p) == Check(p) \/ Sleep(p) \/ GiveUp(p) \/ Regain(p) \/ Expire(p)

Next ==
    \/ \E g \in Guards : UseGuard(g)
    \/ \E p \in Waiters :
          \/ \E h \in Waits : Wait(p, h)
          \/ WaitStep(p) \/ SpuriousWake(p) \/ Timeout(p)
    \/ \E p \in Threads : MakeWork(p) \/ NotifyOne(p) \/ NotifyAll(p)

\* A thread destroys a guard that holds its lock; the last such one.
LetGo(p)   == \E g \in Guards :
                 Of[g] = p /\ guard[g].locked /\ Drop(g) /\ UNCHANGED notifyVars
LetGoAll(p) == \E g \in Guards :
                 Of[g] = p /\ guard[g].locked /\ depth[guard[g].mtx] = 1 /\ Drop(g) /\ UNCHANGED notifyVars

\* Every thread runs; a contended lock is not withheld from one thread for
\* ever; a deadline comes; and guards, which are scoped objects, do not live
\* for ever, even where a recursive lock is taken again before it is free.
Fairness ==
    /\ \A p \in {Of[g] : g \in Guards} : WF_vars(LetGo(p)) /\ SF_vars(LetGoAll(p))
    /\ \A p \in Waiters : SF_vars(WaitStep(p)) /\ SF_vars(Timeout(p))

Spec == Init /\ [][Next]_vars /\ Fairness

-----------------------------------------------------------------------------
(* What a Notify promises.                                                 *)

\* Work that was announced does not lie there while a waiter sleeps on it:
\* somebody still has to notify, or is awake and about to look, or the
\* sleeper is one the notification passed over.  That last case is real:
\* notifyOne and notifyAll do not take the Notify's mutex
\* (platform/unix/Notify.cpp:94), so they can fall between a predicate that
\* said no and the sleep that follows.
NoLostWakeup ==
    (work > 0 /\ (\A p \in Threads : ~owes[p]))
    => \/ \E p \in Waiters : how[p].predicate /\ stage[p] \in {"checking", "woken"}
       \/ \A p \in Asleep \cup Leaving : how[p].predicate => p \in missed

\* A wait with a timeout returns: its thread is not kept by the inner mutex,
\* by the lock its predicate takes, or by wake-ups that bring nothing
\* (Notify.cpp:75) -- unless that lock was lost for good (Mutex.hpp:30).
TimedWaitsEnd ==
    \A p \in Waiters :
        (stage[p] # "out" /\ how[p].timed) ~> (stage[p] = "out" \/ lost[WorkLock] > 0)

=============================================================================
