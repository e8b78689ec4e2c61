-------------------------------- MODULE Mutex --------------------------------
(***************************************************************************)
(* asp::Mutex<T, Recursive> and asp::SpinLock<T> with their guard objects  *)
(* (include/asp/sync/Mutex.hpp, include/asp/sync/SpinLock.hpp).            *)
(*                                                                         *)
(* A guard is an object in the scope of one thread.  It remembers its lock *)
(* (mtx, null once it was moved from) and whether it holds it (locked; the *)
(* spin lock's guard keeps the opposite bit, alreadyUnlocked).  Locking is *)
(* one step, possible when the lock is to be had: a thread that blocks or  *)
(* spins is one that has not made the step yet.  The locks are the         *)
(* environment's (std::mutex, std::recursive_mutex) or one byte that is    *)
(* exchanged atomically.                                                   *)
(*                                                                         *)
(* The protected datum has no variable here: it is whatever a thread does  *)
(* between getting the lock and giving it back.                            *)
(***************************************************************************)
EXTENDS Naturals, FiniteSets

CONSTANTS Threads,   \* the threads
          Guards,    \* places for guard objects
          Of,        \* Of[g]: the thread whose scope holds the place g
          Locks,     \* the Mutex and SpinLock objects
          Null,      \* no lock, no thread
          MaxLost    \* bound: holds of a lock that may be forgotten

Kinds == {"mutex", "recursive", "spin"}

ASSUME MutexAssumption ==
    /\ IsFiniteSet(Threads) /\ IsFiniteSet(Guards)
    /\ Of \in [Guards -> Threads]
    /\ Null \notin Threads \cup Locks
    /\ MaxLost \in Nat

VARIABLES kind,    \* kind[l]: what the lock l is
          owner,   \* owner[l]: the thread that holds l
          depth,   \* depth[l]: how often it holds it (at most once unless recursive)
          guard,   \* guard[g]: the guard object in the place g
          lost     \* history: how many holds of l no guard remembers any more

mutexVars == <<kind, owner, depth, guard, lost>>

\* What may be in a place; NoObject says that there is no guard in it.
GuardObjects == [alive : BOOLEAN, mtx : Locks \cup {Null}, locked : BOOLEAN]

NoObject == [alive |-> FALSE, mtx |-> Null, locked |-> FALSE]
MovedOut == [alive |-> TRUE,  mtx |-> Null, locked |-> FALSE]

MutexTypeOK ==
    /\ kind \in [Locks -> Kinds]
    /\ owner \in [Locks -> Threads \cup {Null}]
    /\ depth \in [Locks -> Nat]
    /\ guard \in [Guards -> GuardObjects]
    /\ lost \in [Locks -> Nat]

MutexInit ==
    /\ kind \in [Locks -> Kinds]
    /\ owner = [l \in Locks |-> Null]
    /\ depth = [l \in Locks |-> 0]
    /\ guard = [g \in Guards |-> NoObject]
    /\ lost  = [l \in Locks |-> 0]

\* The guards that hold l.
Holding(l) == {g \in Guards : guard[g].locked /\ guard[g].mtx = l}

-----------------------------------------------------------------------------
(* The lock itself.                                                        *)

\* Mistake: the exchange is a load and a store; two threads may both find the lock free.
TakeUnchecked(p, l) ==
    /\ owner' = [owner EXCEPT ![l] = p]
    /\ depth' = [depth EXCEPT ![l] = @ + 1]

\* acquireAtomicLock: the byte goes from 0 to 1 in one exchange.  The other
\* locks behave alike, but a recursive one lets its owner in again.
CanTake(p, l) == owner[l] = Null \/ (owner[l] = p /\ kind[l] = "recursive")

Take(p, l) ==
    /\ CanTake(p, l)
    /\ owner' = [owner EXCEPT ![l] = p]
    /\ depth' = [depth EXCEPT ![l] = @ + 1]

\* releaseAtomicLock stores 0; a recursive lock is free after its last hold.
GiveBack(l) ==
    /\ depth' = [depth EXCEPT ![l] = @ - 1]
    /\ owner' = [owner EXCEPT ![l] = IF depth[l] = 1 THEN Null ELSE @]

-----------------------------------------------------------------------------
(* The guards.                                                             *)

\* lock(): the guard's constructor calls relock().
Lock(g, l) ==
    /\ ~guard[g].alive
    /\ Take(Of[g], l)
    /\ guard' = [guard EXCEPT ![g] = [alive |-> TRUE, mtx |-> l, locked |-> TRUE]]
    /\ UNCHANGED <<kind, lost>>

\* relock() of a guard that does not hold its lock (of one that does: nothing).
Relock(g) ==
    /\ guard[g].mtx # Null
    /\ ~guard[g].locked
    /\ Take(Of[g], guard[g].mtx)
    /\ guard' = [guard EXCEPT ![g].locked = TRUE]
    /\ UNCHANGED <<kind, lost>>

Unlock(g) ==
    /\ guard[g].locked
    /\ GiveBack(guard[g].mtx)
    /\ guard' = [guard EXCEPT ![g].locked = FALSE]
    /\ UNCHANGED <<kind, lost>>

\* The destructor: unlock(), which does nothing for a guard that holds nothing.
Drop(g) ==
    /\ guard[g].alive
    /\ IF guard[g].locked THEN GiveBack(guard[g].mtx) ELSE UNCHANGED <<owner, depth>>
    /\ guard' = [guard EXCEPT ![g] = NoObject]
    /\ UNCHANGED <<kind, lost>>

\* Only the mutex's guards move, and to another place of the same thread:
\* another thread must not unlock a std::mutex.
CanMove(g, h) ==
    /\ g # h /\ Of[g] = Of[h]
    /\ \A x \in {g, h} : guard[x].mtx # Null => kind[guard[x].mtx] # "spin"
    /\ guard[g].alive

\* The move constructor.
MoveConstruct(g, h) ==
    /\ CanMove(g, h)
    /\ ~guard[h].alive
    /\ guard' = [guard EXCEPT ![h] = guard[g], ![g] = MovedOut]
    /\ UNCHANGED <<kind, owner, depth, lost>>

\* operator=(MutexGuardBase&&): what the target held stays locked.
MoveAssign(g, h) ==
    /\ CanMove(g, h)
    /\ guard[h].alive
    /\ guard' = [guard EXCEPT ![h] = guard[g], ![g] = MovedOut]
    /\ \/ ~guard[h].locked /\ UNCHANGED lost
       \/ /\ guard[h].locked /\ lost[guard[h].mtx] < MaxLost
          /\ lost' = [lost EXCEPT ![guard[h].mtx] = @ + 1]
    /\ UNCHANGED <<kind, owner, depth>>

-----------------------------------------------------------------------------
(* What the locks promise.                                                 *)

\* A lock is held exactly as often as guards hold it, and all of them are
\* its owner's: no two threads are inside, no lock stays behind when its
\* guards are gone -- except the holds that operator=(MutexGuardBase&&),
\* Mutex.hpp:30, forgot.
HeldByGuards ==
    \A l \in Locks :
        /\ depth[l] = Cardinality(Holding(l)) + lost[l]
        /\ owner[l] = Null <=> depth[l] = 0
        /\ kind[l] # "recursive" => depth[l] <= 1
        /\ \A g \in Holding(l) : Of[g] = owner[l]

=============================================================================
