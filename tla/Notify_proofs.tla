---------------------------- MODULE Notify_proofs ----------------------------
(***************************************************************************)
(* Theorems about Mutex and Notify, for any finite sets of threads and     *)
(* guards, any locks of any kind, and any amount of work.                  *)
(***************************************************************************)
EXTENDS Notify, FiniteSetTheorems, TLAPS

-----------------------------------------------------------------------------
(* The locks and their guards.                                             *)

\* What the steps of the guards rely on: a guard that holds something names
\* it, and a place without an object holds nothing.
GuardsNameLocks ==
    \A g \in Guards : /\ guard[g].locked => guard[g].mtx # Null
                      /\ guard[g].alive \/ guard[g] = NoObject

MutexInv == MutexTypeOK /\ GuardsNameLocks /\ HeldByGuards

\* The guards of a lock can be counted, and how the count changes.
LEMMA HoldingCount ==
    ASSUME NEW l
    PROVE  /\ IsFiniteSet(Holding(l))
           /\ Cardinality(Holding(l)) \in Nat
           /\ Cardinality(Holding(l)) = 0 <=> Holding(l) = {}
           /\ \A g : IsFiniteSet(Holding(l) \cup {g}) /\ IsFiniteSet(Holding(l) \ {g})
           /\ \A g : Cardinality(Holding(l) \cup {g}) =
                       IF g \in Holding(l) THEN Cardinality(Holding(l)) ELSE Cardinality(Holding(l)) + 1
           /\ \A g : Cardinality(Holding(l) \ {g}) =
                       IF g \in Holding(l) THEN Cardinality(Holding(l)) - 1 ELSE Cardinality(Holding(l))
<1>1. IsFiniteSet(Holding(l))
  BY MutexAssumption, FS_Subset DEF Holding
<1> QED
  BY <1>1, FS_CardinalityType, FS_EmptySet, FS_AddElement, FS_RemoveElement

\* A guard that holds nothing gets a lock (Lock, Relock).
LEMMA TakeKeeps ==
    ASSUME NEW g \in Guards, NEW l \in Locks, MutexInv, ~guard[g].locked,
           Take(Of[g], l), UNCHANGED <<kind, lost>>,
           NEW e \in GuardObjects, e.alive, e.locked, e.mtx = l,
           guard' = [guard EXCEPT ![g] = e]
    PROVE  MutexInv'
<1> USE DEF MutexInv
<1>1. /\ owner' = [owner EXCEPT ![l] = Of[g]]
      /\ depth' = [depth EXCEPT ![l] = @ + 1]
      /\ CanTake(Of[g], l)
  BY DEF Take
<1>2. MutexTypeOK'
  <2>2. guard' \in [Guards -> GuardObjects]
    BY DEF MutexTypeOK
  <2>3. owner' \in [Locks -> Threads \cup {Null}]
    BY <1>1, MutexAssumption DEF MutexTypeOK
  <2>4. depth' \in [Locks -> Nat]
    BY <1>1 DEF MutexTypeOK
  <2>5. kind' \in [Locks -> Kinds] /\ lost' \in [Locks -> Nat]
    BY DEF MutexTypeOK
  <2> QED
    BY <2>2, <2>3, <2>4, <2>5 DEF MutexTypeOK
<1>3. GuardsNameLocks'
  BY MutexAssumption DEF GuardsNameLocks, MutexTypeOK
<1>4. ASSUME NEW k \in Locks
      PROVE  Holding(k)' = IF k = l THEN Holding(k) \cup {g} ELSE Holding(k)
  BY DEF Holding, MutexTypeOK
<1>5. g \notin Holding(l)
  BY DEF Holding
<1>6. owner[l] # Of[g] => Holding(l) = {} /\ depth[l] = 0
  <2>1. owner[l] = Null => depth[l] = 0
    BY DEF HeldByGuards
  <2> QED
    BY <1>1, <2>1, HoldingCount DEF HeldByGuards, MutexTypeOK, CanTake
<1>7. ASSUME NEW k \in Locks
      PROVE  /\ depth[k]' = Cardinality(Holding(k)') + lost[k]'
             /\ owner[k]' = Null <=> depth[k]' = 0
             /\ kind[k]' # "recursive" => depth[k]' <= 1
             /\ \A x \in Holding(k)' : Of[x] = owner[k]'
  <2>1. CASE k = l
    <3>1. depth[k]' = depth[k] + 1 /\ owner[k]' = Of[g] /\ depth[k] \in Nat /\ lost[k] \in Nat
      BY <1>1, <2>1 DEF MutexTypeOK
    <3>2. Of[g] # Null
      BY MutexAssumption
    <3>3. Cardinality(Holding(k)') = Cardinality(Holding(k)) + 1
      BY <1>4, <1>5, <2>1, HoldingCount
    <3>4. kind[k] # "recursive" => depth[k] = 0
      BY <1>1, <1>6, <2>1, MutexAssumption DEF CanTake, HeldByGuards
    <3>5. \A x \in Holding(k) : Of[x] = Of[g]
      BY <1>6, <2>1 DEF HeldByGuards
    <3>6. depth[k] = Cardinality(Holding(k)) + lost[k] /\ Cardinality(Holding(k)) \in Nat
      BY HoldingCount DEF HeldByGuards
    <3>7. Holding(k)' = Holding(k) \cup {g}
      BY <1>4, <2>1
    <3> QED
      BY <3>1, <3>2, <3>3, <3>4, <3>5, <3>6, <3>7
  <2>2. CASE k # l
    BY <1>1, <1>4, <2>2 DEF HeldByGuards, MutexTypeOK
  <2> QED
    BY <2>1, <2>2
<1> QED
  BY <1>2, <1>3, <1>7 DEF HeldByGuards

\* A guard gives its lock back and lives on or not (Unlock, Drop).
LEMMA GiveBackKeeps ==
    ASSUME NEW g \in Guards, MutexInv, guard[g].locked,
           GiveBack(guard[g].mtx), UNCHANGED <<kind, lost>>,
           NEW e \in {NoObject, [guard[g] EXCEPT !.locked = FALSE]},
           guard' = [guard EXCEPT ![g] = e]
    PROVE  MutexInv'
<1> USE DEF MutexInv
<1> DEFINE l == guard[g].mtx
<1>1. /\ l \in Locks
      /\ guard[g].alive
      /\ g \in Holding(l)
  BY DEF GuardsNameLocks, MutexTypeOK, GuardObjects, NoObject, Holding
<1>2. depth[l] \in Nat \ {0} /\ lost[l] \in Nat
  BY <1>1, HoldingCount DEF HeldByGuards, MutexTypeOK
<1>3. e \in GuardObjects /\ ~e.locked /\ (e.alive \/ e = NoObject)
  <2>1. CASE e = NoObject
    BY <2>1 DEF GuardObjects, NoObject
  <2>2. CASE e = [guard[g] EXCEPT !.locked = FALSE]
    <3>1. guard[g] \in [alive : BOOLEAN, mtx : Locks \cup {Null}, locked : BOOLEAN]
      BY DEF MutexTypeOK, GuardObjects
    <3>2. e \in [alive : BOOLEAN, mtx : Locks \cup {Null}, locked : BOOLEAN]
      BY <2>2, <3>1
    <3>3. ~e.locked /\ e.alive = guard[g].alive
      BY <2>2, <3>1
    <3> QED
      BY <1>1, <3>2, <3>3 DEF GuardObjects
  <2> QED
    BY <2>1, <2>2
<1>4. MutexTypeOK'
  <2>1. guard' \in [Guards -> GuardObjects]
    BY <1>3 DEF MutexTypeOK
  <2>2. owner' \in [Locks -> Threads \cup {Null}]
    BY <1>1 DEF MutexTypeOK, GiveBack
  <2>3. depth' \in [Locks -> Nat]
    BY <1>1, <1>2 DEF MutexTypeOK, GiveBack
  <2>4. kind' \in [Locks -> Kinds] /\ lost' \in [Locks -> Nat]
    BY DEF MutexTypeOK
  <2> QED
    BY <2>1, <2>2, <2>3, <2>4 DEF MutexTypeOK
<1>5. GuardsNameLocks'
  BY <1>3 DEF GuardsNameLocks, MutexTypeOK
<1>6. ASSUME NEW k \in Locks
      PROVE  Holding(k)' = IF k = l THEN Holding(k) \ {g} ELSE Holding(k)
  BY <1>3 DEF Holding, MutexTypeOK
<1>7. ASSUME NEW k \in Locks
      PROVE  /\ depth[k]' = Cardinality(Holding(k)') + lost[k]'
             /\ owner[k]' = Null <=> depth[k]' = 0
             /\ kind[k]' # "recursive" => depth[k]' <= 1
             /\ \A x \in Holding(k)' : Of[x] = owner[k]'
  <2>1. CASE k = l
    <3>1. /\ depth[k]' = depth[k] - 1
          /\ owner[k]' = IF depth[k] = 1 THEN Null ELSE owner[k]
      BY <1>1, <2>1 DEF GiveBack, MutexTypeOK
    <3>2. /\ Holding(k)' = Holding(k) \ {g}
          /\ Cardinality(Holding(k)') = Cardinality(Holding(k)) - 1
      BY <1>1, <1>6, <2>1, HoldingCount
    <3>3. depth[k]' = Cardinality(Holding(k)') + lost[k]'
      <4>1. /\ depth[k] = Cardinality(Holding(k)) + lost[k]
            /\ lost[k] \in Nat /\ lost[k]' = lost[k]
        BY <1>2, <2>1 DEF HeldByGuards
      <4>2. Cardinality(Holding(k)) \in Nat
        BY HoldingCount
      <4> QED
        BY <3>1, <3>2, <4>1, <4>2
    <3>4. depth[k]' = 0 => Holding(k)' = {}
      <4>1. Cardinality(Holding(k)') \in Nat /\ lost[k]' \in Nat
        BY <1>2, <2>1, <3>2, <1>6, HoldingCount, FS_CardinalityType
      <4>2. Cardinality(Holding(k)') = 0 => Holding(k)' = {}
        BY <3>2, HoldingCount, FS_EmptySet
      <4> QED
        BY <3>3, <4>1, <4>2
    <3> QED
      BY <1>2, <2>1, <3>1, <3>2, <3>3, <3>4 DEF HeldByGuards
  <2>2. CASE k # l
    BY <1>6, <2>2 DEF GiveBack, HeldByGuards, MutexTypeOK
  <2> QED
    BY <2>1, <2>2
<1> QED
  BY <1>4, <1>5, <1>7 DEF HeldByGuards

\* A guard moves to another place of its thread; what that place held is
\* forgotten and stays locked (MoveConstruct, MoveAssign).
LEMMA MoveKeeps ==
    ASSUME NEW g \in Guards, NEW h \in Guards, MutexInv,
           MoveConstruct(g, h) \/ MoveAssign(g, h)
    PROVE  MutexInv'
<1> USE DEF MutexInv
<1>1. /\ g # h /\ Of[g] = Of[h]
      /\ guard[g].alive
      /\ guard' = [guard EXCEPT ![h] = guard[g], ![g] = MovedOut]
      /\ UNCHANGED <<kind, owner, depth>>
  BY DEF MoveConstruct, MoveAssign, CanMove
<1>2. GuardsNameLocks'
  BY <1>1 DEF GuardsNameLocks, MutexTypeOK, MovedOut
<1>3. ASSUME NEW k \in Locks
      PROVE  Holding(k)' = IF g \in Holding(k) THEN (Holding(k) \ {g}) \cup {h} ELSE Holding(k) \ {h}
  BY <1>1, MutexAssumption DEF Holding, MutexTypeOK, MovedOut
<1>4. ASSUME NEW k \in Locks
      PROVE  lost[k]' = IF h \in Holding(k) THEN lost[k] + 1 ELSE lost[k]
  BY <1>1 DEF MoveConstruct, MoveAssign, Holding, GuardsNameLocks, NoObject, MutexTypeOK
<1>5. MutexTypeOK'
  <2>1. lost' \in [Locks -> Nat]
    BY DEF MutexTypeOK, MoveConstruct, MoveAssign
  <2> QED
    BY <1>1, <2>1 DEF MutexTypeOK, MovedOut, GuardObjects
<1>6. ASSUME NEW k \in Locks
      PROVE  depth[k]' = Cardinality(Holding(k)') + lost[k]'
  <2>1. IsFiniteSet(Holding(k) \ {g})
    BY HoldingCount
  <2>2. Cardinality((Holding(k) \ {g}) \cup {h}) =
          IF h \in Holding(k) THEN Cardinality(Holding(k) \ {g}) ELSE Cardinality(Holding(k) \ {g}) + 1
    BY <1>1, <2>1, FS_AddElement
  <2>3. Cardinality(Holding(k)') =
          IF h \in Holding(k) THEN Cardinality(Holding(k)) - 1 ELSE Cardinality(Holding(k))
    <3>1. Cardinality(Holding(k)) \in Nat
      BY HoldingCount
    <3>2. CASE g \in Holding(k)
      <4>1. Cardinality(Holding(k) \ {g}) = Cardinality(Holding(k)) - 1
        BY <3>2, HoldingCount
      <4>2. Holding(k)' = (Holding(k) \ {g}) \cup {h}
        BY <1>3, <3>2
      <4> QED
        BY <2>2, <3>1, <4>1, <4>2
    <3>3. CASE g \notin Holding(k)
      <4>1. Holding(k)' = Holding(k) \ {h}
        BY <1>3, <3>3
      <4> QED
        BY <4>1, HoldingCount
    <3> QED
      BY <3>2, <3>3
  <2>4. /\ depth[k] = Cardinality(Holding(k)) + lost[k]
        /\ lost[k] \in Nat /\ Cardinality(Holding(k)) \in Nat
    BY HoldingCount DEF HeldByGuards, MutexTypeOK
  <2> QED
    BY <1>1, <1>4, <2>3, <2>4
<1>7. ASSUME NEW k \in Locks
      PROVE  \A x \in Holding(k)' : Of[x] = owner[k]'
  BY <1>1, <1>3 DEF HeldByGuards
<1> QED
  BY <1>1, <1>2, <1>5, <1>6, <1>7 DEF HeldByGuards

\* Every step of a guard: the guard's operations are those of Mutex.hpp and
\* SpinLock.hpp.
LEMMA GuardSteps ==
    ASSUME NEW g \in Guards, MutexInv, UseGuard(g)
    PROVE  MutexInv'
<1>1. /\ guard[g] \in GuardObjects
      /\ guard[g].locked => guard[g].mtx # Null
      /\ guard[g].alive \/ guard[g] = NoObject
      /\ guard \in [Guards -> GuardObjects]
  BY DEF MutexInv, MutexTypeOK, GuardsNameLocks
<1>2. ASSUME NEW l \in Locks, Lock(g, l)
      PROVE  MutexInv'
  <2>1. ~guard[g].locked
    BY <1>1, <1>2 DEF Lock, NoObject
  <2>2. PICK e \in GuardObjects : e = [alive |-> TRUE, mtx |-> l, locked |-> TRUE]
    BY DEF GuardObjects
  <2>3. guard' = [guard EXCEPT ![g] = e] /\ e.alive /\ e.locked /\ e.mtx = l
    BY <1>2, <2>2 DEF Lock
  <2> QED
    BY <1>2, <2>1, <2>3, TakeKeeps DEF Lock
<1>3. CASE Relock(g)
  <2>1. guard[g].mtx \in Locks /\ guard[g].alive
    BY <1>1, <1>3 DEF Relock, GuardObjects, NoObject
  <2> DEFINE e == [guard[g] EXCEPT !.locked = TRUE]
  <2>2. /\ ~guard[g].locked
        /\ Take(Of[g], guard[g].mtx)
        /\ UNCHANGED <<kind, lost>>
        /\ guard' = [guard EXCEPT ![g] = e]
    BY <1>3 DEF Relock
  <2>3. e \in [alive : BOOLEAN, mtx : Locks \cup {Null}, locked : BOOLEAN]
    BY <1>1 DEF GuardObjects
  <2>4. e.alive /\ e.locked /\ e.mtx = guard[g].mtx
    BY <1>1, <2>1 DEF GuardObjects
  <2> HIDE DEF e
  <2> QED
    BY <2>1, <2>2, <2>3, <2>4, TakeKeeps DEF GuardObjects
<1>4. CASE Unlock(g)
  <2> DEFINE e == [guard[g] EXCEPT !.locked = FALSE]
  <2>1. /\ guard[g].locked
        /\ GiveBack(guard[g].mtx)
        /\ UNCHANGED <<kind, lost>>
        /\ guard' = [guard EXCEPT ![g] = e]
    BY <1>4 DEF Unlock
  <2>2. e \in {NoObject, [guard[g] EXCEPT !.locked = FALSE]}
    OBVIOUS
  <2> QED
    BY <2>1, <2>2, GiveBackKeeps
<1>5. CASE Drop(g)
  <2>1. CASE guard[g].locked
    BY <1>5, <2>1, GiveBackKeeps DEF Drop
  <2>2. CASE ~guard[g].locked
    <3>1. /\ guard' = [guard EXCEPT ![g] = NoObject]
          /\ UNCHANGED <<kind, owner, depth, lost>>
      BY <1>5, <2>2 DEF Drop
    <3>2. \A l \in Locks : Holding(l)' = Holding(l)
      BY <1>1, <2>2, <3>1 DEF Holding, NoObject
    <3>3. NoObject \in GuardObjects
      BY DEF NoObject, GuardObjects
    <3>4. MutexTypeOK'
      BY <3>1, <3>3 DEF MutexInv, MutexTypeOK
    <3>5. GuardsNameLocks'
      BY <1>1, <3>1 DEF MutexInv, GuardsNameLocks, NoObject
    <3>6. HeldByGuards'
      BY <3>1, <3>2 DEF MutexInv, HeldByGuards
    <3> QED
      BY <3>4, <3>5, <3>6 DEF MutexInv
  <2> QED
    BY <2>1, <2>2
<1> QED
  BY <1>2, <1>3, <1>4, <1>5, MoveKeeps DEF UseGuard

\* Of what the threads do, only the guards touch the locks.
LEMMA LockSteps ==
    ASSUME [Next]_vars
    PROVE  (\E g \in Guards : UseGuard(g)) \/ UNCHANGED mutexVars
  BY DEF Next, vars, Wait, WaitStep, Check, Sleep, GiveUp, Regain, Expire,
         SpuriousWake, Timeout, MakeWork, NotifyOne, NotifyAll

\* The locks are well typed, and what GuardsNameLocks says of the guards holds.
THEOREM LocksInvariant == Spec => []MutexInv
<1>1. Init => MutexInv
  <2> SUFFICES ASSUME Init
               PROVE  MutexInv
    OBVIOUS
  <2>1. MutexTypeOK /\ GuardsNameLocks
    BY DEF Init, MutexInit, MutexTypeOK, GuardsNameLocks, GuardObjects, NoObject
  <2>2. \A l \in Locks : Holding(l) = {}
    BY DEF Init, MutexInit, Holding, NoObject
  <2>3. HeldByGuards
    <3> SUFFICES ASSUME NEW l \in Locks
                 PROVE  /\ depth[l] = Cardinality(Holding(l)) + lost[l]
                        /\ owner[l] = Null <=> depth[l] = 0
                        /\ kind[l] # "recursive" => depth[l] <= 1
                        /\ \A g \in Holding(l) : Of[g] = owner[l]
      BY DEF HeldByGuards
    <3>1. Holding(l) = {} /\ Cardinality({}) = 0
      BY <2>2, FS_EmptySet
    <3>2. owner[l] = Null /\ depth[l] = 0 /\ lost[l] = 0
      BY DEF Init, MutexInit
    <3> QED
      BY <3>1, <3>2
  <2> QED
    BY <2>1, <2>3 DEF MutexInv
<1>2. MutexInv /\ [Next]_vars => MutexInv'
  <2> SUFFICES ASSUME MutexInv, [Next]_vars
               PROVE  MutexInv'
    OBVIOUS
  <2>1. CASE \E g \in Guards : UseGuard(g)
    BY <2>1, GuardSteps
  <2>2. CASE UNCHANGED mutexVars
    BY <2>2 DEF mutexVars, MutexInv, MutexTypeOK, GuardsNameLocks, HeldByGuards, Holding
  <2> QED
    BY <2>1, <2>2, LockSteps
<1> QED
  BY <1>1, <1>2, PTL DEF Spec

\* Mutual exclusion: a lock is held exactly as often as guards hold it, all
\* of them in the scope of its owner, but for the holds that
\* operator=(MutexGuardBase&&) forgot (Mutex.hpp 30, SpinLock.hpp).
THEOREM LocksCorrect == Spec => []HeldByGuards
<1>1. MutexInv => HeldByGuards
  BY DEF MutexInv
<1> QED
  BY <1>1, LocksInvariant, PTL

-----------------------------------------------------------------------------
(* The waiters and the notifying side.                                     *)

\* The types of everything but the locks; no more work lies there than was
\* ever made.
NotifyTypeOK ==
    /\ inner \in Waiters \cup {Null}
    /\ stage \in [Waiters -> Stages]
    /\ how \in [Waiters -> Waits]
    /\ work \in Nat /\ made \in 0 .. MaxWork /\ work <= made
    /\ owes \in [Threads -> BOOLEAN]
    /\ missed \subseteq Waiters

\* Every state of the waiters and of the locks is well typed (Notify.hpp,
\* platform/unix/Notify.cpp, platform/windows/Notify.cpp).
THEOREM TypeCorrect == Spec => []TypeOK
<1>1. Init => NotifyTypeOK
  BY NotifyAssumption DEF Init, NotifyTypeOK, Stages, Waits, NoWait
<1>2. NotifyTypeOK /\ [Next]_vars => NotifyTypeOK'
  <2> SUFFICES ASSUME NotifyTypeOK, [Next]_vars
               PROVE  NotifyTypeOK'
    OBVIOUS
  <2> USE DEF NotifyTypeOK, Stages
  <2>1. NoWait \in Waits
    BY DEF NoWait, Waits
  <2>2. ASSUME NEW g \in Guards, UseGuard(g)
        PROVE  NotifyTypeOK'
    BY <2>2 DEF UseGuard, notifyVars
  <2>3. ASSUME NEW p \in Waiters, NEW h \in Waits, Wait(p, h)
        PROVE  NotifyTypeOK'
    BY <2>3 DEF Wait, Goes
  <2>4. ASSUME NEW p \in Waiters, Check(p)
        PROVE  NotifyTypeOK'
    BY <2>1, <2>4, NotifyAssumption DEF Check, Returns, Goes
  <2>5. ASSUME NEW p \in Waiters, Sleep(p) \/ SpuriousWake(p) \/ Timeout(p)
        PROVE  NotifyTypeOK'
    BY <2>5 DEF Sleep, SpuriousWake, Timeout, Goes
  <2>6. ASSUME NEW p \in Waiters, GiveUp(p) \/ Regain(p) \/ Expire(p)
        PROVE  NotifyTypeOK'
    BY <2>1, <2>6 DEF GiveUp, Regain, Expire, Returns, Goes
  <2>7. ASSUME NEW p \in Threads, MakeWork(p)
        PROVE  NotifyTypeOK'
    BY <2>7, NotifyAssumption DEF MakeWork
  <2>8. ASSUME NEW p \in Threads, NotifyOne(p) \/ NotifyAll(p)
        PROVE  NotifyTypeOK'
    BY <2>8 DEF NotifyOne, NotifyAll, Goes, Asleep, Leaving, PassedOver
  <2>9. CASE UNCHANGED vars
    BY <2>9 DEF vars, notifyVars
  <2> QED
    BY <2>2, <2>3, <2>4, <2>5, <2>6, <2>7, <2>8, <2>9 DEF Next, WaitStep
<1>3. MutexInv /\ NotifyTypeOK => TypeOK
  BY NotifyAssumption DEF MutexInv, NotifyTypeOK, TypeOK
<1> QED
  BY <1>1, <1>2, <1>3, LocksInvariant, PTL DEF Spec

\* Who is going to do something about the work that lies there, and who
\* relies on them: the waiters with a predicate that no notification has
\* passed over.
Owing   == {p \in Threads : owes[p]}
Awake   == {p \in Waiters : how[p].predicate /\ stage[p] \in {"checking", "woken"}}
Relying == {p \in Asleep \cup Leaving : how[p].predicate /\ p \notin missed}

\* While anyone relies on it, there is one of them for every piece of work.
WorkIsCovered == Relying # {} => work <= Cardinality(Owing) + Cardinality(Awake)

\* Sets of threads and of waiters can be counted.
LEMMA CountThreads ==
    ASSUME NEW S, S \subseteq Threads
    PROVE  /\ IsFiniteSet(S)
           /\ Cardinality(S) \in Nat
           /\ Cardinality(S) = 0 <=> S = {}
           /\ \A x \in S : Cardinality(S \ {x}) = Cardinality(S) - 1
           /\ \A x : x \notin S => Cardinality(S \cup {x}) = Cardinality(S) + 1
           /\ \A T : T \subseteq S => Cardinality(T) <= Cardinality(S)
<1>1. IsFiniteSet(S)
  BY MutexAssumption, FS_Subset
<1> QED
  BY <1>1, FS_CardinalityType, FS_EmptySet, FS_AddElement, FS_RemoveElement, FS_Subset

\* A step after which fewer rely on it, as many are going to act, and there
\* is not more work.
LEMMA StillCovered ==
    ASSUME TypeOK, TypeOK', WorkIsCovered, Relying' \subseteq Relying,
           work' <= work, Owing' = Owing, Awake \subseteq Awake'
    PROVE  WorkIsCovered'
<1>1. work \in Nat /\ work' \in Nat
  BY NotifyAssumption DEF TypeOK
<1>2. Owing \subseteq Threads /\ Awake \subseteq Threads /\ Awake' \subseteq Threads
  BY NotifyAssumption DEF Owing, Awake
<1>3. /\ Cardinality(Owing) \in Nat /\ Cardinality(Awake) \in Nat
      /\ Cardinality(Awake') \in Nat
  BY <1>2, CountThreads
<1>4. Cardinality(Awake) <= Cardinality(Awake')
  BY <1>2, CountThreads
<1>5. CASE Relying' # {}
  <2>1. work <= Cardinality(Owing) + Cardinality(Awake)
    BY <1>5 DEF WorkIsCovered
  <2>2. Cardinality(Owing') = Cardinality(Owing)
    OBVIOUS
  <2>3. work' <= Cardinality(Owing') + Cardinality(Awake')
    BY <1>1, <1>3, <1>4, <2>1, <2>2
  <2> QED
    BY <2>3 DEF WorkIsCovered
<1> QED
  BY <1>5 DEF WorkIsCovered

\* Work that was announced does not lie there while a waiter sleeps on it
\* that no notification has passed over: somebody still has to notify or is
\* awake and about to look (platform/unix/Notify.cpp 27-101).
THEOREM WakeupCorrect == Spec => []NoLostWakeup
<1>1. Init => WorkIsCovered
  BY DEF Init, WorkIsCovered, Relying, Asleep, Leaving
<1>2. TypeOK /\ TypeOK' /\ WorkIsCovered /\ [Next]_vars => WorkIsCovered'
  <2> SUFFICES ASSUME TypeOK, TypeOK', WorkIsCovered, [Next]_vars
               PROVE  WorkIsCovered'
    OBVIOUS
  <2>0. /\ stage \in [Waiters -> Stages] /\ how \in [Waiters -> Waits]
        /\ owes \in [Threads -> BOOLEAN] /\ work \in Nat /\ Waiters \subseteq Threads
    BY NotifyAssumption DEF TypeOK
  <2>1. /\ Owing \subseteq Threads /\ Awake \subseteq Threads
        /\ Cardinality(Owing) \in Nat /\ Cardinality(Awake) \in Nat
    BY <2>0, CountThreads DEF Owing, Awake
  <2>2. ASSUME NEW g \in Guards, UseGuard(g)
        PROVE  WorkIsCovered'
    BY <2>2, StillCovered, <2>0
       DEF UseGuard, notifyVars, Relying, Owing, Awake, Asleep, Leaving
  <2>3. ASSUME NEW p \in Waiters, NEW h \in Waits, Wait(p, h)
        PROVE  WorkIsCovered'
    <3>1. Relying' \subseteq Relying /\ Owing' = Owing /\ Awake \subseteq Awake'
      BY <2>0, <2>3 DEF Wait, Goes, Relying, Owing, Awake, Asleep, Leaving
    <3> QED
      BY <2>0, <2>3, <3>1, StillCovered DEF Wait
  <2>4. ASSUME NEW p \in Waiters, Check(p), work = 0
        PROVE  WorkIsCovered'
    <3>1. work' = 0 /\ Owing' \subseteq Threads /\ Awake' \subseteq Threads
      BY <2>0, <2>4 DEF Check, Owing, Awake
    <3>2. Cardinality(Owing') \in Nat /\ Cardinality(Awake') \in Nat
      BY <3>1, CountThreads
    <3> QED
      BY <3>1, <3>2 DEF WorkIsCovered
  <2>5. ASSUME NEW p \in Waiters, Check(p), work # 0
        PROVE  WorkIsCovered'
    <3>1. work' = work - 1 /\ Owing' = Owing /\ stage' = [stage EXCEPT ![p] = "out"]
      BY <2>5 DEF Check, Returns, Goes, Owing
    <3>2. Relying' \subseteq Relying /\ Awake' = Awake \ {p}
      BY <2>0, <2>5, <3>1 DEF Check, Returns, Relying, Awake, Asleep, Leaving
    <3>3. Cardinality(Awake') \in Nat /\ Cardinality(Awake') >= Cardinality(Awake) - 1
      <4>1. CASE p \in Awake
        BY <2>1, <3>2, <4>1, CountThreads
      <4>2. CASE p \notin Awake
        <5>1. Awake' = Awake
          BY <3>2, <4>2
        <5> QED
          BY <2>1, <5>1
      <4> QED
        BY <4>1, <4>2
    <3> QED
      BY <2>0, <2>1, <3>1, <3>2, <3>3 DEF WorkIsCovered
  <2>6. ASSUME NEW p \in Waiters,
               Sleep(p) \/ SpuriousWake(p) \/ Timeout(p) \/ GiveUp(p) \/ Regain(p) \/ Expire(p)
        PROVE  WorkIsCovered'
    <3>1. Relying' \subseteq Relying /\ Owing' = Owing /\ Awake \subseteq Awake'
      BY <2>0, <2>6
      DEF Sleep, SpuriousWake, Timeout, GiveUp, Regain, Expire, Returns, Goes,
          Relying, Owing, Awake, Asleep, Leaving
    <3>2. work' = work
      BY <2>6 DEF Sleep, SpuriousWake, Timeout, GiveUp, Regain, Expire
    <3> QED
      BY <2>0, <3>1, <3>2, StillCovered
  <2>7. ASSUME NEW p \in Threads, MakeWork(p)
        PROVE  WorkIsCovered'
    <3>1. /\ p \notin Owing /\ Owing' = Owing \cup {p} /\ work' = work + 1
          /\ Relying' = Relying /\ Awake' = Awake
      BY <2>0, <2>7 DEF MakeWork, Owing, Relying, Awake, Asleep, Leaving
    <3>2. Cardinality(Owing') = Cardinality(Owing) + 1
      BY <2>1, <3>1, CountThreads
    <3> QED
      BY <2>0, <2>1, <3>1, <3>2 DEF WorkIsCovered
  <2>8. ASSUME NEW p \in Threads, NotifyAll(p)
        PROVE  WorkIsCovered'
    <3>1. Relying' = {}
      BY <2>0, <2>8 DEF NotifyAll, PassedOver, Relying, Asleep, Leaving
    <3> QED
      BY <3>1 DEF WorkIsCovered
  <2>9. ASSUME NEW p \in Threads, NotifyOne(p)
        PROVE  WorkIsCovered'
    <3>1. CASE Asleep = {} /\ missed' = missed \cup PassedOver({}) /\ UNCHANGED <<stage, how>>
      <4>1. Relying' = {}
        BY <3>1 DEF PassedOver, Relying, Asleep, Leaving
      <4> QED
        BY <4>1 DEF WorkIsCovered
    <3>2. ASSUME NEW q \in Asleep, Goes(q, "woken"), how' = how,
                 missed' = (IF how[q].predicate THEN missed ELSE missed \cup PassedOver({q})) \ {q}
          PROVE  WorkIsCovered'
      <4>0. q \in Waiters /\ stage[q] = "asleep" /\ stage' = [stage EXCEPT ![q] = "woken"]
        BY <3>2 DEF Asleep, Goes
      <4>1. CASE ~how[q].predicate
        <5>1. Relying' = {}
          BY <2>0, <3>2, <4>0, <4>1 DEF PassedOver, Relying, Asleep, Leaving
        <5> QED
          BY <5>1 DEF WorkIsCovered
      <4>2. CASE how[q].predicate
        <5>1. Relying' \subseteq Relying /\ q \notin Awake /\ Awake' = Awake \cup {q}
          BY <2>0, <3>2, <4>0, <4>2 DEF Relying, Asleep, Leaving, Awake
        <5>2. Cardinality(Awake') = Cardinality(Awake) + 1
          BY <2>1, <5>1, CountThreads
        <5>3. work' = work /\ Owing' = Owing \ {p}
          BY <2>0, <2>9 DEF NotifyOne, Owing
        <5>4. Cardinality(Owing') \in Nat /\ Cardinality(Owing') >= Cardinality(Owing) - 1
          <6>1. CASE p \in Owing
            BY <2>1, <5>3, <6>1, CountThreads
          <6>2. CASE p \notin Owing
            <7>1. Owing' = Owing
              BY <5>3, <6>2
            <7> QED
              BY <2>1, <7>1
          <6> QED
            BY <6>1, <6>2
        <5> QED
          BY <2>0, <2>1, <5>1, <5>2, <5>3, <5>4 DEF WorkIsCovered
      <4> QED
        BY <4>1, <4>2
    <3> QED
      BY <2>9, <3>1, <3>2 DEF NotifyOne
  <2>10. CASE UNCHANGED vars
    BY <2>0, <2>10, StillCovered
       DEF vars, notifyVars, Relying, Owing, Awake, Asleep, Leaving
  <2> QED
    BY <2>2, <2>3, <2>4, <2>5, <2>6, <2>7, <2>8, <2>9, <2>10 DEF Next, WaitStep
<1>3. TypeOK /\ WorkIsCovered => NoLostWakeup
  <2> SUFFICES ASSUME TypeOK, WorkIsCovered, work > 0, \A p \in Threads : ~owes[p],
                      ~ \A p \in Asleep \cup Leaving : how[p].predicate => p \in missed
               PROVE  Awake # {}
    BY DEF NoLostWakeup, Awake
  <2>1. Relying # {} /\ Owing = {}
    BY DEF Relying, Owing
  <2>2. Cardinality(Owing) = 0 /\ (Awake = {} => Cardinality(Awake) = 0)
    BY <2>1, FS_EmptySet
  <2>3. work \in Nat
    BY NotifyAssumption DEF TypeOK
  <2> QED
    BY <2>1, <2>2, <2>3 DEF WorkIsCovered
<1> QED
  BY <1>1, <1>2, <1>3, TypeCorrect, PTL DEF Spec
=============================================================================
