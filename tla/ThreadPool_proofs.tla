--------------------------- MODULE ThreadPool_proofs ---------------------------
(***************************************************************************)
(* What module ThreadPool promises, proved for any number of workers,      *)
(* clients and tasks, on either platform and with any exception function.  *)
(*                                                                         *)
(* The counter alone cannot show that nothing is dropped: the invariant    *)
(* adds where every submitted task is, and that a worker that ended by     *)
(* itself was stopped, which happens only once the counter is zero.        *)
(***************************************************************************)
EXTENDS ThreadPool, SequenceTheorems, FiniteSetTheorems, TLAPS

Running == {w \in Workers : worker[w] = "running"}
Dead    == {w \in Workers : worker[w] = "dead"}
Queued(t) == \E i \in 1..Len(queue) : queue[i] = t

\* popTimeout is the only blocking call that the pool makes.
NobodyPeeks == \A p \in Threads : call[p] # "waitForMessages"

\* A task on its way, in the queue or in a worker's hands was submitted.
TasksKnown ==
    /\ queue \in Seq(submitted)
    /\ \A p \in Pushers : pushing[p] \in submitted
    /\ \A w \in Running : last[w] \in submitted

\* A submitted task is over, on its way, in the queue or in a worker's hands.
TasksAccounted ==
    \A t \in submitted :
        \/ t \in finished
        \/ \E p \in Pushers : pushing[p] = t
        \/ Queued(t)
        \/ \E w \in Running : last[w] = t

\* The destructor has given up waiting.
Closing == pool \in {"stopping", "destroyed"}

\* A worker ends because it was stopped, and is stopped by the destructor or
\* because it died; the destructor stops nobody while there is work, unless
\* a worker died.
StopsOK ==
    /\ \A w \in Workers : worker[w] = "ended" => stopped[w]
    /\ \A w \in Workers : stopped[w] => Closing \/ worker[w] = "dead"
    /\ Closing /\ Workers # {} => remainingWork = 0 \/ Dead # {}

IInv ==
    /\ TypeOK
    /\ NobodyPeeks
    /\ WorkAccounting
    /\ TasksKnown
    /\ TasksAccounted
    /\ StopsOK

-----------------------------------------------------------------------------
(* Sets and sequences.                                                     *)

\* Who is pushing, and who holds a task, can be counted.
LEMMA SetsFinite ==
    /\ IsFiniteSet(Pushers) /\ IsFiniteSet(Holders)
    /\ Cardinality(Pushers) \in Nat /\ Cardinality(Holders) \in Nat
<1>1. IsFiniteSet(Threads)
  BY ThreadPoolAssumption, FS_Union DEF Threads
<1>2. IsFiniteSet(Pushers) /\ IsFiniteSet(Holders)
  BY <1>1, ThreadPoolAssumption, FS_Subset DEF Pushers, Holders
<1> QED
  BY <1>2, FS_CardinalityType

\* One more and one less.
LEMMA SetGrows ==
    ASSUME NEW S, IsFiniteSet(S), NEW e, e \notin S
    PROVE  Cardinality(S \cup {e}) = Cardinality(S) + 1
  BY FS_AddElement

\* One element less.
LEMMA SetShrinks ==
    ASSUME NEW S, IsFiniteSet(S), NEW e \in S
    PROVE  Cardinality(S \ {e}) = Cardinality(S) - 1
  BY FS_RemoveElement

\* What a push does to the queue.
LEMMA SeqGrows ==
    ASSUME NEW S, NEW s \in Seq(S), NEW e \in S
    PROVE  /\ Append(s, e) \in Seq(S)
           /\ Len(Append(s, e)) = Len(s) + 1
           /\ \A i \in 1..Len(s) : Append(s, e)[i] = s[i]
           /\ Append(s, e)[Len(s) + 1] = e
  BY AppendProperties, LenProperties

\* What a pop does to it.
LEMMA SeqShrinks ==
    ASSUME NEW S, NEW s \in Seq(S), s # <<>>
    PROVE  /\ Head(s) \in S
           /\ Tail(s) \in Seq(S)
           /\ Len(s) \in Nat \ {0}
           /\ Len(Tail(s)) = Len(s) - 1
           /\ Head(s) = s[1]
           /\ \A i \in 1..Len(Tail(s)) : Tail(s)[i] = s[i + 1]
  BY HeadTailProperties, EmptySeq

\* A sequence over a larger set.
LEMMA SeqWidens ==
    ASSUME NEW S, NEW T, S \subseteq T, NEW s \in Seq(S)
    PROVE  s \in Seq(T)
<1>1. s \in [1..Len(s) -> S] /\ Len(s) \in Nat
  BY LenProperties
<1>2. s \in [1..Len(s) -> T]
  BY <1>1
<1> QED
  BY <1>1, <1>2, SeqDef

-----------------------------------------------------------------------------
(* What the channel's operations do to the pool.                           *)

\* A push appends its task and at most wakes somebody.
LEMMA ChannelPush ==
    ASSUME TypeOK, NEW p \in Threads, NEW t \in Tasks, Queue!Push(p, t)
    PROVE  /\ Queue!TypeOK'
           /\ queue' = Append(queue, t)
           /\ UNCHANGED <<call, last>>
<1>1. queue' \in Seq(Tasks) /\ sent' \in Seq(Tasks)
  BY SeqGrows DEF TypeOK, Queue!TypeOK, Queue!Push
<1> QED
  BY <1>1 DEF TypeOK, Queue!TypeOK, Queue!Push, Queue!NotifyOne, Queue!Asleep, Queue!Idle,
              Queue!Calls, Queue!CvStates

\* The front task leaves the queue and w has it ...
Takes(w) ==
    /\ queue # <<>>
    /\ queue' = Tail(queue)
    /\ call'[w] = "none" /\ last'[w] = Head(queue)

\* ... or there is none, and w sleeps or returns with nothing.
Misses(w) ==
    /\ queue' = queue
    /\ call'[w] = "none" => last'[w] = None

\* A worker that looks at the queue takes its first task or misses.
LEMMA ChannelPop ==
    ASSUME TypeOK, NobodyPeeks, NEW w \in Workers,
           Queue!PopTimeout(w) \/ Queue!Resume(w)
    PROVE  /\ Queue!TypeOK'
           /\ NobodyPeeks'
           /\ \A p \in Threads \ {w} : last'[p] = last[p]
           /\ Takes(w) \/ Misses(w)
<1> USE DEF Queue!Calls, Queue!CvStates
<1>0. w \in Threads
  BY DEF Threads
<1>1. queue # <<>> => Head(queue) \in Tasks /\ Tail(queue) \in Seq(Tasks)
  BY SeqShrinks DEF TypeOK, Queue!TypeOK
<1>2. CASE Queue!PopTimeout(w) /\ Queue!DoPop(w) /\ UNCHANGED <<call, cv>>
  BY <1>0, <1>1, <1>2 DEF TypeOK, Queue!TypeOK, NobodyPeeks, Queue!PopTimeout, Queue!DoPop,
                          Queue!Idle, Takes
<1>3. CASE Queue!PopTimeout(w) /\ Queue!Block(w, "popTimeout")
  BY <1>0, <1>3 DEF TypeOK, Queue!TypeOK, NobodyPeeks, Queue!PopTimeout, Queue!Block, Misses
<1>4. CASE Queue!WakePop(w)
  BY <1>0, <1>1, <1>4 DEF TypeOK, Queue!TypeOK, NobodyPeeks, Queue!WakePop, Queue!DoPop,
                          Queue!Return, Takes
<1>5. ~Queue!WakePeek(w)
  BY <1>0 DEF NobodyPeeks, Queue!WakePeek
<1>6. CASE Queue!WakeAgain(w)
  BY <1>0, <1>6 DEF TypeOK, Queue!TypeOK, NobodyPeeks, Queue!WakeAgain, Queue!Block, Misses
<1>7. CASE Queue!WakeExpired(w)
  BY <1>0, <1>7 DEF TypeOK, Queue!TypeOK, NobodyPeeks, Queue!WakeExpired, Queue!Nothing,
                    Queue!Return, Misses
<1> QED
  BY <1>2, <1>3, <1>4, <1>5, <1>6, <1>7 DEF Queue!PopTimeout, Queue!Resume

-----------------------------------------------------------------------------
(* Each operation preserves the invariant.                                 *)

LEMMA SetExceptionFunctionKeeps ==
    ASSUME NEW h \in Handlers, IInv, SetExceptionFunction(h)
    PROVE  IInv'
<1>1. TypeOK'
  BY ThreadPoolAssumption
     DEF IInv, TypeOK, Queue!TypeOK, chVars, histVars, SetExceptionFunction
<1>2. NobodyPeeks'
  BY DEF IInv, NobodyPeeks, chVars, SetExceptionFunction
<1>3. WorkAccounting'
  <2>1. Holders' = Holders /\ Pushers' = Pushers
    BY DEF IInv, TypeOK, Holders, Pushers, SetExceptionFunction
  <2> QED
    BY <2>1 DEF IInv, WorkAccounting, chVars, SetExceptionFunction
<1>4. TasksKnown'
  BY DEF IInv, TypeOK, TasksKnown, Pushers, Running, chVars, histVars, SetExceptionFunction
<1>5. TasksAccounted'
  BY DEF IInv, TypeOK, TasksAccounted, Pushers, Queued, Running, chVars, histVars,
         SetExceptionFunction
<1>6. StopsOK'
  BY DEF IInv, TypeOK, StopsOK, Closing, Dead, SetExceptionFunction
<1> QED
  BY <1>1, <1>2, <1>3, <1>4, <1>5, <1>6 DEF IInv

LEMMA CountTaskKeeps ==
    ASSUME NEW p \in Threads, NEW t \in Tasks, IInv, CountTask(p, t)
    PROVE  IInv'
<1>a. /\ submitted' = submitted \cup {t} /\ t \notin submitted
      /\ pushing[p] = None /\ pushing'[p] = t /\ t # None
      /\ \A q \in Threads \ {p} : pushing'[q] = pushing[q]
      /\ UNCHANGED <<queue, call, last, worker, stopped, pool, finished>>
  BY ThreadPoolAssumption DEF IInv, TypeOK, CountTask, chVars
<1>b. Pushers' = Pushers \cup {p} /\ p \notin Pushers /\ Holders' = Holders
  BY <1>a DEF Pushers, Holders
<1>1. TypeOK'
  BY DEF IInv, TypeOK, Queue!TypeOK, chVars, histVars, CountTask
<1>2. NobodyPeeks'
  BY DEF IInv, NobodyPeeks, chVars, CountTask
<1>3. WorkAccounting'
  <2>1. Cardinality(Pushers') = Cardinality(Pushers) + 1
    BY <1>b, SetsFinite, SetGrows
  <2>2. remainingWork' = remainingWork + 1 /\ Len(queue) \in Nat
    BY LenProperties DEF CountTask, IInv, TypeOK, Queue!TypeOK
  <2> QED
    BY <1>a, <1>b, <2>1, <2>2, SetsFinite DEF IInv, WorkAccounting
<1>4. TasksKnown'
  <2>1. queue' \in Seq(submitted')
    BY <1>a, SeqWidens DEF IInv, TasksKnown
  <2> QED
    BY <1>a, <1>b, <2>1 DEF IInv, TasksKnown, Pushers, Running
<1>5. TasksAccounted'
  <2>1. ASSUME NEW u \in submitted
        PROVE  \/ u \in finished'
               \/ \E q \in Pushers' : pushing'[q] = u
               \/ Queued(u)'
               \/ \E w \in Running' : last'[w] = u
    <3>1. \A q \in Pushers : q \in Pushers' /\ pushing'[q] = pushing[q]
      BY <1>a, <1>b DEF Pushers
    <3> QED
      BY <1>a, <3>1 DEF IInv, TasksAccounted, Queued, Running
  <2>2. \E q \in Pushers' : pushing'[q] = t
    BY <1>a, <1>b
  <2> QED
    BY <1>a, <2>1, <2>2 DEF TasksAccounted
<1>6. StopsOK'
  <2>1. Closing => p \in Running
    BY DEF CountTask, MayPush, Closing, Running
  <2>2. Closing /\ Workers # {} => Dead # {}
    <3>1. Running # {} => Cardinality(Holders) # 0
      <4>1. Running \subseteq Holders
        BY DEF Running, Holders
      <4> QED
        BY <4>1, SetsFinite, FS_EmptySet
    <3>2. Len(queue) \in Nat
      BY LenProperties DEF IInv, TypeOK, Queue!TypeOK
    <3>3. Running # {} => remainingWork # 0
      BY <3>1, <3>2, SetsFinite DEF IInv, WorkAccounting
    <3> QED
      BY <2>1, <3>3 DEF IInv, StopsOK
  <2> QED
    BY <1>a, <2>2 DEF IInv, StopsOK, Closing, Dead
<1> QED
  BY <1>1, <1>2, <1>3, <1>4, <1>5, <1>6 DEF IInv

LEMMA PushTaskKeeps ==
    ASSUME NEW p \in Threads, IInv, PushTask(p)
    PROVE  IInv'
<1>a. PICK t \in Tasks : pushing[p] = t /\ Queue!Push(p, t) /\ t # None
  BY DEF PushTask, IInv, TypeOK
<1>b. Queue!TypeOK' /\ queue' = Append(queue, t) /\ UNCHANGED <<call, last>>
  BY <1>a, ChannelPush DEF IInv
<1>c. /\ pushing'[p] = None
      /\ \A q \in Threads \ {p} : pushing'[q] = pushing[q]
      /\ UNCHANGED <<remainingWork, worker, stopped, onException, client, pool, aborted,
                     submitted, finished>>
  BY DEF PushTask, histVars, IInv, TypeOK
<1>d. Pushers' = Pushers \ {p} /\ p \in Pushers /\ Holders' = Holders
  BY <1>a, <1>c DEF Pushers, Holders
<1>e. t \in submitted /\ queue \in Seq(submitted)
  BY <1>a, <1>d DEF IInv, TasksKnown
<1>f. /\ Len(queue) \in Nat
      /\ Append(queue, t) \in Seq(submitted)
      /\ Len(queue') = Len(queue) + 1
      /\ \A i \in 1..Len(queue) : queue'[i] = queue[i]
      /\ queue'[Len(queue) + 1] = t
  BY <1>b, <1>e, SeqGrows, LenProperties
<1>1. TypeOK'
  <2>1. pushing' \in [Threads -> Tasks \cup {None}]
    BY DEF PushTask, IInv, TypeOK
  <2> QED
    BY <1>b, <1>c, <2>1 DEF IInv, TypeOK
<1>2. NobodyPeeks'
  BY <1>b DEF IInv, NobodyPeeks
<1>3. WorkAccounting'
  <2>1. Cardinality(Pushers') = Cardinality(Pushers) - 1
    BY <1>d, SetsFinite, SetShrinks
  <2> QED
    BY <1>c, <1>d, <1>f, <2>1, SetsFinite DEF IInv, WorkAccounting
<1>4. TasksKnown'
  BY <1>b, <1>c, <1>d, <1>e, <1>f DEF IInv, TasksKnown, Running, Pushers
<1>5. TasksAccounted'
  <2>1. Queued(t)'
    BY <1>f DEF Queued
  <2>2. \A u : Queued(u) => Queued(u)'
    BY <1>f DEF Queued
  <2>3. \A q \in Pushers : q # p => q \in Pushers' /\ pushing'[q] = pushing[q]
    BY <1>c, <1>d DEF Pushers
  <2> QED
    BY <1>a, <1>b, <1>c, <2>1, <2>2, <2>3 DEF IInv, TasksAccounted, Running
<1>6. StopsOK'
  BY <1>c DEF IInv, StopsOK, Closing, Dead
<1> QED
  BY <1>1, <1>2, <1>3, <1>4, <1>5, <1>6 DEF IInv

LEMMA TestKeeps ==
    ASSUME NEW w \in Workers, IInv, Test(w)
    PROVE  IInv'
<1>1. TypeOK'
  <2>1. worker' \in [Workers -> WorkerStates]
    BY DEF IInv, TypeOK, WorkerStates, Test, Goto
  <2> QED
    BY <2>1 DEF IInv, TypeOK, Queue!TypeOK, chVars, histVars, Test
<1>2. NobodyPeeks'
  BY DEF IInv, NobodyPeeks, chVars, Test, Goto
<1>3. WorkAccounting'
  <2>1. Holders' = Holders /\ Pushers' = Pushers
    BY DEF IInv, TypeOK, Holders, Pushers, Test, Goto
  <2> QED
    BY <2>1 DEF IInv, WorkAccounting, chVars, Test, Goto
<1>4. TasksKnown'
  BY DEF IInv, TypeOK, TasksKnown, Pushers, Running, chVars, histVars, Test, Goto
<1>5. TasksAccounted'
  BY DEF IInv, TypeOK, TasksAccounted, Pushers, Queued, Running, chVars, histVars, Test,
         Goto
<1>6. StopsOK'
  BY DEF IInv, TypeOK, StopsOK, Closing, Dead, Test, Goto
<1> QED
  BY <1>1, <1>2, <1>3, <1>4, <1>5, <1>6 DEF IInv

LEMMA PopKeeps ==
    ASSUME NEW w \in Workers, IInv, Pop(w)
    PROVE  IInv'
<1>a. /\ Queue!TypeOK' /\ NobodyPeeks'
      /\ \A p \in Threads \ {w} : last'[p] = last[p]
      /\ Takes(w) \/ Misses(w)
  BY ChannelPop DEF IInv, Pop
<1>b. /\ worker[w] = "pop"
      /\ UNCHANGED <<remainingWork, pushing, stopped, onException, client, pool, aborted,
                     submitted, finished>>
      /\ \A u \in Workers \ {w} : worker'[u] = worker[u]
  BY DEF IInv, TypeOK, Pop, AfterPop, Goto, histVars
<1>c. ASSUME Takes(w)
      PROVE  /\ worker' = [worker EXCEPT ![w] = "running"]
             /\ Head(queue) \in submitted /\ Tail(queue) \in Seq(submitted)
             /\ Len(queue) \in Nat \ {0} /\ Len(queue') = Len(queue) - 1
             /\ Head(queue) = queue[1]
             /\ \A i \in 1..Len(queue') : queue'[i] = queue[i + 1]
  <2>1. /\ Head(queue) \in submitted /\ Tail(queue) \in Seq(submitted)
        /\ Len(queue) \in Nat \ {0} /\ Len(queue') = Len(queue) - 1
        /\ Head(queue) = queue[1]
        /\ \A i \in 1..Len(queue') : queue'[i] = queue[i + 1]
    BY <1>c, SeqShrinks DEF Takes, IInv, TasksKnown
  <2>2. Head(queue) \in Tasks /\ Head(queue) # None
    BY <2>1, ThreadPoolAssumption DEF IInv, TypeOK
  <2> QED
    BY <1>c, <2>1, <2>2 DEF Takes, Pop, AfterPop, Goto
<1>d. ASSUME Misses(w)
      PROVE  worker' = [worker EXCEPT ![w] = "pop"] \/ worker' = [worker EXCEPT ![w] = "test"]
  BY <1>d DEF Misses, Pop, AfterPop, Goto
<1>e. Threads = Workers \cup Clients
  BY DEF Threads
<1>g. worker \in [Workers -> WorkerStates]
  BY DEF IInv, TypeOK
<1>1. TypeOK'
  <2>1. worker' \in [Workers -> WorkerStates]
    BY <1>a, <1>c, <1>d, <1>g DEF WorkerStates
  <2> QED
    BY <1>a, <1>b, <2>1 DEF IInv, TypeOK
<1>2. NobodyPeeks'
  BY <1>a
<1>3. WorkAccounting'
  <2>1. Pushers' = Pushers
    BY <1>b DEF Pushers
  <2>2. CASE Takes(w)
    <3>1. Holders' = Holders \cup {w} /\ w \notin Holders
      BY <1>b, <1>c, <1>g, <2>2 DEF Holders
    <3>2. Cardinality(Holders') = Cardinality(Holders) + 1
      BY <3>1, SetsFinite, SetGrows
    <3>3. remainingWork = Cardinality(Pushers) + Len(queue) + Cardinality(Holders)
      BY DEF IInv, WorkAccounting
    <3>4. Len(queue) \in Nat /\ Len(queue') = Len(queue) - 1 /\ remainingWork' = remainingWork
      BY <1>b, <1>c, <2>2
    <3> QED
      BY <2>1, <3>2, <3>3, <3>4, SetsFinite DEF WorkAccounting
  <2>3. CASE Misses(w)
    <3>1. Holders' = Holders
      BY <1>b, <1>d, <1>g, <2>3 DEF Holders
    <3> QED
      BY <1>b, <2>1, <2>3, <3>1 DEF IInv, WorkAccounting, Misses
  <2> QED
    BY <1>a, <2>2, <2>3
<1>4. TasksKnown'
  <2>1. \A p \in Pushers' : pushing'[p] \in submitted'
    BY <1>b DEF IInv, TasksKnown, Pushers
  <2>2. CASE Takes(w)
    <3>1. queue' \in Seq(submitted')
      BY <1>b, <1>c, <2>2 DEF Takes
    <3>2. \A u \in Running' : last'[u] \in submitted'
      BY <1>a, <1>b, <1>c, <1>e, <2>2 DEF Takes, Running, IInv, TasksKnown
    <3> QED
      BY <2>1, <3>1, <3>2 DEF TasksKnown
  <2>3. CASE Misses(w)
    <3>1. queue' \in Seq(submitted')
      BY <1>b, <2>3 DEF Misses, IInv, TasksKnown
    <3>2. \A u \in Running' : u # w /\ u \in Running
      BY <1>b, <1>d, <1>g, <2>3 DEF Running
    <3>3. \A u \in Running' : last'[u] \in submitted'
      BY <1>a, <1>b, <1>e, <3>2 DEF Running, IInv, TasksKnown
    <3> QED
      BY <2>1, <3>1, <3>3 DEF TasksKnown
  <2> QED
    BY <1>a, <2>2, <2>3
<1>5. TasksAccounted'
  <2>1. \A u \in Running : u \in Running' /\ last'[u] = last[u]
    BY <1>a, <1>b, <1>e DEF Running
  <2>2. Pushers' = Pushers
    BY <1>b DEF Pushers
  <2>3. ASSUME NEW t, Queued(t)
        PROVE  Queued(t)' \/ \E u \in Running' : last'[u] = t
    <3>1. CASE Misses(w)
      BY <2>3, <3>1 DEF Misses, Queued
    <3>2. CASE Takes(w)
      <4>1. PICK i \in 1..Len(queue) : queue[i] = t
        BY <2>3 DEF Queued
      <4>2. CASE i = 1
        BY <1>c, <1>g, <3>2, <4>1, <4>2 DEF Takes, Running
      <4>3. CASE i # 1
        <5>1. i - 1 \in 1..Len(queue') /\ queue'[i - 1] = queue[i]
          BY <1>c, <3>2, <4>1, <4>3
        <5> QED
          BY <4>1, <5>1 DEF Queued
      <4> QED
        BY <4>2, <4>3
    <3> QED
      BY <1>a, <3>1, <3>2
  <2> QED
    BY <1>b, <2>1, <2>2, <2>3 DEF IInv, TasksAccounted
<1>6. StopsOK'
  <2>1. worker'[w] \notin {"ended", "dead"}
    BY <1>a, <1>c, <1>d, <1>g
  <2>2. Dead' = Dead
    BY <1>b, <2>1 DEF Dead
  <2> QED
    BY <1>b, <2>1, <2>2 DEF IInv, StopsOK, Closing
<1> QED
  BY <1>1, <1>2, <1>3, <1>4, <1>5, <1>6 DEF IInv

LEMMA WakeKeeps ==
    ASSUME NEW w \in Workers, IInv, Wake(w)
    PROVE  IInv'
<1>1. TypeOK'
  BY DEF IInv, TypeOK, Queue!TypeOK, Queue!CvStates, histVars, Wake, Queue!SpuriousWake
<1>2. NobodyPeeks'
  BY DEF IInv, NobodyPeeks, chVars, Wake, Queue!SpuriousWake
<1>3. WorkAccounting'
  <2>1. Holders' = Holders /\ Pushers' = Pushers
    BY DEF IInv, TypeOK, Holders, Pushers, Wake, Queue!SpuriousWake
  <2> QED
    BY <2>1 DEF IInv, WorkAccounting, chVars, Wake, Queue!SpuriousWake
<1>4. TasksKnown'
  BY DEF IInv, TypeOK, TasksKnown, Pushers, Running, chVars, histVars, Wake,
         Queue!SpuriousWake
<1>5. TasksAccounted'
  BY DEF IInv, TypeOK, TasksAccounted, Pushers, Queued, Running, chVars, histVars, Wake,
         Queue!SpuriousWake
<1>6. StopsOK'
  BY DEF IInv, TypeOK, StopsOK, Closing, Dead, Wake, Queue!SpuriousWake
<1> QED
  BY <1>1, <1>2, <1>3, <1>4, <1>5, <1>6 DEF IInv

LEMMA ExpireKeeps ==
    ASSUME NEW w \in Workers, IInv, Expire(w)
    PROVE  IInv'
<1>1. TypeOK'
  BY DEF IInv, TypeOK, Queue!TypeOK, Queue!CvStates, histVars, Expire, Queue!Timeout
<1>2. NobodyPeeks'
  BY DEF IInv, NobodyPeeks, chVars, Expire, Queue!Timeout
<1>3. WorkAccounting'
  <2>1. Holders' = Holders /\ Pushers' = Pushers
    BY DEF IInv, TypeOK, Holders, Pushers, Expire, Queue!Timeout
  <2> QED
    BY <2>1 DEF IInv, WorkAccounting, chVars, Expire, Queue!Timeout
<1>4. TasksKnown'
  BY DEF IInv, TypeOK, TasksKnown, Pushers, Running, chVars, histVars, Expire, Queue!Timeout
<1>5. TasksAccounted'
  BY DEF IInv, TypeOK, TasksAccounted, Pushers, Queued, Running, chVars, histVars, Expire,
         Queue!Timeout
<1>6. StopsOK'
  BY DEF IInv, TypeOK, StopsOK, Closing, Dead, Expire, Queue!Timeout
<1> QED
  BY <1>1, <1>2, <1>3, <1>4, <1>5, <1>6 DEF IInv

LEMMA FinishKeeps ==
    ASSUME NEW w \in Workers, IInv, Finish(w)
    PROVE  IInv'
<1>a. w \in Running /\ w \in Threads /\ last[w] \in submitted
  BY DEF Finish, IInv, TasksKnown, Running, Threads
<1>1. TypeOK'
  BY <1>a DEF IInv, TypeOK, WorkerStates, Queue!TypeOK, chVars, Finish, Goto
<1>2. NobodyPeeks'
  BY DEF IInv, NobodyPeeks, chVars, Finish, Goto
<1>3. WorkAccounting'
  <2>1. Holders' = Holders /\ Pushers' = Pushers
    BY DEF IInv, TypeOK, Holders, Pushers, Finish, Goto
  <2> QED
    BY <2>1 DEF IInv, WorkAccounting, chVars, Finish, Goto
<1>4. TasksKnown'
  BY DEF IInv, TypeOK, TasksKnown, Pushers, Running, chVars, histVars, Finish, Goto
<1>5. TasksAccounted'
  BY DEF IInv, TypeOK, TasksAccounted, Pushers, Queued, Running, chVars, histVars, Finish,
         Goto
<1>6. StopsOK'
  BY DEF IInv, TypeOK, StopsOK, Closing, Dead, Finish, Goto
<1> QED
  BY <1>1, <1>2, <1>3, <1>4, <1>5, <1>6 DEF IInv

LEMMA WorkerDiesKeeps ==
    ASSUME NEW w \in Workers, IInv, WorkerDies(w)
    PROVE  IInv'
<1>a. w \in Running /\ w \in Threads /\ last[w] \in submitted
  BY DEF WorkerDies, IInv, TasksKnown, Running, Threads
<1>1. TypeOK'
  BY <1>a DEF IInv, TypeOK, WorkerStates, Queue!TypeOK, chVars, WorkerDies, Goto
<1>2. NobodyPeeks'
  BY DEF IInv, NobodyPeeks, chVars, WorkerDies, Goto
<1>3. WorkAccounting'
  <2>1. Holders' = Holders /\ Pushers' = Pushers
    BY DEF IInv, TypeOK, Holders, Pushers, WorkerDies, Goto
  <2> QED
    BY <2>1 DEF IInv, WorkAccounting, chVars, WorkerDies, Goto
<1>4. TasksKnown'
  BY DEF IInv, TypeOK, TasksKnown, Pushers, Running, chVars, histVars, WorkerDies, Goto
<1>5. TasksAccounted'
  BY DEF IInv, TypeOK, TasksAccounted, Pushers, Queued, Running, chVars, histVars,
         WorkerDies, Goto
<1>6. StopsOK'
  BY DEF IInv, TypeOK, StopsOK, Closing, Dead, WorkerDies, Goto
<1> QED
  BY <1>1, <1>2, <1>3, <1>4, <1>5, <1>6 DEF IInv

LEMMA AbortKeeps ==
    ASSUME NEW w \in Workers, IInv, Abort(w)
    PROVE  IInv'
<1>1. TypeOK'
  BY DEF IInv, TypeOK, Queue!TypeOK, chVars, histVars, Abort
<1>2. NobodyPeeks'
  BY DEF IInv, NobodyPeeks, chVars, Abort
<1>3. WorkAccounting'
  <2>1. Holders' = Holders /\ Pushers' = Pushers
    BY DEF IInv, TypeOK, Holders, Pushers, Abort
  <2> QED
    BY <2>1 DEF IInv, WorkAccounting, chVars, Abort
<1>4. TasksKnown'
  BY DEF IInv, TypeOK, TasksKnown, Pushers, Running, chVars, histVars, Abort
<1>5. TasksAccounted'
  BY DEF IInv, TypeOK, TasksAccounted, Pushers, Queued, Running, chVars, histVars, Abort
<1>6. StopsOK'
  BY DEF IInv, TypeOK, StopsOK, Closing, Dead, Abort
<1> QED
  BY <1>1, <1>2, <1>3, <1>4, <1>5, <1>6 DEF IInv

LEMMA CountKeeps ==
    ASSUME NEW w \in Workers, IInv, Count(w)
    PROVE  IInv'
<1>a. Holders' = Holders \ {w} /\ w \in Holders /\ Pushers' = Pushers
  BY DEF Count, Goto, IInv, TypeOK, Holders, Pushers
<1>b. Cardinality(Holders') = Cardinality(Holders) - 1
  BY <1>a, SetsFinite, SetShrinks
<1>c. Len(queue) \in Nat /\ queue' = queue
  BY LenProperties DEF IInv, TypeOK, Queue!TypeOK, Count, chVars
<1>d. Cardinality(Holders) # 0
  BY <1>a, SetsFinite, FS_EmptySet
<1>e. remainingWork = Cardinality(Pushers) + Len(queue) + Cardinality(Holders)
  BY DEF IInv, WorkAccounting
<1>f. remainingWork' = remainingWork - 1 /\ remainingWork' \in Nat
  BY <1>c, <1>d, <1>e, SetsFinite DEF Count
<1>1. TypeOK'
  BY <1>f DEF IInv, TypeOK, WorkerStates, Queue!TypeOK, chVars, histVars, Count, Goto
<1>2. NobodyPeeks'
  BY DEF IInv, NobodyPeeks, chVars, Count, Goto
<1>3. WorkAccounting'
  BY <1>a, <1>b, <1>c, <1>e, <1>f, SetsFinite DEF WorkAccounting
<1>4. TasksKnown'
  BY DEF IInv, TypeOK, TasksKnown, Pushers, Running, chVars, histVars, Count, Goto
<1>5. TasksAccounted'
  BY DEF IInv, TypeOK, TasksAccounted, Pushers, Queued, Running, chVars, histVars, Count,
         Goto
<1>6. StopsOK'
  <2>1. remainingWork # 0
    BY <1>c, <1>d, <1>e, SetsFinite
  <2> QED
    BY <2>1 DEF IInv, TypeOK, StopsOK, Closing, Dead, Count, Goto
<1> QED
  BY <1>1, <1>2, <1>3, <1>4, <1>5, <1>6 DEF IInv

LEMMA BeginJoinKeeps ==
    ASSUME NEW c \in Clients, IInv, BeginJoin(c)
    PROVE  IInv'
<1>1. TypeOK'
  BY DEF IInv, TypeOK, Queue!TypeOK, chVars, histVars, BeginJoin
<1>2. NobodyPeeks'
  BY DEF IInv, NobodyPeeks, chVars, BeginJoin
<1>3. WorkAccounting'
  <2>1. Holders' = Holders /\ Pushers' = Pushers
    BY DEF IInv, TypeOK, Holders, Pushers, BeginJoin
  <2> QED
    BY <2>1 DEF IInv, WorkAccounting, chVars, BeginJoin
<1>4. TasksKnown'
  BY DEF IInv, TypeOK, TasksKnown, Pushers, Running, chVars, histVars, BeginJoin
<1>5. TasksAccounted'
  BY DEF IInv, TypeOK, TasksAccounted, Pushers, Queued, Running, chVars, histVars, BeginJoin
<1>6. StopsOK'
  BY DEF IInv, TypeOK, StopsOK, Closing, Dead, BeginJoin
<1> QED
  BY <1>1, <1>2, <1>3, <1>4, <1>5, <1>6 DEF IInv

LEMMA EndJoinKeeps ==
    ASSUME NEW c \in Clients, IInv, EndJoin(c)
    PROVE  IInv'
<1>1. TypeOK'
  BY DEF IInv, TypeOK, Queue!TypeOK, chVars, histVars, EndJoin
<1>2. NobodyPeeks'
  BY DEF IInv, NobodyPeeks, chVars, EndJoin
<1>3. WorkAccounting'
  <2>1. Holders' = Holders /\ Pushers' = Pushers
    BY DEF IInv, TypeOK, Holders, Pushers, EndJoin
  <2> QED
    BY <2>1 DEF IInv, WorkAccounting, chVars, EndJoin
<1>4. TasksKnown'
  BY DEF IInv, TypeOK, TasksKnown, Pushers, Running, chVars, histVars, EndJoin
<1>5. TasksAccounted'
  BY DEF IInv, TypeOK, TasksAccounted, Pushers, Queued, Running, chVars, histVars, EndJoin
<1>6. StopsOK'
  BY DEF IInv, TypeOK, StopsOK, Closing, Dead, EndJoin
<1> QED
  BY <1>1, <1>2, <1>3, <1>4, <1>5, <1>6 DEF IInv

LEMMA BeginDestroyKeeps ==
    ASSUME IInv, BeginDestroy
    PROVE  IInv'
<1>1. TypeOK'
  BY DEF IInv, TypeOK, Queue!TypeOK, chVars, histVars, BeginDestroy
<1>2. NobodyPeeks'
  BY DEF IInv, NobodyPeeks, chVars, BeginDestroy
<1>3. WorkAccounting'
  <2>1. Holders' = Holders /\ Pushers' = Pushers
    BY DEF IInv, TypeOK, Holders, Pushers, BeginDestroy
  <2> QED
    BY <2>1 DEF IInv, WorkAccounting, chVars, BeginDestroy
<1>4. TasksKnown'
  BY DEF IInv, TypeOK, TasksKnown, Pushers, Running, chVars, histVars, BeginDestroy
<1>5. TasksAccounted'
  BY DEF IInv, TypeOK, TasksAccounted, Pushers, Queued, Running, chVars, histVars,
         BeginDestroy
<1>6. StopsOK'
  BY DEF IInv, TypeOK, StopsOK, Closing, Dead, BeginDestroy
<1> QED
  BY <1>1, <1>2, <1>3, <1>4, <1>5, <1>6 DEF IInv

LEMMA DrainedKeeps ==
    ASSUME IInv, Drained
    PROVE  IInv'
<1>1. TypeOK'
  BY DEF IInv, TypeOK, Queue!TypeOK, chVars, histVars, Drained
<1>2. NobodyPeeks'
  BY DEF IInv, NobodyPeeks, chVars, Drained
<1>3. WorkAccounting'
  <2>1. Holders' = Holders /\ Pushers' = Pushers
    BY DEF IInv, TypeOK, Holders, Pushers, Drained
  <2> QED
    BY <2>1 DEF IInv, WorkAccounting, chVars, Drained
<1>4. TasksKnown'
  BY DEF IInv, TypeOK, TasksKnown, Pushers, Running, chVars, histVars, Drained
<1>5. TasksAccounted'
  BY DEF IInv, TypeOK, TasksAccounted, Pushers, Queued, Running, chVars, histVars, Drained
<1>6. StopsOK'
  <2>1. ASSUME AllDead, Workers # {} PROVE Dead # {}
    <3>1. PICK w \in Workers : worker[w] \in {"ended", "dead"}
      BY <2>1 DEF AllDead, Gone
    <3>2. worker[w] = "dead"
      BY <3>1 DEF IInv, StopsOK, Closing, Drained
    <3> QED
      BY <3>2 DEF Dead
  <2> QED
    BY <2>1 DEF IInv, StopsOK, Closing, Dead, Drained
<1> QED
  BY <1>1, <1>2, <1>3, <1>4, <1>5, <1>6 DEF IInv

LEMMA StopWorkerKeeps ==
    ASSUME NEW w \in Workers, IInv, StopWorker(w)
    PROVE  IInv'
<1>1. TypeOK'
  BY DEF IInv, TypeOK, Queue!TypeOK, chVars, histVars, StopWorker
<1>2. NobodyPeeks'
  BY DEF IInv, NobodyPeeks, chVars, StopWorker
<1>3. WorkAccounting'
  <2>1. Holders' = Holders /\ Pushers' = Pushers
    BY DEF IInv, TypeOK, Holders, Pushers, StopWorker
  <2> QED
    BY <2>1 DEF IInv, WorkAccounting, chVars, StopWorker
<1>4. TasksKnown'
  BY DEF IInv, TypeOK, TasksKnown, Pushers, Running, chVars, histVars, StopWorker
<1>5. TasksAccounted'
  BY DEF IInv, TypeOK, TasksAccounted, Pushers, Queued, Running, chVars, histVars,
         StopWorker
<1>6. StopsOK'
  BY DEF IInv, TypeOK, StopsOK, Closing, Dead, StopWorker
<1> QED
  BY <1>1, <1>2, <1>3, <1>4, <1>5, <1>6 DEF IInv

LEMMA DestroyedKeeps ==
    ASSUME IInv, Destroyed
    PROVE  IInv'
<1>1. TypeOK'
  BY DEF IInv, TypeOK, Queue!TypeOK, chVars, histVars, Destroyed
<1>2. NobodyPeeks'
  BY DEF IInv, NobodyPeeks, chVars, Destroyed
<1>3. WorkAccounting'
  <2>1. Holders' = Holders /\ Pushers' = Pushers
    BY DEF IInv, TypeOK, Holders, Pushers, Destroyed
  <2> QED
    BY <2>1 DEF IInv, WorkAccounting, chVars, Destroyed
<1>4. TasksKnown'
  BY DEF IInv, TypeOK, TasksKnown, Pushers, Running, chVars, histVars, Destroyed
<1>5. TasksAccounted'
  BY DEF IInv, TypeOK, TasksAccounted, Pushers, Queued, Running, chVars, histVars, Destroyed
<1>6. StopsOK'
  BY DEF IInv, TypeOK, StopsOK, Closing, Dead, Destroyed
<1> QED
  BY <1>1, <1>2, <1>3, <1>4, <1>5, <1>6 DEF IInv

-----------------------------------------------------------------------------
LEMMA InitIInv == Init => IInv
<1> SUFFICES ASSUME Init PROVE IInv
  OBVIOUS
<1>1. Queue!TypeOK
  BY EmptySeq DEF Init, Queue!Init, Queue!TypeOK, Queue!Calls, Queue!CvStates
<1>2. TypeOK
  BY <1>1 DEF Init, TypeOK, WorkerStates
<1>3. Pushers = {} /\ Holders = {} /\ queue = <<>>
  BY DEF Init, Pushers, Holders, Queue!Init
<1>4. WorkAccounting
  BY <1>3, FS_EmptySet, EmptySeq DEF Init, WorkAccounting
<1>5. NobodyPeeks
  BY DEF Init, Queue!Init, NobodyPeeks
<1>6. TasksKnown /\ TasksAccounted
  BY <1>3, EmptySeq DEF Init, TasksKnown, TasksAccounted, Running
<1>7. StopsOK
  BY DEF Init, StopsOK, Closing
<1> QED
  BY <1>2, <1>4, <1>5, <1>6, <1>7 DEF IInv

LEMMA NextIInv == IInv /\ [Next]_vars => IInv'
<1> SUFFICES ASSUME IInv, [Next]_vars PROVE IInv'
  OBVIOUS
<1>1. ASSUME NEW h \in Handlers, SetExceptionFunction(h) PROVE IInv'
  BY <1>1, SetExceptionFunctionKeeps
<1>2. ASSUME NEW p \in Threads, PushTask(p) PROVE IInv'
  BY <1>2, PushTaskKeeps
<1>3. ASSUME NEW p \in Threads, NEW t \in Tasks, CountTask(p, t) PROVE IInv'
  BY <1>3, CountTaskKeeps
<1>4. ASSUME NEW w \in Workers, Proceed(w) PROVE IInv'
  BY <1>4, TestKeeps, PopKeeps, CountKeeps DEF Proceed
<1>5. ASSUME NEW w \in Workers, Finish(w) \/ WorkerDies(w) \/ Abort(w) PROVE IInv'
  BY <1>5, FinishKeeps, WorkerDiesKeeps, AbortKeeps
<1>6. ASSUME NEW w \in Workers, Wake(w) \/ Expire(w) PROVE IInv'
  BY <1>6, WakeKeeps, ExpireKeeps
<1>7. ASSUME NEW c \in Clients, BeginJoin(c) \/ EndJoin(c) PROVE IInv'
  BY <1>7, BeginJoinKeeps, EndJoinKeeps
<1>8. ASSUME BeginDestroy \/ Destructor PROVE IInv'
  BY <1>8, BeginDestroyKeeps, DrainedKeeps, DestroyedKeeps, StopWorkerKeeps DEF Destructor
<1>9. CASE UNCHANGED vars
  <2>1. TypeOK' /\ NobodyPeeks'
    BY <1>9 DEF vars, IInv, TypeOK, Queue!TypeOK, NobodyPeeks
  <2>2. WorkAccounting'
    BY <1>9 DEF vars, IInv, WorkAccounting, Pushers, Holders
  <2>3. TasksKnown' /\ TasksAccounted'
    BY <1>9 DEF vars, IInv, TasksKnown, TasksAccounted, Pushers, Running, Queued
  <2>4. StopsOK'
    BY <1>9 DEF vars, IInv, StopsOK, Closing, Dead
  <2> QED
    BY <2>1, <2>2, <2>3, <2>4 DEF IInv
<1> QED
  BY <1>1, <1>2, <1>3, <1>4, <1>5, <1>6, <1>7, <1>8, <1>9 DEF Next, Over

\* Where every task is and what the counter says of it agree in every
\* reachable state: the invariant all the properties below follow from.
THEOREM PoolInvariant == Spec => []IInv
<1>1. Init => IInv
  BY InitIInv
<1>2. IInv /\ [Next]_vars => IInv'
  BY NextIInv
<1> QED
  BY <1>1, <1>2, PTL DEF Spec

\* The pool and its channel are well typed, and only submitted tasks are run.
THEOREM TypeCorrect == Spec => []TypeOK
<1>1. IInv => TypeOK
  BY DEF IInv
<1> QED
  BY <1>1, PoolInvariant, PTL

\* The counter covers the tasks about to be queued, the queued ones and the
\* ones in a worker's hands, exactly (ThreadPool.cpp 42, 82-83).
THEOREM AccountingCorrect == Spec => []WorkAccounting
<1>1. IInv => WorkAccounting
  BY DEF IInv
<1> QED
  BY <1>1, PoolInvariant, PTL

\* When the counter is zero, every task that was submitted is over.
LEMMA ZeroMeansDone ==
    ASSUME IInv, remainingWork = 0
    PROVE  submitted \subseteq finished /\ Holders = {}
<1>1. queue \in Seq(submitted) /\ Len(queue) \in Nat
  BY LenProperties DEF IInv, TasksKnown
<1>2. remainingWork = Cardinality(Pushers) + Len(queue) + Cardinality(Holders)
  BY DEF IInv, WorkAccounting
<1>3. Cardinality(Pushers) = 0 /\ Len(queue) = 0 /\ Cardinality(Holders) = 0
  BY <1>1, <1>2, SetsFinite
<1>4. Pushers = {} /\ Holders = {}
  BY <1>3, SetsFinite, FS_EmptySet
<1>5. Running = {} /\ \A t : ~Queued(t)
  BY <1>3, <1>4 DEF Running, Holders, Queued
<1> QED
  BY <1>4, <1>5 DEF IInv, TasksAccounted

\* join returns only when every task given to pushTask so far is over, the
\* ones that tasks pushed included (ThreadPool.hpp 30).
THEOREM JoinCorrect == Spec => JoinWaitsForAll
<1> DEFINE Waits == \A c \in Clients : client[c] = "join" /\ client'[c] = "free" =>
                        submitted \subseteq finished
<1>1. ASSUME IInv, [Next]_vars, NEW c \in Clients, client[c] = "join", client'[c] = "free"
      PROVE  submitted \subseteq finished
  <2>1. PICK d \in Clients : EndJoin(d)
    <3>1. \A d \in Clients : ~BeginJoin(d)
      BY <1>1 DEF BeginJoin, IInv, TypeOK
    <3>2. client' # client
      BY <1>1
    <3> QED
      BY <1>1, <3>1, <3>2
      DEF Next, Over, vars, SetExceptionFunction, PushTask, CountTask, Proceed, Test, Pop, Count,
          Finish, WorkerDies, Abort, Wake, Expire, BeginDestroy, Destructor, Drained, Destroyed,
          StopWorker
  <2> QED
    BY <1>1, <2>1, ZeroMeansDone DEF EndJoin
<1>2. IInv /\ [Next]_vars => [Waits]_vars
  BY <1>1
<1> QED
  BY <1>2, PoolInvariant, PTL DEF Spec, JoinWaitsForAll

\* The destructor of a pool with workers drops no task, unless some worker
\* died (ThreadPool.cpp 62-71).  A pool without workers counts as dead at
\* once (86-100, 109) and drops what it was given.
THEOREM DestructorCorrect ==
    ASSUME Workers # {}
    PROVE  Spec => []NothingDropped
<1>1. IInv => NothingDropped
  <2> SUFFICES ASSUME IInv, Closing, Dead = {} PROVE submitted = finished
    BY DEF NothingDropped, Closing, Dead
  <2>1. remainingWork = 0
    BY DEF IInv, StopsOK
  <2>2. submitted \subseteq finished
    BY <2>1, ZeroMeansDone
  <2> QED
    BY <2>2 DEF IInv, TypeOK
<1> QED
  BY <1>1, PoolInvariant, PTL
=============================================================================
