------------------------------ MODULE ThreadPool ------------------------------
(***************************************************************************)
(* asp::ThreadPool (src/thread/ThreadPool.cpp): workers, each an           *)
(* asp::Thread whose loop function takes one task from a shared Channel,   *)
(* a counter of unfinished tasks that join() polls, and a destructor that  *)
(* joins, stops the workers and joins their threads.                       *)
(*                                                                         *)
(* The channel's own steps are those of module Channel.  A task may push   *)
(* further tasks and may end in a std::exception.  The pool is owned by    *)
(* one thread that destroys it when no client is inside a call; tasks may  *)
(* still push then.  setExceptionFunction is called before the first task, *)
(* the only time at which it does not race with the workers.               *)
(***************************************************************************)
EXTENDS Naturals, Sequences, FiniteSets

CONSTANTS Workers,   \* the worker threads
          Clients,   \* the threads that push tasks and join
          Tasks,     \* the tasks, each pushed at most once
          None,      \* std::nullopt
          Handlers,  \* what onException may be: "unset", "returns", "throws"
          Windows    \* whether allDead asks for exit codes (_WIN32)

ASSUME ThreadPoolAssumption ==
    /\ IsFiniteSet(Workers) /\ IsFiniteSet(Clients) /\ IsFiniteSet(Tasks)
    /\ Workers \cap Clients = {}
    /\ None \notin Tasks
    /\ Handlers \subseteq {"unset", "returns", "throws"}
    /\ Windows \in BOOLEAN

Threads == Workers \cup Clients

VARIABLES queue, call, cv, sent, last, peeked,   \* the task channel
          remainingWork,   \* the atomic counter
          pushing,    \* pushing[p]: the task p has counted and not yet queued
          worker,     \* worker[w]: where w is in its loop
          stopped,    \* stopped[w]: w's stop flag
          onException,\* the pool's and its threads' exception function
          client,     \* client[c]: "free", or blocked in "join"
          pool,       \* how far the destructor is
          aborted,    \* std::terminate has been called
          submitted,  \* history: the tasks given to pushTask
          finished    \* history: the tasks whose function is over

chVars   == <<queue, call, cv, sent, last, peeked>>
histVars == <<submitted, finished>>
vars == <<queue, call, cv, sent, last, peeked, remainingWork, pushing, worker, stopped,
          onException, client, pool, aborted, submitted, finished>>

Queue == INSTANCE Channel
           WITH Procs <- Threads, Peekers <- {}, Msgs <- Tasks,
                NoMsg <- None, MaxSent <- Cardinality(Tasks)

\* The constructor has started every worker.
Init ==
    /\ Queue!Init
    /\ remainingWork = 0
    /\ pushing = [p \in Threads |-> None]
    /\ worker = [w \in Workers |-> "test"]
    /\ stopped = [w \in Workers |-> FALSE]
    /\ onException = "unset"
    /\ client = [c \in Clients |-> "free"]
    /\ pool = "open"
    /\ aborted = FALSE
    /\ submitted = {}
    /\ finished = {}

-----------------------------------------------------------------------------
(* Pushing tasks: from outside, or from inside a task.                     *)

SetExceptionFunction(h) ==
    /\ pool = "open"
    /\ submitted = {}
    /\ onException' = h
    /\ UNCHANGED <<chVars, remainingWork, pushing, worker, stopped, client, pool,
                   aborted, histVars>>

MayPush(p) ==
    \/ p \in Clients /\ pool = "open" /\ client[p] = "free"
    \/ p \in Workers /\ worker[p] = "running"

\* pushTask counts the task first ...
CountTask(p, t) ==
    /\ MayPush(p)
    /\ pushing[p] = None
    /\ t \notin submitted
    /\ remainingWork' = remainingWork + 1
    /\ pushing' = [pushing EXCEPT ![p] = t]
    /\ submitted' = submitted \cup {t}
    /\ UNCHANGED <<chVars, worker, stopped, onException, client, pool, aborted, finished>>

\* ... and queues it then.
PushTask(p) ==
    /\ pushing[p] # None
    /\ Queue!Push(p, pushing[p])
    /\ pushing' = [pushing EXCEPT ![p] = None]
    /\ UNCHANGED <<remainingWork, worker, stopped, onException, client, pool,
                   aborted, histVars>>

-----------------------------------------------------------------------------
(* The workers: Thread's loop around the pool's loop function.             *)

Goto(w, l) == worker' = [worker EXCEPT ![w] = l]

Test(w) ==
    /\ worker[w] = "test"
    /\ Goto(w, IF stopped[w] THEN "ended" ELSE "pop")
    /\ UNCHANGED <<chVars, remainingWork, pushing, stopped, onException, client,
                   pool, aborted, histVars>>

\* Mistake: a worker that found nothing to do ends.
AfterPopQuits(w) ==
    Goto(w, CASE call'[w] # "none" -> "pop"
              [] call'[w] = "none" /\ last'[w] # None -> "running"
              [] call'[w] = "none" /\ last'[w] = None -> "ended")

\* Where w is after a step of its popTimeout: still inside, with a task, or
\* back at the loop's test with nothing.
AfterPop(w) ==
    Goto(w, CASE call'[w] # "none" -> "pop"
              [] call'[w] = "none" /\ last'[w] # None -> "running"
              [] call'[w] = "none" /\ last'[w] = None -> "test")

Pop(w) ==
    /\ worker[w] = "pop"
    /\ Queue!PopTimeout(w) \/ Queue!Resume(w)
    /\ AfterPop(w)
    /\ UNCHANGED <<remainingWork, pushing, stopped, onException, client, pool,
                   aborted, histVars>>

\* The condition variable moves on by itself.
Wake(w) ==
    /\ Queue!SpuriousWake(w)
    /\ UNCHANGED <<remainingWork, pushing, worker, stopped, onException, client,
                   pool, aborted, histVars>>

Expire(w) ==
    /\ Queue!Timeout(w)
    /\ UNCHANGED <<remainingWork, pushing, worker, stopped, onException, client,
                   pool, aborted, histVars>>

\* Mistake: the task is over and is not counted.
FinishUncounted(w) ==
    /\ worker[w] = "running"
    /\ pushing[w] = None
    /\ finished' = finished \cup {last[w]}
    /\ Goto(w, "test")
    /\ UNCHANGED <<chVars, remainingWork, pushing, stopped, onException, client,
                   pool, aborted, submitted>>

\* The task is over, normally or with an exception that onException handled.
Finish(w) ==
    /\ worker[w] = "running"
    /\ pushing[w] = None
    /\ finished' = finished \cup {last[w]}
    /\ Goto(w, "count")
    /\ UNCHANGED <<chVars, remainingWork, pushing, stopped, onException, client,
                   pool, aborted, submitted>>

\* The task threw and so did onException: Thread's handler, which is the same
\* function, gets that exception, and if it returns the worker ends without
\* having counted the task.
WorkerDies(w) ==
    /\ worker[w] = "running"
    /\ pushing[w] = None
    /\ onException = "throws"
    /\ finished' = finished \cup {last[w]}
    /\ Goto(w, "dead")
    /\ stopped' = [stopped EXCEPT ![w] = TRUE]
    /\ UNCHANGED <<chVars, remainingWork, pushing, onException, client, pool,
                   aborted, submitted>>

\* No handler (std::bad_function_call, which nobody handles), or one that
\* throws both times.
Abort(w) ==
    /\ worker[w] = "running"
    /\ pushing[w] = None
    /\ onException \in {"unset", "throws"}
    /\ aborted' = TRUE
    /\ UNCHANGED <<chVars, remainingWork, pushing, worker, stopped, onException,
                   client, pool, histVars>>

\* fetch_sub, and back to the loop's test.
Count(w) ==
    /\ worker[w] = "count"
    /\ remainingWork' = remainingWork - 1
    /\ Goto(w, "test")
    /\ UNCHANGED <<chVars, pushing, stopped, onException, client, pool, aborted,
                   histVars>>

-----------------------------------------------------------------------------
(* join and the destructor.                                                *)

\* On POSIX allDead asks joinable(), which is true of every worker until the
\* destructor has joined it.
Gone(w) == worker[w] \in {"ended", "dead"}
\* Mistake: joinable() is asked on Windows too.
AllJoined == \A w \in Workers : FALSE

AllDead == \A w \in Workers : Windows /\ Gone(w)

BeginJoin(c) ==
    /\ pool = "open"
    /\ client[c] = "free" /\ pushing[c] = None
    /\ client' = [client EXCEPT ![c] = "join"]
    /\ UNCHANGED <<chVars, remainingWork, pushing, worker, stopped, onException,
                   pool, aborted, histVars>>

\* Mistake: join waits for an empty queue, not for the counter.
EndJoinEmpty(c) ==
    /\ client[c] = "join"
    /\ queue = <<>>
    /\ client' = [client EXCEPT ![c] = "free"]
    /\ UNCHANGED <<chVars, remainingWork, pushing, worker, stopped, onException,
                   pool, aborted, histVars>>

\* The semaphore is never released: join looks at the counter every 25 ms.
EndJoin(c) ==
    /\ client[c] = "join"
    /\ remainingWork = 0
    /\ client' = [client EXCEPT ![c] = "free"]
    /\ UNCHANGED <<chVars, remainingWork, pushing, worker, stopped, onException,
                   pool, aborted, histVars>>

BeginDestroy ==
    /\ pool = "open"
    /\ \A c \in Clients : client[c] = "free" /\ pushing[c] = None
    /\ pool' = "joining"
    /\ UNCHANGED <<chVars, remainingWork, pushing, worker, stopped, onException,
                   client, aborted, histVars>>

\* Mistake: the destructor waits for an empty queue, not for the counter.
DrainedEmpty ==
    /\ pool = "joining"
    /\ queue = <<>> \/ AllDead
    /\ pool' = "stopping"
    /\ UNCHANGED <<chVars, remainingWork, pushing, worker, stopped, onException,
                   client, aborted, histVars>>

\* Mistake: the destructor also waits for the workers, which nobody stopped.
DrainedAndDead ==
    /\ pool = "joining"
    /\ remainingWork = 0 /\ AllDead
    /\ pool' = "stopping"
    /\ UNCHANGED <<chVars, remainingWork, pushing, worker, stopped, onException,
                   client, aborted, histVars>>

Drained ==
    /\ pool = "joining"
    /\ remainingWork = 0 \/ AllDead
    /\ pool' = "stopping"
    /\ UNCHANGED <<chVars, remainingWork, pushing, worker, stopped, onException,
                   client, aborted, histVars>>

StopWorker(w) ==
    /\ pool = "stopping"
    /\ ~stopped[w]
    /\ stopped' = [stopped EXCEPT ![w] = TRUE]
    /\ UNCHANGED <<chVars, remainingWork, pushing, worker, onException, client,
                   pool, aborted, histVars>>

\* Every thread has been told to stop and has been joined.
Destroyed ==
    /\ pool = "stopping"
    /\ \A w \in Workers : stopped[w] /\ Gone(w)
    /\ pool' = "destroyed"
    /\ UNCHANGED <<chVars, remainingWork, pushing, worker, stopped, onException,
                   client, aborted, histVars>>

Destructor == Drained \/ Destroyed \/ \E w \in Workers : StopWorker(w)

-----------------------------------------------------------------------------
\* What a thread does by itself once it is in the middle of something.
Proceed(w) == Test(w) \/ Pop(w) \/ Count(w)

Over == (aborted \/ pool = "destroyed") /\ UNCHANGED vars

Next ==
    \/ /\ ~aborted
       /\ \/ \E h \in Handlers : SetExceptionFunction(h)
          \/ \E p \in Threads : PushTask(p) \/ \E t \in Tasks : CountTask(p, t)
          \/ \E w \in Workers :
                Proceed(w) \/ Finish(w) \/ WorkerDies(w) \/ Abort(w) \/ Wake(w) \/ Expire(w)
          \/ \E c \in Clients : BeginJoin(c) \/ EndJoin(c)
          \/ BeginDestroy \/ Destructor
    \/ Over

Spec == Init /\ [][Next]_vars

\* Threads are scheduled; a task that is running ends; deadlines expire (they
\* are absolute); join polls for ever.  Nobody has to push or to throw.
Fairness ==
    /\ \A p \in Threads : WF_vars(~aborted /\ PushTask(p))
    /\ \A w \in Workers : /\ WF_vars(~aborted /\ Proceed(w))
                          /\ WF_vars(~aborted /\ Finish(w))
                          /\ SF_vars(~aborted /\ Expire(w))
    /\ \A c \in Clients : WF_vars(~aborted /\ EndJoin(c))
    /\ WF_vars(~aborted /\ Destructor)

FairSpec == Spec /\ Fairness

-----------------------------------------------------------------------------
(* Properties.                                                             *)

WorkerStates == {"test", "pop", "running", "count", "ended", "dead"}

TypeOK ==
    /\ Queue!TypeOK
    /\ remainingWork \in Nat
    /\ pushing \in [Threads -> Tasks \cup {None}]
    /\ worker \in [Workers -> WorkerStates]
    /\ stopped \in [Workers -> BOOLEAN]
    /\ onException \in {"unset", "returns", "throws"}
    /\ client \in [Clients -> {"free", "join"}]
    /\ pool \in {"open", "joining", "stopping", "destroyed"}
    /\ aborted \in BOOLEAN
    /\ submitted \subseteq Tasks
    /\ finished \subseteq submitted

Pushers == {p \in Threads : pushing[p] # None}
Holders == {w \in Workers : worker[w] \in {"running", "count", "dead"}}

\* The counter is exact: it covers the tasks about to be queued, the queued
\* ones and the ones in a worker's hands, and nothing else (ThreadPool.cpp
\* 42, 82-83).  A worker that died of its handler keeps its task counted.
WorkAccounting ==
    remainingWork = Cardinality(Pushers) + Len(queue) + Cardinality(Holders)

\* "Block the calling thread until all tasks have been completed"
\* (ThreadPool.hpp 30): when join returns, every task given to pushTask so
\* far is over, the ones pushed by tasks included.
JoinWaitsForAll ==
    [][\A c \in Clients : client[c] = "join" /\ client'[c] = "free" =>
           submitted \subseteq finished]_vars

\* The destructor drops nothing: no worker is stopped while a task is left,
\* those pushed by other tasks meanwhile included (ThreadPool.cpp 62-71),
\* unless workers died.
NothingDropped ==
    pool \in {"stopping", "destroyed"} =>
        submitted = finished \/ \E w \in Workers : worker[w] = "dead"

\* Every task given to the pool is run, unless the program is terminated or
\* workers died (ThreadPool.cpp 32-42, 79-84).
TasksRun ==
    \A t \in Tasks : t \in submitted ~>
        (t \in finished \/ aborted \/ \E w \in Workers : worker[w] = "dead")

\* So do join and the destructor return (ThreadPool.cpp 55-77, 102-121).
JoinsReturn ==
    /\ \A c \in Clients : client[c] = "join" ~>
          (client[c] = "free" \/ aborted \/ \E w \in Workers : worker[w] = "dead")
    /\ pool = "joining" ~>
          (pool = "destroyed" \/ aborted \/ \E w \in Workers : worker[w] = "dead")

\* "if we are destructing, it's possible that all threads are dead now, just
\* terminate" (ThreadPool.cpp 108): the destructor does not wait for dead
\* workers to do the remaining work.
DeadPoolIsDestroyed ==
    pool = "joining" /\ (\A w \in Workers : Gone(w)) ~> (pool = "destroyed" \/ aborted)
=============================================================================
