-------------------------------- MODULE Thread --------------------------------
(***************************************************************************)
(* asp::Thread (include/asp/thread/Thread.hpp): an owner object with a     *)
(* std::thread handle and a shared Storage (stop flag, loop function,      *)
(* callbacks), and the OS threads that it starts, here called runs.        *)
(*                                                                         *)
(* One controller thread calls the operations of the objects; any thread   *)
(* may call stop() meanwhile, and a loop function may stop its own run     *)
(* through the StopToken it is given.  A blocking operation is a step that *)
(* enters it and a step that completes it when the join returns.           *)
(*                                                                         *)
(* Left out: onStart and onTermination only run user code; start() on a    *)
(* moved-from object and stop() on a detached one throw and change nothing;*)
(* using a detached object otherwise is documented as forbidden.           *)
(***************************************************************************)
EXTENDS Naturals, FiniteSets

CONSTANTS Objs,       \* places in memory that may hold an asp::Thread
          Storages,   \* the Storage objects that can be allocated
          MaxRuns,    \* bound: how many OS threads are started in all
          None,       \* the null pointer, the empty handle
          Liberties   \* what the program does besides the plain uses:
                      \*   "restart"    start() while an earlier run goes on that
                      \*                has been asked to stop
                      \*   "rerun"      start() while one goes on that nobody asked
                      \*   "refill"     move-assigns into a moved-from object
                      \*   "overwrite"  move-assigns over a joinable object

Runs == 1..MaxRuns

ASSUME ThreadAssumption ==
    /\ MaxRuns \in Nat
    /\ None \notin Storages \cup Runs
    /\ Liberties \subseteq {"restart", "rerun", "refill", "overwrite"}

VARIABLES obj,       \* obj[o]: the Thread object in place o
          store,     \* store[s]: the Storage s
          run,       \* run[r]: the OS thread r
          ctl,       \* what the controller is blocked in
          aborted,   \* why std::terminate has been called, if it has
          asked,     \* history, asked[s]: stop() was called since start()
          told,      \* history, told[r]: r's StopToken was used
          taken      \* history: the liberties taken so far

vars == <<obj, store, run, ctl, aborted, asked, told, taken>>

Nothing == [alive |-> FALSE, handle |-> None, store |-> None, movedFrom |-> FALSE]
Idle    == [op |-> "idle", obj |-> None]

Init ==
    /\ obj = [o \in Objs |-> Nothing]
    /\ store = [s \in Storages |-> [used |-> FALSE, stopped |-> FALSE, onException |-> FALSE]]
    /\ run = [r \in Runs |-> [pc |-> "unused", store |-> None, detached |-> FALSE]]
    /\ ctl = Idle
    /\ aborted = "no"
    /\ asked = [s \in Storages |-> FALSE]
    /\ told = [r \in Runs |-> FALSE]
    /\ taken = {}

Live(r) == run[r].pc \notin {"unused", "finished"}

\* _handle.joinable(): also true for a run that has finished.
Joinable(o) == obj[o].handle # None

\* Mistake: the join waits for the loop only, not for onTermination.
JoinReadyEarly(o) == Joinable(o) => run[obj[o].handle].pc \in {"ending", "finished"}

\* std::thread::join can return (or there is nothing to join).
JoinReady(o) == Joinable(o) => run[obj[o].handle].pc = "finished"

\* The controller is free and o holds an object.
Owns(o) == ctl.op = "idle" /\ obj[o].alive

-----------------------------------------------------------------------------
(* Construction and moves.                                                 *)

\* The constructors and, before the thread runs, the setters.
Construct(o) ==
    /\ ctl.op = "idle"
    /\ ~obj[o].alive
    /\ \E s \in Storages : ~store[s].used
    /\ LET s == CHOOSE s \in Storages : ~store[s].used IN
          \E h \in BOOLEAN :
             /\ store' = [store EXCEPT ![s] = [used |-> TRUE, stopped |-> TRUE, onException |-> h]]
             /\ obj' = [obj EXCEPT ![o] = [Nothing EXCEPT !.alive = TRUE, !.store = s]]
    /\ UNCHANGED <<run, ctl, aborted, asked, told, taken>>

\* Mistake: the storage is left behind.
TakeHandle(o, other, mark) ==
    obj' = [obj EXCEPT ![o] = [@ EXCEPT !.alive = TRUE, !.handle = obj[other].handle,
                                        !.movedFrom = mark],
                       ![other] = [@ EXCEPT !.handle = None, !.movedFrom = TRUE]]

\* Handle and storage change hands; other is marked.
Take(o, other, mark) ==
    obj' = [obj EXCEPT ![o] = [obj[other] EXCEPT !.movedFrom = mark],
                       ![other] = [Nothing EXCEPT !.alive = TRUE, !.movedFrom = TRUE]]

MoveConstruct(o, other) ==
    /\ Owns(other)
    /\ ~obj[o].alive
    /\ Take(o, other, FALSE)
    /\ UNCHANGED <<store, run, ctl, aborted, asked, told, taken>>

\* The program takes a liberty if it needs one.
Allow(needed, liberty) ==
    /\ needed => liberty \in Liberties
    /\ taken' = IF needed THEN taken \cup {liberty} ELSE taken

\* The target's own mark stays as it is.
MoveAssign(o, other) ==
    /\ o # other
    /\ Owns(o) /\ Owns(other)
    /\ Allow(obj[o].movedFrom, "refill")
    /\ ~Joinable(o)
    /\ Take(o, other, obj[o].movedFrom)
    /\ UNCHANGED <<store, run, ctl, aborted, asked, told>>

\* std::thread's move assignment terminates the program.
Overwrite(o, other) ==
    /\ o # other
    /\ Owns(o) /\ Owns(other)
    /\ Joinable(o)
    /\ Allow(TRUE, "overwrite")
    /\ aborted' = "joinable"
    /\ UNCHANGED <<obj, store, run, ctl, asked, told>>

-----------------------------------------------------------------------------
(* Starting.                                                               *)

\* Starting again while the earlier run goes on is a liberty; after it has
\* finished, joined or not, it is a plain use.
MayStart(o) ==
    LET requested == asked[obj[o].store] \/ told[obj[o].handle]
    IN  Allow(Joinable(o) /\ Live(obj[o].handle), IF requested THEN "restart" ELSE "rerun")

\* Mistake: the flag that ended the previous run is not cleared.
StartWithoutClear(o) ==
    /\ Owns(o)
    /\ ~obj[o].movedFrom
    /\ obj[o].store # None
    /\ MayStart(o)
    /\ \E r \in Runs : run[r].pc = "unused"
    /\ asked' = [asked EXCEPT ![obj[o].store] = FALSE]
    /\ ctl' = [op |-> "start", obj |-> o]
    /\ UNCHANGED <<obj, store, run, aborted, told>>

\* start() clears the flag ...
StartClear(o) ==
    /\ Owns(o)
    /\ ~obj[o].movedFrom
    /\ obj[o].store # None
    /\ MayStart(o)
    /\ \E r \in Runs : run[r].pc = "unused"
    /\ store' = [store EXCEPT ![obj[o].store].stopped = FALSE]
    /\ asked' = [asked EXCEPT ![obj[o].store] = FALSE]
    /\ ctl' = [op |-> "start", obj |-> o]
    /\ UNCHANGED <<obj, run, aborted, told>>

\* ... then joins an earlier run, then starts the new one.
StartSpawn(o) ==
    /\ ctl = [op |-> "start", obj |-> o]
    /\ JoinReady(o)
    /\ \E r \in Runs :
          /\ run[r].pc = "unused"
          /\ \A q \in Runs : q < r => run[q].pc # "unused"
          /\ run' = [run EXCEPT ![r] = [pc |-> "test", store |-> obj[o].store, detached |-> FALSE]]
          /\ obj' = [obj EXCEPT ![o].handle = r]
    /\ ctl' = Idle
    /\ UNCHANGED <<store, aborted, asked, told, taken>>

-----------------------------------------------------------------------------
(* Stopping.                                                               *)

\* Mistake: the owner's request never reaches the flag.
RaiseNoFlag(s) ==
    /\ asked' = [asked EXCEPT ![s] = TRUE]
    /\ UNCHANGED store

RaiseFlag(s) ==
    /\ store' = [store EXCEPT ![s].stopped = TRUE]
    /\ asked' = [asked EXCEPT ![s] = TRUE]

\* stop() from any thread, at any time until the destructor is entered.
Stop(o) ==
    /\ obj[o].alive
    /\ ctl # [op |-> "destroy", obj |-> o]
    /\ ~obj[o].movedFrom
    /\ obj[o].store # None
    /\ RaiseFlag(obj[o].store)
    /\ UNCHANGED <<obj, run, ctl, aborted, told, taken>>

Join(o) ==
    /\ Owns(o)
    /\ Joinable(o)
    /\ ctl' = [op |-> "join", obj |-> o]
    /\ UNCHANGED <<obj, store, run, aborted, asked, told, taken>>

\* The stale mark of a refilled object makes the stop a no-op, and the join
\* comes all the same.
StopAndWait(o) ==
    /\ Owns(o)
    /\ obj[o].store # None
    /\ IF obj[o].movedFrom THEN UNCHANGED <<store, asked>> ELSE RaiseFlag(obj[o].store)
    /\ ctl' = [op |-> "stopAndWait", obj |-> o]
    /\ UNCHANGED <<obj, run, aborted, told, taken>>

JoinReturns(o) ==
    /\ ctl.op \in {"join", "stopAndWait"} /\ ctl.obj = o
    /\ JoinReady(o)
    /\ obj' = [obj EXCEPT ![o].handle = None]
    /\ ctl' = Idle
    /\ UNCHANGED <<store, run, aborted, asked, told, taken>>

Detach(o) ==
    /\ Owns(o)
    /\ run' = IF Joinable(o) THEN [run EXCEPT ![obj[o].handle].detached = TRUE] ELSE run
    /\ obj' = [obj EXCEPT ![o].handle = None, ![o].store = None]
    /\ UNCHANGED <<store, ctl, aborted, asked, told, taken>>

-----------------------------------------------------------------------------
(* Destruction.                                                            *)

\* ~Thread stops and waits if the object still has something ...
Destroy(o) ==
    /\ Owns(o)
    /\ ~obj[o].movedFrom /\ obj[o].store # None
    /\ RaiseFlag(obj[o].store)
    /\ ctl' = [op |-> "destroy", obj |-> o]
    /\ UNCHANGED <<obj, run, aborted, told, taken>>

DestroyReturns(o) ==
    /\ ctl = [op |-> "destroy", obj |-> o]
    /\ JoinReady(o)
    /\ obj' = [obj EXCEPT ![o] = Nothing]
    /\ ctl' = Idle
    /\ UNCHANGED <<store, run, aborted, asked, told, taken>>

\* Mistake: a thread that has been told to stop is not waited for.
DestroyStopped(o) ==
    /\ Owns(o)
    /\ ~obj[o].movedFrom /\ obj[o].store # None => store[obj[o].store].stopped
    /\ IF Joinable(o)
         THEN aborted' = "joinable" /\ UNCHANGED obj
         ELSE obj' = [obj EXCEPT ![o] = Nothing] /\ UNCHANGED aborted
    /\ UNCHANGED <<store, run, ctl, asked, told, taken>>

\* ... and leaves the rest to ~std::thread, which terminates the program if
\* the handle is joinable.
DestroyEmpty(o) ==
    /\ Owns(o)
    /\ obj[o].movedFrom \/ obj[o].store = None
    /\ IF Joinable(o)
         THEN aborted' = "joinable" /\ UNCHANGED obj
         ELSE obj' = [obj EXCEPT ![o] = Nothing] /\ UNCHANGED aborted
    /\ UNCHANGED <<store, run, ctl, asked, told, taken>>

-----------------------------------------------------------------------------
(* The OS threads.                                                         *)

Goto(r, l) == run' = [run EXCEPT ![r].pc = l]

\* while (!_stopped.test()) loopFunc(...);
Test(r) ==
    /\ run[r].pc = "test"
    /\ Goto(r, IF store[run[r].store].stopped THEN "ending" ELSE "loop")
    /\ UNCHANGED <<obj, store, ctl, aborted, asked, told, taken>>

LoopReturns(r) ==
    /\ run[r].pc = "loop"
    /\ Goto(r, "test")
    /\ UNCHANGED <<obj, store, ctl, aborted, asked, told, taken>>

\* Mistake: the token works only while an object owns the storage.
TokenStopOwned(r) ==
    /\ run[r].pc = "loop"
    /\ store' = [store EXCEPT ![run[r].store].stopped =
                     @ \/ \E o \in Objs : obj[o].store = run[r].store]
    /\ told' = [told EXCEPT ![r] = TRUE]
    /\ UNCHANGED <<obj, run, ctl, aborted, asked, taken>>

\* The loop function calls stop() on its StopToken.
TokenStop(r) ==
    /\ run[r].pc = "loop"
    /\ store' = [store EXCEPT ![run[r].store].stopped = TRUE]
    /\ told' = [told EXCEPT ![r] = TRUE]
    /\ UNCHANGED <<obj, run, ctl, aborted, asked, taken>>

\* A std::exception leaves the loop function.
LoopThrows(r) ==
    /\ run[r].pc = "loop"
    /\ \/ /\ store[run[r].store].onException
          /\ Goto(r, "ending")
          /\ UNCHANGED aborted
       \/ /\ ~store[run[r].store].onException
          /\ aborted' = "unhandled"
          /\ UNCHANGED run
    /\ UNCHANGED <<obj, store, ctl, asked, told, taken>>

\* onTermination, then the flag, then the thread is gone.
Terminate(r) ==
    /\ run[r].pc = "ending"
    /\ store' = [store EXCEPT ![run[r].store].stopped = TRUE]
    /\ Goto(r, "finished")
    /\ UNCHANGED <<obj, ctl, aborted, asked, told, taken>>

Work(r) == Test(r) \/ LoopReturns(r) \/ Terminate(r)

-----------------------------------------------------------------------------
Control(o) ==
    \/ Construct(o) \/ StartClear(o) \/ Join(o) \/ StopAndWait(o)
    \/ Detach(o) \/ Destroy(o) \/ DestroyEmpty(o)
    \/ \E other \in Objs : MoveConstruct(o, other) \/ MoveAssign(o, other) \/ Overwrite(o, other)

Unblock(o) == StartSpawn(o) \/ JoinReturns(o) \/ DestroyReturns(o)

\* The program is over, or has no objects and no storage left for another.
Over ==
    /\ \/ aborted # "no"
       \/ /\ \A o \in Objs : ~obj[o].alive
          /\ \A s \in Storages : store[s].used
          /\ \A r \in Runs : ~Live(r)
    /\ UNCHANGED vars

Next ==
    \/ /\ aborted = "no"
       /\ \/ \E o \in Objs : Control(o) \/ Stop(o) \/ Unblock(o)
          \/ \E r \in Runs : Work(r) \/ TokenStop(r) \/ LoopThrows(r)
    \/ Over

Spec == Init /\ [][Next]_vars

\* Threads are scheduled, a loop function returns, and a join returns once the
\* thread it waits for has ended.
Fairness ==
    /\ \A r \in Runs : WF_vars(aborted = "no" /\ Work(r))
    /\ \A o \in Objs : WF_vars(aborted = "no" /\ Unblock(o))

FairSpec == Spec /\ Fairness

-----------------------------------------------------------------------------
(* Properties.                                                             *)

ObjectStates  == [alive : BOOLEAN, handle : Runs \cup {None},
                  store : Storages \cup {None}, movedFrom : BOOLEAN]
StorageStates == [used : BOOLEAN, stopped : BOOLEAN, onException : BOOLEAN]
RunStates     == [pc : {"unused", "test", "loop", "ending", "finished"},
                  store : Storages \cup {None}, detached : BOOLEAN]

\* Types; and no handle or storage is left in a place without an object.
TypeOK ==
    /\ obj \in [Objs -> ObjectStates]
    /\ store \in [Storages -> StorageStates]
    /\ run \in [Runs -> RunStates]
    /\ ctl \in [op : {"idle", "start", "join", "stopAndWait", "destroy"},
                obj : Objs \cup {None}]
    /\ aborted \in {"no", "unhandled", "joinable"}
    /\ asked \in [Storages -> BOOLEAN]
    /\ told \in [Runs -> BOOLEAN]
    /\ taken \subseteq Liberties
    /\ \A o \in Objs : ~obj[o].alive => obj[o] = Nothing

\* Two OS threads never run the same loop function and callbacks, restarts
\* included (Thread.hpp 81, 121: the join before the new thread).
SoleRunner ==
    \A q, r \in Runs : Live(q) /\ Live(r) /\ run[q].store = run[r].store => q = r

\* Whatever is moved where, a running thread that was not detached has an
\* owner, and the flag that the owner's stop() raises is the one it reads
\* (Thread.hpp 48-61, 184-191, 217-221).
OwnerReachesRun ==
    \A r \in Runs :
        Live(r) /\ ~run[r].detached =>
            \E o \in Objs : /\ obj[o].alive
                            /\ obj[o].handle = r
                            /\ obj[o].store = run[r].store

\* The comment of StopToken::stop: after it, the loop function is never
\* called again (Thread.hpp 29).  A restart takes that back.
TokenStopIsFinal ==
    [][\A r \in Runs : told[r] /\ run[r].pc = "test" =>
           run'[r].pc # "loop" \/ "restart" \in taken]_vars

\* start() has been called while an earlier run went on.
Overlapped == taken \cap {"restart", "rerun"} # {}

\* A run ends without an exception only if it was asked to: by its token, or
\* by its owner after start() was called (Thread.hpp 118, 133, 149).  The end of
\* an earlier run that still went on then can be taken for a request.
EndsOnlyWhenAsked ==
    [][\A r \in Runs : run[r].pc = "test" /\ run'[r].pc = "ending" =>
           told[r] \/ asked[run[r].store] \/ Overlapped]_vars

\* Moving and destroying objects does not terminate the program: a std::thread
\* is never overwritten or destroyed while it is joinable (Thread.hpp 54-61,
\* 217-221), except that the mark of a refilled object misleads its destructor.
HandlesAreJoined ==
    aborted = "joinable" => taken \cap {"refill", "overwrite"} # {}

\* "Stop the thread and wait for it to terminate" (Thread.hpp 177-182), and
\* the destructor alike (217-221): both end, whoever else operates on the run,
\* unless the object was refilled: then the mark of a moved-from object hides
\* the thread from stop() (155), and the join waits for a run that was not
\* asked to end.
StopReturns ==
    ctl.op \in {"stopAndWait", "destroy"} /\ ~obj[ctl.obj].movedFrom
        ~> (ctl.op = "idle" \/ aborted # "no")

\* So does start(), which on a restart waits for the earlier run, to "prevent
\* crash if the thread is restarted" (Thread.hpp 80, 120), as long as it is
\* called only for runs that have been asked to stop.
StartReturns ==
    ctl.op = "start" ~> (ctl.op = "idle" \/ aborted # "no")
=============================================================================
