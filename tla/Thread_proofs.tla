----------------------------- MODULE Thread_proofs -----------------------------
(***************************************************************************)
(* What module Thread promises, proved for any number of places, storages  *)
(* and threads.                                                            *)
(*                                                                         *)
(* The properties rest on one another: a flag can be blamed on its owner   *)
(* only because the storage is in one place, and a restart finds no thread *)
(* left on the storage only because an attached thread has an owner there. *)
(* IInv is the conjunction that each step preserves.                       *)
(***************************************************************************)
EXTENDS Thread, TLAPS

\* A storage that an object refers to is allocated; the thread that it has a
\* handle of was started, is not detached and runs on the object's storage.
\* Only a refill leaves a handle behind the mark of a moved-from object.
ObjectOK(o) ==
    /\ obj[o].store # None => store[obj[o].store].used
    /\ obj[o].handle # None =>
          /\ run[obj[o].handle].pc # "unused"
          /\ ~run[obj[o].handle].detached
          /\ run[obj[o].handle].store = obj[o].store
          /\ obj[o].movedFrom => "refill" \in taken

\* A storage belongs to one object at most.
OneHome ==
    \A o, p \in Objs : obj[o].store # None /\ obj[o].store = obj[p].store => o = p

\* A thread keeps its storage; nobody owns the storage of a detached one.
RunOK(r) ==
    /\ run[r].pc = "unused" => run[r].store = None /\ ~run[r].detached /\ ~told[r]
    /\ run[r].pc # "unused" => run[r].store # None /\ store[run[r].store].used
    /\ run[r].detached => \A o \in Objs : obj[o].store # run[r].store

\* The flag of a living thread is up exactly for a reason.
FlagOK(r) ==
    Live(r) =>
        /\ told[r] => store[run[r].store].stopped \/ "restart" \in taken
        /\ store[run[r].store].stopped =>
              told[r] \/ asked[run[r].store] \/ Overlapped

\* What the controller is blocked in concerns an object that is there; one
\* that is being started keeps the flag down unless somebody asks meanwhile.
ControlOK ==
    /\ ctl.op # "idle" => ctl.obj \in Objs /\ obj[ctl.obj].alive
    /\ ctl.op = "start" =>
          /\ ~obj[ctl.obj].movedFrom
          /\ obj[ctl.obj].store # None
          /\ Joinable(ctl.obj) /\ Live(obj[ctl.obj].handle) => Overlapped
          /\ store[obj[ctl.obj].store].stopped =>
                asked[obj[ctl.obj].store] \/ Overlapped

IInv ==
    /\ TypeOK
    /\ \A o \in Objs : ObjectOK(o)
    /\ OneHome
    /\ \A r \in Runs : RunOK(r)
    /\ \A r \in Runs : FlagOK(r)
    /\ ControlOK
    /\ SoleRunner
    /\ OwnerReachesRun
    /\ HandlesAreJoined

LEMMA FlagTyped ==
    ASSUME TypeOK, NEW s \in Storages, NEW b \in BOOLEAN
    PROVE  [store EXCEPT ![s].stopped = b] \in [Storages -> StorageStates]
<1>1. [store[s] EXCEPT !.stopped = b] \in StorageStates
  BY DEF TypeOK, StorageStates
<1> QED
  BY <1>1 DEF TypeOK

LEMMA PlaceTyped ==
    ASSUME TypeOK, NEW r \in Runs,
           NEW l \in {"unused", "test", "loop", "ending", "finished"}
    PROVE  [run EXCEPT ![r].pc = l] \in [Runs -> RunStates]
<1>1. [run[r] EXCEPT !.pc = l] \in RunStates
  BY DEF TypeOK, RunStates
<1> QED
  BY <1>1 DEF TypeOK

LEMMA TakeTyped ==
    ASSUME TypeOK, NEW o \in Objs, NEW other \in Objs, NEW mark \in BOOLEAN,
           o # other, obj[other].alive, Take(o, other, mark)
    PROVE  /\ obj' \in [Objs -> ObjectStates]
           /\ \A p \in Objs : ~obj'[p].alive => obj'[p] = Nothing
<1>1. PICK e : e = [obj[other] EXCEPT !.movedFrom = mark]
  OBVIOUS
<1>2. PICK f : f = [Nothing EXCEPT !.alive = TRUE, !.movedFrom = TRUE]
  OBVIOUS
<1>3. e \in ObjectStates /\ e.alive
  BY <1>1 DEF TypeOK, ObjectStates
<1>4. f \in ObjectStates /\ f.alive
  BY <1>2 DEF ObjectStates, Nothing
<1>5. obj' = [obj EXCEPT ![o] = e, ![other] = f]
  BY <1>1, <1>2 DEF Take
<1> QED
  BY <1>3, <1>4, <1>5 DEF TypeOK

\* A step of a thread leaves what the controller is blocked in as it was, if it
\* raises no flag of an object that is being started.
LEMMA ControlStays ==
    ASSUME IInv, UNCHANGED <<obj, ctl, asked, taken>>,
           \A r \in Runs : Live(r)' => Live(r),
           ctl.op = "start" /\ store'[obj[ctl.obj].store].stopped =>
               store[obj[ctl.obj].store].stopped \/ Overlapped
    PROVE  ControlOK'
<1>1. ASSUME ctl.op = "start", Joinable(ctl.obj)', Live(obj[ctl.obj].handle)'
      PROVE  Overlapped
  <2>1. obj[ctl.obj].handle \in Runs
    BY <1>1 DEF IInv, TypeOK, ObjectStates, ControlOK, Joinable
  <2> QED
    BY <1>1, <2>1 DEF IInv, ControlOK, Joinable
<1>2. Overlapped' = Overlapped
  BY DEF Overlapped
<1> QED
  BY <1>1, <1>2 DEF IInv, ControlOK, Joinable, Live

LEMMA ConstructKeeps ==
    ASSUME NEW o \in Objs,
           IInv, Construct(o)
    PROVE  IInv'
<1>a. PICK s \in Storages :
         /\ ~store[s].used
         /\ \E h \in BOOLEAN :
               store' = [store EXCEPT ![s] = [used |-> TRUE, stopped |-> TRUE, onException |-> h]]
         /\ obj' = [obj EXCEPT ![o] = [Nothing EXCEPT !.alive = TRUE, !.store = s]]
  BY DEF Construct
<1>b. PICK e : e = [Nothing EXCEPT !.alive = TRUE, !.store = s]
  OBVIOUS
<1>c. /\ e \in ObjectStates
      /\ e.alive /\ e.handle = None /\ e.store = s /\ ~e.movedFrom
  BY <1>b DEF ObjectStates, Nothing
<1>d. obj'[o] = e /\ \A p \in Objs : p # o => obj'[p] = obj[p]
  BY <1>a, <1>b DEF IInv, TypeOK
<1>e. PICK c \in StorageStates : store' = [store EXCEPT ![s] = c] /\ c.used
  <2>1. PICK h \in BOOLEAN :
           store' = [store EXCEPT ![s] = [used |-> TRUE, stopped |-> TRUE, onException |-> h]]
    BY <1>a
  <2>2. PICK c : c = [used |-> TRUE, stopped |-> TRUE, onException |-> h]
    OBVIOUS
  <2>3. c \in StorageStates /\ c.used
    BY <2>2 DEF StorageStates
  <2> QED
    BY <2>1, <2>2, <2>3
<1>f. store'[s].used /\ \A q \in Storages : q # s => store'[q] = store[q]
  BY <1>e DEF IInv, TypeOK
<1>g. \A r \in Runs : run[r].store # s
  BY <1>a, ThreadAssumption DEF IInv, RunOK
<1>h. UNCHANGED <<run, ctl, aborted, asked, told, taken>> /\ ctl.op = "idle" /\ ~obj[o].alive
  BY DEF Construct
<1>i. \A p \in Objs : obj[p].store # s
  BY <1>a, ThreadAssumption DEF IInv, ObjectOK
<1>j. s # None /\ None \notin Runs
  BY ThreadAssumption
<1>k. obj[o].handle = None /\ obj[o].store = None
  BY <1>h DEF IInv, TypeOK, Nothing
<1>1. TypeOK'
  <2>1. obj' \in [Objs -> ObjectStates]
    BY <1>a, <1>b, <1>c DEF IInv, TypeOK
  <2>2. store' \in [Storages -> StorageStates]
    BY <1>e DEF IInv, TypeOK
  <2> QED
    BY <2>1, <2>2, <1>c, <1>d, <1>h DEF IInv, TypeOK
<1>2. ASSUME NEW p \in Objs PROVE ObjectOK(p)'
  <2>1. CASE p = o
    BY <2>1, <1>c, <1>d, <1>f DEF ObjectOK
  <2>2. CASE p # o
    BY <2>2, <1>d, <1>f, <1>h DEF IInv, TypeOK, ObjectStates, ObjectOK
  <2> QED
    BY <2>1, <2>2
<1>3. OneHome'
  BY <1>c, <1>d, <1>i DEF IInv, OneHome
<1>4. ASSUME NEW q \in Runs PROVE RunOK(q)'
  BY <1>c, <1>d, <1>f, <1>g, <1>h DEF IInv, TypeOK, RunStates, RunOK
<1>5. ASSUME NEW q \in Runs PROVE FlagOK(q)'
  <2>1. run[q].pc # "unused" => run[q].store \in Storages \ {s}
    BY <1>g DEF IInv, TypeOK, RunStates, RunOK
  <2> QED
    BY <2>1, <1>f, <1>h DEF IInv, FlagOK, Overlapped, Live
<1>6. ControlOK'
  BY <1>h DEF IInv, ControlOK
<1>7. SoleRunner'
  BY <1>h DEF IInv, SoleRunner, Live
<1>8. OwnerReachesRun'
  BY <1>d, <1>h DEF IInv, OwnerReachesRun, Live
<1>9. HandlesAreJoined'
  BY <1>h DEF IInv, HandlesAreJoined
<1> QED
  BY <1>1, <1>2, <1>3, <1>4, <1>5, <1>6, <1>7, <1>8, <1>9 DEF IInv

LEMMA MoveConstructKeeps ==
    ASSUME NEW o \in Objs, NEW other \in Objs,
           IInv, MoveConstruct(o, other)
    PROVE  IInv'
<1>1. TypeOK'
  <2>1. o # other /\ obj[other].alive
    BY DEF MoveConstruct, Owns
  <2> QED
    BY <2>1, TakeTyped DEF IInv, TypeOK, MoveConstruct
<1>2. ASSUME NEW p \in Objs PROVE ObjectOK(p)'
  BY DEF IInv, TypeOK, ObjectStates, ObjectOK, MoveConstruct, Take, Nothing
<1>3. OneHome'
  BY DEF IInv, TypeOK, ObjectStates, OneHome, MoveConstruct, Take, Owns
<1>4. ASSUME NEW q \in Runs PROVE RunOK(q)'
  BY DEF IInv, TypeOK, ObjectStates, RunOK, ObjectOK, MoveConstruct, Take
<1>5. ASSUME NEW q \in Runs PROVE FlagOK(q)'
  BY DEF IInv, FlagOK, Overlapped, Live, MoveConstruct
<1>6. ControlOK'
  BY DEF ControlOK, MoveConstruct, Owns
<1>7. SoleRunner'
  BY DEF IInv, SoleRunner, Live, MoveConstruct
<1>8. OwnerReachesRun'
  BY <1>1 DEF IInv, TypeOK, ObjectStates, RunStates, OwnerReachesRun, Live, RunOK,
     ObjectOK, OneHome, MoveConstruct, Take, Nothing
<1>9. HandlesAreJoined'
  BY DEF IInv, HandlesAreJoined, MoveConstruct
<1> QED
  BY <1>1, <1>2, <1>3, <1>4, <1>5, <1>6, <1>7, <1>8, <1>9 DEF IInv

LEMMA MoveAssignKeeps ==
    ASSUME NEW o \in Objs, NEW other \in Objs,
           IInv, MoveAssign(o, other)
    PROVE  IInv'
<1>1. TypeOK'
  <2>1. obj[other].alive /\ obj[o].movedFrom \in BOOLEAN
    BY DEF MoveAssign, Owns, IInv, TypeOK, ObjectStates
  <2>2. taken' \subseteq Liberties
    BY DEF MoveAssign, Allow, IInv, TypeOK
  <2> QED
    BY <2>1, <2>2, TakeTyped DEF IInv, TypeOK, MoveAssign
<1>2. ASSUME NEW p \in Objs PROVE ObjectOK(p)'
  BY DEF IInv, TypeOK, ObjectStates, ObjectOK, MoveAssign, Take, Nothing, Allow
<1>3. OneHome'
  BY DEF IInv, TypeOK, ObjectStates, OneHome, MoveAssign, Take, Nothing
<1>4. ASSUME NEW q \in Runs PROVE RunOK(q)'
  BY DEF IInv, TypeOK, ObjectStates, RunOK, MoveAssign, Take, Nothing, Joinable
<1>5. ASSUME NEW q \in Runs PROVE FlagOK(q)'
  BY DEF IInv, FlagOK, Overlapped, Live, MoveAssign, Allow
<1>6. ControlOK'
  BY DEF ControlOK, MoveAssign, Owns
<1>7. SoleRunner'
  BY DEF IInv, SoleRunner, Live, MoveAssign
<1>8. OwnerReachesRun'
  BY ThreadAssumption, <1>1
     DEF IInv, TypeOK, ObjectStates, StorageStates, RunStates, OwnerReachesRun, Live,
         RunOK, ObjectOK, OneHome, ControlOK, MoveAssign, Take, Owns, Nothing, Allow,
         Joinable
<1>9. HandlesAreJoined'
  BY DEF IInv, HandlesAreJoined, MoveAssign, Allow
<1> QED
  BY <1>1, <1>2, <1>3, <1>4, <1>5, <1>6, <1>7, <1>8, <1>9 DEF IInv

LEMMA OverwriteKeeps ==
    ASSUME NEW o \in Objs, NEW other \in Objs,
           IInv, Overwrite(o, other)
    PROVE  IInv'
<1>1. TypeOK'
  BY DEF IInv, TypeOK, Overwrite, Allow
<1>2. ASSUME NEW p \in Objs PROVE ObjectOK(p)'
  BY DEF IInv, ObjectOK, Overwrite, Allow
<1>3. OneHome'
  BY DEF IInv, OneHome, Overwrite
<1>4. ASSUME NEW q \in Runs PROVE RunOK(q)'
  BY DEF IInv, RunOK, Overwrite
<1>5. ASSUME NEW q \in Runs PROVE FlagOK(q)'
  BY DEF IInv, FlagOK, Overlapped, Live, Overwrite, Allow
<1>6. ControlOK'
  BY DEF ControlOK, Overwrite, Owns
<1>7. SoleRunner'
  BY DEF IInv, SoleRunner, Live, Overwrite
<1>8. OwnerReachesRun'
  BY DEF IInv, OwnerReachesRun, Live, Overwrite
<1>9. HandlesAreJoined'
  BY DEF HandlesAreJoined, Overwrite, Allow
<1> QED
  BY <1>1, <1>2, <1>3, <1>4, <1>5, <1>6, <1>7, <1>8, <1>9 DEF IInv

LEMMA StartClearKeeps ==
    ASSUME NEW o \in Objs,
           IInv, StartClear(o)
    PROVE  IInv'
<1>1. TypeOK'
  <2>1. obj[o].store \in Storages
    BY DEF StartClear, IInv, TypeOK, ObjectStates
  <2>2. store' \in [Storages -> StorageStates]
    BY <2>1, FlagTyped DEF StartClear, IInv
  <2>3. taken' \subseteq Liberties
    BY DEF StartClear, MayStart, Allow, IInv, TypeOK
  <2> QED
    BY <2>2, <2>3 DEF IInv, TypeOK, StartClear
<1>2. ASSUME NEW p \in Objs PROVE ObjectOK(p)'
  BY DEF IInv, ObjectOK, StartClear, MayStart, Allow
<1>3. OneHome'
  BY DEF IInv, OneHome, StartClear
<1>4. ASSUME NEW q \in Runs PROVE RunOK(q)'
  BY DEF IInv, RunOK, StartClear
<1>5. ASSUME NEW q \in Runs PROVE FlagOK(q)'
  <2>1. obj[o].store \in Storages /\ obj[o].store # None /\ obj'[o].store = obj[o].store
    BY DEF StartClear, IInv, TypeOK, ObjectStates
  <2>2. SUFFICES ASSUME Live(q) PROVE FlagOK(q)'
    BY DEF StartClear, FlagOK, Live
  <2>3. run[q].store \in Storages
    BY <2>2 DEF IInv, TypeOK, RunStates, RunOK, Live
  <2>4. /\ run' = run /\ told' = told
        /\ "restart" \in taken => "restart" \in taken'
        /\ Overlapped => Overlapped'
    BY DEF StartClear, MayStart, Allow, Overlapped
  <2>5. CASE run[q].store = obj[o].store
    <3>1. ~run[q].detached
      BY <2>5 DEF IInv, RunOK
    <3>2. PICK p \in Objs : obj[p].handle = q /\ obj[p].store = run[q].store
      BY <2>2, <3>1 DEF IInv, OwnerReachesRun
    <3>3. p = o
      BY <2>1, <2>5, <3>2 DEF IInv, OneHome
    <3>4. Joinable(o) /\ obj[o].handle = q
      BY <3>2, <3>3, ThreadAssumption DEF Joinable
    <3>5. told[q] => "restart" \in taken'
      BY <2>2, <3>4 DEF StartClear, MayStart, Allow
    <3>6. ~store'[run[q].store].stopped
      BY <2>1, <2>5 DEF StartClear, IInv, TypeOK
    <3> QED
      BY <2>4, <3>5, <3>6 DEF FlagOK
  <2>6. CASE run[q].store # obj[o].store
    <3>1. store'[run[q].store] = store[run[q].store] /\ asked'[run[q].store] = asked[run[q].store]
      BY <2>6 DEF StartClear
    <3> QED
      BY <2>2, <2>4, <3>1 DEF IInv, FlagOK, Overlapped
  <2> QED
    BY <2>5, <2>6
<1>6. ControlOK'
  BY <1>1 DEF TypeOK, ControlOK, Overlapped, Live, Joinable, StartClear, Owns, MayStart, Allow
<1>7. SoleRunner'
  BY DEF IInv, SoleRunner, Live, StartClear
<1>8. OwnerReachesRun'
  BY DEF IInv, OwnerReachesRun, Live, StartClear
<1>9. HandlesAreJoined'
  BY DEF IInv, HandlesAreJoined, StartClear, MayStart, Allow
<1> QED
  BY <1>1, <1>2, <1>3, <1>4, <1>5, <1>6, <1>7, <1>8, <1>9 DEF IInv

LEMMA StartSpawnKeeps ==
    ASSUME NEW o \in Objs,
           IInv, StartSpawn(o)
    PROVE  IInv'
<1>1. TypeOK'
  <2>1. PICK r \in Runs :
          /\ run' = [run EXCEPT ![r] = [pc |-> "test", store |-> obj[o].store, detached |-> FALSE]]
          /\ obj' = [obj EXCEPT ![o].handle = r]
    BY DEF StartSpawn
  <2>2. PICK f : f = [pc |-> "test", store |-> obj[o].store, detached |-> FALSE]
    OBVIOUS
  <2>3. f \in RunStates
    BY <2>2 DEF IInv, TypeOK, ObjectStates, RunStates
  <2>4. PICK e : e = [obj[o] EXCEPT !.handle = r]
    OBVIOUS
  <2>5. e \in ObjectStates /\ e.alive
    BY <2>4 DEF IInv, TypeOK, ObjectStates, ControlOK, StartSpawn
  <2>6. run' \in [Runs -> RunStates] /\ obj' = [obj EXCEPT ![o] = e]
    BY <2>1, <2>2, <2>3, <2>4 DEF IInv, TypeOK
  <2> QED
    BY <2>5, <2>6 DEF IInv, TypeOK, StartSpawn, Idle
<1>2. ASSUME NEW p \in Objs PROVE ObjectOK(p)'
  BY DEF IInv, TypeOK, ObjectOK, ControlOK, StartSpawn
<1>3. OneHome'
  BY DEF IInv, OneHome, StartSpawn
<1>4. ASSUME NEW q \in Runs PROVE RunOK(q)'
  BY DEF IInv, RunOK, ObjectOK, ControlOK, StartSpawn
<1>5. ASSUME NEW q \in Runs PROVE FlagOK(q)'
  BY DEF IInv, FlagOK, Live, RunOK, ControlOK, Overlapped, Joinable, StartSpawn
<1>6. ControlOK'
  BY DEF ControlOK, StartSpawn, Idle
<1>7. SoleRunner'
  BY ThreadAssumption DEF IInv, SoleRunner, Live, RunOK, OneHome, OwnerReachesRun,
     ControlOK, StartSpawn, JoinReady, Joinable, Idle
<1>8. OwnerReachesRun'
  BY ThreadAssumption DEF IInv, TypeOK, OwnerReachesRun, Live, ControlOK, StartSpawn,
     JoinReady, Joinable
<1>9. HandlesAreJoined'
  BY DEF IInv, HandlesAreJoined, StartSpawn
<1> QED
  BY <1>1, <1>2, <1>3, <1>4, <1>5, <1>6, <1>7, <1>8, <1>9 DEF IInv

LEMMA StopKeeps ==
    ASSUME NEW o \in Objs,
           IInv, Stop(o)
    PROVE  IInv'
<1>1. TypeOK'
  <2>1. obj[o].store \in Storages
    BY DEF Stop, IInv, TypeOK, ObjectStates
  <2>2. store' \in [Storages -> StorageStates]
    BY <2>1, FlagTyped DEF Stop, RaiseFlag, IInv
  <2> QED
    BY <2>2 DEF IInv, TypeOK, Stop, RaiseFlag
<1>2. ASSUME NEW p \in Objs PROVE ObjectOK(p)'
  BY DEF IInv, ObjectOK, Stop, RaiseFlag
<1>3. OneHome'
  BY DEF IInv, OneHome, Stop
<1>4. ASSUME NEW q \in Runs PROVE RunOK(q)'
  BY DEF IInv, RunOK, Stop, RaiseFlag
<1>5. ASSUME NEW q \in Runs PROVE FlagOK(q)'
  BY DEF IInv, TypeOK, FlagOK, Overlapped, Live, Stop, RaiseFlag
<1>6. ControlOK'
  BY DEF IInv, TypeOK, ControlOK, Overlapped, Live, Joinable, Stop, RaiseFlag
<1>7. SoleRunner'
  BY DEF IInv, SoleRunner, Live, Stop
<1>8. OwnerReachesRun'
  BY DEF IInv, OwnerReachesRun, Live, Stop
<1>9. HandlesAreJoined'
  BY DEF IInv, HandlesAreJoined, Stop
<1> QED
  BY <1>1, <1>2, <1>3, <1>4, <1>5, <1>6, <1>7, <1>8, <1>9 DEF IInv

LEMMA JoinKeeps ==
    ASSUME NEW o \in Objs,
           IInv, Join(o)
    PROVE  IInv'
<1>1. TypeOK'
  BY DEF IInv, TypeOK, Join
<1>2. ASSUME NEW p \in Objs PROVE ObjectOK(p)'
  BY DEF IInv, ObjectOK, Join
<1>3. OneHome'
  BY DEF IInv, OneHome, Join
<1>4. ASSUME NEW q \in Runs PROVE RunOK(q)'
  BY DEF IInv, RunOK, Join
<1>5. ASSUME NEW q \in Runs PROVE FlagOK(q)'
  BY DEF IInv, FlagOK, Overlapped, Live, Join
<1>6. ControlOK'
  BY DEF ControlOK, Join, Owns
<1>7. SoleRunner'
  BY DEF IInv, SoleRunner, Live, Join
<1>8. OwnerReachesRun'
  BY DEF IInv, OwnerReachesRun, Live, Join
<1>9. HandlesAreJoined'
  BY DEF IInv, HandlesAreJoined, Join
<1> QED
  BY <1>1, <1>2, <1>3, <1>4, <1>5, <1>6, <1>7, <1>8, <1>9 DEF IInv

LEMMA StopAndWaitKeeps ==
    ASSUME NEW o \in Objs,
           IInv, StopAndWait(o)
    PROVE  IInv'
<1>1. TypeOK'
  <2>1. obj[o].store \in Storages
    BY DEF StopAndWait, IInv, TypeOK, ObjectStates
  <2>2. store' \in [Storages -> StorageStates]
    BY <2>1, FlagTyped DEF StopAndWait, RaiseFlag, IInv, TypeOK
  <2>3. asked' \in [Storages -> BOOLEAN]
    BY <2>1 DEF StopAndWait, RaiseFlag, IInv, TypeOK
  <2>4. ctl' \in [op : {"idle", "start", "join", "stopAndWait", "destroy"},
                  obj : Objs \cup {None}]
    BY DEF StopAndWait
  <2> QED
    BY <2>2, <2>3 DEF IInv, TypeOK, StopAndWait
<1>2. ASSUME NEW p \in Objs PROVE ObjectOK(p)'
  <2>1. \A s \in Storages : store'[s].used = store[s].used
    BY DEF StopAndWait, RaiseFlag, IInv, TypeOK, StorageStates
  <2> QED
    BY <2>1 DEF IInv, TypeOK, ObjectStates, ObjectOK, StopAndWait
<1>3. OneHome'
  BY DEF IInv, OneHome, StopAndWait
<1>4. ASSUME NEW q \in Runs PROVE RunOK(q)'
  <2>1. obj[o].store \in Storages
    BY DEF StopAndWait, IInv, TypeOK, ObjectStates
  <2>2. \A s \in Storages : store'[s].used = store[s].used
    BY DEF StopAndWait, RaiseFlag, IInv, TypeOK, StorageStates
  <2> QED
    BY <2>2 DEF IInv, TypeOK, RunStates, RunOK, StopAndWait
<1>5. ASSUME NEW q \in Runs PROVE FlagOK(q)'
  BY ThreadAssumption DEF IInv, TypeOK, StorageStates, RunStates, FlagOK, Overlapped, Live, RunOK,
     OneHome, SoleRunner, StopAndWait, RaiseFlag
<1>6. ControlOK'
  BY DEF ControlOK, StopAndWait, Owns
<1>7. SoleRunner'
  BY DEF IInv, SoleRunner, Live, StopAndWait
<1>8. OwnerReachesRun'
  BY DEF IInv, OwnerReachesRun, Live, StopAndWait
<1>9. HandlesAreJoined'
  BY DEF IInv, HandlesAreJoined, StopAndWait
<1> QED
  BY <1>1, <1>2, <1>3, <1>4, <1>5, <1>6, <1>7, <1>8, <1>9 DEF IInv

LEMMA JoinReturnsKeeps ==
    ASSUME NEW o \in Objs,
           IInv, JoinReturns(o)
    PROVE  IInv'
<1>1. TypeOK'
  <2>1. PICK e : e = [obj[o] EXCEPT !.handle = None]
    OBVIOUS
  <2>2. e \in ObjectStates /\ e.alive
    BY <2>1 DEF IInv, TypeOK, ObjectStates, ControlOK, JoinReturns
  <2>3. obj' = [obj EXCEPT ![o] = e]
    BY <2>1 DEF JoinReturns
  <2>4. /\ obj' \in [Objs -> ObjectStates]
        /\ \A p \in Objs : ~obj'[p].alive => obj'[p] = Nothing
    BY <2>2, <2>3 DEF IInv, TypeOK
  <2> QED
    BY <2>4 DEF IInv, TypeOK, JoinReturns, Idle
<1>2. ASSUME NEW p \in Objs PROVE ObjectOK(p)'
  BY DEF IInv, ObjectOK, JoinReturns
<1>3. OneHome'
  BY DEF IInv, OneHome, JoinReturns
<1>4. ASSUME NEW q \in Runs PROVE RunOK(q)'
  BY DEF IInv, RunOK, JoinReturns
<1>5. ASSUME NEW q \in Runs PROVE FlagOK(q)'
  BY DEF IInv, FlagOK, Overlapped, Live, JoinReturns
<1>6. ControlOK'
  BY DEF ControlOK, JoinReturns, Idle
<1>7. SoleRunner'
  BY DEF IInv, SoleRunner, Live, JoinReturns
<1>8. OwnerReachesRun'
  BY DEF IInv, OwnerReachesRun, Live, RunOK, JoinReturns, JoinReady, Joinable
<1>9. HandlesAreJoined'
  BY DEF IInv, HandlesAreJoined, JoinReturns
<1> QED
  BY <1>1, <1>2, <1>3, <1>4, <1>5, <1>6, <1>7, <1>8, <1>9 DEF IInv

LEMMA DetachKeeps ==
    ASSUME NEW o \in Objs,
           IInv, Detach(o)
    PROVE  IInv'
<1>a. PICK e : e = [obj[o] EXCEPT !.handle = None, !.store = None]
  OBVIOUS
<1>b. /\ e \in ObjectStates
      /\ e.alive /\ e.handle = None /\ e.store = None
  BY <1>a DEF IInv, TypeOK, ObjectStates, Detach, Owns
<1>c. obj' = [obj EXCEPT ![o] = e]
  BY <1>a DEF Detach
<1>d. obj'[o] = e /\ \A p \in Objs : p # o => obj'[p] = obj[p]
  BY <1>c DEF IInv, TypeOK
<1>e. UNCHANGED <<store, ctl, aborted, asked, told, taken>> /\ ctl.op = "idle"
  BY DEF Detach, Owns
<1>f. /\ run' \in [Runs -> RunStates]
      /\ \A q \in Runs : /\ run'[q].pc = run[q].pc
                         /\ run'[q].store = run[q].store
                         /\ q = obj[o].handle => run'[q].detached
                         /\ q # obj[o].handle => run'[q].detached = run[q].detached
  <2>1. CASE Joinable(o)
    <3>1. PICK h \in Runs : h = obj[o].handle
      BY <2>1 DEF Joinable, IInv, TypeOK, ObjectStates
    <3>2. PICK f : f = [run[h] EXCEPT !.detached = TRUE]
      OBVIOUS
    <3>3. run[h] \in RunStates
      BY DEF IInv, TypeOK
    <3>4. f \in RunStates /\ f.pc = run[h].pc /\ f.store = run[h].store /\ f.detached
      BY <3>2, <3>3 DEF RunStates
    <3>5. run' = [run EXCEPT ![h] = f]
      BY <2>1, <3>1, <3>2 DEF Detach
    <3> QED
      BY <3>1, <3>4, <3>5 DEF IInv, TypeOK
  <2>2. CASE ~Joinable(o)
    BY <2>2, ThreadAssumption DEF Detach, Joinable, IInv, TypeOK
  <2> QED
    BY <2>1, <2>2
<1>1. TypeOK'
  BY <1>b, <1>c, <1>e, <1>f DEF IInv, TypeOK
<1>2. ASSUME NEW p \in Objs PROVE ObjectOK(p)'
  <2>1. CASE p = o
    BY <2>1, <1>b, <1>d DEF ObjectOK
  <2>2. CASE p # o
    <3>1. obj[p].handle # None => obj[p].handle \in Runs
      BY DEF IInv, TypeOK, ObjectStates
    <3>2. obj[p].handle # None => obj[p].handle # obj[o].handle
      BY <2>2, <3>1 DEF IInv, ObjectOK, RunOK, OneHome
    <3> QED
      BY <2>2, <1>d, <1>e, <1>f, <3>1, <3>2 DEF IInv, ObjectOK
  <2> QED
    BY <2>1, <2>2
<1>3. OneHome'
  BY <1>b, <1>d DEF IInv, OneHome
<1>4. ASSUME NEW q \in Runs PROVE RunOK(q)'
  <2>1. CASE q = obj[o].handle
    <3>1. run[q].pc # "unused" /\ run[q].store = obj[o].store /\ run[q].store # None
      BY <2>1, ThreadAssumption DEF IInv, ObjectOK, RunOK
    <3>2. \A p \in Objs : obj'[p].store # run[q].store
      BY <3>1, <1>b, <1>d DEF IInv, OneHome
    <3> QED
      BY <3>1, <3>2, <1>e, <1>f DEF IInv, RunOK
  <2>2. CASE q # obj[o].handle
    <3>1. run[q].detached => \A p \in Objs : obj'[p].store # run[q].store
      BY <1>b, <1>d DEF IInv, RunOK
    <3> QED
      BY <2>2, <3>1, <1>e, <1>f DEF IInv, RunOK
  <2> QED
    BY <2>1, <2>2
<1>5. ASSUME NEW q \in Runs PROVE FlagOK(q)'
  BY <1>e, <1>f DEF IInv, FlagOK, Overlapped, Live
<1>6. ControlOK'
  BY <1>e DEF ControlOK
<1>7. SoleRunner'
  BY <1>f DEF IInv, SoleRunner, Live
<1>8. OwnerReachesRun'
  <2>1. SUFFICES ASSUME NEW q \in Runs, Live(q), q # obj[o].handle, ~run[q].detached
                 PROVE  \E p \in Objs : /\ obj'[p].alive
                                        /\ obj'[p].handle = q
                                        /\ obj'[p].store = run'[q].store
    BY <1>f DEF OwnerReachesRun, Live
  <2>2. PICK p \in Objs : obj[p].alive /\ obj[p].handle = q /\ obj[p].store = run[q].store
    BY <2>1 DEF IInv, OwnerReachesRun
  <2> QED
    BY <2>1, <2>2, <1>d, <1>f
<1>9. HandlesAreJoined'
  BY <1>e DEF IInv, HandlesAreJoined
<1> QED
  BY <1>1, <1>2, <1>3, <1>4, <1>5, <1>6, <1>7, <1>8, <1>9 DEF IInv

LEMMA DestroyKeeps ==
    ASSUME NEW o \in Objs,
           IInv, Destroy(o)
    PROVE  IInv'
<1>1. TypeOK'
  <2>1. obj[o].store \in Storages
    BY DEF Destroy, IInv, TypeOK, ObjectStates
  <2>2. store' \in [Storages -> StorageStates]
    BY <2>1, FlagTyped DEF Destroy, RaiseFlag, IInv
  <2> QED
    BY <2>2 DEF IInv, TypeOK, Destroy, RaiseFlag
<1>2. ASSUME NEW p \in Objs PROVE ObjectOK(p)'
  BY DEF IInv, ObjectOK, Destroy, RaiseFlag
<1>3. OneHome'
  BY DEF IInv, OneHome, Destroy
<1>4. ASSUME NEW q \in Runs PROVE RunOK(q)'
  BY DEF IInv, RunOK, Destroy, RaiseFlag
<1>5. ASSUME NEW q \in Runs PROVE FlagOK(q)'
  BY DEF IInv, TypeOK, FlagOK, Overlapped, Live, Destroy, RaiseFlag
<1>6. ControlOK'
  BY DEF ControlOK, Destroy, Owns
<1>7. SoleRunner'
  BY DEF IInv, SoleRunner, Live, Destroy
<1>8. OwnerReachesRun'
  BY DEF IInv, OwnerReachesRun, Live, Destroy
<1>9. HandlesAreJoined'
  BY DEF IInv, HandlesAreJoined, Destroy
<1> QED
  BY <1>1, <1>2, <1>3, <1>4, <1>5, <1>6, <1>7, <1>8, <1>9 DEF IInv

LEMMA DestroyReturnsKeeps ==
    ASSUME NEW o \in Objs,
           IInv, DestroyReturns(o)
    PROVE  IInv'
<1>1. TypeOK'
  <2>1. Nothing \in ObjectStates /\ ~Nothing.alive
    BY DEF Nothing, ObjectStates
  <2> QED
    BY <2>1 DEF IInv, TypeOK, DestroyReturns, Idle
<1>2. ASSUME NEW p \in Objs PROVE ObjectOK(p)'
  BY DEF IInv, ObjectOK, DestroyReturns, Nothing
<1>3. OneHome'
  BY DEF IInv, OneHome, DestroyReturns, Nothing
<1>4. ASSUME NEW q \in Runs PROVE RunOK(q)'
  BY DEF IInv, RunOK, DestroyReturns, Nothing
<1>5. ASSUME NEW q \in Runs PROVE FlagOK(q)'
  BY DEF IInv, FlagOK, Overlapped, Live, DestroyReturns
<1>6. ControlOK'
  BY DEF ControlOK, DestroyReturns, Idle
<1>7. SoleRunner'
  BY DEF IInv, SoleRunner, Live, DestroyReturns
<1>8. OwnerReachesRun'
  BY ThreadAssumption DEF IInv, OwnerReachesRun, Live, DestroyReturns, JoinReady, Joinable
<1>9. HandlesAreJoined'
  BY DEF IInv, HandlesAreJoined, DestroyReturns
<1> QED
  BY <1>1, <1>2, <1>3, <1>4, <1>5, <1>6, <1>7, <1>8, <1>9 DEF IInv

LEMMA DestroyEmptyKeeps ==
    ASSUME NEW o \in Objs,
           IInv, DestroyEmpty(o)
    PROVE  IInv'
<1>1. TypeOK'
  <2>1. Nothing \in ObjectStates /\ ~Nothing.alive
    BY DEF Nothing, ObjectStates
  <2>2. CASE Joinable(o)
    BY <2>2 DEF DestroyEmpty, IInv, TypeOK
  <2>3. CASE ~Joinable(o)
    BY <2>1, <2>3 DEF DestroyEmpty, IInv, TypeOK
  <2> QED
    BY <2>2, <2>3
<1>2. ASSUME NEW p \in Objs PROVE ObjectOK(p)'
  BY DEF IInv, TypeOK, ObjectOK, DestroyEmpty, Nothing
<1>3. OneHome'
  BY DEF IInv, TypeOK, OneHome, DestroyEmpty, Nothing
<1>4. ASSUME NEW q \in Runs PROVE RunOK(q)'
  BY DEF IInv, TypeOK, RunOK, DestroyEmpty, Nothing
<1>5. ASSUME NEW q \in Runs PROVE FlagOK(q)'
  BY DEF IInv, FlagOK, Overlapped, Live, DestroyEmpty
<1>6. ControlOK'
  BY DEF ControlOK, DestroyEmpty, Owns
<1>7. SoleRunner'
  BY DEF IInv, SoleRunner, Live, DestroyEmpty
<1>8. OwnerReachesRun'
  BY ThreadAssumption DEF IInv, TypeOK, OwnerReachesRun, Live, DestroyEmpty, Joinable
<1>9. HandlesAreJoined'
  <2>1. CASE Joinable(o)
    <3>1. obj[o].handle \in Runs
      BY <2>1 DEF Joinable, IInv, TypeOK, ObjectStates
    <3>2. obj[o].store # None
      BY <2>1, <3>1 DEF Joinable, IInv, ObjectOK, RunOK
    <3>3. "refill" \in taken
      BY <2>1, <3>2 DEF DestroyEmpty, Joinable, IInv, ObjectOK
    <3> QED
      BY <3>3 DEF DestroyEmpty, HandlesAreJoined
  <2>2. CASE ~Joinable(o)
    BY <2>2 DEF DestroyEmpty, IInv, HandlesAreJoined
  <2> QED
    BY <2>1, <2>2
<1> QED
  BY <1>1, <1>2, <1>3, <1>4, <1>5, <1>6, <1>7, <1>8, <1>9 DEF IInv

LEMMA TestKeeps ==
    ASSUME NEW r \in Runs,
           IInv, Test(r)
    PROVE  IInv'
<1>1. TypeOK'
  BY PlaceTyped DEF IInv, TypeOK, Test, Goto
<1>2. ASSUME NEW p \in Objs PROVE ObjectOK(p)'
  BY DEF IInv, ObjectOK, Test, Goto
<1>3. OneHome'
  BY DEF IInv, OneHome, Test
<1>4. ASSUME NEW q \in Runs PROVE RunOK(q)'
  BY DEF IInv, RunOK, Test, Goto
<1>5. ASSUME NEW q \in Runs PROVE FlagOK(q)'
  BY DEF IInv, FlagOK, Overlapped, Live, Test, Goto
<1>6. ControlOK'
  <2>1. \A q \in Runs : Live(q)' => Live(q)
    BY DEF IInv, TypeOK, RunStates, Live, Test, Goto
  <2> QED
    BY <2>1, ControlStays DEF Test
<1>7. SoleRunner'
  BY DEF IInv, SoleRunner, Live, Test, Goto
<1>8. OwnerReachesRun'
  BY DEF IInv, OwnerReachesRun, Live, Test, Goto
<1>9. HandlesAreJoined'
  BY DEF IInv, HandlesAreJoined, Test
<1> QED
  BY <1>1, <1>2, <1>3, <1>4, <1>5, <1>6, <1>7, <1>8, <1>9 DEF IInv

LEMMA LoopReturnsKeeps ==
    ASSUME NEW r \in Runs,
           IInv, LoopReturns(r)
    PROVE  IInv'
<1>1. TypeOK'
  BY PlaceTyped DEF IInv, TypeOK, LoopReturns, Goto
<1>2. ASSUME NEW p \in Objs PROVE ObjectOK(p)'
  BY DEF IInv, ObjectOK, LoopReturns, Goto
<1>3. OneHome'
  BY DEF IInv, OneHome, LoopReturns
<1>4. ASSUME NEW q \in Runs PROVE RunOK(q)'
  BY DEF IInv, RunOK, LoopReturns, Goto
<1>5. ASSUME NEW q \in Runs PROVE FlagOK(q)'
  BY DEF IInv, FlagOK, Overlapped, Live, LoopReturns, Goto
<1>6. ControlOK'
  <2>1. \A q \in Runs : Live(q)' => Live(q)
    BY DEF IInv, TypeOK, RunStates, Live, LoopReturns, Goto
  <2> QED
    BY <2>1, ControlStays DEF LoopReturns
<1>7. SoleRunner'
  BY DEF IInv, SoleRunner, Live, LoopReturns, Goto
<1>8. OwnerReachesRun'
  BY DEF IInv, OwnerReachesRun, Live, LoopReturns, Goto
<1>9. HandlesAreJoined'
  BY DEF IInv, HandlesAreJoined, LoopReturns
<1> QED
  BY <1>1, <1>2, <1>3, <1>4, <1>5, <1>6, <1>7, <1>8, <1>9 DEF IInv

LEMMA TokenStopKeeps ==
    ASSUME NEW r \in Runs,
           IInv, TokenStop(r)
    PROVE  IInv'
<1>1. TypeOK'
  <2>1. run[r].store \in Storages
    BY DEF IInv, TypeOK, RunStates, RunOK, TokenStop
  <2> QED
    BY <2>1, FlagTyped DEF IInv, TypeOK, TokenStop
<1>2. ASSUME NEW p \in Objs PROVE ObjectOK(p)'
  BY DEF IInv, ObjectOK, TokenStop
<1>3. OneHome'
  BY DEF IInv, OneHome, TokenStop
<1>4. ASSUME NEW q \in Runs PROVE RunOK(q)'
  BY DEF IInv, RunOK, TokenStop
<1>5. ASSUME NEW q \in Runs PROVE FlagOK(q)'
  BY <1>1 DEF IInv, TypeOK, FlagOK, Overlapped, Live, SoleRunner, TokenStop
<1>6. ControlOK'
  BY ThreadAssumption DEF IInv, ControlOK, Overlapped, Joinable, RunOK, OneHome, OwnerReachesRun,
     Live, TokenStop
<1>7. SoleRunner'
  BY DEF IInv, SoleRunner, Live, TokenStop
<1>8. OwnerReachesRun'
  BY DEF IInv, OwnerReachesRun, Live, TokenStop
<1>9. HandlesAreJoined'
  BY DEF IInv, HandlesAreJoined, TokenStop
<1> QED
  BY <1>1, <1>2, <1>3, <1>4, <1>5, <1>6, <1>7, <1>8, <1>9 DEF IInv

LEMMA LoopThrowsKeeps ==
    ASSUME NEW r \in Runs,
           IInv, LoopThrows(r)
    PROVE  IInv'
<1>1. TypeOK'
  BY PlaceTyped DEF IInv, TypeOK, LoopThrows, Goto
<1>2. ASSUME NEW p \in Objs PROVE ObjectOK(p)'
  BY <1>1 DEF IInv, TypeOK, ObjectStates, RunStates, ObjectOK, LoopThrows, Goto
<1>3. OneHome'
  BY DEF IInv, OneHome, LoopThrows
<1>4. ASSUME NEW q \in Runs PROVE RunOK(q)'
  BY ThreadAssumption, <1>1
     DEF IInv, TypeOK, ObjectStates, StorageStates, RunStates, RunOK, ObjectOK, OneHome,
         ControlOK, LoopThrows, Goto
<1>5. ASSUME NEW q \in Runs PROVE FlagOK(q)'
  BY ThreadAssumption DEF IInv, TypeOK, RunStates, FlagOK, Overlapped, Live, RunOK,
     LoopThrows, Goto
<1>6. ControlOK'
  <2>1. \A q \in Runs : Live(q)' => Live(q)
    BY DEF IInv, TypeOK, RunStates, Live, LoopThrows, Goto
  <2> QED
    BY <2>1, ControlStays DEF LoopThrows
<1>7. SoleRunner'
  BY DEF IInv, TypeOK, RunStates, SoleRunner, Live, LoopThrows, Goto
<1>8. OwnerReachesRun'
  BY DEF IInv, TypeOK, RunStates, OwnerReachesRun, Live, RunOK, LoopThrows, Goto
<1>9. HandlesAreJoined'
  BY DEF IInv, HandlesAreJoined, LoopThrows
<1> QED
  BY <1>1, <1>2, <1>3, <1>4, <1>5, <1>6, <1>7, <1>8, <1>9 DEF IInv

LEMMA TerminateKeeps ==
    ASSUME NEW r \in Runs,
           IInv, Terminate(r)
    PROVE  IInv'
<1>1. TypeOK'
  <2>1. run[r].store \in Storages
    BY DEF IInv, TypeOK, RunStates, RunOK, Terminate
  <2> QED
    BY FlagTyped, PlaceTyped DEF IInv, TypeOK, Terminate, Goto
<1>2. ASSUME NEW p \in Objs PROVE ObjectOK(p)'
  BY DEF IInv, ObjectOK, Terminate, Goto
<1>3. OneHome'
  BY DEF IInv, OneHome, Terminate
<1>4. ASSUME NEW q \in Runs PROVE RunOK(q)'
  BY DEF IInv, RunOK, Terminate, Goto
<1>5. ASSUME NEW q \in Runs PROVE FlagOK(q)'
  BY DEF IInv, TypeOK, FlagOK, Overlapped, Live, SoleRunner, Terminate, Goto
<1>6. ControlOK'
  <2>1. \A q \in Runs : Live(q)' => Live(q)
    BY DEF IInv, TypeOK, RunStates, Live, Terminate, Goto
  <2>2. ASSUME ctl.op = "start", obj[ctl.obj].store = run[r].store PROVE Overlapped
    <3>1. Live(r) /\ ~run[r].detached
      BY <2>2 DEF IInv, ControlOK, RunOK, Live, Terminate
    <3>2. PICK p \in Objs : obj[p].handle = r /\ obj[p].store = run[r].store
      BY <3>1 DEF IInv, OwnerReachesRun
    <3>3. p = ctl.obj
      BY <2>2, <3>2 DEF IInv, ControlOK, OneHome
    <3> QED
      BY <2>2, <3>1, <3>2, <3>3, ThreadAssumption DEF IInv, ControlOK, Joinable
  <2>3. ASSUME obj[ctl.obj].store # run[r].store
        PROVE  store'[obj[ctl.obj].store] = store[obj[ctl.obj].store]
    BY <2>3 DEF Terminate
  <2> QED
    BY <2>1, <2>2, <2>3, ControlStays DEF Terminate
<1>7. SoleRunner'
  BY DEF IInv, SoleRunner, Live, Terminate, Goto
<1>8. OwnerReachesRun'
  BY DEF IInv, OwnerReachesRun, Live, Terminate, Goto
<1>9. HandlesAreJoined'
  BY DEF IInv, HandlesAreJoined, Terminate
<1> QED
  BY <1>1, <1>2, <1>3, <1>4, <1>5, <1>6, <1>7, <1>8, <1>9 DEF IInv

-----------------------------------------------------------------------------
LEMMA InitIInv == Init => IInv
<1> SUFFICES ASSUME Init PROVE IInv
  OBVIOUS
<1>1. TypeOK
  <2>1. Nothing \in ObjectStates
    BY DEF Nothing, ObjectStates
  <2>2. store \in [Storages -> StorageStates]
    BY DEF Init, StorageStates
  <2>3. run \in [Runs -> RunStates]
    BY DEF Init, RunStates
  <2> QED
    BY <2>1, <2>2, <2>3 DEF Init, TypeOK, Idle
<1> QED
  BY <1>1 DEF Init, IInv, ObjectOK, OneHome, RunOK, FlagOK, Live, ControlOK, SoleRunner,
              OwnerReachesRun, HandlesAreJoined, Nothing, Idle

LEMMA NextIInv == IInv /\ [Next]_vars => IInv'
<1> SUFFICES ASSUME IInv, [Next]_vars PROVE IInv'
  OBVIOUS
<1>1. ASSUME NEW o \in Objs, Control(o) PROVE IInv'
  <2>1. ASSUME NEW other \in Objs, MoveConstruct(o, other) PROVE IInv'
    BY <2>1, MoveConstructKeeps
  <2>2. ASSUME NEW other \in Objs, MoveAssign(o, other) PROVE IInv'
    BY <2>2, MoveAssignKeeps
  <2>3. ASSUME NEW other \in Objs, Overwrite(o, other) PROVE IInv'
    BY <2>3, OverwriteKeeps
  <2> QED
    BY <1>1, <2>1, <2>2, <2>3, ConstructKeeps, StartClearKeeps, JoinKeeps, StopAndWaitKeeps,
       DetachKeeps, DestroyKeeps, DestroyEmptyKeeps DEF Control
<1>2. ASSUME NEW o \in Objs, Stop(o) \/ Unblock(o) PROVE IInv'
  BY <1>2, StopKeeps, StartSpawnKeeps, JoinReturnsKeeps, DestroyReturnsKeeps DEF Unblock
<1>3. ASSUME NEW r \in Runs, Work(r) \/ TokenStop(r) \/ LoopThrows(r) PROVE IInv'
  BY <1>3, TestKeeps, LoopReturnsKeeps, TerminateKeeps, TokenStopKeeps, LoopThrowsKeeps
     DEF Work
<1>4. CASE UNCHANGED vars
  <2>1. TypeOK'
    BY <1>4 DEF vars, IInv, TypeOK
  <2>2. ASSUME NEW o \in Objs PROVE ObjectOK(o)'
    BY <1>4 DEF vars, IInv, ObjectOK
  <2>3. ASSUME NEW r \in Runs PROVE RunOK(r)' /\ FlagOK(r)'
    BY <1>4 DEF vars, IInv, RunOK, FlagOK, Overlapped, Live
  <2>4. OneHome' /\ SoleRunner' /\ OwnerReachesRun' /\ HandlesAreJoined'
    BY <1>4 DEF vars, IInv, OneHome, SoleRunner, OwnerReachesRun, HandlesAreJoined, Live
  <2>5. ControlOK'
    BY <1>4 DEF vars, IInv, ControlOK, Overlapped, Live, Joinable
  <2> QED
    BY <2>1, <2>2, <2>3, <2>4, <2>5 DEF IInv
<1> QED
  BY <1>1, <1>2, <1>3, <1>4 DEF Next, Over

\* The places, the storages, the threads and the flags fit together in every
\* reachable state: the invariant all the properties below follow from.
THEOREM ThreadInvariant == Spec => []IInv
<1>1. Init => IInv
  BY InitIInv
<1>2. IInv /\ [Next]_vars => IInv'
  BY NextIInv
<1> QED
  BY <1>1, <1>2, PTL DEF Spec

\* The fields have their types, and a place without an object keeps neither a
\* handle nor a storage.
THEOREM TypeCorrect == Spec => []TypeOK
<1>1. IInv => TypeOK
  BY DEF IInv
<1> QED
  BY <1>1, ThreadInvariant, PTL

\* No two OS threads run the same loop function and callbacks, restarts
\* included (Thread.hpp 81, 121).
THEOREM RunsAlone == Spec => []SoleRunner
<1>1. IInv => SoleRunner
  BY DEF IInv
<1> QED
  BY <1>1, ThreadInvariant, PTL

\* A running thread that was not detached can be stopped: some object holds
\* its handle and the flag that it reads (Thread.hpp 48-61, 184-191).
THEOREM RunsAreOwned == Spec => []OwnerReachesRun
<1>1. IInv => OwnerReachesRun
  BY DEF IInv
<1> QED
  BY <1>1, ThreadInvariant, PTL

\* Moves and destructors do not terminate the program, except that a refilled
\* or an overwritten object may (Thread.hpp 54-61, 217-221).
THEOREM HandlesCorrect == Spec => []HandlesAreJoined
<1>1. IInv => HandlesAreJoined
  BY DEF IInv
<1> QED
  BY <1>1, ThreadInvariant, PTL

-----------------------------------------------------------------------------
(* Every step out of the loop's test is a Test, which reads the flag.      *)

LEMMA OnlyTestLeavesTest ==
    ASSUME IInv, Next, NEW r \in Runs,
           run[r].pc = "test", run'[r].pc # "test"
    PROVE  Test(r)
<1>1. run \in [Runs -> RunStates]
  BY DEF IInv, TypeOK
<1>2. ASSUME NEW o \in Objs, Control(o) \/ Stop(o) PROVE run'[r].pc = "test"
  <2>1. CASE Detach(o)
    BY <1>1, <2>1 DEF Detach, RunStates
  <2>2. CASE ~Detach(o)
    BY <1>2, <2>2 DEF Control, Stop, Construct, StartClear, Join, StopAndWait, Destroy,
                      DestroyEmpty, MoveConstruct, MoveAssign, Overwrite
  <2> QED
    BY <2>1, <2>2
<1>3. ASSUME NEW o \in Objs, Unblock(o) PROVE run'[r].pc = "test"
  BY <1>1, <1>3 DEF Unblock, StartSpawn, JoinReturns, DestroyReturns
<1>4. ASSUME NEW q \in Runs, q # r, Work(q) \/ TokenStop(q) \/ LoopThrows(q)
      PROVE  run'[r].pc = "test"
  BY <1>1, <1>4 DEF Work, Test, LoopReturns, Terminate, TokenStop, LoopThrows, Goto
<1>5. ~(LoopReturns(r) \/ Terminate(r) \/ TokenStop(r) \/ LoopThrows(r))
  BY DEF LoopReturns, Terminate, TokenStop, LoopThrows
<1>6. ~Over
  BY DEF Over, vars
<1> QED
  BY <1>2, <1>3, <1>4, <1>5, <1>6 DEF Next, Work

\* After StopToken::stop() the loop function is not called again, unless the
\* object has been restarted (Thread.hpp 29).
THEOREM TokenCorrect == Spec => TokenStopIsFinal
<1> DEFINE Final == \A r \in Runs : told[r] /\ run[r].pc = "test" =>
                        run'[r].pc # "loop" \/ "restart" \in taken
<1>1. ASSUME IInv, [Next]_vars, NEW r \in Runs, told[r], run[r].pc = "test",
             run'[r].pc = "loop"
      PROVE  "restart" \in taken
  <2>1. Next
    BY <1>1 DEF vars
  <2>2. Test(r)
    BY <1>1, <2>1, OnlyTestLeavesTest
  <2>3. ~store[run[r].store].stopped
    BY <1>1, <2>2 DEF Test, Goto
  <2> QED
    BY <1>1, <2>3 DEF IInv, FlagOK, Live
<1>2. IInv /\ [Next]_vars => [Final]_vars
  BY <1>1
<1> QED
  BY <1>2, ThreadInvariant, PTL DEF Spec, TokenStopIsFinal

\* A loop that ends without an exception was told to by its token or asked to
\* by its owner, unless a start() overlapped with an earlier run (Thread.hpp
\* 118, 133, 149).
THEOREM EndsCorrect == Spec => EndsOnlyWhenAsked
<1> DEFINE Asked == \A r \in Runs : run[r].pc = "test" /\ run'[r].pc = "ending" =>
                        told[r] \/ asked[run[r].store] \/ Overlapped
<1>1. ASSUME IInv, [Next]_vars, NEW r \in Runs, run[r].pc = "test", run'[r].pc = "ending"
      PROVE  told[r] \/ asked[run[r].store] \/ Overlapped
  <2>1. Next
    BY <1>1 DEF vars
  <2>2. Test(r)
    BY <1>1, <2>1, OnlyTestLeavesTest
  <2>3. store[run[r].store].stopped
    BY <1>1, <2>2 DEF Test, Goto
  <2> QED
    BY <1>1, <2>3 DEF IInv, FlagOK, Live
<1>2. IInv /\ [Next]_vars => [Asked]_vars
  BY <1>1
<1> QED
  BY <1>2, ThreadInvariant, PTL DEF Spec, EndsOnlyWhenAsked
=============================================================================
