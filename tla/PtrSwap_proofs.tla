--------------------------- MODULE PtrSwap_proofs ---------------------------
(***************************************************************************)
(* Theorems about PtrSwap, for any finite sets of threads and blocks, any  *)
(* bound on pushes, and every program that uses the cell in one of the     *)
(* three ways that are safe.                                               *)
(***************************************************************************)
EXTENDS PtrSwap, FiniteSetTheorems, TLAPS

-----------------------------------------------------------------------------
(* The inductive invariant.                                                *)

States   == {"unused", "live", "destroyed", "freed"}
Releases == [at : Heap!Places, block : Blocks \cup {Null}, then : Heap!Kinds,
             to : Slots \cup {Null}, from : Slots \cup {Null}, seen : Nat]
Frames   == [at : Places, old : MaybeBlock, new : MaybeBlock, tmp : MaybeBlock]

HeapTypes ==
    /\ strong \in [Blocks -> Nat]
    /\ weak \in [Blocks -> Nat]
    /\ mem \in [Blocks -> States]
    /\ pc \in [Threads -> Releases]

CellTypes ==
    /\ ptr \in [Slots -> MaybeBlock]
    /\ kept \in [Blocks -> {0, 1}]
    /\ cell \in MaybeBlock
    /\ op \in [Threads -> Frames]
    /\ val \in [Blocks -> 0..MaxPushes]
    /\ mode \in Modes

\* A release has no second half, and no data has a reference to itself.
ReleaseOK(t) ==
    /\ pc[t].at \in {"idle", "dtor", "dropWeak", "free"}
    /\ pc[t].then = "none"
    /\ pc[t].block = Null <=> pc[t].at = "idle"

\* The threads that are ending b's life.
Enders(b) == {t \in Threads : pc[t].at \in {"dtor", "dropWeak", "free"} /\ pc[t].block = b}

\* The life of a block: it has references exactly while its data is there and
\* nobody ends it; one thread does, and takes the steps in their order.
LifeOK(b) ==
    /\ \A t, u \in Enders(b) : t = u
    /\ strong[b] > 0 <=> mem[b] = "live" /\ Enders(b) = {}
    /\ \A t \in Enders(b) :
          /\ pc[t].at = "dtor"     => mem[b] = "live" /\ weak[b] = 1
          /\ pc[t].at = "dropWeak" => mem[b] = "destroyed" /\ weak[b] = 1
          /\ pc[t].at = "free"     => mem[b] = "destroyed" /\ weak[b] = 0
    /\ strong[b] > 0 => weak[b] = 1

HeapOK ==
    /\ HeapTypes
    /\ \A t \in Threads : ReleaseOK(t)
    /\ \A b \in Blocks : LifeOK(b)

CountOK(b) == strong[b] = References(b)

\* What t's place in an operation says of its frame: the result is not there
\* yet, and what an exchange is about to publish is one push ahead of what it
\* is going to replace.
OperationOK(t) ==
    /\ op[t].at = "outside" => op[t].old = Null /\ op[t].new = Null /\ op[t].tmp = Null
    /\ op[t].at # "outside" => ptr[Res(t)] = Null
    /\ op[t].at \in {"load", "swap"} => op[t].old = Null /\ op[t].new = Null
    /\ op[t].at \notin {"load", "swap", "acquire", "dropOld"} => op[t].tmp = Null
    /\ op[t].at = "load" => op[t].tmp # Null
    /\ op[t].at = "apply" => op[t].new = Null
    /\ op[t].at = "exchange" =>
          /\ op[t].new # Null
          /\ val[op[t].new] = Value(op[t].old) + 1

OperationsOK == \A t \in Threads : OperationOK(t)

\* Why a block that is referred to but not counted is alive: the program keeps
\* a reference to it, ...
Safe(b) == b # Null => kept[b] = 1
Anchored ==
    mode = "anchored" =>
        /\ Safe(cell)
        /\ \A s \in Slots : Safe(ptr[s])
        /\ \A t \in Threads : Safe(op[t].old) /\ Safe(op[t].new) /\ Safe(op[t].tmp)

\* ... there is no such block, ...
Moving == mode = "moves" => \A t \in Threads : op[t].at = "outside"

\* ... or the cell holds it until it is counted.
Pinned(t) ==
    /\ op[t].at \in {"load", "acquire"} => op[t].tmp = cell
    /\ op[t].at = "swap" => ptr[Arg(t)] = cell
    /\ op[t].at = "retain" => op[t].new = cell
Exclusive ==
    mode = "exclusive" =>
        /\ \A t, u \in Threads : op[t].at # "outside" /\ op[u].at # "outside" => t = u
        /\ \A t \in Threads : Pinned(t)

IInv ==
    /\ HeapOK
    /\ CellTypes
    /\ \A b \in Blocks : CountOK(b)
    /\ OperationsOK
    /\ Anchored /\ Moving /\ Exclusive

-----------------------------------------------------------------------------
(* The heap: what a step does to the counters and to the life of blocks.   *)

\* Idle is the place of a thread that releases nothing, ...
LEMMA IdleFields ==
    /\ Heap!Idle \in Releases
    /\ Heap!Idle.at = "idle" /\ Heap!Idle.then = "none" /\ Heap!Idle.block = Null
  BY DEF Heap!Idle, Releases, Heap!Places, Heap!Kinds

\* ... to which it returns.
LEMMA DoneIsIdle ==
    ASSUME NEW r, r.then = "none"
    PROVE  Heap!Done(r) = Heap!Idle
  BY DEF Heap!Done

\* One more reference to a block that has some.
LEMMA HeapRetains ==
    ASSUME HeapOK, NEW b \in Blocks \cup {Null}, b # Null => strong[b] > 0,
           Retain(b), UNCHANGED <<weak, mem, pc>>
    PROVE  HeapOK'
<1>1. HeapTypes'
  BY DEF HeapOK, HeapTypes, Retain
<1>2. ASSUME NEW t \in Threads PROVE ReleaseOK(t)'
  BY DEF HeapOK, ReleaseOK
<1>3. ASSUME NEW c \in Blocks PROVE LifeOK(c)'
  <2>1. LifeOK(c) /\ strong[c] \in Nat /\ Enders(c)' = Enders(c)
    BY DEF HeapOK, HeapTypes, Enders
  <2>2. /\ c = b => strong'[c] = strong[c] + 1 /\ strong[c] > 0
        /\ c # b => strong'[c] = strong[c]
    BY PtrSwapAssumption DEF Retain
  <2>3. strong'[c] > 0 <=> strong[c] > 0
    BY <2>1, <2>2
  <2> QED
    BY <2>1, <2>3 DEF LifeOK
<1> QED
  BY <1>1, <1>2, <1>3 DEF HeapOK

\* One less; the last one's thread goes on to destroy the data.
LEMMA HeapReleases ==
    ASSUME HeapOK, NEW t \in Threads, Heap!Ready(t),
           NEW b \in Blocks \cup {Null}, b # Null => strong[b] > 0,
           Release(t, b), UNCHANGED <<weak, mem>>
    PROVE  /\ HeapOK'
           /\ \A c \in Blocks : strong'[c] = IF c = b THEN strong[c] - 1 ELSE strong[c]
<1>1. CASE b = Null
  <2>1. UNCHANGED <<strong, weak, mem, pc>>
    BY <1>1 DEF Release
  <2>2. Null \notin Blocks
    BY PtrSwapAssumption
  <2> QED
    BY <1>1, <2>1, <2>2 DEF HeapOK, HeapTypes, ReleaseOK, LifeOK, Enders
<1>2. CASE b # Null
  <2>1. b \in Blocks /\ strong[b] > 0 /\ Heap!DropStrong(t, b, Heap!Idle)
    BY <1>2 DEF Release
  <2>2. /\ strong \in [Blocks -> Nat] /\ pc \in [Threads -> Releases]
        /\ pc[t] \in Releases /\ pc[t].at = "idle"
    BY DEF HeapOK, HeapTypes, Heap!Ready
  <2>3. strong' = [strong EXCEPT ![b] = strong[b] - 1]
    BY <2>1 DEF Heap!DropStrong
  <2>4. PICK r : r = IF strong[b] = 1 THEN [Heap!Idle EXCEPT !.at = "dtor", !.block = b]
                                      ELSE Heap!Idle
    OBVIOUS
  <2>5. pc' = [pc EXCEPT ![t] = r]
    BY <2>1, <2>4, DoneIsIdle, IdleFields DEF Heap!DropStrong
  <2>6. /\ r \in Releases /\ r.then = "none"
        /\ strong[b] = 1 => r.at = "dtor" /\ r.block = b
        /\ strong[b] # 1 => r.at = "idle" /\ r.block = Null
    BY <2>1, <2>4 DEF Heap!Idle, Releases, Heap!Places, Heap!Kinds
  <2>7. pc'[t] = r /\ \A u \in Threads : u # t => pc'[u] = pc[u]
    BY <2>2, <2>5
  <2>8. HeapTypes'
    BY <2>1, <2>2, <2>3, <2>5, <2>6 DEF HeapOK, HeapTypes
  <2>9. ASSUME NEW u \in Threads PROVE ReleaseOK(u)'
    <3>1. ReleaseOK(u)
      BY DEF HeapOK
    <3> QED
      BY <2>1, <2>6, <2>7, <3>1, PtrSwapAssumption DEF ReleaseOK
  <2>10. ASSUME NEW c \in Blocks PROVE LifeOK(c)'
    <3>1. LifeOK(c) /\ LifeOK(b) /\ strong[c] \in Nat
      BY <2>1, <2>2 DEF HeapOK
    <3>2. t \notin Enders(c)
      BY <2>2 DEF Enders
    <3>3. CASE c # b
      <4>1. strong'[c] = strong[c] /\ Enders(c)' = Enders(c)
        BY <2>1, <2>2, <2>3, <2>6, <2>7, <3>2, <3>3, PtrSwapAssumption DEF Enders
      <4>2. \A u \in Enders(c) : pc'[u] = pc[u]
        BY <2>7, <3>2 DEF Enders
      <4> QED
        BY <3>1, <4>1, <4>2 DEF LifeOK
    <3>4. CASE c = b /\ strong[b] # 1
      <4>1. strong'[c] = strong[c] - 1 /\ Enders(c)' = Enders(c)
        BY <2>1, <2>2, <2>3, <2>6, <2>7, <3>2, <3>4, PtrSwapAssumption DEF Enders
      <4>2. strong'[c] > 0 /\ strong[c] > 0
        BY <2>1, <3>1, <3>4, <4>1
      <4> QED
        BY <2>7, <3>1, <3>2, <4>1, <4>2 DEF LifeOK
    <3>5. CASE c = b /\ strong[b] = 1
      <4>1. strong'[c] = 0 /\ weak[c] = 1 /\ mem[c] = "live" /\ Enders(c) = {}
        BY <2>1, <2>2, <2>3, <3>1, <3>5 DEF LifeOK
      <4>2. Enders(c)' = {t}
        BY <2>6, <2>7, <3>5, <4>1 DEF Enders
      <4> QED
        BY <2>6, <2>7, <3>5, <4>1, <4>2 DEF LifeOK
    <3> QED
      BY <3>3, <3>4, <3>5
  <2> QED
    BY <2>1, <2>2, <2>3, <2>8, <2>9, <2>10 DEF HeapOK
<1> QED
  BY <1>1, <1>2

\* A new block.
LEMMA HeapMakes ==
    ASSUME HeapOK, NEW b \in Blocks, NEW v, Make(b, v), pc' = pc
    PROVE  HeapOK' /\ strong[b] = 0
<1>1. HeapTypes'
  BY DEF HeapOK, HeapTypes, Make, States
<1>2. ASSUME NEW t \in Threads PROVE ReleaseOK(t)'
  BY DEF HeapOK, ReleaseOK
<1>3. ASSUME NEW c \in Blocks PROVE LifeOK(c)'
  <2>1. LifeOK(c) /\ Enders(c)' = Enders(c)
    BY DEF HeapOK, Enders
  <2>2. CASE c # b
    BY <2>1, <2>2 DEF LifeOK, Make, HeapOK, HeapTypes
  <2>3. CASE c = b
    <3>1. mem[c] = "unused" /\ mem'[c] = "live" /\ strong'[c] > 0 /\ weak'[c] = 1
      BY <2>3 DEF Make, HeapOK, HeapTypes
    <3>2. Enders(c) = {}
      BY <2>1, <3>1 DEF LifeOK, Enders
    <3> QED
      BY <2>1, <3>1, <3>2 DEF LifeOK
  <2> QED
    BY <2>2, <2>3
<1>4. strong[b] = 0
  BY DEF HeapOK, HeapTypes, LifeOK, Make
<1> QED
  BY <1>1, <1>2, <1>3, <1>4 DEF HeapOK

\* A freed block can be allocated again.
LEMMA HeapRecycles ==
    ASSUME HeapOK, NEW b \in Blocks, Recycle(b)
    PROVE  HeapOK' /\ strong[b] = 0
<1>1. HeapTypes'
  BY DEF HeapOK, HeapTypes, Recycle, States
<1>2. ASSUME NEW t \in Threads PROVE ReleaseOK(t)'
  BY DEF HeapOK, ReleaseOK, Recycle
<1>3. ASSUME NEW c \in Blocks PROVE LifeOK(c)'
  <2>1. LifeOK(c) /\ Enders(c)' = Enders(c) /\ strong[c] \in Nat
    BY DEF HeapOK, HeapTypes, Enders, Recycle
  <2>2. CASE c # b
    BY <2>1, <2>2 DEF LifeOK, Recycle, HeapOK, HeapTypes
  <2>3. CASE c = b
    <3>1. mem[c] = "freed" /\ mem'[c] = "unused" /\ strong'[c] = strong[c]
      BY <2>3 DEF Recycle, HeapOK, HeapTypes
    <3>2. Enders(c) = {}
      BY <2>1, <3>1 DEF LifeOK, Enders
    <3> QED
      BY <2>1, <3>1, <3>2 DEF LifeOK
  <2> QED
    BY <2>2, <2>3
<1>4. strong[b] = 0
  BY DEF HeapOK, HeapTypes, LifeOK, Recycle
<1> QED
  BY <1>1, <1>2, <1>3, <1>4 DEF HeapOK

\* A release goes on: the data, the weak count, the block.
LEMMA HeapReclaims ==
    ASSUME HeapOK, NEW t \in Threads, Reclaim(t)
    PROVE  /\ HeapOK' /\ UNCHANGED <<strong, ptr, kept>>
<1>1. /\ pc \in [Threads -> Releases] /\ pc[t] \in Releases /\ ReleaseOK(t)
      /\ mem \in [Blocks -> States] /\ weak \in [Blocks -> Nat]
  BY DEF HeapOK, HeapTypes
<1> DEFINE b == pc[t].block
<1>2. Heap!DestroyData(t) \/ Heap!DropCollective(t) \/ Heap!DestroyBlock(t)
  BY <1>1 DEF Reclaim, Heap!Finish, ReleaseOK, Heap!DestroyMembers, Heap!FinishCopy,
              Heap!FinishMove, Heap!FinishCopyWeak, Heap!FinishMoveWeak
<1>3. b \in Blocks /\ t \in Enders(b) /\ LifeOK(b)
  BY <1>1, <1>2 DEF ReleaseOK, Heap!DestroyData, Heap!DropCollective, Heap!DestroyBlock,
                    Enders, HeapOK, Releases
<1>4. \A u \in Threads : u # t => u \notin Enders(b)
  BY <1>3 DEF LifeOK
<1>5. CASE Heap!DestroyData(t)
  <2>1. PICK r : r = [pc[t] EXCEPT !.at = "dropWeak"]
    OBVIOUS
  <2>2. r \in Releases /\ r.at = "dropWeak" /\ r.then = "none" /\ r.block = b
    BY <1>1, <2>1 DEF Releases, Heap!Places, ReleaseOK
  <2>3. /\ pc' = [pc EXCEPT ![t] = r]
        /\ mem' = [mem EXCEPT ![b] = "destroyed"]
        /\ UNCHANGED <<strong, weak, ptr, kept>>
        /\ pc[t].at = "dtor"
    BY <1>5, <2>1 DEF Heap!DestroyData
  <2>4. HeapTypes'
    BY <1>1, <1>3, <2>2, <2>3 DEF HeapOK, HeapTypes, States
  <2>5. ASSUME NEW u \in Threads PROVE ReleaseOK(u)'
    BY <1>1, <1>3, <2>2, <2>3, PtrSwapAssumption DEF HeapOK, ReleaseOK
  <2>6. ASSUME NEW c \in Blocks PROVE LifeOK(c)'
    <3>1. LifeOK(c)
      BY DEF HeapOK
    <3>2. Enders(c)' = Enders(c)
      BY <1>1, <2>2, <2>3 DEF Enders
    <3>3. CASE c # b
      <4>1. t \notin Enders(c)
        BY <3>3 DEF Enders
      <4>2. \A u \in Enders(c) : pc'[u] = pc[u]
        BY <1>1, <2>3, <4>1 DEF Enders
      <4>3. mem'[c] = mem[c]
        BY <1>1, <2>3, <3>3
      <4> QED
        BY <2>3, <3>1, <3>2, <4>2, <4>3 DEF LifeOK
    <3>4. CASE c = b
      <4>1. pc'[t].at = "dropWeak" /\ mem'[c] = "destroyed" /\ Enders(c) = {t} /\ weak[c] = 1
        BY <1>1, <1>3, <1>4, <2>2, <2>3, <3>4 DEF Enders, LifeOK
      <4>2. ~(strong[c] > 0)
        BY <3>1, <4>1 DEF LifeOK
      <4> QED
        BY <2>3, <3>1, <3>2, <4>1, <4>2 DEF LifeOK
    <3> QED
      BY <3>3, <3>4
  <2> QED
    BY <2>3, <2>4, <2>5, <2>6 DEF HeapOK
<1>6. CASE Heap!DropCollective(t)
  <2>1. PICK r : r = [pc[t] EXCEPT !.at = "free", !.block = b]
    OBVIOUS
  <2>2. r \in Releases /\ r.at = "free" /\ r.then = "none" /\ r.block = b
    BY <1>1, <2>1 DEF Releases, Heap!Places, ReleaseOK
  <2>3. pc[t].at = "dropWeak" /\ weak[b] = 1
    BY <1>3, <1>6 DEF LifeOK, Heap!DropCollective
  <2>4. /\ pc' = [pc EXCEPT ![t] = r]
        /\ weak' = [weak EXCEPT ![b] = 0]
        /\ UNCHANGED <<strong, mem, ptr, kept>>
    BY <1>1, <1>3, <1>6, <2>1, <2>3 DEF Heap!DropCollective, Heap!DropWeak
  <2>5. HeapTypes'
    BY <1>1, <1>3, <2>2, <2>4 DEF HeapOK, HeapTypes
  <2>6. ASSUME NEW u \in Threads PROVE ReleaseOK(u)'
    BY <1>1, <1>3, <2>2, <2>4, PtrSwapAssumption DEF HeapOK, ReleaseOK
  <2>7. ASSUME NEW c \in Blocks PROVE LifeOK(c)'
    <3>1. LifeOK(c)
      BY DEF HeapOK
    <3>2. Enders(c)' = Enders(c)
      BY <1>1, <2>2, <2>3, <2>4 DEF Enders
    <3>3. CASE c # b
      <4>1. t \notin Enders(c)
        BY <3>3 DEF Enders
      <4>2. \A u \in Enders(c) : pc'[u] = pc[u]
        BY <1>1, <2>4, <4>1 DEF Enders
      <4>3. weak'[c] = weak[c]
        BY <1>1, <2>4, <3>3
      <4> QED
        BY <2>4, <3>1, <3>2, <4>2, <4>3 DEF LifeOK
    <3>4. CASE c = b
      <4>1. pc'[t].at = "free" /\ mem[c] = "destroyed" /\ Enders(c) = {t} /\ weak'[c] = 0
        BY <1>1, <1>3, <1>4, <2>2, <2>3, <2>4, <3>4 DEF Enders, LifeOK
      <4>2. ~(strong[c] > 0)
        BY <3>1, <4>1 DEF LifeOK
      <4> QED
        BY <2>4, <3>1, <3>2, <4>1, <4>2 DEF LifeOK
    <3> QED
      BY <3>3, <3>4
  <2> QED
    BY <2>4, <2>5, <2>6, <2>7 DEF HeapOK
<1>7. CASE Heap!DestroyBlock(t)
  <2>1. /\ pc' = [pc EXCEPT ![t] = Heap!Idle]
        /\ mem' = [mem EXCEPT ![b] = "freed"]
        /\ UNCHANGED <<strong, weak, ptr, kept>>
        /\ pc[t].at = "free"
    BY <1>1, <1>7, DoneIsIdle DEF Heap!DestroyBlock, ReleaseOK
  <2>2. HeapTypes'
    BY <1>1, <1>3, <2>1, IdleFields DEF HeapOK, HeapTypes, States
  <2>3. ASSUME NEW u \in Threads PROVE ReleaseOK(u)'
    BY <1>1, <1>3, <2>1, IdleFields, PtrSwapAssumption DEF HeapOK, ReleaseOK
  <2>4. ASSUME NEW c \in Blocks PROVE LifeOK(c)'
    <3>1. LifeOK(c)
      BY DEF HeapOK
    <3>3. CASE c # b
      <4>1. t \notin Enders(c)
        BY <3>3 DEF Enders
      <4>2. \A u \in Enders(c) : pc'[u] = pc[u]
        BY <1>1, <2>1, <4>1 DEF Enders
      <4>3. mem'[c] = mem[c] /\ Enders(c)' = Enders(c)
        BY <1>1, <2>1, <3>3, <4>1, IdleFields DEF Enders
      <4> QED
        BY <2>1, <3>1, <4>2, <4>3 DEF LifeOK
    <3>4. CASE c = b
      <4>1. mem[c] = "destroyed" /\ mem'[c] = "freed"
        BY <1>1, <1>3, <2>1, <3>4 DEF Enders, LifeOK
      <4>2. Enders(c)' = {}
        BY <1>1, <1>4, <2>1, <3>4, IdleFields DEF Enders
      <4>3. ~(strong[c] > 0)
        BY <3>1, <4>1 DEF LifeOK
      <4> QED
        BY <2>1, <4>1, <4>2, <4>3 DEF LifeOK
    <3> QED
      BY <3>3, <3>4
  <2> QED
    BY <2>1, <2>2, <2>3, <2>4 DEF HeapOK
<1> QED
  BY <1>2, <1>5, <1>6, <1>7

-----------------------------------------------------------------------------
(* Counting the references.                                                *)

Owners == Threads \X Hands

\* 1 or 0.
Is(x, b) == IF x = b THEN 1 ELSE 0

\* The hands that hold b, and those of others than t that do.
Holders(h, b) == {x \in Owners : h[x] = b}
Elsewhere(h, t, b) == {x \in Owners : x[1] # t /\ h[x] = b}

\* The hands of t that do, counted one by one.
Mine(h, t, b) ==
    Is(h[<<t, "arg">>], b) + Is(h[<<t, "res">>], b) + Is(h[<<t, "old">>], b)
    + Is(h[<<t, "new">>], b) + Is(h[<<t, "raw">>], b)

\* What a step of t can change of the references to b.
Own(t, b) == Mine(Held, t, b) + kept[b] + Is(cell, b)

\* There are finitely many hands.
LEMMA OwnersFinite == IsFiniteSet(Owners)
<1>1. IsFiniteSet(Hands)
  <2>1. IsFiniteSet({"arg"}) /\ IsFiniteSet({"res"}) /\ IsFiniteSet({"old"})
        /\ IsFiniteSet({"new"}) /\ IsFiniteSet({"raw"})
    BY FS_Singleton
  <2>2. IsFiniteSet({"arg"} \cup {"res"}) /\ IsFiniteSet({"old"} \cup {"new"})
    BY <2>1, FS_Union
  <2>3. IsFiniteSet(({"arg"} \cup {"res"}) \cup ({"old"} \cup {"new"}))
    BY <2>2, FS_Union
  <2>4. IsFiniteSet((({"arg"} \cup {"res"}) \cup ({"old"} \cup {"new"})) \cup {"raw"})
    BY <2>1, <2>3, FS_Union
  <2>5. Hands = (({"arg"} \cup {"res"}) \cup ({"old"} \cup {"new"})) \cup {"raw"}
    BY DEF Hands
  <2> QED
    BY <2>4, <2>5
<1> QED
  BY <1>1, PtrSwapAssumption, FS_Product DEF Owners

\* The set S of hands that hold b, after another hand was looked at.
With(h, b, S, x) == IF h[x] = b THEN S \cup {x} ELSE S

\* One hand more: it counts if it holds b.
LEMMA OneHand ==
    ASSUME NEW h, NEW b, NEW S, IsFiniteSet(S), NEW x, x \notin S
    PROVE  /\ IsFiniteSet(With(h, b, S, x)) /\ Cardinality(With(h, b, S, x)) \in Nat
           /\ Cardinality(With(h, b, S, x)) = Cardinality(S) + Is(h[x], b)
<1>1. Cardinality(S) \in Nat
  BY FS_CardinalityType
<1>2. CASE h[x] = b
  BY <1>1, <1>2, FS_AddElement, FS_CardinalityType DEF Is, With
<1>3. CASE h[x] # b
  BY <1>1, <1>3 DEF Is, With
<1> QED
  BY <1>2, <1>3

\* The hands that hold b are those of others and the five of t.
LEMMA CountSplit ==
    ASSUME NEW h, NEW t \in Threads, NEW b
    PROVE  /\ Cardinality(Holders(h, b))
              = Cardinality(Elsewhere(h, t, b)) + Mine(h, t, b)
           /\ Cardinality(Elsewhere(h, t, b)) \in Nat /\ Mine(h, t, b) \in Nat
<1> DEFINE S0 == Elsewhere(h, t, b)
           S1 == With(h, b, S0, <<t, "arg">>)
           S2 == With(h, b, S1, <<t, "res">>)
           S3 == With(h, b, S2, <<t, "old">>)
           S4 == With(h, b, S3, <<t, "new">>)
           S5 == With(h, b, S4, <<t, "raw">>)
<1>1. IsFiniteSet(S0) /\ Cardinality(S0) \in Nat
  BY OwnersFinite, FS_Subset, FS_CardinalityType DEF Elsewhere
<1>2. \A k : <<t, k>> \notin S0
  BY DEF Elsewhere
<1>3. /\ IsFiniteSet(S1) /\ Cardinality(S1) = Cardinality(S0) + Is(h[<<t, "arg">>], b)
      /\ Cardinality(S1) \in Nat
  <2>1. <<t, "arg">> \notin S0
    BY <1>2 DEF With
  <2> HIDE DEF S0
  <2> QED
    BY <1>1, <2>1, OneHand
<1>4. /\ IsFiniteSet(S2) /\ Cardinality(S2) = Cardinality(S1) + Is(h[<<t, "res">>], b)
      /\ Cardinality(S2) \in Nat
  <2>1. <<t, "res">> \notin S1
    BY <1>2 DEF With
  <2> HIDE DEF S1
  <2> QED
    BY <1>3, <2>1, OneHand
<1>5. /\ IsFiniteSet(S3) /\ Cardinality(S3) = Cardinality(S2) + Is(h[<<t, "old">>], b)
      /\ Cardinality(S3) \in Nat
  <2>1. <<t, "old">> \notin S2
    BY <1>2 DEF With
  <2> HIDE DEF S2
  <2> QED
    BY <1>4, <2>1, OneHand
<1>6. /\ IsFiniteSet(S4) /\ Cardinality(S4) = Cardinality(S3) + Is(h[<<t, "new">>], b)
      /\ Cardinality(S4) \in Nat
  <2>1. <<t, "new">> \notin S3
    BY <1>2 DEF With
  <2> HIDE DEF S3
  <2> QED
    BY <1>5, <2>1, OneHand
<1>7. /\ IsFiniteSet(S5) /\ Cardinality(S5) = Cardinality(S4) + Is(h[<<t, "raw">>], b)
      /\ Cardinality(S5) \in Nat
  <2>1. <<t, "raw">> \notin S4
    BY <1>2 DEF With
  <2> HIDE DEF S4
  <2> QED
    BY <1>6, <2>1, OneHand
<1>8. Holders(h, b) = S5
  <2>1. ASSUME NEW x \in Owners, h[x] = b PROVE x \in S5
    <3>1. PICK u \in Threads, k \in Hands : x = <<u, k>>
      BY DEF Owners
    <3>2. CASE u # t
      BY <2>1, <3>1, <3>2 DEF Elsewhere, With
    <3>3. CASE u = t
      BY <2>1, <3>1, <3>3 DEF Hands, With
    <3> QED
      BY <3>2, <3>3
  <2>2. ASSUME NEW x \in S5 PROVE x \in Owners /\ h[x] = b
    <3>1. \A k \in Hands : <<t, k>> \in Owners
      BY DEF Owners
    <3>2. \A x1 \in S0 : x1 \in Owners /\ h[x1] = b
      BY DEF Elsewhere
    <3> QED
      BY <2>2, <3>1, <3>2 DEF Hands, With
  <2> QED
    BY <2>1, <2>2 DEF Holders
<1>9. /\ Is(h[<<t, "arg">>], b) \in Nat /\ Is(h[<<t, "res">>], b) \in Nat
      /\ Is(h[<<t, "old">>], b) \in Nat /\ Is(h[<<t, "new">>], b) \in Nat
      /\ Is(h[<<t, "raw">>], b) \in Nat
  BY DEF Is
<1>10. Cardinality(S5) = Cardinality(S0) + Mine(h, t, b) /\ Mine(h, t, b) \in Nat
  <2> HIDE DEF S0, S1, S2, S3, S4, S5
  <2> QED
    BY <1>1, <1>3, <1>4, <1>5, <1>6, <1>7, <1>9 DEF Mine
<1> QED
  BY <1>1, <1>8, <1>10

\* The slots of a thread, which are not those of others.
LEMMA SlotsOf ==
    ASSUME NEW t \in Threads
    PROVE  /\ Arg(t) \in Slots /\ Res(t) \in Slots /\ Arg(t) # Res(t)
           /\ \A s \in Slots : s[1] = t => s \in {Arg(t), Res(t)}
           /\ \A u \in Threads : Arg(u)[1] = u /\ Res(u)[1] = u
  BY DEF Slots, Arg, Res

\* A step of t that leaves the hands of others alone keeps the counts exact if
\* it changes them by what it changes of its own references.
LEMMA CountsStep ==
    ASSUME HeapTypes, HeapTypes', CellTypes, CellTypes', NEW t \in Threads,
           \A b \in Blocks : CountOK(b),
           \A u \in Threads : u # t => op'[u] = op[u],
           \A s \in Slots : s[1] # t => ptr'[s] = ptr[s],
           \A b \in Blocks : strong'[b] - strong[b] = Own(t, b)' - Own(t, b)
    PROVE  \A b \in Blocks : CountOK(b)'
<1> SUFFICES ASSUME NEW b \in Blocks PROVE CountOK(b)'
  OBVIOUS
<1>1. \A x \in Owners : x[1] # t => Held'[x] = Held[x]
  <2> SUFFICES ASSUME NEW u \in Threads, NEW k \in Hands, u # t
               PROVE  Held'[<<u, k>>] = Held[<<u, k>>]
    BY DEF Owners
  <2>1. op'[u] = op[u] /\ ptr'[Arg(u)] = ptr[Arg(u)] /\ ptr'[Res(u)] = ptr[Res(u)]
    BY SlotsOf
  <2>2. InHand(u, k)' = InHand(u, k)
    BY <2>1 DEF InHand
  <2>3. Held[<<u, k>>] = InHand(u, k) /\ Held'[<<u, k>>] = InHand(u, k)'
    BY DEF Held
  <2> QED
    BY <2>2, <2>3
<1>2. Elsewhere(Held, t, b) = Elsewhere(Held', t, b)
  BY <1>1 DEF Elsewhere
<1>3. CountOK(b) /\ strong'[b] - strong[b] = Own(t, b)' - Own(t, b)
  OBVIOUS
<1>4. /\ References(b) = Cardinality(Holders(Held, b)) + kept[b] + Is(cell, b)
      /\ References(b)' = Cardinality(Holders(Held', b)) + kept'[b] + Is(cell', b)
  BY DEF References, Owners, Is, Holders
<1>5. Is(cell, b) \in Int /\ Is(cell', b) \in Int
  BY DEF Is
<1>6. kept[b] \in Int /\ kept'[b] \in Int /\ strong[b] \in Int /\ strong'[b] \in Int
  BY DEF HeapTypes, CellTypes
<1>7. /\ Cardinality(Holders(Held, b))
         = Cardinality(Elsewhere(Held, t, b)) + Mine(Held, t, b)
      /\ Cardinality(Holders(Held', b))
         = Cardinality(Elsewhere(Held', t, b)) + Mine(Held', t, b)
      /\ Cardinality(Elsewhere(Held, t, b)) \in Int
      /\ Mine(Held, t, b) \in Int /\ Mine(Held', t, b) \in Int
  BY CountSplit
<1>8. /\ Own(t, b) = Mine(Held, t, b) + kept[b] + Is(cell, b)
      /\ Own(t, b)' = Mine(Held', t, b) + kept'[b] + Is(cell', b)
  BY DEF Own, Is, Mine
<1>9. strong[b] = References(b) /\ (CountOK(b)' <=> strong'[b] = References(b)')
  BY <1>3 DEF CountOK
<1> QED
  BY <1>2, <1>3, <1>4, <1>5, <1>6, <1>7, <1>8, <1>9

\* What is in the hands of t, hand by hand, before and after a step.
LEMMA HandsOf ==
    ASSUME NEW t \in Threads
    PROVE  /\ Held[<<t, "arg">>] = IF op[t].at = "swap" THEN Null ELSE ptr[Arg(t)]
           /\ Held[<<t, "res">>] = ptr[Res(t)]
           /\ Held[<<t, "old">>] = op[t].old
           /\ Held[<<t, "new">>] = IF op[t].at = "retain" THEN Null ELSE op[t].new
           /\ Held[<<t, "raw">>] = IF op[t].at \in {"swap", "dropOld"} THEN op[t].tmp
                                   ELSE IF op[t].at \in {"retain", "dropCell"} THEN op[t].old
                                   ELSE Null
           /\ Held'[<<t, "arg">>] = IF op'[t].at = "swap" THEN Null ELSE ptr'[Arg(t)]
           /\ Held'[<<t, "res">>] = ptr'[Res(t)]
           /\ Held'[<<t, "old">>] = op'[t].old
           /\ Held'[<<t, "new">>] = IF op'[t].at = "retain" THEN Null ELSE op'[t].new
           /\ Held'[<<t, "raw">>] = IF op'[t].at \in {"swap", "dropOld"} THEN op'[t].tmp
                                    ELSE IF op'[t].at \in {"retain", "dropCell"} THEN op'[t].old
                                    ELSE Null
<1>1. \A k \in Hands : Held[<<t, k>>] = InHand(t, k) /\ Held'[<<t, k>>] = InHand(t, k)'
  BY DEF Held
<1> QED
  BY <1>1 DEF Hands, InHand

\* The same for what a step of t can change of the references to b, summand by
\* summand.
LEMMA OwnSum ==
    ASSUME NEW t \in Threads, NEW b
    PROVE  /\ Own(t, b) =
                Is(Held[<<t, "arg">>], b) + Is(Held[<<t, "res">>], b) + Is(Held[<<t, "old">>], b)
                + Is(Held[<<t, "new">>], b) + Is(Held[<<t, "raw">>], b) + kept[b] + Is(cell, b)
           /\ Own(t, b)' =
                Is(Held'[<<t, "arg">>], b) + Is(Held'[<<t, "res">>], b) + Is(Held'[<<t, "old">>], b)
                + Is(Held'[<<t, "new">>], b) + Is(Held'[<<t, "raw">>], b) + kept'[b] + Is(cell', b)
  BY DEF Own, Mine, Is

\* What a hand or the cell holds is alive, and so is what the program keeps.
LEMMA CountedAlive ==
    ASSUME IInv, NEW b \in Blocks,
           (\E x \in Owners : Held[x] = b) \/ cell = b \/ kept[b] = 1
    PROVE  strong[b] > 0 /\ mem[b] = "live"
<1> DEFINE S == {x \in Owners : Held[x] = b}
<1>1. IsFiniteSet(S) /\ Cardinality(S) \in Nat
  BY OwnersFinite, FS_Subset, FS_CardinalityType
<1>2. (\E x \in Owners : Held[x] = b) => Cardinality(S) # 0
  BY <1>1, FS_EmptySet
<1>3. strong[b] = Cardinality(S) + kept[b] + (IF cell = b THEN 1 ELSE 0)
  BY DEF IInv, CountOK, References, Owners
<1>4. kept[b] \in {0, 1} /\ strong[b] \in Nat
  BY DEF IInv, CellTypes, HeapOK, HeapTypes
<1> HIDE DEF S
<1>5. strong[b] > 0
  BY <1>1, <1>2, <1>3, <1>4
<1> QED
  BY <1>5 DEF IInv, HeapOK, LifeOK

\* What the cell, a pointer or an operation refers to is alive, counted or not.
LEMMA Alive ==
    ASSUME IInv, mode # "rcu", NEW t \in Threads,
           NEW b \in Blocks, b \in {cell, ptr[Arg(t)], ptr[Res(t)]} \cup Frame(t)
    PROVE  strong[b] > 0 /\ mem[b] = "live"
<1>1. /\ Arg(t) \in Slots /\ Res(t) \in Slots
      /\ \A k \in Hands : <<t, k>> \in Owners
  BY SlotsOf DEF Owners
<1>2. mode \in {"anchored", "moves", "exclusive"}
  BY PtrSwapAssumption DEF IInv, CellTypes
<1>3. b # Null
  BY PtrSwapAssumption
<1>4. CASE mode = "anchored"
  <2>1. kept[b] = 1
    BY <1>1, <1>3, <1>4 DEF IInv, Anchored, Safe, Frame
  <2> QED
    BY <2>1, CountedAlive
<1>5. CASE mode # "anchored"
  <2>1. cell = b \/ \E k \in Hands : Held[<<t, k>>] = b
    <3>1. op[t].at \in Places
      BY DEF IInv, CellTypes, Frames
    <3> QED
      BY <1>2, <1>3, <1>5, <3>1, HandsOf
      DEF Hands, Frame, IInv, Moving, Exclusive, Pinned, OperationsOK, OperationOK, Places
  <2> QED
    BY <1>1, <2>1, CountedAlive
<1> QED
  BY <1>4, <1>5

-----------------------------------------------------------------------------
(* One step.                                                               *)

\* What is enough to know of a step of t: it keeps the types and the heap,
\* leaves other threads' pointers and frames and live data alone, changes the
\* counts by what it changes of its own references, gives up no kept reference
\* that somebody relies on, and refers to nothing new that is not kept, ...
Refers(t) == {cell, ptr[Arg(t)], ptr[Res(t)]} \cup Frame(t)
Seen == {cell} \cup {ptr[s] : s \in Slots} \cup UNION {Frame(t) : t \in Threads}

StepOK(t) ==
    /\ HeapOK' /\ CellTypes' /\ mode' = mode
    /\ \A u \in Threads : u # t => op'[u] = op[u]
    /\ \A s \in Slots : s[1] # t => ptr'[s] = ptr[s]
    /\ \A b \in Blocks : mem[b] = "live" => val'[b] = val[b]
    /\ \A b \in Blocks : strong'[b] - strong[b] = Own(t, b)' - Own(t, b)
    /\ OperationOK(t)'
    /\ \A b \in Blocks : kept'[b] = kept[b] \/ kept'[b] = 1 \/ b \notin Seen
    /\ \A b \in Refers(t)' : b = Null \/ b \in Refers(t) \/ (mode = "anchored" => kept'[b] = 1)

\* ... and is allowed in its mode.
TurnOK(t) ==
    /\ mode = "moves" => op'[t].at = "outside"
    /\ mode = "exclusive" =>
          /\ op'[t].at # "outside" \/ cell' # cell =>
                \A u \in Threads : u # t => op[u].at = "outside"
          /\ Pinned(t)'

\* Such a step keeps the invariant.
LEMMA StepKeeps ==
    ASSUME IInv, mode # "rcu", NEW t \in Threads, StepOK(t), TurnOK(t)
    PROVE  IInv'
<1>1. \A b \in Blocks : CountOK(b)'
  BY CountsStep DEF IInv, StepOK, HeapOK
<1>2. ASSUME NEW u \in Threads, u # t PROVE OperationOK(u)'
  <2>1. OperationOK(u) /\ op'[u] = op[u] /\ ptr'[Res(u)] = ptr[Res(u)]
    BY <1>2, SlotsOf DEF IInv, OperationsOK, StepOK
  <2>2. \A b \in Blocks : b \in Frame(u) => val'[b] = val[b]
    BY Alive DEF StepOK
  <2>3. op[u].at = "exchange" =>
           /\ val'[op[u].new] = val[op[u].new]
           /\ op[u].old # Null => val'[op[u].old] = val[op[u].old]
    BY <2>1, <2>2 DEF Frame, OperationOK, IInv, CellTypes, Frames, MaybeBlock
  <2> QED
    BY <2>1, <2>3 DEF OperationOK, Value
<1>3. OperationsOK'
  BY <1>2 DEF StepOK, OperationsOK
<1>4. Anchored'
  <2> SUFFICES ASSUME mode = "anchored" PROVE Anchored'
    BY DEF Anchored, StepOK
  <2>1. \A b \in MaybeBlock : b \in Seen /\ Safe(b) => Safe(b)'
    BY DEF StepOK, Safe, MaybeBlock
  <2>2. \A b \in Refers(t) : b \in MaybeBlock /\ b \in Seen /\ Safe(b)
    BY SlotsOf DEF Refers, IInv, Anchored, CellTypes, Frame, Frames, Seen
  <2>3. \A b \in Refers(t)' : Safe(b)'
    BY <2>1, <2>2 DEF StepOK, Safe
  <2>4. Safe(cell)'
    BY <2>3 DEF Refers
  <2>5. ASSUME NEW s \in Slots PROVE Safe(ptr[s])'
    <3>1. CASE s[1] = t
      BY <2>3, <3>1, SlotsOf DEF Refers
    <3>2. CASE s[1] # t
      BY <2>1, <3>2 DEF IInv, Anchored, StepOK, CellTypes, Safe, Seen
    <3> QED
      BY <3>1, <3>2
  <2>6. ASSUME NEW u \in Threads
        PROVE  Safe(op[u].old)' /\ Safe(op[u].new)' /\ Safe(op[u].tmp)'
    <3>1. CASE u = t
      BY <2>3, <3>1 DEF Refers, Frame
    <3>2. CASE u # t
      BY <2>1, <3>2 DEF IInv, Anchored, StepOK, CellTypes, Frames, Safe, Seen, Frame
    <3> QED
      BY <3>1, <3>2
  <2> QED
    BY <2>4, <2>5, <2>6 DEF Anchored
<1>5. Moving'
  BY DEF IInv, Moving, StepOK, TurnOK
<1>6. Exclusive'
  <2> SUFFICES ASSUME mode = "exclusive" PROVE Exclusive'
    BY DEF Exclusive, StepOK
  <2>1. ASSUME NEW u \in Threads, NEW v \in Threads, op'[u].at # "outside", op'[v].at # "outside"
        PROVE  u = v
    BY <2>1 DEF IInv, Exclusive, StepOK, TurnOK
  <2>2. ASSUME NEW u \in Threads PROVE Pinned(u)'
    <3>1. CASE u = t
      BY <3>1 DEF TurnOK
    <3>2. CASE u # t
      <4>1. op'[u] = op[u] /\ ptr'[Arg(u)] = ptr[Arg(u)] /\ Pinned(u)
        BY <3>2, SlotsOf DEF IInv, Exclusive, StepOK
      <4>2. op[u].at = "outside" \/ cell' = cell
        BY <3>2 DEF TurnOK
      <4> QED
        BY <4>1, <4>2 DEF Pinned
    <3> QED
      BY <3>1, <3>2
  <2> QED
    BY <2>1, <2>2 DEF Exclusive
<1> QED
  BY <1>1, <1>3, <1>4, <1>5, <1>6 DEF IInv, StepOK

\* In an operation, or entering one, t is alone if operations exclude each other.
LEMMA Alone ==
    ASSUME IInv, mode = "exclusive", NEW t \in Threads,
           op[t].at # "outside" \/ \A u \in Threads : op[u] = Outside
    PROVE  \A u \in Threads : u # t => op[u].at = "outside"
  BY DEF IInv, Exclusive, Outside

\* What the types say of t.
LEMMA Here ==
    ASSUME IInv, mode # "rcu", NEW t \in Threads
    PROVE  /\ op[t] \in Frames /\ cell \in MaybeBlock /\ op \in [Threads -> Frames]
           /\ op[t].old \in MaybeBlock /\ op[t].new \in MaybeBlock /\ op[t].tmp \in MaybeBlock
           /\ ptr[Arg(t)] \in MaybeBlock /\ ptr[Res(t)] \in MaybeBlock
           /\ ptr \in [Slots -> MaybeBlock] /\ strong \in [Blocks -> Nat]
           /\ kept \in [Blocks -> {0, 1}]
           /\ OperationOK(t) /\ (mode = "exclusive" => Pinned(t))
           /\ (mode = "moves" => op[t].at = "outside")
           /\ Null \notin Blocks
  BY SlotsOf, PtrSwapAssumption
  DEF IInv, CellTypes, HeapOK, HeapTypes, Frames, OperationsOK, Exclusive, Moving

-----------------------------------------------------------------------------
(* The operations of the cell.                                             *)

\* A load reads the cell ...
LEMMA LoadReadKeeps ==
    ASSUME IInv, mode # "rcu", NEW t \in Threads, LoadRead(t)
    PROVE  IInv'
<1>1. PICK r : r = [Outside EXCEPT !.at = "load", !.tmp = cell]
  OBVIOUS
<1>2. /\ r \in Frames /\ r.at = "load"
      /\ r.old = Null /\ r.new = Null /\ r.tmp = cell
  BY <1>1, Here DEF Frames, Places, Outside, MaybeBlock
<1>3. /\ op[t].at = "outside" /\ op' = [op EXCEPT ![t] = r]
      /\ ptr' = ptr
      /\ cell' = cell /\ UNCHANGED <<kept, val, mode>>
  BY <1>1 DEF LoadRead, At, MayEnter, Goto, heapVars
<1>4. /\ op'[t] = r /\ \A u \in Threads : u # t => op'[u] = op[u]
      /\ ptr'[Arg(t)] = ptr[Arg(t)] /\ ptr'[Res(t)] = ptr[Res(t)]
      /\ \A s \in Slots : s[1] # t => ptr'[s] = ptr[s]
  BY <1>2, <1>3, Here, SlotsOf
<1>5. HeapOK' /\ strong' = strong
  BY DEF LoadRead, heapVars, IInv, HeapOK, HeapTypes, ReleaseOK, LifeOK, Enders
<1>6. CellTypes'
  BY <1>2, <1>3, Here, SlotsOf DEF IInv, CellTypes
<1>7. ASSUME NEW b \in Blocks PROVE strong'[b] - strong[b] = Own(t, b)' - Own(t, b)
  <2>1. strong[b] \in Int /\ strong'[b] \in Int /\ kept[b] \in Int /\ Is(Null, b) = 0
    BY <1>5, Here DEF HeapOK, HeapTypes, Is
  <2>6. op[t].old = Null /\ op[t].new = Null
    BY <1>3, Here DEF OperationOK
  <2>2. /\ Held[<<t, "arg">>] = ptr[Arg(t)] /\ Held[<<t, "res">>] = ptr[Res(t)]
        /\ Held[<<t, "old">>] = Null /\ Held[<<t, "new">>] = Null
        /\ Held[<<t, "raw">>] = Null
    BY <1>3, <2>6, HandsOf
  <2>3. /\ Held'[<<t, "arg">>] = ptr[Arg(t)] /\ Held'[<<t, "res">>] = ptr[Res(t)]
        /\ Held'[<<t, "old">>] = Null /\ Held'[<<t, "new">>] = Null
        /\ Held'[<<t, "raw">>] = Null
    BY <1>2, <1>3, <1>4, HandsOf
  <2>5. /\ Own(t, b) = Is(ptr[Arg(t)], b) + Is(ptr[Res(t)], b) + Is(Null, b)
                       + Is(Null, b) + Is(Null, b) + kept[b] + Is(cell, b)
        /\ Own(t, b)' = Is(ptr[Arg(t)], b) + Is(ptr[Res(t)], b) + Is(Null, b)
                        + Is(Null, b) + Is(Null, b) + kept[b] + Is(cell, b)
    BY <1>3, <2>2, <2>3, OwnSum
  <2>7. /\ Is(ptr[Arg(t)], b) \in Int /\ Is(ptr[Res(t)], b) \in Int /\ Is(cell, b) \in Int
    BY DEF Is
  <2>8. strong'[b] = strong[b]
    BY <1>5
  <2> QED
    BY <2>1, <2>5, <2>7, <2>8
<1>8. StepOK(t)
  <2>1. OperationOK(t)'
    BY <1>2, <1>3, <1>4, Here DEF OperationOK, LoadRead, MayEnter
  <2>2. \A b \in Refers(t)' : b = Null \/ b \in Refers(t)
    BY <1>2, <1>3, <1>4 DEF Refers, Frame
  <2> QED
    BY <1>3, <1>4, <1>5, <1>6, <1>7, <2>1, <2>2 DEF StepOK
<1>9. TurnOK(t)
  BY <1>2, <1>3, <1>4, Here, Alone DEF TurnOK, Pinned, LoadRead, MayEnter
<1> QED
  BY <1>8, <1>9, StepKeeps

\* ... and counts what it read.
LEMMA LoadRetainKeeps ==
    ASSUME IInv, mode # "rcu", NEW t \in Threads, LoadRetain(t)
    PROVE  IInv'
<1>1. PICK r : r = Outside
  OBVIOUS
<1>2. /\ r \in Frames /\ r.at = "outside"
      /\ r.old = Null /\ r.new = Null /\ r.tmp = Null
  BY <1>1, Here DEF Frames, Places, Outside, MaybeBlock
<1>3. /\ op[t].at = "load" /\ op' = [op EXCEPT ![t] = r]
      /\ ptr' = [ptr EXCEPT ![Res(t)] = op[t].tmp]
      /\ cell' = cell /\ UNCHANGED <<kept, val, mode>>
  BY <1>1 DEF LoadRetain, At, Goto, heapVars
<1>4. /\ op'[t] = r /\ \A u \in Threads : u # t => op'[u] = op[u]
      /\ ptr'[Arg(t)] = ptr[Arg(t)] /\ ptr'[Res(t)] = op[t].tmp
      /\ \A s \in Slots : s[1] # t => ptr'[s] = ptr[s]
  BY <1>2, <1>3, Here, SlotsOf
<1>5. HeapOK' /\ \A b \in Blocks : strong'[b] = strong[b] + Is(op[t].tmp, b)
  <2>1. op[t].tmp \in Blocks => strong[op[t].tmp] > 0
    BY Alive DEF Frame
  <2>2. HeapOK'
    BY <2>1, Here, HeapRetains DEF LoadRetain, IInv, MaybeBlock
  <2> QED
    BY <2>2, Here DEF LoadRetain, Retain, Is
<1>6. CellTypes'
  BY <1>2, <1>3, Here, SlotsOf DEF IInv, CellTypes
<1>7. ASSUME NEW b \in Blocks PROVE strong'[b] - strong[b] = Own(t, b)' - Own(t, b)
  <2>1. strong[b] \in Int /\ strong'[b] \in Int /\ kept[b] \in Int /\ Is(Null, b) = 0
    BY <1>5, Here DEF HeapOK, HeapTypes, Is
  <2>6. op[t].old = Null /\ op[t].new = Null
    BY <1>3, Here DEF OperationOK
  <2>2. /\ Held[<<t, "arg">>] = ptr[Arg(t)] /\ Held[<<t, "res">>] = ptr[Res(t)]
        /\ Held[<<t, "old">>] = Null /\ Held[<<t, "new">>] = Null
        /\ Held[<<t, "raw">>] = Null
    BY <1>3, <2>6, HandsOf
  <2>3. /\ Held'[<<t, "arg">>] = ptr[Arg(t)] /\ Held'[<<t, "res">>] = op[t].tmp
        /\ Held'[<<t, "old">>] = Null /\ Held'[<<t, "new">>] = Null
        /\ Held'[<<t, "raw">>] = Null
    BY <1>2, <1>3, <1>4, HandsOf
  <2>5. /\ Own(t, b) = Is(ptr[Arg(t)], b) + Is(ptr[Res(t)], b) + Is(Null, b)
                       + Is(Null, b) + Is(Null, b) + kept[b] + Is(cell, b)
        /\ Own(t, b)' = Is(ptr[Arg(t)], b) + Is(op[t].tmp, b) + Is(Null, b)
                        + Is(Null, b) + Is(Null, b) + kept[b] + Is(cell, b)
    BY <1>3, <2>2, <2>3, OwnSum
  <2>4. Is(ptr[Res(t)], b) = 0
    BY <1>3, Here DEF OperationOK, Is
  <2>7. /\ Is(ptr[Arg(t)], b) \in Int /\ Is(ptr[Res(t)], b) \in Int /\ Is(op[t].tmp, b) \in Int
        /\ Is(cell, b) \in Int
    BY DEF Is
  <2>8. strong'[b] = strong[b] + Is(op[t].tmp, b)
    BY <1>5
  <2> QED
    BY <2>1, <2>5, <2>4, <2>7, <2>8
<1>8. StepOK(t)
  <2>1. OperationOK(t)'
    BY <1>2, <1>3, <1>4, Here DEF OperationOK, LoadRetain, MayEnter
  <2>2. \A b \in Refers(t)' : b = Null \/ b \in Refers(t)
    BY <1>2, <1>3, <1>4 DEF Refers, Frame
  <2> QED
    BY <1>3, <1>4, <1>5, <1>6, <1>7, <2>1, <2>2 DEF StepOK
<1>9. TurnOK(t)
  BY <1>2, <1>3, <1>4, Here, Alone DEF TurnOK, Pinned, LoadRetain, MayEnter
<1> QED
  BY <1>8, <1>9, StepKeeps

\* A swap publishes its argument ...
LEMMA SwapCopyKeeps ==
    ASSUME IInv, mode # "rcu", NEW t \in Threads, SwapCopy(t)
    PROVE  IInv'
<1>1. PICK r : r = [Outside EXCEPT !.at = "swap", !.tmp = cell]
  OBVIOUS
<1>2. /\ r \in Frames /\ r.at = "swap"
      /\ r.old = Null /\ r.new = Null /\ r.tmp = cell
  BY <1>1, Here DEF Frames, Places, Outside, MaybeBlock
<1>3. /\ op[t].at = "outside" /\ op' = [op EXCEPT ![t] = r]
      /\ ptr' = ptr
      /\ cell' = ptr[Arg(t)] /\ UNCHANGED <<kept, val, mode>>
  BY <1>1 DEF SwapCopy, At, MayEnter, Goto, heapVars
<1>4. /\ op'[t] = r /\ \A u \in Threads : u # t => op'[u] = op[u]
      /\ ptr'[Arg(t)] = ptr[Arg(t)] /\ ptr'[Res(t)] = ptr[Res(t)]
      /\ \A s \in Slots : s[1] # t => ptr'[s] = ptr[s]
  BY <1>2, <1>3, Here, SlotsOf
<1>5. HeapOK' /\ strong' = strong
  BY DEF SwapCopy, heapVars, IInv, HeapOK, HeapTypes, ReleaseOK, LifeOK, Enders
<1>6. CellTypes'
  BY <1>2, <1>3, Here, SlotsOf DEF IInv, CellTypes
<1>7. ASSUME NEW b \in Blocks PROVE strong'[b] - strong[b] = Own(t, b)' - Own(t, b)
  <2>1. strong[b] \in Int /\ strong'[b] \in Int /\ kept[b] \in Int /\ Is(Null, b) = 0
    BY <1>5, Here DEF HeapOK, HeapTypes, Is
  <2>6. op[t].old = Null /\ op[t].new = Null
    BY <1>3, Here DEF OperationOK
  <2>2. /\ Held[<<t, "arg">>] = ptr[Arg(t)] /\ Held[<<t, "res">>] = ptr[Res(t)]
        /\ Held[<<t, "old">>] = Null /\ Held[<<t, "new">>] = Null
        /\ Held[<<t, "raw">>] = Null
    BY <1>3, <2>6, HandsOf
  <2>3. /\ Held'[<<t, "arg">>] = Null /\ Held'[<<t, "res">>] = ptr[Res(t)]
        /\ Held'[<<t, "old">>] = Null /\ Held'[<<t, "new">>] = Null
        /\ Held'[<<t, "raw">>] = cell
    BY <1>2, <1>3, <1>4, HandsOf
  <2>5. /\ Own(t, b) = Is(ptr[Arg(t)], b) + Is(ptr[Res(t)], b) + Is(Null, b)
                       + Is(Null, b) + Is(Null, b) + kept[b] + Is(cell, b)
        /\ Own(t, b)' = Is(Null, b) + Is(ptr[Res(t)], b) + Is(Null, b)
                        + Is(Null, b) + Is(cell, b) + kept[b] + Is(ptr[Arg(t)], b)
    BY <1>3, <2>2, <2>3, OwnSum
  <2>7. /\ Is(ptr[Arg(t)], b) \in Int /\ Is(ptr[Res(t)], b) \in Int /\ Is(cell, b) \in Int
    BY DEF Is
  <2>8. strong'[b] = strong[b]
    BY <1>5
  <2> QED
    BY <2>1, <2>5, <2>7, <2>8
<1>8. StepOK(t)
  <2>1. OperationOK(t)'
    BY <1>2, <1>3, <1>4, Here DEF OperationOK, SwapCopy, MayEnter
  <2>2. \A b \in Refers(t)' : b = Null \/ b \in Refers(t)
    BY <1>2, <1>3, <1>4 DEF Refers, Frame
  <2> QED
    BY <1>3, <1>4, <1>5, <1>6, <1>7, <2>1, <2>2 DEF StepOK
<1>9. TurnOK(t)
  BY <1>2, <1>3, <1>4, Here, Alone DEF TurnOK, Pinned, SwapCopy, MayEnter
<1> QED
  BY <1>8, <1>9, StepKeeps

\* ... and counts it.
LEMMA SwapRetainKeeps ==
    ASSUME IInv, mode # "rcu", NEW t \in Threads, SwapRetain(t)
    PROVE  IInv'
<1>1. PICK r : r = Outside
  OBVIOUS
<1>2. /\ r \in Frames /\ r.at = "outside"
      /\ r.old = Null /\ r.new = Null /\ r.tmp = Null
  BY <1>1, Here DEF Frames, Places, Outside, MaybeBlock
<1>3. /\ op[t].at = "swap" /\ op' = [op EXCEPT ![t] = r]
      /\ ptr' = [ptr EXCEPT ![Res(t)] = op[t].tmp]
      /\ cell' = cell /\ UNCHANGED <<kept, val, mode>>
  BY <1>1 DEF SwapRetain, At, Goto, heapVars
<1>4. /\ op'[t] = r /\ \A u \in Threads : u # t => op'[u] = op[u]
      /\ ptr'[Arg(t)] = ptr[Arg(t)] /\ ptr'[Res(t)] = op[t].tmp
      /\ \A s \in Slots : s[1] # t => ptr'[s] = ptr[s]
  BY <1>2, <1>3, Here, SlotsOf
<1>5. HeapOK' /\ \A b \in Blocks : strong'[b] = strong[b] + Is(ptr[Arg(t)], b)
  <2>1. ptr[Arg(t)] \in Blocks => strong[ptr[Arg(t)]] > 0
    BY Alive DEF Frame
  <2>2. HeapOK'
    BY <2>1, Here, HeapRetains DEF SwapRetain, IInv, MaybeBlock
  <2> QED
    BY <2>2, Here DEF SwapRetain, Retain, Is
<1>6. CellTypes'
  BY <1>2, <1>3, Here, SlotsOf DEF IInv, CellTypes
<1>7. ASSUME NEW b \in Blocks PROVE strong'[b] - strong[b] = Own(t, b)' - Own(t, b)
  <2>1. strong[b] \in Int /\ strong'[b] \in Int /\ kept[b] \in Int /\ Is(Null, b) = 0
    BY <1>5, Here DEF HeapOK, HeapTypes, Is
  <2>6. op[t].old = Null /\ op[t].new = Null
    BY <1>3, Here DEF OperationOK
  <2>2. /\ Held[<<t, "arg">>] = Null /\ Held[<<t, "res">>] = ptr[Res(t)]
        /\ Held[<<t, "old">>] = Null /\ Held[<<t, "new">>] = Null
        /\ Held[<<t, "raw">>] = op[t].tmp
    BY <1>3, <2>6, HandsOf
  <2>3. /\ Held'[<<t, "arg">>] = ptr[Arg(t)] /\ Held'[<<t, "res">>] = op[t].tmp
        /\ Held'[<<t, "old">>] = Null /\ Held'[<<t, "new">>] = Null
        /\ Held'[<<t, "raw">>] = Null
    BY <1>2, <1>3, <1>4, HandsOf
  <2>5. /\ Own(t, b) = Is(Null, b) + Is(ptr[Res(t)], b) + Is(Null, b)
                       + Is(Null, b) + Is(op[t].tmp, b) + kept[b] + Is(cell, b)
        /\ Own(t, b)' = Is(ptr[Arg(t)], b) + Is(op[t].tmp, b) + Is(Null, b)
                        + Is(Null, b) + Is(Null, b) + kept[b] + Is(cell, b)
    BY <1>3, <2>2, <2>3, OwnSum
  <2>4. Is(ptr[Res(t)], b) = 0
    BY <1>3, Here DEF OperationOK, Is
  <2>7. /\ Is(ptr[Res(t)], b) \in Int /\ Is(op[t].tmp, b) \in Int /\ Is(ptr[Arg(t)], b) \in Int
        /\ Is(cell, b) \in Int
    BY DEF Is
  <2>8. strong'[b] = strong[b] + Is(ptr[Arg(t)], b)
    BY <1>5
  <2> QED
    BY <2>1, <2>5, <2>4, <2>7, <2>8
<1>8. StepOK(t)
  <2>1. OperationOK(t)'
    BY <1>2, <1>3, <1>4, Here DEF OperationOK, SwapRetain, MayEnter
  <2>2. \A b \in Refers(t)' : b = Null \/ b \in Refers(t)
    BY <1>2, <1>3, <1>4 DEF Refers, Frame
  <2> QED
    BY <1>3, <1>4, <1>5, <1>6, <1>7, <2>1, <2>2 DEF StepOK
<1>9. TurnOK(t)
  BY <1>2, <1>3, <1>4, Here, Alone DEF TurnOK, Pinned, SwapRetain, MayEnter
<1> QED
  BY <1>8, <1>9, StepKeeps

\* rcu reads the cell as load does ...
LEMMA RcuReadKeeps ==
    ASSUME IInv, mode # "rcu", NEW t \in Threads, RcuRead(t)
    PROVE  IInv'
<1>1. PICK r : r = [Outside EXCEPT !.at = "acquire", !.tmp = cell]
  OBVIOUS
<1>2. /\ r \in Frames /\ r.at = "acquire"
      /\ r.old = Null /\ r.new = Null /\ r.tmp = cell
  BY <1>1, Here DEF Frames, Places, Outside, MaybeBlock
<1>3. /\ op[t].at = "outside" /\ op' = [op EXCEPT ![t] = r]
      /\ ptr' = ptr
      /\ cell' = cell /\ UNCHANGED <<kept, val, mode>>
  BY <1>1 DEF RcuRead, At, MayEnter, Goto, heapVars
<1>4. /\ op'[t] = r /\ \A u \in Threads : u # t => op'[u] = op[u]
      /\ ptr'[Arg(t)] = ptr[Arg(t)] /\ ptr'[Res(t)] = ptr[Res(t)]
      /\ \A s \in Slots : s[1] # t => ptr'[s] = ptr[s]
  BY <1>2, <1>3, Here, SlotsOf
<1>5. HeapOK' /\ strong' = strong
  BY DEF RcuRead, heapVars, IInv, HeapOK, HeapTypes, ReleaseOK, LifeOK, Enders
<1>6. CellTypes'
  BY <1>2, <1>3, Here, SlotsOf DEF IInv, CellTypes
<1>7. ASSUME NEW b \in Blocks PROVE strong'[b] - strong[b] = Own(t, b)' - Own(t, b)
  <2>1. strong[b] \in Int /\ strong'[b] \in Int /\ kept[b] \in Int /\ Is(Null, b) = 0
    BY <1>5, Here DEF HeapOK, HeapTypes, Is
  <2>6. op[t].old = Null /\ op[t].new = Null
    BY <1>3, Here DEF OperationOK
  <2>2. /\ Held[<<t, "arg">>] = ptr[Arg(t)] /\ Held[<<t, "res">>] = ptr[Res(t)]
        /\ Held[<<t, "old">>] = Null /\ Held[<<t, "new">>] = Null
        /\ Held[<<t, "raw">>] = Null
    BY <1>3, <2>6, HandsOf
  <2>3. /\ Held'[<<t, "arg">>] = ptr[Arg(t)] /\ Held'[<<t, "res">>] = ptr[Res(t)]
        /\ Held'[<<t, "old">>] = Null /\ Held'[<<t, "new">>] = Null
        /\ Held'[<<t, "raw">>] = Null
    BY <1>2, <1>3, <1>4, HandsOf
  <2>5. /\ Own(t, b) = Is(ptr[Arg(t)], b) + Is(ptr[Res(t)], b) + Is(Null, b)
                       + Is(Null, b) + Is(Null, b) + kept[b] + Is(cell, b)
        /\ Own(t, b)' = Is(ptr[Arg(t)], b) + Is(ptr[Res(t)], b) + Is(Null, b)
                        + Is(Null, b) + Is(Null, b) + kept[b] + Is(cell, b)
    BY <1>3, <2>2, <2>3, OwnSum
  <2>7. /\ Is(ptr[Arg(t)], b) \in Int /\ Is(ptr[Res(t)], b) \in Int /\ Is(cell, b) \in Int
    BY DEF Is
  <2>8. strong'[b] = strong[b]
    BY <1>5
  <2> QED
    BY <2>1, <2>5, <2>7, <2>8
<1>8. StepOK(t)
  <2>1. OperationOK(t)'
    BY <1>2, <1>3, <1>4, Here DEF OperationOK, RcuRead, MayEnter
  <2>2. \A b \in Refers(t)' : b = Null \/ b \in Refers(t)
    BY <1>2, <1>3, <1>4 DEF Refers, Frame
  <2> QED
    BY <1>3, <1>4, <1>5, <1>6, <1>7, <2>1, <2>2 DEF StepOK
<1>9. TurnOK(t)
  BY <1>2, <1>3, <1>4, Here, Alone DEF TurnOK, Pinned, RcuRead, MayEnter
<1> QED
  BY <1>8, <1>9, StepKeeps

\* ... counts what it read, also in a later round, ...
LEMMA RcuAcquireKeeps ==
    ASSUME IInv, mode # "rcu", NEW t \in Threads, RcuAcquire(t)
    PROVE  IInv'
<1>1. PICK r : r = [op[t] EXCEPT !.at = "dropOld"]
  OBVIOUS
<1>2. /\ r \in Frames /\ r.at = "dropOld"
      /\ r.old = op[t].old /\ r.new = op[t].new /\ r.tmp = op[t].tmp
  BY <1>1, Here DEF Frames, Places, Outside, MaybeBlock
<1>3. /\ op[t].at = "acquire" /\ op' = [op EXCEPT ![t] = r]
      /\ ptr' = ptr
      /\ cell' = cell /\ UNCHANGED <<kept, val, mode>>
  BY <1>1 DEF RcuAcquire, At, Goto, heapVars
<1>4. /\ op'[t] = r /\ \A u \in Threads : u # t => op'[u] = op[u]
      /\ ptr'[Arg(t)] = ptr[Arg(t)] /\ ptr'[Res(t)] = ptr[Res(t)]
      /\ \A s \in Slots : s[1] # t => ptr'[s] = ptr[s]
  BY <1>2, <1>3, Here, SlotsOf
<1>5. HeapOK' /\ \A b \in Blocks : strong'[b] = strong[b] + Is(op[t].tmp, b)
  <2>1. op[t].tmp \in Blocks => strong[op[t].tmp] > 0
    BY Alive DEF Frame
  <2>2. HeapOK'
    BY <2>1, Here, HeapRetains DEF RcuAcquire, IInv, MaybeBlock
  <2> QED
    BY <2>2, Here DEF RcuAcquire, Retain, Is
<1>6. CellTypes'
  BY <1>2, <1>3, Here, SlotsOf DEF IInv, CellTypes
<1>7. ASSUME NEW b \in Blocks PROVE strong'[b] - strong[b] = Own(t, b)' - Own(t, b)
  <2>1. strong[b] \in Int /\ strong'[b] \in Int /\ kept[b] \in Int /\ Is(Null, b) = 0
    BY <1>5, Here DEF HeapOK, HeapTypes, Is
  <2>2. /\ Held[<<t, "arg">>] = ptr[Arg(t)] /\ Held[<<t, "res">>] = ptr[Res(t)]
        /\ Held[<<t, "old">>] = op[t].old /\ Held[<<t, "new">>] = op[t].new
        /\ Held[<<t, "raw">>] = Null
    BY <1>3, HandsOf
  <2>3. /\ Held'[<<t, "arg">>] = ptr[Arg(t)] /\ Held'[<<t, "res">>] = ptr[Res(t)]
        /\ Held'[<<t, "old">>] = op[t].old /\ Held'[<<t, "new">>] = op[t].new
        /\ Held'[<<t, "raw">>] = op[t].tmp
    BY <1>2, <1>3, <1>4, HandsOf
  <2>5. /\ Own(t, b) = Is(ptr[Arg(t)], b) + Is(ptr[Res(t)], b) + Is(op[t].old, b)
                       + Is(op[t].new, b) + Is(Null, b) + kept[b] + Is(cell, b)
        /\ Own(t, b)' = Is(ptr[Arg(t)], b) + Is(ptr[Res(t)], b) + Is(op[t].old, b)
                        + Is(op[t].new, b) + Is(op[t].tmp, b) + kept[b] + Is(cell, b)
    BY <1>3, <2>2, <2>3, OwnSum
  <2>7. /\ Is(ptr[Arg(t)], b) \in Int /\ Is(ptr[Res(t)], b) \in Int /\ Is(op[t].old, b) \in Int
        /\ Is(op[t].new, b) \in Int /\ Is(op[t].tmp, b) \in Int /\ Is(cell, b) \in Int
    BY DEF Is
  <2>8. strong'[b] = strong[b] + Is(op[t].tmp, b)
    BY <1>5
  <2> QED
    BY <2>1, <2>5, <2>7, <2>8
<1>8. StepOK(t)
  <2>1. OperationOK(t)'
    BY <1>2, <1>3, <1>4, Here DEF OperationOK, RcuAcquire, MayEnter
  <2>2. \A b \in Refers(t)' : b = Null \/ b \in Refers(t)
    BY <1>2, <1>3, <1>4 DEF Refers, Frame
  <2> QED
    BY <1>3, <1>4, <1>5, <1>6, <1>7, <2>1, <2>2 DEF StepOK
<1>9. TurnOK(t)
  BY <1>2, <1>3, <1>4, Here, Alone DEF TurnOK, Pinned, RcuAcquire, MayEnter
<1> QED
  BY <1>8, <1>9, StepKeeps

\* ... releases what an earlier round loaded ...
LEMMA RcuAssignKeeps ==
    ASSUME IInv, mode # "rcu", NEW t \in Threads, RcuAssign(t)
    PROVE  IInv'
<1>1. PICK r : r = [op[t] EXCEPT !.at = "dropNew", !.old = op[t].tmp, !.tmp = Null]
  OBVIOUS
<1>2. /\ r \in Frames /\ r.at = "dropNew"
      /\ r.old = op[t].tmp /\ r.new = op[t].new /\ r.tmp = Null
  BY <1>1, Here DEF Frames, Places, Outside, MaybeBlock
<1>3. /\ op[t].at = "dropOld" /\ op' = [op EXCEPT ![t] = r]
      /\ ptr' = ptr
      /\ cell' = cell /\ UNCHANGED <<kept, val, mode>>
  BY <1>1 DEF RcuAssign, At, Goto, heapVars
<1>4. /\ op'[t] = r /\ \A u \in Threads : u # t => op'[u] = op[u]
      /\ ptr'[Arg(t)] = ptr[Arg(t)] /\ ptr'[Res(t)] = ptr[Res(t)]
      /\ \A s \in Slots : s[1] # t => ptr'[s] = ptr[s]
  BY <1>2, <1>3, Here, SlotsOf
<1>5. HeapOK' /\ \A b \in Blocks : strong'[b] = strong[b] - Is(op[t].old, b)
  <2>1. op[t].old \in Blocks => strong[op[t].old] > 0
    BY Alive DEF Frame
  <2>2. /\ HeapOK'
        /\ \A b \in Blocks : strong'[b] = IF b = op[t].old THEN strong[b] - 1 ELSE strong[b]
    BY <2>1, Here, HeapReleases DEF RcuAssign, At, IInv, MaybeBlock
  <2> QED
    BY <2>2, Here DEF Is
<1>6. CellTypes'
  BY <1>2, <1>3, Here, SlotsOf DEF IInv, CellTypes
<1>7. ASSUME NEW b \in Blocks PROVE strong'[b] - strong[b] = Own(t, b)' - Own(t, b)
  <2>1. strong[b] \in Int /\ strong'[b] \in Int /\ kept[b] \in Int /\ Is(Null, b) = 0
    BY <1>5, Here DEF HeapOK, HeapTypes, Is
  <2>2. /\ Held[<<t, "arg">>] = ptr[Arg(t)] /\ Held[<<t, "res">>] = ptr[Res(t)]
        /\ Held[<<t, "old">>] = op[t].old /\ Held[<<t, "new">>] = op[t].new
        /\ Held[<<t, "raw">>] = op[t].tmp
    BY <1>3, HandsOf
  <2>3. /\ Held'[<<t, "arg">>] = ptr[Arg(t)] /\ Held'[<<t, "res">>] = ptr[Res(t)]
        /\ Held'[<<t, "old">>] = op[t].tmp /\ Held'[<<t, "new">>] = op[t].new
        /\ Held'[<<t, "raw">>] = Null
    BY <1>2, <1>3, <1>4, HandsOf
  <2>5. /\ Own(t, b) = Is(ptr[Arg(t)], b) + Is(ptr[Res(t)], b) + Is(op[t].old, b)
                       + Is(op[t].new, b) + Is(op[t].tmp, b) + kept[b] + Is(cell, b)
        /\ Own(t, b)' = Is(ptr[Arg(t)], b) + Is(ptr[Res(t)], b) + Is(op[t].tmp, b)
                        + Is(op[t].new, b) + Is(Null, b) + kept[b] + Is(cell, b)
    BY <1>3, <2>2, <2>3, OwnSum
  <2>7. /\ Is(ptr[Arg(t)], b) \in Int /\ Is(ptr[Res(t)], b) \in Int /\ Is(op[t].old, b) \in Int
        /\ Is(op[t].new, b) \in Int /\ Is(op[t].tmp, b) \in Int /\ Is(cell, b) \in Int
    BY DEF Is
  <2>8. strong'[b] = strong[b] - Is(op[t].old, b)
    BY <1>5
  <2> QED
    BY <2>1, <2>5, <2>7, <2>8
<1>8. StepOK(t)
  <2>1. OperationOK(t)'
    BY <1>2, <1>3, <1>4, Here DEF OperationOK, RcuAssign, MayEnter
  <2>2. \A b \in Refers(t)' : b = Null \/ b \in Refers(t)
    BY <1>2, <1>3, <1>4 DEF Refers, Frame
  <2> QED
    BY <1>3, <1>4, <1>5, <1>6, <1>7, <2>1, <2>2 DEF StepOK
<1>9. TurnOK(t)
  BY <1>2, <1>3, <1>4, Here, Alone DEF TurnOK, Pinned, RcuAssign, MayEnter
<1> QED
  BY <1>8, <1>9, StepKeeps

\* ... and what it made, ...
LEMMA RcuDropNewKeeps ==
    ASSUME IInv, mode # "rcu", NEW t \in Threads, RcuDropNew(t)
    PROVE  IInv'
<1>1. PICK r : r = [op[t] EXCEPT !.at = "apply", !.new = Null]
  OBVIOUS
<1>2. /\ r \in Frames /\ r.at = "apply"
      /\ r.old = op[t].old /\ r.new = Null /\ r.tmp = op[t].tmp
  BY <1>1, Here DEF Frames, Places, Outside, MaybeBlock
<1>3. /\ op[t].at = "dropNew" /\ op' = [op EXCEPT ![t] = r]
      /\ ptr' = ptr
      /\ cell' = cell /\ UNCHANGED <<kept, val, mode>>
  BY <1>1 DEF RcuDropNew, At, Goto, heapVars
<1>4. /\ op'[t] = r /\ \A u \in Threads : u # t => op'[u] = op[u]
      /\ ptr'[Arg(t)] = ptr[Arg(t)] /\ ptr'[Res(t)] = ptr[Res(t)]
      /\ \A s \in Slots : s[1] # t => ptr'[s] = ptr[s]
  BY <1>2, <1>3, Here, SlotsOf
<1>5. HeapOK' /\ \A b \in Blocks : strong'[b] = strong[b] - Is(op[t].new, b)
  <2>1. op[t].new \in Blocks => strong[op[t].new] > 0
    BY Alive DEF Frame
  <2>2. /\ HeapOK'
        /\ \A b \in Blocks : strong'[b] = IF b = op[t].new THEN strong[b] - 1 ELSE strong[b]
    BY <2>1, Here, HeapReleases DEF RcuDropNew, At, IInv, MaybeBlock
  <2> QED
    BY <2>2, Here DEF Is
<1>6. CellTypes'
  BY <1>2, <1>3, Here, SlotsOf DEF IInv, CellTypes
<1>7. ASSUME NEW b \in Blocks PROVE strong'[b] - strong[b] = Own(t, b)' - Own(t, b)
  <2>1. strong[b] \in Int /\ strong'[b] \in Int /\ kept[b] \in Int /\ Is(Null, b) = 0
    BY <1>5, Here DEF HeapOK, HeapTypes, Is
  <2>2. /\ Held[<<t, "arg">>] = ptr[Arg(t)] /\ Held[<<t, "res">>] = ptr[Res(t)]
        /\ Held[<<t, "old">>] = op[t].old /\ Held[<<t, "new">>] = op[t].new
        /\ Held[<<t, "raw">>] = Null
    BY <1>3, HandsOf
  <2>3. /\ Held'[<<t, "arg">>] = ptr[Arg(t)] /\ Held'[<<t, "res">>] = ptr[Res(t)]
        /\ Held'[<<t, "old">>] = op[t].old /\ Held'[<<t, "new">>] = Null
        /\ Held'[<<t, "raw">>] = Null
    BY <1>2, <1>3, <1>4, HandsOf
  <2>5. /\ Own(t, b) = Is(ptr[Arg(t)], b) + Is(ptr[Res(t)], b) + Is(op[t].old, b)
                       + Is(op[t].new, b) + Is(Null, b) + kept[b] + Is(cell, b)
        /\ Own(t, b)' = Is(ptr[Arg(t)], b) + Is(ptr[Res(t)], b) + Is(op[t].old, b)
                        + Is(Null, b) + Is(Null, b) + kept[b] + Is(cell, b)
    BY <1>3, <2>2, <2>3, OwnSum
  <2>7. /\ Is(ptr[Arg(t)], b) \in Int /\ Is(ptr[Res(t)], b) \in Int /\ Is(op[t].old, b) \in Int
        /\ Is(op[t].new, b) \in Int /\ Is(cell, b) \in Int
    BY DEF Is
  <2>8. strong'[b] = strong[b] - Is(op[t].new, b)
    BY <1>5
  <2> QED
    BY <2>1, <2>5, <2>7, <2>8
<1>8. StepOK(t)
  <2>1. OperationOK(t)'
    BY <1>2, <1>3, <1>4, Here DEF OperationOK, RcuDropNew, MayEnter
  <2>2. \A b \in Refers(t)' : b = Null \/ b \in Refers(t)
    BY <1>2, <1>3, <1>4 DEF Refers, Frame
  <2> QED
    BY <1>3, <1>4, <1>5, <1>6, <1>7, <2>1, <2>2 DEF StepOK
<1>9. TurnOK(t)
  BY <1>2, <1>3, <1>4, Here, Alone DEF TurnOK, Pinned, RcuDropNew, MayEnter
<1> QED
  BY <1>8, <1>9, StepKeeps

\* ... publishes the new block, ...
LEMMA RcuSucceedsKeeps ==
    ASSUME IInv, mode # "rcu", NEW t \in Threads, RcuSucceeds(t)
    PROVE  IInv'
<1>1. PICK r : r = [op[t] EXCEPT !.at = "retain"]
  OBVIOUS
<1>2. /\ r \in Frames /\ r.at = "retain"
      /\ r.old = op[t].old /\ r.new = op[t].new /\ r.tmp = op[t].tmp
  BY <1>1, Here DEF Frames, Places, Outside, MaybeBlock
<1>3. /\ op[t].at = "exchange" /\ op' = [op EXCEPT ![t] = r]
      /\ ptr' = ptr
      /\ cell' = op[t].new /\ UNCHANGED <<kept, val, mode>>
  BY <1>1 DEF RcuSucceeds, At, Goto, heapVars
<1>4. /\ op'[t] = r /\ \A u \in Threads : u # t => op'[u] = op[u]
      /\ ptr'[Arg(t)] = ptr[Arg(t)] /\ ptr'[Res(t)] = ptr[Res(t)]
      /\ \A s \in Slots : s[1] # t => ptr'[s] = ptr[s]
  BY <1>2, <1>3, Here, SlotsOf
<1>5. HeapOK' /\ strong' = strong
  BY DEF RcuSucceeds, heapVars, IInv, HeapOK, HeapTypes, ReleaseOK, LifeOK, Enders
<1>6. CellTypes'
  BY <1>2, <1>3, Here, SlotsOf DEF IInv, CellTypes
<1>7. ASSUME NEW b \in Blocks PROVE strong'[b] - strong[b] = Own(t, b)' - Own(t, b)
  <2>1. strong[b] \in Int /\ strong'[b] \in Int /\ kept[b] \in Int /\ Is(Null, b) = 0
    BY <1>5, Here DEF HeapOK, HeapTypes, Is
  <2>2. /\ Held[<<t, "arg">>] = ptr[Arg(t)] /\ Held[<<t, "res">>] = ptr[Res(t)]
        /\ Held[<<t, "old">>] = op[t].old /\ Held[<<t, "new">>] = op[t].new
        /\ Held[<<t, "raw">>] = Null
    BY <1>3, HandsOf
  <2>3. /\ Held'[<<t, "arg">>] = ptr[Arg(t)] /\ Held'[<<t, "res">>] = ptr[Res(t)]
        /\ Held'[<<t, "old">>] = op[t].old /\ Held'[<<t, "new">>] = Null
        /\ Held'[<<t, "raw">>] = op[t].old
    BY <1>2, <1>3, <1>4, HandsOf
  <2>5. /\ Own(t, b) = Is(ptr[Arg(t)], b) + Is(ptr[Res(t)], b) + Is(op[t].old, b)
                       + Is(op[t].new, b) + Is(Null, b) + kept[b] + Is(cell, b)
        /\ Own(t, b)' = Is(ptr[Arg(t)], b) + Is(ptr[Res(t)], b) + Is(op[t].old, b)
                        + Is(Null, b) + Is(op[t].old, b) + kept[b] + Is(op[t].new, b)
    BY <1>3, <2>2, <2>3, OwnSum
  <2>4. cell = op[t].old
    BY DEF RcuSucceeds
  <2>7. /\ Is(ptr[Arg(t)], b) \in Int /\ Is(ptr[Res(t)], b) \in Int /\ Is(op[t].old, b) \in Int
        /\ Is(op[t].new, b) \in Int /\ Is(cell, b) \in Int
    BY DEF Is
  <2>8. strong'[b] = strong[b]
    BY <1>5
  <2> QED
    BY <2>1, <2>5, <2>4, <2>7, <2>8
<1>8. StepOK(t)
  <2>1. OperationOK(t)'
    BY <1>2, <1>3, <1>4, Here DEF OperationOK, RcuSucceeds, MayEnter
  <2>2. \A b \in Refers(t)' : b = Null \/ b \in Refers(t)
    BY <1>2, <1>3, <1>4 DEF Refers, Frame
  <2> QED
    BY <1>3, <1>4, <1>5, <1>6, <1>7, <2>1, <2>2 DEF StepOK
<1>9. TurnOK(t)
  BY <1>2, <1>3, <1>4, Here, Alone DEF TurnOK, Pinned, RcuSucceeds, MayEnter
<1> QED
  BY <1>8, <1>9, StepKeeps

\* ... or goes on with what the cell holds now.
LEMMA RcuFailsKeeps ==
    ASSUME IInv, mode # "rcu", NEW t \in Threads, RcuFails(t)
    PROVE  IInv'
<1>1. PICK r : r = [op[t] EXCEPT !.at = "acquire", !.tmp = cell]
  OBVIOUS
<1>2. /\ r \in Frames /\ r.at = "acquire"
      /\ r.old = op[t].old /\ r.new = op[t].new /\ r.tmp = cell
  BY <1>1, Here DEF Frames, Places, Outside, MaybeBlock
<1>3. /\ op[t].at = "exchange" /\ op' = [op EXCEPT ![t] = r]
      /\ ptr' = ptr
      /\ cell' = cell /\ UNCHANGED <<kept, val, mode>>
  BY <1>1 DEF RcuFails, At, Goto, heapVars
<1>4. /\ op'[t] = r /\ \A u \in Threads : u # t => op'[u] = op[u]
      /\ ptr'[Arg(t)] = ptr[Arg(t)] /\ ptr'[Res(t)] = ptr[Res(t)]
      /\ \A s \in Slots : s[1] # t => ptr'[s] = ptr[s]
  BY <1>2, <1>3, Here, SlotsOf
<1>5. HeapOK' /\ strong' = strong
  BY DEF RcuFails, heapVars, IInv, HeapOK, HeapTypes, ReleaseOK, LifeOK, Enders
<1>6. CellTypes'
  BY <1>2, <1>3, Here, SlotsOf DEF IInv, CellTypes
<1>7. ASSUME NEW b \in Blocks PROVE strong'[b] - strong[b] = Own(t, b)' - Own(t, b)
  <2>1. strong[b] \in Int /\ strong'[b] \in Int /\ kept[b] \in Int /\ Is(Null, b) = 0
    BY <1>5, Here DEF HeapOK, HeapTypes, Is
  <2>2. /\ Held[<<t, "arg">>] = ptr[Arg(t)] /\ Held[<<t, "res">>] = ptr[Res(t)]
        /\ Held[<<t, "old">>] = op[t].old /\ Held[<<t, "new">>] = op[t].new
        /\ Held[<<t, "raw">>] = Null
    BY <1>3, HandsOf
  <2>3. /\ Held'[<<t, "arg">>] = ptr[Arg(t)] /\ Held'[<<t, "res">>] = ptr[Res(t)]
        /\ Held'[<<t, "old">>] = op[t].old /\ Held'[<<t, "new">>] = op[t].new
        /\ Held'[<<t, "raw">>] = Null
    BY <1>2, <1>3, <1>4, HandsOf
  <2>5. /\ Own(t, b) = Is(ptr[Arg(t)], b) + Is(ptr[Res(t)], b) + Is(op[t].old, b)
                       + Is(op[t].new, b) + Is(Null, b) + kept[b] + Is(cell, b)
        /\ Own(t, b)' = Is(ptr[Arg(t)], b) + Is(ptr[Res(t)], b) + Is(op[t].old, b)
                        + Is(op[t].new, b) + Is(Null, b) + kept[b] + Is(cell, b)
    BY <1>3, <2>2, <2>3, OwnSum
  <2>7. /\ Is(ptr[Arg(t)], b) \in Int /\ Is(ptr[Res(t)], b) \in Int /\ Is(op[t].old, b) \in Int
        /\ Is(op[t].new, b) \in Int /\ Is(cell, b) \in Int
    BY DEF Is
  <2>8. strong'[b] = strong[b]
    BY <1>5
  <2> QED
    BY <2>1, <2>5, <2>7, <2>8
<1>8. StepOK(t)
  <2>1. OperationOK(t)'
    BY <1>2, <1>3, <1>4, Here DEF OperationOK, RcuFails, MayEnter
  <2>2. \A b \in Refers(t)' : b = Null \/ b \in Refers(t)
    BY <1>2, <1>3, <1>4 DEF Refers, Frame
  <2> QED
    BY <1>3, <1>4, <1>5, <1>6, <1>7, <2>1, <2>2 DEF StepOK
<1>9. TurnOK(t)
  BY <1>2, <1>3, <1>4, Here, Alone DEF TurnOK, Pinned, RcuFails, MayEnter
<1> QED
  BY <1>8, <1>9, StepKeeps

\* After a success, the cell's reference to the new block is counted, ...
LEMMA RcuRetainKeeps ==
    ASSUME IInv, mode # "rcu", NEW t \in Threads, RcuRetain(t)
    PROVE  IInv'
<1>1. PICK r : r = [op[t] EXCEPT !.at = "dropCell"]
  OBVIOUS
<1>2. /\ r \in Frames /\ r.at = "dropCell"
      /\ r.old = op[t].old /\ r.new = op[t].new /\ r.tmp = op[t].tmp
  BY <1>1, Here DEF Frames, Places, Outside, MaybeBlock
<1>3. /\ op[t].at = "retain" /\ op' = [op EXCEPT ![t] = r]
      /\ ptr' = ptr
      /\ cell' = cell /\ UNCHANGED <<kept, val, mode>>
  BY <1>1 DEF RcuRetain, At, Goto, heapVars
<1>4. /\ op'[t] = r /\ \A u \in Threads : u # t => op'[u] = op[u]
      /\ ptr'[Arg(t)] = ptr[Arg(t)] /\ ptr'[Res(t)] = ptr[Res(t)]
      /\ \A s \in Slots : s[1] # t => ptr'[s] = ptr[s]
  BY <1>2, <1>3, Here, SlotsOf
<1>5. HeapOK' /\ \A b \in Blocks : strong'[b] = strong[b] + Is(op[t].new, b)
  <2>1. op[t].new \in Blocks => strong[op[t].new] > 0
    BY Alive DEF Frame
  <2>2. HeapOK'
    BY <2>1, Here, HeapRetains DEF RcuRetain, IInv, MaybeBlock
  <2> QED
    BY <2>2, Here DEF RcuRetain, Retain, Is
<1>6. CellTypes'
  BY <1>2, <1>3, Here, SlotsOf DEF IInv, CellTypes
<1>7. ASSUME NEW b \in Blocks PROVE strong'[b] - strong[b] = Own(t, b)' - Own(t, b)
  <2>1. strong[b] \in Int /\ strong'[b] \in Int /\ kept[b] \in Int /\ Is(Null, b) = 0
    BY <1>5, Here DEF HeapOK, HeapTypes, Is
  <2>2. /\ Held[<<t, "arg">>] = ptr[Arg(t)] /\ Held[<<t, "res">>] = ptr[Res(t)]
        /\ Held[<<t, "old">>] = op[t].old /\ Held[<<t, "new">>] = Null
        /\ Held[<<t, "raw">>] = op[t].old
    BY <1>3, HandsOf
  <2>3. /\ Held'[<<t, "arg">>] = ptr[Arg(t)] /\ Held'[<<t, "res">>] = ptr[Res(t)]
        /\ Held'[<<t, "old">>] = op[t].old /\ Held'[<<t, "new">>] = op[t].new
        /\ Held'[<<t, "raw">>] = op[t].old
    BY <1>2, <1>3, <1>4, HandsOf
  <2>5. /\ Own(t, b) = Is(ptr[Arg(t)], b) + Is(ptr[Res(t)], b) + Is(op[t].old, b)
                       + Is(Null, b) + Is(op[t].old, b) + kept[b] + Is(cell, b)
        /\ Own(t, b)' = Is(ptr[Arg(t)], b) + Is(ptr[Res(t)], b) + Is(op[t].old, b)
                        + Is(op[t].new, b) + Is(op[t].old, b) + kept[b] + Is(cell, b)
    BY <1>3, <2>2, <2>3, OwnSum
  <2>7. /\ Is(ptr[Arg(t)], b) \in Int /\ Is(ptr[Res(t)], b) \in Int /\ Is(op[t].old, b) \in Int
        /\ Is(op[t].new, b) \in Int /\ Is(cell, b) \in Int
    BY DEF Is
  <2>8. strong'[b] = strong[b] + Is(op[t].new, b)
    BY <1>5
  <2> QED
    BY <2>1, <2>5, <2>7, <2>8
<1>8. StepOK(t)
  <2>1. OperationOK(t)'
    BY <1>2, <1>3, <1>4, Here DEF OperationOK, RcuRetain, MayEnter
  <2>2. \A b \in Refers(t)' : b = Null \/ b \in Refers(t)
    BY <1>2, <1>3, <1>4 DEF Refers, Frame
  <2> QED
    BY <1>3, <1>4, <1>5, <1>6, <1>7, <2>1, <2>2 DEF StepOK
<1>9. TurnOK(t)
  BY <1>2, <1>3, <1>4, Here, Alone DEF TurnOK, Pinned, RcuRetain, MayEnter
<1> QED
  BY <1>8, <1>9, StepKeeps

\* ... the one to the old block is released, ...
LEMMA RcuDropCellKeeps ==
    ASSUME IInv, mode # "rcu", NEW t \in Threads, RcuDropCell(t)
    PROVE  IInv'
<1>1. PICK r : r = [op[t] EXCEPT !.at = "return"]
  OBVIOUS
<1>2. /\ r \in Frames /\ r.at = "return"
      /\ r.old = op[t].old /\ r.new = op[t].new /\ r.tmp = op[t].tmp
  BY <1>1, Here DEF Frames, Places, Outside, MaybeBlock
<1>3. /\ op[t].at = "dropCell" /\ op' = [op EXCEPT ![t] = r]
      /\ ptr' = ptr
      /\ cell' = cell /\ UNCHANGED <<kept, val, mode>>
  BY <1>1 DEF RcuDropCell, At, Goto, heapVars
<1>4. /\ op'[t] = r /\ \A u \in Threads : u # t => op'[u] = op[u]
      /\ ptr'[Arg(t)] = ptr[Arg(t)] /\ ptr'[Res(t)] = ptr[Res(t)]
      /\ \A s \in Slots : s[1] # t => ptr'[s] = ptr[s]
  BY <1>2, <1>3, Here, SlotsOf
<1>5. HeapOK' /\ \A b \in Blocks : strong'[b] = strong[b] - Is(op[t].old, b)
  <2>1. op[t].old \in Blocks => strong[op[t].old] > 0
    BY Alive DEF Frame
  <2>2. /\ HeapOK'
        /\ \A b \in Blocks : strong'[b] = IF b = op[t].old THEN strong[b] - 1 ELSE strong[b]
    BY <2>1, Here, HeapReleases DEF RcuDropCell, At, IInv, MaybeBlock
  <2> QED
    BY <2>2, Here DEF Is
<1>6. CellTypes'
  BY <1>2, <1>3, Here, SlotsOf DEF IInv, CellTypes
<1>7. ASSUME NEW b \in Blocks PROVE strong'[b] - strong[b] = Own(t, b)' - Own(t, b)
  <2>1. strong[b] \in Int /\ strong'[b] \in Int /\ kept[b] \in Int /\ Is(Null, b) = 0
    BY <1>5, Here DEF HeapOK, HeapTypes, Is
  <2>2. /\ Held[<<t, "arg">>] = ptr[Arg(t)] /\ Held[<<t, "res">>] = ptr[Res(t)]
        /\ Held[<<t, "old">>] = op[t].old /\ Held[<<t, "new">>] = op[t].new
        /\ Held[<<t, "raw">>] = op[t].old
    BY <1>3, HandsOf
  <2>3. /\ Held'[<<t, "arg">>] = ptr[Arg(t)] /\ Held'[<<t, "res">>] = ptr[Res(t)]
        /\ Held'[<<t, "old">>] = op[t].old /\ Held'[<<t, "new">>] = op[t].new
        /\ Held'[<<t, "raw">>] = Null
    BY <1>2, <1>3, <1>4, HandsOf
  <2>5. /\ Own(t, b) = Is(ptr[Arg(t)], b) + Is(ptr[Res(t)], b) + Is(op[t].old, b)
                       + Is(op[t].new, b) + Is(op[t].old, b) + kept[b] + Is(cell, b)
        /\ Own(t, b)' = Is(ptr[Arg(t)], b) + Is(ptr[Res(t)], b) + Is(op[t].old, b)
                        + Is(op[t].new, b) + Is(Null, b) + kept[b] + Is(cell, b)
    BY <1>3, <2>2, <2>3, OwnSum
  <2>7. /\ Is(ptr[Arg(t)], b) \in Int /\ Is(ptr[Res(t)], b) \in Int /\ Is(op[t].old, b) \in Int
        /\ Is(op[t].new, b) \in Int /\ Is(cell, b) \in Int
    BY DEF Is
  <2>8. strong'[b] = strong[b] - Is(op[t].old, b)
    BY <1>5
  <2> QED
    BY <2>1, <2>5, <2>7, <2>8
<1>8. StepOK(t)
  <2>1. OperationOK(t)'
    BY <1>2, <1>3, <1>4, Here DEF OperationOK, RcuDropCell, MayEnter
  <2>2. \A b \in Refers(t)' : b = Null \/ b \in Refers(t)
    BY <1>2, <1>3, <1>4 DEF Refers, Frame
  <2> QED
    BY <1>3, <1>4, <1>5, <1>6, <1>7, <2>1, <2>2 DEF StepOK
<1>9. TurnOK(t)
  BY <1>2, <1>3, <1>4, Here, Alone DEF TurnOK, Pinned, RcuDropCell, MayEnter
<1> QED
  BY <1>8, <1>9, StepKeeps

\* ... and rcu's own is, while the new block becomes the result.
LEMMA RcuReturnKeeps ==
    ASSUME IInv, mode # "rcu", NEW t \in Threads, RcuReturn(t)
    PROVE  IInv'
<1>1. PICK r : r = Outside
  OBVIOUS
<1>2. /\ r \in Frames /\ r.at = "outside"
      /\ r.old = Null /\ r.new = Null /\ r.tmp = Null
  BY <1>1, Here DEF Frames, Places, Outside, MaybeBlock
<1>3. /\ op[t].at = "return" /\ op' = [op EXCEPT ![t] = r]
      /\ ptr' = [ptr EXCEPT ![Res(t)] = op[t].new]
      /\ cell' = cell /\ UNCHANGED <<kept, val, mode>>
  BY <1>1 DEF RcuReturn, At, Goto, heapVars
<1>4. /\ op'[t] = r /\ \A u \in Threads : u # t => op'[u] = op[u]
      /\ ptr'[Arg(t)] = ptr[Arg(t)] /\ ptr'[Res(t)] = op[t].new
      /\ \A s \in Slots : s[1] # t => ptr'[s] = ptr[s]
  BY <1>2, <1>3, Here, SlotsOf
<1>5. HeapOK' /\ \A b \in Blocks : strong'[b] = strong[b] - Is(op[t].old, b)
  <2>1. op[t].old \in Blocks => strong[op[t].old] > 0
    BY Alive DEF Frame
  <2>2. /\ HeapOK'
        /\ \A b \in Blocks : strong'[b] = IF b = op[t].old THEN strong[b] - 1 ELSE strong[b]
    BY <2>1, Here, HeapReleases DEF RcuReturn, At, IInv, MaybeBlock
  <2> QED
    BY <2>2, Here DEF Is
<1>6. CellTypes'
  BY <1>2, <1>3, Here, SlotsOf DEF IInv, CellTypes
<1>7. ASSUME NEW b \in Blocks PROVE strong'[b] - strong[b] = Own(t, b)' - Own(t, b)
  <2>1. strong[b] \in Int /\ strong'[b] \in Int /\ kept[b] \in Int /\ Is(Null, b) = 0
    BY <1>5, Here DEF HeapOK, HeapTypes, Is
  <2>2. /\ Held[<<t, "arg">>] = ptr[Arg(t)] /\ Held[<<t, "res">>] = ptr[Res(t)]
        /\ Held[<<t, "old">>] = op[t].old /\ Held[<<t, "new">>] = op[t].new
        /\ Held[<<t, "raw">>] = Null
    BY <1>3, HandsOf
  <2>3. /\ Held'[<<t, "arg">>] = ptr[Arg(t)] /\ Held'[<<t, "res">>] = op[t].new
        /\ Held'[<<t, "old">>] = Null /\ Held'[<<t, "new">>] = Null
        /\ Held'[<<t, "raw">>] = Null
    BY <1>2, <1>3, <1>4, HandsOf
  <2>5. /\ Own(t, b) = Is(ptr[Arg(t)], b) + Is(ptr[Res(t)], b) + Is(op[t].old, b)
                       + Is(op[t].new, b) + Is(Null, b) + kept[b] + Is(cell, b)
        /\ Own(t, b)' = Is(ptr[Arg(t)], b) + Is(op[t].new, b) + Is(Null, b)
                        + Is(Null, b) + Is(Null, b) + kept[b] + Is(cell, b)
    BY <1>3, <2>2, <2>3, OwnSum
  <2>4. Is(ptr[Res(t)], b) = 0
    BY <1>3, Here DEF OperationOK, Is
  <2>7. /\ Is(ptr[Arg(t)], b) \in Int /\ Is(ptr[Res(t)], b) \in Int /\ Is(op[t].old, b) \in Int
        /\ Is(op[t].new, b) \in Int /\ Is(cell, b) \in Int
    BY DEF Is
  <2>8. strong'[b] = strong[b] - Is(op[t].old, b)
    BY <1>5
  <2> QED
    BY <2>1, <2>5, <2>4, <2>7, <2>8
<1>8. StepOK(t)
  <2>1. OperationOK(t)'
    BY <1>2, <1>3, <1>4, Here DEF OperationOK, RcuReturn, MayEnter
  <2>2. \A b \in Refers(t)' : b = Null \/ b \in Refers(t)
    BY <1>2, <1>3, <1>4 DEF Refers, Frame
  <2> QED
    BY <1>3, <1>4, <1>5, <1>6, <1>7, <2>1, <2>2 DEF StepOK
<1>9. TurnOK(t)
  BY <1>2, <1>3, <1>4, Here, Alone DEF TurnOK, Pinned, RcuReturn, MayEnter
<1> QED
  BY <1>8, <1>9, StepKeeps

-----------------------------------------------------------------------------
(* The program around the cell.                                            *)

\* A swap of an rvalue exchanges two references.
LEMMA SwapMoveKeeps ==
    ASSUME IInv, mode # "rcu", NEW t \in Threads, SwapMove(t)
    PROVE  IInv'
<1>1. /\ op[t].at = "outside" /\ op' = op
      /\ ptr' = [ptr EXCEPT ![Arg(t)] = Null, ![Res(t)] = cell]
      /\ cell' = ptr[Arg(t)] /\ UNCHANGED <<kept, val, mode>>
      /\ ptr[Res(t)] = Null
  BY DEF SwapMove, At, MayEnter
<1>2. /\ ptr'[Arg(t)] = Null /\ ptr'[Res(t)] = cell
      /\ \A s \in Slots : s[1] # t => ptr'[s] = ptr[s]
  BY <1>1, Here, SlotsOf
<1>3. HeapOK' /\ strong' = strong
  BY DEF SwapMove, IInv, HeapOK, HeapTypes, ReleaseOK, LifeOK, Enders
<1>4. CellTypes'
  BY <1>1, Here, SlotsOf DEF IInv, CellTypes, MaybeBlock
<1>5. ASSUME NEW b \in Blocks PROVE strong'[b] - strong[b] = Own(t, b)' - Own(t, b)
  <2>1. op[t].old = Null /\ op[t].new = Null
    BY <1>1, Here DEF OperationOK
  <2>2. /\ Held[<<t, "arg">>] = ptr[Arg(t)] /\ Held[<<t, "res">>] = Null
        /\ Held[<<t, "old">>] = Null /\ Held[<<t, "new">>] = Null
        /\ Held[<<t, "raw">>] = Null
    BY <1>1, <2>1, HandsOf
  <2>3. /\ Held'[<<t, "arg">>] = Null /\ Held'[<<t, "res">>] = cell
        /\ Held'[<<t, "old">>] = Null /\ Held'[<<t, "new">>] = Null
        /\ Held'[<<t, "raw">>] = Null
    BY <1>1, <1>2, <2>1, HandsOf
  <2>4. /\ Own(t, b) = Is(ptr[Arg(t)], b) + Is(Null, b) + Is(Null, b)
                       + Is(Null, b) + Is(Null, b) + kept[b] + Is(cell, b)
        /\ Own(t, b)' = Is(Null, b) + Is(cell, b) + Is(Null, b)
                        + Is(Null, b) + Is(Null, b) + kept[b] + Is(ptr[Arg(t)], b)
    BY <1>1, <2>2, <2>3, OwnSum
  <2>5. /\ strong[b] \in Int /\ strong'[b] = strong[b] /\ kept[b] \in Int
        /\ Is(Null, b) \in Int /\ Is(cell, b) \in Int /\ Is(ptr[Arg(t)], b) \in Int
    BY <1>3, Here DEF HeapOK, HeapTypes, Is
  <2> QED
    BY <2>4, <2>5
<1>6. StepOK(t)
  <2>1. OperationOK(t)'
    BY <1>1, Here DEF OperationOK
  <2>2. \A b \in Refers(t)' : b = Null \/ b \in Refers(t)
    BY <1>1, <1>2 DEF Refers, Frame
  <2> QED
    BY <1>1, <1>2, <1>3, <1>4, <1>5, <2>1, <2>2 DEF StepOK
<1>7. TurnOK(t)
  BY <1>1, Here, Alone DEF TurnOK, Pinned, SwapMove, MayEnter
<1> QED
  BY <1>6, <1>7, StepKeeps

\* make_shared: the argument's reference, and the program's if it keeps one.
LEMMA NewArgKeeps ==
    ASSUME IInv, mode # "rcu", NEW t \in Threads, NewArg(t)
    PROVE  IInv'
<1>1. PICK b \in Blocks : Make(b, 0) /\ ptr' = [ptr EXCEPT ![Arg(t)] = b]
  BY DEF NewArg
<1>2. /\ op[t].at = "outside" /\ op' = op /\ ptr[Arg(t)] = Null
      /\ UNCHANGED <<pc, cell, mode>>
  BY DEF NewArg, At
<1>3. /\ ptr'[Arg(t)] = b /\ ptr'[Res(t)] = ptr[Res(t)]
      /\ \A s \in Slots : s[1] # t => ptr'[s] = ptr[s]
  BY <1>1, Here, SlotsOf
<1>4. HeapOK' /\ strong[b] = 0
  BY <1>1, <1>2, HeapMakes DEF IInv
<1>5. kept[b] = 0 /\ mem[b] = "unused"
  BY <1>1, <1>4, CountedAlive, Here DEF Make
<1>6. CellTypes'
  BY <1>1, <1>2, Here, SlotsOf, PtrSwapAssumption DEF IInv, CellTypes, MaybeBlock, Make
<1>7. ASSUME NEW c \in Blocks PROVE strong'[c] - strong[c] = Own(t, c)' - Own(t, c)
  <2>1. op[t].old = Null /\ op[t].new = Null
    BY <1>2, Here DEF OperationOK
  <2>2. /\ Held[<<t, "arg">>] = Null /\ Held[<<t, "res">>] = ptr[Res(t)]
        /\ Held[<<t, "old">>] = Null /\ Held[<<t, "new">>] = Null
        /\ Held[<<t, "raw">>] = Null
    BY <1>2, <2>1, HandsOf
  <2>3. /\ Held'[<<t, "arg">>] = b /\ Held'[<<t, "res">>] = ptr[Res(t)]
        /\ Held'[<<t, "old">>] = Null /\ Held'[<<t, "new">>] = Null
        /\ Held'[<<t, "raw">>] = Null
    BY <1>2, <1>3, <2>1, HandsOf
  <2>4. /\ Own(t, c) = Is(Null, c) + Is(ptr[Res(t)], c) + Is(Null, c)
                       + Is(Null, c) + Is(Null, c) + kept[c] + Is(cell, c)
        /\ Own(t, c)' = Is(b, c) + Is(ptr[Res(t)], c) + Is(Null, c)
                        + Is(Null, c) + Is(Null, c) + kept'[c] + Is(cell, c)
    BY <1>2, <2>2, <2>3, OwnSum
  <2>5. /\ strong[c] \in Int /\ kept[c] \in Int /\ kept'[c] \in Int
        /\ Is(Null, c) = 0 /\ Is(cell, c) \in Int /\ Is(ptr[Res(t)], c) \in Int
    BY <1>6, Here DEF HeapOK, HeapTypes, CellTypes, Is
  <2>6. strong'[c] - strong[c] = Is(b, c) + kept'[c] - kept[c]
    BY <1>1, <1>4, <1>5, Here DEF Make, Is
  <2>7. Is(b, c) \in Int /\ strong'[c] \in Int
    BY <1>4 DEF Is, HeapOK, HeapTypes
  <2> QED
    BY <2>4, <2>5, <2>6, <2>7
<1>8. StepOK(t)
  <2>1. OperationOK(t)'
    BY <1>2, <1>3, Here DEF OperationOK
  <2>2. \A x \in Refers(t)' : x \in Refers(t) \/ (mode = "anchored" => kept'[x] = 1)
    BY <1>1, <1>2, <1>3, Here DEF Refers, Frame, Make
  <2>3. /\ \A c \in Blocks : mem[c] = "live" => val'[c] = val[c]
        /\ \A c \in Blocks : kept'[c] = kept[c] \/ kept'[c] = 1
    BY <1>1, <1>5, Here DEF Make, IInv, CellTypes
  <2> QED
    BY <1>2, <1>3, <1>4, <1>6, <1>7, <2>1, <2>2, <2>3 DEF StepOK
<1>9. TurnOK(t)
  BY <1>2, Here DEF TurnOK, Pinned
<1> QED
  BY <1>8, <1>9, StepKeeps

\* rcu's function makes the new block from the data that it was given.
LEMMA RcuApplyKeeps ==
    ASSUME IInv, mode # "rcu", NEW t \in Threads, RcuApply(t)
    PROVE  IInv'
<1>1. PICK b \in Blocks : /\ Make(b, Value(op[t].old) + 1)
                          /\ Goto(t, [op[t] EXCEPT !.at = "exchange", !.new = b])
  BY DEF RcuApply
<1>2. PICK r : r = [op[t] EXCEPT !.at = "exchange", !.new = b]
  OBVIOUS
<1>3. /\ r \in Frames /\ r.at = "exchange"
      /\ r.old = op[t].old /\ r.new = b /\ r.tmp = op[t].tmp
  BY <1>2, Here DEF Frames, Places, MaybeBlock
<1>4. /\ op[t].at = "apply" /\ op' = [op EXCEPT ![t] = r]
      /\ UNCHANGED <<ptr, pc, cell, mode>>
  BY <1>1, <1>2 DEF RcuApply, At, Goto
<1>5. /\ op'[t] = r /\ \A u \in Threads : u # t => op'[u] = op[u]
  BY <1>3, <1>4, Here
<1>6. HeapOK' /\ strong[b] = 0
  BY <1>1, <1>4, HeapMakes DEF IInv
<1>7. kept[b] = 0 /\ mem[b] = "unused"
  BY <1>1, <1>6, CountedAlive, Here DEF Make
<1>8. op[t].old \in Blocks => op[t].old # b /\ val'[op[t].old] = val[op[t].old]
  <2>1. op[t].old \in Blocks => mem[op[t].old] = "live"
    BY Alive DEF Frame
  <2> QED
    BY <1>1, <1>7, <2>1 DEF Make, IInv, CellTypes
<1>9. CellTypes'
  <2>1. Value(op[t].old) + 1 \in 0..MaxPushes
    BY Here, PtrSwapAssumption DEF RcuApply, Value, IInv, CellTypes, MaybeBlock
  <2> QED
    BY <1>1, <1>3, <1>4, <2>1, Here DEF IInv, CellTypes, Make
<1>10. ASSUME NEW c \in Blocks PROVE strong'[c] - strong[c] = Own(t, c)' - Own(t, c)
  <2>1. op[t].new = Null
    BY <1>4, Here DEF OperationOK
  <2>2. /\ Held[<<t, "arg">>] = ptr[Arg(t)] /\ Held[<<t, "res">>] = ptr[Res(t)]
        /\ Held[<<t, "old">>] = op[t].old /\ Held[<<t, "new">>] = Null
        /\ Held[<<t, "raw">>] = Null
    BY <1>4, <2>1, HandsOf
  <2>3. /\ Held'[<<t, "arg">>] = ptr[Arg(t)] /\ Held'[<<t, "res">>] = ptr[Res(t)]
        /\ Held'[<<t, "old">>] = op[t].old /\ Held'[<<t, "new">>] = b
        /\ Held'[<<t, "raw">>] = Null
    BY <1>3, <1>4, <1>5, HandsOf
  <2>4. /\ Own(t, c) = Is(ptr[Arg(t)], c) + Is(ptr[Res(t)], c) + Is(op[t].old, c)
                       + Is(Null, c) + Is(Null, c) + kept[c] + Is(cell, c)
        /\ Own(t, c)' = Is(ptr[Arg(t)], c) + Is(ptr[Res(t)], c) + Is(op[t].old, c)
                        + Is(b, c) + Is(Null, c) + kept'[c] + Is(cell, c)
    BY <1>4, <2>2, <2>3, OwnSum
  <2>5. /\ strong[c] \in Int /\ kept[c] \in Int /\ kept'[c] \in Int
        /\ Is(Null, c) = 0 /\ Is(cell, c) \in Int /\ Is(ptr[Res(t)], c) \in Int
        /\ Is(ptr[Arg(t)], c) \in Int /\ Is(op[t].old, c) \in Int
    BY <1>9, Here DEF HeapOK, HeapTypes, CellTypes, Is
  <2>6. strong'[c] - strong[c] = Is(b, c) + kept'[c] - kept[c]
    BY <1>1, <1>6, <1>7, Here DEF Make, Is
  <2>7. Is(b, c) \in Int /\ strong'[c] \in Int
    BY <1>6 DEF Is, HeapOK, HeapTypes
  <2> QED
    BY <2>4, <2>5, <2>6, <2>7
<1>11. StepOK(t)
  <2>1. OperationOK(t)'
    <3>1. val'[b] = Value(op[t].old) + 1
      BY <1>1, Here DEF Make, IInv, CellTypes
    <3>2. Value(op[t].old)' = Value(op[t].old)
      BY <1>3, <1>5, <1>8, Here DEF Value, MaybeBlock
    <3>3. op[t].tmp = Null /\ ptr[Res(t)] = Null /\ b # Null
      BY <1>4, Here DEF OperationOK
    <3> QED
      BY <1>3, <1>4, <1>5, <3>1, <3>2, <3>3 DEF OperationOK
  <2>2. \A x \in Refers(t)' : x \in Refers(t) \/ (mode = "anchored" => kept'[x] = 1)
    BY <1>1, <1>3, <1>4, <1>5, Here DEF Refers, Frame, Make
  <2>3. /\ \A c \in Blocks : mem[c] = "live" => val'[c] = val[c]
        /\ \A c \in Blocks : kept'[c] = kept[c] \/ kept'[c] = 1
    BY <1>1, <1>7, Here DEF Make, IInv, CellTypes
  <2> QED
    BY <1>4, <1>5, <1>6, <1>9, <1>10, <2>1, <2>2, <2>3 DEF StepOK
<1>12. TurnOK(t)
  BY <1>3, <1>4, <1>5, Here, Alone DEF TurnOK, Pinned
<1> QED
  BY <1>11, <1>12, StepKeeps

\* The program copies a result to pass it on.
LEMMA CopyResultKeeps ==
    ASSUME IInv, mode # "rcu", NEW t \in Threads, CopyResult(t)
    PROVE  IInv'
<1>1. /\ op[t].at = "outside" /\ op' = op /\ ptr[Arg(t)] = Null /\ ptr[Res(t)] # Null
      /\ ptr' = [ptr EXCEPT ![Arg(t)] = ptr[Res(t)]]
      /\ strong' = [strong EXCEPT ![ptr[Res(t)]] = strong[ptr[Res(t)]] + 1]
      /\ UNCHANGED <<weak, mem, pc, kept, cell, val, mode>>
  BY DEF CopyResult, Heap!CopyShared, Outside
<1>2. /\ ptr'[Arg(t)] = ptr[Res(t)] /\ ptr'[Res(t)] = ptr[Res(t)]
      /\ \A s \in Slots : s[1] # t => ptr'[s] = ptr[s]
  BY <1>1, Here, SlotsOf
<1>3. Retain(ptr[Res(t)])
  BY <1>1, Here DEF Retain
<1>4. HeapOK'
  <2>1. ptr[Res(t)] \in Blocks /\ strong[ptr[Res(t)]] > 0
    BY <1>1, Alive, Here DEF MaybeBlock
  <2> QED
    BY <1>1, <1>3, <2>1, HeapRetains DEF IInv
<1>5. CellTypes'
  BY <1>1, Here, SlotsOf DEF IInv, CellTypes
<1>6. ASSUME NEW b \in Blocks PROVE strong'[b] - strong[b] = Own(t, b)' - Own(t, b)
  <2>1. op[t].old = Null /\ op[t].new = Null
    BY <1>1, Here DEF OperationOK
  <2>2. /\ Held[<<t, "arg">>] = Null /\ Held[<<t, "res">>] = ptr[Res(t)]
        /\ Held[<<t, "old">>] = Null /\ Held[<<t, "new">>] = Null
        /\ Held[<<t, "raw">>] = Null
    BY <1>1, <2>1, HandsOf
  <2>3. /\ Held'[<<t, "arg">>] = ptr[Res(t)] /\ Held'[<<t, "res">>] = ptr[Res(t)]
        /\ Held'[<<t, "old">>] = Null /\ Held'[<<t, "new">>] = Null
        /\ Held'[<<t, "raw">>] = Null
    BY <1>1, <1>2, <2>1, HandsOf
  <2>4. /\ Own(t, b) = Is(Null, b) + Is(ptr[Res(t)], b) + Is(Null, b)
                       + Is(Null, b) + Is(Null, b) + kept[b] + Is(cell, b)
        /\ Own(t, b)' = Is(ptr[Res(t)], b) + Is(ptr[Res(t)], b) + Is(Null, b)
                        + Is(Null, b) + Is(Null, b) + kept[b] + Is(cell, b)
    BY <1>1, <2>2, <2>3, OwnSum
  <2>5. /\ strong[b] \in Int /\ strong'[b] = strong[b] + Is(ptr[Res(t)], b) /\ kept[b] \in Int
        /\ Is(Null, b) = 0 /\ Is(cell, b) \in Int /\ Is(ptr[Res(t)], b) \in Int
    BY <1>3, Here DEF HeapOK, HeapTypes, Is, Retain
  <2> QED
    BY <2>4, <2>5
<1>7. StepOK(t)
  <2>1. OperationOK(t)'
    BY <1>1, Here DEF OperationOK
  <2>2. \A b \in Refers(t)' : b \in Refers(t)
    BY <1>1, <1>2 DEF Refers, Frame
  <2> QED
    BY <1>1, <1>2, <1>4, <1>5, <1>6, <2>1, <2>2 DEF StepOK
<1>8. TurnOK(t)
  BY <1>1, Here DEF TurnOK, Pinned
<1> QED
  BY <1>7, <1>8, StepKeeps

\* The program releases its argument or its result.
LEMMA DropKeeps ==
    ASSUME IInv, mode # "rcu", NEW t \in Threads, Drop(t)
    PROVE  IInv'
<1>1. PICK p \in {Arg(t), Res(t)} : Heap!ReleaseShared(t, p)
  BY DEF Drop
<1>2. /\ op[t].at = "outside" /\ op' = op /\ ptr[p] # Null
      /\ ptr' = [ptr EXCEPT ![p] = Null]
      /\ Heap!Ready(t) /\ Release(t, ptr[p])
      /\ UNCHANGED <<weak, mem, kept, cell, val, mode>>
  BY <1>1 DEF Drop, Heap!ReleaseShared, Outside, Release
<1>3. /\ ptr[p] \in Blocks /\ ptr'[p] = Null /\ p \in Slots
      /\ \A s \in {Arg(t), Res(t)} : s # p => ptr'[s] = ptr[s]
      /\ \A s \in Slots : s[1] # t => ptr'[s] = ptr[s]
  BY <1>2, Here, SlotsOf DEF MaybeBlock
<1>4. /\ HeapOK'
      /\ \A c \in Blocks : strong'[c] = IF c = ptr[p] THEN strong[c] - 1 ELSE strong[c]
  <2>1. strong[ptr[p]] > 0
    BY <1>3, Alive
  <2> QED
    BY <1>2, <1>3, <2>1, HeapReleases DEF IInv
<1>5. CellTypes'
  BY <1>2, <1>3, Here DEF IInv, CellTypes, MaybeBlock
<1>6. ASSUME NEW b \in Blocks PROVE strong'[b] - strong[b] = Own(t, b)' - Own(t, b)
  <2>1. op[t].old = Null /\ op[t].new = Null
    BY <1>2, Here DEF OperationOK
  <2>2. /\ Held[<<t, "arg">>] = ptr[Arg(t)] /\ Held[<<t, "res">>] = ptr[Res(t)]
        /\ Held[<<t, "old">>] = Null /\ Held[<<t, "new">>] = Null
        /\ Held[<<t, "raw">>] = Null
    BY <1>2, <2>1, HandsOf
  <2>3. /\ Held'[<<t, "arg">>] = ptr'[Arg(t)] /\ Held'[<<t, "res">>] = ptr'[Res(t)]
        /\ Held'[<<t, "old">>] = Null /\ Held'[<<t, "new">>] = Null
        /\ Held'[<<t, "raw">>] = Null
    BY <1>2, <2>1, HandsOf
  <2>4. /\ Own(t, b) = Is(ptr[Arg(t)], b) + Is(ptr[Res(t)], b) + Is(Null, b)
                       + Is(Null, b) + Is(Null, b) + kept[b] + Is(cell, b)
        /\ Own(t, b)' = Is(ptr'[Arg(t)], b) + Is(ptr'[Res(t)], b) + Is(Null, b)
                        + Is(Null, b) + Is(Null, b) + kept[b] + Is(cell, b)
    BY <1>2, <2>2, <2>3, OwnSum
  <2>5. /\ strong[b] \in Int /\ strong'[b] = strong[b] - Is(ptr[p], b) /\ kept[b] \in Int
        /\ Is(Null, b) = 0 /\ Is(cell, b) \in Int
        /\ Is(ptr[Arg(t)], b) \in Int /\ Is(ptr[Res(t)], b) \in Int
    BY <1>4, Here DEF HeapOK, HeapTypes, Is
  <2>6. CASE p = Arg(t)
    <3>1. Is(ptr'[Arg(t)], b) = Is(Null, b) /\ Is(ptr'[Res(t)], b) = Is(ptr[Res(t)], b)
      BY <1>3, <2>6, SlotsOf
    <3> QED
      BY <2>4, <2>5, <2>6, <3>1
  <2>7. CASE p = Res(t)
    <3>1. Is(ptr'[Res(t)], b) = Is(Null, b) /\ Is(ptr'[Arg(t)], b) = Is(ptr[Arg(t)], b)
      BY <1>3, <2>7, SlotsOf
    <3> QED
      BY <2>4, <2>5, <2>7, <3>1
  <2> QED
    BY <2>6, <2>7
<1>7. StepOK(t)
  <2>1. OperationOK(t)'
    BY <1>2, Here DEF OperationOK
  <2>2. \A b \in Refers(t)' : b = Null \/ b \in Refers(t)
    BY <1>2, <1>3 DEF Refers, Frame
  <2> QED
    BY <1>2, <1>3, <1>4, <1>5, <1>6, <2>1, <2>2 DEF StepOK
<1>8. TurnOK(t)
  BY <1>2, Here DEF TurnOK, Pinned
<1> QED
  BY <1>7, <1>8, StepKeeps

\* The program gives up a reference that it kept and that nobody relies on.
LEMMA UnkeepKeeps ==
    ASSUME IInv, mode # "rcu", NEW t \in Threads, NEW k \in Blocks, Unkeep(t, k)
    PROVE  IInv'
<1>1. /\ op' = op /\ ptr' = ptr /\ cell' = cell
      /\ kept[k] = 1 /\ kept' = [kept EXCEPT ![k] = 0]
      /\ Heap!Ready(t) /\ Release(t, k)
      /\ UNCHANGED <<weak, mem, val, mode>>
  BY DEF Unkeep
<1>2. k \notin Seen
  BY Here DEF Unkeep, Seen, Frame, Outside
<1>3. /\ HeapOK'
      /\ \A c \in Blocks : strong'[c] = IF c = k THEN strong[c] - 1 ELSE strong[c]
  <2>1. strong[k] > 0
    BY <1>1, CountedAlive
  <2> QED
    BY <1>1, <2>1, HeapReleases DEF IInv
<1>4. CellTypes'
  BY <1>1, Here DEF IInv, CellTypes
<1>5. ASSUME NEW b \in Blocks PROVE strong'[b] - strong[b] = Own(t, b)' - Own(t, b)
  <2>1. /\ Held'[<<t, "arg">>] = Held[<<t, "arg">>] /\ Held'[<<t, "res">>] = Held[<<t, "res">>]
        /\ Held'[<<t, "old">>] = Held[<<t, "old">>] /\ Held'[<<t, "new">>] = Held[<<t, "new">>]
        /\ Held'[<<t, "raw">>] = Held[<<t, "raw">>]
    BY <1>1, HandsOf
  <2>2. PICK n \in Int : n = Is(Held[<<t, "arg">>], b) + Is(Held[<<t, "res">>], b)
                             + Is(Held[<<t, "old">>], b) + Is(Held[<<t, "new">>], b)
                             + Is(Held[<<t, "raw">>], b)
    BY DEF Is
  <2>3. Own(t, b) = n + kept[b] + Is(cell, b) /\ Own(t, b)' = n + kept'[b] + Is(cell, b)
    BY <1>1, <2>1, <2>2, OwnSum
  <2>4. strong[b] \in Int /\ kept[b] \in Int /\ Is(cell, b) \in Int
    BY Here DEF Is
  <2>5. strong'[b] - strong[b] = kept'[b] - kept[b]
    BY <1>1, <1>3, <2>4, Here
  <2>6. strong'[b] \in Int /\ kept'[b] \in Int
    BY <1>3, <1>4 DEF HeapOK, HeapTypes, CellTypes
  <2> QED
    BY <2>3, <2>4, <2>5, <2>6
<1>6. StepOK(t)
  <2>1. OperationOK(t)'
    BY <1>1, Here DEF OperationOK, Value
  <2>2. \A b \in Refers(t)' : b \in Refers(t)
    BY <1>1 DEF Refers, Frame
  <2>3. \A b \in Blocks : kept'[b] = kept[b] \/ b \notin Seen
    BY <1>1, <1>2, Here
  <2> QED
    BY <1>1, <1>3, <1>4, <1>5, <2>1, <2>2, <2>3 DEF StepOK
<1>7. TurnOK(t)
  BY <1>1, Here, Alone DEF TurnOK, Pinned
<1> QED
  BY <1>6, <1>7, StepKeeps

\* A release goes on.
LEMMA ReclaimKeeps ==
    ASSUME IInv, mode # "rcu", NEW t \in Threads, Reclaim(t)
    PROVE  IInv'
<1>1. HeapOK' /\ UNCHANGED <<strong, ptr, kept>>
  BY HeapReclaims DEF IInv
<1>2. UNCHANGED <<cell, op, val, mode>>
  BY DEF Reclaim
<1>3. Held' = Held
  BY <1>1, <1>2 DEF Held, InHand
<1> QED
  BY <1>1, <1>2, <1>3
  DEF IInv, CellTypes, CountOK, References, OperationsOK, OperationOK, Value,
      Anchored, Safe, Moving, Exclusive, Pinned

\* The allocator hands out a freed address again.
LEMMA RecycleKeeps ==
    ASSUME IInv, mode # "rcu", NEW b \in Blocks, Recycle(b)
    PROVE  IInv'
<1>1. HeapOK'
  BY HeapRecycles DEF IInv
<1>2. /\ UNCHANGED <<strong, weak, ptr, pc, kept, cell, op, mode>>
      /\ val' = [val EXCEPT ![b] = 0] /\ mem[b] = "freed"
  BY DEF Recycle
<1>3. Held' = Held
  BY <1>2 DEF Held, InHand
<1>4. CellTypes'
  BY <1>2, PtrSwapAssumption DEF IInv, CellTypes
<1>5. ASSUME NEW u \in Threads PROVE OperationOK(u)'
  <2>1. OperationOK(u)
    BY DEF IInv, OperationsOK
  <2>2. \A c \in Blocks : c \in Frame(u) => val'[c] = val[c]
    BY <1>2, Alive DEF IInv, CellTypes
  <2>3. op[u].at = "exchange" =>
           /\ val'[op[u].new] = val[op[u].new]
           /\ op[u].old # Null => val'[op[u].old] = val[op[u].old]
    BY <2>1, <2>2 DEF Frame, OperationOK, IInv, CellTypes, Frames, MaybeBlock
  <2> QED
    BY <1>2, <2>1, <2>3 DEF OperationOK, Value
<1> QED
  BY <1>1, <1>2, <1>3, <1>4, <1>5
  DEF IInv, CountOK, References, OperationsOK, Anchored, Safe, Moving, Exclusive, Pinned

-----------------------------------------------------------------------------
(* The theorems.                                                           *)

SafeInv == mode # "rcu" => IInv

\* It holds at first, ...
LEMMA InitOK == Init => IInv
<1> SUFFICES ASSUME Init PROVE IInv
  OBVIOUS
<1>1. /\ strong = [b \in Blocks |-> 0] /\ weak = [b \in Blocks |-> 0]
      /\ mem = [b \in Blocks |-> "unused"] /\ ptr = [s \in Slots |-> Null]
      /\ kept = [b \in Blocks |-> 0] /\ pc = [t \in Threads |-> Heap!Idle]
      /\ cell = Null /\ op = [t \in Threads |-> Outside]
      /\ val = [b \in Blocks |-> 0] /\ mode \in Modes
  BY DEF Init, Heap!Init
<1>2. /\ Outside \in Frames /\ Outside.at = "outside"
      /\ Outside.old = Null /\ Outside.new = Null /\ Outside.tmp = Null
  BY DEF Outside, Frames, Places, MaybeBlock
<1>3. HeapOK
  BY <1>1, IdleFields DEF HeapOK, HeapTypes, States, ReleaseOK, LifeOK, Enders
<1>4. CellTypes
  BY <1>1, <1>2, PtrSwapAssumption DEF CellTypes, MaybeBlock
<1>5. ASSUME NEW b \in Blocks PROVE CountOK(b)
  <2>1. ASSUME NEW u \in Threads, NEW h \in Hands PROVE Held[<<u, h>>] = Null
    <3>1. op[u] = Outside /\ ptr[Arg(u)] = Null /\ ptr[Res(u)] = Null
      BY <1>1, SlotsOf
    <3> QED
      BY <1>2, <3>1, HandsOf DEF Hands
  <2>2. {x \in Threads \X Hands : Held[x] = b} = {}
    BY <2>1, PtrSwapAssumption
  <2> QED
    BY <1>1, <2>2, FS_EmptySet, PtrSwapAssumption DEF CountOK, References
<1>6. OperationsOK /\ Moving
  BY <1>1, <1>2 DEF OperationsOK, OperationOK, Moving
<1>7. Anchored /\ Exclusive
  BY <1>1, <1>2 DEF Anchored, Safe, Exclusive, Pinned
<1> QED
  BY <1>3, <1>4, <1>5, <1>6, <1>7 DEF IInv

\* ... and every step keeps it.
LEMMA NextOK == SafeInv /\ [Next]_vars => SafeInv'
<1> SUFFICES ASSUME SafeInv, [Next]_vars PROVE SafeInv'
  OBVIOUS
<1>1. mode' = mode
  BY DEF Next, Program, Proceed, vars, NewArg, CopyResult, Drop, Unkeep, LoadRead, SwapCopy,
         SwapMove, RcuRead, Reclaim, LoadRetain, SwapRetain, RcuAcquire, RcuAssign, RcuDropNew,
         RcuApply, RcuSucceeds, RcuFails, RcuRetain, RcuDropCell, RcuReturn, Recycle
<1>2. CASE mode = "rcu"
  BY <1>1, <1>2 DEF SafeInv
<1>3. CASE mode # "rcu"
  <2>1. IInv
    BY <1>3 DEF SafeInv
  <2>2. ASSUME NEW t \in Threads, Program(t) PROVE IInv'
    BY <1>3, <2>1, <2>2, NewArgKeeps, CopyResultKeeps, DropKeeps, UnkeepKeeps,
       LoadReadKeeps,
       SwapCopyKeeps, SwapMoveKeeps, RcuReadKeeps
    DEF Program
  <2>3. ASSUME NEW t \in Threads, Proceed(t) PROVE IInv'
    BY <1>3, <2>1, <2>3, ReclaimKeeps, LoadRetainKeeps, SwapRetainKeeps, RcuAcquireKeeps,
       RcuAssignKeeps, RcuDropNewKeeps, RcuApplyKeeps, RcuSucceedsKeeps, RcuFailsKeeps,
       RcuRetainKeeps, RcuDropCellKeeps, RcuReturnKeeps
    DEF Proceed
  <2>4. ASSUME NEW b \in Blocks, Recycle(b) PROVE IInv'
    BY <1>3, <2>1, <2>4, RecycleKeeps
  <2>5. CASE UNCHANGED vars
    <3>1. UNCHANGED <<strong, weak, mem, ptr, pc, kept, cell, op, val, mode>>
      BY <2>5 DEF vars
    <3>2. Held' = Held
      BY <3>1 DEF Held, InHand
    <3>3. HeapOK' /\ CellTypes'
      BY <2>1, <3>1 DEF IInv, HeapOK, HeapTypes, ReleaseOK, LifeOK, Enders, CellTypes
    <3>4. \A b \in Blocks : CountOK(b)'
      BY <2>1, <3>1, <3>2 DEF IInv, CountOK, References
    <3>5. OperationsOK' /\ Anchored' /\ Moving' /\ Exclusive'
      BY <2>1, <3>1 DEF IInv, OperationsOK, OperationOK, Value, Anchored, Safe, Moving,
                        Exclusive, Pinned
    <3> QED
      BY <3>3, <3>4, <3>5 DEF IInv, SafeInv
  <2> QED
    BY <2>2, <2>3, <2>4, <2>5 DEF Next, SafeInv
<1> QED
  BY <1>2, <1>3

\* The inductive invariant holds in every program that uses the cell in one of
\* the safe ways (PtrSwap.hpp 14-110).
THEOREM PtrSwapInvariant == Spec => [](mode # "rcu" => IInv)
<1>1. Init => SafeInv
  BY InitOK DEF SafeInv
<1>2. Spec => []SafeInv
  BY <1>1, NextOK, PTL DEF Spec
<1> QED
  BY <1>2 DEF SafeInv

\* The state is well typed in these programs: no counter goes below zero
\* (PtrSwap.hpp 36-110).
THEOREM TypeCorrect == Spec => [](mode # "rcu" => TypeOK)
<1>1. IInv => TypeOK
  <2> SUFFICES ASSUME IInv PROVE TypeOK
    OBVIOUS
  <2>1. /\ strong \in [Blocks -> Nat] /\ weak \in [Blocks -> Nat]
        /\ mem \in [Blocks -> {"unused", "live", "destroyed", "freed"}]
        /\ ptr \in [Slots -> Blocks \cup {Null}]
    BY DEF IInv, HeapOK, HeapTypes, CellTypes, States, MaybeBlock
  <2>2. kept \in [Blocks -> Nat]
    BY DEF IInv, CellTypes
  <2>3. pc \in [Threads -> [at : Heap!Places, block : Blocks \cup {Null}, then : Heap!Kinds,
                            to : Slots \cup {} \cup {Null}, from : Slots \cup {} \cup {Null},
                            seen : Nat]]
    <3>1. Slots \cup {} \cup {Null} = Slots \cup {Null}
      OBVIOUS
    <3> QED
      BY <3>1 DEF IInv, HeapOK, HeapTypes, Releases
  <2>4. Heap!TypeOK
    BY <2>1, <2>2, <2>3 DEF Heap!TypeOK
  <2>5. /\ cell \in MaybeBlock /\ val \in [Blocks -> 0..MaxPushes] /\ mode \in Modes
        /\ op \in [Threads -> [at : Places, old : MaybeBlock, new : MaybeBlock, tmp : MaybeBlock]]
    BY DEF IInv, CellTypes, Frames
  <2> QED
    BY <2>4, <2>5 DEF TypeOK
<1> QED
  BY <1>1, PtrSwapInvariant, PTL

\* Every counter is exact, the cell's own reference included, also between the
\* steps of load, swap and rcu (PtrSwap.hpp 36-89).
THEOREM CountsCorrect == Spec => []CountsExact
<1>1. (mode # "rcu" => IInv) => CountsExact
  BY DEF IInv, CountOK, CountsExact
<1> QED
  BY <1>1, PtrSwapInvariant, PTL

\* Nothing that the cell, a pointer or an operation refers to has been
\* destroyed, counted or not (PtrSwap.hpp 37, 50-51, 69).
THEOREM LifetimesCorrect == Spec => []NoDangling
<1>1. ASSUME IInv, mode # "rcu" PROVE NoDangling
  <2>1. ASSUME NEW b \in (({ptr[s] : s \in Slots} \cup {cell} \cup UNION {Frame(t) : t \in Threads})
                          \ {Null})
        PROVE  mem[b] = "live"
    <3>1. b \in Blocks
      BY <1>1, <2>1 DEF IInv, CellTypes, Frame, Frames, MaybeBlock
    <3>2. CASE b = cell
      BY <1>1, <3>1, <3>2, CountedAlive
    <3>3. CASE \E s \in Slots : b = ptr[s]
      <4>1. PICK t \in Threads : b \in {ptr[Arg(t)], ptr[Res(t)]}
        BY <3>3, SlotsOf DEF Slots, Arg, Res
      <4> QED
        BY <1>1, <3>1, <4>1, Alive
    <3>4. CASE \E t \in Threads : b \in Frame(t)
      BY <1>1, <3>1, <3>4, Alive
    <3> QED
      BY <2>1, <3>2, <3>3, <3>4
  <2>2. ASSUME NEW t \in Threads, pc[t].block # Null
        PROVE  mem[pc[t].block] \in {"live", "destroyed"}
    <3>1. ReleaseOK(t) /\ pc[t].block \in Blocks
      BY <1>1, <2>2 DEF IInv, HeapOK, HeapTypes, Releases
    <3>2. t \in Enders(pc[t].block) /\ LifeOK(pc[t].block)
      BY <1>1, <2>2, <3>1 DEF ReleaseOK, Enders, IInv, HeapOK
    <3>3. pc[t].at \in {"dtor", "dropWeak", "free"}
      BY <2>2, <3>1 DEF ReleaseOK
    <3> QED
      BY <3>2, <3>3 DEF LifeOK
  <2> QED
    BY <1>1, <2>1, <2>2 DEF NoDangling
<1>2. (mode # "rcu" => IInv) => NoDangling
  BY <1>1 DEF NoDangling
<1> QED
  BY <1>2, PtrSwapInvariant, PTL

\* rcu is atomic: a successful exchange replaces the data that its function was
\* given, although it compares addresses and addresses are used again
\* (PtrSwap.hpp 71-78).
THEOREM RcuCorrect == Spec => RcuIsAtomic
<1> DEFINE Atomic == \A t \in Threads :
                        op[t].at = "exchange" /\ op'[t].at = "retain" /\ mode # "rcu" =>
                            val[cell'] = Value(cell) + 1
<1>1. ASSUME mode # "rcu" => IInv, Next PROVE Atomic
  <2> SUFFICES ASSUME NEW t \in Threads, op[t].at = "exchange", op'[t].at = "retain",
                      mode # "rcu"
               PROVE  val[cell'] = Value(cell) + 1
    OBVIOUS
  <2>1. OperationOK(t) /\ op \in [Threads -> Frames]
    BY <1>1 DEF IInv, OperationsOK, CellTypes
  <2>2. RcuSucceeds(t)
    <3> SUFFICES ASSUME ~RcuSucceeds(t) PROVE FALSE
      OBVIOUS
    <3>1. ASSUME NEW u \in Threads, NEW r, op' = [op EXCEPT ![u] = r], u # t \/ r.at # "retain"
          PROVE  FALSE
      BY <2>1, <3>1
    <3>2. op' # op
      OBVIOUS
    <3>3. ASSUME NEW u \in Threads, Program(u) PROVE FALSE
      BY <3>1, <3>2, <3>3
      DEF Program, NewArg, CopyResult, Drop, Unkeep, LoadRead, SwapCopy, SwapMove, RcuRead,
          MayEnter, At, Goto
    <3>4. ASSUME NEW u \in Threads, Proceed(u) PROVE FALSE
      <4>1. CASE u = t
        <5>1. RcuFails(t)
          BY <3>2, <3>4, <4>1
          DEF Proceed, Reclaim, LoadRetain, SwapRetain, RcuAcquire, RcuAssign, RcuDropNew,
              RcuApply, RcuRetain, RcuDropCell, RcuReturn, At
        <5>2. PICK r : r = [op[t] EXCEPT !.at = "acquire", !.tmp = cell]
          OBVIOUS
        <5>3. r.at = "acquire" /\ op' = [op EXCEPT ![t] = r]
          BY <2>1, <5>1, <5>2 DEF RcuFails, Goto, Frames
        <5> QED
          BY <3>1, <5>3
      <4>2. CASE u # t
        BY <3>1, <3>2, <3>4, <4>2
        DEF Proceed, Reclaim, LoadRetain, SwapRetain, RcuAcquire, RcuAssign, RcuDropNew,
            RcuApply, RcuSucceeds, RcuFails, RcuRetain, RcuDropCell, RcuReturn, At, Goto
      <4> QED
        BY <4>1, <4>2
    <3> QED
      BY <1>1, <3>2, <3>3, <3>4 DEF Next, Recycle
  <2> QED
    BY <2>1, <2>2 DEF RcuSucceeds, OperationOK
<1>2. (mode # "rcu" => IInv) /\ [Next]_vars => [Atomic]_vars
  BY <1>1
<1> QED
  BY <1>2, PtrSwapInvariant, PTL DEF Spec, RcuIsAtomic
=============================================================================
