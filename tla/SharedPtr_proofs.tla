-------------------------- MODULE SharedPtr_proofs --------------------------
(***************************************************************************)
(* Theorems about SharedPtr, for any finite sets of threads and pointers,  *)
(* any blocks, of which any may know themselves, and any bound on leaks.   *)
(***************************************************************************)
EXTENDS SharedPtr, FiniteSetTheorems, TLAPS

-----------------------------------------------------------------------------
(* The inductive invariant.                                                *)

Operations == [at : Places, block : Blocks \cup {Null}, then : Kinds,
               to : Ptrs \cup Weaks \cup {Null},
               from : Ptrs \cup Weaks \cup {Null}, seen : Nat]

\* The pointers an operation has in its hands, and those that no thread but
\* t has.
UsedBy(t)    == {pc[t].to, pc[t].from} \ {Null}
MayUse(t, x) == \A u \in Threads : u # t => x \notin UsedBy(u)

\* What t's place in an operation says of the pointers it works on.
OperationOK(t) ==
    /\ pc[t].at = "idle" => pc[t].then = "none"
    /\ pc[t].at = "assign" => pc[t].then # "none"
    /\ pc[t].block = Null <=> pc[t].at \in {"idle", "assign"}
    /\ pc[t].then = "none" /\ pc[t].at # "upgrade" => pc[t].to = Null /\ pc[t].from = Null
    /\ pc[t].then \in {"copy", "move"} =>
          /\ pc[t].to \in Ptrs /\ pc[t].from \in Ptrs /\ pc[t].to # pc[t].from
          /\ ptr[pc[t].to] = Null
    /\ pc[t].then \in {"copyWeak", "moveWeak"} =>
          /\ pc[t].to \in Weaks /\ pc[t].from \in Weaks /\ pc[t].to # pc[t].from
          /\ wptr[pc[t].to] = Null
    /\ pc[t].at = "upgrade" =>
          /\ pc[t].then = "none" /\ pc[t].seen # 0
          /\ pc[t].to \in Ptrs /\ ptr[pc[t].to] = Null
          /\ pc[t].from \in Weaks /\ wptr[pc[t].from] = pc[t].block

\* Every operation is where its pointers say, and no two share a pointer.
OperationsOK ==
    /\ \A t \in Threads : OperationOK(t)
    /\ \A t \in Threads : \A x \in UsedBy(t) : MayUse(t, x)

\* The threads that are ending b's life.
Enders(b) == At({"members", "dtor", "dropWeak", "free"}, b)

\* The life of a block: it has SharedPtrs exactly while its data is there and
\* nobody ends it; one thread does, and takes the steps in their order.
LifeOK(b) ==
    /\ \A t, u \in Enders(b) : t = u
    /\ strong[b] > 0 <=> mem[b] = "live" /\ Enders(b) = {}
    /\ \A t \in Enders(b) :
          /\ pc[t].at = "members"  => mem[b] = "live" /\ self[b]
          /\ pc[t].at = "dtor"     => mem[b] = "live" /\ ~self[b]
          /\ pc[t].at = "dropWeak" => mem[b] = "destroyed"
          /\ pc[t].at = "free"     => mem[b] = "destroyed" /\ weak[b] = 0
    /\ self[b] => mem[b] = "live"
    /\ Watchers(b) # {} => mem[b] \in {"live", "destroyed"}

StrongOK(b) == strong[b] = Cardinality(Holders(b)) + leaked[b]
WeakOK(b)   == weak[b] = Cardinality(Watchers(b))
                         + (IF strong[b] > 0 \/ Destroyers(b) # {} THEN 1 ELSE 0)
                         + (IF self[b] THEN 1 ELSE 0)
BlockOK(b)  == StrongOK(b) /\ WeakOK(b) /\ LifeOK(b)

IInv == TypeOK /\ OperationsOK /\ \A b \in Blocks : BlockOK(b)

-----------------------------------------------------------------------------
(* The records that say where a thread is.                                 *)

\* Idle is an operation, and so is what r becomes when its place and its
\* block change.
LEMMA IdleFields ==
    /\ Idle \in Operations
    /\ Idle.at = "idle" /\ Idle.then = "none" /\ Idle.block = Null
    /\ Idle.to = Null /\ Idle.from = Null
  BY DEF Idle, Operations, Places, Kinds

\* A release moves its operation r to another place and block.
LEMMA PlaceFields ==
    ASSUME NEW r \in Operations, NEW a \in Places, NEW b \in Blocks \cup {Null},
           NEW q, q = [r EXCEPT !.at = a, !.block = b]
    PROVE  /\ q \in Operations
           /\ q.at = a /\ q.block = b
           /\ q.then = r.then /\ q.to = r.to /\ q.from = r.from /\ q.seen = r.seen
  BY DEF Operations

\* A destructor moves its operation r to the next place.
LEMMA AtFields ==
    ASSUME NEW r \in Operations, NEW a \in Places, NEW q, q = [r EXCEPT !.at = a]
    PROVE  /\ q \in Operations
           /\ q.at = a /\ q.block = r.block
           /\ q.then = r.then /\ q.to = r.to /\ q.from = r.from /\ q.seen = r.seen
  BY DEF Operations

\* After a release, the thread is idle or at the second half of an assignment.
LEMMA DoneFields ==
    ASSUME NEW r \in Operations
    PROVE  /\ Done(r) \in Operations
           /\ Done(r).at = IF r.then = "none" THEN "idle" ELSE "assign"
           /\ Done(r).block = Null /\ Done(r).then = r.then
           /\ r.then # "none" => Done(r).to = r.to /\ Done(r).from = r.from
           /\ r.then = "none" => Done(r).to = Null /\ Done(r).from = Null
<1>1. CASE r.then = "none"
  BY <1>1, IdleFields DEF Done
<1>2. CASE r.then # "none"
  <2>1. "assign" \in Places /\ Null \in Blocks \cup {Null}
    BY DEF Places
  <2>2. PICK q : q = [r EXCEPT !.at = "assign", !.block = Null]
    OBVIOUS
  <2>3. Done(r) = q
    BY <1>2, <2>2 DEF Done
  <2>4. /\ q \in Operations
        /\ q.at = "assign" /\ q.block = Null
        /\ q.then = r.then /\ q.to = r.to /\ q.from = r.from
    BY <2>1, <2>2 DEF Operations
  <2> QED
    BY <1>2, <2>3, <2>4
<1> QED
  BY <1>1, <1>2

\* The operation of an assignment, before anything was released.
LEMMA ThenFields ==
    ASSUME NEW kind \in Kinds, NEW x \in Ptrs \cup Weaks, NEW y \in Ptrs \cup Weaks
    PROVE  /\ Then(kind, x, y) \in Operations
           /\ Then(kind, x, y).at = "idle" /\ Then(kind, x, y).block = Null
           /\ Then(kind, x, y).then = kind
           /\ Then(kind, x, y).to = x /\ Then(kind, x, y).from = y
  BY DEF Then, Idle, Operations, Places

-----------------------------------------------------------------------------
(* How the sets of pointers change.                                        *)

\* The pointers to a block can be counted.
LEMMA CountPointers ==
    ASSUME NEW b
    PROVE  /\ IsFiniteSet(Holders(b)) /\ IsFiniteSet(Watchers(b))
           /\ Cardinality(Holders(b)) \in Nat /\ Cardinality(Watchers(b)) \in Nat
           /\ Cardinality(Holders(b)) = 0 <=> Holders(b) = {}
           /\ Cardinality(Watchers(b)) = 0 <=> Watchers(b) = {}
<1>1. IsFiniteSet(Holders(b)) /\ IsFiniteSet(Watchers(b))
  BY SharedPtrAssumption, FS_Subset DEF Holders, Watchers
<1> QED
  BY <1>1, FS_CardinalityType, FS_EmptySet

\* An empty SharedPtr gets a block.
LEMMA PtrGains ==
    ASSUME TypeOK, NEW p \in Ptrs, NEW b \in Blocks, ptr[p] = Null,
           ptr' = [ptr EXCEPT ![p] = b]
    PROVE  /\ Cardinality(Holders(b)') = Cardinality(Holders(b)) + 1
           /\ \A k \in Blocks : k # b => Holders(k)' = Holders(k)
<1>1. Null \notin Blocks
  BY SharedPtrAssumption
<1>2. p \notin Holders(b) /\ Holders(b)' = Holders(b) \cup {p}
  BY <1>1 DEF TypeOK, Holders
<1>3. \A k \in Blocks : k # b => Holders(k)' = Holders(k)
  BY <1>1 DEF TypeOK, Holders
<1> QED
  BY <1>2, <1>3, CountPointers, FS_AddElement

\* A SharedPtr gives its block up.
LEMMA PtrLoses ==
    ASSUME TypeOK, NEW p \in Ptrs, NEW b \in Blocks, ptr[p] = b,
           ptr' = [ptr EXCEPT ![p] = Null]
    PROVE  /\ Cardinality(Holders(b)') = Cardinality(Holders(b)) - 1
           /\ Holders(b) # {}
           /\ \A k \in Blocks : k # b => Holders(k)' = Holders(k)
<1>1. Null \notin Blocks
  BY SharedPtrAssumption
<1>2. p \in Holders(b) /\ Holders(b)' = Holders(b) \ {p}
  BY <1>1 DEF TypeOK, Holders
<1>3. \A k \in Blocks : k # b => Holders(k)' = Holders(k)
  BY <1>1 DEF TypeOK, Holders
<1> QED
  BY <1>2, <1>3, CountPointers, FS_RemoveElement

\* A SharedPtr takes over what another one held.
LEMMA PtrMoves ==
    ASSUME TypeOK, NEW p \in Ptrs, NEW q \in Ptrs, p # q, ptr[p] = Null,
           ptr' = [ptr EXCEPT ![p] = ptr[q], ![q] = Null]
    PROVE  \A k \in Blocks : Cardinality(Holders(k)') = Cardinality(Holders(k))
<1> SUFFICES ASSUME NEW k \in Blocks
             PROVE  Cardinality(Holders(k)') = Cardinality(Holders(k))
  OBVIOUS
<1>1. Null \notin Blocks
  BY SharedPtrAssumption
<1>2. CASE ptr[q] = k
  <2>1. q \in Holders(k) /\ p \notin Holders(k) \ {q}
    BY <1>1, <1>2 DEF Holders
  <2>2. Holders(k)' = (Holders(k) \ {q}) \cup {p}
    BY <1>1, <1>2 DEF TypeOK, Holders
  <2>3. IsFiniteSet(Holders(k) \ {q}) /\ Cardinality(Holders(k) \ {q}) = Cardinality(Holders(k)) - 1
    BY <2>1, CountPointers, FS_RemoveElement
  <2>4. Cardinality(Holders(k)') = (Cardinality(Holders(k)) - 1) + 1
    BY <2>1, <2>2, <2>3, FS_AddElement
  <2> QED
    BY <2>4, CountPointers
<1>3. CASE ptr[q] # k
  <2>1. Holders(k)' = Holders(k)
    BY <1>1, <1>3 DEF TypeOK, Holders
  <2> QED
    BY <2>1
<1> QED
  BY <1>2, <1>3

\* The same for WeakPtrs: one gets a block, ...
LEMMA WptrGains ==
    ASSUME TypeOK, NEW w \in Weaks, NEW b \in Blocks, wptr[w] = Null,
           wptr' = [wptr EXCEPT ![w] = b]
    PROVE  /\ Cardinality(Watchers(b)') = Cardinality(Watchers(b)) + 1
           /\ \A k \in Blocks : k # b => Watchers(k)' = Watchers(k)
<1>1. Null \notin Blocks
  BY SharedPtrAssumption
<1>2. w \notin Watchers(b) /\ Watchers(b)' = Watchers(b) \cup {w}
  BY <1>1 DEF TypeOK, Watchers
<1>3. \A k \in Blocks : k # b => Watchers(k)' = Watchers(k)
  BY <1>1 DEF TypeOK, Watchers
<1> QED
  BY <1>2, <1>3, CountPointers, FS_AddElement

\* ... one gives it up, ...
LEMMA WptrLoses ==
    ASSUME TypeOK, NEW w \in Weaks, NEW b \in Blocks, wptr[w] = b,
           wptr' = [wptr EXCEPT ![w] = Null]
    PROVE  /\ Cardinality(Watchers(b)') = Cardinality(Watchers(b)) - 1
           /\ Watchers(b) # {} /\ Watchers(b)' \subseteq Watchers(b)
           /\ \A k \in Blocks : k # b => Watchers(k)' = Watchers(k)
<1>1. Null \notin Blocks
  BY SharedPtrAssumption
<1>2. w \in Watchers(b) /\ Watchers(b)' = Watchers(b) \ {w}
  BY <1>1 DEF TypeOK, Watchers
<1>3. \A k \in Blocks : k # b => Watchers(k)' = Watchers(k)
  BY <1>1 DEF TypeOK, Watchers
<1> QED
  BY <1>2, <1>3, CountPointers, FS_RemoveElement

\* ... and one takes over what another one held.
LEMMA WptrMoves ==
    ASSUME TypeOK, NEW w \in Weaks, NEW v \in Weaks, w # v, wptr[w] = Null,
           wptr' = [wptr EXCEPT ![w] = wptr[v], ![v] = Null]
    PROVE  \A k \in Blocks : /\ Cardinality(Watchers(k)') = Cardinality(Watchers(k))
                             /\ Watchers(k)' # {} => Watchers(k) # {}
<1> SUFFICES ASSUME NEW k \in Blocks
             PROVE  /\ Cardinality(Watchers(k)') = Cardinality(Watchers(k))
                    /\ Watchers(k)' # {} => Watchers(k) # {}
  OBVIOUS
<1>1. Null \notin Blocks
  BY SharedPtrAssumption
<1>2. CASE wptr[v] = k
  <2>1. v \in Watchers(k) /\ w \notin Watchers(k) \ {v}
    BY <1>1, <1>2 DEF Watchers
  <2>2. Watchers(k)' = (Watchers(k) \ {v}) \cup {w}
    BY <1>1, <1>2 DEF TypeOK, Watchers
  <2>3. IsFiniteSet(Watchers(k) \ {v}) /\ Cardinality(Watchers(k) \ {v}) = Cardinality(Watchers(k)) - 1
    BY <2>1, CountPointers, FS_RemoveElement
  <2>4. Cardinality(Watchers(k)') = (Cardinality(Watchers(k)) - 1) + 1
    BY <2>1, <2>2, <2>3, FS_AddElement
  <2> QED
    BY <2>1, <2>4, CountPointers
<1>3. CASE wptr[v] # k
  <2>1. Watchers(k)' = Watchers(k)
    BY <1>1, <1>3 DEF TypeOK, Watchers
  <2> QED
    BY <2>1
<1> QED
  BY <1>2, <1>3

-----------------------------------------------------------------------------
(* What a step leaves alone.                                               *)

AtRest(r) == /\ r \in Operations
             /\ r.at = "idle" /\ r.then = "none" /\ r.block = Null
             /\ r.to = Null /\ r.from = Null

\* A thread outside the operations has no pointer in its hands, and may use
\* every one that is free; inside one it may use its own.
LEMMA Hands ==
    ASSUME IInv, NEW t \in Threads
    PROVE  /\ pc[t] \in Operations /\ pc = [pc EXCEPT ![t] = pc[t]]
           /\ Ready(t) => AtRest(pc[t])
           /\ \A x : Free(x) => MayUse(t, x)
           /\ \A x \in UsedBy(t) : MayUse(t, x)
<1>1. pc[t] \in Operations
  BY DEF IInv, TypeOK, Operations
<1>2. pc = [pc EXCEPT ![t] = pc[t]]
  BY DEF IInv, TypeOK
<1>3. Ready(t) => AtRest(pc[t])
  BY <1>1 DEF Ready, AtRest, IInv, OperationsOK, OperationOK
<1>4. \A x : Free(x) => MayUse(t, x)
  BY DEF Free, MayUse, UsedBy
<1>5. \A x \in UsedBy(t) : MayUse(t, x)
  BY DEF IInv, OperationsOK
<1> QED
  BY <1>1, <1>2, <1>3, <1>4, <1>5

\* A step of t that keeps to the pointers t may use disturbs no operation.
LEMMA OperationsKeep ==
    ASSUME IInv, TypeOK', NEW t \in Threads, NEW r, pc' = [pc EXCEPT ![t] = r],
           OperationOK(t)',
           r.to = Null \/ MayUse(t, r.to),
           r.from = Null \/ MayUse(t, r.from),
           \A x \in Ptrs : ptr'[x] = ptr[x] \/ MayUse(t, x),
           \A x \in Weaks : wptr'[x] = wptr[x] \/ MayUse(t, x)
    PROVE  OperationsOK'
<1>1. pc'[t] = r /\ \A u \in Threads : u # t => pc'[u] = pc[u]
  BY DEF IInv, TypeOK
<1>2. Null \notin Ptrs /\ Null \notin Weaks
  BY SharedPtrAssumption
<1>3. ASSUME NEW u \in Threads, u # t
      PROVE  OperationOK(u)'
  <2>1. OperationOK(u) /\ pc'[u] = pc[u]
    BY <1>1, <1>3 DEF IInv, OperationsOK
  <2>2. \A x \in UsedBy(u) : ~MayUse(t, x)
    BY <1>3 DEF MayUse
  <2>3. \A x \in Ptrs \cup Weaks : x \in {pc[u].to, pc[u].from} => ~MayUse(t, x)
    BY <1>2, <2>2 DEF UsedBy
  <2>4. /\ pc[u].to \in Ptrs => ptr'[pc[u].to] = ptr[pc[u].to]
        /\ pc[u].to \in Weaks => wptr'[pc[u].to] = wptr[pc[u].to]
        /\ pc[u].from \in Weaks => wptr'[pc[u].from] = wptr[pc[u].from]
    BY <2>3
  <2> QED
    BY <2>1, <2>4 DEF OperationOK
<1>4. ASSUME NEW u \in Threads, NEW x \in UsedBy(u)', NEW v \in Threads, v # u
      PROVE  x \notin UsedBy(v)'
  <2>1. \A w \in Threads : w # t => UsedBy(w)' = UsedBy(w)
    BY <1>1 DEF UsedBy
  <2>2. \A y \in UsedBy(t)' : MayUse(t, y)
    BY <1>1 DEF UsedBy
  <2>3. \A w \in Threads : \A y \in UsedBy(w) : MayUse(w, y)
    BY DEF IInv, OperationsOK
  <2> QED
    BY <1>4, <2>1, <2>2, <2>3 DEF MayUse
<1> QED
  BY <1>3, <1>4 DEF OperationsOK, MayUse

\* A step of t that has no part in the end of a block.
LEMMA EndersSame ==
    ASSUME IInv, NEW t \in Threads, NEW r, pc' = [pc EXCEPT ![t] = r],
           NEW k \in Blocks, t \notin Enders(k), t \notin Enders(k)'
    PROVE  /\ Enders(k)' = Enders(k) /\ Destroyers(k)' = Destroyers(k)
           /\ \A u \in Enders(k) : pc'[u] = pc[u]
<1>1. \A u \in Threads : u # t => pc'[u] = pc[u]
  BY DEF IInv, TypeOK
<1>2. Enders(k)' = Enders(k) /\ \A u \in Enders(k) : pc'[u] = pc[u]
  BY <1>1 DEF Enders, At
<1>3. Destroyers(k)' = Destroyers(k)
  BY <1>1 DEF Enders, Destroyers, At
<1> QED
  BY <1>2, <1>3

\* Those who destroy the data are among those who end the block's life.
LEMMA NoEnders ==
    ASSUME NEW b, Enders(b) = {}
    PROVE  Destroyers(b) = {}
  BY DEF Enders, Destroyers, At

\* A block whose end t has no part in, and of which the counters and the
\* numbers of its pointers stay the same.
LEMMA BlockKeeps ==
    ASSUME IInv, NEW t \in Threads, NEW r, pc' = [pc EXCEPT ![t] = r],
           NEW k \in Blocks, t \notin Enders(k), t \notin Enders(k)',
           strong'[k] = strong[k], weak'[k] = weak[k], mem'[k] = mem[k],
           self'[k] = self[k], leaked'[k] = leaked[k],
           Cardinality(Holders(k)') = Cardinality(Holders(k)),
           Cardinality(Watchers(k)') = Cardinality(Watchers(k)),
           Watchers(k)' # {} => Watchers(k) # {}
    PROVE  BlockOK(k)'
<1>1. /\ Enders(k)' = Enders(k) /\ Destroyers(k)' = Destroyers(k)
      /\ \A u \in Enders(k) : pc'[u] = pc[u]
  BY EndersSame
<1>2. BlockOK(k)
  BY DEF IInv
<1> QED
  BY <1>1, <1>2 DEF BlockOK, StrongOK, WeakOK, LifeOK

\* What t's new place means for the block b.
LEMMA EndersAre ==
    ASSUME IInv, NEW t \in Threads, NEW r, pc' = [pc EXCEPT ![t] = r], NEW b \in Blocks
    PROVE  /\ pc'[t] = r
           /\ \A u \in Enders(b)' : u # t => u \in Enders(b) /\ pc'[u] = pc[u]
           /\ \A u \in Enders(b) : u # t => u \in Enders(b)' /\ pc'[u] = pc[u]
           /\ t \in Enders(b)' <=> r.at \in {"members", "dtor", "dropWeak", "free"} /\ r.block = b
           /\ \A u : u \in Destroyers(b)' <=> u \in Enders(b)' /\ pc'[u].at # "free"
           /\ \A u : u \in Destroyers(b) <=> u \in Enders(b) /\ pc[u].at # "free"
<1>1. pc'[t] = r /\ \A u \in Threads : u # t => pc'[u] = pc[u]
  BY DEF IInv, TypeOK
<1> QED
  BY <1>1 DEF Enders, Destroyers, At

\* What BlockOK says, in numbers.
LEMMA BlockFacts ==
    ASSUME IInv, NEW b \in Blocks
    PROVE  /\ strong[b] \in Nat /\ weak[b] \in Nat /\ leaked[b] \in Nat
           /\ strong[b] = Cardinality(Holders(b)) + leaked[b]
           /\ weak[b] = Cardinality(Watchers(b))
                         + (IF strong[b] > 0 \/ Destroyers(b) # {} THEN 1 ELSE 0)
                         + (IF self[b] THEN 1 ELSE 0)
           /\ Cardinality(Holders(b)) \in Nat /\ Cardinality(Watchers(b)) \in Nat
           /\ Cardinality(Holders(b)) = 0 <=> Holders(b) = {}
           /\ Cardinality(Watchers(b)) = 0 <=> Watchers(b) = {}
           /\ LifeOK(b)
<1>1. BlockOK(b)
  BY DEF IInv
<1> QED
  BY <1>1, CountPointers DEF IInv, TypeOK, BlockOK, StrongOK, WeakOK

-----------------------------------------------------------------------------
(* The steps.                                                              *)

\* t's operation ends, or none was under way.
LEMMA RestIsOK ==
    ASSUME IInv, NEW t \in Threads, NEW r, AtRest(r), pc' = [pc EXCEPT ![t] = r]
    PROVE  /\ OperationOK(t)' /\ r.to = Null /\ r.from = Null
           /\ \A k \in Blocks : t \notin Enders(k)'
           /\ pc' \in [Threads -> Operations]
<1>1. pc'[t] = r /\ pc' \in [Threads -> Operations]
  BY DEF AtRest, IInv, TypeOK, Operations
<1>2. r.at = "idle" /\ r.then = "none" /\ r.block = Null /\ r.to = Null /\ r.from = Null
  BY DEF AtRest
<1> QED
  BY <1>1, <1>2 DEF OperationOK, Enders, At

\* make_shared: a block that nobody has seen.
LEMMA MakeSharedKeeps ==
    ASSUME IInv, NEW t \in Threads, NEW p \in Ptrs, NEW b \in Blocks, MakeShared(t, p, b)
    PROVE  IInv'
<1>1. /\ mem[b] = "unused" /\ ptr[p] = Null
      /\ mem' = [mem EXCEPT ![b] = "live"]
      /\ strong' = [strong EXCEPT ![b] = 1]
      /\ weak' = [weak EXCEPT ![b] = IF b \in SelfAware THEN 2 ELSE 1]
      /\ self' = [self EXCEPT ![b] = b \in SelfAware]
      /\ ptr' = [ptr EXCEPT ![p] = b]
      /\ wptr' = wptr /\ leaked' = leaked /\ pc' = [pc EXCEPT ![t] = pc[t]]
      /\ AtRest(pc[t]) /\ MayUse(t, p)
  BY Hands DEF MakeShared
<1>2. TypeOK'
  BY <1>1, RestIsOK DEF IInv, TypeOK, Operations
<1>3. OperationsOK'
  <2>1. \A x \in Ptrs : ptr'[x] = ptr[x] \/ MayUse(t, x)
    BY <1>1 DEF IInv, TypeOK
  <2>2. \A x \in Weaks : wptr'[x] = wptr[x] \/ MayUse(t, x)
    BY <1>1
  <2>3. OperationOK(t)' /\ pc[t].to = Null /\ pc[t].from = Null
    BY <1>1, RestIsOK
  <2> QED
    BY <1>1, <1>2, <2>1, <2>2, <2>3, OperationsKeep
<1>4. ASSUME NEW k \in Blocks, k # b
      PROVE  BlockOK(k)'
  <2>1. Holders(k)' = Holders(k) /\ Watchers(k)' = Watchers(k)
    BY <1>1, <1>4, PtrGains DEF IInv, Watchers
  <2>2. t \notin Enders(k) /\ t \notin Enders(k)'
    BY <1>1, RestIsOK DEF Enders, At, AtRest
  <2>3. /\ strong'[k] = strong[k] /\ weak'[k] = weak[k] /\ mem'[k] = mem[k]
        /\ self'[k] = self[k] /\ leaked'[k] = leaked[k]
    BY <1>1, <1>4 DEF IInv, TypeOK
  <2> QED
    BY <1>1, <2>1, <2>2, <2>3, BlockKeeps
<1>5. BlockOK(b)'
  <2>1. Enders(b) = {} /\ Watchers(b) = {} /\ strong[b] = 0
    BY <1>1, BlockFacts DEF LifeOK, Enders, At
  <2>2. Cardinality(Holders(b)) = 0 /\ leaked[b] = 0 /\ Cardinality(Watchers(b)) = 0
    <3>1. /\ strong[b] = Cardinality(Holders(b)) + leaked[b]
          /\ Cardinality(Holders(b)) \in Nat /\ leaked[b] \in Nat
      BY BlockFacts
    <3> QED
      BY <2>1, <3>1, FS_EmptySet
  <2>3. Cardinality(Holders(b)') = 1
    <3>1. Cardinality(Holders(b)') = Cardinality(Holders(b)) + 1
      BY <1>1, PtrGains DEF IInv
    <3> QED
      BY <2>2, <3>1
  <2>4. Watchers(b)' = {} /\ Cardinality(Watchers(b)') = 0 /\ leaked'[b] = 0
    BY <1>1, <2>1, <2>2 DEF Watchers
  <2>5. Enders(b)' = {} /\ Destroyers(b)' = {}
    <3>1. t \notin Enders(b)'
      BY <1>1, RestIsOK
    <3> QED
      BY <1>1, <2>1, <3>1, EndersSame, NoEnders
  <2>6. /\ strong'[b] = 1 /\ mem'[b] = "live" /\ self'[b] = (b \in SelfAware)
        /\ weak'[b] = IF b \in SelfAware THEN 2 ELSE 1
    BY <1>1 DEF IInv, TypeOK
  <2>7. StrongOK(b)' /\ WeakOK(b)'
    <3>1. StrongOK(b)'
      BY <2>3, <2>4, <2>6 DEF StrongOK
    <3>2. WeakOK(b)'
      <4>1. (b \in SelfAware => self'[b]) /\ (b \notin SelfAware => ~self'[b])
        BY <2>6
      <4>2. strong'[b] > 0 /\ weak'[b] = 1 + (IF self'[b] THEN 1 ELSE 0)
        BY <2>6, <4>1
      <4> QED
        BY <2>4, <4>2 DEF WeakOK
    <3> QED
      BY <3>1, <3>2
  <2>8. LifeOK(b)'
    BY <2>4, <2>5, <2>6 DEF LifeOK
  <2> QED
    BY <2>7, <2>8 DEF BlockOK
<1> QED
  BY <1>2, <1>3, <1>4, <1>5 DEF IInv

\* An empty SharedPtr becomes one more of a block that has some (copies, and
\* an upgrade that succeeds).
LEMMA GainStrong ==
    ASSUME IInv, NEW t \in Threads, NEW p \in Ptrs, NEW b \in Blocks,
           ptr[p] = Null, MayUse(t, p), strong[b] > 0,
           ptr' = [ptr EXCEPT ![p] = b],
           strong' = [strong EXCEPT ![b] = strong[b] + 1],
           UNCHANGED <<weak, mem, wptr, self, leaked>>,
           NEW r, AtRest(r), pc' = [pc EXCEPT ![t] = r],
           pc[t].at \in {"idle", "assign", "upgrade"}
    PROVE  IInv'
<1>1. \A k \in Blocks : t \notin Enders(k) /\ t \notin Enders(k)'
  BY RestIsOK DEF Enders, At
<1>2. TypeOK'
  <2>1. strong' \in [Blocks -> Nat]
    BY DEF IInv, TypeOK
  <2>2. ptr' \in [Ptrs -> Blocks \cup {Null}]
    BY DEF IInv, TypeOK
  <2>3. pc' \in [Threads -> Operations]
    BY RestIsOK
  <2> QED
    BY <2>1, <2>2, <2>3 DEF IInv, TypeOK, Operations
<1>3. OperationsOK'
  BY <1>2, RestIsOK, OperationsKeep DEF IInv, TypeOK
<1>4. ASSUME NEW k \in Blocks, k # b
      PROVE  BlockOK(k)'
  <2>1. Holders(k)' = Holders(k) /\ Watchers(k)' = Watchers(k)
    BY <1>4, PtrGains DEF IInv, Watchers
  <2>2. strong'[k] = strong[k]
    BY <1>4 DEF IInv, TypeOK
  <2> QED
    BY <1>1, <2>1, <2>2, BlockKeeps
<1>5. BlockOK(b)'
  <2>1. mem[b] = "live" /\ Enders(b) = {}
    BY BlockFacts DEF LifeOK
  <2>2. Enders(b)' = {} /\ Destroyers(b)' = {} /\ Destroyers(b) = {}
    BY <1>1, <2>1, EndersSame, NoEnders
  <2>3. Watchers(b)' = Watchers(b)
    BY DEF Watchers
  <2>4. strong'[b] = strong[b] + 1 /\ strong[b] \in Nat
    BY DEF IInv, TypeOK
  <2>5. StrongOK(b)'
    <3>1. Cardinality(Holders(b)') = Cardinality(Holders(b)) + 1
      BY PtrGains DEF IInv
    <3>2. Cardinality(Holders(b)) \in Nat /\ leaked[b] \in Nat /\ strong[b] = Cardinality(Holders(b)) + leaked[b]
      BY BlockFacts
    <3> QED
      BY <2>4, <3>1, <3>2 DEF StrongOK
  <2>6. WeakOK(b)'
    <3>1. BlockOK(b)
      BY DEF IInv
    <3> QED
      BY <2>2, <2>3, <2>4, <3>1 DEF BlockOK, WeakOK
  <2>7. LifeOK(b)'
    <3>1. BlockOK(b)
      BY DEF IInv
    <3> QED
      BY <2>1, <2>2, <2>3, <2>4, <3>1 DEF BlockOK, LifeOK
  <2> QED
    BY <2>5, <2>6, <2>7 DEF BlockOK
<1> QED
  BY <1>2, <1>3, <1>4, <1>5 DEF IInv

\* An empty WeakPtr becomes one more of a block that is still counted.
LEMMA GainWeak ==
    ASSUME IInv, NEW t \in Threads, NEW w \in Weaks, NEW b \in Blocks,
           wptr[w] = Null, MayUse(t, w), strong[b] > 0 \/ Watchers(b) # {},
           wptr' = [wptr EXCEPT ![w] = b],
           weak' = [weak EXCEPT ![b] = weak[b] + 1],
           UNCHANGED <<strong, mem, ptr, self, leaked>>,
           NEW r, AtRest(r), pc' = [pc EXCEPT ![t] = r],
           pc[t].at \in {"idle", "assign"}
    PROVE  IInv'
<1>1. \A k \in Blocks : t \notin Enders(k) /\ t \notin Enders(k)'
  BY RestIsOK DEF Enders, At
<1>2. TypeOK'
  <2>1. weak' \in [Blocks -> Nat]
    BY DEF IInv, TypeOK
  <2>2. wptr' \in [Weaks -> Blocks \cup {Null}]
    BY DEF IInv, TypeOK
  <2>3. pc' \in [Threads -> Operations]
    BY RestIsOK
  <2> QED
    BY <2>1, <2>2, <2>3 DEF IInv, TypeOK, Operations
<1>3. OperationsOK'
  BY <1>2, RestIsOK, OperationsKeep DEF IInv, TypeOK
<1>4. ASSUME NEW k \in Blocks, k # b
      PROVE  BlockOK(k)'
  <2>1. Holders(k)' = Holders(k) /\ Watchers(k)' = Watchers(k)
    BY <1>4, WptrGains DEF IInv, Holders
  <2>2. weak'[k] = weak[k]
    BY <1>4 DEF IInv, TypeOK
  <2> QED
    BY <1>1, <2>1, <2>2, BlockKeeps
<1>5. BlockOK(b)'
  <2>1. BlockOK(b) /\ weak[b] # 0 /\ mem[b] \in {"live", "destroyed"}
    BY BlockFacts DEF LifeOK, IInv
  <2>2. /\ Enders(b)' = Enders(b) /\ Destroyers(b)' = Destroyers(b)
        /\ \A u \in Enders(b) : pc'[u] = pc[u]
    BY <1>1, EndersSame
  <2>3. Holders(b)' = Holders(b)
    BY DEF Holders
  <2>4. weak'[b] = weak[b] + 1 /\ weak[b] \in Nat
    BY DEF IInv, TypeOK
  <2>5. StrongOK(b)'
    BY <2>1, <2>3 DEF BlockOK, StrongOK
  <2>6. WeakOK(b)'
    <3>1. /\ Cardinality(Watchers(b)') = Cardinality(Watchers(b)) + 1
          /\ Cardinality(Watchers(b)) \in Nat
      BY WptrGains, CountPointers DEF IInv
    <3> QED
      BY <2>1, <2>2, <2>4, <3>1 DEF BlockOK, WeakOK
  <2>7. LifeOK(b)'
    BY <2>1, <2>2, <2>4 DEF BlockOK, LifeOK
  <2> QED
    BY <2>5, <2>6, <2>7 DEF BlockOK
<1> QED
  BY <1>2, <1>3, <1>4, <1>5 DEF IInv

\* The second half of the operation q, if it has one, can be taken.
IntentOK(q) ==
    /\ q.then = "none" => q.to = Null /\ q.from = Null
    /\ q.then \in {"copy", "move"} =>
          q.to \in Ptrs /\ q.from \in Ptrs /\ q.to # q.from /\ ptr[q.to] = Null
    /\ q.then \in {"copyWeak", "moveWeak"} =>
          q.to \in Weaks /\ q.from \in Weaks /\ q.to # q.from /\ wptr[q.to] = Null

\* t goes to a place inside or behind a release.
LEMMA ReleaseIsOK ==
    ASSUME IInv, NEW t \in Threads, NEW q \in Operations, pc' = [pc EXCEPT ![t] = q],
           \/ q.at \in {"members", "dtor", "dropWeak", "free"} /\ q.block \in Blocks
           \/ q.at = (IF q.then = "none" THEN "idle" ELSE "assign") /\ q.block = Null,
           IntentOK(q)'
    PROVE  /\ OperationOK(t)'
           /\ pc' \in [Threads -> Operations]
<1>1. pc'[t] = q /\ pc' \in [Threads -> Operations]
  BY DEF IInv, TypeOK, Operations
<1>2. Null \notin Blocks
  BY SharedPtrAssumption
<1> QED
  BY <1>1, <1>2 DEF OperationOK, IntentOK

\* A block that t alone may be ending.
LEMMA SoleEnder ==
    ASSUME IInv, NEW t \in Threads, NEW q, pc' = [pc EXCEPT ![t] = q],
           NEW b \in Blocks, \A u \in Enders(b) : u = t
    PROVE  /\ pc'[t] = q
           /\ q.at \in {"members", "dtor", "dropWeak"} /\ q.block = b
                 => Enders(b)' = {t} /\ Destroyers(b)' = {t}
           /\ q.at = "free" /\ q.block = b => Enders(b)' = {t} /\ Destroyers(b)' = {}
           /\ q.block # b => Enders(b)' = {} /\ Destroyers(b)' = {}
<1>1. pc'[t] = q /\ \A u \in Threads : u # t => pc'[u] = pc[u]
  BY DEF IInv, TypeOK
<1>2. \A u \in Threads : u # t => u \notin Enders(b)
  OBVIOUS
<1> QED
  BY <1>1, <1>2 DEF Enders, Destroyers, At

\* A SharedPtr gives its block up; if it was the last one, the thread is the
\* one to end the block's life (the decrement of SharedPtr::release).
LEMMA DropStrongKeeps ==
    ASSUME IInv, NEW t \in Threads, NEW p \in Ptrs, NEW b \in Blocks,
           ptr[p] = b, MayUse(t, p), Ready(t),
           NEW r \in Operations, r.at = "idle", r.block = Null,
           \/ r.then = "none" /\ r.to = Null /\ r.from = Null
           \/ /\ r.then \in {"copy", "move"} /\ r.to = p
              /\ r.from \in Ptrs /\ r.from # p /\ MayUse(t, r.from),
           ptr' = [ptr EXCEPT ![p] = Null],
           DropStrong(t, b, r),
           UNCHANGED <<weak, mem, wptr, self, leaked>>
    PROVE  IInv'
<1> DEFINE a == IF self[b] THEN "members" ELSE "dtor"
<1>1. PICK q \in Operations :
         /\ pc' = [pc EXCEPT ![t] = q]
         /\ q.then = r.then /\ q.to = r.to /\ q.from = r.from
         /\ strong[b] = 1 => q.at = a /\ q.block = b
         /\ strong[b] # 1 => q.at = (IF q.then = "none" THEN "idle" ELSE "assign") /\ q.block = Null
  <2>1. CASE strong[b] = 1
    <3>1. PICK q : q = [r EXCEPT !.at = a, !.block = b]
      OBVIOUS
    <3>2. a \in Places
      BY DEF Places
    <3> HIDE DEF a
    <3>3. /\ q \in Operations /\ q.at = a /\ q.block = b
          /\ q.then = r.then /\ q.to = r.to /\ q.from = r.from
      BY <3>1, <3>2 DEF Operations
    <3>4. pc' = [pc EXCEPT ![t] = q]
      BY <2>1, <3>1 DEF DropStrong, a
    <3> QED
      BY <2>1, <3>3, <3>4
  <2>2. CASE strong[b] # 1
    <3>1. pc' = [pc EXCEPT ![t] = Done(r)]
      BY <2>2 DEF DropStrong
    <3>2. /\ Done(r) \in Operations
          /\ Done(r).at = (IF r.then = "none" THEN "idle" ELSE "assign") /\ Done(r).block = Null
          /\ Done(r).then = r.then /\ Done(r).to = r.to /\ Done(r).from = r.from
      BY DoneFields
    <3> QED
      BY <2>2, <3>1, <3>2
  <2> QED
    BY <2>1, <2>2
<1>2. Null \notin Blocks /\ Null \notin Ptrs /\ pc[t].block = Null
  BY SharedPtrAssumption, Hands DEF AtRest
<1>3. /\ Holders(b) # {} /\ Cardinality(Holders(b)') = Cardinality(Holders(b)) - 1
      /\ \A k \in Blocks : k # b => Holders(k)' = Holders(k)
  BY PtrLoses DEF IInv
<1>4. strong' = [strong EXCEPT ![b] = strong[b] - 1] /\ strong[b] \in Nat \ {0}
  <2>1. /\ strong[b] = Cardinality(Holders(b)) + leaked[b] /\ leaked[b] \in Nat
        /\ Cardinality(Holders(b)) \in Nat /\ Cardinality(Holders(b)) # 0
    BY <1>3, BlockFacts
  <2> QED
    BY <2>1 DEF DropStrong
<1>5. OperationOK(t)' /\ pc' \in [Threads -> Operations]
  <2>1. IntentOK(q)'
    BY <1>1 DEF IntentOK, IInv, TypeOK
  <2> QED
    BY <1>1, <2>1, ReleaseIsOK
<1>6. TypeOK'
  <2>1. strong' \in [Blocks -> Nat]
    <3>1. strong[b] - 1 \in Nat
      BY <1>4
    <3> QED
      BY <1>4, <3>1 DEF IInv, TypeOK
  <2>2. ptr' \in [Ptrs -> Blocks \cup {Null}]
    BY DEF IInv, TypeOK
  <2> QED
    BY <1>5, <2>1, <2>2 DEF IInv, TypeOK, Operations
<1>7. OperationsOK'
  <2>1. \A x \in Ptrs : ptr'[x] = ptr[x] \/ MayUse(t, x)
    BY DEF IInv, TypeOK
  <2>2. q.to = Null \/ MayUse(t, q.to)
    BY <1>1
  <2>3. q.from = Null \/ MayUse(t, q.from)
    BY <1>1
  <2> QED
    BY <1>1, <1>5, <1>6, <2>1, <2>2, <2>3, OperationsKeep
<1>8. ASSUME NEW k \in Blocks, k # b
      PROVE  BlockOK(k)'
  <2>1. Holders(k)' = Holders(k) /\ Watchers(k)' = Watchers(k)
    BY <1>3, <1>8 DEF Watchers
  <2>2. t \notin Enders(k) /\ t \notin Enders(k)'
    BY <1>1, <1>2, <1>8 DEF Enders, At, IInv, TypeOK
  <2>3. strong'[k] = strong[k]
    BY <1>4, <1>8 DEF IInv, TypeOK
  <2> QED
    BY <1>1, <2>1, <2>2, <2>3, BlockKeeps
<1>9. BlockOK(b)'
  <2>1. mem[b] = "live" /\ Enders(b) = {} /\ Destroyers(b) = {}
    BY <1>4, BlockFacts, NoEnders DEF LifeOK
  <2>2. strong'[b] = strong[b] - 1 /\ Watchers(b)' = Watchers(b)
    BY <1>4 DEF IInv, TypeOK, Watchers
  <2>3. /\ pc'[t] = q
        /\ strong[b] = 1 => Enders(b)' = {t} /\ Destroyers(b)' = {t}
        /\ strong[b] # 1 => Enders(b)' = {} /\ Destroyers(b)' = {}
    <3>1. \A u \in Enders(b) : u = t
      BY <2>1
    <3>2. a \in {"members", "dtor"}
      OBVIOUS
    <3> HIDE DEF a
    <3>3. pc'[t] = q
      BY <1>1, <2>1, SoleEnder
    <3>4. strong[b] = 1 => q.at \in {"members", "dtor", "dropWeak"} /\ q.block = b
      BY <1>1, <3>2
    <3>5. strong[b] # 1 => q.block # b
      BY <1>1, <1>2
    <3>6. /\ q.at \in {"members", "dtor", "dropWeak"} /\ q.block = b
               => Enders(b)' = {t} /\ Destroyers(b)' = {t}
          /\ q.block # b => Enders(b)' = {} /\ Destroyers(b)' = {}
      <4>1. pc' = [pc EXCEPT ![t] = q]
        BY <1>1
      <4>2. pc'[t] = q /\ \A u \in Threads : u # t => pc'[u] = pc[u]
        BY <4>1 DEF IInv, TypeOK
      <4>3. \A u \in Threads : u # t => u \notin Enders(b)
        BY <3>1
      <4> QED
        BY <4>2, <4>3 DEF Enders, Destroyers, At
    <3> QED
      BY <3>3, <3>4, <3>5, <3>6
  <2>4. BlockOK(b)
    BY DEF IInv
  <2>5. StrongOK(b)'
    <3>1. /\ Cardinality(Holders(b)) \in Nat /\ leaked[b] \in Nat
          /\ strong[b] = Cardinality(Holders(b)) + leaked[b]
      BY BlockFacts
    <3>2. strong'[b] = Cardinality(Holders(b)') + leaked'[b]
      BY <1>3, <2>2, <3>1
    <3> QED
      BY <3>2 DEF StrongOK
  <2>6. WeakOK(b)'
    <3>1. strong'[b] > 0 \/ Destroyers(b)' # {}
      BY <1>4, <2>2, <2>3
    <3>2. strong[b] > 0
      BY <1>4
    <3> QED
      BY <2>2, <2>4, <3>1, <3>2 DEF BlockOK, WeakOK
  <2>7. LifeOK(b)'
    BY <1>1, <1>4, <2>1, <2>2, <2>3, <2>4 DEF BlockOK, LifeOK
  <2> QED
    BY <2>5, <2>6, <2>7 DEF BlockOK
<1> QED
  BY <1>6, <1>7, <1>8, <1>9 DEF IInv

\* A WeakPtr gives its block up; if it was the last of all, the thread is to
\* free the block (the decrement of WeakPtr::release).
LEMMA DropWeakKeeps ==
    ASSUME IInv, NEW t \in Threads, NEW w \in Weaks, NEW b \in Blocks,
           wptr[w] = b, MayUse(t, w), Ready(t),
           NEW r \in Operations, r.at = "idle", r.block = Null,
           \/ r.then = "none" /\ r.to = Null /\ r.from = Null
           \/ /\ r.then \in {"copyWeak", "moveWeak"} /\ r.to = w
              /\ r.from \in Weaks /\ r.from # w /\ MayUse(t, r.from),
           wptr' = [wptr EXCEPT ![w] = Null],
           DropWeak(t, b, r, Done(r)),
           UNCHANGED <<strong, mem, ptr, self, leaked>>
    PROVE  IInv'
<1>1. PICK q \in Operations :
         /\ pc' = [pc EXCEPT ![t] = q]
         /\ q.then = r.then /\ q.to = r.to /\ q.from = r.from
         /\ weak[b] = 1 => q.at = "free" /\ q.block = b
         /\ weak[b] # 1 => q.at = (IF q.then = "none" THEN "idle" ELSE "assign") /\ q.block = Null
  <2>1. CASE weak[b] = 1
    <3>1. PICK q : q = [r EXCEPT !.at = "free", !.block = b]
      OBVIOUS
    <3>2. /\ q \in Operations /\ q.at = "free" /\ q.block = b
          /\ q.then = r.then /\ q.to = r.to /\ q.from = r.from
      BY <3>1 DEF Operations, Places
    <3>3. pc' = [pc EXCEPT ![t] = q]
      BY <2>1, <3>1 DEF DropWeak
    <3> QED
      BY <2>1, <3>2, <3>3
  <2>2. CASE weak[b] # 1
    <3>1. pc' = [pc EXCEPT ![t] = Done(r)]
      BY <2>2 DEF DropWeak
    <3>2. /\ Done(r) \in Operations
          /\ Done(r).at = (IF r.then = "none" THEN "idle" ELSE "assign") /\ Done(r).block = Null
          /\ Done(r).then = r.then /\ Done(r).to = r.to /\ Done(r).from = r.from
      BY DoneFields
    <3> QED
      BY <2>2, <3>1, <3>2
  <2> QED
    BY <2>1, <2>2
<1>2. Null \notin Blocks /\ Null \notin Weaks /\ pc[t].block = Null
  BY SharedPtrAssumption, Hands DEF AtRest
<1>3. /\ Watchers(b) # {} /\ Cardinality(Watchers(b)') = Cardinality(Watchers(b)) - 1
      /\ Watchers(b)' \subseteq Watchers(b)
      /\ \A k \in Blocks : k # b => Watchers(k)' = Watchers(k)
  BY WptrLoses DEF IInv
<1>4. /\ weak' = [weak EXCEPT ![b] = weak[b] - 1]
      /\ weak[b] \in Nat \ {0} /\ weak[b] - 1 \in Nat
      /\ Cardinality(Watchers(b)) \in Nat \ {0}
  <2>1. /\ weak[b] \in Nat /\ Cardinality(Watchers(b)) \in Nat \ {0}
        /\ weak[b] = Cardinality(Watchers(b))
                       + (IF strong[b] > 0 \/ Destroyers(b) # {} THEN 1 ELSE 0)
                       + (IF self[b] THEN 1 ELSE 0)
    BY <1>3, BlockFacts
  <2>2. weak[b] >= Cardinality(Watchers(b))
    BY <2>1
  <2> QED
    BY <2>1, <2>2 DEF DropWeak
<1>5. OperationOK(t)' /\ pc' \in [Threads -> Operations]
  <2>1. IntentOK(q)'
    BY <1>1 DEF IntentOK, IInv, TypeOK
  <2> QED
    BY <1>1, <2>1, ReleaseIsOK
<1>6. TypeOK'
  <2>1. weak' \in [Blocks -> Nat]
    BY <1>4 DEF IInv, TypeOK
  <2>2. wptr' \in [Weaks -> Blocks \cup {Null}]
    BY DEF IInv, TypeOK
  <2> QED
    BY <1>5, <2>1, <2>2 DEF IInv, TypeOK, Operations
<1>7. OperationsOK'
  <2>1. \A x \in Weaks : wptr'[x] = wptr[x] \/ MayUse(t, x)
    BY DEF IInv, TypeOK
  <2>2. q.to = Null \/ MayUse(t, q.to)
    BY <1>1
  <2>3. q.from = Null \/ MayUse(t, q.from)
    BY <1>1
  <2> QED
    BY <1>1, <1>5, <1>6, <2>1, <2>2, <2>3, OperationsKeep
<1>8. ASSUME NEW k \in Blocks, k # b
      PROVE  BlockOK(k)'
  <2>1. Holders(k)' = Holders(k) /\ Watchers(k)' = Watchers(k)
    BY <1>3, <1>8 DEF Holders
  <2>2. t \notin Enders(k) /\ t \notin Enders(k)'
    BY <1>1, <1>2, <1>8 DEF Enders, At, IInv, TypeOK
  <2>3. weak'[k] = weak[k]
    BY <1>4, <1>8 DEF IInv, TypeOK
  <2> QED
    BY <1>1, <2>1, <2>2, <2>3, BlockKeeps
<1>9. BlockOK(b)'
  <2>1. BlockOK(b) /\ mem[b] \in {"live", "destroyed"}
    BY <1>3 DEF IInv, BlockOK, LifeOK
  <2>2. weak'[b] = weak[b] - 1 /\ Holders(b)' = Holders(b)
    BY <1>4 DEF IInv, TypeOK, Holders
  <2>3. StrongOK(b)'
    BY <2>1, <2>2 DEF BlockOK, StrongOK
  <2>4. t \notin Enders(b)
    BY <1>2 DEF Enders, At
  <2>5. CASE weak[b] = 1
    <3>1. Cardinality(Watchers(b)) = 1 /\ ~(strong[b] > 0) /\ Destroyers(b) = {} /\ ~self[b]
      BY <1>4, <2>1, <2>5 DEF BlockOK, WeakOK
    <3>2. \A u \in Enders(b) : pc[u].at = "free"
      BY <3>1 DEF Enders, Destroyers, At
    <3>3. Enders(b) = {}
      BY <2>1, <2>5, <3>2 DEF BlockOK, LifeOK
    <3>4. mem[b] = "destroyed"
      BY <2>1, <3>1, <3>3 DEF BlockOK, LifeOK
    <3>5. pc'[t] = q /\ Enders(b)' = {t} /\ Destroyers(b)' = {}
      BY <1>1, <2>5, <3>3, SoleEnder
    <3>6. weak'[b] = 0 /\ Cardinality(Watchers(b)') = 0
      BY <1>3, <2>2, <2>5, <3>1
    <3>7. WeakOK(b)'
      BY <3>1, <3>5, <3>6 DEF WeakOK
    <3>8. LifeOK(b)'
      BY <1>1, <2>5, <3>1, <3>4, <3>5, <3>6 DEF LifeOK
    <3> QED
      BY <2>3, <3>7, <3>8 DEF BlockOK
  <2>6. CASE weak[b] # 1
    <3>1. t \notin Enders(b)'
      BY <1>1, <1>2, <2>6 DEF Enders, At, IInv, TypeOK
    <3>2. /\ Enders(b)' = Enders(b) /\ Destroyers(b)' = Destroyers(b)
          /\ \A u \in Enders(b) : pc'[u] = pc[u]
      BY <1>1, <2>4, <3>1, EndersSame
    <3>3. WeakOK(b)'
      BY <1>3, <1>4, <2>1, <2>2, <3>2 DEF BlockOK, WeakOK
    <3>4. \A u \in Enders(b) : pc[u].at # "free"
      BY <1>4, <2>1 DEF BlockOK, LifeOK
    <3>5. LifeOK(b)'
      BY <1>3, <2>1, <3>2, <3>4 DEF BlockOK, LifeOK
    <3> QED
      BY <2>3, <3>3, <3>5 DEF BlockOK
  <2> QED
    BY <2>5, <2>6
<1> QED
  BY <1>6, <1>7, <1>8, <1>9 DEF IInv

\* A thread that is ending a block's life is the only one to do so.
LEMMA EnderFacts ==
    ASSUME IInv, NEW t \in Threads, pc[t].at \in {"members", "dtor", "dropWeak", "free"},
           NEW b, pc[t].block = b
    PROVE  /\ b \in Blocks /\ t \in Enders(b) /\ \A u \in Enders(b) : u = t
           /\ strong[b] = 0
           /\ IntentOK(pc[t])
<1>1. b \in Blocks
  BY DEF IInv, TypeOK, OperationsOK, OperationOK
<1>2. t \in Enders(b)
  BY DEF Enders, At
<1>3. \A u \in Enders(b) : u = t
  BY <1>1, <1>2, BlockFacts DEF LifeOK
<1>4. strong[b] = 0
  BY <1>1, <1>2, BlockFacts DEF LifeOK
<1>5. IntentOK(pc[t])
  BY DEF IInv, OperationsOK, OperationOK, IntentOK
<1> QED
  BY <1>1, <1>2, <1>3, <1>4, <1>5

\* The next step of the end of b, by its only ender, who goes on with it or is
\* done with the release.
LEMMA EndStep ==
    ASSUME IInv, NEW t \in Threads, pc[t].at \in {"members", "dtor", "dropWeak", "free"},
           NEW b, pc[t].block = b,
           NEW q \in Operations, pc' = [pc EXCEPT ![t] = q],
           q.then = pc[t].then, q.to = pc[t].to, q.from = pc[t].from,
           \/ q.at \in {"members", "dtor", "dropWeak", "free"} /\ q.block = b
           \/ q.at = (IF q.then = "none" THEN "idle" ELSE "assign") /\ q.block = Null,
           UNCHANGED <<strong, ptr, wptr, leaked>>,
           weak' \in [Blocks -> Nat], self' \in [Blocks -> BOOLEAN],
           mem' \in [Blocks -> {"unused", "live", "destroyed", "freed"}],
           \A k \in Blocks : k # b => weak'[k] = weak[k] /\ self'[k] = self[k] /\ mem'[k] = mem[k],
           WeakOK(b)', LifeOK(b)'
    PROVE  IInv'
<1>1. b \in Blocks /\ IntentOK(pc[t]) /\ Null \notin Blocks
  BY EnderFacts, SharedPtrAssumption
<1>2. OperationOK(t)' /\ pc' \in [Threads -> Operations]
  <2>1. IntentOK(q)'
    BY <1>1 DEF IntentOK
  <2> QED
    BY <1>1, <2>1, ReleaseIsOK
<1>3. TypeOK'
  BY <1>2 DEF IInv, TypeOK, Operations
<1>4. OperationsOK'
  <2>1. \A x \in UsedBy(t) : MayUse(t, x)
    BY Hands
  <2>2. (q.to = Null \/ MayUse(t, q.to)) /\ (q.from = Null \/ MayUse(t, q.from))
    BY <2>1 DEF UsedBy
  <2> QED
    BY <1>2, <1>3, <2>2, OperationsKeep
<1>5. ASSUME NEW k \in Blocks, k # b
      PROVE  BlockOK(k)'
  <2>1. Holders(k)' = Holders(k) /\ Watchers(k)' = Watchers(k)
    BY DEF Holders, Watchers
  <2>2. t \notin Enders(k) /\ t \notin Enders(k)'
    BY <1>1, <1>5 DEF Enders, At, IInv, TypeOK
  <2>3. weak'[k] = weak[k] /\ self'[k] = self[k] /\ mem'[k] = mem[k]
    BY <1>5
  <2> QED
    BY <2>1, <2>2, <2>3, BlockKeeps
<1>6. BlockOK(b)'
  <2>1. StrongOK(b) /\ Holders(b)' = Holders(b)
    BY <1>1 DEF IInv, BlockOK, Holders
  <2> QED
    BY <2>1 DEF BlockOK, StrongOK
<1> QED
  BY <1>3, <1>4, <1>5, <1>6 DEF IInv

\* ~EnableSharedFromThis: the reference in the data goes, and it is never the
\* last one.
LEMMA DestroyMembersKeeps ==
    ASSUME IInv, NEW t \in Threads, DestroyMembers(t), NEW b, b = pc[t].block
    PROVE  IInv'
<1>1. pc[t].at = "members"
  BY DEF DestroyMembers
<1>2. b \in Blocks /\ t \in Enders(b) /\ (\A u \in Enders(b) : u = t) /\ strong[b] = 0
  BY <1>1, EnderFacts
<1>3. mem[b] = "live" /\ self[b] /\ Destroyers(b) # {}
  BY <1>1, <1>2, BlockFacts DEF LifeOK, Destroyers, At
<1>4. weak[b] = Cardinality(Watchers(b)) + 2 /\ Cardinality(Watchers(b)) \in Nat
  <2>1. WeakOK(b)
    BY <1>2 DEF IInv, BlockOK
  <2> QED
    BY <1>3, <2>1, CountPointers DEF WeakOK
<1>5. PICK q : q = [pc[t] EXCEPT !.at = "dtor"]
  OBVIOUS
<1>6. /\ q \in Operations /\ q.at = "dtor" /\ q.block = b
      /\ q.then = pc[t].then /\ q.to = pc[t].to /\ q.from = pc[t].from
  BY <1>5, Hands DEF Operations, Places
<1>7. /\ pc' = [pc EXCEPT ![t] = q]
      /\ weak' = [weak EXCEPT ![b] = weak[b] - 1]
      /\ self' = [self EXCEPT ![b] = FALSE]
      /\ UNCHANGED <<strong, mem, ptr, wptr, leaked>>
  <2>1. DropWeak(t, b, pc[t], q)
    BY <1>5 DEF DestroyMembers
  <2>2. weak[b] # 1
    BY <1>4
  <2> QED
    BY <2>1, <2>2 DEF DestroyMembers, DropWeak
<1>8. /\ weak'[b] = Cardinality(Watchers(b)) + 1 /\ ~self'[b]
      /\ Watchers(b)' = Watchers(b) /\ mem'[b] = "live" /\ strong'[b] = 0
  BY <1>2, <1>3, <1>4, <1>7 DEF IInv, TypeOK, Watchers
<1>9. pc'[t] = q /\ Enders(b)' = {t} /\ Destroyers(b)' = {t}
  BY <1>2, <1>6, <1>7, SoleEnder
<1>10. WeakOK(b)'
  BY <1>4, <1>8, <1>9 DEF WeakOK
<1>11. LifeOK(b)'
  BY <1>6, <1>8, <1>9 DEF LifeOK
<1>12. weak[b] - 1 \in Nat
  BY <1>4
<1>13. weak' \in [Blocks -> Nat] /\ self' \in [Blocks -> BOOLEAN]
  BY <1>7, <1>12 DEF IInv, TypeOK
<1>14. mem' \in [Blocks -> {"unused", "live", "destroyed", "freed"}]
  BY <1>7 DEF IInv, TypeOK
<1>15. \A k \in Blocks : k # b => weak'[k] = weak[k] /\ self'[k] = self[k] /\ mem'[k] = mem[k]
  BY <1>7 DEF IInv, TypeOK
<1> QED
  BY <1>1, <1>6, <1>7, <1>10, <1>11, <1>13, <1>14, <1>15, EndStep

\* The data is destroyed.
LEMMA DestroyDataKeeps ==
    ASSUME IInv, NEW t \in Threads, DestroyData(t), NEW b, b = pc[t].block
    PROVE  IInv'
<1>1. pc[t].at = "dtor"
  BY DEF DestroyData
<1>2. b \in Blocks /\ t \in Enders(b) /\ (\A u \in Enders(b) : u = t) /\ strong[b] = 0
  BY <1>1, EnderFacts
<1>3. mem[b] = "live" /\ ~self[b] /\ Destroyers(b) # {}
  BY <1>1, <1>2, BlockFacts DEF LifeOK, Destroyers, At
<1>4. WeakOK(b)
  BY <1>2 DEF IInv, BlockOK
<1>5. PICK q : q = [pc[t] EXCEPT !.at = "dropWeak"]
  OBVIOUS
<1>6. /\ q \in Operations /\ q.at = "dropWeak" /\ q.block = b
      /\ q.then = pc[t].then /\ q.to = pc[t].to /\ q.from = pc[t].from
  BY <1>5, Hands DEF Operations, Places
<1>7. /\ pc' = [pc EXCEPT ![t] = q]
      /\ mem' = [mem EXCEPT ![b] = "destroyed"]
      /\ UNCHANGED <<strong, weak, ptr, wptr, self, leaked>>
  BY <1>5 DEF DestroyData
<1>8. Watchers(b)' = Watchers(b) /\ mem'[b] = "destroyed"
  BY <1>2, <1>7 DEF IInv, TypeOK, Watchers
<1>9. pc'[t] = q /\ Enders(b)' = {t} /\ Destroyers(b)' = {t}
  BY <1>2, <1>6, <1>7, SoleEnder
<1>10. WeakOK(b)'
  BY <1>3, <1>4, <1>7, <1>8, <1>9 DEF WeakOK
<1>11. LifeOK(b)'
  BY <1>2, <1>3, <1>6, <1>7, <1>8, <1>9 DEF LifeOK
<1>12. mem' \in [Blocks -> {"unused", "live", "destroyed", "freed"}]
  BY <1>7 DEF IInv, TypeOK
<1>13. \A k \in Blocks : k # b => mem'[k] = mem[k]
  BY <1>7 DEF IInv, TypeOK
<1>14. weak' \in [Blocks -> Nat] /\ self' \in [Blocks -> BOOLEAN] /\ weak' = weak /\ self' = self
  BY <1>7 DEF IInv, TypeOK
<1> QED
  BY <1>1, <1>6, <1>7, <1>10, <1>11, <1>12, <1>13, <1>14, EndStep

\* The strong side's weak reference goes, and with the last one the block.
LEMMA DropCollectiveKeeps ==
    ASSUME IInv, NEW t \in Threads, DropCollective(t), NEW b, b = pc[t].block
    PROVE  IInv'
<1>1. pc[t].at = "dropWeak" /\ pc[t] \in Operations
  BY Hands DEF DropCollective
<1>2. b \in Blocks /\ t \in Enders(b) /\ (\A u \in Enders(b) : u = t) /\ strong[b] = 0
  BY <1>1, EnderFacts
<1>3. mem[b] = "destroyed" /\ ~self[b] /\ Destroyers(b) # {}
  BY <1>1, <1>2, BlockFacts DEF LifeOK, Destroyers, At
<1>4. weak[b] = Cardinality(Watchers(b)) + 1 /\ Cardinality(Watchers(b)) \in Nat
  <2>1. WeakOK(b)
    BY <1>2 DEF IInv, BlockOK
  <2> QED
    BY <1>2, <1>3, <2>1, CountPointers DEF WeakOK
<1>5. /\ weak' = [weak EXCEPT ![b] = weak[b] - 1]
      /\ UNCHANGED <<strong, mem, ptr, wptr, self, leaked>>
  BY DEF DropCollective, DropWeak
<1>6. PICK q \in Operations :
         /\ pc' = [pc EXCEPT ![t] = q]
         /\ q.then = pc[t].then /\ q.to = pc[t].to /\ q.from = pc[t].from
         /\ weak[b] = 1 => q.at = "free" /\ q.block = b
         /\ weak[b] # 1 => q.at = (IF q.then = "none" THEN "idle" ELSE "assign") /\ q.block = Null
  <2>1. CASE weak[b] = 1
    <3>1. PICK q : q = [pc[t] EXCEPT !.at = "free", !.block = b]
      OBVIOUS
    <3>2. /\ q \in Operations /\ q.at = "free" /\ q.block = b
          /\ q.then = pc[t].then /\ q.to = pc[t].to /\ q.from = pc[t].from
      BY <1>1, <1>2, <3>1 DEF Operations, Places
    <3>3. pc' = [pc EXCEPT ![t] = q]
      BY <2>1, <3>1 DEF DropCollective, DropWeak
    <3> QED
      BY <2>1, <3>2, <3>3
  <2>2. CASE weak[b] # 1
    <3>1. pc' = [pc EXCEPT ![t] = Done(pc[t])]
      BY <2>2 DEF DropCollective, DropWeak
    <3>2. pc[t].then = "none" => pc[t].to = Null /\ pc[t].from = Null
      BY <1>1, EnderFacts DEF IntentOK
    <3>3. /\ Done(pc[t]) \in Operations
          /\ Done(pc[t]).at = (IF pc[t].then = "none" THEN "idle" ELSE "assign")
          /\ Done(pc[t]).block = Null /\ Done(pc[t]).then = pc[t].then
          /\ Done(pc[t]).to = pc[t].to /\ Done(pc[t]).from = pc[t].from
      BY <1>1, <3>2, DoneFields
    <3> QED
      BY <2>2, <3>1, <3>3
  <2> QED
    BY <2>1, <2>2
<1>7. /\ weak'[b] = Cardinality(Watchers(b)) /\ ~self'[b] /\ strong'[b] = 0
      /\ Watchers(b)' = Watchers(b) /\ mem'[b] = "destroyed"
  BY <1>2, <1>3, <1>4, <1>5 DEF IInv, TypeOK, Watchers
<1>8. Null \notin Blocks
  BY SharedPtrAssumption
<1>9. /\ pc'[t] = q /\ Destroyers(b)' = {}
      /\ weak[b] = 1 => Enders(b)' = {t}
      /\ weak[b] # 1 => Enders(b)' = {}
  <2>1. weak[b] # 1 => q.block # b
    BY <1>2, <1>6, <1>8
  <2>2. CASE weak[b] = 1
    <3>1. q.at = "free" /\ q.block = b /\ pc' = [pc EXCEPT ![t] = q]
      BY <1>6, <2>2
    <3> QED
      BY <1>2, <2>2, <3>1, SoleEnder
  <2>3. CASE weak[b] # 1
    <3>1. q.block # b /\ pc' = [pc EXCEPT ![t] = q]
      BY <1>6, <2>1, <2>3
    <3>2. pc'[t] = q /\ \A u \in Threads : u # t => pc'[u] = pc[u]
      BY <3>1 DEF IInv, TypeOK
    <3> QED
      BY <1>2, <2>3, <3>1, <3>2 DEF Enders, Destroyers, At
  <2> QED
    BY <2>2, <2>3
<1>10. WeakOK(b)'
  BY <1>4, <1>7, <1>9 DEF WeakOK
<1>11. LifeOK(b)'
  BY <1>4, <1>6, <1>7, <1>9 DEF LifeOK
<1>12. weak[b] - 1 \in Nat
  BY <1>4
<1>13. weak' \in [Blocks -> Nat] /\ self' \in [Blocks -> BOOLEAN]
  BY <1>5, <1>12 DEF IInv, TypeOK
<1>14. mem' \in [Blocks -> {"unused", "live", "destroyed", "freed"}]
  BY <1>5 DEF IInv, TypeOK
<1>15. \A k \in Blocks : k # b => weak'[k] = weak[k] /\ self'[k] = self[k] /\ mem'[k] = mem[k]
  BY <1>5 DEF IInv, TypeOK
<1>16. \/ q.at \in {"members", "dtor", "dropWeak", "free"} /\ q.block = b
       \/ q.at = (IF q.then = "none" THEN "idle" ELSE "assign") /\ q.block = Null
  BY <1>6
<1> QED
  BY <1>1, <1>5, <1>6, <1>10, <1>11, <1>13, <1>14, <1>15, <1>16, EndStep

\* The block is freed.
LEMMA DestroyBlockKeeps ==
    ASSUME IInv, NEW t \in Threads, DestroyBlock(t), NEW b, b = pc[t].block
    PROVE  IInv'
<1>1. pc[t].at = "free" /\ pc[t] \in Operations
  BY Hands DEF DestroyBlock
<1>2. b \in Blocks /\ t \in Enders(b) /\ (\A u \in Enders(b) : u = t) /\ strong[b] = 0
  BY <1>1, EnderFacts
<1>3. mem[b] = "destroyed" /\ ~self[b] /\ weak[b] = 0
  BY <1>1, <1>2, BlockFacts DEF LifeOK
<1>4. Watchers(b) = {} /\ Cardinality(Watchers(b)) = 0
  <2>1. WeakOK(b)
    BY <1>2 DEF IInv, BlockOK
  <2>2. Cardinality(Watchers(b)) = 0
    BY <1>3, <2>1, CountPointers DEF WeakOK
  <2> QED
    BY <2>2, CountPointers
<1>5. /\ mem' = [mem EXCEPT ![b] = "freed"]
      /\ pc' = [pc EXCEPT ![t] = Done(pc[t])]
      /\ UNCHANGED <<strong, weak, ptr, wptr, self, leaked>>
  BY DEF DestroyBlock
<1>6. PICK q \in Operations :
         /\ pc' = [pc EXCEPT ![t] = q]
         /\ q.then = pc[t].then /\ q.to = pc[t].to /\ q.from = pc[t].from
         /\ q.at = (IF q.then = "none" THEN "idle" ELSE "assign") /\ q.block = Null
  <2>1. pc[t].then = "none" => pc[t].to = Null /\ pc[t].from = Null
    BY <1>1, EnderFacts DEF IntentOK
  <2>2. /\ Done(pc[t]) \in Operations
        /\ Done(pc[t]).at = (IF pc[t].then = "none" THEN "idle" ELSE "assign")
        /\ Done(pc[t]).block = Null /\ Done(pc[t]).then = pc[t].then
        /\ Done(pc[t]).to = pc[t].to /\ Done(pc[t]).from = pc[t].from
    BY <1>1, <2>1, DoneFields
  <2> QED
    BY <1>5, <2>2
<1>7. /\ weak'[b] = 0 /\ ~self'[b] /\ strong'[b] = 0
      /\ Watchers(b)' = Watchers(b) /\ mem'[b] = "freed"
  BY <1>2, <1>3, <1>5 DEF IInv, TypeOK, Watchers
<1>8. Null # b
  BY <1>2, SharedPtrAssumption
<1>9. Enders(b)' = {} /\ Destroyers(b)' = {}
  <2>1. q.block # b /\ pc' = [pc EXCEPT ![t] = q]
    BY <1>6, <1>8
  <2>2. pc'[t] = q /\ \A u \in Threads : u # t => pc'[u] = pc[u]
    BY <2>1 DEF IInv, TypeOK
  <2> QED
    BY <1>2, <2>1, <2>2 DEF Enders, Destroyers, At
<1>10. WeakOK(b)'
  BY <1>4, <1>7, <1>9 DEF WeakOK
<1>11. LifeOK(b)'
  BY <1>4, <1>7, <1>9 DEF LifeOK
<1>12. mem' \in [Blocks -> {"unused", "live", "destroyed", "freed"}]
  BY <1>5 DEF IInv, TypeOK
<1>13. \A k \in Blocks : k # b => mem'[k] = mem[k]
  BY <1>5 DEF IInv, TypeOK
<1>14. weak' \in [Blocks -> Nat] /\ self' \in [Blocks -> BOOLEAN] /\ weak' = weak /\ self' = self
  BY <1>5 DEF IInv, TypeOK
<1> QED
  BY <1>1, <1>5, <1>6, <1>10, <1>11, <1>12, <1>13, <1>14, EndStep

\* A step that has to do with no counter: t starts or ends a loop, or goes to
\* the second half of an assignment, or moves a pointer to another place.
LEMMA QuietStep ==
    ASSUME IInv, NEW t \in Threads, NEW r \in Operations, pc' = [pc EXCEPT ![t] = r],
           pc[t].at \in {"idle", "assign", "upgrade"},
           r.at \in {"idle", "assign", "upgrade"}, OperationOK(t)',
           r.to = Null \/ MayUse(t, r.to),
           r.from = Null \/ MayUse(t, r.from),
           UNCHANGED <<strong, weak, mem, self, leaked>>,
           ptr' \in [Ptrs -> Blocks \cup {Null}], wptr' \in [Weaks -> Blocks \cup {Null}],
           \A x \in Ptrs : ptr'[x] = ptr[x] \/ MayUse(t, x),
           \A x \in Weaks : wptr'[x] = wptr[x] \/ MayUse(t, x),
           \A k \in Blocks : /\ Cardinality(Holders(k)') = Cardinality(Holders(k))
                             /\ Cardinality(Watchers(k)') = Cardinality(Watchers(k))
                             /\ Watchers(k)' # {} => Watchers(k) # {}
    PROVE  IInv'
<1>1. pc'[t] = r /\ pc' \in [Threads -> Operations]
  BY DEF IInv, TypeOK, Operations
<1>2. TypeOK'
  BY <1>1 DEF IInv, TypeOK, Operations
<1>3. OperationsOK'
  BY <1>2, OperationsKeep
<1>4. ASSUME NEW k \in Blocks
      PROVE  BlockOK(k)'
  <2>1. t \notin Enders(k) /\ t \notin Enders(k)'
    BY <1>1 DEF Enders, At
  <2> QED
    BY <2>1, BlockKeeps
<1> QED
  BY <1>2, <1>3, <1>4 DEF IInv

\* The same when no pointer moves.
LEMMA OnlyPlace ==
    ASSUME IInv, NEW t \in Threads, NEW r \in Operations, pc' = [pc EXCEPT ![t] = r],
           pc[t].at \in {"idle", "assign", "upgrade"},
           r.at \in {"idle", "assign", "upgrade"}, OperationOK(t)',
           r.to = Null \/ MayUse(t, r.to),
           r.from = Null \/ MayUse(t, r.from),
           UNCHANGED <<strong, weak, mem, ptr, wptr, self, leaked>>
    PROVE  IInv'
<1>1. ptr' \in [Ptrs -> Blocks \cup {Null}] /\ wptr' \in [Weaks -> Blocks \cup {Null}]
  BY DEF IInv, TypeOK
<1>2. \A k \in Blocks : Holders(k)' = Holders(k) /\ Watchers(k)' = Watchers(k)
  BY DEF Holders, Watchers
<1>3. \A k \in Blocks : /\ Cardinality(Holders(k)') = Cardinality(Holders(k))
                        /\ Cardinality(Watchers(k)') = Cardinality(Watchers(k))
                        /\ Watchers(k)' # {} => Watchers(k) # {}
  BY <1>2
<1>4. /\ \A x \in Ptrs : ptr'[x] = ptr[x] \/ MayUse(t, x)
      /\ \A x \in Weaks : wptr'[x] = wptr[x] \/ MayUse(t, x)
  OBVIOUS
<1> QED
  BY <1>1, <1>3, <1>4, QuietStep

\* leak() and adoptFromRaw: the count goes from a pointer to the raw ones or
\* back, and strong stays.
LEMMA LeakKeeps ==
    ASSUME IInv, NEW t \in Threads, NEW p \in Ptrs, NEW b \in Blocks,
           Ready(t), MayUse(t, p),
           UNCHANGED <<strong, weak, mem, wptr, self, pc>>,
           \/ /\ ptr[p] = b /\ ptr' = [ptr EXCEPT ![p] = Null]
              /\ leaked' = [leaked EXCEPT ![b] = leaked[b] + 1]
           \/ /\ ptr[p] = Null /\ ptr' = [ptr EXCEPT ![p] = b]
              /\ leaked[b] > 0 /\ leaked' = [leaked EXCEPT ![b] = leaked[b] - 1]
    PROVE  IInv'
<1>1. PICK r : r = pc[t]
  OBVIOUS
<1>2. AtRest(r) /\ pc' = [pc EXCEPT ![t] = r]
  BY <1>1, Hands
<1>3. /\ leaked' \in [Blocks -> Nat]
      /\ \A k \in Blocks : k # b => leaked'[k] = leaked[k]
      /\ leaked[b] \in Nat
      /\ \/ leaked'[b] = leaked[b] + 1 /\ Cardinality(Holders(b)') = Cardinality(Holders(b)) - 1
         \/ leaked'[b] = leaked[b] - 1 /\ Cardinality(Holders(b)') = Cardinality(Holders(b)) + 1
      /\ \A k \in Blocks : k # b => Holders(k)' = Holders(k)
      /\ ptr' \in [Ptrs -> Blocks \cup {Null}]
      /\ \A x \in Ptrs : ptr'[x] = ptr[x] \/ MayUse(t, x)
  <2>1. leaked[b] \in Nat /\ TypeOK
    BY DEF IInv, TypeOK
  <2>2. CASE /\ ptr[p] = b /\ ptr' = [ptr EXCEPT ![p] = Null]
             /\ leaked' = [leaked EXCEPT ![b] = leaked[b] + 1]
    <3>1. /\ Cardinality(Holders(b)') = Cardinality(Holders(b)) - 1
          /\ \A k \in Blocks : k # b => Holders(k)' = Holders(k)
      BY <2>1, <2>2, PtrLoses
    <3>2. leaked[b] + 1 \in Nat
      BY <2>1
    <3> QED
      BY <2>1, <2>2, <3>1, <3>2 DEF TypeOK
  <2>3. CASE /\ ptr[p] = Null /\ ptr' = [ptr EXCEPT ![p] = b]
             /\ leaked[b] > 0 /\ leaked' = [leaked EXCEPT ![b] = leaked[b] - 1]
    <3>1. /\ Cardinality(Holders(b)') = Cardinality(Holders(b)) + 1
          /\ \A k \in Blocks : k # b => Holders(k)' = Holders(k)
      BY <2>1, <2>3, PtrGains
    <3>2. leaked[b] - 1 \in Nat
      BY <2>1, <2>3
    <3> QED
      BY <2>1, <2>3, <3>1, <3>2 DEF TypeOK
  <2> QED
    BY <2>2, <2>3
<1>4. TypeOK'
  BY <1>3 DEF IInv, TypeOK
<1>5. OperationsOK'
  <2>1. OperationOK(t)' /\ r.to = Null /\ r.from = Null
    BY <1>2, RestIsOK
  <2>2. \A x \in Weaks : wptr'[x] = wptr[x] \/ MayUse(t, x)
    OBVIOUS
  <2> QED
    BY <1>2, <1>3, <1>4, <2>1, <2>2, OperationsKeep
<1>6. \A k \in Blocks : t \notin Enders(k) /\ t \notin Enders(k)'
  BY DEF Enders, At, Ready
<1>7. ASSUME NEW k \in Blocks, k # b
      PROVE  BlockOK(k)'
  <2>1. Holders(k)' = Holders(k) /\ Watchers(k)' = Watchers(k) /\ leaked'[k] = leaked[k]
    BY <1>3, <1>7 DEF Watchers
  <2> QED
    BY <1>2, <1>6, <2>1, BlockKeeps
<1>8. BlockOK(b)'
  <2>1. BlockOK(b)
    BY DEF IInv
  <2>2. StrongOK(b)'
    <3>1. /\ strong[b] = Cardinality(Holders(b)) + leaked[b]
          /\ Cardinality(Holders(b)) \in Nat
      BY BlockFacts
    <3>2. strong[b] = Cardinality(Holders(b)') + leaked'[b]
      BY <1>3, <3>1
    <3> QED
      BY <3>2 DEF StrongOK
  <2>3. Watchers(b)' = Watchers(b) /\ Enders(b)' = Enders(b) /\ Destroyers(b)' = Destroyers(b)
    BY DEF Watchers, Enders, Destroyers, At
  <2>4. WeakOK(b)'
    BY <2>1, <2>3 DEF BlockOK, WeakOK
  <2>5. LifeOK(b)'
    BY <2>1, <2>3 DEF BlockOK, LifeOK
  <2> QED
    BY <2>2, <2>4, <2>5 DEF BlockOK
<1> QED
  BY <1>4, <1>5, <1>7, <1>8 DEF IInv

\* Assignment to an empty pointer starts with its second half.
LEMMA IntendKeeps ==
    ASSUME IInv, NEW t \in Threads, Ready(t), NEW kind \in Kinds \ {"none"},
           NEW x, NEW y, x # y, MayUse(t, x), MayUse(t, y),
           \/ kind \in {"copy", "move"} /\ x \in Ptrs /\ y \in Ptrs /\ ptr[x] = Null
           \/ kind \in {"copyWeak", "moveWeak"} /\ x \in Weaks /\ y \in Weaks /\ wptr[x] = Null,
           pc' = [pc EXCEPT ![t] = Done(Then(kind, x, y))],
           UNCHANGED <<strong, weak, mem, ptr, wptr, self, leaked>>
    PROVE  IInv'
<1>1. PICK r : r = Done(Then(kind, x, y))
  OBVIOUS
<1>2. /\ r \in Operations /\ r.at = "assign" /\ r.block = Null
      /\ r.then = kind /\ r.to = x /\ r.from = y
  <2>1. /\ Then(kind, x, y) \in Operations
        /\ Then(kind, x, y).then = kind
        /\ Then(kind, x, y).to = x /\ Then(kind, x, y).from = y
    BY ThenFields
  <2> QED
    BY <1>1, <2>1, DoneFields
<1>3. pc' = [pc EXCEPT ![t] = r] /\ pc'[t] = r
  BY <1>1 DEF IInv, TypeOK
<1>4. OperationOK(t)'
  BY <1>2, <1>3, SharedPtrAssumption DEF OperationOK, Kinds
<1> QED
  BY <1>2, <1>3, <1>4, OnlyPlace DEF Ready

\* The second half of an assignment, of SharedPtrs.
LEMMA FinishKeeps ==
    ASSUME IInv, NEW t \in Threads, FinishCopy(t) \/ FinishMove(t)
    PROVE  IInv'
<1>1. PICK p, q : p = pc[t].to /\ q = pc[t].from
  OBVIOUS
<1>2. PICK r : r = Idle
  OBVIOUS
<1>3. AtRest(r) /\ r \in Operations
  BY <1>2, IdleFields DEF AtRest
<1>4. /\ pc[t].at = "assign" /\ pc[t].then \in {"copy", "move"}
      /\ pc' = [pc EXCEPT ![t] = r]
      /\ UNCHANGED <<weak, mem, wptr, self, leaked>>
  BY <1>2 DEF FinishCopy, FinishMove
<1>5. p \in Ptrs /\ q \in Ptrs /\ p # q /\ ptr[p] = Null
  BY <1>1, <1>4 DEF IInv, OperationsOK, OperationOK
<1>6. MayUse(t, p) /\ MayUse(t, q)
  <2>1. p \in UsedBy(t) /\ q \in UsedBy(t)
    BY <1>1, <1>5, SharedPtrAssumption DEF UsedBy
  <2> QED
    BY <2>1, Hands
<1>7. OperationOK(t)' /\ r.to = Null /\ r.from = Null
  BY <1>3, <1>4, RestIsOK
<1>8. CASE FinishCopy(t) /\ ptr[q] # Null
  <2>1. PICK b \in Blocks : q \in Holders(b) /\ ptr[q] = b
    BY <1>5, <1>8 DEF IInv, TypeOK, Holders
  <2>2. /\ ptr' = [ptr EXCEPT ![p] = b]
        /\ strong' = [strong EXCEPT ![b] = strong[b] + 1]
    BY <1>1, <1>8, <2>1 DEF FinishCopy, IInv, TypeOK
  <2>3. strong[b] > 0
    <3>1. /\ strong[b] = Cardinality(Holders(b)) + leaked[b] /\ leaked[b] \in Nat
          /\ Cardinality(Holders(b)) \in Nat /\ Cardinality(Holders(b)) # 0
      BY <2>1, BlockFacts
    <3> QED
      BY <3>1
  <2> QED
    BY <1>3, <1>4, <1>5, <1>6, <2>2, <2>3, GainStrong
<1>9. CASE FinishCopy(t) /\ ptr[q] = Null
  <2>1. ptr' = ptr /\ strong' = strong
    BY <1>1, <1>5, <1>9, SharedPtrAssumption DEF FinishCopy, IInv, TypeOK
  <2> QED
    BY <1>3, <1>4, <1>7, <2>1, OnlyPlace DEF AtRest
<1>10. CASE FinishMove(t)
  <2>1. ptr' = [ptr EXCEPT ![p] = ptr[q], ![q] = Null] /\ strong' = strong
    BY <1>1, <1>10 DEF FinishMove
  <2>2. \A k \in Blocks : Cardinality(Holders(k)') = Cardinality(Holders(k))
    BY <1>5, <2>1, PtrMoves DEF IInv
  <2>3. \A k \in Blocks : Watchers(k)' = Watchers(k)
    BY <1>4 DEF Watchers
  <2>4. \A k \in Blocks : /\ Cardinality(Holders(k)') = Cardinality(Holders(k))
                          /\ Cardinality(Watchers(k)') = Cardinality(Watchers(k))
                          /\ Watchers(k)' # {} => Watchers(k) # {}
    BY <2>2, <2>3
  <2>5. ptr' \in [Ptrs -> Blocks \cup {Null}] /\ wptr' \in [Weaks -> Blocks \cup {Null}]
    BY <1>4, <1>5, <2>1 DEF IInv, TypeOK
  <2>6. /\ \A x \in Ptrs : ptr'[x] = ptr[x] \/ MayUse(t, x)
        /\ \A x \in Weaks : wptr'[x] = wptr[x] \/ MayUse(t, x)
    BY <1>4, <1>5, <1>6, <2>1 DEF IInv, TypeOK
  <2> QED
    BY <1>3, <1>4, <1>7, <2>1, <2>4, <2>5, <2>6, QuietStep DEF AtRest
<1> QED
  BY <1>8, <1>9, <1>10

\* The second half of an assignment, of WeakPtrs.
LEMMA FinishWeakKeeps ==
    ASSUME IInv, NEW t \in Threads, FinishCopyWeak(t) \/ FinishMoveWeak(t)
    PROVE  IInv'
<1>1. PICK w, v : w = pc[t].to /\ v = pc[t].from
  OBVIOUS
<1>2. PICK r : r = Idle
  OBVIOUS
<1>3. AtRest(r) /\ r \in Operations
  BY <1>2, IdleFields DEF AtRest
<1>4. /\ pc[t].at = "assign" /\ pc[t].then \in {"copyWeak", "moveWeak"}
      /\ pc' = [pc EXCEPT ![t] = r]
      /\ UNCHANGED <<strong, mem, ptr, self, leaked>>
  BY <1>2 DEF FinishCopyWeak, FinishMoveWeak
<1>5. w \in Weaks /\ v \in Weaks /\ w # v /\ wptr[w] = Null
  BY <1>1, <1>4 DEF IInv, OperationsOK, OperationOK
<1>6. MayUse(t, w) /\ MayUse(t, v)
  <2>1. w \in UsedBy(t) /\ v \in UsedBy(t)
    BY <1>1, <1>5, SharedPtrAssumption DEF UsedBy
  <2> QED
    BY <2>1, Hands
<1>7. OperationOK(t)' /\ r.to = Null /\ r.from = Null
  BY <1>3, <1>4, RestIsOK
<1>8. CASE FinishCopyWeak(t) /\ wptr[v] # Null
  <2>1. PICK b \in Blocks : v \in Watchers(b) /\ wptr[v] = b
    BY <1>5, <1>8 DEF IInv, TypeOK, Watchers
  <2>2. /\ wptr' = [wptr EXCEPT ![w] = b]
        /\ weak' = [weak EXCEPT ![b] = weak[b] + 1]
    BY <1>1, <1>8, <2>1 DEF FinishCopyWeak, IInv, TypeOK
  <2>3. Watchers(b) # {}
    BY <2>1
  <2> QED
    BY <1>3, <1>4, <1>5, <1>6, <2>2, <2>3, GainWeak
<1>9. CASE FinishCopyWeak(t) /\ wptr[v] = Null
  <2>1. wptr' = wptr /\ weak' = weak
    BY <1>1, <1>5, <1>9, SharedPtrAssumption DEF FinishCopyWeak, IInv, TypeOK
  <2> QED
    BY <1>3, <1>4, <1>7, <2>1, OnlyPlace DEF AtRest
<1>10. CASE FinishMoveWeak(t)
  <2>1. wptr' = [wptr EXCEPT ![w] = wptr[v], ![v] = Null] /\ weak' = weak
    BY <1>1, <1>10 DEF FinishMoveWeak
  <2>2. \A k \in Blocks : /\ Cardinality(Watchers(k)') = Cardinality(Watchers(k))
                          /\ Watchers(k)' # {} => Watchers(k) # {}
    BY <1>5, <2>1, WptrMoves DEF IInv
  <2>3. \A k \in Blocks : Holders(k)' = Holders(k)
    BY <1>4 DEF Holders
  <2>4. \A k \in Blocks : /\ Cardinality(Holders(k)') = Cardinality(Holders(k))
                          /\ Cardinality(Watchers(k)') = Cardinality(Watchers(k))
                          /\ Watchers(k)' # {} => Watchers(k) # {}
    BY <2>2, <2>3
  <2>5. ptr' \in [Ptrs -> Blocks \cup {Null}] /\ wptr' \in [Weaks -> Blocks \cup {Null}]
    BY <1>4, <1>5, <2>1 DEF IInv, TypeOK
  <2>6. /\ \A x \in Ptrs : ptr'[x] = ptr[x] \/ MayUse(t, x)
        /\ \A x \in Weaks : wptr'[x] = wptr[x] \/ MayUse(t, x)
    BY <1>4, <1>5, <1>6, <2>1 DEF IInv, TypeOK
  <2> QED
    BY <1>3, <1>4, <1>7, <2>1, <2>4, <2>5, <2>6, QuietStep DEF AtRest
<1> QED
  BY <1>8, <1>9, <1>10

\* upgrade looks at a count that is not zero.
LEMMA UpgradeLoadKeeps ==
    ASSUME IInv, NEW t \in Threads, NEW p \in Ptrs, NEW w \in Weaks, UpgradeLoad(t, p, w)
    PROVE  IInv'
<1>1. PICK b : b = wptr[w] /\ b # Null /\ b \in Blocks
  BY DEF UpgradeLoad, IInv, TypeOK
<1>2. PICK r : r = [Idle EXCEPT !.at = "upgrade", !.block = b, !.to = p, !.from = w, !.seen = strong[b]]
  OBVIOUS
<1>3. /\ r \in Operations /\ r.at = "upgrade" /\ r.block = b /\ r.then = "none"
      /\ r.to = p /\ r.from = w /\ r.seen = strong[b]
  <2>1. strong[b] \in Nat
    BY <1>1 DEF IInv, TypeOK
  <2> QED
    BY <1>1, <1>2, <2>1 DEF Idle, Operations, Places, Kinds
<1>4. /\ pc' = [pc EXCEPT ![t] = r] /\ pc'[t] = r
      /\ UNCHANGED <<strong, weak, mem, ptr, wptr, self, leaked>>
      /\ ptr[p] = Null /\ strong[b] # 0 /\ pc[t].at = "idle"
  BY <1>1, <1>2 DEF UpgradeLoad, Ready, IInv, TypeOK
<1>5. MayUse(t, p) /\ MayUse(t, w)
  BY Hands DEF UpgradeLoad
<1>6. OperationOK(t)'
  BY <1>1, <1>3, <1>4 DEF OperationOK
<1> QED
  BY <1>3, <1>4, <1>5, <1>6, OnlyPlace

\* upgrade exchanges the count it has seen, or looks again and gives up at zero.
LEMMA UpgradeKeeps ==
    ASSUME IInv, NEW t \in Threads, UpgradeSucceeds(t) \/ UpgradeRetries(t)
    PROVE  IInv'
<1>1. PICK b, p, w : b = pc[t].block /\ p = pc[t].to /\ w = pc[t].from
  OBVIOUS
<1>2. pc[t].at = "upgrade"
  BY DEF UpgradeSucceeds, UpgradeRetries
<1>3. /\ b \in Blocks /\ p \in Ptrs /\ ptr[p] = Null /\ w \in Weaks /\ wptr[w] = b
      /\ pc[t].then = "none" /\ pc[t].seen # 0 /\ pc[t] \in Operations
  BY <1>1, <1>2, Hands DEF IInv, OperationsOK, OperationOK, TypeOK
<1>4. MayUse(t, p) /\ MayUse(t, w)
  <2>1. p \in UsedBy(t) /\ w \in UsedBy(t)
    BY <1>1, <1>3, SharedPtrAssumption DEF UsedBy
  <2> QED
    BY <2>1, Hands
<1>5. PICK i : i = Idle
  OBVIOUS
<1>6. AtRest(i) /\ i \in Operations /\ i.at = "idle" /\ i.to = Null /\ i.from = Null
  BY <1>5, IdleFields DEF AtRest
<1>7. CASE UpgradeSucceeds(t)
  <2>1. /\ ptr' = [ptr EXCEPT ![p] = b]
        /\ strong' = [strong EXCEPT ![b] = strong[b] + 1]
        /\ strong[b] # 0
        /\ pc' = [pc EXCEPT ![t] = i]
        /\ UNCHANGED <<weak, mem, wptr, self, leaked>>
    BY <1>1, <1>3, <1>5, <1>7 DEF UpgradeSucceeds
  <2>2. strong[b] > 0
    BY <1>3, <2>1 DEF IInv, TypeOK
  <2> QED
    BY <1>2, <1>3, <1>4, <1>6, <2>1, <2>2, GainStrong
<1>8. CASE UpgradeRetries(t) /\ strong[b] = 0
  <2>1. /\ pc' = [pc EXCEPT ![t] = i]
        /\ UNCHANGED <<strong, weak, mem, ptr, wptr, self, leaked>>
    BY <1>1, <1>5, <1>8 DEF UpgradeRetries
  <2>2. OperationOK(t)'
    BY <1>6, <2>1, RestIsOK
  <2> QED
    BY <1>2, <1>6, <2>1, <2>2, OnlyPlace
<1>9. CASE UpgradeRetries(t) /\ strong[b] # 0
  <2>1. PICK r : r = [pc[t] EXCEPT !.seen = strong[b]]
    OBVIOUS
  <2>2. /\ r \in Operations /\ r.at = "upgrade" /\ r.block = b /\ r.then = "none"
        /\ r.to = p /\ r.from = w /\ r.seen = strong[b]
    <3>1. strong[b] \in Nat
      BY <1>3 DEF IInv, TypeOK
    <3> QED
      BY <1>1, <1>2, <1>3, <2>1, <3>1 DEF Operations
  <2>3. /\ pc' = [pc EXCEPT ![t] = r] /\ pc'[t] = r
        /\ UNCHANGED <<strong, weak, mem, ptr, wptr, self, leaked>>
    BY <1>1, <1>9, <2>1 DEF UpgradeRetries, IInv, TypeOK
  <2>4. OperationOK(t)'
    BY <1>3, <1>9, <2>2, <2>3, SharedPtrAssumption DEF OperationOK
  <2> QED
    BY <1>2, <1>4, <2>2, <2>3, <2>4, OnlyPlace
<1> QED
  BY <1>7, <1>8, <1>9

\* A copy, made by a thread that was outside the operations.
LEMMA CopyKeeps ==
    ASSUME IInv, NEW t \in Threads, NEW p \in Ptrs, NEW q \in Ptrs, CopyShared(t, p, q)
    PROVE  IInv'
<1>1. PICK b \in Blocks : q \in Holders(b) /\ ptr[q] = b
  BY DEF CopyShared, IInv, TypeOK, Holders
<1>2. PICK r : r = pc[t]
  OBVIOUS
<1>3. /\ AtRest(r) /\ pc' = [pc EXCEPT ![t] = r] /\ pc[t].at = "idle"
      /\ MayUse(t, p) /\ ptr[p] = Null
      /\ ptr' = [ptr EXCEPT ![p] = b]
      /\ strong' = [strong EXCEPT ![b] = strong[b] + 1]
      /\ UNCHANGED <<weak, mem, wptr, self, leaked>>
  BY <1>1, <1>2, Hands DEF CopyShared, Ready
<1>4. strong[b] > 0
  <2>1. /\ strong[b] = Cardinality(Holders(b)) + leaked[b] /\ leaked[b] \in Nat
        /\ Cardinality(Holders(b)) \in Nat /\ Cardinality(Holders(b)) # 0
    BY <1>1, BlockFacts
  <2> QED
    BY <2>1
<1> QED
  BY <1>3, <1>4, GainStrong

\* downgrade, and a WeakPtr that is copied.
LEMMA WeakKeeps ==
    ASSUME IInv, NEW t \in Threads, NEW w \in Weaks,
           (\E q \in Ptrs : Downgrade(t, w, q)) \/ (\E v \in Weaks : CopyWeak(t, w, v))
    PROVE  IInv'
<1>1. PICK r : r = pc[t]
  OBVIOUS
<1>2. /\ AtRest(r) /\ pc' = [pc EXCEPT ![t] = r] /\ pc[t].at = "idle"
      /\ MayUse(t, w) /\ wptr[w] = Null
      /\ UNCHANGED <<strong, mem, ptr, self, leaked>>
  BY <1>1, Hands DEF Downgrade, CopyWeak, Ready
<1>3. PICK b \in Blocks : /\ Holders(b) # {} \/ Watchers(b) # {}
                          /\ wptr' = [wptr EXCEPT ![w] = b]
                          /\ weak' = [weak EXCEPT ![b] = weak[b] + 1]
  <2>1. ASSUME NEW q \in Ptrs, Downgrade(t, w, q)
        PROVE  /\ ptr[q] \in Blocks /\ q \in Holders(ptr[q])
               /\ wptr' = [wptr EXCEPT ![w] = ptr[q]]
               /\ weak' = [weak EXCEPT ![ptr[q]] = weak[ptr[q]] + 1]
    BY <2>1 DEF Downgrade, Holders, IInv, TypeOK
  <2>2. ASSUME NEW v \in Weaks, CopyWeak(t, w, v)
        PROVE  /\ wptr[v] \in Blocks /\ v \in Watchers(wptr[v])
               /\ wptr' = [wptr EXCEPT ![w] = wptr[v]]
               /\ weak' = [weak EXCEPT ![wptr[v]] = weak[wptr[v]] + 1]
    BY <2>2 DEF CopyWeak, Watchers, IInv, TypeOK
  <2> QED
    BY <2>1, <2>2
<1>4. strong[b] > 0 \/ Watchers(b) # {}
  <2>1. /\ strong[b] = Cardinality(Holders(b)) + leaked[b] /\ leaked[b] \in Nat
        /\ Cardinality(Holders(b)) \in Nat
        /\ Cardinality(Holders(b)) = 0 => Holders(b) = {}
    BY BlockFacts
  <2> QED
    BY <1>3, <2>1
<1> QED
  BY <1>2, <1>3, <1>4, GainWeak

\* The releases that stand alone, and those an assignment starts with.
LEMMA ReleaseKeeps ==
    ASSUME IInv, NEW t \in Threads, NEW p \in Ptrs,
           ReleaseShared(t, p) \/ \E q \in Ptrs : AssignShared(t, p, q)
    PROVE  IInv'
<1>1. Ready(t) /\ MayUse(t, p) /\ UNCHANGED <<weak, mem, wptr, self, leaked>>
  BY Hands DEF ReleaseShared, AssignShared
<1>2. CASE ReleaseShared(t, p)
  <2>1. PICK b \in Blocks : ptr[p] = b
    BY <1>2 DEF ReleaseShared, IInv, TypeOK
  <2>2. DropStrong(t, b, Idle) /\ ptr' = [ptr EXCEPT ![p] = Null]
    BY <1>2, <2>1 DEF ReleaseShared
  <2> QED
    BY <1>1, <2>1, <2>2, IdleFields, DropStrongKeeps
<1>3. ASSUME NEW q \in Ptrs, NEW k \in {"copy", "move"}, AssignShared(t, p, q), ptr[p] # Null,
             ptr' = [ptr EXCEPT ![p] = Null], DropStrong(t, ptr[p], Then(k, p, q))
      PROVE  IInv'
  <2>1. PICK b \in Blocks : ptr[p] = b
    BY <1>3 DEF IInv, TypeOK
  <2>2. PICK r : r = Then(k, p, q)
    OBVIOUS
  <2>3. /\ r \in Operations /\ r.at = "idle" /\ r.block = Null
        /\ r.then = k /\ r.to = p /\ r.from = q
    BY <2>2, ThenFields DEF Kinds
  <2>4. p # q /\ MayUse(t, q)
    BY <1>3, Hands DEF AssignShared
  <2>5. DropStrong(t, b, r)
    BY <1>3, <2>1, <2>2
  <2> QED
    BY <1>1, <1>3, <2>1, <2>3, <2>4, <2>5, DropStrongKeeps
<1>4. ASSUME NEW q \in Ptrs, NEW k \in {"copy", "move"}, AssignShared(t, p, q), ptr[p] = Null,
             pc' = [pc EXCEPT ![t] = Done(Then(k, p, q))], UNCHANGED <<strong, ptr>>
      PROVE  IInv'
  <2>1. p # q /\ MayUse(t, q)
    BY <1>4, Hands DEF AssignShared
  <2>2. k \in Kinds \ {"none"}
    BY DEF Kinds
  <2> QED
    BY <1>1, <1>4, <2>1, <2>2, IntendKeeps
<1>5. ASSUME NEW q \in Ptrs, AssignShared(t, p, q)
      PROVE  IInv'
  <2>1. PICK k \in {"copy", "move"} :
           \/ /\ ptr[p] # Null
              /\ ptr' = [ptr EXCEPT ![p] = Null]
              /\ DropStrong(t, ptr[p], Then(k, p, q))
           \/ /\ ptr[p] = Null
              /\ pc' = [pc EXCEPT ![t] = Done(Then(k, p, q))]
              /\ UNCHANGED <<strong, ptr>>
    BY <1>5 DEF AssignShared
  <2> QED
    BY <1>3, <1>4, <1>5, <2>1
<1> QED
  BY <1>2, <1>5

\* The same for WeakPtrs.
LEMMA ReleaseWeakKeeps ==
    ASSUME IInv, NEW t \in Threads, NEW w \in Weaks,
           ReleaseWeak(t, w) \/ \E v \in Weaks : AssignWeak(t, w, v)
    PROVE  IInv'
<1>1. Ready(t) /\ MayUse(t, w) /\ UNCHANGED <<strong, mem, ptr, self, leaked>>
  BY Hands DEF ReleaseWeak, AssignWeak
<1>2. CASE ReleaseWeak(t, w)
  <2>1. PICK b \in Blocks : wptr[w] = b
    BY <1>2 DEF ReleaseWeak, IInv, TypeOK
  <2>2. Done(Idle) = Idle
    BY IdleFields DEF Done
  <2>3. DropWeak(t, b, Idle, Done(Idle)) /\ wptr' = [wptr EXCEPT ![w] = Null]
    BY <1>2, <2>1, <2>2 DEF ReleaseWeak
  <2> QED
    BY <1>1, <2>1, <2>3, IdleFields, DropWeakKeeps
<1>3. ASSUME NEW v \in Weaks, NEW k \in {"copyWeak", "moveWeak"}, AssignWeak(t, w, v), wptr[w] # Null,
             wptr' = [wptr EXCEPT ![w] = Null],
             DropWeak(t, wptr[w], Then(k, w, v), Done(Then(k, w, v)))
      PROVE  IInv'
  <2>1. PICK b \in Blocks : wptr[w] = b
    BY <1>3 DEF IInv, TypeOK
  <2>2. PICK r : r = Then(k, w, v)
    OBVIOUS
  <2>3. /\ r \in Operations /\ r.at = "idle" /\ r.block = Null
        /\ r.then = k /\ r.to = w /\ r.from = v
    BY <2>2, ThenFields DEF Kinds
  <2>4. w # v /\ MayUse(t, v)
    BY <1>3, Hands DEF AssignWeak
  <2>5. DropWeak(t, b, r, Done(r))
    BY <1>3, <2>1, <2>2
  <2> QED
    BY <1>1, <1>3, <2>1, <2>3, <2>4, <2>5, DropWeakKeeps
<1>4. ASSUME NEW v \in Weaks, NEW k \in {"copyWeak", "moveWeak"}, AssignWeak(t, w, v), wptr[w] = Null,
             pc' = [pc EXCEPT ![t] = Done(Then(k, w, v))], UNCHANGED <<weak, wptr>>
      PROVE  IInv'
  <2>1. w # v /\ MayUse(t, v)
    BY <1>4, Hands DEF AssignWeak
  <2>2. k \in Kinds \ {"none"}
    BY DEF Kinds
  <2> QED
    BY <1>1, <1>4, <2>1, <2>2, IntendKeeps
<1>5. ASSUME NEW v \in Weaks, AssignWeak(t, w, v)
      PROVE  IInv'
  <2>1. PICK k \in {"copyWeak", "moveWeak"} :
           \/ /\ wptr[w] # Null
              /\ wptr' = [wptr EXCEPT ![w] = Null]
              /\ DropWeak(t, wptr[w], Then(k, w, v), Done(Then(k, w, v)))
           \/ /\ wptr[w] = Null
              /\ pc' = [pc EXCEPT ![t] = Done(Then(k, w, v))]
              /\ UNCHANGED <<weak, wptr>>
    BY <1>5 DEF AssignWeak
  <2> QED
    BY <1>3, <1>4, <1>5, <2>1
<1> QED
  BY <1>2, <1>5

-----------------------------------------------------------------------------
(* The theorems.                                                           *)

\* The inductive invariant holds at every moment.
THEOREM SharedPtrInvariant == Spec => []IInv
<1>1. Init => IInv
  <2> SUFFICES ASSUME Init
               PROVE  IInv
    OBVIOUS
  <2>1. \A t \in Threads : pc[t] = Idle
    BY DEF Init
  <2>2. TypeOK
    BY IdleFields DEF Init, TypeOK, Operations
  <2>3. OperationsOK
    BY <2>1, IdleFields DEF OperationsOK, OperationOK, UsedBy
  <2>4. ASSUME NEW b \in Blocks
        PROVE  BlockOK(b)
    <3>1. Holders(b) = {} /\ Watchers(b) = {}
      BY SharedPtrAssumption DEF Init, Holders, Watchers
    <3>2. Enders(b) = {} /\ Destroyers(b) = {}
      BY <2>1, IdleFields DEF Enders, Destroyers, At
    <3>3. Cardinality(Holders(b)) = 0 /\ Cardinality(Watchers(b)) = 0
      BY <3>1, FS_EmptySet
    <3>4. strong[b] = 0 /\ weak[b] = 0 /\ leaked[b] = 0 /\ ~self[b] /\ mem[b] = "unused"
      BY DEF Init
    <3>5. StrongOK(b) /\ WeakOK(b)
      BY <3>2, <3>3, <3>4 DEF StrongOK, WeakOK
    <3>6. LifeOK(b)
      BY <3>1, <3>2, <3>4 DEF LifeOK
    <3> QED
      BY <3>5, <3>6 DEF BlockOK
  <2> QED
    BY <2>2, <2>3, <2>4 DEF IInv
<1>2. IInv /\ [Next]_vars => IInv'
  <2> SUFFICES ASSUME IInv, [Next]_vars
               PROVE  IInv'
    OBVIOUS
  <2>1. ASSUME NEW t \in Threads, NEW p \in Ptrs, NEW b \in Blocks, AdoptFromRaw(t, p, b)
        PROVE  IInv'
    BY <2>1, Hands, LeakKeeps DEF AdoptFromRaw
  <2>2. ASSUME NEW t \in Threads, NEW p \in Ptrs, Leak(t, p)
        PROVE  IInv'
    <3>1. PICK b \in Blocks : ptr[p] = b
      BY <2>2 DEF Leak, IInv, TypeOK
    <3>2. leaked' = [leaked EXCEPT ![b] = leaked[b] + 1]
      BY <2>2, <3>1 DEF Leak
    <3> QED
      BY <2>2, <3>1, <3>2, Hands, LeakKeeps DEF Leak
  <2>3. ASSUME NEW t \in Threads, Finish(t)
        PROVE  IInv'
    BY <2>3, DestroyMembersKeeps, DestroyDataKeeps, DropCollectiveKeeps, DestroyBlockKeeps,
       FinishKeeps, FinishWeakKeeps DEF Finish
  <2>4. CASE UNCHANGED vars
    <3>1. TypeOK'
      BY <2>4 DEF vars, IInv, TypeOK
    <3>2. OperationsOK'
      BY <2>4 DEF vars, IInv, OperationsOK, OperationOK, UsedBy, MayUse
    <3>3. ASSUME NEW b \in Blocks
          PROVE  BlockOK(b)'
      <4>1. /\ Holders(b)' = Holders(b) /\ Watchers(b)' = Watchers(b)
            /\ Enders(b)' = Enders(b) /\ Destroyers(b)' = Destroyers(b)
        BY <2>4 DEF vars, Holders, Watchers, Enders, Destroyers, At
      <4> QED
        BY <2>4, <4>1 DEF vars, IInv, BlockOK, StrongOK, WeakOK, LifeOK
    <3> QED
      BY <3>1, <3>2, <3>3 DEF IInv
  <2> QED
    BY <2>1, <2>2, <2>3, <2>4, MakeSharedKeeps, CopyKeeps, WeakKeeps, ReleaseKeeps,
       ReleaseWeakKeeps, UpgradeLoadKeeps, UpgradeKeeps DEF Next
<1> QED
  BY <1>1, <1>2, PTL DEF Spec

\* Every state of the pointers and their blocks is well typed; in particular
\* no counter goes below zero (SharedPtr.hpp 28-400).
THEOREM TypeCorrect == Spec => []TypeOK
<1>1. IInv => TypeOK
  BY DEF IInv
<1> QED
  BY <1>1, SharedPtrInvariant, PTL

\* Both counters are exact at every moment, wherever the threads are inside
\* their operations (SharedPtr.hpp 40, 103-112, 173, 213-224, 248, 287-306).
THEOREM CountsCorrect == Spec => []CountsExact
<1>1. IInv => CountsExact
  BY DEF IInv, BlockOK, StrongOK, WeakOK, CountsExact, StrongExact, WeakExact
<1> QED
  BY <1>1, SharedPtrInvariant, PTL

\* Nothing outlives what it refers to: no SharedPtr to data that is gone, no
\* WeakPtr to a block that was freed, and no operation that still has to
\* touch such a block (SharedPtr.hpp 243-254, 287-316).
THEOREM LifetimesCorrect == Spec => []NoDangling
<1>1. IInv => NoDangling
  <2> SUFFICES ASSUME IInv
               PROVE  NoDangling
    OBVIOUS
  <2>1. ASSUME NEW p \in Ptrs, ptr[p] # Null
        PROVE  mem[ptr[p]] = "live"
    <3>1. PICK b \in Blocks : ptr[p] = b /\ p \in Holders(b)
      BY <2>1 DEF IInv, TypeOK, Holders
    <3>2. /\ strong[b] = Cardinality(Holders(b)) + leaked[b] /\ leaked[b] \in Nat
          /\ Cardinality(Holders(b)) \in Nat /\ Cardinality(Holders(b)) # 0
      BY <3>1, BlockFacts
    <3>3. strong[b] > 0
      BY <3>2
    <3> QED
      BY <3>1, <3>3, BlockFacts DEF LifeOK
  <2>2. ASSUME NEW w \in Weaks, wptr[w] # Null
        PROVE  mem[wptr[w]] \in {"live", "destroyed"}
    <3>1. PICK b \in Blocks : wptr[w] = b /\ w \in Watchers(b)
      BY <2>2 DEF IInv, TypeOK, Watchers
    <3> QED
      BY <3>1, BlockFacts DEF LifeOK
  <2>3. ASSUME NEW t \in Threads, pc[t].block # Null
        PROVE  mem[pc[t].block] \in {"live", "destroyed"}
    <3>1. PICK b \in Blocks : pc[t].block = b
      BY <2>3 DEF IInv, TypeOK
    <3>2. pc[t].at \in {"members", "dtor", "dropWeak", "free", "upgrade"}
      BY <2>3 DEF IInv, TypeOK, Places, OperationsOK, OperationOK
    <3>3. CASE pc[t].at = "upgrade"
      <4>1. pc[t].from \in Weaks /\ wptr[pc[t].from] = pc[t].block
        BY <3>3 DEF IInv, OperationsOK, OperationOK
      <4> QED
        BY <2>2, <2>3, <4>1
    <3>4. CASE pc[t].at # "upgrade"
      <4>1. t \in Enders(b)
        BY <3>1, <3>2, <3>4 DEF Enders, At
      <4> QED
        BY <3>1, <3>2, <3>4, <4>1, BlockFacts DEF LifeOK
    <3> QED
      BY <3>3, <3>4
  <2> QED
    BY <2>1, <2>2, <2>3 DEF NoDangling
<1> QED
  BY <1>1, SharedPtrInvariant, PTL

\* A count that has reached zero stays there: nobody gets a SharedPtr to data
\* that is being destroyed (SharedPtr.hpp 246-253).
THEOREM ZeroIsFinal == Spec => NoResurrection
<1> DEFINE A == \A b \in Blocks : mem[b] # "unused" /\ strong[b] = 0 => strong'[b] = 0
<1>1. IInv /\ [Next]_vars => [A]_vars
  <2> SUFFICES ASSUME IInv, Next, NEW b \in Blocks, mem[b] # "unused", strong[b] = 0
               PROVE  strong'[b] = 0
    BY DEF vars
  <2>1. Holders(b) = {}
    <3>1. /\ strong[b] = Cardinality(Holders(b)) + leaked[b] /\ leaked[b] \in Nat
          /\ Cardinality(Holders(b)) \in Nat
          /\ Cardinality(Holders(b)) = 0 => Holders(b) = {}
      BY BlockFacts
    <3> QED
      BY <3>1
  <2>2. \A q \in Ptrs : ptr[q] # b
    BY <2>1 DEF Holders
  <2>3. ASSUME NEW t \in Threads, NEW p \in Ptrs, NEW k \in Blocks, MakeShared(t, p, k)
        PROVE  strong'[b] = 0
    BY <2>3 DEF MakeShared, IInv, TypeOK
  <2>4. ASSUME NEW t \in Threads, NEW p \in Ptrs, NEW q \in Ptrs, CopyShared(t, p, q)
        PROVE  strong'[b] = 0
    BY <2>2, <2>4 DEF CopyShared, IInv, TypeOK
  <2>5. ASSUME NEW t \in Threads, NEW p \in Ptrs, ptr[p] # Null, NEW r, DropStrong(t, ptr[p], r)
        PROVE  strong'[b] = 0
    BY <2>2, <2>5 DEF DropStrong, IInv, TypeOK
  <2>6. ASSUME NEW t \in Threads, FinishCopy(t)
        PROVE  strong'[b] = 0
    <3>1. pc[t].from \in Ptrs
      BY <2>6 DEF FinishCopy, IInv, OperationsOK, OperationOK
    <3> QED
      BY <2>2, <2>6, <3>1 DEF FinishCopy
  <2>7. ASSUME NEW t \in Threads, UpgradeSucceeds(t)
        PROVE  strong'[b] = 0
    <3>1. pc[t].seen # 0
      BY <2>7 DEF UpgradeSucceeds, IInv, OperationsOK, OperationOK
    <3> QED
      BY <2>7, <3>1 DEF UpgradeSucceeds, IInv, TypeOK
  <2>8. ASSUME NEW t \in Threads, NEW p \in Ptrs,
               ReleaseShared(t, p) \/ \E q \in Ptrs : AssignShared(t, p, q)
        PROVE  strong'[b] = 0
    BY <2>5, <2>8 DEF ReleaseShared, AssignShared
  <2>9. ASSUME NEW t \in Threads, NEW p \in Ptrs,
               \/ Leak(t, p) \/ \E k \in Blocks : AdoptFromRaw(t, p, k)
               \/ \E w \in Weaks : Downgrade(t, w, p) \/ UpgradeLoad(t, p, w)
        PROVE  strong' = strong
    BY <2>9 DEF Leak, AdoptFromRaw, Downgrade, UpgradeLoad
  <2>10. ASSUME NEW t \in Threads, NEW w \in Weaks,
                ReleaseWeak(t, w) \/ \E v \in Weaks : CopyWeak(t, w, v) \/ AssignWeak(t, w, v)
         PROVE  strong' = strong
    BY <2>10 DEF ReleaseWeak, CopyWeak, AssignWeak
  <2>11. ASSUME NEW t \in Threads, UpgradeRetries(t)
         PROVE  strong' = strong
    BY <2>11 DEF UpgradeRetries
  <2>12. ASSUME NEW t \in Threads, Finish(t), ~FinishCopy(t)
         PROVE  strong' = strong
    BY <2>12 DEF Finish, DestroyMembers, DestroyData, DropCollective, DestroyBlock,
                 FinishMove, FinishCopyWeak, FinishMoveWeak
  <2> QED
    BY <2>3, <2>4, <2>6, <2>7, <2>8, <2>9, <2>10, <2>11, <2>12 DEF Next
<1> QED
  BY <1>1, SharedPtrInvariant, PTL DEF Spec, NoResurrection
=============================================================================
