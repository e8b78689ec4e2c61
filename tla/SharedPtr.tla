------------------------------ MODULE SharedPtr ------------------------------
(***************************************************************************)
(* asp::SharedPtr and asp::WeakPtr (include/asp/ptr/SharedPtr.hpp): blocks *)
(* with a strong and a weak counter, and the pointer objects that refer to *)
(* them, used by several threads.                                          *)
(*                                                                         *)
(* Every read-modify-write of a counter, every run of a data destructor    *)
(* and every deallocation is a step of its own; other threads run between  *)
(* them.  A pointer object is used by one thread at a time (the class does *)
(* not promise more).  The m_block of a pointer that is being released is  *)
(* shown as null from its decrement on: only a data destructor that reaches*)
(* back to the pointer being released could see the difference.            *)
(* Steps are sequentially consistent.                                      *)
(***************************************************************************)
EXTENDS Integers, FiniteSets

CONSTANTS Threads,
          Blocks,     \* the SharedPtrBlocks that can be allocated
          SelfAware,  \* those whose data derives from EnableSharedFromThis
          Ptrs,       \* the SharedPtr objects
          Weaks,      \* the WeakPtr objects
          Null,
          MaxLeaked   \* bound: references to a block given up by leak()

ASSUME SharedPtrAssumption ==
    /\ IsFiniteSet(Ptrs) /\ IsFiniteSet(Weaks) /\ IsFiniteSet(Threads)
    /\ SelfAware \subseteq Blocks
    /\ Ptrs \cap Weaks = {}
    /\ Null \notin Blocks \cup Ptrs \cup Weaks
    /\ MaxLeaked \in Nat

VARIABLES strong,   \* strong[b], weak[b]: the counters of block b
          weak,
          mem,      \* mem[b]: "unused", "live", "destroyed" (the data), "freed"
          ptr,      \* ptr[p]: the m_block of the SharedPtr p
          wptr,     \* wptr[w]: the m_block of the WeakPtr w
          self,     \* self[b]: b's data holds its m_weak
          leaked,   \* leaked[b]: references that only raw pointers hold
          pc        \* pc[t]: where t is inside an operation

vars == <<strong, weak, mem, ptr, wptr, self, leaked, pc>>

\* An operation on `to` (and `from`), having seen `seen` of `block`.
Idle == [at |-> "idle", block |-> Null, then |-> "none", to |-> Null,
         from |-> Null, seen |-> 0]

Init ==
    /\ strong = [b \in Blocks |-> 0]
    /\ weak = [b \in Blocks |-> 0]
    /\ mem = [b \in Blocks |-> "unused"]
    /\ ptr = [p \in Ptrs |-> Null]
    /\ wptr = [w \in Weaks |-> Null]
    /\ self = [b \in Blocks |-> FALSE]
    /\ leaked = [b \in Blocks |-> 0]
    /\ pc = [t \in Threads |-> Idle]

Ready(t) == pc[t].at = "idle"

\* x is not in the hands of a thread inside an operation.
Free(x) == \A t \in Threads : x \notin {pc[t].to, pc[t].from}

-----------------------------------------------------------------------------
(* Creation, copies and moves: one step, the counter's increment.          *)

\* make_shared; nobody else knows the block before it returns.  The data's
\* own weak reference is the second of its two.
MakeShared(t, p, b) ==
    /\ Ready(t) /\ Free(p)
    /\ ptr[p] = Null
    /\ mem[b] = "unused"
    /\ mem' = [mem EXCEPT ![b] = "live"]
    /\ strong' = [strong EXCEPT ![b] = 1]
    /\ weak' = [weak EXCEPT ![b] = IF b \in SelfAware THEN 2 ELSE 1]
    /\ self' = [self EXCEPT ![b] = b \in SelfAware]
    /\ ptr' = [ptr EXCEPT ![p] = b]
    /\ UNCHANGED <<wptr, leaked, pc>>

CopyShared(t, p, q) ==
    /\ Ready(t) /\ Free(p) /\ Free(q)
    /\ ptr[p] = Null /\ ptr[q] # Null
    /\ strong' = [strong EXCEPT ![ptr[q]] = @ + 1]
    /\ ptr' = [ptr EXCEPT ![p] = ptr[q]]
    /\ UNCHANGED <<weak, mem, wptr, self, leaked, pc>>

\* From a SharedPtr, or from the weak reference in its data.
Downgrade(t, w, q) ==
    /\ Ready(t) /\ Free(w) /\ Free(q)
    /\ wptr[w] = Null /\ ptr[q] # Null
    /\ weak' = [weak EXCEPT ![ptr[q]] = @ + 1]
    /\ wptr' = [wptr EXCEPT ![w] = ptr[q]]
    /\ UNCHANGED <<strong, mem, ptr, self, leaked, pc>>

CopyWeak(t, w, v) ==
    /\ Ready(t) /\ Free(w) /\ Free(v)
    /\ wptr[w] = Null /\ wptr[v] # Null
    /\ weak' = [weak EXCEPT ![wptr[v]] = @ + 1]
    /\ wptr' = [wptr EXCEPT ![w] = wptr[v]]
    /\ UNCHANGED <<strong, mem, ptr, self, leaked, pc>>

Leak(t, p) ==
    /\ Ready(t) /\ Free(p)
    /\ ptr[p] # Null
    /\ leaked[ptr[p]] < MaxLeaked
    /\ leaked' = [leaked EXCEPT ![ptr[p]] = @ + 1]
    /\ ptr' = [ptr EXCEPT ![p] = Null]
    /\ UNCHANGED <<strong, weak, mem, wptr, self, pc>>

AdoptFromRaw(t, p, b) ==
    /\ Ready(t) /\ Free(p)
    /\ ptr[p] = Null
    /\ leaked[b] > 0
    /\ leaked' = [leaked EXCEPT ![b] = @ - 1]
    /\ ptr' = [ptr EXCEPT ![p] = b]
    /\ UNCHANGED <<strong, weak, mem, wptr, self, pc>>

-----------------------------------------------------------------------------
(* Releasing.  `then` is what the operation does after the release:        *)
(* nothing (a destructor, reset), or the second half of an assignment.     *)

\* Where t goes with r once nothing of the release is left to do.
Done(r) == IF r.then = "none" THEN Idle ELSE [r EXCEPT !.at = "assign", !.block = Null]

\* The decrement of SharedPtr::release, and destroyData after the last one.
DropStrong(t, b, r) ==
    /\ strong' = [strong EXCEPT ![b] = @ - 1]
    /\ pc' = [pc EXCEPT ![t] =
                 IF strong[b] = 1
                   THEN [r EXCEPT !.at = IF self[b] THEN "members" ELSE "dtor", !.block = b]
                   ELSE Done(r)]

\* The decrement of WeakPtr::release, and destroyBlock after the last one.
DropWeak(t, b, r, next) ==
    /\ weak' = [weak EXCEPT ![b] = @ - 1]
    /\ pc' = [pc EXCEPT ![t] =
                 IF weak[b] = 1 THEN [r EXCEPT !.at = "free", !.block = b] ELSE next]

ReleaseShared(t, p) ==
    /\ Ready(t) /\ Free(p)
    /\ ptr[p] # Null
    /\ ptr' = [ptr EXCEPT ![p] = Null]
    /\ DropStrong(t, ptr[p], Idle)
    /\ UNCHANGED <<weak, mem, wptr, self, leaked>>

ReleaseWeak(t, w) ==
    /\ Ready(t) /\ Free(w)
    /\ wptr[w] # Null
    /\ wptr' = [wptr EXCEPT ![w] = Null]
    /\ DropWeak(t, wptr[w], Idle, Idle)
    /\ UNCHANGED <<strong, mem, ptr, self, leaked>>

\* Mistake: the data's weak reference is forgotten.
DestroyMembersKeeping(t) ==
    /\ pc[t].at = "members"
    /\ self' = [self EXCEPT ![pc[t].block] = FALSE]
    /\ pc' = [pc EXCEPT ![t].at = "dtor"]
    /\ UNCHANGED <<strong, weak, mem, ptr, wptr, leaked>>

\* ~EnableSharedFromThis releases the weak reference in the data ...
DestroyMembers(t) ==
    /\ pc[t].at = "members"
    /\ self' = [self EXCEPT ![pc[t].block] = FALSE]
    /\ DropWeak(t, pc[t].block, pc[t], [pc[t] EXCEPT !.at = "dtor"])
    /\ UNCHANGED <<strong, mem, ptr, wptr, leaked>>

\* ... the data is gone ...
DestroyData(t) ==
    /\ pc[t].at = "dtor"
    /\ mem' = [mem EXCEPT ![pc[t].block] = "destroyed"]
    /\ pc' = [pc EXCEPT ![t].at = "dropWeak"]
    /\ UNCHANGED <<strong, weak, ptr, wptr, self, leaked>>

\* ... and the temporary WeakPtr gives up the strong side's weak reference.
DropCollective(t) ==
    /\ pc[t].at = "dropWeak"
    /\ DropWeak(t, pc[t].block, pc[t], Done(pc[t]))
    /\ UNCHANGED <<strong, mem, ptr, wptr, self, leaked>>

DestroyBlock(t) ==
    /\ pc[t].at = "free"
    /\ mem' = [mem EXCEPT ![pc[t].block] = "freed"]
    /\ pc' = [pc EXCEPT ![t] = Done(pc[t])]
    /\ UNCHANGED <<strong, weak, ptr, wptr, self, leaked>>

-----------------------------------------------------------------------------
(* Assignments: release the target first, then take the source.            *)

Then(kind, x, y) == [Idle EXCEPT !.then = kind, !.to = x, !.from = y]

AssignShared(t, p, q) ==
    /\ p # q
    /\ Ready(t) /\ Free(p) /\ Free(q)
    /\ \E kind \in {"copy", "move"} :
          \/ /\ ptr[p] # Null
             /\ ptr' = [ptr EXCEPT ![p] = Null]
             /\ DropStrong(t, ptr[p], Then(kind, p, q))
          \/ /\ ptr[p] = Null
             /\ pc' = [pc EXCEPT ![t] = Done(Then(kind, p, q))]
             /\ UNCHANGED <<strong, ptr>>
    /\ UNCHANGED <<weak, mem, wptr, self, leaked>>

AssignWeak(t, w, v) ==
    /\ w # v
    /\ Ready(t) /\ Free(w) /\ Free(v)
    /\ \E kind \in {"copyWeak", "moveWeak"} :
          \/ /\ wptr[w] # Null
             /\ wptr' = [wptr EXCEPT ![w] = Null]
             /\ DropWeak(t, wptr[w], Then(kind, w, v), Done(Then(kind, w, v)))
          \/ /\ wptr[w] = Null
             /\ pc' = [pc EXCEPT ![t] = Done(Then(kind, w, v))]
             /\ UNCHANGED <<weak, wptr>>
    /\ UNCHANGED <<strong, mem, ptr, self, leaked>>

FinishCopy(t) ==
    /\ pc[t].at = "assign" /\ pc[t].then = "copy"
    /\ ptr' = [ptr EXCEPT ![pc[t].to] = ptr[pc[t].from]]
    /\ strong' = [b \in Blocks |-> IF b = ptr[pc[t].from] THEN strong[b] + 1 ELSE strong[b]]
    /\ pc' = [pc EXCEPT ![t] = Idle]
    /\ UNCHANGED <<weak, mem, wptr, self, leaked>>

\* Mistake: the source keeps its pointer.
FinishMoveKeeping(t) ==
    /\ pc[t].at = "assign" /\ pc[t].then = "move"
    /\ ptr' = [ptr EXCEPT ![pc[t].to] = ptr[pc[t].from]]
    /\ pc' = [pc EXCEPT ![t] = Idle]
    /\ UNCHANGED <<strong, weak, mem, wptr, self, leaked>>

FinishMove(t) ==
    /\ pc[t].at = "assign" /\ pc[t].then = "move"
    /\ ptr' = [ptr EXCEPT ![pc[t].to] = ptr[pc[t].from], ![pc[t].from] = Null]
    /\ pc' = [pc EXCEPT ![t] = Idle]
    /\ UNCHANGED <<strong, weak, mem, wptr, self, leaked>>

FinishCopyWeak(t) ==
    /\ pc[t].at = "assign" /\ pc[t].then = "copyWeak"
    /\ wptr' = [wptr EXCEPT ![pc[t].to] = wptr[pc[t].from]]
    /\ weak' = [b \in Blocks |-> IF b = wptr[pc[t].from] THEN weak[b] + 1 ELSE weak[b]]
    /\ pc' = [pc EXCEPT ![t] = Idle]
    /\ UNCHANGED <<strong, mem, ptr, self, leaked>>

FinishMoveWeak(t) ==
    /\ pc[t].at = "assign" /\ pc[t].then = "moveWeak"
    /\ wptr' = [wptr EXCEPT ![pc[t].to] = wptr[pc[t].from], ![pc[t].from] = Null]
    /\ pc' = [pc EXCEPT ![t] = Idle]
    /\ UNCHANGED <<strong, weak, mem, ptr, self, leaked>>

-----------------------------------------------------------------------------
(* upgrade: load, then compare and exchange until the count is zero.       *)

\* The result goes to the empty SharedPtr p; zero ends the loop at once.
UpgradeLoad(t, p, w) ==
    /\ Ready(t) /\ Free(p) /\ Free(w)
    /\ ptr[p] = Null /\ wptr[w] # Null
    /\ strong[wptr[w]] # 0
    /\ pc' = [pc EXCEPT ![t] = [Idle EXCEPT !.at = "upgrade", !.block = wptr[w],
                                   !.to = p, !.from = w, !.seen = strong[wptr[w]]]]
    /\ UNCHANGED <<strong, weak, mem, ptr, wptr, self, leaked>>

\* Mistake: the incremented count is stored without comparing.
UpgradeStores(t) ==
    /\ pc[t].at = "upgrade"
    /\ strong' = [strong EXCEPT ![pc[t].block] = pc[t].seen + 1]
    /\ ptr' = [ptr EXCEPT ![pc[t].to] = pc[t].block]
    /\ pc' = [pc EXCEPT ![t] = Idle]
    /\ UNCHANGED <<weak, mem, wptr, self, leaked>>

UpgradeSucceeds(t) ==
    /\ pc[t].at = "upgrade"
    /\ strong[pc[t].block] = pc[t].seen
    /\ strong' = [strong EXCEPT ![pc[t].block] = pc[t].seen + 1]
    /\ ptr' = [ptr EXCEPT ![pc[t].to] = pc[t].block]
    /\ pc' = [pc EXCEPT ![t] = Idle]
    /\ UNCHANGED <<weak, mem, wptr, self, leaked>>

\* Mistake: the loop goes on with a count of zero.
UpgradeRetriesAtZero(t) ==
    /\ pc[t].at = "upgrade"
    /\ pc' = [pc EXCEPT ![t].seen = strong[pc[t].block]]
    /\ UNCHANGED <<strong, weak, mem, ptr, wptr, self, leaked>>

\* The count has changed, or the weak form of the exchange failed anyway.
UpgradeRetries(t) ==
    /\ pc[t].at = "upgrade"
    /\ pc' = [pc EXCEPT ![t] =
                 IF strong[pc[t].block] = 0
                   THEN Idle
                   ELSE [pc[t] EXCEPT !.seen = strong[pc[t].block]]]
    /\ UNCHANGED <<strong, weak, mem, ptr, wptr, self, leaked>>

-----------------------------------------------------------------------------
\* What a thread inside an operation does next.
Finish(t) ==
    \/ DestroyMembers(t) \/ DestroyData(t) \/ DropCollective(t) \/ DestroyBlock(t)
    \/ FinishCopy(t) \/ FinishMove(t) \/ FinishCopyWeak(t) \/ FinishMoveWeak(t)

Next ==
    \E t \in Threads :
        \/ \E p \in Ptrs :
              \/ \E b \in Blocks : MakeShared(t, p, b) \/ AdoptFromRaw(t, p, b)
              \/ \E q \in Ptrs : CopyShared(t, p, q) \/ AssignShared(t, p, q)
              \/ \E w \in Weaks : Downgrade(t, w, p) \/ UpgradeLoad(t, p, w)
              \/ Leak(t, p) \/ ReleaseShared(t, p)
        \/ \E w, v \in Weaks : CopyWeak(t, w, v) \/ AssignWeak(t, w, v)
        \/ \E w \in Weaks : ReleaseWeak(t, w)
        \/ UpgradeSucceeds(t) \/ UpgradeRetries(t)
        \/ Finish(t)

Spec == Init /\ [][Next]_vars

\* A thread inside an operation goes on with it.
FairSpec == Spec /\ \A t \in Threads : WF_vars(Finish(t))

-----------------------------------------------------------------------------
(* Properties.                                                             *)

Kinds == {"none", "copy", "move", "copyWeak", "moveWeak"}
Places == {"idle", "members", "dtor", "dropWeak", "free", "assign", "upgrade"}

TypeOK ==
    /\ strong \in [Blocks -> Nat]
    /\ weak \in [Blocks -> Nat]
    /\ mem \in [Blocks -> {"unused", "live", "destroyed", "freed"}]
    /\ ptr \in [Ptrs -> Blocks \cup {Null}]
    /\ wptr \in [Weaks -> Blocks \cup {Null}]
    /\ self \in [Blocks -> BOOLEAN]
    /\ leaked \in [Blocks -> Nat]
    /\ pc \in [Threads -> [at : Places, block : Blocks \cup {Null}, then : Kinds,
                            to : Ptrs \cup Weaks \cup {Null},
                            from : Ptrs \cup Weaks \cup {Null}, seen : Nat]]

Holders(b)     == {p \in Ptrs : ptr[p] = b}
Watchers(b)    == {w \in Weaks : wptr[w] = b}
At(places, b)  == {t \in Threads : pc[t].at \in places /\ pc[t].block = b}
Destroyers(b)  == At({"members", "dtor", "dropWeak"}, b)

\* strong counts the SharedPtrs to the block, wherever the threads are
\* (SharedPtr.hpp 103, 112, 173, 248, 287).
StrongExact == \A b \in Blocks : strong[b] = Cardinality(Holders(b)) + leaked[b]

\* weak counts the WeakPtrs, one for all SharedPtrs together, which outlives
\* the last of them until the data is destroyed, and the one in the data
\* (SharedPtr.hpp 40, 213-224, 296-300, 306, 355).
WeakExact ==
    \A b \in Blocks :
        weak[b] = Cardinality(Watchers(b))
                  + (IF strong[b] > 0 \/ Destroyers(b) # {} THEN 1 ELSE 0)
                  + (IF self[b] THEN 1 ELSE 0)

\* Both counters are exact at every moment.
CountsExact == StrongExact /\ WeakExact

\* Nothing outlives what it refers to: the data lives as long as a SharedPtr
\* to it (SharedPtr.hpp 287-298), also one that upgrade made while the last
\* other one was going away (243-254), and the block as long as a WeakPtr to
\* it or an operation that is still going to touch it (296-316).
NoDangling ==
    /\ \A p \in Ptrs : ptr[p] # Null => mem[ptr[p]] = "live"
    /\ \A w \in Weaks : wptr[w] # Null => mem[wptr[w]] \in {"live", "destroyed"}
    /\ \A t \in Threads : pc[t].block # Null => mem[pc[t].block] \in {"live", "destroyed"}

\* A count that has reached zero stays there: nobody gets a SharedPtr to data
\* that is being destroyed (SharedPtr.hpp 246-253).
NoResurrection ==
    [][\A b \in Blocks : mem[b] # "unused" /\ strong[b] = 0 => strong'[b] = 0]_vars

\* A block that no pointer refers to is freed.
UnreferencedIsFreed ==
    \A b \in Blocks :
        mem[b] # "unused" /\ strong[b] = 0 /\ Watchers(b) = {} ~> mem[b] = "freed"
=============================================================================
