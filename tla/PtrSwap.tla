------------------------------- MODULE PtrSwap -------------------------------
(***************************************************************************)
(* asp::PtrSwap (include/asp/ptr/PtrSwap.hpp): an atomic cell that holds a *)
(* SharedPtrBlock and owns one reference to it, used by several threads.   *)
(* The counters, and what a release may set off, are those of module       *)
(* SharedPtr.                                                              *)
(*                                                                         *)
(* Each access of the cell and each update of a counter is a step, and     *)
(* others run between them: load reads the block and then counts it, swap  *)
(* publishes the block and then counts it.  Nothing in the class makes     *)
(* that safe, so what the program does is a parameter (see Modes).         *)
(*                                                                         *)
(* A thread has two SharedPtrs of its own, "arg" for what it passes to the *)
(* cell and "res" for what it gets.  store is swap with the result released*)
(* next.  Left out: moving a PtrSwap and destroying it.                    *)
(***************************************************************************)
EXTENDS Integers, FiniteSets

CONSTANTS Threads, Blocks, Null,
          Modes,      \* the ways to use the cell:
                      \*   "anchored"   any operation at any time; the program
                      \*                keeps a reference of its own to every
                      \*                block until the cell, the threads'
                      \*                pointers and all operations are done
                      \*                with it
                      \*   "moves"      only swap and store of an rvalue
                      \*   "exclusive"  one operation at a time
                      \*   "rcu"        only rcu
          MaxPushes   \* bound: how much a chain of rcu calls adds up to

ASSUME PtrSwapAssumption ==
    /\ IsFiniteSet(Threads) /\ IsFiniteSet(Blocks)
    /\ Null \notin Blocks
    /\ Modes \subseteq {"anchored", "moves", "exclusive", "rcu"}
    /\ MaxPushes \in Nat

VARIABLES strong, weak, mem, ptr, pc,   \* as in SharedPtr
          kept,   \* kept[b]: 1 if the program keeps a reference to b
          cell,   \* m_block
          op,     \* op[t]: where t is in an operation of the cell
          val,    \* val[b]: b's data, the number of pushes it has seen
          mode    \* how the program uses the cell

heapVars == <<strong, weak, mem, ptr, pc>>
vars == <<strong, weak, mem, ptr, pc, kept, cell, op, val, mode>>

Slots == Threads \X {"arg", "res"}
Arg(t) == <<t, "arg">>
Res(t) == <<t, "res">>

Heap == INSTANCE SharedPtr
          WITH Ptrs <- Slots, Weaks <- {}, SelfAware <- {}, MaxLeaked <- 1,
               wptr <- [w \in {} |-> Null], self <- [b \in Blocks |-> FALSE],
               leaked <- kept

\* The SharedPtrs in the frame of an operation: rcu's oldPtr and newPtr, and
\* the raw pointer just read from the cell.
Outside == [at |-> "outside", old |-> Null, new |-> Null, tmp |-> Null]

Init ==
    /\ Heap!Init
    /\ cell = Null
    /\ op = [t \in Threads |-> Outside]
    /\ val = [b \in Blocks |-> 0]
    /\ mode \in Modes

\* t has finished what its last step set off.
At(t, place) == op[t].at = place /\ Heap!Ready(t)

MayEnter(t, use) ==
    /\ At(t, "outside")
    /\ ptr[Res(t)] = Null
    /\ mode = "moves" => use = "move"
    /\ mode = "rcu" => use = "rcu"
    /\ mode = "exclusive" => \A u \in Threads : op[u] = Outside

\* One more reference to b, one less, or none if there is no block.
Retain(b) == strong' = [c \in Blocks |-> IF c = b THEN strong[c] + 1 ELSE strong[c]]
Release(t, b) ==
    \/ b # Null /\ Heap!DropStrong(t, b, Heap!Idle)
    \/ b = Null /\ UNCHANGED <<strong, pc>>

\* make_shared with v pushes in it.
Make(b, v) ==
    /\ mem[b] = "unused"
    /\ mem' = [mem EXCEPT ![b] = "live"]
    /\ weak' = [weak EXCEPT ![b] = 1]
    /\ kept' = [kept EXCEPT ![b] = IF mode = "anchored" THEN 1 ELSE 0]
    /\ strong' = [strong EXCEPT ![b] = IF mode = "anchored" THEN 2 ELSE 1]
    /\ val' = [val EXCEPT ![b] = v]

-----------------------------------------------------------------------------
(* The program around the cell.                                            *)

NewArg(t) ==
    /\ At(t, "outside")
    /\ ptr[Arg(t)] = Null
    /\ \E b \in Blocks : Make(b, 0) /\ ptr' = [ptr EXCEPT ![Arg(t)] = b]
    /\ UNCHANGED <<pc, cell, op, mode>>

CopyResult(t) ==
    /\ op[t] = Outside
    /\ Heap!CopyShared(t, Arg(t), Res(t))
    /\ UNCHANGED <<cell, op, val, mode>>

Drop(t) ==
    /\ op[t] = Outside
    /\ Heap!ReleaseShared(t, Arg(t)) \/ Heap!ReleaseShared(t, Res(t))
    /\ UNCHANGED <<cell, op, val, mode>>

\* The program gives up the reference that it kept.
Unkeep(t, b) ==
    /\ Heap!Ready(t)
    /\ kept[b] = 1
    /\ cell # b
    /\ \A u \in Threads : op[u] = Outside
    /\ \A s \in Slots : ptr[s] # b
    /\ kept' = [kept EXCEPT ![b] = 0]
    /\ Release(t, b)
    /\ UNCHANGED <<weak, mem, ptr, cell, op, val, mode>>

\* A release goes on to destroy the data and to free the block.
Reclaim(t) == Heap!Finish(t) /\ UNCHANGED <<cell, op, val, mode>>

\* The allocator hands out the same address again.
Recycle(b) ==
    /\ mem[b] = "freed"
    /\ mem' = [mem EXCEPT ![b] = "unused"]
    /\ val' = [val EXCEPT ![b] = 0]
    /\ UNCHANGED <<strong, weak, ptr, pc, kept, cell, op, mode>>

-----------------------------------------------------------------------------
(* load and swap.                                                          *)

\* An empty cell gives an empty result at once.
LoadRead(t) ==
    /\ MayEnter(t, "load")
    /\ cell # Null
    /\ op' = [op EXCEPT ![t] = [Outside EXCEPT !.at = "load", !.tmp = cell]]
    /\ UNCHANGED <<heapVars, kept, cell, val, mode>>

LoadRetain(t) ==
    /\ At(t, "load")
    /\ Retain(op[t].tmp)
    /\ ptr' = [ptr EXCEPT ![Res(t)] = op[t].tmp]
    /\ op' = [op EXCEPT ![t] = Outside]
    /\ UNCHANGED <<weak, mem, pc, kept, cell, val, mode>>

SwapCopy(t) ==
    /\ MayEnter(t, "copy")
    /\ cell' = ptr[Arg(t)]
    /\ op' = [op EXCEPT ![t] = [Outside EXCEPT !.at = "swap", !.tmp = cell]]
    /\ UNCHANGED <<heapVars, kept, val, mode>>

\* Mistake: the cell's reference is not counted.
SwapForgets(t) ==
    /\ At(t, "swap")
    /\ ptr' = [ptr EXCEPT ![Res(t)] = op[t].tmp]
    /\ op' = [op EXCEPT ![t] = Outside]
    /\ UNCHANGED <<strong, weak, mem, pc, kept, cell, val, mode>>

SwapRetain(t) ==
    /\ At(t, "swap")
    /\ Retain(ptr[Arg(t)])
    /\ ptr' = [ptr EXCEPT ![Res(t)] = op[t].tmp]
    /\ op' = [op EXCEPT ![t] = Outside]
    /\ UNCHANGED <<weak, mem, pc, kept, cell, val, mode>>

\* The argument's reference becomes the cell's, and the cell's the result's.
SwapMove(t) ==
    /\ MayEnter(t, "move")
    /\ cell' = ptr[Arg(t)]
    /\ ptr' = [ptr EXCEPT ![Arg(t)] = Null, ![Res(t)] = cell]
    /\ UNCHANGED <<strong, weak, mem, pc, kept, op, val, mode>>

-----------------------------------------------------------------------------
(* rcu with a function that copies the data and pushes one element.        *)

Goto(t, r) == op' = [op EXCEPT ![t] = r]

RcuRead(t) ==
    /\ MayEnter(t, "rcu")
    /\ Goto(t, [Outside EXCEPT !.at = "acquire", !.tmp = cell])
    /\ UNCHANGED <<heapVars, kept, cell, val, mode>>

RcuAcquire(t) ==
    /\ At(t, "acquire")
    /\ Retain(op[t].tmp)
    /\ Goto(t, [op[t] EXCEPT !.at = "dropOld"])
    /\ UNCHANGED <<weak, mem, ptr, pc, kept, cell, val, mode>>

\* oldPtr = load(): what an earlier round loaded is released ...
RcuAssign(t) ==
    /\ At(t, "dropOld")
    /\ Release(t, op[t].old)
    /\ Goto(t, [op[t] EXCEPT !.at = "dropNew", !.old = op[t].tmp, !.tmp = Null])
    /\ UNCHANGED <<weak, mem, ptr, kept, cell, val, mode>>

\* ... and the newPtr of that round goes out of scope.
RcuDropNew(t) ==
    /\ At(t, "dropNew")
    /\ Release(t, op[t].new)
    /\ Goto(t, [op[t] EXCEPT !.at = "apply", !.new = Null])
    /\ UNCHANGED <<weak, mem, ptr, kept, cell, val, mode>>

Value(b) == IF b = Null THEN 0 ELSE val[b]

RcuApply(t) ==
    /\ At(t, "apply")
    /\ Value(op[t].old) < MaxPushes
    /\ \E b \in Blocks :
          /\ Make(b, Value(op[t].old) + 1)
          /\ Goto(t, [op[t] EXCEPT !.at = "exchange", !.new = b])
    /\ UNCHANGED <<ptr, pc, cell, mode>>

\* Mistake: the new block is stored without comparing.
RcuStores(t) ==
    /\ At(t, "exchange")
    /\ cell' = op[t].new
    /\ Goto(t, [op[t] EXCEPT !.at = "retain"])
    /\ UNCHANGED <<heapVars, kept, val, mode>>

RcuSucceeds(t) ==
    /\ At(t, "exchange")
    /\ cell = op[t].old
    /\ cell' = op[t].new
    /\ Goto(t, [op[t] EXCEPT !.at = "retain"])
    /\ UNCHANGED <<heapVars, kept, val, mode>>

\* The weak form of the exchange may also fail for no reason, so that it can
\* be taken for one step with the load that follows.
RcuFails(t) ==
    /\ At(t, "exchange")
    /\ Goto(t, [op[t] EXCEPT !.at = "acquire", !.tmp = cell])
    /\ UNCHANGED <<heapVars, kept, cell, val, mode>>

RcuRetain(t) ==
    /\ At(t, "retain")
    /\ Retain(op[t].new)
    /\ Goto(t, [op[t] EXCEPT !.at = "dropCell"])
    /\ UNCHANGED <<weak, mem, ptr, pc, kept, cell, val, mode>>

\* The reference that was the cell's.
RcuDropCell(t) ==
    /\ At(t, "dropCell")
    /\ Release(t, op[t].old)
    /\ Goto(t, [op[t] EXCEPT !.at = "return"])
    /\ UNCHANGED <<weak, mem, ptr, kept, cell, val, mode>>

\* Mistake: only the reference that was the cell's is released.
RcuReturnKeeping(t) ==
    /\ At(t, "return")
    /\ ptr' = [ptr EXCEPT ![Res(t)] = op[t].new]
    /\ Goto(t, Outside)
    /\ UNCHANGED <<strong, pc, weak, mem, kept, cell, val, mode>>

\* newPtr is the result, and oldPtr goes out of scope.
RcuReturn(t) ==
    /\ At(t, "return")
    /\ ptr' = [ptr EXCEPT ![Res(t)] = op[t].new]
    /\ Release(t, op[t].old)
    /\ Goto(t, Outside)
    /\ UNCHANGED <<weak, mem, kept, cell, val, mode>>

-----------------------------------------------------------------------------
Program(t) ==
    \/ NewArg(t) \/ CopyResult(t) \/ Drop(t) \/ \E b \in Blocks : Unkeep(t, b)
    \/ LoadRead(t) \/ SwapCopy(t) \/ SwapMove(t) \/ RcuRead(t)

\* What a thread inside an operation does next.
Proceed(t) ==
    \/ Reclaim(t) \/ LoadRetain(t) \/ SwapRetain(t)
    \/ RcuAcquire(t) \/ RcuAssign(t) \/ RcuDropNew(t) \/ RcuApply(t)
    \/ RcuSucceeds(t) \/ RcuFails(t)
    \/ RcuRetain(t) \/ RcuDropCell(t) \/ RcuReturn(t)

Next ==
    \/ \E t \in Threads : Program(t) \/ Proceed(t)
    \/ \E b \in Blocks : Recycle(b)

Spec == Init /\ [][Next]_vars

-----------------------------------------------------------------------------
(* Properties.                                                             *)

Places == {"outside", "load", "swap", "acquire", "dropOld", "dropNew", "apply",
           "exchange", "retain", "dropCell", "return"}
MaybeBlock == Blocks \cup {Null}

TypeOK ==
    /\ Heap!TypeOK
    /\ cell \in MaybeBlock
    /\ op \in [Threads -> [at : Places, old : MaybeBlock, new : MaybeBlock, tmp : MaybeBlock]]
    /\ val \in [Blocks -> 0..MaxPushes]
    /\ mode \in Modes

\* What the operation of t refers to.
Frame(t) == {op[t].old, op[t].new, op[t].tmp}

\* The hands of a thread that can hold a reference: its own pointers, but for an
\* argument that swap has published and not yet counted; rcu's oldPtr and newPtr,
\* likewise; and the raw pointer that is counted, or that was the cell's.
Hands == {"arg", "res", "old", "new", "raw"}

InHand(t, h) ==
    LET o == op[t]
    IN  CASE h = "arg" -> IF o.at = "swap" THEN Null ELSE ptr[Arg(t)]
          [] h = "res" -> ptr[Res(t)]
          [] h = "old" -> o.old
          [] h = "new" -> IF o.at = "retain" THEN Null ELSE o.new
          [] h = "raw" -> IF o.at \in {"swap", "dropOld"} THEN o.tmp
                          ELSE IF o.at \in {"retain", "dropCell"} THEN o.old ELSE Null

\* The block in each hand of each thread.
Held == [x \in Threads \X Hands |-> InHand(x[1], x[2])]

References(b) ==
    Cardinality({x \in Threads \X Hands : Held[x] = b}) + kept[b] + (IF cell = b THEN 1 ELSE 0)

\* The count is exact, the cell's own reference included (tests/ptr.cpp 86:
\* "ptr1 + loaded1 + swap"), also between the steps of swap and rcu
\* (PtrSwap.hpp 48-89), if the cell is used in one of the safe ways.
CountsExact == mode # "rcu" => \A b \in Blocks : strong[b] = References(b)

\* What a SharedPtr, the cell or an operation refers to has not been
\* destroyed, if the cell is used in one of the safe ways: load and rcu rely
\* on somebody else's reference between reading the cell and counting
\* (PtrSwap.hpp 37), swap on its argument's (50-51).
NoDangling ==
    mode # "rcu" =>
        /\ \A b \in ({ptr[s] : s \in Slots} \cup {cell} \cup UNION {Frame(t) : t \in Threads})
                    \ {Null} : mem[b] = "live"
        /\ \A t \in Threads : pc[t].block # Null => mem[pc[t].block] \in {"live", "destroyed"}

\* rcu is atomic (tests/ptr.cpp 132): a successful exchange replaces the data
\* that the function was given, with one push more, although it compares
\* addresses only and addresses are used again (PtrSwap.hpp 74-77).
RcuIsAtomic ==
    [][\A t \in Threads :
           op[t].at = "exchange" /\ op'[t].at = "retain" /\ mode # "rcu" =>
               val[cell'] = Value(cell) + 1]_vars

\* "The provided function may be called multiple times, with the current value"
\* (PtrSwap.hpp 66): what it is called with is alive.
RcuSeesLiveData ==
    \A t \in Threads :
        op[t].at = "apply" /\ op[t].old # Null => mem[op[t].old] = "live"
=============================================================================
