------------------------------- MODULE SmallVec -------------------------------
(***************************************************************************)
(* asp::SmallVec<T, N> (include/asp/collections/SmallVec.hpp): a vector    *)
(* whose first N elements live inside the object.                          *)
(*                                                                         *)
(* A vector is a row of cells, a size and a capacity; it is large when its *)
(* capacity is above N.  A cell is raw memory or holds an element, and the *)
(* code builds and destroys the elements one by one; one that is moved is  *)
(* always destroyed at once.  To destroy, move or copy raw memory is       *)
(* undefined: the vector has a fault, and nothing is said of what follows. *)
(* Only where T is trivially destructible (`trivial`) it does no harm.     *)
(*                                                                         *)
(* `items` is the vector the caller means, kept as a sequence beside the   *)
(* cells.  `lapses` remembers the calls, recognised by their arguments     *)
(* alone, for which the code does not do what it should:                   *)
(*   "shift"  more elements follow the gap than it is wide;                *)
(*   "leak"   an erase with more elements to remove than follow them;      *)
(*   "husk"   the vector was the source of a move while it was small, and  *)
(*            has not been emptied, assigned to or built again since;        *)
(*   "alias"  push_back of the vector's own element when it has to grow.   *)
(***************************************************************************)
EXTENDS Integers, Sequences, FiniteSets

CONSTANTS Vectors,   \* the SmallVec objects
          Edited,    \* those that get elements; the others are only assigned to
          Items,     \* the values of T
          N,         \* how many elements fit in the object
          Raw,       \* memory without an element
          Lists,     \* rows of elements that are inserted, or that a vector is built from
          Capacities, \* what reserve() is called with
          MaxSize,   \* bound: the elements of a vector
          MaxLapses  \* bound: kinds of lapses in one behaviour

ASSUME SmallVecAssumption ==
    /\ Edited \subseteq Vectors
    /\ N \in Nat
    /\ Raw \notin Items
    /\ Capacities \subseteq Nat
    /\ \A xs \in Lists : xs \in Seq(Items)
    /\ MaxSize \in Nat /\ MaxLapses \in Nat

VARIABLES trivial,   \* T is trivially destructible
          vec,       \* vec[v]: the object
          items,     \* history: the elements v should have
          lapses     \* history: what went wrong with v

vecVars == <<trivial, vec, items, lapses>>

Lapses == {"shift", "leak", "husk", "alias"}

\* The default constructor.
NewVector == [cells |-> [i \in 0 .. N - 1 |-> Raw], size |-> 0, cap |-> N, fault |-> FALSE]

\* s is an object: a row of cap cells, the first of which m_size counts.
IsObject(s) ==
    /\ s \in [cells : {s.cells}, size : Nat, cap : Nat, fault : BOOLEAN]
    /\ s.cells \in [0 .. s.cap - 1 -> Items \cup {Raw}]
    /\ s.size <= s.cap /\ N <= s.cap

VecTypeOK ==
    /\ trivial \in BOOLEAN
    /\ vec = [v \in Vectors |-> vec[v]] /\ \A v \in Vectors : IsObject(vec[v])
    /\ items \in [Vectors -> Seq(Items)]
    /\ lapses \in [Vectors -> SUBSET Lapses]

VecInit ==
    /\ trivial \in BOOLEAN
    /\ vec   = [v \in Vectors |-> NewVector]
    /\ items = [v \in Vectors |-> <<>>]
    /\ lapses = [v \in Vectors |-> {}]

-----------------------------------------------------------------------------
(* The elements, on the record s of one vector.                            *)

\* A loop over k = 1 .. n that begins with s.
Loop(Body(_, _), s, n) ==
    LET after[k \in 0 .. n] == IF k = 0 THEN s ELSE Body(after[k - 1], k)
    IN  after[n]

\* isLarge
IsLarge(s) == s.cap > N

\* Uninit::init: whatever was there is overwritten.
Build(s, i, x) == [s EXCEPT !.cells[i] = x]

\* Uninit::destroy
Destroy(s, i) ==
    [Build(s, i, Raw) EXCEPT !.fault = @ \/ (~trivial /\ s.cells[i] = Raw)]

\* An element is moved to the cell j and destroyed where it was.
MoveOut(s, i, j) == Destroy(Build(s, j, s.cells[i]), i)

\* moveOne destroys what is in the cell `to` when that lies below m_size.
MoveOne(s, from, to) ==
    IF from = to THEN s
    ELSE MoveOut(IF to < s.size THEN Destroy(s, to) ELSE s, from, to)

PowerOfTwo[k \in Nat] == IF k = 0 THEN 1 ELSE 2 * PowerOfTwo[k - 1]

\* nextPowerOfTwo: the bits below the highest one of n - 1 are filled.
NextPowerOfTwo(n) ==
    IF n = 0 THEN 1 ELSE CHOOSE p \in {PowerOfTwo[k] : k \in 0 .. n} : p >= n /\ p < 2 * n

\* Some element that m_size counts is not there: to read it is undefined.
HasHole(s) == ~trivial /\ \E i \in 0 .. s.size - 1 : s.cells[i] = Raw

\* reserve: a larger row; its delete[] frees memory and destroys nothing.
Reserve(s, newCap) ==
    IF newCap <= s.cap THEN s
    ELSE [s EXCEPT !.cells = [i \in 0 .. newCap - 1 |-> IF i < s.size THEN s.cells[i] ELSE Raw],
                   !.cap   = newCap,
                   !.fault = @ \/ HasHole(s)]

\* growFor: the capacity doubles to a power of two until the new size fits.
GrowFor(s, extra) ==
    IF s.size + extra <= s.cap THEN s ELSE Reserve(s, NextPowerOfTwo(s.size + extra))

EmplaceBack(s, x) ==
    LET t == GrowFor(s, 1)
    IN  [Build(t, t.size, x) EXCEPT !.size = @ + 1]

DestroyAll(s) == Loop(LAMBDA u, k : Destroy(u, k - 1), s, s.size)

Clear(s) == [DestroyAll(s) EXCEPT !.size = 0]

EmplaceAll(s, xs) == Loop(LAMBDA u, k : EmplaceBack(u, xs[k]), s, Len(xs))

\* Mistake: elements that move to the right are moved from the left.
ShiftForward(s, index, count) ==
    LET t == GrowFor(s, count)
    IN  [Loop(LAMBDA u, k : MoveOne(u, index + k - 1, index + k - 1 + count), t, t.size - index)
            EXCEPT !.size = @ + count]

\* shift: [index, size) moves to the right from its end, or to the left from
\* its beginning, by count.
ShiftRight(s, index, count) ==
    LET t == GrowFor(s, count)
    IN  [Loop(LAMBDA u, k : MoveOne(u, t.size - k, t.size - k + count), t, t.size - index)
            EXCEPT !.size = @ + count]

ShiftLeft(s, index, count) ==
    [Loop(LAMBDA u, k : MoveOne(u, index + k - 1, index + k - 1 - count), s, s.size - index)
        EXCEPT !.size = @ - count]

\* The elements xs go to the cells from `index` on.
BuildAll(s, index, xs) == Loop(LAMBDA u, k : Build(u, index + k - 1, xs[k]), s, Len(xs))

-----------------------------------------------------------------------------
(* The operations.                                                         *)

\* Nothing follows undefined behaviour.
Defined == \A v \in Vectors : ~vec[v].fault

\* v becomes s, should hold xs, and has the lapses ls.
Becomes(v, s, xs, ls) ==
    /\ Len(xs) <= MaxSize
    /\ vec'   = [vec EXCEPT ![v] = s]
    /\ items' = [items EXCEPT ![v] = xs]
    /\ lapses' = [lapses EXCEPT ![v] = ls]
    /\ UNCHANGED trivial

\* The lapses of v when it has been cleared: no husk, unless to destroy its
\* elements once more was undefined.
Emptied(v) == IF trivial THEN lapses[v] \ {"husk"} ELSE lapses[v]

\* emplace_back and both forms of push_back, with a value from outside.
PushBack(v, x) ==
    /\ Becomes(v, EmplaceBack(vec[v], x), Append(items[v], x), lapses[v])

\* push_back(v[i]): growFor has moved and freed the element before it is copied.
PushBackOwn(v, i) ==
    /\ i < vec[v].size /\ vec[v].cells[i] # Raw
    /\ LET x     == vec[v].cells[i]
           grows == vec[v].size + 1 > vec[v].cap
           s     == EmplaceBack(vec[v], x)
       IN  Becomes(v, [s EXCEPT !.fault = @ \/ grows], Append(items[v], x),
                   lapses[v] \cup (IF grows THEN {"alias"} ELSE {}))

\* The four forms of insert: at(index), the elements xs.
InsertElements(v, index, xs) ==
    /\ index <= vec[v].size /\ index <= Len(items[v])
    /\ Becomes(v, BuildAll(ShiftRight(vec[v], index, Len(xs)), index, xs),
               SubSeq(items[v], 1, index) \o xs \o SubSeq(items[v], index + 1, Len(items[v])),
               lapses[v] \cup (IF Len(xs) \in 1 .. vec[v].size - index - 1 THEN {"shift"} ELSE {}))

\* erase(first, last): a range that is not inside throws and changes nothing.
Erase(v, first, count) ==
    /\ count > 0 /\ first + count <= vec[v].size /\ first + count <= Len(items[v])
    /\ LET after == vec[v].size - first - count
       IN  Becomes(v, ShiftLeft(vec[v], first + count, count),
                   SubSeq(items[v], 1, first) \o SubSeq(items[v], first + count + 1, Len(items[v])),
                   lapses[v] \cup (IF after > count THEN {"shift"} ELSE {})
                             \cup (IF after < count THEN {"leak"} ELSE {}))

\* Mistake: the size is lowered and the element stays alive.
PopBackKeeps(v) ==
    /\ vec[v].size > 0
    /\ Becomes(v, [vec[v] EXCEPT !.size = @ - 1],
               SubSeq(items[v], 1, Len(items[v]) - 1), lapses[v])

PopBack(v) ==
    /\ vec[v].size > 0
    /\ Becomes(v, Destroy([vec[v] EXCEPT !.size = @ - 1], vec[v].size - 1),
               SubSeq(items[v], 1, Len(items[v]) - 1), lapses[v])

ClearAll(v) ==
    /\ Becomes(v, Clear(vec[v]), <<>>, Emptied(v))

ReserveMore(v, newCap) ==
    /\ Becomes(v, Reserve(vec[v], newCap), items[v], lapses[v])

\* operator=(const SmallVec&), and the copy constructor on a new vector.
CopyAssign(v, w) ==
    /\ v # w
    /\ LET s == EmplaceAll(Reserve(Clear(vec[v]), vec[w].size),
                           [k \in 1 .. vec[w].size |-> vec[w].cells[k - 1]])
       IN  Becomes(v, [s EXCEPT !.fault = @ \/ HasHole(vec[w])], items[w],
                   Emptied(v) \cup (lapses[w] \cap {"husk"}))

\* operator=(SmallVec&&): a large source gives its row away and is empty
\* after it; a small one loses its elements one by one and keeps its size.
MoveAssign(v, w) ==
    /\ v # w
    /\ LET old   == Clear(vec[v])
           src   == vec[w]
           inner == [NewVector EXCEPT !.size = src.size,
                                      !.cells = [i \in 0 .. N - 1 |->
                                                    IF i < src.size THEN src.cells[i] ELSE Raw]]
       IN  IF IsLarge(src)
           THEN /\ vec' = [vec EXCEPT ![v] = [src EXCEPT !.fault = old.fault], ![w] = NewVector]
                /\ lapses' = [lapses EXCEPT ![v] = Emptied(v) \cup lapses[w], ![w] = {}]
           ELSE /\ vec' = [vec EXCEPT ![v] = [inner EXCEPT !.fault = old.fault \/ HasHole(src)],
                                      ![w] = DestroyAll(src)]
                /\ lapses' = [lapses EXCEPT ![v] = Emptied(v) \cup lapses[w],
                                          ![w] = @ \cup (IF src.size > 0 THEN {"husk"} ELSE {})]
    /\ items' = [items EXCEPT ![v] = items[w], ![w] = <<>>]
    /\ UNCHANGED trivial

\* ~SmallVec destroys the elements that m_size counts, which may be undefined,
\* and frees the row; another vector is built from a list in the same place.
ConstructFrom(v, xs) ==
    LET fault == Clear(vec[v]).fault
    IN  /\ vec'   = [vec EXCEPT ![v] = [EmplaceAll(Reserve(NewVector, Len(xs)), xs)
                                            EXCEPT !.fault = fault]]
        /\ items' = [items EXCEPT ![v] = xs]
        /\ lapses' = [lapses EXCEPT ![v] = IF fault THEN @ ELSE {}]
        /\ UNCHANGED trivial

Edit(v) ==
    \/ \E x \in Items : PushBack(v, x)
    \/ \E i \in 0 .. MaxSize : PushBackOwn(v, i)
    \/ \E index \in 0 .. MaxSize, xs \in Lists : InsertElements(v, index, xs)
    \/ \E first \in 0 .. MaxSize, count \in 1 .. MaxSize : Erase(v, first, count)
    \/ PopBack(v) \/ ClearAll(v)
    \/ \E newCap \in Capacities : ReserveMore(v, newCap)

Replace(v) ==
    \/ \E w \in Vectors : CopyAssign(v, w) \/ MoveAssign(v, w)
    \/ v \in Edited /\ \E xs \in Lists : ConstructFrom(v, xs)

VecNext ==
    /\ Defined
    /\ (\E v \in Edited : Edit(v)) \/ (\E v \in Vectors : Replace(v))
    /\ Cardinality(UNION {lapses'[v] : v \in Vectors}) <= MaxLapses

-----------------------------------------------------------------------------
(* What a vector promises, outside the named lapses.                       *)

\* The vector holds what its caller means it to hold, in order, after any
\* sequence of operations and changes of storage.  For trivially
\* destructible elements a shift or a leak does no harm to that, and a vector
\* that was moved away may be cleared and assigned to again.
ContentsRight ==
    \A v \in Vectors :
        lapses[v] \subseteq (IF trivial THEN {"leak", "shift"} ELSE {"leak"}) =>
            /\ vec[v].size = Len(items[v])
            /\ \A i \in 1 .. Len(items[v]) : vec[v].cells[i - 1] = items[v][i]

\* The cells that hold an element.
Living(s) == {i \in DOMAIN s.cells : s.cells[i] # Raw}

\* No element is destroyed twice or read after its destruction, the destructor
\* of the vector included, unless one of three calls came before: an element
\* of the vector was pushed while it grew, or, where destruction does
\* something, more elements were shifted than the gap is wide, or the vector
\* is the small source of a move.  Without these, m_size counts elements that
\* are alive, and without a leak no other element is.
LifetimesRight ==
    \A v \in Vectors :
        /\ vec[v].fault =>
               \/ "alias" \in lapses[v]
               \/ ~trivial /\ lapses[v] \cap {"shift", "husk"} # {}
        /\ ~trivial /\ lapses[v] \subseteq {"leak"} => 0 .. vec[v].size - 1 \subseteq Living(vec[v])
        /\ ~trivial /\ lapses[v] = {} => Living(vec[v]) = 0 .. vec[v].size - 1
=============================================================================
