--------------------------------- MODULE Iter ---------------------------------
(***************************************************************************)
(* asp's lazy iterators (include/asp/iter).  An iterator is a tree of      *)
(* objects: adaptors that own the iterators they poll, over sources that   *)
(* walk a container, a range, a value or a text.  It is a record here; `op` *)
(* names the class and the other fields are its members.                   *)
(*                                                                         *)
(* Poll(it) is next(): the iterator after the call and the item, a         *)
(* sequence of at most one.  The state machine is a caller who polls a     *)
(* pipeline by hand and may then hand the rest of it to a consuming        *)
(* operation.  Denote says which items a pipeline stands for, written on   *)
(* whole sequences and without any iterator.                               *)
(*                                                                         *)
(* An item is a row of numbers: a number is a row of one, a pair or an     *)
(* array of numbers a longer one, a string the row of its characters.      *)
(***************************************************************************)
EXTENDS Integers, Sequences, Split

LOCAL INSTANCE FiniteSetsExt
LOCAL INSTANCE SequencesExt

CONSTANTS Cases,      \* a pipeline `pipe` and what its containers hold, `row`
          Width,      \* range() counts in unsigned integers of this many bits
          MaxPolls,   \* bound: calls of next() on one pipeline
          MaxHead     \* bound: items taken before the rest is consumed

ASSUME IterAssumption == Width \in Nat /\ MaxPolls \in Nat /\ MaxHead \in Nat

VARIABLES row,      \* row[1], row[2]: the containers walked by reference
          pipe,     \* the pipeline as it was built
          it,       \* the iterator object
          out,      \* the items it returned
          ended,    \* how many calls of next() returned nothing
          result    \* what the consuming operation returned, if it was called

iterVars == <<row, pipe, it, out, ended, result>>

NoItem(i)    == [it |-> i, item |-> <<>>]
Some(i, x) == [it |-> i, item |-> <<x>>]
Has(r)     == r.item # <<>>
Item(r)    == r.item[1]

-----------------------------------------------------------------------------
(* The callbacks the caller gives.                                         *)

\* What a predicate or a comparison looks at: the first number.
Key(x) == IF x = <<>> THEN 0 ELSE x[1]
Odd(x) == Key(x) % 2 = 1
Double(x) == [i \in DOMAIN x |-> 2 * x[i]]
\* A container of as many elements as the number says, for flatMap.
Spread(x) == [i \in 1 .. Key(x) |-> i]

\* The function f on the item x; n items came before it (enumerate's lambda
\* counts them).  mapCast changes a type only.
Applied(f, x, n) ==
    CASE f = "double" -> Double(x)
      [] f = "spread" -> Spread(x)
      [] f = "number" -> <<n>> \o x
      [] f = "first"  -> <<Key(x)>>

-----------------------------------------------------------------------------
(* The constructors.                                                       *)

\* from(container), a pair of C++ iterators; nothing is copied.
From(id) == [op |-> "from", id |-> id, pos |-> 0]
FromReverse(id) == [op |-> "reverse", id |-> id, pos |-> 0]
Once(x) == [op |-> "once", value |-> <<x>>]
Repeat(x, times) == [op |-> "repeat", value |-> x, times |-> times]
RangeOf(start, end) == [op |-> "range", current |-> start, end |-> end]

MapOf(i, f)  == [op |-> "map", iter |-> i, func |-> f, n |-> 0]
Enumerate(i) == MapOf(i, "number")
KeysOf(i)    == MapOf([op |-> "copied", iter |-> i], "first")
FlattenOf(i) == [op |-> "flatten", iter |-> i, cur |-> <<>>]
FlatMap(i)   == FlattenOf(MapOf(i, "spread"))
TakeOf(i, n) == [op |-> "take", iter |-> i, n |-> n]
SkipOf(i, n) == [op |-> "skip", iter |-> i, n |-> n]
Chunks(i, n) == [op |-> "arrayChunks", iter |-> i, size |-> n]
CycleOf(i)   == [op |-> "cycle", original |-> i, iter |-> i]
Wrapped(op, i) == [op |-> op, iter |-> i]       \* filter, filterMap, inspect, copied
Joined(op, i, j) == [op |-> op, iter |-> i, iter2 |-> j]   \* chain, zip

SplitOf(op, text, delim) == [op |-> op, text |-> text, delim |-> delim]
SplitAnyOf(text, delims, skipEmpty) ==
    [op |-> "splitAny", text |-> text, delim |-> delims, skipEmpty |-> skipEmpty]

\* The pipelines with one adaptor over i, and with one over i and j.  A
\* filter or a flatten over an endless cycle may never return, so it is left
\* out; for the rest of it take() makes an end.
Adapted(i) ==
    {MapOf(i, "double"), Enumerate(i), FlatMap(i), KeysOf(i), CycleOf(i), FlattenOf(Chunks(i, 2))}
        \cup {TakeOf(i, n) : n \in 0 .. 2} \cup {SkipOf(i, n) : n \in 0 .. 2}
        \cup {Chunks(i, n) : n \in 1 .. 2} \cup {TakeOf(SkipOf(CycleOf(i), 1), 4)}
        \cup {Wrapped(op, i) : op \in {"filter", "filterMap", "inspect", "copied"}}

Paired(i, j) == {Joined(op, i, j) : op \in {"chain", "zip"}}

-----------------------------------------------------------------------------
(* next() of every class.                                                  *)

RECURSIVE Poll(_), FilterNext(_), FilterMapNext(_), FlattenNext(_), SkipNext(_),
          SplitAnyNext(_)

Walk(i, items) ==
    IF i.pos = Len(items) THEN NoItem(i) ELSE Some([i EXCEPT !.pos = @ + 1], items[i.pos + 1])

FromNext(i)    == Walk(i, row[i.id])
ReverseNext(i) == Walk(i, Reverse(row[i.id]))

OnceNext(i) == IF i.value = <<>> THEN NoItem(i) ELSE Some([i EXCEPT !.value = <<>>], i.value[1])

RepeatNext(i) == IF i.times = 0 THEN NoItem(i) ELSE Some([i EXCEPT !.times = @ - 1], i.value)

\* Compared by == only, so a range that starts above its end wraps around.
RangeNext(i) ==
    IF i.current = i.end THEN NoItem(i)
    ELSE Some([i EXCEPT !.current = (@ + 1) % 2 ^ Width], <<i.current>>)

MapNext(i) ==
    LET r == Poll(i.iter)
    IN  IF Has(r) THEN Some([i EXCEPT !.iter = r.it, !.n = @ + 1], Applied(i.func, Item(r), i.n))
        ELSE NoItem([i EXCEPT !.iter = r.it])

\* Inspect calls a function with the item, Copied returns a copy of it.
SameNext(i) ==
    LET r == Poll(i.iter) IN [it |-> [i EXCEPT !.iter = r.it], item |-> r.item]

FilterNext(i) ==
    LET r    == Poll(i.iter)
        next == [i EXCEPT !.iter = r.it]
    IN  IF ~Has(r) THEN NoItem(next)
        ELSE IF Odd(Item(r)) THEN Some(next, Item(r)) ELSE FilterNext(next)

\* The function returns the double of an odd number and nothing for others.
FilterMapNext(i) ==
    LET r    == Poll(i.iter)
        next == [i EXCEPT !.iter = r.it]
    IN  IF ~Has(r) THEN NoItem(next)
        ELSE IF Odd(Item(r)) THEN Some(next, Double(Item(r))) ELSE FilterMapNext(next)

\* Mistake: the iterator is polled before the count is looked at.
TakeLate(i) ==
    LET r == Poll(i.iter)
    IN  IF i.n = 0 THEN NoItem([i EXCEPT !.iter = r.it])
        ELSE [it |-> [i EXCEPT !.iter = r.it, !.n = @ - 1], item |-> r.item]

TakeNext(i) ==
    LET r == Poll(i.iter)
    IN  IF i.n = 0 THEN NoItem(i)
        ELSE [it |-> [i EXCEPT !.iter = r.it, !.n = @ - 1], item |-> r.item]

SkipNext(i) ==
    LET r == Poll(i.iter)
    IN  IF i.n > 0 /\ Has(r) THEN SkipNext([i EXCEPT !.iter = r.it, !.n = @ - 1])
        ELSE [it |-> [i EXCEPT !.iter = r.it], item |-> r.item]

\* The first iterator is polled again on every call.
ChainNext(i) ==
    LET r == Poll(i.iter)
        s == Poll(i.iter2)
    IN  IF Has(r) THEN Some([i EXCEPT !.iter = r.it], Item(r))
        ELSE [it |-> [i EXCEPT !.iter = r.it, !.iter2 = s.it], item |-> s.item]

\* Both are polled: the longer one loses an item.
ZipNext(i) ==
    LET r    == Poll(i.iter)
        s    == Poll(i.iter2)
        next == [i EXCEPT !.iter = r.it, !.iter2 = s.it]
    IN  IF Has(r) /\ Has(s) THEN Some(next, Item(r) \o Item(s)) ELSE NoItem(next)

\* An incomplete chunk is dropped.
ChunksNext(i) ==
    LET FillOne(acc, k) ==
            IF acc.done THEN acc
            ELSE LET r == Poll(acc.iter)
                 IN  [iter |-> r.it, done |-> ~Has(r),
                      arr  |-> IF Has(r) THEN acc.arr \o Item(r) ELSE <<>>]
        full == FoldLeft(FillOne, [iter |-> i.iter, done |-> FALSE, arr |-> <<>>],
                         [k \in 1 .. i.size |-> k])
        next == [i EXCEPT !.iter = full.iter]
    IN  IF full.done THEN NoItem(next) ELSE Some(next, full.arr)

CycleNext(i) ==
    LET r     == Poll(i.iter)
        again == Poll(i.original)
    IN  IF Has(r) THEN Some([i EXCEPT !.iter = r.it], Item(r))
        ELSE [it |-> [i EXCEPT !.iter = again.it], item |-> again.item]

\* Mistake: the end of an inner container is taken for the end of all.
FlattenOnce(i) ==
    LET r == Poll(i.iter)
    IN  IF i.cur # <<>> THEN Some([i EXCEPT !.cur = Tail(@)], <<Head(i.cur)>>)
        ELSE IF Has(r) /\ Item(r) # <<>>
             THEN Some([i EXCEPT !.iter = r.it, !.cur = Tail(Item(r))], <<Head(Item(r))>>)
             ELSE NoItem([i EXCEPT !.iter = r.it])

\* `cur` is what m_curIter still has of the container in m_curValue.
FlattenNext(i) ==
    LET r == Poll(i.iter)
    IN  IF i.cur # <<>> THEN Some([i EXCEPT !.cur = Tail(@)], <<Head(i.cur)>>)
        ELSE IF Has(r) THEN FlattenNext([i EXCEPT !.iter = r.it, !.cur = Item(r)])
             ELSE NoItem([i EXCEPT !.iter = r.it])

\* Split::next and Lines::next: an empty rest is the end.
PieceNext(i, p) ==
    IF i.text = <<>> THEN NoItem(i) ELSE Some([i EXCEPT !.text = p.rest], p.out)

SplitNext(i) ==
    PieceNext(i, CASE i.op = "splitChar"  -> NextSplitChar(i.text, i.delim)
                   [] i.op = "splitSub"   -> NextSplitSub(i.text, i.delim)
                   [] i.op = "splitBytes" -> NextSplitBytes(i.text, i.delim))

LinesNext(i) == PieceNext(i, NextLine(i.text, 1))

SplitAnyNext(i) ==
    LET p    == NextSplitAny(i.text, i.delim)
        next == [i EXCEPT !.text = p.rest]
    IN  IF i.text = <<>> THEN NoItem(i)
        ELSE IF ~i.skipEmpty \/ p.out # <<>> THEN Some(next, p.out) ELSE SplitAnyNext(next)

Poll(i) ==
    CASE i.op = "from" -> FromNext(i)           [] i.op = "reverse" -> ReverseNext(i)
      [] i.op = "once" -> OnceNext(i)           [] i.op = "repeat" -> RepeatNext(i)
      [] i.op = "range" -> RangeNext(i)         [] i.op = "map" -> MapNext(i)
      [] i.op \in {"inspect", "copied"} -> SameNext(i)
      [] i.op = "filter" -> FilterNext(i)       [] i.op = "filterMap" -> FilterMapNext(i)
      [] i.op = "take" -> TakeNext(i)           [] i.op = "skip" -> SkipNext(i)
      [] i.op = "chain" -> ChainNext(i)         [] i.op = "zip" -> ZipNext(i)
      [] i.op = "arrayChunks" -> ChunksNext(i)  [] i.op = "cycle" -> CycleNext(i)
      [] i.op = "flatten" -> FlattenNext(i)     [] i.op = "lines" -> LinesNext(i)
      [] i.op = "splitAny" -> SplitAnyNext(i)
      [] OTHER -> SplitNext(i)

-----------------------------------------------------------------------------
(* The consuming operations: loops over next().                            *)

RECURSIVE AllOf(_), AnyOf(_), Find(_), Count(_, _), Collect(_, _), Join(_, _), MinOf(_, _),
          MaxOf(_, _), SumOf(_, _), Visit(_, _, _)

AllOf(i) == LET r == Poll(i) IN IF ~Has(r) THEN TRUE  ELSE IF ~Odd(Item(r)) THEN FALSE ELSE AllOf(r.it)
AnyOf(i) == LET r == Poll(i) IN IF ~Has(r) THEN FALSE ELSE IF Odd(Item(r)) THEN TRUE ELSE AnyOf(r.it)
Find(i) == LET r == Poll(i) IN IF ~Has(r) \/ Odd(Item(r)) THEN r.item ELSE Find(r.it)

Count(i, cnt) == LET r == Poll(i) IN IF Has(r) THEN Count(r.it, cnt + 1) ELSE cnt

Collect(i, cont) == LET r == Poll(i) IN IF Has(r) THEN Collect(r.it, Append(cont, Item(r))) ELSE cont

\* The separator is <<0>>; `first` is that nothing was written yet.
Separator == <<0>>
Join(i, s) ==
    LET r == Poll(i)
    IN  IF ~Has(r) THEN s.text
        ELSE Join(r.it, [first |-> FALSE,
                         text  |-> s.text \o (IF s.first THEN <<>> ELSE Separator) \o Item(r)])

\* Mistake: the later of equal items is kept.
MinLast(i, min) ==
    LET r == Poll(i)
    IN  IF ~Has(r) THEN min
        ELSE MinOf(r.it, IF min = <<>> \/ Key(Item(r)) <= Key(min[1]) THEN r.item ELSE min)

MinOf(i, min) ==
    LET r == Poll(i)
    IN  IF ~Has(r) THEN min
        ELSE MinOf(r.it, IF min = <<>> \/ Key(Item(r)) < Key(min[1]) THEN r.item ELSE min)

MaxOf(i, max) ==
    LET r == Poll(i)
    IN  IF ~Has(r) THEN max
        ELSE MaxOf(r.it, IF max = <<>> \/ Key(max[1]) < Key(Item(r)) THEN r.item ELSE max)

SumOf(i, total) == LET r == Poll(i) IN IF Has(r) THEN SumOf(r.it, total + Key(Item(r))) ELSE total

\* A range-based for: begin() polls once, ++ again, and two iterators are
\* equal when both hold an item or neither does.
Visit(i, item, visited) ==
    IF item = <<>> THEN visited
    ELSE LET r == Poll(i) IN Visit(r.it, r.item, Append(visited, item[1]))

Operations == {"all", "any", "find", "count", "collect", "join", "min", "max", "sum", "for"}

ResultOf(op, i) ==
    CASE op = "all" -> AllOf(i)            [] op = "any" -> AnyOf(i)
      [] op = "find" -> Find(i)            [] op = "count" -> Count(i, 0)
      [] op = "collect" -> Collect(i, <<>>)
      [] op = "join" -> Join(i, [first |-> TRUE, text |-> <<>>])
      [] op = "min" -> MinOf(i, <<>>)      [] op = "max" -> MaxOf(i, <<>>)
      [] op = "sum" -> SumOf(i, 0)
      [] op = "for" -> LET r == Poll(i) IN Visit(r.it, r.item, <<>>)

-----------------------------------------------------------------------------
(* The caller.                                                             *)

NotCalled == [op |-> "none"]

\* No end comes: a cycle over something that is not empty.
Endless == pipe.op = "cycle"

IterInit ==
    /\ \E c \in Cases : row = c.row /\ pipe = c.pipe
    /\ it = pipe /\ out = <<>> /\ ended = 0
    /\ result = NotCalled

\* next(), which may also be called again after the end.
CallNext ==
    /\ result = NotCalled
    /\ Len(out) < MaxPolls /\ ended < 2
    /\ LET r == Poll(it)
       IN  /\ it' = r.it
           /\ out' = out \o r.item
           /\ ended' = IF Has(r) THEN ended ELSE ended + 1
    /\ UNCHANGED <<row, pipe, result>>

\* What is left goes to a consuming operation.
CallOperation(op) ==
    /\ result = NotCalled /\ ~Endless
    /\ Len(out) <= MaxHead /\ ended = 0
    /\ result' = [op |-> op, value |-> ResultOf(op, it)]
    /\ UNCHANGED <<row, pipe, it, out, ended>>

IterNext ==
    \/ CallNext
    \/ \E op \in Operations : CallOperation(op)

-----------------------------------------------------------------------------
(* What the pipelines stand for.                                           *)

RECURSIVE Denote(_, _), Pulled(_, _), Walked(_)

\* How far the items of an endless cycle are written down.
Horizon == 4 * MaxPolls

Shorter(s, t) == Min({Len(s), Len(t)})

\* The items of the pipeline p when the containers hold `given`.
Denote(p, given) ==
    LET s == IF "iter" \in DOMAIN p THEN Denote(p.iter, given) ELSE <<>>
        t == IF "iter2" \in DOMAIN p THEN Denote(p.iter2, given) ELSE <<>>
    IN  CASE p.op = "from"    -> given[p.id]
          [] p.op = "reverse" -> Reverse(given[p.id])
          [] p.op = "once"    -> p.value
          [] p.op = "repeat"  -> [k \in 1 .. p.times |-> p.value]
          [] p.op = "range"   -> [k \in 1 .. (p.end - p.current) % 2 ^ Width |->
                                     <<(p.current + k - 1) % 2 ^ Width>>]
          [] p.op = "map"     -> [k \in DOMAIN s |-> Applied(p.func, s[k], k - 1)]
          [] p.op \in {"inspect", "copied"} -> s
          [] p.op = "filter"  -> SelectSeq(s, Odd)
          [] p.op = "filterMap" -> LET odd == SelectSeq(s, Odd)
                                   IN  [k \in DOMAIN odd |-> Double(odd[k])]
          [] p.op = "take"    -> SubSeq(s, 1, Min({p.n, Len(s)}))
          [] p.op = "skip"    -> SubSeq(s, p.n + 1, Len(s))
          [] p.op = "chain"   -> s \o t
          [] p.op = "zip"     -> [k \in 1 .. Shorter(s, t) |-> s[k] \o t[k]]
          [] p.op = "arrayChunks" ->
                 [k \in 1 .. Len(s) \div p.size |->
                     FlattenSeq(SubSeq(s, (k - 1) * p.size + 1, k * p.size))]
          [] p.op = "flatten" ->
                 FlattenSeq([k \in DOMAIN s |-> [j \in DOMAIN s[k] |-> <<s[k][j]>>]])
          [] p.op = "cycle"   -> IF s = <<>> THEN <<>>
                                 ELSE [k \in 1 .. Horizon |-> s[((k - 1) % Len(s)) + 1]]
          [] p.op \in {"splitChar", "splitBytes"} -> AnyPieces(p.text, {p.delim})
          [] p.op = "splitSub" -> SubPieces(p.text, p.delim)
          [] p.op = "splitAny" ->
                 SelectSeq(AnyPieces(p.text, p.delim), LAMBDA x : ~p.skipEmpty \/ x # <<>>)
          [] p.op = "lines"   -> LinePieces(p.text)

\* How many items the walk over the container id has given.
Pulled(i, id) ==
    (IF i.op = "from" /\ i.id = id THEN i.pos ELSE 0)
    + (IF "iter" \in DOMAIN i THEN Pulled(i.iter, id) ELSE 0)
    + (IF "iter2" \in DOMAIN i THEN Pulled(i.iter2, id) ELSE 0)

\* The containers that p walks from their first item, once.  (Without items
\* of its first iterator a chain has others, so there the length says nothing.)
Walked(p) ==
    IF p.op = "from" THEN {p.id}
    ELSE IF p.op = "cycle" THEN {}
    ELSE IF p.op = "chain" THEN Walked(p.iter2)
    ELSE UNION {Walked(p[m]) : m \in DOMAIN p \cap {"iter", "iter2"}}

\* How many of them it takes to have k items of the pipeline.
Needed(id, k) ==
    Min({m \in 0 .. Len(row[id]) :
            Len(Denote(pipe, [row EXCEPT ![id] = SubSeq(@, 1, m)])) >= k})

\* What a consuming operation should return for the items s.
Right(op, s, value) ==
    CASE op = "all" -> value = \A k \in DOMAIN s : Odd(s[k])
      [] op = "any" -> value = \E k \in DOMAIN s : Odd(s[k])
      [] op = "find" -> LET odd == {k \in DOMAIN s : Odd(s[k])}
                        IN  value = IF odd = {} THEN <<>> ELSE <<s[Min(odd)]>>
      [] op = "count" -> value = Len(s)
      [] op \in {"collect", "for"} -> value = s
      [] op = "join" -> value = FlattenSeq([k \in DOMAIN s |->
                                               IF k = 1 THEN s[k] ELSE Separator \o s[k]])
      [] op \in {"min", "max"} ->
             LET best == {k \in DOMAIN s : \A j \in DOMAIN s :
                             IF op = "min" THEN Key(s[k]) <= Key(s[j]) ELSE Key(s[k]) >= Key(s[j])}
             IN  value = IF s = <<>> THEN <<>> ELSE <<s[Min(best)]>>
      [] op = "sum" -> value = FoldLeft(LAMBDA acc, x : acc + Key(x), 0, s)

-----------------------------------------------------------------------------
(* Properties.                                                             *)

\* However adaptors are stacked, polling item by item gives exactly the
\* items the pipeline stands for, in order; the end is reported when there
\* are no more, and a pipeline that ended stays at its end.
YieldsDenoted ==
    LET items == Denote(pipe, row)
    IN  IF ended = 0 THEN IsPrefix(out, items) ELSE out = items

\* Iterators are lazy: to return k items a pipeline takes no more from any
\* container than k items need, and a finished take() takes nothing more.
TakesOnlyNeeded ==
    (ended = 0 \/ (pipe.op = "take" /\ Len(out) = pipe.n)) =>
        \A id \in Walked(pipe) : Pulled(it, id) = Needed(id, Len(out))

\* A consuming operation, also on a pipeline that was polled before, returns
\* what its name says of the items that were left.
ResultRight ==
    result # NotCalled =>
        LET items == Denote(pipe, row)
        IN  Right(result.op, SubSeq(items, Len(out) + 1, Len(items)), result.value)
=============================================================================
