# A TLA+ model of asp2

asp2 is a C++ library of building blocks: threads and thread pools, channels,
mutexes and notifiers, reference-counted pointers, checked time arithmetic,
small collections, iterator adaptors, a file-system layer.  This directory
holds TLA+ modules translated from its source, TLC configurations that check
them on small instances, and proofs checked by TLAPS.  Paths below are relative
to the repository; `X.hpp` stands for `include/asp/.../X.hpp`.

## Inventory

| component | state | operations | interacts with |
|---|---|---|---|
| Channel (`sync/Channel.hpp`) | a `std::queue`, one mutex, one condition variable | push, tryPop, popNow, popTimeout, waitForMessages, drain, empty, size | ThreadPool; threads of the program |
| Thread (`thread/Thread.hpp`, `Thread.cpp`) | handle, shared Storage (stop flag, loop function, callbacks), moved-from mark | start, stop, join, stopAndWait, detach, moves, destructor, setters; StopToken::stop inside the loop | OS threads, ThreadPool |
| ThreadPool (`thread/ThreadPool.hpp`, `ThreadPool.cpp`) | workers (Threads), a task Channel, the counter of remaining work | pushTask, join, setExceptionFunction, move, destructor; worker loop | Channel, Thread, client threads, tasks that push tasks |
| SharedPtr, WeakPtr, EnableSharedFromThis (`ptr/SharedPtr.hpp`) | per block a strong and a weak counter; per pointer object a block pointer | make, copy, move, assign, reset, leak, adoptFromRaw, downgrade, upgrade, release | PtrSwap; the data's destructor |
| PtrSwap (`ptr/PtrSwap.hpp`) | an atomic raw block pointer that owns one reference | load, store, swap, rcu, moves, destructor | SharedPtr's counters |
| Mutex, SpinLock (`sync/Mutex.hpp`, `sync/SpinLock.hpp`) | a lock and the value it guards; guards with a "locked" bit | lock, unlock, relock, guard moves, destructor | Notify's predicates; threads of the program |
| Notify (`sync/Notify.hpp`, `platform/*/Notify.cpp`) | mutex and condition variable, no flag | wait with and without predicate and timeout, notifyOne, notifyAll | Mutex, SpinLock through its callers |
| Duration, Instant (`time/Duration.hpp`, `Instant.cpp`) | seconds and nanoseconds | construction, checked, saturating and plain arithmetic, comparison, conversions | Channel and Notify timeouts, Cache |
| SystemTime (`time/SystemTime.hpp`, `SystemTime.cpp`) | signed seconds and nanoseconds, or ticks on Windows | now, sums, differences, order, fromUnix, to_time_t, formatting, sleeping | Duration, operating system |
| SmallVec (`collections/SmallVec.hpp`) | inline or heap cells, size, capacity | push, emplace, insert, erase, clear, reserve, copies, moves | - |
| Cache (`collections/Cache.hpp`) | entries with time stamps, limits | insert, get, setters; eviction and sweep inside them | Duration, Instant |
| NumberCycle (`math/NumberCycle.hpp`) | an int and its range | set, steps up and down | - |
| Numbers and parsing (`data/nums.hpp`, `data/util.hpp`) | none | checked arithmetic, integer texts, byte order | Duration |
| Cow (`data/Cow.hpp`) | an owned or a borrowed value | construction, assignment, toOwned | strings |
| Iterators (`iter/`) | adaptors, each with its own position | next, collect and friends | containers, texts |
| BoxedString (`ptr/BoxedString.hpp`) | a shared or unique heap buffer, a size | construction, format, copies, moves, clone | SharedPtr |
| File system (`fs/`) | none of its own | wrappers of system calls with error codes | operating system |
| CPU features, Log, assert, config, net | none | queries, output, macros | - |

### What is hard about it

* **Channel.**  One `notify_one` per push, receivers that sleep, time out, wake
  spuriously or were never asleep, and a second kind of waiter
  (`waitForMessages`) on the same condition variable.  Correct if: FIFO, every
  message delivered once; no message sits beside a sleeping receiver that
  nobody woke; a timed wait ends, and not empty-handed beside data.
* **Thread.**  The stop flag is a member of a storage that outlives the run,
  is cleared by `start()` and raised by `stop()`, by the token and by the
  ending run; handle and storage move together; `~std::thread` terminates the
  program if the handle is joinable.  Correct if: one OS thread per storage; the
  owner can always reach and stop its thread; a stop request sticks; no
  unrequested end; stopping, destroying and restarting return.
* **ThreadPool.**  A counter raised before a task is queued and lowered after it
  ran, polled by join; tasks that push tasks; tasks and exception functions that
  throw; a destructor that waits for the counter.  Correct if: the counter is
  exact; join and the destructor wait for everything and return; no task is
  dropped.
* **SharedPtr.**  Two counters, the block freed by the weak one; upgrade against
  the last release; data that holds a weak reference to itself; assignments that
  release first.  Correct if: both counters exact, nothing dangles, data is never
  revived, memory is freed.
* **PtrSwap.**  Reads a raw pointer and then counts it; publishes a pointer and
  then counts it; compare-and-exchange on addresses.
* **Mutex, SpinLock.**  Guards that are unlocked early, relocked, moved from and
  assigned over.  Correct if: a lock is held exactly as often as guards hold it.
* **Notify.**  Signals without the mutex and without a flag; a timeout that is not
  followed by another look.  Correct if: announced work is not slept on; a timed
  wait returns.
* **Duration, Instant, SystemTime.**  Carries at exactly one second, overflow at
  the ends of 64 bits, two representations of the wall clock.  Correct if:
  results are exact, saturate or are refused.
* **SmallVec.**  Which cells hold live objects after a move, an erase, a spill.
  Correct if: it holds what was put in, and each element is destroyed once.
* **Cache.**  Eviction at the limit and on expiry, with two readings of the clock
  in one call.  Correct if: it grows only to its limit; nothing leaves early.
* **Iterators.**  Adaptors stacked on adaptors that have ended, or that ask their
  source once too often.  Correct if: they yield what they denote, and lazily.
* **File system.**  A path or a size that changes between two system calls; calls
  that fail half-way.  Correct if: an outcome is true and no handle stays open.
* **NumberCycle, integer texts.**  Both ends of a range and of an integer type.
* **BoxedString, Cow.**  Defaulted moves; views that outlive what they show.

The main hazards, each at its line, are under `hazards` in `PROJECT.json`.

## Modules

| module | models | composed of |
|---|---|---|
| `MessageQueue` | what a channel promises: an atomic FIFO queue | |
| `Channel` | `Channel.hpp` | implements `MessageQueue` |
| `Channel_proofs` | theorems about `Channel` | `Channel`, TLAPS |
| `Thread`, `MCThread` | `Thread.hpp` | |
| `Thread_proofs` | theorems about `Thread` | `Thread`, TLAPS |
| `ThreadPool`, `MCThreadPool` | `ThreadPool.cpp` | `Channel` (as its task queue) |
| `ThreadPool_proofs` | theorems about `ThreadPool` | `ThreadPool`, TLAPS |
| `SharedPtr` | `SharedPtr.hpp` | |
| `SharedPtr_proofs` | theorems about `SharedPtr` | `SharedPtr`, TLAPS |
| `PtrSwap`, `MCPtrSwap` | `PtrSwap.hpp` | `SharedPtr` (counters, pointers and blocks) |
| `PtrSwap_proofs` | theorems about `PtrSwap` | `PtrSwap`, TLAPS |
| `Mutex` | `Mutex.hpp`, `SpinLock.hpp` | |
| `Notify`, `MCNotify` | `Notify.hpp` and both `Notify.cpp` | `Mutex` (the lock that predicates take) |
| `Notify_proofs` | theorems about `Mutex` and `Notify` | `Notify`, TLAPS |
| `Time` | `Duration.hpp`, `Instant.cpp`, checked numbers | |
| `SmallVec` | `SmallVec.hpp` | |
| `Cache` | `Cache.hpp` | |
| `Split` | `Split.hpp`, `Lines.hpp` as operators | |
| `Iter` | the other headers of `iter/` | `Split` |
| `Files` | `fs.cpp` | |
| `NumberCycle` | `NumberCycle.hpp` | |
| `SystemTime` | `SystemTime.hpp`, `SystemTime.cpp` | |
| `IntegerText` | the parsing and printing in `data/util.hpp` | |
| `Numbers` | | `NumberCycle`, `SystemTime`, `IntegerText` |
| `MCNumbers` | | `Numbers` and `Time`, one component used in each behaviour |
| `Numbers_proofs` | induction; theorems about `Numbers` and `Time` | these, TLAPS |
| `Strings` | `BoxedString.hpp`, `Cow.hpp` | |
| `MCComponents` | | `SmallVec`, `Cache`, `Iter`, `Files`, `Strings`, one used in each behaviour |
| `Components_proofs` | theorems about `SmallVec`, `Cache`, `Strings` and `Files` | these, `Numbers_proofs` |

Several modules keep a history of *lapses*: calls, recognised by their arguments
and the state before them, for which the code is known not to do what it should.
A property then says that nothing goes wrong except after a lapse, so that
it is about all the other behaviours, and the lapses are listed below as facts
about the code.

Definitions preceded by a comment "Mistake: ..." are wrong versions of the
definition that follows them: replacing it by the wrong version makes TLC report
the property they are listed with under `mutants`.  No specification uses them.

All models are sequentially consistent: the weaker memory orders that the code
asks for are not represented.

### Channel

A step is a stretch of an operation between taking and giving up the mutex.  A
blocking call is three steps: the caller sees an empty queue and sleeps
(`PopTimeout`, `WaitForMessages`); it is woken by a push, its deadline or
spuriously (`NotifyOne`, `Timeout`, `SpuriousWake`, the external behaviour of
`std::condition_variable`); it has the mutex again and evaluates the predicate
(`WakePop`, `WakePeek`, `WakeAgain`, `WakeExpired`).  `queue`, `call` and `cv` are
the program's state; `sent`, `last` and `peeked` are histories that the
properties refer to.  `pop()` has no step: its last line names a member that
`std::queue` does not have (`queue.data`, line 39), so a program that calls it
does not compile.  `drain` is a sequence of `TryPop`.  The deadline itself is not
represented: it may pass at any moment after the caller went to sleep.

### Thread

One controller thread operates on the objects, any thread may call `stop()`, and
the loop function may use its token.  An object is a record of `alive`, `handle`,
`store` and `movedFrom`; a Storage of `used`, `stopped` and whether an exception
callback is set; an OS thread of its place in the loop.  `start()` is two steps
because it clears the flag before it joins an earlier run.  The history `taken`
records which *liberties* the program has taken: `start()` while an earlier run goes on
that was asked to stop (`restart`) or that nobody asked (`rerun`), move-assigning
into a moved-from object (`refill`), move-assigning over a joinable one
(`overwrite`).  Starting again after the earlier run has finished, joined or not, is
a plain use.  Properties that a liberty can break say so in their formulas; three of
the exceptions are worth knowing:

* a run that stopped itself through its token is called again if `start()`
  clears the flag before it looks (`TokenStopIsFinal`, after `restart`);
* the end of an earlier run raises the flag of the next one, which then ends
  before its first iteration (`EndsOnlyWhenAsked`, after `restart` or `rerun`);
* move assignment does not clear the target's own `movedFrom` mark, so a
  moved-from object that is refilled ignores `stop()` and refuses `start()`, its
  `stopAndWait()` waits for ever for a run that was never told to end
  (`StopReturns` is about objects without the mark), and its destructor leaves a
  joinable handle to `~std::thread` (`HandlesAreJoined`, after `refill`).

### ThreadPool

Workers are `Thread`s whose loop function pops one task with a timeout; the task
channel is `Channel` itself, instantiated with the pool's variables.  The counter
is raised (`CountTask`), then the task queued (`PushTask`); a task that is over is
counted down in a step of its own (`Finish`, `Count`), so that `join` may look in
between.  A task may end in an exception: handled by the pool's exception
function (`Finish`), or leaving it, in which case Thread's handler, the same
function, gets it (`WorkerDies`, `Abort`).  `Windows` selects the two versions of
`allDead`.

### SharedPtr

Each counter update, each destructor run and each deallocation is a step.  `pc[t]`
says where thread `t` is in an operation: destroying the data's members, the data,
dropping the weak reference that all SharedPtrs share, freeing, the second half of
an assignment, or between load and compare-exchange of `upgrade`.  A pointer
object is used by one thread at a time, as the class requires.

### PtrSwap

A cell shared by several threads, beside the pointers, counters and blocks of
`SharedPtr`, which are instantiated.  Every atomic operation on the cell and every
counter update is a step: `LoadRead` and `LoadRetain`, `SwapCopy`, `SwapMove` and
`SwapRetain`, the rounds of `rcu` (`RcuRead` to `RcuReturn`).  Blocks are used
again after they are freed (`Recycle`), since the compare-and-exchange looks at
addresses only.  The code is correct only for programs that keep to a
discipline, and `Modes` lists those to choose from: `anchored` (the program keeps
a reference of its own to every block until all are done with it), `moves` (only
swaps and stores of an rvalue), `exclusive` (one operation at a time), and `rcu`
(only `rcu`, what the repository's test does, which is not safe: see the run
`PtrSwap_rcu`).  Not modelled: the move
constructor, which leaves the block in the source too (line 22), so that both
cells release it.

### Time

A Duration and an Instant, and a program that calls the operations on them in
any order.  The operators compute on plain integers what the code computes in
steps; a checked operation is refused if the seconds do not fit.  `exact` and
`instantExact` are histories: the number of nanoseconds that the objects should
stand for.  `lapse` names the first time that the code is not exact:

* `ctor`: the constructor adds the carry to its parameter after the member was
  set (`Duration.hpp:30`), so that whole seconds among the nanoseconds are lost;
* `overran`: a sum one nanosecond beyond `infinite()` is not refused;
* `skewed`: an Instant operation with a Duration that holds a whole second among
  its nanoseconds, which `seconds()` counts once and `subsecNanos()` again, or
  a distance whose nanoseconds are a whole second, which the constructor loses
  (`LosesSecond`);
* `wrapped`: the distance of instants more than 2^63 seconds apart.

Such unnormalised values arise because `checkedAdd` of Duration does not carry
exactly one second (line 138 tests `>`), although the comment on the member says
"less than a second" (line 282), and because `checkedSub` of Instant borrows with
equal nanoseconds (`Instant.cpp:119`).  The latter makes `i1 + d - d` differ from
`i1`, which `tests/time.cpp:178` expects to be equal, whenever `i1` has no
nanoseconds.  Properties say that nothing *else* goes wrong: values stay exact
while they go through the unnormalised form.

### Mutex and Notify

A guard is a record of `alive`, `mtx` and `locked` in a place that belongs to one
thread's scope; a lock has an owner and a depth and is a mutex, a recursive mutex
or a spin lock.  Locking is one step that is possible when the lock is to be had.
`Notify` adds the threads inside `wait()`: about to evaluate the predicate
(`Check`), about to sleep because it said no (`leaving`, then `Sleep`), asleep,
woken (`Regain`) or past the deadline (`Expire`), and the notifying side, which
puts work behind the lock (`MakeWork`) and announces it in a step of its own.  The
predicate takes the work's lock, which other threads hold through guards.

* `lost` counts the holds that `operator=` of a guard forgets (`Mutex.hpp:30`): it
  overwrites a guard that still holds its lock, which nobody gives back.
* `missed` holds the waiters that a notification fell short of.  Neither
  notifying function takes the Notify's mutex (`Notify.cpp:94`), so a
  notification can fall between a predicate that said no and the sleep that
  follows; and `notifyOne` may pick a waiter that has no predicate.  `NoLostWakeup`
  says that there is no other way to sleep beside announced work.
* After a timeout the predicate is not evaluated again, so a timed wait may return
  false beside work; that is what the comment in the header says.

### SmallVec

Cells are raw or hold an element; the code's element-wise construction,
destruction and moves are its loops over them (`Loop`), and touching a raw cell sets `fault`,
after which the model stops, as nothing is defined any more.  `items` is the
sequence the caller means.  Four lapses:

* `shift`: opening or closing a gap destroys the target of every move that lies below the
  old size (`moveOne`, line 325), also where the element has been moved out and
  destroyed already, because more elements follow than the gap is wide;
* `leak`: an erase with more elements to remove than follow them destroys only as
  many as are moved over;
* `husk`: moving from a small vector destroys the source's elements and leaves
  its size (lines 122-130), so that whatever is done with it next destroys,
  moves or copies them once more: also `clear()`, an assignment to it, and its
  destructor (`ConstructFrom` destroys a vector and builds another in its place);
* `alias`: `push_back` of the vector's own element reads it after the row it is in
  was freed, when the vector grows (lines 188-192).

For trivially destructible elements `shift` and `leak` do no harm, and a husk is
a vector like any other once it has been cleared, assigned to or destroyed and built
again (`Emptied`).  For others a husk cannot even be destroyed: every
small vector with elements that is moved from and then goes out of scope destroys
them twice, and `LifetimesRight` names it among its three exceptions.  The tests
have both kinds (`int`, and `unique_ptr` at `tests/collections.cpp:44`).  The iterator that `erase` returns, which is as many places
past the erased one as elements were erased, is not part of the state.

### Cache

`storage`, the limits and the clock as instants that an operation is given: `get`
and `insert` read the clock, and the sweep inside them reads it again.  `last` is
the history of each key's insertion and latest use.

### Iterators

An iterator is a record whose `op` names its class and whose fields are the
class's members; `Poll` is `next()` of any of them, `Consume` the operations that
exhaust one (`collect`, `join`, `count`, `find`, `all`, `any`, `min`, `max`, `sum`, `for`).  `Denote` says on whole
sequences which items a pipeline stands for, and `Needed` how many a prefix of
them takes from each container.  A caller polls by hand and may then consume the
rest.  Not included: pipelines that never end without yielding an item (a filter
over an endless cycle that it rejects, repeat without a count under `collect`); an
empty delimiter, which yields endless empty pieces; a range that starts above its
end, which wraps; a cycle over elements that were moved out; iterators that are
moved while they are in use, where a Flatten's inner iterator keeps pointing into
the old object; containers that change under their iterators; `contains`.

### Files

Threads call whole-file reads and writes, the removals, rename, copy and
createDir on common paths, one system call with the code after it to a step.  A
call may fail, a write may be short, a signal may interrupt either (`EINTR` is
tried again on a write, and is an error on a read).  `raced` says that another
caller changed the file or the path between two steps of a call: the removals
look at the path's kind and then remove it (line 194), a read trusts the size that
`fstat` said, and a write empties the file before anything is written, so that
only a caller without company finds what it wrote.

### NumberCycle

The cycle is compared with counting modulo the size of the range.  `misused`: a
range that is empty or does not hold the value, which no constructor checks;
adding a number other than 1, which the operators take for 1; an overflow of int,
which is undefined and may give any value.

### SystemTime

Both representations: seconds and nanoseconds, or Windows ticks.  `meant` is the
exact time; `timeLapse` names the first departure from it: `skewed`, a Duration with
a whole second among its nanoseconds, counted twice on POSIX; `wrapped`, a sum that
leaves the integers, which is not checked (`now() + Duration::infinite()` is in the
past); `negative`, `fromUnix` of a time before the epoch on Windows.
`timeSinceEpoch()` of a time before the epoch, or on Windows of one more than 2^63 ticks
after it, throws out of a `noexcept` function (`terminated`), where the comment at
`SystemTime.hpp:48` takes it that the conversion cannot fail.

### IntegerText

`constexprParse` and `constexprToString` are loops, one step per character, on types
of four `Kinds` that differ in what the code knows of their smallest value: its digits, and
those of the smallest one of 64 bits, are the constants `SmallestDigits` and `WideDigits`.
`TextsRight` says exactly which texts are taken and what they give, and that
printing and reading back is the identity.  What is particular:

* `--5` is accepted, and `-` is zero;
* the smallest value of 64 bits is printed as the text of -2^64 and only that text
  is read as it, while its own is refused (lines 174 and 235);
* the smallest signed byte is printed as `-` (the branch for signed types tests for
  an unsigned byte, line 240), and so read back as zero.

### Strings

Buffers live as long as a boxed string or an owning Cow has them; a view is an address
and a size.  A Cow that borrows from a string that changed dangles, which
`StringsRight` permits, but one that owns never does.  A UniqueBoxedString that was
moved away keeps its size without a buffer (`MovedAway`), and formatting nothing
writes the terminator through a null pointer (line 147, `nullWrite`): the model
records both and does not use such a string until it is assigned to.

## Runs

| run | instance | what it shows |
|---|---|---|
| `Channel` | 3 threads, one may peek, 2 kinds of message, 3 pushes | FIFO (refinement of `MessageQueue`), no lost wake-up, calls return |
| `Channel_peek` (violation) | 3 threads, 1 message | `waitForMessages` can use up the only notification: a `popTimeout` sleeps on beside a message |
| `Thread` | 2 objects, 2 storages, 2 runs, all liberties | one runner per storage, reachable owners, stop requests final, ends only when asked, handles joined, stopping returns unless the object was refilled |
| `Thread_restart` (violation) | 1 object, 2 runs | `start()` clears the request it should wait for, and its join never returns |
| `ThreadPool` | 2 workers, 1 client, 2 tasks, every exception function, Windows | exact counter, join and the destructor wait and return, tasks run, dead pools are destroyed |
| `ThreadPool_dead` (violation) | the same on POSIX, throwing handler | the destructor of a pool of dead workers polls for ever |
| `PtrSwap` | 2 threads, 3 blocks that are used again, 2 pushes, the modes `anchored`, `moves` and `exclusive` | exact counters, no dangling, rcu is atomic |
| `PtrSwap_rcu` (violation) | 2 threads that only call rcu | a thread passes destroyed data to its function |
| `Notify` | 2 waiters, one timed, a third thread with 2 guards, 1 lock of any kind, 2 pieces of work | locks are held by guards only, announced work is not slept on, timed waits end |
| `Components` | five components in turn, see below | what each promises, except after its lapses |
| `Numbers` | four components in turn, see below | right numbers; exact or saturated results, refusals only of what does not fit; each except after its lapses |
| `SharedPtr` | 2 threads, 2 blocks (one self-aware), 3 + 2 pointers, 1 leaked reference | exact counters, no dangling, no resurrection, everything freed |

Why these bounds are enough to be interesting: in `Channel`, three threads are
the least that allow a robbed notification (a sleeper, a robber, a pusher), and
three pushes allow a second message to arrive while a woken receiver is still on
its way.  In `Thread`, two runs allow one restart and the overlap of an ending
and a starting run; two storages allow moves between objects that both had a
thread.  In `ThreadPool`, two workers and two tasks allow a task that pushes a
task while the other worker is idle, asleep or dead.  In `SharedPtr`, two threads
race on the last release and on upgrade, and a second block makes assignments
between different blocks possible.  In `PtrSwap`, three blocks (one in the
cell, one in the hands of each thread) let an address be used again between a load and the
exchange that compares it.  In `Time`, four bits and four nanoseconds reach every
carry, borrow and overflow, with farFuture in the middle of the range as in the
code; the theorems hold for every width.  In `Notify`, two waiters let a
notification reach one while the other is about to sleep, the third thread can
move, relock and assign over guards, and one forgotten hold (`MaxLost`) is the
least with which the exception shows.

`Components` and `Numbers` put components that share nothing side by side: `subject` says
which one a behaviour uses, the others stay as they began.  Deadlock is not checked,
because vectors stop at undefined behaviour and calls, clocks and conversions at
their bounds.  The instances in `Components`:

* `SmallVec`: room for 1 inside, at most 3 elements of 2 values, 2 vectors of which one
  is edited, 1 kind of lapse in a behaviour: enough to spill, to grow once more, to
  shift by one and two, and to assign in both directions between small and large.
* `Cache`: 3 keys, limits 1 and 2, spans of 0 and 1 tick, a clock to 3: a full map with
  two candidates for eviction, a limit that is lowered under its contents, an
  entry that expires between the two readings of one call.
* `Iter`: up to two adaptors over containers of up to 3 items, pairs of containers,
  all texts of up to 5 characters, ranges in 2 bits; 6 polls, at most 1 item before the
  consuming operation.
* `Files`: 2 callers with one call each, 2 paths, 2 files, 2 faults, both platforms.
* `Strings`: 2 boxed strings, 2 Cows, 3 buffers, texts of up to 2 characters.

and in `Numbers`:

* `NumberCycle`: an int of -4 to 3, ends -4, -3, 0, 1 and 3, 5 steps each way: beyond once
  round, and into the overflow at both ends.
* `Time`: 4 nanoseconds to the second, seconds of 4 bits.
* `SystemTime`: 4 nanoseconds to the second, 2 to the tick, an i64 of 7 bits with the epoch
  inside the range of ticks, clocks and Durations of 0, 1, 15 and 40 seconds, 3 sums.
* `IntegerText`: the real width of bytes and base 10; every text of up to 4 characters over
  `-`, 1, 2, 8 and a choice of others, which holds the two texts on each side of
  every limit; every value printed and read back.

## Fairness

* `Channel`: a woken thread gets the mutex (weak fairness of `Resume`), because
  critical sections are short; deadlines pass (strong fairness of `Timeout`),
  because `wait_for` computes an absolute time once and spurious wake-ups do not
  put it off.
* `Thread`: threads are scheduled, loop functions return, joins return when the
  joined thread has ended.  Nobody has to call `stop()` or to throw.
* `ThreadPool`: the same for workers, tasks end, the polling in `join` goes on, the
  destructor proceeds.  No client has to push or join.
* `SharedPtr`: a thread inside an operation goes on with it.
* `Notify`: strong fairness of a waiter's steps, since a contended lock is not withheld
  from one thread for ever although it may be taken in between, and of its
  deadline, which is absolute; guards are scoped objects, so a thread that holds
  locks destroys its guards (weak fairness of `LetGo`) and lets go of a recursive
  lock altogether again and again (strong fairness of `LetGoAll`).  Nobody has to
  notify or to make work.
* `Components`, `Numbers`: none; their properties say what must never happen.

## Proofs

`Channel_proofs` proves, for any finite set of threads, any messages and any
bound on the number of pushes:

* `TypeCorrect`: `Spec => []TypeOK`.  The last conjunct, that a thread is in a
  blocking call exactly while the condition variable knows it, is what makes the
  invariant inductive.
* `QueueCorrect`: `Spec => []QueueIsSuffix`, the queue is the tail end of what was
  pushed.
* `WakeupCorrect`: `Spec => []NoLostWakeup`.  The invariant needs that without
  peekers every thread that is inside a call is a receiver (`PeekersKnown`), so
  that a woken thread takes a message or finds none; the counting step is
  `WokenCount`.
* `ChannelIsFifo`: `Spec => ImplementsFifo`, the initial states map to initial
  states of `MessageQueue` and each step to a send, a delivery, an unsuccessful
  receive or a stutter (`ObservableSteps`), using the two invariants above.

`Thread_proofs` proves, for any sets of objects, storages and threads: `TypeCorrect`,
`RunsAlone` (`SoleRunner`), `RunsAreOwned` (`OwnerReachesRun`), `HandlesCorrect`
(`HandlesAreJoined`), `TokenCorrect` (`TokenStopIsFinal`) and `EndsCorrect`
(`EndsOnlyWhenAsked`).  None of them is inductive.  `IInv` adds that a storage is
in one object at most (`OneHome`), that an object's handle and storage belong to the
same thread (`ObjectOK`), that nobody owns the storage of a detached thread (`RunOK`),
that the flag of a living thread is up only for one of the reasons that the
properties name (`FlagOK`), and what the controller knows while it is blocked in a
start, a join or a destructor (`ControlOK`).  Without `OneHome` a request to one
object could raise the flag that another object's run reads, and a restart could find
somebody else's thread on its storage.

`ThreadPool_proofs` proves, for any finite sets of workers, clients and tasks, on
either platform and with any exception function: `TypeCorrect`, `AccountingCorrect`
(`WorkAccounting`), `JoinCorrect` (`JoinWaitsForAll`) and `DestructorCorrect`
(`NothingDropped`).  The counter says how many tasks are left and not which: the
invariant adds that each submitted task is over, on its way, in the queue or in a
worker's hands (`TasksAccounted`), so that a counter of zero means that all are over
(`ZeroMeansDone`), and that a worker that left its loop was stopped, which the
destructor does only when the counter is zero or a worker has died (`StopsOK`).
`DestructorCorrect` has the hypothesis `Workers # {}`: a pool without workers counts as
dead as soon as it is destroyed (`ThreadPool.cpp` 86-100, 109), and drops what it was given.

`SharedPtr_proofs` proves, for any finite sets of threads and pointers, any blocks, of
which any may know themselves, and any bound on leaks: `TypeCorrect`, `CountsCorrect`
(`CountsExact`), `LifetimesCorrect` (`NoDangling`) and `ZeroIsFinal` (`NoResurrection`).
The invariant has one formula for each block (`BlockOK`): both counters are
the numbers of those who hold them; exactly one thread ends a block's life, in the
order of the code; and the data has SharedPtrs exactly while it is live and nobody ends
it.  It also says what each place in an operation knows of its pointers (`OperationOK`),
and that threads inside operations do not share a pointer, without which the second half
of an assignment could overwrite a reference.

`PtrSwap_proofs` proves, for any finite sets of threads and blocks and any bound on
pushes: `CountsCorrect`, `LifetimesCorrect` and `RcuCorrect` (`CountsExact`, `NoDangling`,
`RcuIsAtomic`).  The invariant `IInv` holds in every program that is not of the kind
`rcu`: it has the life of blocks in `SharedPtr`'s form (`HeapOK`), the counts, the frames
of the operations (`OperationsOK`: what an exchange is about to publish is one push ahead
of what it replaces), and for each of the safe kinds the reason why a block that is
used before it is counted is alive: the program keeps a reference (`Anchored`), there is
no such block (`Moving`), or it is still in the cell (`Exclusive`, `Pinned`).  In the
kind `rcu` none of that is true: two threads give up the same reference, a counter goes
below zero (TLC finds it in 24 steps) and `TypeCorrect` has the same exception.

`Notify_proofs` proves, for any finite sets of threads and guards, any locks of
any kind and any amount of work: `LocksCorrect` (`HeldByGuards`), `TypeCorrect` and
`WakeupCorrect` (`NoLostWakeup`).  The locks' invariant is inductive under every
operation on guards together with their types and `GuardsNameLocks`; `Notify` is shown
to do nothing else to them (`LockSteps`).  The invariant about wake-ups, `WorkIsCovered`,
counts: if a waiter sleeps, or is about to, that no notification passed over, there is
no more work than threads that still owe a notification or are awake and about to look.

`Numbers_proofs` proves about `NumberCycle`, for every width of int and every range,
`CycleCorrect` (`CycleRight`); about `SystemTime`, for integers of every width and clocks of
every resolution that divides a second, `SystemTimeCorrect` (`SystemTimeRight`).  Its
invariant bounds by how many ticks a time may be behind the sum of what was added; the
lemmas `PosixSumRight`, `PosixSinceRight`, `TickSumRight` and `TickSinceRight` say what the
code's carries, borrows and truncations compute, from facts about quotients, remainders and
wrapping integers (`Wraps`, `Lexical`, `Division`, `WholePart`).

About `IntegerText` it proves `TextsCorrect` (`TextsRight`), for types of every width from
eight bits on, whatever digits their limits have, and for texts of every length.  The
invariant `ConversionInv` says what a loop has done so far: a parse has read signs and then
digits, its value is that of these digits and within the type (`ReadSoFar`); a print has
the last digits, and they and the value left make up the number (`PrintedSoFar`); and what
is read back was printed for a value of the type (`PrintedAs`).  The value of digits is a sum
over their places: `ValueAppended` and `ValuePrepended` say what one more digit does to it
on either side.  A text is refused rightly because the first of some digits are worth no
more than all (`PartIsLess`), so that a prefix that does not fit settles the matter.
`NumbersCorrect` puts the three together (`NumbersRight`).

About `Time`, `Numbers_proofs` proves, for any number of nanoseconds in a second and any width of
the seconds that satisfy `TimeAssumption`:

* `TypeCorrect`, `DurationCorrect`, `InstantCorrect`: `TypeOK`, `DurationExact` and
  `InstantExact` always hold.  The invariant `Inv` adds `Bounded`: as long as
  nothing has lapsed the Duration is at most `infinite()`, which is why the
  unchecked seconds of a quotient cannot wrap.  Each operator has a lemma that
  says which value it computes (`SumExact`, `ProductExact`, `QuotientExact`,
  `DurationSinceExact`, ...), on top of two lemmas about division with remainder;
  each action has a lemma that it keeps `Inv`.
* `RefusalCorrect`: `RefusesOnlyOverflow` always holds, from `TypeOK` alone.
* `ExactSecondNotCarried`: the counterexample to the comment at `Duration.hpp:282`,
  for every way to split a second.

`Components_proofs` proves about `SmallVec`, for any inline capacity, elements, rows that are
inserted and bounds: `SmallVecInvariant`, and from it `SmallVecContents` (`ContentsRight`) and
`SmallVecLifetimes` (`LifetimesRight`).  The invariant `VecInv` says of each vector how it
`Agrees` with what its caller means: unless it is a husk, the first `m_size` cells hold the
elements in order; without a lapse no other cell holds any; and a fault, in an operation or in
the destructor (`RebuiltSound`), needs a lapse that explains it, some of which are followed by
one at once.  What the loops of the code do is said
cell by cell for any number of rounds: `ShiftRightObject` (on `MovesRight`) and `EraseResult` (on `MovesLeft`) give every cell
after a shift and exactly when a destroyed element was destroyed again or moved,
`ReserveResult` and its like the others.  A loop is compared with its closed form one
round at a time (`SameRun`).

About `Cache`, for any keys, limits and spans, it proves `CacheCorrect` (`CacheInv`: what is
stored is what was last inserted and used, at times that are not in the future),
`GrowthBounded` (`GrowsWithinLimit`) and `LeavingJustified` (`LeavesOnlyWhenDue`).

It also proves `StringsCorrect` (`StringsRight`), for any texts and any number of strings
and buffers, and `FilesCorrect` (`OutcomesRight`), for any number of callers, paths, files
and faults, on both platforms.  For `Strings` the invariant says what each buffer holds
(`BoxHolds`, `CowHolds`): a view may find its buffer as it was, emptied by a move or freed,
and in the last two cases it is too short to be read; and that what a Cow owns nobody else
does (`Apart`), without which a move in place could empty another string.  For `Files` it
says what a call knows between two of its steps unless it is raced (`UnderWay`): the size
and the bytes it saw, the bytes it wrote, the kind of what it is about to remove; and that
exactly the calls that work have a handle (`HandlesOK`), so that nothing is copied into a
file that is open.

Each of these components has a specification of its own there (`CacheSpec`, `VecSpec`,
`IntegerTextSpec`, ...), whose steps are the ones that `MCComponents` and `MCNumbers` take
for it.

Induction and recursion: the library states induction for an operator, which the provers
cannot instantiate.  `NatSetInduction` states it for a set and follows from the pigeonhole
principle for finite sets; `IntervalInduction` is the same up to a bound, and
`RecursionOnNat` gives the function that a recursive definition asks for, which shows
that `Ten`, `DigitsValue`, `PowerOfTwo` and the loops are what their definitions say.

Only model-checked: all liveness (`ENABLED` and fairness are out of the prover's reach);
and the three properties of `Iter` (`YieldsDenoted`, `TakesOnlyNeeded`, `ResultRight`), whose
recursive operators go over trees of adaptors: SMT is not available in a module that reaches
them.

## Not modelled

* Memory orders weaker than sequential consistency, and data races on callbacks
  (`Thread`'s setters on a running thread).
* `Thread`: `onStart` and `onTermination` as such; operations that throw and change
  nothing; use after `detach`.
* `ThreadPool`: moving a pool; calling `join` from a task, which waits for itself; what a
  task's captures do when they are destroyed, after the count-down;
  `setExceptionFunction` on a busy pool, which replaces functions that workers may
  be reading.
* `SharedPtr`: pointers inside the data of other blocks; with such pointers,
  `head = head->next` releases the target before it reads the source
  (`SharedPtr.hpp:110`), which is a use after free when the target held the last
  reference.
* `PtrSwap`: moving and destroying a cell.
* `Channel`: `empty()` and `size()` are snapshots that may be outdated when they return.
* `Time`: floating point, formatting, raw nanoseconds, the conversions of minutes and
  longer, distances of exactly 2^63 seconds.
* `SystemTime`: calendar formatting and sleeping, which the operating system does.
* `Notify`: errors of the system calls other than a timeout.  `Mutex`: a `lock()` that
  throws, the protected value.
* `SmallVec`: constructors and assignments of elements that throw half-way.
* Iterators: see above; floating-point ranges; that callbacks have effects.
* File system: queries (status, size, times), directory iteration, copy options, links.
* Numbers: byte swapping and `bit_cast`, which only rename bits.
* `Cow` with other types than text, accessors that throw and change nothing.
* CPU features, logging, assertions, configuration: queries, output and macros
  without state.  `net`: the headers it includes are not in the repository.

## Plan

1. Done: every component listed as modelled or partly modelled; the proofs about all of
   them but the iterators.
2. The iterators with recursive functions instead of recursive operators, so that
   `YieldsDenoted` can be proved.
3. Moving a `PtrSwap` and a `ThreadPool`.
