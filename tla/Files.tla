-------------------------------- MODULE Files --------------------------------
(***************************************************************************)
(* asp::fs (src/fs/fs.cpp): whole-file reads and writes, and the functions *)
(* around std::filesystem, called from several threads on the same paths.  *)
(*                                                                         *)
(* A step is one system call of the code together with what the code does  *)
(* after it, up to the next; a call of std::filesystem is one step, though *)
(* remove_all takes many.  Every system call may fail, a write may be      *)
(* short, and on POSIX a read or write may be interrupted by a signal.     *)
(* `windows` chooses between the two implementations; there a file that is *)
(* open for reading cannot be opened for writing, one that is open for     *)
(* writing cannot be opened at all, and an open file cannot be removed or  *)
(* renamed.                                                                *)
(*                                                                         *)
(* A byte is known by the caller who wrote it; Old was there before, and a *)
(* hole reads as Zero.                                                     *)
(***************************************************************************)
EXTENDS Integers, Sequences, FiniteSets

LOCAL INSTANCE SequencesExt

CONSTANTS Callers,     \* the threads
          Paths,       \* the paths they use
          Inodes,      \* the files that can exist
          Old,         \* a byte of a file that was there before
          Zero,        \* the byte of a hole, and of memory that was only resized
          None,        \* what a path names when there is nothing
          EmptyDir, FullDir,
          Sizes,       \* how many bytes are written, and how many were there
          MaxCalls,    \* bound: calls of one caller
          MaxFaults    \* bound: failed, short and interrupted system calls

ASSUME FilesAssumption ==
    /\ {Old, Zero, None, EmptyDir, FullDir} \cap (Inodes \cup Callers) = {}
    /\ Cardinality({None, EmptyDir, FullDir}) = 3
    /\ Sizes \subseteq Nat /\ MaxCalls \in Nat /\ MaxFaults \in Nat

VARIABLES windows,   \* which implementation was compiled
          name,      \* name[p]: what the path names
          data,      \* data[f]: the bytes of a file
          handles,   \* the open handles: who, to which file, to read or to write
          call,      \* call[c]: the latest call of c, its locals and its result
          calls,     \* how many calls c has begun
          faults     \* how many system calls went wrong

filesVars == <<windows, name, data, handles, call, calls, faults>>

Dirs == {EmptyDir, FullDir}

Removals == {"remove", "removeFile", "removeDir", "removeDirAll", "removeAll"}

\* `seen` and `left` are the bytes of the file when the call opened and left
\* it (what the path named, for a removal); `raced` is that another caller
\* changed file or path in between.
NoCall == [op |-> "none", pc |-> "idle", path |-> None, file |-> None, size |-> 0, buf |-> <<>>,
           result |-> "ok", seen |-> None, left |-> None, raced |-> FALSE]

FilesTypeOK ==
    /\ name \in [Paths -> Inodes \cup Dirs \cup {None}]
    /\ \A f \in Inodes : data[f] \in Seq(Callers \cup {Old, Zero})
    /\ handles \subseteq [by : Callers, file : Inodes, mode : {"read", "write"}]
    /\ \A c \in Callers : call[c].pc \in {"idle", "stat", "read", "write", "remove"}
    /\ calls \in [Callers -> 0 .. MaxCalls]
    /\ faults \in 0 .. MaxFaults

FilesInit ==
    /\ windows \in BOOLEAN
    /\ name \in [Paths -> Inodes \cup Dirs \cup {None}]
    /\ \A p, q \in Paths : name[p] = name[q] => p = q \/ name[p] \notin Inodes
    /\ \E n \in Sizes : data = [f \in Inodes |->
                                  IF \E p \in Paths : name[p] = f THEN [i \in 1 .. n |-> Old] ELSE <<>>]
    /\ handles = {}
    /\ call = [c \in Callers |-> NoCall]
    /\ calls = [c \in Callers |-> 0]
    /\ faults = 0

-----------------------------------------------------------------------------
(* Files, names and handles.                                               *)

\* An inode no path and no handle refers to.
Free == {f \in Inodes : (\A p \in Paths : name[p] # f) /\ (\A h \in handles : h.file # f)}

IsOpen(f) == \E h \in handles : h.file = f

\* Sharing: only Windows refuses.
MayOpen(f, mode) ==
    windows => \A h \in handles : h.file = f => mode = "read" /\ h.mode = "read"

MayUnlink(x) == windows => ~IsOpen(x)

\* The bytes of d after a write of the bytes b at the position `at`.
Overwritten(d, at, b) ==
    LET len == IF at + Len(b) > Len(d) THEN at + Len(b) ELSE Len(d)
    IN  [i \in 1 .. len |-> IF i > at /\ i <= at + Len(b) THEN b[i - at]
                            ELSE IF i <= Len(d) THEN d[i] ELSE Zero]

\* The n bytes c writes from the position `at`.
Bytes(c, n) == [i \in 1 .. n |-> c]

Fails == faults < MaxFaults /\ faults' = faults + 1
Works == UNCHANGED faults

\* c's call becomes e; in the second form the calls of others on the file f,
\* or about to remove one of the paths ps, are raced.
CallIs(c, e) == call' = [call EXCEPT ![c] = e]

CallAndRace(c, e, f, ps) ==
    call' = [x \in Callers |->
                IF x = c THEN e
                ELSE IF /\ call[x].pc # "idle"
                        /\ IF call[x].file # None THEN call[x].file = f ELSE call[x].path \in ps
                     THEN [call[x] EXCEPT !.raced = TRUE] ELSE call[x]]

Close(c) == handles' = {h \in handles : h.by # c}

Returned(e, result) == [e EXCEPT !.pc = "idle", !.result = result]

CanCall(c) == call[c].pc = "idle" /\ calls[c] < MaxCalls

Counted(c) == calls' = [calls EXCEPT ![c] = @ + 1]

-----------------------------------------------------------------------------
(* read(), readToString(): readFileInto.                                   *)

\* A directory cannot be read; POSIX says so only at the read.
ReadOpen(c, p) ==
    /\ CanCall(c) /\ Counted(c)
    /\ LET e == [NoCall EXCEPT !.op = "read", !.path = p]
       IN  \/ /\ name[p] \in Inodes /\ MayOpen(name[p], "read") /\ Works
              /\ handles' = handles \cup {[by |-> c, file |-> name[p], mode |-> "read"]}
              /\ CallIs(c, [e EXCEPT !.pc = "stat", !.file = name[p], !.seen = data[name[p]]])
           \/ /\ IF name[p] \in Inodes /\ MayOpen(name[p], "read") THEN Fails ELSE Works
              /\ CallIs(c, Returned(e, "err"))
              /\ UNCHANGED handles
    /\ UNCHANGED <<windows, name, data>>

\* fstat and resize.
ReadStat(c) ==
    /\ call[c].pc = "stat"
    /\ \/ /\ Works
          /\ LET n == Len(data[call[c].file])
             IN  CallIs(c, [call[c] EXCEPT !.pc = "read", !.size = n,
                                           !.buf = [i \in 1 .. n |-> Zero]])
          /\ UNCHANGED handles
       \/ /\ Fails /\ Close(c)
          /\ CallIs(c, Returned(call[c], "err"))
    /\ UNCHANGED <<windows, name, data, calls>>

\* What read() puts into the buffer: n bytes of the file.
Filled(buf, d, n) == [i \in DOMAIN buf |-> IF i <= n THEN d[i] ELSE buf[i]]

\* Mistake: a short read is taken for a whole one.
ReadShort(c) ==
    /\ call[c].pc = "read" /\ Close(c)
    /\ LET e   == call[c]
           d   == data[e.file]
           end == IF Len(d) < e.size THEN Len(d) ELSE e.size
       IN  \E n \in 0 .. end :
               /\ IF n = end THEN Works ELSE Fails
               /\ CallIs(c, Returned([e EXCEPT !.buf = Filled(e.buf, d, n), !.left = d], "ok"))
    /\ UNCHANGED <<windows, name, data, calls>>

\* One read and the close; fewer bytes than fstat said are an error, and so
\* is an interruption.
ReadData(c) ==
    /\ call[c].pc = "read" /\ Close(c)
    /\ LET e   == call[c]
           d   == data[e.file]
           end == IF Len(d) < e.size THEN Len(d) ELSE e.size
       IN  \/ \E n \in 0 .. end :
                 /\ IF n = end THEN Works ELSE Fails
                 /\ CallIs(c, Returned([e EXCEPT !.buf = Filled(e.buf, d, n), !.left = d],
                                       IF n < e.size THEN "err" ELSE "ok"))
           \/ /\ Fails
              /\ CallIs(c, Returned([e EXCEPT !.left = d], "err"))
    /\ UNCHANGED <<windows, name, data, calls>>

-----------------------------------------------------------------------------
(* write(): writeFileFrom.                                                 *)

\* The file is created if need be, and emptied before anything is written.
WriteOpen(c, p, size) ==
    /\ CanCall(c) /\ Counted(c)
    /\ LET e == [NoCall EXCEPT !.op = "write", !.path = p, !.size = size]
           Opened(f) ==
               /\ name' = [name EXCEPT ![p] = f]
               /\ data' = [data EXCEPT ![f] = <<>>]
               /\ handles' = handles \cup {[by |-> c, file |-> f, mode |-> "write"]}
               /\ CallAndRace(c, [e EXCEPT !.pc = "write", !.file = f, !.seen = data[f]], f, {})
           MayBe == \/ name[p] \in Inodes /\ MayOpen(name[p], "write")
                    \/ name[p] = None
       IN  \/ name[p] \in Inodes /\ MayBe /\ Works /\ Opened(name[p])
           \/ name[p] = None /\ Works /\ \E f \in Free : Opened(f)
           \/ /\ IF MayBe THEN Fails ELSE Works
              /\ CallIs(c, Returned(e, "err"))
              /\ UNCHANGED <<name, data, handles>>
    /\ UNCHANGED windows

\* n bytes of the rest are written; buf holds what was written so far.
Wrote(c, n) ==
    LET e == call[c]
    IN  /\ data' = [data EXCEPT ![e.file] = Overwritten(@, Len(e.buf), Bytes(c, n))]
        /\ CallAndRace(c, [e EXCEPT !.buf = @ \o Bytes(c, n)], e.file, {})

\* write: all of the rest or some of it; POSIX goes on with what remains.
WriteSome(c) ==
    /\ call[c].pc = "write" /\ Len(call[c].buf) < call[c].size
    /\ \E n \in 1 .. call[c].size - Len(call[c].buf) :
          /\ IF n = call[c].size - Len(call[c].buf) THEN Works ELSE Fails
          /\ n = call[c].size \/ ~windows
          /\ Wrote(c, n)
    /\ UNCHANGED <<windows, name, handles, calls>>

\* EINTR: the loop tries again.
WriteInterrupted(c) ==
    /\ call[c].pc = "write" /\ Len(call[c].buf) < call[c].size /\ ~windows
    /\ Fails
    /\ UNCHANGED <<windows, name, data, handles, call, calls>>

\* An error, and on Windows also a write that was short (sizes are cut to 32
\* bits there): the file keeps what it has.
WriteFailed(c) ==
    /\ call[c].pc = "write" /\ Len(call[c].buf) < call[c].size
    /\ Fails /\ Close(c)
    /\ \E n \in IF windows THEN 0 .. call[c].size - 1 ELSE {0} :
          LET e == call[c]
              d == Overwritten(data[e.file], Len(e.buf), Bytes(c, n))
          IN  /\ data' = [data EXCEPT ![e.file] = d]
              /\ CallAndRace(c, Returned([e EXCEPT !.left = d], "err"), e.file, {})
    /\ UNCHANGED <<windows, name, calls>>

WriteDone(c) ==
    /\ call[c].pc = "write" /\ Len(call[c].buf) >= call[c].size
    /\ Close(c)
    /\ CallIs(c, Returned([call[c] EXCEPT !.left = data[call[c].file]], "ok"))
    /\ UNCHANGED <<windows, name, data, calls, faults>>

-----------------------------------------------------------------------------
(* Removal, and the other functions that change names.                     *)

\* What the named functions accept.
Accepts(op, x) ==
    CASE op = "removeFile" -> x \in Inodes
      [] op \in {"removeDir", "removeDirAll"} -> x \in Dirs
      [] OTHER -> TRUE

\* Mistake: only what is missing is refused, not the other kind.
RemoveStatusAny(c, p, op) ==
    /\ op \in {"removeFile", "removeDir", "removeDirAll"}
    /\ CanCall(c) /\ Counted(c) /\ Works
    /\ LET e == [NoCall EXCEPT !.op = op, !.path = p]
       IN  CallIs(c, IF name[p] # None THEN [e EXCEPT !.pc = "remove", !.seen = name[p]]
                     ELSE Returned(e, "err"))
    /\ UNCHANGED <<windows, name, data, handles>>

\* removeFile, removeDir, removeDirAll: the status is asked for first.  A
\* path that names nothing is an error here.
RemoveStatus(c, p, op) ==
    /\ op \in {"removeFile", "removeDir", "removeDirAll"}
    /\ CanCall(c) /\ Counted(c)
    /\ LET e == [NoCall EXCEPT !.op = op, !.path = p]
       IN  \/ /\ Accepts(op, name[p]) /\ Works
              /\ CallIs(c, [e EXCEPT !.pc = "remove", !.seen = name[p]])
           \/ /\ IF Accepts(op, name[p]) THEN Fails ELSE Works
              /\ CallIs(c, Returned(e, "err"))
    /\ UNCHANGED <<windows, name, data, handles>>

\* std::filesystem::remove and remove_all: to remove nothing is no error.
Removes(c, e) ==
    LET x == name[e.path]
        possible == MayUnlink(x) /\ (x = FullDir => e.op \in {"removeDirAll", "removeAll"})
    IN  \/ /\ possible /\ Works
           /\ name' = [name EXCEPT ![e.path] = None]
           /\ CallAndRace(c, Returned([e EXCEPT !.left = x], "ok"), Zero,
                          IF x = None THEN {} ELSE {e.path})
        \/ /\ IF possible THEN Fails ELSE Works
           /\ CallIs(c, Returned(e, "err"))
           /\ UNCHANGED name

\* The second half of the functions above.
RemoveSeen(c) ==
    /\ call[c].pc = "remove"
    /\ Removes(c, call[c])
    /\ UNCHANGED <<windows, data, handles, calls>>

\* remove and removeAll have no first half.
RemoveNow(c, p, op) ==
    /\ op \in {"remove", "removeAll"}
    /\ CanCall(c) /\ Counted(c)
    /\ Removes(c, [NoCall EXCEPT !.op = op, !.path = p, !.seen = name[p]])
    /\ UNCHANGED <<windows, data, handles>>

\* rename: a file may take the place of a file, a directory that of an empty one.
Rename(c, p, q) ==
    /\ p # q /\ CanCall(c) /\ Counted(c)
    /\ LET e == [NoCall EXCEPT !.op = "rename", !.path = p]
           possible == /\ name[p] # None /\ MayUnlink(name[p]) /\ MayUnlink(name[q])
                       /\ name[q] \in (IF name[p] \in Dirs THEN {None, EmptyDir}
                                       ELSE Inodes \cup {None})
       IN  \/ /\ possible /\ Works
              /\ name' = [name EXCEPT ![p] = None, ![q] = name[p]]
              /\ CallAndRace(c, Returned(e, "ok"), Zero, {p, q})
           \/ /\ IF possible THEN Fails ELSE Works
              /\ CallIs(c, Returned(e, "err"))
              /\ UNCHANGED name
    /\ UNCHANGED <<windows, data, handles>>

\* copy without options: it refuses to replace, and a directory's copy is a
\* directory with the files in it.
Copy(c, p, q) ==
    /\ p # q /\ CanCall(c) /\ Counted(c)
    /\ LET e == [NoCall EXCEPT !.op = "copy", !.path = p]
           possible == name[p] # None /\ name[q] = None
       IN  \/ /\ possible /\ Works
              /\ \E f \in IF name[p] \in Inodes THEN Free ELSE {name[p]} :
                    /\ name' = [name EXCEPT ![q] = f]
                    /\ data' = [g \in Inodes |-> IF g = f THEN data[name[p]] ELSE data[g]]
              /\ CallAndRace(c, Returned(e, "ok"), Zero, {q})
           \/ /\ IF possible THEN Fails ELSE Works
              /\ CallIs(c, Returned(e, "err"))
              /\ UNCHANGED <<name, data>>
    /\ UNCHANGED <<windows, handles>>

\* createDir: a directory that exists already is no error.
CreateDir(c, p) ==
    /\ CanCall(c) /\ Counted(c)
    /\ LET e == [NoCall EXCEPT !.op = "createDir", !.path = p]
           possible == name[p] \notin Inodes
       IN  \/ /\ possible /\ Works
              /\ name' = [name EXCEPT ![p] = IF @ = None THEN EmptyDir ELSE @]
              /\ CallAndRace(c, Returned(e, "ok"), Zero, IF name[p] = None THEN {p} ELSE {})
           \/ /\ IF possible THEN Fails ELSE Works
              /\ CallIs(c, Returned(e, "err"))
              /\ UNCHANGED name
    /\ UNCHANGED <<windows, data, handles>>

-----------------------------------------------------------------------------
Begin(c) ==
    \E p \in Paths :
        \/ ReadOpen(c, p) \/ CreateDir(c, p)
        \/ \E n \in Sizes : WriteOpen(c, p, n)
        \/ \E op \in Removals : RemoveStatus(c, p, op) \/ RemoveNow(c, p, op)
        \/ \E q \in Paths : Rename(c, p, q) \/ Copy(c, p, q)

Continue(c) ==
    \/ ReadStat(c) \/ ReadData(c)
    \/ WriteSome(c) \/ WriteInterrupted(c) \/ WriteFailed(c) \/ WriteDone(c)
    \/ RemoveSeen(c)

FilesNext == \E c \in Callers : Begin(c) \/ Continue(c)

-----------------------------------------------------------------------------
(* What the results say.                                                   *)

Done(c, ops, result) == call[c].pc = "idle" /\ call[c].op \in ops /\ call[c].result = result

\* A successful read returns bytes the file had, from its first on, and all
\* of them unless another caller changed the file meanwhile.
ReadRight ==
    \A c \in Callers : Done(c, {"read"}, "ok") =>
        /\ IsPrefix(call[c].buf, call[c].left)
        /\ ~call[c].raced => call[c].buf = call[c].seen

\* Without another writer a successful write leaves the file with exactly
\* its bytes, and a failed one with some first part of them.
WriteRight ==
    \A c \in Callers : ~call[c].raced =>
        /\ Done(c, {"write"}, "ok") => call[c].left = Bytes(c, call[c].size)
        /\ Done(c, {"write"}, "err") /\ call[c].file # None =>
               IsPrefix(call[c].left, Bytes(c, call[c].size))

\* A removal of one kind never removes the other, unless the path was given
\* another meaning between the two steps.
RemovalRight ==
    \A c \in Callers : Done(c, Removals, "ok") /\ ~call[c].raced =>
        /\ call[c].left = call[c].seen
        /\ Accepts(call[c].op, call[c].left)

\* Whatever the outcome, a call leaves no handle open.
HandlesClosed ==
    \A h \in handles : call[h.by].pc \in {"stat", "read", "write"} /\ call[h.by].file = h.file

\* Ok means that it was done, and both outcomes that nothing was left open
\* (fs.hpp:71-80 for the removals).
OutcomesRight == ReadRight /\ WriteRight /\ RemovalRight /\ HandlesClosed
=============================================================================
