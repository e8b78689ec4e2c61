----------------------------- MODULE MCComponents -----------------------------
(* The components that share nothing with one another, each a machine of    *)
(* its own, side by side: in a behaviour one of them, the subject, is used  *)
(* and the others stay as they began.                                       *)
EXTENDS SmallVec, Cache, Iter, Files, Strings

CONSTANT Character   \* what texts are made of

VARIABLE subject

vars == <<subject, vecVars, cacheVars, iterVars, filesVars, stringsVars>>

Subjects == {"SmallVec", "Cache", "Iter", "Files", "Strings"}

NothingToPoll == [row |-> <<>>, pipe |-> [op |-> "once", value |-> <<>>]]

\* The others begin in one state each.
Init ==
    /\ subject \in Subjects
    /\ CacheInit
    /\ VecInit /\ (subject # "SmallVec" => ~trivial)
    /\ FilesInit /\ (subject # "Files" => ~windows /\ \A x \in Paths : name[x] = None)
    /\ IterInit /\ (subject = "Iter" <=> row # NothingToPoll.row)
    /\ StringsInit /\ (subject # "Strings" => ~shares)

Next ==
    /\ UNCHANGED subject
    /\ \/ subject = "SmallVec" /\ VecNext /\ UNCHANGED <<cacheVars, iterVars, filesVars, stringsVars>>
       \/ subject = "Cache" /\ CacheNext /\ UNCHANGED <<vecVars, iterVars, filesVars, stringsVars>>
       \/ subject = "Iter" /\ IterNext /\ UNCHANGED <<vecVars, cacheVars, filesVars, stringsVars>>
       \/ subject = "Files" /\ FilesNext /\ UNCHANGED <<vecVars, cacheVars, iterVars, stringsVars>>
       \/ subject = "Strings" /\ StringsNext /\ UNCHANGED <<vecVars, cacheVars, iterVars, filesVars>>

Spec == Init /\ [][Next]_vars

-----------------------------------------------------------------------------
(* The pipelines: two adaptors over one container, one or two over a pair   *)
(* of containers, sources without a container, and the texts.               *)

S == INSTANCE SequencesExt

Rows(values, len) == {[k \in 1 .. Len(s) |-> <<s[k]>>] : s \in S!SeqOf(values, len)}

Ending(ps) == {x \in ps : x.op # "cycle"}

OneWalk ==
    Adapted(FromReverse(1)) \cup UNION {Adapted(x) : x \in Ending(Adapted(From(1)))}

TwoWalks ==
    LET both == Paired(From(1), From(2))
    IN  both \cup UNION {Adapted(x) : x \in both}
             \cup UNION {Paired(x, From(2)) : x \in Ending(Adapted(From(1)))}

NoWalk ==
    LET sources == {Once(<<3>>), Repeat(<<2>>, 3)} \cup {RangeOf(i, j) : i, j \in 0 .. 3}
    IN  sources \cup UNION {Adapted(x) : x \in sources}

TextPieces ==
    {SplitOf("lines", t, 0) : t \in S!SeqOf({1, CR, LF}, 5)}
      \cup {SplitOf(op, t, 1) : op \in {"splitChar", "splitBytes"}, t \in S!SeqOf({0, 1}, 5)}
      \cup {SplitOf("splitSub", t, d) : d \in {<<1>>, <<1, 1>>, <<1, 0>>}, t \in S!SeqOf({0, 1}, 5)}
      \cup {SplitAnyOf(t, {1, 2}, b) : t \in S!SeqOf({0, 1, 2}, 4), b \in BOOLEAN}

Over(pipes, rows) == [pipe : pipes, row : rows]

ListsDef == {<<>>} \cup {<<x>> : x \in Items} \cup {xs \in Items \X Items : xs[1] # xs[2]}

TextsDef == S!SeqOf({Character}, 2)

MCCases ==
    {NothingToPoll}
      \cup Over(OneWalk, {<<s, <<>> >> : s \in Rows(0 .. 2, 2) \cup
                              {<< <<1>>, <<0>>, <<2>> >>, << <<2>>, <<2>>, <<1>> >>,
                               << <<0>>, <<0>>, <<1>> >>}})
      \cup Over(TwoWalks, {<<s, t>> : s, t \in Rows(0 .. 1, 2)})
      \cup Over(NoWalk \cup TextPieces, {<< <<>>, <<>> >>})
=============================================================================
