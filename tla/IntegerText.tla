----------------------------- MODULE IntegerText -----------------------------
(***************************************************************************)
(* asp::data::constexprParse and constexprToString                         *)
(* (include/asp/data/util.hpp): integers from text and back, one character *)
(* at a time.                                                              *)
(*                                                                         *)
(* A digit is its number.  All types are of one width; they differ in what *)
(* the code knows about their smallest value (`Kinds`).  A parse that is   *)
(* refused throws, or stops the compiler in a constant expression.         *)
(***************************************************************************)
EXTENDS Integers, Sequences

LOCAL INSTANCE SequencesExt

CONSTANTS MaxSigned,      \* the largest value of the signed type
          SmallestDigits, \* the digits the code has for the smallest one
          WideDigits,     \* and for the smallest one of 64 bits
          Parsed          \* the texts that are parsed

\* 10^n
Ten[n \in Nat] == IF n = 0 THEN 1 ELSE 10 * Ten[n - 1]

\* The value of digits, by their places.
DigitsValue(t) ==
    LET upTo[i \in 0 .. Len(t)] ==
            IF i = 0 THEN 0 ELSE upTo[i - 1] + t[i] * Ten[Len(t) - i]
    IN  upTo[Len(t)]

Minus == 10
Junk  == 11   \* any other character

\* Every type has eight bits at least.
ASSUME IntegerTextAssumption ==
    /\ MaxSigned \in Nat /\ MaxSigned >= 127
    /\ \A t \in Parsed : t \in Seq(0 .. Junk)
    /\ \A t \in {SmallestDigits, WideDigits} : t \in Seq(0 .. 9) /\ t # <<>> /\ t[1] # 0
    /\ DigitsValue(SmallestDigits) = MaxSigned + 1
    /\ DigitsValue(WideDigits) = 2 * (MaxSigned + 1)

\* "unsigned": any unsigned type.  "exact": int, short, for which the text of
\* the smallest value is written down rightly.  "char": a signed byte, which
\* constexprToString does not know.  "wide": 64 bits, for which the code has
\* the text of -2^64 where -2^63 is meant.
Kinds == {"unsigned", "exact", "char", "wide"}

VARIABLE conv   \* a call: what it is given, its locals, how it stands

MaxOfKind(k) == IF k = "unsigned" THEN 2 * MaxSigned + 1 ELSE MaxSigned
MinOfKind(k) == IF k = "unsigned" THEN 0 ELSE -MaxSigned - 1

\* The text compared with for the smallest value.
MinText(k) == <<Minus>> \o (IF k = "wide" THEN WideDigits ELSE SmallestDigits)

ParseOf(k, t) == [job |-> "parse", kind |-> k, text |-> t, pos |-> 1, value |-> 0,
                  neg |-> FALSE, digits |-> 0, stage |-> "running", given |-> {}]
PrintOf(k, v) == [job |-> "print", kind |-> k, text |-> <<>>, pos |-> 1, value |-> v,
                  neg |-> FALSE, digits |-> 0, stage |-> "start", given |-> {v}]

IntegerTextInit ==
    \E k \in Kinds :
        \/ \E t \in Parsed : conv = ParseOf(k, t)
        \/ \E v \in MinOfKind(k) .. MaxOfKind(k) : conv = PrintOf(k, v)

-----------------------------------------------------------------------------
(* constexprParse.                                                         *)

Running == conv.job = "parse" /\ conv.stage = "running"
AtEnd   == conv.pos > Len(conv.text)
Char    == conv.text[conv.pos]

\* Mistake: the digit itself is not considered.
TooLargeByTens == conv.value > MaxOfKind(conv.kind) \div 10

TooLarge == conv.value > (MaxOfKind(conv.kind) - Char) \div 10

\* The text is the one known for the smallest value, at its first character.
ReadSmallest ==
    /\ Running /\ ~AtEnd /\ Char = Minus
    /\ conv.kind # "unsigned" /\ conv.text = MinText(conv.kind)
    /\ conv' = [conv EXCEPT !.value = MinOfKind(conv.kind), !.stage = "done"]

\* A sign does not move idx: another may follow.
ReadSign ==
    /\ Running /\ ~AtEnd /\ Char = Minus
    /\ conv.kind # "unsigned" /\ conv.text # MinText(conv.kind)
    /\ conv.digits = 0
    /\ conv' = [conv EXCEPT !.neg = TRUE, !.pos = @ + 1]

ReadDigit ==
    /\ Running /\ ~AtEnd /\ Char \in 0 .. 9
    /\ ~TooLarge
    /\ conv' = [conv EXCEPT !.value = @ * 10 + Char, !.digits = @ + 1, !.pos = @ + 1]

RefuseText ==
    /\ Running
    /\ \/ conv.text = <<>>
       \/ /\ ~AtEnd
          /\ \/ Char = Minus /\ conv.kind = "unsigned"
             \/ Char = Minus /\ conv.text # MinText(conv.kind) /\ conv.digits > 0
             \/ Char = Junk
             \/ Char \in 0 .. 9 /\ TooLarge
    /\ conv' = [conv EXCEPT !.stage = "refused"]

ReadAll ==
    /\ Running /\ AtEnd /\ conv.text # <<>>
    /\ conv' = [conv EXCEPT !.value = IF conv.neg THEN -@ ELSE @, !.stage = "done"]

-----------------------------------------------------------------------------
(* constexprToString.                                                      *)

\* A number in the bits of the type.
InBits(k, x) ==
    LET span == 2 * (MaxSigned + 1)
        r    == x % span
    IN  IF r > MaxOfKind(k) THEN r - span ELSE r

\* The sign, and the smallest value where it is known.  The negation of the
\* one that is not known stays negative.
PrintSign ==
    /\ conv.job = "print" /\ conv.stage = "start"
    /\ conv' =
         IF conv.value = MinOfKind(conv.kind) /\ conv.kind \in {"exact", "wide"}
           THEN [conv EXCEPT !.text = MinText(conv.kind), !.stage = "done"]
         ELSE IF conv.value = 0 THEN [conv EXCEPT !.text = <<0>>, !.stage = "done"]
         ELSE IF conv.value > 0 THEN [conv EXCEPT !.stage = "digits"]
         ELSE [conv EXCEPT !.neg = TRUE, !.value = InBits(conv.kind, -@), !.stage = "digits"]

PrintDigit ==
    /\ conv.job = "print" /\ conv.stage = "digits" /\ conv.value > 0
    /\ conv' = [conv EXCEPT !.text = Append(@, conv.value % 10), !.value = @ \div 10]

PrintAll ==
    /\ conv.job = "print" /\ conv.stage = "digits" /\ conv.value <= 0
    /\ conv' = [conv EXCEPT !.text = Reverse(IF conv.neg THEN Append(@, Minus) ELSE @),
                            !.stage = "done"]

\* What was printed is parsed again.
ParseBack ==
    /\ conv.job = "print" /\ conv.stage = "done"
    /\ conv' = [ParseOf(conv.kind, conv.text) EXCEPT !.given = conv.given]

IntegerTextNext ==
    \/ ReadSmallest \/ ReadSign \/ ReadDigit \/ RefuseText \/ ReadAll
    \/ PrintSign \/ PrintDigit \/ PrintAll \/ ParseBack

-----------------------------------------------------------------------------
(* What the conversions promise.                                           *)

\* What a text denotes: any number of signs, then any number of digits.
Signs(t)  == CHOOSE n \in 0 .. Len(t) : (n = Len(t) \/ t[n + 1] # Minus) /\ \A i \in 1 .. n : t[i] = Minus
Rest(t)   == SubSeq(t, Signs(t) + 1, Len(t))
Lenient(t, k) ==
    /\ t # <<>> /\ \A i \in DOMAIN Rest(t) : Rest(t)[i] \in 0 .. 9
    /\ Signs(t) > 0 => k # "unsigned"
Denotes(t) == IF Signs(t) > 0 THEN -DigitsValue(Rest(t)) ELSE DigitsValue(Rest(t))

\* Canonical: one sign at most, digits, and no zero in front of others.
Canonical(t) ==
    Signs(t) <= 1 /\ Rest(t) # <<>> /\ (Rest(t)[1] = 0 => t = <<0>>)

\* The smallest value is only taken as the text known for it.
InReach(t, k) ==
    Lenient(t, k) /\ Denotes(t) \in -MaxOfKind(k) .. MaxOfKind(k)

\* A text is refused exactly if it is not a number of the type (where "--5" is
\* one, and "-" is zero), and otherwise gives that number; a number is
\* printed as its only canonical text, and read back as itself.  Only the
\* smallest value of a signed byte and of 64 bits fares otherwise
\* (util.hpp:175, util.hpp:231-240): the former is printed as "-", the latter
\* as twice itself, which is also the text that gives it.
TextsRight ==
    LET k == conv.kind
        t == conv.text
        min == MinOfKind(k)
    IN  /\ conv.job = "parse" /\ conv.stage = "done" =>
               \/ InReach(t, k) /\ conv.value = Denotes(t)
               \/ k # "unsigned" /\ t = MinText(k) /\ conv.value = min
        /\ conv.stage = "refused" =>
               ~InReach(t, k) /\ (k # "unsigned" => t # MinText(k)) /\ conv.given = {}
        /\ conv.job = "print" /\ conv.stage = "done" =>
               \E v \in conv.given :
                  IF v = min /\ k = "char" THEN t = <<Minus>>
                  ELSE Canonical(t) /\ Denotes(t) = (IF v = min /\ k = "wide" THEN 2 * v ELSE v)
        /\ conv.job = "parse" /\ conv.stage = "done" =>
               \A v \in conv.given : conv.value = v \/ (k = "char" /\ v = min)

=============================================================================
