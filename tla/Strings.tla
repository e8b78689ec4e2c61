-------------------------------- MODULE Strings --------------------------------
(***************************************************************************)
(* asp::BoxedString and asp::UniqueBoxedString (ptr/BoxedString.hpp),      *)
(* strings in a heap buffer that is shared or not, and asp::data::Cow      *)
(* (data/Cow.hpp) as it is used with text: an owned std::string or a       *)
(* borrowed std::string_view, here of a boxed string or of another Cow.    *)
(*                                                                         *)
(* A buffer lives as long as a string owns it; how SharedPtr brings that   *)
(* about is the subject of SharedPtr.  A view is an address and a size and *)
(* knows nothing of the buffer's life: it is left dangling when the last   *)
(* owner goes.  A std::string that is moved may keep its characters in     *)
(* place, in the object, or hand over its buffer; one that is assigned to  *)
(* gets a new one.                                                         *)
(***************************************************************************)
EXTENDS Naturals, Sequences

CONSTANTS Boxes,      \* the boxed strings
          Cows,       \* the Cow objects
          Buffers,    \* addresses
          NoBuffer,   \* the null pointer
          NUL,        \* the terminating character
          Texts       \* the texts strings are made from, without NUL

ASSUME StringsAssumption ==
    /\ NoBuffer \notin Buffers
    /\ \A t \in Texts : t \in Seq({t[i] : i \in DOMAIN t})

VARIABLES shares,    \* the boxed strings are BoxedStrings, not UniqueBoxedStrings
          box,       \* the boxed strings
          cow,       \* the Cows
          heap,      \* what is in a buffer; Freed: nothing
          meantBox,  \* history: the text the string should show
          meantCow,  \* history: the text the Cow was given
          nullWrite  \* a character was written to the null pointer

stringsVars == <<shares, box, cow, heap, meantBox, meantCow, nullWrite>>

Freed  == <<>>    \* every buffer in use holds at least NUL
NoBox  == [alive |-> FALSE, data |-> NoBuffer, size |-> 0]
NoCow  == [is |-> "none", data |-> NoBuffer, size |-> 0]

StringsInit ==
    /\ shares \in BOOLEAN
    /\ box = [b \in Boxes |-> NoBox] /\ meantBox = [b \in Boxes |-> <<>>]
    /\ cow = [c \in Cows |-> NoCow] /\ meantCow = [c \in Cows |-> <<>>]
    /\ heap = [f \in Buffers |-> Freed]
    /\ nullWrite = FALSE

-----------------------------------------------------------------------------
(* Views and buffers.                                                      *)

\* view(): the shared kind asks its pointer for the size, the other one has
\* a size of its own.
View(b) ==
    [data |-> box[b].data,
     size |-> IF ~shares THEN box[b].size
              ELSE IF box[b].data = NoBuffer THEN 0 ELSE Len(heap[box[b].data]) - 1]

\* As many characters are still there, before the terminating one.
Readable(v) == v.size = 0 \/ (v.data # NoBuffer /\ v.size < Len(heap[v.data]))
Shown(v)    == IF v.size = 0 THEN <<>> ELSE SubSeq(heap[v.data], 1, v.size)

\* A freed buffer that a view still points to is not used again, so that the
\* view is seen to dangle.
Unused == {f \in Buffers : heap[f] = Freed /\ \A c \in Cows : cow[c].data # f}

\* The objects become b and w, and buffers without an owner are freed.
Become(b, w, h) ==
    /\ box' = b /\ cow' = w
    /\ heap' = [f \in Buffers |->
                  IF \/ \E x \in Boxes : b[x].alive /\ b[x].data = f
                     \/ \E x \in Cows : w[x].is = "owned" /\ w[x].data = f
                  THEN h[f] ELSE Freed]

With(f, t) == [heap EXCEPT ![f] = t \o <<NUL>>]

-----------------------------------------------------------------------------
(* Boxed strings.                                                          *)

\* From a text; an empty one has no buffer.
MakeBox(b, t) ==
    /\ ~box[b].alive
    /\ \/ t = <<>> /\ Become([box EXCEPT ![b] = [NoBox EXCEPT !.alive = TRUE]], cow, heap)
       \/ /\ t # <<>>
          /\ \E f \in Unused :
                Become([box EXCEPT ![b] = [alive |-> TRUE, data |-> f, size |-> Len(t)]], cow, With(f, t))
    /\ meantBox' = [meantBox EXCEPT ![b] = t]
    /\ UNCHANGED <<shares, meantCow, nullWrite>>

\* format(): with nothing to print there is no buffer, and the terminating
\* character goes to it all the same.
FormatBox(b, t) ==
    \/ t # <<>> /\ MakeBox(b, t)
    \/ /\ t = <<>> /\ ~box[b].alive
       /\ nullWrite' = TRUE
       /\ UNCHANGED <<shares, box, cow, heap, meantBox, meantCow>>

\* The defaulted moves, construction and assignment: the pointer is moved,
\* the size of a UniqueBoxedString is copied.
MoveBox(b, x) ==
    /\ b # x /\ box[b].alive
    /\ Become([box EXCEPT ![x] = box[b], ![b].data = NoBuffer], cow, heap)
    /\ meantBox' = [meantBox EXCEPT ![x] = meantBox[b], ![b] = <<>>]
    /\ UNCHANGED <<shares, meantCow, nullWrite>>

\* A copy of a BoxedString shares the buffer.
CopyBox(b, x) ==
    /\ b # x /\ box[b].alive /\ shares
    /\ Become([box EXCEPT ![x] = box[b]], cow, heap)
    /\ meantBox' = [meantBox EXCEPT ![x] = meantBox[b]]
    /\ UNCHANGED <<shares, meantCow, nullWrite>>

\* clone() makes a UniqueBoxedString from the view.
CloneBox(b, x) ==
    /\ box[b].alive /\ ~shares /\ Readable(View(b))
    /\ MakeBox(x, Shown(View(b)))

DropBox(b) ==
    /\ box[b].alive
    /\ Become([box EXCEPT ![b] = NoBox], cow, heap)
    /\ meantBox' = [meantBox EXCEPT ![b] = <<>>]
    /\ UNCHANGED <<shares, meantCow, nullWrite>>

-----------------------------------------------------------------------------
(* Cows.                                                                   *)

Owned(f, t) == [is |-> "owned", data |-> f, size |-> Len(t)]

\* Holds a std::string with the text t, by construction or assignment.
Own(c, t) ==
    /\ \E f \in Unused : Become(box, [cow EXCEPT ![c] = Owned(f, t)], With(f, t))
    /\ meantCow' = [meantCow EXCEPT ![c] = t]
    /\ UNCHANGED <<shares, meantBox, nullWrite>>

\* Holds a view, by construction or assignment; what it owned before goes,
\* even if the view is of that.
Borrow(c, v, t) ==
    /\ Become(box, [cow EXCEPT ![c] = [is |-> "borrowed", data |-> v.data, size |-> v.size]], heap)
    /\ meantCow' = [meantCow EXCEPT ![c] = t]
    /\ UNCHANGED <<shares, meantBox, nullWrite>>

BorrowBox(c, b) ==
    box[b].alive /\ Readable(View(b)) /\ Borrow(c, View(b), Shown(View(b)))

\* toBorrowed() of d, given to c.
BorrowCow(c, d) == cow[d].is # "none" /\ Readable(cow[d]) /\ Borrow(c, cow[d], Shown(cow[d]))

\* The copy constructor and assignment.
CopyCow(c, d) ==
    /\ c # d
    /\ \/ cow[d].is = "owned" /\ Own(c, Shown(cow[d]))
       \/ cow[d].is = "borrowed" /\ Borrow(c, cow[d], meantCow[d])

\* The move of an owned string empties it; its characters stay where they
\* are, and are copied, or go along.
MoveCow(c, d) ==
    /\ c # d
    /\ \/ cow[d].is = "borrowed" /\ Borrow(c, cow[d], meantCow[d])
       \/ /\ cow[d].is = "owned"
          /\ \/ \E f \in Unused :
                   Become(box, [cow EXCEPT ![c] = Owned(f, meantCow[d]), ![d].size = 0],
                          [With(f, Shown(cow[d])) EXCEPT ![cow[d].data] = <<NUL>>])
             \/ \E f \in Unused :
                   Become(box, [cow EXCEPT ![c] = cow[d], ![d] = Owned(f, <<>>)], With(f, <<>>))
          /\ meantCow' = [meantCow EXCEPT ![c] = meantCow[d], ![d] = <<>>]
          /\ UNCHANGED <<shares, meantBox, nullWrite>>

\* Mistake: the view is only marked as owned, and no copy is made.
ConvertInPlace(c) ==
    /\ cow[c].is = "borrowed" /\ Readable(cow[c])
    /\ Become(box, [cow EXCEPT ![c].is = "owned"], heap)
    /\ UNCHANGED <<shares, meantBox, meantCow, nullWrite>>

\* convertToOwned(); of an owned Cow: nothing.
ConvertToOwned(c) ==
    /\ cow[c].is = "borrowed" /\ Readable(cow[c])
    /\ Own(c, Shown(cow[c]))

DropCow(c) ==
    /\ cow[c].is # "none"
    /\ Become(box, [cow EXCEPT ![c] = NoCow], heap)
    /\ meantCow' = [meantCow EXCEPT ![c] = <<>>]
    /\ UNCHANGED <<shares, meantBox, nullWrite>>

StringsNext ==
    /\ ~nullWrite
    /\ \/ \E b \in Boxes :
             \/ \E t \in Texts : MakeBox(b, t) \/ FormatBox(b, t)
             \/ \E x \in Boxes : MoveBox(b, x) \/ CopyBox(b, x) \/ CloneBox(b, x)
             \/ DropBox(b)
       \/ \E c \in Cows :
             \/ \E t \in Texts : Own(c, t)
             \/ \E b \in Boxes : BorrowBox(c, b)
             \/ \E d \in Cows : BorrowCow(c, d) \/ CopyCow(c, d) \/ MoveCow(c, d)
             \/ ConvertToOwned(c) \/ DropCow(c)

-----------------------------------------------------------------------------
(* What the strings promise.                                               *)

\* A UniqueBoxedString that was moved away keeps its size and has no buffer
\* (BoxedString.hpp:25); nobody may look at it until it is assigned to.
MovedAway(b) == ~shares /\ box[b].data = NoBuffer /\ box[b].size > 0

\* A boxed string shows its text, whatever was copied, moved and destroyed;
\* a Cow that owns shows the text it was given, whatever became of the one it
\* borrowed from; and one that borrows shows it or dangles.
StringsRight ==
    /\ \A b \in Boxes : box[b].alive /\ ~MovedAway(b) =>
           Readable(View(b)) /\ Shown(View(b)) = meantBox[b]
    /\ \A c \in Cows : cow[c].is = "owned" => Readable(cow[c])
    /\ \A c \in Cows : cow[c].is # "none" /\ Readable(cow[c]) => Shown(cow[c]) = meantCow[c]

=============================================================================
