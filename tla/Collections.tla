------------------------------ MODULE Collections ------------------------------
(***************************************************************************)
(* What the data structures promise: a queue and a stack are sequences, a  *)
(* heap and a set are bags, and what an operation returns follows from the *)
(* elements alone, never from capacities, positions or hash values.        *)
(***************************************************************************)
EXTENDS Integers, Sequences, SequencesExt, BagsExt, TLC

CONSTANTS
    Elements,
    HeapOrder,
    Null,       \* what an operation returns that returns nothing
    Thrown      \* or throws LonganRuntimeError

VARIABLES
    content,    \* [kind, items]: a sequence or a bag; kind "none" is not used
    given,      \* what the last operation was given, a sequence
    returned    \* and what it returned

cvars == <<content, given, returned>>

Kinds == {"queue", "stack", "heap", "set", "none"}

Is(kind) == content.kind = kind
BecomeItems(items) == content' = [content EXCEPT !.items = items]

CollectionInit ==
    /\ \E kind \in Kinds : content = [kind |-> kind, items |-> IF kind \in {"queue", "stack"} THEN <<>> ELSE EmptyBag]
    /\ given = <<>>
    /\ returned = Null

Add(e) ==
    /\ BecomeItems(IF Is("queue") \/ Is("stack") THEN Append(content.items, e) ELSE BagAdd(content.items, e))
    /\ given' = <<e>>
    /\ returned' = Null

Nearest(items) == CHOOSE e \in BagToSet(items) : \A x \in BagToSet(items) : <<e, x>> \notin HeapOrder

Take ==
    /\ ~Is("set") /\ ~Is("none")
    /\ given' = <<>>
    /\ IF content.items \in {<<>>, EmptyBag} THEN returned' = Thrown /\ UNCHANGED content
       ELSE CASE Is("queue") -> /\ returned' = Head(content.items)
                                /\ BecomeItems(Tail(content.items))
              [] Is("stack") -> /\ returned' = Last(content.items)
                                /\ BecomeItems(Front(content.items))
              [] Is("heap") -> /\ returned' = Nearest(content.items)
                               /\ BecomeItems(BagRemove(content.items, Nearest(content.items)))

\* Some element of the heap becomes another.
Change(e) ==
    /\ Is("heap")
    /\ \E old \in BagToSet(content.items) : BecomeItems(BagAdd(BagRemove(content.items, old), e))
    /\ given' = <<e>>
    /\ returned' = Null

\* A heap is made of all elements of a range.
Fill(s) ==
    /\ Is("heap")
    /\ BecomeItems(FoldLeft(BagAdd, EmptyBag, s))
    /\ given' = s
    /\ returned' = Null

\* An element that is looked for is there or is not.
Seek(e) ==
    /\ Is("set")
    /\ given' = <<e>>
    /\ returned' = (IF BagIn(e, content.items) THEN e ELSE Null)
    /\ UNCHANGED content

CollectionNext ==
    \/ Take
    \/ \E e \in Elements : Add(e) \/ Change(e) \/ Seek(e)
    \/ given' \in Seq(Elements) /\ Fill(given')

CollectionSpec == CollectionInit /\ [][CollectionNext]_cvars
=============================================================================
