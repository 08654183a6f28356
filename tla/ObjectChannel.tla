---------------------------- MODULE ObjectChannel ----------------------------
(***************************************************************************)
(* What an ObjectBuffer promises its clients, without threads, locks or    *)
(* condition variables: a bounded first-in first-out channel.  The objects *)
(* it accepts are numbered 0, 1, 2, ... and each is delivered at most once, *)
(* in that order, with the number it was accepted under.  Objects are lost *)
(* only when the channel is closed for good or, if the clients do so,      *)
(* cleared.                                                                *)
(***************************************************************************)
EXTENDS Integers, Sequences

CONSTANTS Object, MaxSize, MayClear

VARIABLES
    accepted,   \* the objects accepted so far; the one numbered i is accepted[i + 1]
    delivered,  \* the objects delivered so far, each with its number
    chan,       \* the numbers of the objects in the channel
    closed      \* nothing is accepted or delivered any more

vars == <<accepted, delivered, chan, closed>>

Init ==
    /\ accepted = <<>>
    /\ delivered = <<>>
    /\ chan = <<>>
    /\ closed = FALSE

Accept(o) ==
    /\ ~closed
    /\ MaxSize >= 0 => Len(chan) < MaxSize
    /\ accepted' = Append(accepted, o)
    /\ chan' = Append(chan, Len(accepted))
    /\ UNCHANGED <<delivered, closed>>

Deliver ==
    /\ chan # <<>>
    /\ delivered' = Append(delivered, [id |-> Head(chan), obj |-> accepted[Head(chan) + 1]])
    /\ chan' = Tail(chan)
    /\ UNCHANGED <<accepted, closed>>

Close ==
    /\ closed' = TRUE
    /\ chan' = <<>>
    /\ UNCHANGED <<accepted, delivered>>

Clear ==
    /\ MayClear
    /\ chan' = <<>>
    /\ UNCHANGED <<accepted, delivered, closed>>

Next == Deliver \/ Close \/ Clear \/ \E o \in Object : Accept(o)

Spec == Init /\ [][Next]_vars
=============================================================================
