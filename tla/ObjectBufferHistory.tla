------------------------- MODULE ObjectBufferHistory -------------------------
(***************************************************************************)
(* An ObjectBuffer together with what its clients see of it: the objects   *)
(* successful Push and TryPush calls put in, and the objects successful Pop *)
(* and TryPop calls returned, with the ids they returned.  It implements   *)
(* the bounded first-in first-out channel of ObjectChannel.                *)
(***************************************************************************)
EXTENDS ObjectBuffer

VARIABLES
    accepted,   \* what Push and TryPush returned LONGAN_SUCC for
    delivered   \* what Pop and TryPop returned LONGAN_SUCC with

hvars == <<vars, accepted, delivered>>

HInit ==
    /\ Init
    /\ accepted = <<>>
    /\ delivered = <<>>

\* The calls that move no object.
HOther(t) ==
    /\ \/ SpuriousWakeup(t) \/ PopBlocks(t) \/ Clear(t) \/ ForceFail(t)
       \/ \E o \in Object : PushBlocks(t, o)
       \/ \E code \in Code : ProducerQuit(t, code) \/ ConsumerQuit(t, code)
    /\ UNCHANGED <<accepted, delivered>>

HPut(t, o, code) ==
    /\ Push(t, o, code) \/ TryPush(t, o, code)
    /\ accepted' = IF code = "SUCC" THEN Append(accepted, o) ELSE accepted
    /\ UNCHANGED delivered

HGet(t, o, code) ==
    /\ Pop(t, o, code) \/ TryPop(t, o, code)
    /\ delivered' = IF code = "SUCC"
                    THEN Append(delivered, [id |-> PopId, obj |-> o])
                    ELSE delivered
    /\ UNCHANGED accepted

HNext ==
    \E t \in Thread :
        \/ HOther(t)
        \/ \E o \in Object, code \in Code : HPut(t, o, code)
        \/ \E o \in Object \cup {NoObject}, code \in Code : HGet(t, o, code)

HSpec == HInit /\ [][HNext]_hvars

-----------------------------------------------------------------------------
(* The refinement mapping: the number of the k-th object in the queue      *)
(* counts back from mObjectId.                                             *)
ChannelOf(q, next) == [k \in 1..Len(q) |-> next - Len(q) + k - 1]

Channel == INSTANCE ObjectChannel
    WITH chan <- ChannelOf(queue, objectId), closed <- failed \/ noAliveConsumer

(* Every step of the buffer is a step of the channel or changes nothing of *)
(* it: first in first out, each object delivered at most once, and the id  *)
(* Pop computes from mObjectId and the queue's size is the one Push gave.  *)
ImplementsChannel == Channel!Spec
=============================================================================
