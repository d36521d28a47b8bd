-------------------------- MODULE DropOldestQueues --------------------------
(***************************************************************************)
(* What the queues between the three threads promise, with no threads, no  *)
(* locks, no counters and no pointers: a frame enters the raw queue, moves *)
(* in order to the packet queue or is discarded by the parser, and leaves  *)
(* in a batch that takes the whole packet queue.  A full queue makes room  *)
(* by giving up its oldest element, and nothing else is ever lost.         *)
(*                                                                         *)
(* Pipeline (the threads) and QueueHeap (the linked lists) implement it.   *)
(***************************************************************************)
EXTENDS Naturals, Sequences

CONSTANTS
    Frames,      \* the frames that may be captured
    MaxItens,    \* capacity of the raw queue
    MaxPackets   \* capacity of the packet queue

VARIABLES
    raw,         \* frames captured and not yet parsed, oldest first
    packets,     \* frames parsed and not yet taken, oldest first
    batch        \* the batch last taken

vars == <<raw, packets, batch>>

(* Appending to a queue of the given capacity, giving up the oldest.       *)
Push(queue, capacity, f) ==
    IF Len(queue) < capacity THEN Append(queue, f) ELSE Append(Tail(queue), f)

Init ==
    /\ raw = <<>>
    /\ packets = <<>>
    /\ batch = <<>>

Capture(f) ==
    /\ raw' = Push(raw, MaxItens, f)
    /\ UNCHANGED <<packets, batch>>

Discard ==
    /\ raw # <<>>
    /\ raw' = Tail(raw)
    /\ UNCHANGED <<packets, batch>>

Forward ==
    /\ raw # <<>>
    /\ raw' = Tail(raw)
    /\ packets' = Push(packets, MaxPackets, Head(raw))
    /\ UNCHANGED batch

TakeBatch ==
    /\ packets # <<>>
    /\ batch' = packets
    /\ packets' = <<>>
    /\ UNCHANGED raw

(* The batch has been sent, or given up; the queues do not care which.     *)
ReleaseBatch ==
    /\ batch # <<>>
    /\ batch' = <<>>
    /\ UNCHANGED <<raw, packets>>

Next ==
    \/ \E f \in Frames : Capture(f)
    \/ Discard
    \/ Forward
    \/ TakeBatch
    \/ ReleaseBatch

Spec == Init /\ [][Next]_vars
=============================================================================
