------------------------------ MODULE Pipeline ------------------------------
(***************************************************************************)
(* The three threads of WireSentinel-Client (src/main.c): "capture" is the *)
(* loop of main(), "processing" is routine_processing and "payload" is     *)
(* routine_payload.  They share two bounded queues, two counters and the   *)
(* counter `test`, under the one mutex mutex_processing, and wake each     *)
(* other through the condition variables cond_processing and cond_payload. *)
(*                                                                         *)
(* A frame is the number of its arrival.  What the parser decides about a  *)
(* frame is a choice (FrameParser's business) and so is how long the       *)
(* network keeps the payload thread (Delivery's business).  A thread       *)
(* blocked in pthread_cond_wait has pc "wait": each condition variable has *)
(* one possible waiter, so the waiter's pc is the whole of its state.      *)
(***************************************************************************)
EXTENDS Integers, Sequences

CONSTANTS
    MaxItens,    \* capacity of buffer_list, 1000 in add_item
    MaxPackets,  \* capacity of packet_list, 1000 in insert_packet_node_on_list
    MaxTest,     \* parsed frames that open a sending window, 2000 in main
    Window,      \* seconds that open a sending window, 4 in main
    MaxFrames    \* bound: how many frames arrive

ASSUME PipelineAssumption ==
    /\ MaxItens \in Nat /\ MaxItens >= 2
    /\ MaxPackets \in Nat /\ MaxPackets >= 2
    /\ MaxTest \in Nat /\ MaxTest >= 1
    /\ Window \in Nat /\ Window >= 1
    /\ MaxFrames \in Nat

VARIABLES
    pc,                \* where each thread is
    mutex_processing,  \* the thread that holds the mutex, or NoThread
    buffer,            \* capture: the frame last received (0 before the first)
    age,               \* seconds since `secs` was read, counted up to Window
    due,               \* capture: currsecs - secs >= 4 when recvfrom returned
    test,              \* frames forwarded since the last window
    buffer_list,       \* the list from inicio_buffer to final_buffer
    nmbr_itens,        \* its counter
    temp,              \* processing: the node it unlinked and not yet freed
    packet_list,       \* the list from inicio_packet to final_packet
    nmbr_packets,      \* its counter
    json_payload,      \* payload: the batch it serialised and is sending
    sent               \* history: the newest frame of the batches done with

vars == <<pc, mutex_processing, buffer, age, due, test, buffer_list,
          nmbr_itens, temp, packet_list, nmbr_packets, json_payload, sent>>

lists == <<buffer_list, nmbr_itens, temp, packet_list, nmbr_packets>>
clock == <<age, due>>
batches == <<json_payload, sent>>

Frames == 1..MaxFrames
Threads == {"capture", "processing", "payload"}
NoThread == "none"

(* The places where a thread is inside its critical section.               *)
Holding == {"add", "unlockAdd", "reset", "unlockReset",
            "check", "parse", "unlock"}

Goto(t, label) == pc' = [pc EXCEPT ![t] = label]
At(t, label) == pc[t] = label

(* Where a thread waits for the mutex, and where it goes when it gets it.  *)
Entering(t) ==
    \/ At(t, "lock") /\ Goto(t, "check")
    \/ At(t, "lockAdd") /\ Goto(t, "add")
    \/ At(t, "lockReset") /\ Goto(t, "reset")

(* Where a thread releases the mutex, and where it goes then.              *)
Leaving(t) ==
    \/ At(t, "unlock") /\ Goto(t, IF t = "payload" THEN "send" ELSE "lock")
    \/ At(t, "unlockAdd") /\ Goto(t, "signalProcessing")
    \/ At(t, "unlockReset") /\ Goto(t, "signalPayload")

(* The process is gone: exit(1), or return from main.                      *)
Exited == At("capture", "exited")
Exit ==
    /\ pc' = [t \in Threads |-> "exited"]
    /\ mutex_processing' = NoThread
    /\ UNCHANGED <<buffer, clock, test, lists, batches>>

(* pthread_cond_signal: the waiter leaves the wait and has to get the      *)
(* mutex back; with nobody waiting the signal is lost.                     *)
Signal(t, waiter, label) ==
    pc' = [pc EXCEPT ![t] = label,
                     ![waiter] = IF @ = "wait" THEN "lock" ELSE @]

Init ==
    /\ pc = [t \in Threads |-> IF t = "capture" THEN "socket"
                               ELSE IF t = "processing" THEN "lock" ELSE "auth"]
    /\ mutex_processing = NoThread
    /\ buffer = 0
    /\ age = 0
    /\ due = FALSE
    /\ test = 0
    /\ buffer_list = <<>> /\ nmbr_itens = 0
    /\ temp = <<>>
    /\ packet_list = <<>> /\ nmbr_packets = 0
    /\ json_payload = <<>>
    /\ sent = 0

-----------------------------------------------------------------------------
(* pthread_mutex_lock and pthread_mutex_unlock, for any thread.            *)
Lock(t) ==
    /\ mutex_processing = NoThread
    /\ mutex_processing' = t
    /\ Entering(t)
    /\ UNCHANGED <<buffer, clock, test, lists, batches>>

Unlock(t) ==
    /\ mutex_processing' = NoThread
    /\ Leaving(t)
    /\ UNCHANGED <<buffer, clock, test, lists, batches>>

(* pthread_cond_wait releases the mutex and blocks in one step ...         *)
Wait(t) ==
    /\ mutex_processing' = NoThread
    /\ Goto(t, "wait")
    /\ UNCHANGED <<buffer, clock, test, lists, batches>>

(* ... and may return without a signal, which is why it sits in a loop.    *)
SpuriousWakeup(t) ==
    /\ At(t, "wait")
    /\ Goto(t, "lock")
    /\ UNCHANGED <<mutex_processing, buffer, clock, test, lists, batches>>

-----------------------------------------------------------------------------
(* Mutants: the loop runs while the counter is above the capacity, or is   *)
(* about to reach it.                                                      *)
SurplusAbove(count, max) == IF count > max THEN count - max ELSE 0
SurplusEarly(count, max) == IF count >= max - 1 THEN count - max + 2 ELSE 0

(* How many nodes the eviction loop frees before it links a new one: it    *)
(* looks at the counter, never at the list.                                *)
Surplus(count, max) == IF count >= max THEN count - max + 1 ELSE 0

(* Mutant: a full list frees its newest node instead of its oldest.        *)
LinkedEvictingNewest(list, count, max, f) ==
    Append(SubSeq(list, 1, Len(list) - Surplus(count, max)), f)

(* The list and the counter after a node is linked at the end.             *)
Linked(list, count, max, f) ==
    IF list = <<>>
    THEN <<f>>
    ELSE Append(SubSeq(list, Surplus(count, max) + 1, Len(list)), f)

LinkedCount(list, count, max) ==
    IF list = <<>> THEN count + 1 ELSE count - Surplus(count, max) + 1

-----------------------------------------------------------------------------
(* The capture thread.                                                     *)

OpenSocket ==
    /\ At("capture", "socket")
    /\ \/ /\ Goto("capture", "recv")
          /\ age' = 0
          /\ UNCHANGED <<mutex_processing, buffer, due, test, lists, batches>>
       \/ Exit

(* recvfrom returns a frame; the time is read before the frame is queued.  *)
RecvFrame(f) ==
    /\ At("capture", "recv")
    /\ buffer' = f
    /\ due' = (age >= Window)
    /\ Goto("capture", "lockAdd")
    /\ UNCHANGED <<mutex_processing, age, test, lists, batches>>

(* recvfrom returns no bytes (the interface went down, a signal, ...).     *)
RecvNothing ==
    /\ At("capture", "recv")
    /\ due' = (age >= Window)
    /\ Goto("capture", "checkWindow")
    /\ UNCHANGED <<mutex_processing, buffer, age, test, lists, batches>>

AddItem ==
    /\ At("capture", "add")
    /\ buffer_list' = Linked(buffer_list, nmbr_itens, MaxItens, buffer)
    /\ nmbr_itens' = LinkedCount(buffer_list, nmbr_itens, MaxItens)
    /\ Goto("capture", "unlockAdd")
    /\ UNCHANGED <<mutex_processing, buffer, clock, test, temp,
                   packet_list, nmbr_packets, batches>>

(* Mutant: the other condition variable is signalled.                      *)
SignalProcessingMissed ==
    /\ At("capture", "signalProcessing")
    /\ Signal("capture", "payload", "checkWindow")
    /\ UNCHANGED <<mutex_processing, buffer, clock, test, lists, batches>>

SignalProcessing ==
    /\ At("capture", "signalProcessing")
    /\ Signal("capture", "processing", "checkWindow")
    /\ UNCHANGED <<mutex_processing, buffer, clock, test, lists, batches>>

(* Mutant: the window opens by time only.                                  *)
CheckWindowByTime ==
    /\ At("capture", "checkWindow")
    /\ Goto("capture", IF due THEN "lockReset" ELSE "recv")
    /\ UNCHANGED <<mutex_processing, buffer, clock, test, lists, batches>>

(* `test` is read here without the mutex.                                  *)
CheckWindow ==
    /\ At("capture", "checkWindow")
    /\ Goto("capture", IF test >= MaxTest \/ due THEN "lockReset" ELSE "recv")
    /\ UNCHANGED <<mutex_processing, buffer, clock, test, lists, batches>>

(* Mutant: the frames of the window are subtracted.                        *)
ResetTestBySubtraction ==
    /\ At("capture", "reset")
    /\ test' = test - MaxTest
    /\ Goto("capture", "unlockReset")
    /\ UNCHANGED <<mutex_processing, buffer, clock, lists, batches>>

ResetTest ==
    /\ At("capture", "reset")
    /\ test' = 0
    /\ Goto("capture", "unlockReset")
    /\ UNCHANGED <<mutex_processing, buffer, clock, lists, batches>>

(* Mutants: the other condition variable is signalled, or the signal is    *)
(* handed over like a message and waits for its receiver.                  *)
SignalPayloadMissed ==
    /\ At("capture", "signalPayload")
    /\ Signal("capture", "processing", "recv")
    /\ age' = 0
    /\ UNCHANGED <<mutex_processing, buffer, due, test, lists, batches>>

SignalPayloadHandedOver ==
    /\ At("capture", "signalPayload")
    /\ At("payload", "wait")
    /\ Signal("capture", "payload", "recv")
    /\ age' = 0
    /\ UNCHANGED <<mutex_processing, buffer, due, test, lists, batches>>

SignalPayload ==
    /\ At("capture", "signalPayload")
    /\ Signal("capture", "payload", "recv")
    /\ age' = 0
    /\ UNCHANGED <<mutex_processing, buffer, due, test, lists, batches>>

Tick ==
    /\ ~Exited
    /\ age < Window
    /\ age' = age + 1
    /\ UNCHANGED <<pc, mutex_processing, buffer, due, test, lists, batches>>

-----------------------------------------------------------------------------
(* The processing thread.                                                  *)

WaitForItem ==
    /\ At("processing", "check")
    /\ nmbr_itens = 0
    /\ Wait("processing")

(* Mutant: the frame is parsed outside the critical section.               *)
TakeItemUnlocked ==
    /\ At("processing", "check")
    /\ nmbr_itens # 0
    /\ temp' = <<Head(buffer_list)>>
    /\ buffer_list' = Tail(buffer_list)
    /\ mutex_processing' = NoThread
    /\ Goto("processing", "parse")
    /\ UNCHANGED <<buffer, clock, test, nmbr_itens, packet_list, nmbr_packets, batches>>

(* The head is unlinked here, its counter only goes down in free_item.     *)
TakeItem ==
    /\ At("processing", "check")
    /\ nmbr_itens # 0
    /\ temp' = <<Head(buffer_list)>>
    /\ buffer_list' = Tail(buffer_list)
    /\ Goto("processing", "parse")
    /\ UNCHANGED <<mutex_processing, buffer, clock, test, nmbr_itens,
                   packet_list, nmbr_packets, batches>>

(* The parser refused the frame, or it is a frame of the loopback device.  *)
DiscardItem ==
    /\ At("processing", "parse")
    /\ temp' = <<>>
    /\ nmbr_itens' = nmbr_itens - 1
    /\ Goto("processing", "unlock")
    /\ UNCHANGED <<mutex_processing, buffer, clock, test, buffer_list,
                   packet_list, nmbr_packets, batches>>

ForwardItem ==
    /\ At("processing", "parse")
    /\ packet_list' = Linked(packet_list, nmbr_packets, MaxPackets, temp[1])
    /\ nmbr_packets' = LinkedCount(packet_list, nmbr_packets, MaxPackets)
    /\ temp' = <<>>
    /\ nmbr_itens' = nmbr_itens - 1
    /\ test' = test + 1
    /\ Goto("processing", "unlock")
    /\ UNCHANGED <<mutex_processing, buffer, clock, buffer_list, batches>>

-----------------------------------------------------------------------------
(* The payload thread.                                                     *)

(* Connection, client_auth and registration, which may end the process.    *)
Authenticate ==
    /\ At("payload", "auth")
    /\ \/ /\ Goto("payload", "lock")
          /\ UNCHANGED <<mutex_processing, buffer, clock, test, lists, batches>>
       \/ Exit

WaitForPacket ==
    /\ At("payload", "check")
    /\ packet_list = <<>>
    /\ Wait("payload")

(* Mutants: free_list leaves the counter, or is not called.                *)
TakeBatchKeepingCount ==
    /\ At("payload", "check")
    /\ packet_list # <<>>
    /\ json_payload' = packet_list
    /\ packet_list' = <<>>
    /\ Goto("payload", "unlock")
    /\ UNCHANGED <<mutex_processing, buffer, clock, test, buffer_list,
                   nmbr_itens, temp, nmbr_packets, sent>>

TakeBatchKeepingList ==
    /\ At("payload", "check")
    /\ packet_list # <<>>
    /\ json_payload' = packet_list
    /\ Goto("payload", "unlock")
    /\ UNCHANGED <<mutex_processing, buffer, clock, test, lists, sent>>

(* generate_json_payload walks the whole list, free_list frees all of it.  *)
TakeBatch ==
    /\ At("payload", "check")
    /\ packet_list # <<>>
    /\ json_payload' = packet_list
    /\ packet_list' = <<>>
    /\ nmbr_packets' = 0
    /\ Goto("payload", "unlock")
    /\ UNCHANGED <<mutex_processing, buffer, clock, test, buffer_list,
                   nmbr_itens, temp, sent>>

(* The request was sent and answered.                                      *)
FinishBatch ==
    /\ At("payload", "send")
    /\ sent' = json_payload[Len(json_payload)]
    /\ json_payload' = <<>>
    /\ Goto("payload", "lock")
    /\ UNCHANGED <<mutex_processing, buffer, clock, test, lists>>

(* case_not_ok calls exit(1) when the backend refuses to register us.      *)
RefusedByBackend ==
    /\ At("payload", "send")
    /\ Exit

-----------------------------------------------------------------------------
CaptureStep ==
    \/ OpenSocket \/ AddItem \/ SignalProcessing \/ CheckWindow
    \/ ResetTest \/ SignalPayload \/ Unlock("capture")

ProcessingStep ==
    WaitForItem \/ TakeItem \/ DiscardItem \/ ForwardItem \/ Unlock("processing")

PayloadStep ==
    WaitForPacket \/ TakeBatch \/ Unlock("payload")

NetworkStep ==
    Authenticate \/ FinishBatch \/ RefusedByBackend

(* A process that exited stays so: not a deadlock.                         *)
Stopped == Exited /\ UNCHANGED vars

(* Everything but the arrival of frames.                                   *)
Running ==
    \/ \E t \in Threads : Lock(t)
    \/ CaptureStep
    \/ ProcessingStep
    \/ PayloadStep
    \/ NetworkStep
    \/ RecvNothing
    \/ SpuriousWakeup("processing")
    \/ SpuriousWakeup("payload")
    \/ Tick
    \/ Stopped

Next ==
    \/ buffer < MaxFrames /\ RecvFrame(buffer + 1)
    \/ Running

Spec == Init /\ [][Next]_vars

(* Each thread keeps running, and a thread blocked on the mutex gets it if *)
(* it is released again and again.  Nothing is assumed of the network, of  *)
(* the backend or of the traffic.                                          *)
Fairness ==
    /\ \A t \in Threads : SF_vars(Lock(t))
    /\ WF_vars(CaptureStep)
    /\ WF_vars(ProcessingStep)
    /\ WF_vars(PayloadStep)
    /\ WF_vars(Tick)

FairSpec == Spec /\ Fairness

-----------------------------------------------------------------------------
Labels == {"socket", "recv", "lockAdd", "add", "unlockAdd",
           "signalProcessing", "checkWindow", "lockReset", "reset",
           "unlockReset", "signalPayload", "lock", "check", "wait", "parse",
           "unlock", "auth", "send", "exited"}

(* Types of the variables; temp holds at most one node.                    *)
TypeOK ==
    /\ pc \in [Threads -> Labels]
    /\ mutex_processing \in Threads \cup {NoThread}
    /\ buffer \in 0..MaxFrames
    /\ age \in 0..Window
    /\ due \in BOOLEAN
    /\ test \in Nat
    /\ buffer_list \in Seq(Frames) /\ nmbr_itens \in Int
    /\ temp \in Seq(Frames)
    /\ packet_list \in Seq(Frames) /\ nmbr_packets \in Int
    /\ json_payload \in Seq(Frames)
    /\ sent \in 0..MaxFrames

(* Only the thread that holds the mutex is inside a critical section: the  *)
(* lists and their counters are never touched by two threads at once.      *)
MutualExclusion ==
    \A t \in Threads : pc[t] \in Holding <=> mutex_processing = t

(* The counters that the code consults instead of the lists tell the truth *)
(* whenever another thread can look at them: nmbr_itens also counts the    *)
(* node that routine_processing has unlinked and not yet freed.            *)
CountersMatch ==
    /\ nmbr_itens = Len(buffer_list) + Len(temp)
    /\ nmbr_packets = Len(packet_list)

(* Neither queue outgrows its capacity, so memory stays bounded however    *)
(* slow the backend is, and a batch never has more packets than the JSON   *)
(* buffer was dimensioned for.                                             *)
QueuesBounded ==
    /\ Len(buffer_list) + Len(temp) <= MaxItens
    /\ Len(packet_list) <= MaxPackets
    /\ Len(json_payload) <= MaxPackets

(* `test` may run past its threshold while capture is busy, but never      *)
(* further than the frames that were queued meanwhile.                     *)
TestBounded == test + nmbr_itens <= MaxTest + MaxItens

(* The frames in the system, oldest first: those being sent, those parsed, *)
(* the one being parsed, those captured, the one just received.            *)
InHand == IF pc["capture"] \in {"lockAdd", "add"} THEN <<buffer>> ELSE <<>>
Stages == <<json_payload, packet_list, temp, buffer_list, InHand>>

Increasing(s) == \A i, j \in 1..Len(s) : i < j => s[i] < s[j]
Before(s, t) == \A i \in 1..Len(s), j \in 1..Len(t) : s[i] < t[j]

(* No frame is duplicated, overtakes another or comes back after its batch *)
(* is done with: along the stages, and against every batch before, frames  *)
(* appear in the order they arrived.                                       *)
InOrder ==
    /\ \A a \in 1..5 : Increasing(Stages[a])
    /\ \A a, b \in 1..5 : a < b => Before(Stages[a], Stages[b])
    /\ \A a \in 1..5 : Before(<<sent>>, Stages[a])

(* A frame is given up only by a queue at its capacity, and then only to   *)
(* make room for a newer one.                                              *)
Lost(list, next) == \E i \in 1..Len(list) : \A j \in 1..Len(next) : next[j] # list[i]
LossStep ==
    /\ Lost(buffer_list, buffer_list' \o temp') => Len(buffer_list) = MaxItens
    /\ Lost(packet_list, packet_list' \o json_payload') => Len(packet_list) = MaxPackets
LossOnlyWhenFull == [][LossStep]_vars

-----------------------------------------------------------------------------
(* The queues as their users see them: the node being parsed is still the  *)
(* head of the raw queue until routine_processing is done with it.         *)
Queues == INSTANCE DropOldestQueues WITH
    Frames <- Frames,
    raw <- temp \o buffer_list,
    packets <- packet_list,
    batch <- json_payload

(* The threads implement the drop-oldest queues.                           *)
ImplementsQueues == Queues!Spec

-----------------------------------------------------------------------------
(* A frame in the raw queue is parsed or gives way to newer ones, whatever *)
(* the backend does: no wakeup of routine_processing is lost.              *)
RawQueueDrains ==
    \A f \in Frames :
        (\E i \in 1..Len(buffer_list) : buffer_list[i] = f) ~>
            (Exited \/ \A i \in 1..Len(buffer_list) : buffer_list[i] # f)

(* The capture thread always comes back to recvfrom, even while the        *)
(* payload thread is stuck on a backend that never answers.                *)
CaptureKeepsReceiving == []<>(Exited \/ At("capture", "recv"))

(* The payload thread comes for the packets that were parsed: the queue is *)
(* emptied by it, not only by packets giving way to newer ones.            *)
PacketsAreTaken == packet_list # <<>> ~> (Exited \/ packet_list = <<>>)
=============================================================================
