-------------------------- MODULE PipelineProofs ---------------------------
(***************************************************************************)
(* The inductive invariant of Pipeline and what follows from it, for every *)
(* capacity of the queues, every window and any number of frames.          *)
(*                                                                         *)
(* TypeOK and the safety invariants are not inductive by themselves: that  *)
(* thread 2 may dereference the head of buffer_list depends on which       *)
(* threads can be where, on who holds the mutex and on what nmbr_itens     *)
(* counts.  Inv adds the places of the threads with what they have in hand *)
(* there (Places), and the room that capture leaves in `test` when it goes *)
(* back to recvfrom (TestSlack).                                           *)
(***************************************************************************)
EXTENDS Pipeline, TLAPS, SequenceTheorems

-----------------------------------------------------------------------------
(* A queue within its capacity gives up one node when it is full, none     *)
(* otherwise: the eviction loops of add_item and                           *)
(* insert_packet_node_on_list run at most once.                            *)
LEMMA SurplusOfFull ==
    ASSUME NEW count \in Nat, NEW max \in Nat, count <= max
    PROVE  Surplus(count, max) = IF count = max THEN 1 ELSE 0
  BY DEF Surplus

(* What the insertions leave: the new node is last, the newest nodes       *)
(* before it keep their order, and the counter is the length.              *)
LEMMA LinkedProperties ==
    ASSUME NEW S, NEW list \in Seq(S), NEW f \in S,
           NEW max \in Nat, max >= 1, Len(list) <= max
    PROVE  LET new == Linked(list, Len(list), max, f)
               count == LinkedCount(list, Len(list), max)
           IN  /\ new \in Seq(S)
               /\ Len(new) = count
               /\ count = IF Len(list) < max THEN Len(list) + 1 ELSE max
               /\ \A i \in 1..count - 1 : new[i] = list[i + Len(list) + 1 - count]
               /\ new[count] = f
  <1>1. CASE list = <<>>
    BY <1>1 DEF Linked, LinkedCount
  <1>2. CASE list # <<>>
    <2> DEFINE k == Surplus(Len(list), max)
               kept == SubSeq(list, k + 1, Len(list))
    <2>1. k = IF Len(list) = max THEN 1 ELSE 0
      BY SurplusOfFull, LenProperties
    <2>2. Len(list) \in Nat /\ Len(list) >= 1
      BY <1>2, EmptySeq
    <2>3. /\ kept \in Seq(S)
          /\ Len(kept) = Len(list) - k
          /\ \A i \in 1..Len(list) - k : kept[i] = list[i + k]
      <3>1. \A i \in k + 1..Len(list) : list[i] \in S
        BY <2>1, <2>2, ElementOfSeq
      <3> HIDE DEF k
      <3>2. k \in Int /\ k + 1 \in Int /\ k + 1 <= Len(list) + 1
        BY <2>1, <2>2
      <3> QED BY <3>1, <3>2, <2>2, SubSeqProperties
    <2>4. /\ Linked(list, Len(list), max, f) = Append(kept, f)
          /\ LinkedCount(list, Len(list), max) = Len(list) - k + 1
      BY <1>2 DEF Linked, LinkedCount
    <2> HIDE DEF kept, k
    <2>5. /\ Append(kept, f) \in Seq(S)
          /\ Len(Append(kept, f)) = Len(kept) + 1
          /\ \A i \in 1..Len(kept) : Append(kept, f)[i] = kept[i]
          /\ Append(kept, f)[Len(kept) + 1] = f
      BY <2>3, AppendProperties
    <2> DEFINE count == LinkedCount(list, Len(list), max)
    <2>6. /\ count = Len(kept) + 1
          /\ k = Len(list) + 1 - count
          /\ count = IF Len(list) < max THEN Len(list) + 1 ELSE max
      <3>1. count = Len(list) - k + 1
        BY <2>4
      <3>2. Len(kept) = Len(list) - k
        BY <2>3
      <3> HIDE DEF count
      <3>3. CASE Len(list) = max
        BY <2>1, <2>2, <3>1, <3>2, <3>3
      <3>4. CASE Len(list) < max
        BY <2>1, <2>2, <3>1, <3>2, <3>4
      <3> QED BY <2>2, <3>3, <3>4
    <2>7. ASSUME NEW i \in 1..count - 1
          PROVE  Append(kept, f)[i] = list[i + Len(list) + 1 - count]
      <3>1. i \in 1..Len(kept) /\ i \in 1..Len(list) - k
        BY <2>2, <2>3, <2>6, <2>1
      <3>2. i + Len(list) + 1 - count = i + k
        BY <2>1, <2>2, <2>6, <3>1
      <3> QED BY <2>3, <2>5, <3>1, <3>2
    <2> QED BY <2>4, <2>5, <2>6, <2>7
  <1> QED BY <1>1, <1>2

-----------------------------------------------------------------------------
(* Where each thread can be, and what it then has in hand.                 *)
CaptureLabels ==
    {"socket", "recv", "lockAdd", "add", "unlockAdd", "signalProcessing",
     "checkWindow", "lockReset", "reset", "unlockReset", "signalPayload", "exited"}
ProcessingLabels == {"lock", "check", "wait", "parse", "unlock", "exited"}
PayloadLabels == {"auth", "lock", "check", "wait", "unlock", "send", "exited"}

Places ==
    /\ pc["capture"] \in CaptureLabels
    /\ pc["processing"] \in ProcessingLabels
    /\ pc["payload"] \in PayloadLabels
    /\ \A t \in Threads : pc[t] = "exited" <=> pc["capture"] = "exited"
    /\ pc["capture"] \in {"lockAdd", "add"} => buffer \in Frames
    /\ pc["processing"] = "parse" => Len(temp) = 1
    /\ pc["processing"] \notin {"parse", "exited"} => temp = <<>>
    /\ pc["payload"] \in {"unlock", "send"} => json_payload # <<>>

(* Until capture looks at `test` again, there is room for one more frame.  *)
TestSlack ==
    pc["capture"] \in {"socket", "recv", "lockAdd", "add", "unlockReset", "signalPayload"} =>
        test + nmbr_itens < MaxTest + MaxItens

(* The inductive invariant.                                                *)
Inv ==
    /\ TypeOK
    /\ Places
    /\ MutualExclusion
    /\ CountersMatch
    /\ QueuesBounded
    /\ TestBounded
    /\ TestSlack

(* The invariant holds when main starts its threads.                       *)
LEMMA InitInv == Init => Inv
  <1> USE PipelineAssumption
  <1> SUFFICES ASSUME Init PROVE Inv
    OBVIOUS
  <1>1. TypeOK
    <2>1. pc \in [Threads -> Labels]
      BY DEF Init, Threads, Labels
    <2>2. /\ <<>> \in Seq(Frames)
          /\ mutex_processing \in Threads \cup {NoThread}
      BY EmptySeq DEF Init
    <2>3. 0 \in 0..MaxFrames /\ 0 \in 0..Window /\ 0 \in Nat /\ 0 \in Int
      OBVIOUS
    <2> QED BY <2>1, <2>2, <2>3 DEF Init, TypeOK
  <1>2. Places /\ MutualExclusion
    BY DEF Init, Places, MutualExclusion, Threads, NoThread, Holding,
           CaptureLabels, ProcessingLabels, PayloadLabels
  <1>3. CountersMatch /\ QueuesBounded /\ TestBounded /\ TestSlack
    BY DEF Init, CountersMatch, QueuesBounded, TestBounded, TestSlack
  <1> QED BY <1>1, <1>2, <1>3 DEF Inv

-----------------------------------------------------------------------------
(* The capture thread, about to link a frame, finds that thread 2 has no   *)
(* node in hand and that the counter is the length of the list.            *)
LEMMA AddItemFinds ==
    ASSUME Inv, AddItem
    PROVE  /\ temp = <<>> /\ buffer \in Frames
           /\ nmbr_itens = Len(buffer_list) /\ Len(buffer_list) <= MaxItens
  <1> USE DEF Inv
  <1>1. mutex_processing = "capture"
    BY DEF AddItem, At, MutualExclusion, Holding, Threads
  <1>2. pc["processing"] \notin {"parse", "exited"}
    BY <1>1 DEF AddItem, At, MutualExclusion, Places, Holding, Threads
  <1>3. temp = <<>> /\ buffer \in Frames
    BY <1>2 DEF AddItem, At, Places
  <1> QED BY <1>3, LenProperties DEF CountersMatch, QueuesBounded, TypeOK

(* Thread 2, past its wait loop, finds a node at the head of the list: the *)
(* counter it tested was not the only one to say so.                       *)
LEMMA TakeItemFinds ==
    ASSUME Inv, TakeItem
    PROVE  temp = <<>> /\ buffer_list # <<>> /\ nmbr_itens = Len(buffer_list)
  <1> USE DEF Inv
  <1>1. temp = <<>>
    BY DEF TakeItem, At, Places
  <1> QED BY <1>1, LenProperties DEF TakeItem, CountersMatch, TypeOK

(* Thread 2, about to link a packet, has one node in hand, and the packet  *)
(* counter is the length of its list.                                      *)
LEMMA ForwardItemFinds ==
    ASSUME Inv, ForwardItem
    PROVE  /\ Len(temp) = 1 /\ temp[1] \in Frames /\ temp = <<temp[1]>>
           /\ nmbr_packets = Len(packet_list) /\ Len(packet_list) <= MaxPackets
           /\ nmbr_itens = Len(buffer_list) + 1 /\ Len(buffer_list) \in Nat
  <1> USE DEF Inv
  <1>1. Len(temp) = 1
    BY DEF ForwardItem, At, Places
  <1>2. temp[1] \in Frames
    <2>1. 1 \in 1..Len(temp)
      BY <1>1
    <2> QED BY <2>1, ElementOfSeq DEF TypeOK
  <1>3. temp = <<temp[1]>>
    <2>1. <<temp[1]>> \in Seq(Frames) /\ Len(<<temp[1]>>) = 1 /\ <<temp[1]>>[1] = temp[1]
      BY <1>2
    <2>2. \A k \in 1..Len(temp) : temp[k] = <<temp[1]>>[k]
      BY <1>1, <2>1
    <2> QED BY <1>1, <2>1, <2>2, SeqEqual DEF TypeOK
  <1> QED BY <1>1, <1>2, <1>3, LenProperties DEF CountersMatch, QueuesBounded, TypeOK

(* Every step of every thread preserves the invariant.                     *)
LEMMA NextInv == Inv /\ [Next]_vars => Inv'
  <1> SUFFICES ASSUME Inv, [Next]_vars PROVE Inv'
    OBVIOUS
  <1> USE PipelineAssumption DEF Inv, clock, lists, batches
  <1>1. ASSUME NEW t \in Threads, Lock(t) PROVE Inv'
    <2>1. TypeOK'
      BY <1>1 DEF Lock, Entering, Goto, At, TypeOK, Threads, Labels, NoThread, Frames
    <2>2. (Places /\ MutualExclusion)'
      BY <1>1
         DEF Lock, Entering, Goto, At, Places, MutualExclusion, TypeOK, Threads,
             NoThread,
         Holding, CaptureLabels, ProcessingLabels, PayloadLabels, Frames
    <2>3. (CountersMatch /\ QueuesBounded)'
      BY <1>1 DEF Lock, Entering, Goto, At, CountersMatch, QueuesBounded, TypeOK
    <2>4. (TestBounded /\ TestSlack)'
      BY <1>1 DEF Lock, Entering, Goto, At, TestBounded, TestSlack, TypeOK, Threads
    <2> QED BY <2>1, <2>2, <2>3, <2>4
  <1>2. ASSUME NEW t \in Threads, Unlock(t) PROVE Inv'
    <2>1. TypeOK'
      BY <1>2 DEF Unlock, Leaving, Goto, At, TypeOK, Threads, Labels, NoThread, Frames
    <2>2. (Places /\ MutualExclusion)'
      BY <1>2, SMTT(30)
         DEF Unlock, Leaving, Goto, At, Places, MutualExclusion, TypeOK, Threads,
             NoThread,
         Holding, CaptureLabels, ProcessingLabels, PayloadLabels, Frames
    <2>3. (CountersMatch /\ QueuesBounded)'
      BY <1>2 DEF Unlock, Leaving, Goto, At, CountersMatch, QueuesBounded, TypeOK
    <2>4. (TestBounded /\ TestSlack)'
      BY <1>2 DEF Unlock, Leaving, Goto, At, TestBounded, TestSlack, TypeOK, Threads
    <2> QED BY <2>1, <2>2, <2>3, <2>4
  <1>3. ASSUME NEW t \in {"processing", "payload"}, SpuriousWakeup(t) PROVE Inv'
    <2>1. TypeOK'
      BY <1>3 DEF SpuriousWakeup, Goto, At, TypeOK, Threads, Labels, NoThread, Frames
    <2>2. (Places /\ MutualExclusion)'
      BY <1>3
         DEF SpuriousWakeup, Goto, At, Places, MutualExclusion, TypeOK, Threads,
             NoThread,
         Holding, CaptureLabels, ProcessingLabels, PayloadLabels, Frames
    <2>3. (CountersMatch /\ QueuesBounded)'
      BY <1>3 DEF SpuriousWakeup, Goto, At, CountersMatch, QueuesBounded, TypeOK
    <2>4. (TestBounded /\ TestSlack)'
      BY <1>3 DEF SpuriousWakeup, Goto, At, TestBounded, TestSlack, TypeOK, Threads
    <2> QED BY <2>1, <2>2, <2>3, <2>4
  <1>4. ASSUME OpenSocket PROVE Inv'
    <2>1. TypeOK'
      BY <1>4, SMTT(30) DEF OpenSocket, Exit, Goto, At, TypeOK, Threads, Labels, NoThread, Frames
    <2>2. (Places /\ MutualExclusion)'
      BY <1>4
         DEF OpenSocket, Exit, Goto, At, Places, MutualExclusion, TypeOK, Threads,
             NoThread,
         Holding, CaptureLabels, ProcessingLabels, PayloadLabels, Frames
    <2>3. (CountersMatch /\ QueuesBounded)'
      BY <1>4 DEF OpenSocket, Exit, Goto, At, CountersMatch, QueuesBounded, TypeOK
    <2>4. (TestBounded /\ TestSlack)'
      BY <1>4 DEF OpenSocket, Exit, Goto, At, TestBounded, TestSlack, TypeOK, Threads
    <2> QED BY <2>1, <2>2, <2>3, <2>4
  <1>5. ASSUME buffer < MaxFrames, RecvFrame(buffer + 1) PROVE Inv'
    <2>1. TypeOK'
      BY <1>5 DEF RecvFrame, Goto, At, TypeOK, Threads, Labels, NoThread, Frames
    <2>2. (Places /\ MutualExclusion)'
      BY <1>5
         DEF RecvFrame, Goto, At, Places, MutualExclusion, TypeOK, Threads, NoThread,
         Holding, CaptureLabels, ProcessingLabels, PayloadLabels, Frames
    <2>3. (CountersMatch /\ QueuesBounded)'
      BY <1>5 DEF RecvFrame, Goto, At, CountersMatch, QueuesBounded, TypeOK
    <2>4. (TestBounded /\ TestSlack)'
      BY <1>5 DEF RecvFrame, Goto, At, TestBounded, TestSlack, TypeOK, Threads
    <2> QED BY <2>1, <2>2, <2>3, <2>4
  <1>6. ASSUME RecvNothing PROVE Inv'
    <2>1. TypeOK'
      BY <1>6 DEF RecvNothing, Goto, At, TypeOK, Threads, Labels, NoThread, Frames
    <2>2. (Places /\ MutualExclusion)'
      BY <1>6
         DEF RecvNothing, Goto, At, Places, MutualExclusion, TypeOK, Threads, NoThread,
         Holding, CaptureLabels, ProcessingLabels, PayloadLabels, Frames
    <2>3. (CountersMatch /\ QueuesBounded)'
      BY <1>6 DEF RecvNothing, Goto, At, CountersMatch, QueuesBounded, TypeOK
    <2>4. (TestBounded /\ TestSlack)'
      BY <1>6 DEF RecvNothing, Goto, At, TestBounded, TestSlack, TypeOK, Threads
    <2> QED BY <2>1, <2>2, <2>3, <2>4
  <1>7. ASSUME AddItem PROVE Inv'
    <2>1. /\ temp = <<>> /\ buffer \in Frames
          /\ nmbr_itens = Len(buffer_list) /\ Len(buffer_list) <= MaxItens
      BY <1>7, AddItemFinds
    <2> DEFINE new == Linked(buffer_list, Len(buffer_list), MaxItens, buffer)
               count == LinkedCount(buffer_list, Len(buffer_list), MaxItens)
    <2>2. /\ new \in Seq(Frames) /\ Len(new) = count
          /\ count = IF Len(buffer_list) < MaxItens THEN Len(buffer_list) + 1 ELSE MaxItens
      BY <2>1, LinkedProperties DEF TypeOK
    <2>3. /\ buffer_list' = new /\ nmbr_itens' = count
          /\ UNCHANGED <<temp, packet_list, nmbr_packets, json_payload>>
      BY <1>7, <2>1 DEF AddItem
    <2> HIDE DEF new, count
    <2>4. TypeOK'
      BY <1>7, <2>1, <2>2, <2>3
         DEF AddItem, Goto, At, TypeOK, Threads, Labels, NoThread, Frames
    <2>5. (Places /\ MutualExclusion)'
      BY <1>7 DEF AddItem, Goto, At, Places, MutualExclusion, TypeOK, Threads, NoThread,
         Holding, CaptureLabels, ProcessingLabels, PayloadLabels, Frames
    <2>6. (CountersMatch /\ QueuesBounded)'
      BY <2>1, <2>2, <2>3 DEF CountersMatch, QueuesBounded, TypeOK
    <2>7. (TestBounded /\ TestSlack)'
      BY <1>7, <2>1, <2>2, <2>3
         DEF AddItem, Goto, At, TestBounded, TestSlack, TypeOK, Threads
    <2> QED BY <2>4, <2>5, <2>6, <2>7
  <1>8. ASSUME SignalProcessing PROVE Inv'
    <2>1. TypeOK'
      BY <1>8
         DEF SignalProcessing, Signal, At, TypeOK, Threads, Labels, NoThread, Frames
    <2>2. (Places /\ MutualExclusion)'
      BY <1>8
         DEF SignalProcessing, Signal, At, Places, MutualExclusion, TypeOK, Threads,
             NoThread,
         Holding, CaptureLabels, ProcessingLabels, PayloadLabels, Frames
    <2>3. (CountersMatch /\ QueuesBounded)'
      BY <1>8 DEF SignalProcessing, Signal, At, CountersMatch, QueuesBounded, TypeOK
    <2>4. (TestBounded /\ TestSlack)'
      BY <1>8 DEF SignalProcessing, Signal, At, TestBounded, TestSlack, TypeOK, Threads
    <2> QED BY <2>1, <2>2, <2>3, <2>4
  <1>9. ASSUME CheckWindow PROVE Inv'
    <2>1. /\ test \in Nat /\ nmbr_itens \in Int /\ nmbr_itens <= MaxItens
          /\ UNCHANGED <<test, nmbr_itens>>
      BY <1>9 DEF CheckWindow, TypeOK, CountersMatch, QueuesBounded
    <2>2. pc'["capture"] = "lockReset" \/ (pc'["capture"] = "recv" /\ ~(test >= MaxTest))
      BY <1>9 DEF CheckWindow, Goto, TypeOK, Threads
    <2>3. TypeOK'
      BY <1>9 DEF CheckWindow, Goto, At, TypeOK, Threads, Labels, NoThread, Frames
    <2>4. (Places /\ MutualExclusion)'
      BY <1>9
         DEF CheckWindow, Goto, At, Places, MutualExclusion, TypeOK, Threads, NoThread,
         Holding, CaptureLabels, ProcessingLabels, PayloadLabels, Frames
    <2>5. (CountersMatch /\ QueuesBounded)'
      BY <1>9 DEF CheckWindow, Goto, At, CountersMatch, QueuesBounded, TypeOK
    <2>6. (TestBounded /\ TestSlack)'
      BY <1>9, <2>1, <2>2
         DEF CheckWindow, Goto, At, TestBounded, TestSlack, TypeOK, Threads
    <2> QED BY <2>3, <2>4, <2>5, <2>6
  <1>10. ASSUME ResetTest PROVE Inv'
    <2>1. test' = 0 /\ nmbr_itens' \in Int /\ nmbr_itens' <= MaxItens
      BY <1>10 DEF ResetTest, TypeOK, CountersMatch, QueuesBounded
    <2>2. TypeOK'
      BY <1>10 DEF ResetTest, Goto, At, TypeOK, Threads, Labels, NoThread, Frames
    <2>3. (Places /\ MutualExclusion)'
      BY <1>10
         DEF ResetTest, Goto, At, Places, MutualExclusion, TypeOK, Threads, NoThread,
         Holding, CaptureLabels, ProcessingLabels, PayloadLabels, Frames
    <2>4. (CountersMatch /\ QueuesBounded)'
      BY <1>10 DEF ResetTest, Goto, At, CountersMatch, QueuesBounded, TypeOK
    <2>5. (TestBounded /\ TestSlack)'
      BY <1>10, <2>1 DEF ResetTest, Goto, At, TestBounded, TestSlack, TypeOK, Threads
    <2> QED BY <2>2, <2>3, <2>4, <2>5
  <1>11. ASSUME SignalPayload PROVE Inv'
    <2>1. TypeOK'
      BY <1>11 DEF SignalPayload, Signal, At, TypeOK, Threads, Labels, NoThread, Frames
    <2>2. (Places /\ MutualExclusion)'
      BY <1>11
         DEF SignalPayload, Signal, At, Places, MutualExclusion, TypeOK, Threads,
             NoThread,
         Holding, CaptureLabels, ProcessingLabels, PayloadLabels, Frames
    <2>3. (CountersMatch /\ QueuesBounded)'
      BY <1>11 DEF SignalPayload, Signal, At, CountersMatch, QueuesBounded, TypeOK
    <2>4. (TestBounded /\ TestSlack)'
      BY <1>11 DEF SignalPayload, Signal, At, TestBounded, TestSlack, TypeOK, Threads
    <2> QED BY <2>1, <2>2, <2>3, <2>4
  <1>12. ASSUME Tick PROVE Inv'
    <2>1. TypeOK'
      BY <1>12 DEF Tick, TypeOK, Threads, Labels, NoThread, Frames
    <2>2. (Places /\ MutualExclusion)'
      BY <1>12 DEF Tick, Places, MutualExclusion, TypeOK, Threads, NoThread,
         Holding, CaptureLabels, ProcessingLabels, PayloadLabels, Frames
    <2>3. (CountersMatch /\ QueuesBounded)'
      BY <1>12 DEF Tick, CountersMatch, QueuesBounded, TypeOK
    <2>4. (TestBounded /\ TestSlack)'
      BY <1>12 DEF Tick, TestBounded, TestSlack, TypeOK, Threads
    <2> QED BY <2>1, <2>2, <2>3, <2>4
  <1>13. ASSUME WaitForItem PROVE Inv'
    <2>1. TypeOK'
      BY <1>13
         DEF WaitForItem, Wait, Goto, At, TypeOK, Threads, Labels, NoThread, Frames
    <2>2. (Places /\ MutualExclusion)'
      BY <1>13
         DEF WaitForItem, Wait, Goto, At, Places, MutualExclusion, TypeOK, Threads,
             NoThread,
         Holding, CaptureLabels, ProcessingLabels, PayloadLabels, Frames
    <2>3. (CountersMatch /\ QueuesBounded)'
      BY <1>13 DEF WaitForItem, Wait, Goto, At, CountersMatch, QueuesBounded, TypeOK
    <2>4. (TestBounded /\ TestSlack)'
      BY <1>13 DEF WaitForItem, Wait, Goto, At, TestBounded, TestSlack, TypeOK, Threads
    <2> QED BY <2>1, <2>2, <2>3, <2>4
  <1>14. ASSUME TakeItem PROVE Inv'
    <2>1. temp = <<>> /\ buffer_list # <<>> /\ nmbr_itens = Len(buffer_list)
      BY <1>14, TakeItemFinds
    <2>2. /\ Head(buffer_list) \in Frames /\ Tail(buffer_list) \in Seq(Frames)
          /\ Len(Tail(buffer_list)) = Len(buffer_list) - 1
      BY <2>1, HeadTailProperties DEF TypeOK
    <2>3. /\ temp' = <<Head(buffer_list)>> /\ buffer_list' = Tail(buffer_list)
          /\ UNCHANGED <<nmbr_itens, packet_list, nmbr_packets, json_payload>>
      BY <1>14 DEF TakeItem
    <2>4. TypeOK'
      BY <1>14, <2>1, <2>2, <2>3
         DEF TakeItem, Goto, At, TypeOK, Threads, Labels, NoThread, Frames
    <2>5. (Places /\ MutualExclusion)'
      BY <1>14, <2>1, <2>2, <2>3
         DEF TakeItem, Goto, At, Places, MutualExclusion, TypeOK, Threads, NoThread,
         Holding, CaptureLabels, ProcessingLabels, PayloadLabels, Frames
    <2>6. (CountersMatch /\ QueuesBounded)'
      BY <2>1, <2>2, <2>3 DEF CountersMatch, QueuesBounded, TypeOK
    <2>7. (TestBounded /\ TestSlack)'
      BY <1>14 DEF TakeItem, Goto, TestBounded, TestSlack, TypeOK, Threads
    <2> QED BY <2>4, <2>5, <2>6, <2>7
  <1>15. ASSUME DiscardItem PROVE Inv'
    <2>1. Len(temp) = 1 /\ nmbr_itens = Len(buffer_list) + 1 /\ Len(buffer_list) \in Nat
      BY <1>15, LenProperties DEF DiscardItem, At, Places, CountersMatch, TypeOK
    <2>2. TypeOK'
      BY <1>15, <2>1
         DEF DiscardItem, Goto, At, TypeOK, Threads, Labels, NoThread, Frames
    <2>3. (Places /\ MutualExclusion)'
      BY <1>15
         DEF DiscardItem, Goto, At, Places, MutualExclusion, TypeOK, Threads, NoThread,
         Holding, CaptureLabels, ProcessingLabels, PayloadLabels, Frames
    <2>4. (CountersMatch /\ QueuesBounded)'
      BY <1>15, <2>1 DEF DiscardItem, Goto, At, CountersMatch, QueuesBounded, TypeOK
    <2>5. (TestBounded /\ TestSlack)'
      BY <1>15, <2>1 DEF DiscardItem, Goto, At, TestBounded, TestSlack, TypeOK, Threads
    <2> QED BY <2>2, <2>3, <2>4, <2>5
  <1>16. ASSUME ForwardItem PROVE Inv'
    <2>1. /\ Len(temp) = 1 /\ temp[1] \in Frames /\ temp = <<temp[1]>>
          /\ nmbr_packets = Len(packet_list) /\ Len(packet_list) <= MaxPackets
          /\ nmbr_itens = Len(buffer_list) + 1 /\ Len(buffer_list) \in Nat
      BY <1>16, ForwardItemFinds
    <2> DEFINE new == Linked(packet_list, Len(packet_list), MaxPackets, temp[1])
               count == LinkedCount(packet_list, Len(packet_list), MaxPackets)
    <2>2. /\ new \in Seq(Frames) /\ Len(new) = count
          /\ count = IF Len(packet_list) < MaxPackets THEN Len(packet_list) + 1 ELSE MaxPackets
      BY <2>1, LinkedProperties, SMTT(30) DEF TypeOK
    <2>3. /\ packet_list' = new /\ nmbr_packets' = count
          /\ temp' = <<>> /\ nmbr_itens' = nmbr_itens - 1
          /\ test' = test + 1
          /\ UNCHANGED <<mutex_processing, buffer, age, due, buffer_list,
                         json_payload, sent>>
      BY <1>16, <2>1 DEF ForwardItem
    <2>4. pc' = [pc EXCEPT !["processing"] = "unlock"]
      BY <1>16 DEF ForwardItem, Goto
    <2>5. <<>> \in Seq(Frames)
      BY EmptySeq
    <2> HIDE DEF new, count
    <2>6. TypeOK'
      BY <2>2, <2>3, <2>4, <2>5 DEF TypeOK, Threads, Labels, NoThread, Frames
    <2>7. (Places /\ MutualExclusion)'
      BY <1>16
         DEF ForwardItem, Goto, At, Places, MutualExclusion, TypeOK, Threads, NoThread,
         Holding, CaptureLabels, ProcessingLabels, PayloadLabels, Frames
    <2>8. (CountersMatch /\ QueuesBounded)'
      <3>1. Len(temp') = 0
        BY <2>3
      <3>2. CountersMatch'
        BY <2>1, <2>2, <2>3, <3>1 DEF CountersMatch
      <3>3. QueuesBounded'
        BY <2>1, <2>2, <2>3, <3>1 DEF QueuesBounded
      <3> QED BY <3>2, <3>3
    <2>9. (TestBounded /\ TestSlack)'
      BY <2>3, <2>4 DEF TestBounded, TestSlack, TypeOK, Threads
    <2> QED BY <2>6, <2>7, <2>8, <2>9
  <1>17. ASSUME Authenticate PROVE Inv'
    <2>1. TypeOK'
      BY <1>17
         DEF Authenticate, Exit, Goto, At, TypeOK, Threads, Labels, NoThread, Frames
    <2>2. (Places /\ MutualExclusion)'
      BY <1>17
         DEF Authenticate, Exit, Goto, At, Places, MutualExclusion, TypeOK, Threads,
             NoThread,
         Holding, CaptureLabels, ProcessingLabels, PayloadLabels, Frames
    <2>3. (CountersMatch /\ QueuesBounded)'
      BY <1>17 DEF Authenticate, Exit, Goto, At, CountersMatch, QueuesBounded, TypeOK
    <2>4. (TestBounded /\ TestSlack)'
      BY <1>17 DEF Authenticate, Exit, Goto, At, TestBounded, TestSlack, TypeOK, Threads
    <2> QED BY <2>1, <2>2, <2>3, <2>4
  <1>18. ASSUME WaitForPacket PROVE Inv'
    <2>1. TypeOK'
      BY <1>18
         DEF WaitForPacket, Wait, Goto, At, TypeOK, Threads, Labels, NoThread, Frames
    <2>2. (Places /\ MutualExclusion)'
      BY <1>18
         DEF WaitForPacket, Wait, Goto, At, Places, MutualExclusion, TypeOK, Threads,
             NoThread,
         Holding, CaptureLabels, ProcessingLabels, PayloadLabels, Frames
    <2>3. (CountersMatch /\ QueuesBounded)'
      BY <1>18 DEF WaitForPacket, Wait, Goto, At, CountersMatch, QueuesBounded, TypeOK
    <2>4. (TestBounded /\ TestSlack)'
      BY <1>18
         DEF WaitForPacket, Wait, Goto, At, TestBounded, TestSlack, TypeOK, Threads
    <2> QED BY <2>1, <2>2, <2>3, <2>4
  <1>19. ASSUME TakeBatch PROVE Inv'
    <2>1. TypeOK'
      BY <1>19 DEF TakeBatch, Goto, At, TypeOK, Threads, Labels, NoThread, Frames
    <2>2. (Places /\ MutualExclusion)'
      BY <1>19
         DEF TakeBatch, Goto, At, Places, MutualExclusion, TypeOK, Threads, NoThread,
         Holding, CaptureLabels, ProcessingLabels, PayloadLabels, Frames
    <2>3. (CountersMatch /\ QueuesBounded)'
      BY <1>19 DEF TakeBatch, Goto, At, CountersMatch, QueuesBounded, TypeOK
    <2>4. (TestBounded /\ TestSlack)'
      BY <1>19 DEF TakeBatch, Goto, At, TestBounded, TestSlack, TypeOK, Threads
    <2> QED BY <2>1, <2>2, <2>3, <2>4
  <1>20. ASSUME FinishBatch PROVE Inv'
    <2>1. json_payload[Len(json_payload)] \in Frames /\ <<>> \in Seq(Frames)
      BY <1>20, EmptySeq, ElementOfSeq DEF FinishBatch, At, Places, TypeOK
    <2>2. TypeOK'
      BY <1>20, <2>1
         DEF FinishBatch, Goto, At, TypeOK, Threads, Labels, NoThread, Frames
    <2>3. (Places /\ MutualExclusion)'
      BY <1>20
         DEF FinishBatch, Goto, At, Places, MutualExclusion, TypeOK, Threads, NoThread,
         Holding, CaptureLabels, ProcessingLabels, PayloadLabels, Frames
    <2>4. (CountersMatch /\ QueuesBounded)'
      BY <1>20 DEF FinishBatch, Goto, At, CountersMatch, QueuesBounded, TypeOK
    <2>5. (TestBounded /\ TestSlack)'
      BY <1>20 DEF FinishBatch, Goto, At, TestBounded, TestSlack, TypeOK, Threads
    <2> QED BY <2>2, <2>3, <2>4, <2>5
  <1>21. ASSUME RefusedByBackend PROVE Inv'
    <2>1. TypeOK'
      BY <1>21 DEF RefusedByBackend, Exit, At, TypeOK, Threads, Labels, NoThread, Frames
    <2>2. (Places /\ MutualExclusion)'
      BY <1>21
         DEF RefusedByBackend, Exit, At, Places, MutualExclusion, TypeOK, Threads,
             NoThread,
         Holding, CaptureLabels, ProcessingLabels, PayloadLabels, Frames
    <2>3. (CountersMatch /\ QueuesBounded)'
      BY <1>21 DEF RefusedByBackend, Exit, At, CountersMatch, QueuesBounded, TypeOK
    <2>4. (TestBounded /\ TestSlack)'
      BY <1>21 DEF RefusedByBackend, Exit, At, TestBounded, TestSlack, TypeOK, Threads
    <2> QED BY <2>1, <2>2, <2>3, <2>4
  <1>22. ASSUME UNCHANGED vars PROVE Inv'
    <2>1. TypeOK'
      BY <1>22 DEF vars, TypeOK, Threads, Labels, NoThread, Frames
    <2>2. (Places /\ MutualExclusion)'
      BY <1>22 DEF vars, Places, MutualExclusion, TypeOK, Threads, NoThread,
         Holding, CaptureLabels, ProcessingLabels, PayloadLabels, Frames
    <2>3. (CountersMatch /\ QueuesBounded)'
      BY <1>22 DEF vars, CountersMatch, QueuesBounded, TypeOK
    <2>4. (TestBounded /\ TestSlack)'
      BY <1>22 DEF vars, TestBounded, TestSlack, TypeOK, Threads
    <2> QED BY <2>1, <2>2, <2>3, <2>4
  <1> QED
    BY <1>1, <1>2, <1>3, <1>4, <1>5, <1>6, <1>7, <1>8, <1>9, <1>10, <1>11,
       <1>12, <1>13, <1>14, <1>15, <1>16, <1>17, <1>18, <1>19, <1>20, <1>21, <1>22
       DEF Next, Running, Stopped, CaptureStep, ProcessingStep, PayloadStep,
           NetworkStep, Threads

-----------------------------------------------------------------------------
(* The invariant holds in every state the program reaches.                 *)
THEOREM Invariance == Spec => []Inv
  BY InitInv, NextInv, PTL DEF Spec

(* The variables keep their types.                                         *)
THEOREM TypeCorrectness == Spec => []TypeOK
  <1>1. Inv => TypeOK
    BY DEF Inv
  <1> QED BY Invariance, <1>1, PTL

(* A thread is inside a critical section of main.c exactly while it holds  *)
(* mutex_processing.                                                       *)
THEOREM Exclusion == Spec => []MutualExclusion
  <1>1. Inv => MutualExclusion
    BY DEF Inv
  <1> QED BY Invariance, <1>1, PTL

(* nmbr_itens and nmbr_packets agree with the lists they count.            *)
THEOREM CountersAgree == Spec => []CountersMatch
  <1>1. Inv => CountersMatch
    BY DEF Inv
  <1> QED BY Invariance, <1>1, PTL

(* No queue, and no batch, exceeds the capacity of its list.               *)
THEOREM CapacityRespected == Spec => []QueuesBounded
  <1>1. Inv => QueuesBounded
    BY DEF Inv
  <1> QED BY Invariance, <1>1, PTL

(* The unlocked test of `test` in main lets the counter run past its       *)
(* threshold by no more frames than buffer_list holds.                     *)
THEOREM TestRespected == Spec => []TestBounded
  <1>1. Inv => TestBounded
    BY DEF Inv
  <1> QED BY Invariance, <1>1, PTL

-----------------------------------------------------------------------------
(* The safety half of RawQueueDrains: thread 2 sleeps on a list with a     *)
(* frame in it only while capture is on its way to the signal for that     *)
(* frame.                                                                  *)
SignalPending ==
    At("processing", "wait") /\ buffer_list # <<>> =>
        pc["capture"] \in {"unlockAdd", "signalProcessing"}

LEMMA SignalPendingStep ==
    ASSUME Inv, SignalPending, [Next]_vars
    PROVE  SignalPending'
  <1> USE DEF Inv, TypeOK, Places, SignalPending, At, Threads
  <1>1. CASE UNCHANGED vars
    BY <1>1 DEF vars, lists
  <1>2. ASSUME NEW t \in Threads, Lock(t) \/ Unlock(t) PROVE SignalPending'
    BY <1>2 DEF Lock, Unlock, Entering, Leaving, Goto, lists
  <1>3. CASE OpenSocket \/ RecvNothing \/ CheckWindow \/ ResetTest \/ Tick
    BY <1>3 DEF OpenSocket, RecvNothing, CheckWindow, ResetTest, Tick, Exit, Goto, lists
  <1>4. CASE RecvFrame(buffer + 1) \/ AddItem
    BY <1>4 DEF RecvFrame, AddItem, Goto, lists
  <1>5. CASE SignalProcessing \/ SignalPayload
    BY <1>5 DEF SignalProcessing, SignalPayload, Signal, lists
  <1>6. CASE WaitForItem
    <2>1. buffer_list = <<>>
      BY <1>6, EmptySeq DEF WaitForItem, CountersMatch
    <2> QED  BY <1>6, <2>1 DEF WaitForItem, Wait, Goto, lists
  <1>7. CASE TakeItem \/ DiscardItem \/ ForwardItem
    BY <1>7 DEF TakeItem, DiscardItem, ForwardItem, Goto
  <1>8. CASE WaitForPacket \/ TakeBatch \/ Authenticate \/ FinishBatch \/ RefusedByBackend
    BY <1>8 DEF WaitForPacket, TakeBatch, Authenticate, FinishBatch, RefusedByBackend,
                Wait, Exit, Goto, lists
  <1>9. CASE SpuriousWakeup("processing") \/ SpuriousWakeup("payload")
    BY <1>9 DEF SpuriousWakeup, Goto, lists
  <1> QED
    BY <1>1, <1>2, <1>3, <1>4, <1>5, <1>6, <1>7, <1>8, <1>9, Zenon
       DEF Next, Running, Stopped, CaptureStep, ProcessingStep, PayloadStep,
           NetworkStep

(* No signal of cond_processing is lost: whatever the interleaving, thread *)
(* 2 is not left asleep on a frame whose signal was given already          *)
(* (main.c:42-44, 283-287).                                                *)
THEOREM NoSignalLost == Spec => []SignalPending
  <1>1. Init => SignalPending
    BY DEF Init, SignalPending
  <1> QED  BY <1>1, Invariance, SignalPendingStep, PTL DEF Spec

-----------------------------------------------------------------------------
(* The same of thread 3, whose signals are lost while it is away: when it  *)
(* sleeps, each packet in its list counts in `test` for the next window,   *)
(* or capture is on its way to the signal.                                 *)
PacketsCounted ==
    At("payload", "wait") =>
        \/ Len(packet_list) <= test
        \/ pc["capture"] \in {"unlockReset", "signalPayload"}

LEMMA OnePacketMore ==
    ASSUME Inv, ForwardItem
    PROVE  /\ Len(packet_list) \in Nat /\ Len(packet_list') \in Nat
           /\ Len(packet_list') <= Len(packet_list) + 1
  <1>1. /\ temp[1] \in Frames /\ packet_list \in Seq(Frames)
        /\ nmbr_packets = Len(packet_list) /\ Len(packet_list) <= MaxPackets
        /\ packet_list' = Linked(packet_list, nmbr_packets, MaxPackets, temp[1])
    BY ForwardItemFinds DEF ForwardItem, Inv, TypeOK
  <1>2. MaxPackets \in Nat /\ MaxPackets >= 1 /\ Len(packet_list) \in Nat
    BY <1>1, LenProperties, PipelineAssumption
  <1> DEFINE new == Linked(packet_list, Len(packet_list), MaxPackets, temp[1])
  <1>3. /\ Len(new) = LinkedCount(packet_list, Len(packet_list), MaxPackets)
        /\ LinkedCount(packet_list, Len(packet_list), MaxPackets)
               = IF Len(packet_list) < MaxPackets THEN Len(packet_list) + 1 ELSE MaxPackets
    BY <1>1, <1>2, LinkedProperties
  <1>4. packet_list' = new
    BY <1>1
  <1> HIDE DEF new
  <1> QED  BY <1>1, <1>2, <1>3, <1>4

LEMMA PacketsCountedStep ==
    ASSUME Inv, PacketsCounted, [Next]_vars
    PROVE  PacketsCounted'
  <1> USE DEF Inv, TypeOK, Places, PacketsCounted, At, Threads
  <1>1. CASE UNCHANGED vars
    BY <1>1 DEF vars, lists
  <1>2. ASSUME NEW t \in Threads, Lock(t) \/ Unlock(t) PROVE PacketsCounted'
    BY <1>2 DEF Lock, Unlock, Entering, Leaving, Goto, lists
  <1>3. CASE OpenSocket \/ RecvNothing \/ CheckWindow \/ ResetTest \/ Tick
    BY <1>3 DEF OpenSocket, RecvNothing, CheckWindow, ResetTest, Tick, Exit, Goto, lists
  <1>4. CASE RecvFrame(buffer + 1) \/ AddItem
    BY <1>4 DEF RecvFrame, AddItem, Goto, lists
  <1>5. CASE SignalProcessing \/ SignalPayload
    BY <1>5 DEF SignalProcessing, SignalPayload, Signal, lists
  <1>6. CASE WaitForItem \/ TakeItem \/ DiscardItem
    BY <1>6 DEF WaitForItem, TakeItem, DiscardItem, Wait, Goto, lists
  <1>7. CASE ForwardItem
    BY <1>7, OnePacketMore DEF ForwardItem, Goto
  <1>8. CASE WaitForPacket \/ TakeBatch \/ Authenticate \/ FinishBatch \/ RefusedByBackend
    BY <1>8 DEF WaitForPacket, TakeBatch, Authenticate, FinishBatch, RefusedByBackend,
                Wait, Exit, Goto, lists
  <1>9. CASE SpuriousWakeup("processing") \/ SpuriousWakeup("payload")
    BY <1>9 DEF SpuriousWakeup, Goto, lists
  <1> QED
    BY <1>1, <1>2, <1>3, <1>4, <1>5, <1>6, <1>7, <1>8, <1>9, Zenon
       DEF Next, Running, Stopped, CaptureStep, ProcessingStep, PayloadStep,
           NetworkStep

(* No packet waits for a sleeping thread 3 that the next window does not   *)
(* count, although `test` is reset while packets may be in the list        *)
(* (main.c:62, 206-210, 289-297).                                          *)
THEOREM WaitingPacketsCount == Spec => []PacketsCounted
  <1>1. Init => PacketsCounted
    BY DEF Init, PacketsCounted, At
  <1> QED  BY <1>1, Invariance, PacketsCountedStep, PTL DEF Spec
=============================================================================
