------------------------ MODULE PipelineQueueProofs -------------------------
(***************************************************************************)
(* The pipeline as queues.  Frames keep their order of arrival: InOrder    *)
(* looks at sequences stage by stage, and is proved from OrderInv, which   *)
(* says the same of the sets of frames and adds that no frame in the lists *)
(* is newer than the one capture received last.  And the pipeline          *)
(* implements DropOldestQueues: it gives up a frame only to make room in a *)
(* full list.                                                              *)
(***************************************************************************)
EXTENDS PipelineProofs


-----------------------------------------------------------------------------
(* The order of the frames, on the sets of frames of the four stages.      *)
Elements(s) == {s[i] : i \in 1..Len(s)}

OrderInv ==
    LET J == Elements(json_payload)
        P == Elements(packet_list)
        T == Elements(temp)
        B == Elements(buffer_list)
    IN  /\ Increasing(json_payload) /\ Increasing(packet_list)
        /\ Increasing(temp) /\ Increasing(buffer_list)
        /\ sent \in 0..buffer
        /\ \A x \in J \cup P \cup T \cup B : sent < x /\ x <= buffer
        /\ \A x \in J, y \in P \cup T \cup B : x < y
        /\ \A x \in P, y \in T \cup B : x < y
        /\ \A x \in T, y \in B : x < y
        /\ pc["capture"] \in {"lockAdd", "add"} =>
               /\ sent < buffer
               /\ buffer \notin J \cup P \cup T \cup B

(* The frames of a list are numbers.                                       *)
LEMMA ElementsAreFrames ==
    ASSUME NEW s \in Seq(Frames)
    PROVE  Elements(s) \subseteq Nat
  BY PipelineAssumption, ElementOfSeq DEF Elements, Frames

(* An empty list has no frames.                                            *)
LEMMA ElementsOfEmpty == Elements(<<>>) = {}
  BY DEF Elements

(* Linking a frame newer than all of a list keeps the list in order.       *)
LEMMA LinkedOrder ==
    ASSUME NEW list \in Seq(Frames), NEW f \in Frames,
           NEW max \in Nat, max >= 1, Len(list) <= max,
           Increasing(list), \A x \in Elements(list) : x < f
    PROVE  LET new == Linked(list, Len(list), max, f)
           IN  /\ Elements(new) \subseteq Elements(list) \cup {f}
               /\ Increasing(new)
  <1> DEFINE new == Linked(list, Len(list), max, f)
             count == LinkedCount(list, Len(list), max)
             k == Len(list) + 1 - count
  <1>1. /\ new \in Seq(Frames) /\ Len(new) = count
        /\ count = IF Len(list) < max THEN Len(list) + 1 ELSE max
        /\ \A i \in 1..count - 1 : new[i] = list[i + Len(list) + 1 - count]
        /\ new[count] = f
    BY LinkedProperties
  <1>2. Len(list) \in Nat
    BY LenProperties
  <1> HIDE DEF new, count
  <1>3. count \in Nat /\ k \in {0, 1} /\ count - 1 + k = Len(list)
    <2>1. CASE Len(list) < max
      BY <2>1, <1>1, <1>2
    <2>2. CASE Len(list) = max
      BY <2>2, <1>1, <1>2
    <2> QED BY <2>1, <2>2, <1>2
  <1>4. \A i \in 1..count - 1 : i + k \in 1..Len(list) /\ new[i] = list[i + k]
    <2> SUFFICES ASSUME NEW i \in 1..count - 1
                 PROVE  i + k \in 1..Len(list) /\ new[i] = list[i + k]
      OBVIOUS
    <2>1. i + k = i + Len(list) + 1 - count
      <3> DEFINE n == Len(list)
      <3>1. n \in Nat
        BY <1>2
      <3> HIDE DEF n
      <3> QED BY <1>3, <3>1 DEF n
    <2> HIDE DEF k
    <2>2. i + k \in 1..Len(list)
      BY <1>2, <1>3
    <2> QED BY <1>1, <2>1, <2>2
  <1> HIDE DEF k
  <1>5. Elements(new) \subseteq Elements(list) \cup {f}
    <2> SUFFICES ASSUME NEW i \in 1..Len(new) PROVE new[i] \in Elements(list) \cup {f}
      BY DEF Elements
    <2>1. CASE i = count
      BY <2>1, <1>1
    <2>2. CASE i # count
      <3>1. i \in 1..count - 1
        BY <2>2, <1>1, <1>3
      <3> QED BY <3>1, <1>4 DEF Elements
    <2> QED BY <2>1, <2>2
  <1>6. Increasing(new)
    <2> SUFFICES ASSUME NEW i \in 1..Len(new), NEW j \in 1..Len(new), i < j
                 PROVE  new[i] < new[j]
      BY DEF Increasing
    <2>1. i \in 1..count - 1 /\ i + k \in 1..Len(list) /\ new[i] = list[i + k]
      BY <1>1, <1>3, <1>4
    <2>2. CASE j = count
      BY <2>1, <2>2, <1>1 DEF Elements
    <2>3. CASE j # count
      <3>1. j \in 1..count - 1 /\ j + k \in 1..Len(list) /\ new[j] = list[j + k]
        BY <2>3, <1>1, <1>3, <1>4
      <3> QED BY <2>1, <3>1, <1>3 DEF Increasing
    <2> QED BY <2>2, <2>3
  <1> QED BY <1>5, <1>6 DEF new

(* Unlinking the head of a list in order leaves a list in order, after it. *)
LEMMA TakenOrder ==
    ASSUME NEW list \in Seq(Frames), list # <<>>, Increasing(list)
    PROVE  /\ Elements(<<Head(list)>>) \subseteq Elements(list)
           /\ Elements(Tail(list)) \subseteq Elements(list)
           /\ \A x \in Elements(<<Head(list)>>), y \in Elements(Tail(list)) : x < y
           /\ Increasing(Tail(list))
  <1>1. /\ Len(list) \in Nat /\ Len(list) >= 1
        /\ Len(Tail(list)) = Len(list) - 1
        /\ \A i \in 1..Len(Tail(list)) : Tail(list)[i] = list[i + 1]
    BY HeadTailProperties, EmptySeq
  <1>2. Elements(<<Head(list)>>) = {list[1]}
    BY DEF Elements
  <1>3. \A i \in 1..Len(Tail(list)) : i + 1 \in 1..Len(list) /\ Tail(list)[i] = list[i + 1]
    BY <1>1
  <1>4. 1 \in 1..Len(list)
    BY <1>1
  <1>5. \A x \in Elements(<<Head(list)>>), y \in Elements(Tail(list)) : x < y
    <2> SUFFICES ASSUME NEW i \in 1..Len(Tail(list)) PROVE list[1] < Tail(list)[i]
      BY <1>2 DEF Elements
    <2> QED BY <1>3, <1>4 DEF Increasing
  <1>6. Increasing(Tail(list))
    <2> SUFFICES ASSUME NEW i \in 1..Len(Tail(list)), NEW j \in 1..Len(Tail(list)), i < j
                 PROVE  Tail(list)[i] < Tail(list)[j]
      BY DEF Increasing
    <2>1. i + 1 < j + 1
      OBVIOUS
    <2> QED BY <1>3, <2>1 DEF Increasing
  <1>7. Elements(<<Head(list)>>) \subseteq Elements(list)
    BY <1>2, <1>4 DEF Elements
  <1>8. Elements(Tail(list)) \subseteq Elements(list)
    BY <1>3 DEF Elements
  <1> QED BY <1>5, <1>6, <1>7, <1>8

(* An empty list is in order.                                              *)
LEMMA EmptyIncreasing == Increasing(<<>>)
  BY DEF Increasing

(* The order holds when main starts its threads.                           *)
LEMMA OrderInvInit == Init => OrderInv
  BY ElementsOfEmpty DEF Init, OrderInv, Increasing, Threads

(* A step that leaves the lists alone, and capture where it has the same   *)
(* frame in hand or none, changes nothing of the order.                    *)
LEMMA OrderUnchanged ==
    ASSUME OrderInv,
           UNCHANGED <<buffer, buffer_list, temp, packet_list, json_payload, sent>>,
           pc'["capture"] \in {"lockAdd", "add"} => pc["capture"] \in {"lockAdd", "add"}
    PROVE  OrderInv'
  BY DEF OrderInv

(* Every step of every thread preserves the order.                         *)
LEMMA OrderInvStep == Inv /\ OrderInv /\ [Next]_vars => OrderInv'
  <1> SUFFICES ASSUME Inv, OrderInv, [Next]_vars PROVE OrderInv'
    OBVIOUS
  <1> USE PipelineAssumption DEF Inv, clock, lists, batches
  <1>1. ASSUME NEW t \in Threads, Lock(t) PROVE OrderInv'
    BY <1>1, OrderUnchanged DEF Lock, Entering, Goto, At, TypeOK, Threads
  <1>2. ASSUME NEW t \in Threads, Unlock(t) PROVE OrderInv'
    BY <1>2, OrderUnchanged DEF Unlock, Leaving, Goto, At, TypeOK, Threads
  <1>3. ASSUME NEW t \in {"processing", "payload"}, SpuriousWakeup(t) PROVE OrderInv'
    BY <1>3, OrderUnchanged DEF SpuriousWakeup, Goto, At, TypeOK, Threads
  <1>4. ASSUME OpenSocket PROVE OrderInv'
    BY <1>4, OrderUnchanged DEF OpenSocket, Exit, Goto, At, TypeOK, Threads
  <1>5. ASSUME buffer < MaxFrames, RecvFrame(buffer + 1) PROVE OrderInv'
    <2>1. /\ buffer \in Nat /\ buffer' = buffer + 1
          /\ UNCHANGED <<buffer_list, temp, packet_list, json_payload, sent>>
      BY <1>5 DEF RecvFrame, TypeOK
    <2>2. /\ Elements(json_payload) \subseteq Nat /\ Elements(packet_list) \subseteq Nat
          /\ Elements(temp) \subseteq Nat /\ Elements(buffer_list) \subseteq Nat
      BY ElementsAreFrames DEF TypeOK
    <2> QED BY <2>1, <2>2 DEF OrderInv
  <1>6. ASSUME RecvNothing PROVE OrderInv'
    BY <1>6, OrderUnchanged DEF RecvNothing, Goto, At, TypeOK, Threads
  <1>7. ASSUME AddItem PROVE OrderInv'
    <2> DEFINE new == Linked(buffer_list, Len(buffer_list), MaxItens, buffer)
    <2>1. /\ temp = <<>> /\ buffer \in Frames
          /\ nmbr_itens = Len(buffer_list) /\ Len(buffer_list) <= MaxItens
      BY <1>7, AddItemFinds
    <2>2. /\ buffer_list' = new /\ pc'["capture"] = "unlockAdd"
          /\ UNCHANGED <<buffer, temp, packet_list, json_payload, sent>>
      BY <1>7, <2>1 DEF AddItem, Goto, TypeOK, Threads
    <2>3. Elements(buffer_list) \subseteq Nat /\ buffer \in Nat
      BY ElementsAreFrames DEF TypeOK
    <2>4. \A x \in Elements(buffer_list) : x < buffer
      BY <1>7, <2>3 DEF OrderInv, AddItem, At
    <2>5. Elements(new) \subseteq Elements(buffer_list) \cup {buffer} /\ Increasing(new)
      BY <2>1, <2>4, LinkedOrder DEF OrderInv, TypeOK
    <2>6. /\ Elements(json_payload) \subseteq Nat /\ Elements(packet_list) \subseteq Nat
          /\ Elements(temp) = {}
      BY <2>1, ElementsAreFrames, ElementsOfEmpty DEF TypeOK
    <2> HIDE DEF new
    <2>7. sent < buffer /\ buffer \notin Elements(json_payload) \cup Elements(packet_list)
      BY <1>7 DEF OrderInv, AddItem, At
    <2> QED BY <2>2, <2>3, <2>5, <2>6, <2>7 DEF OrderInv
  <1>8. ASSUME SignalProcessing PROVE OrderInv'
    BY <1>8, OrderUnchanged DEF SignalProcessing, Signal, At, TypeOK, Threads
  <1>9. ASSUME CheckWindow PROVE OrderInv'
    BY <1>9, OrderUnchanged DEF CheckWindow, Goto, At, TypeOK, Threads
  <1>10. ASSUME ResetTest PROVE OrderInv'
    BY <1>10, OrderUnchanged DEF ResetTest, Goto, At, TypeOK, Threads
  <1>11. ASSUME SignalPayload PROVE OrderInv'
    BY <1>11, OrderUnchanged DEF SignalPayload, Signal, At, TypeOK, Threads
  <1>12. ASSUME Tick PROVE OrderInv'
    BY <1>12, OrderUnchanged DEF Tick
  <1>13. ASSUME WaitForItem PROVE OrderInv'
    BY <1>13, OrderUnchanged DEF WaitForItem, Wait, Goto, At, TypeOK, Threads
  <1>14. ASSUME TakeItem PROVE OrderInv'
    <2>1. temp = <<>> /\ buffer_list # <<>>
      BY <1>14, TakeItemFinds
    <2>2. /\ temp' = <<Head(buffer_list)>> /\ buffer_list' = Tail(buffer_list)
          /\ pc'["capture"] = pc["capture"]
          /\ UNCHANGED <<buffer, packet_list, json_payload, sent>>
      BY <1>14 DEF TakeItem, Goto, TypeOK, Threads
    <2>3. Increasing(<<Head(buffer_list)>>)
      BY DEF Increasing
    <2>4. /\ Elements(temp') \subseteq Elements(buffer_list)
          /\ Elements(buffer_list') \subseteq Elements(buffer_list)
          /\ \A x \in Elements(temp'), y \in Elements(buffer_list') : x < y
          /\ Increasing(temp') /\ Increasing(buffer_list')
      BY <2>3, <2>1, <2>2, TakenOrder DEF OrderInv, TypeOK
    <2> QED BY <2>2, <2>4 DEF OrderInv
  <1>15. ASSUME DiscardItem PROVE OrderInv'
    <2>1. /\ temp' = <<>> /\ pc'["capture"] = pc["capture"]
          /\ UNCHANGED <<buffer, buffer_list, packet_list, json_payload, sent>>
      BY <1>15 DEF DiscardItem, Goto, TypeOK, Threads
    <2> QED BY <2>1, EmptyIncreasing, ElementsOfEmpty DEF OrderInv
  <1>16. ASSUME ForwardItem PROVE OrderInv'
    <2> DEFINE new == Linked(packet_list, Len(packet_list), MaxPackets, temp[1])
    <2>1. /\ Len(temp) = 1 /\ temp[1] \in Frames
          /\ nmbr_packets = Len(packet_list) /\ Len(packet_list) <= MaxPackets
      BY <1>16, ForwardItemFinds
    <2>2. /\ packet_list' = new /\ temp' = <<>> /\ pc'["capture"] = pc["capture"]
          /\ UNCHANGED <<buffer, buffer_list, json_payload, sent>>
      BY <1>16, <2>1 DEF ForwardItem, Goto, TypeOK, Threads
    <2>3. temp[1] \in Elements(temp)
      BY <2>1 DEF Elements
    <2>4. \A x \in Elements(packet_list) : x < temp[1]
      BY <2>3 DEF OrderInv
    <2>5. Elements(new) \subseteq Elements(packet_list) \cup Elements(temp) /\ Increasing(new)
      BY <2>1, <2>3, <2>4, LinkedOrder DEF OrderInv, TypeOK
    <2> HIDE DEF new
    <2> QED BY <2>2, <2>5, EmptyIncreasing, ElementsOfEmpty DEF OrderInv
  <1>17. ASSUME Authenticate PROVE OrderInv'
    BY <1>17, OrderUnchanged DEF Authenticate, Exit, Goto, At, TypeOK, Threads
  <1>18. ASSUME WaitForPacket PROVE OrderInv'
    BY <1>18, OrderUnchanged DEF WaitForPacket, Wait, Goto, At, TypeOK, Threads
  <1>19. ASSUME TakeBatch PROVE OrderInv'
    <2>1. /\ json_payload' = packet_list /\ packet_list' = <<>>
          /\ pc'["capture"] = pc["capture"]
          /\ UNCHANGED <<buffer, buffer_list, temp, sent>>
      BY <1>19 DEF TakeBatch, Goto, TypeOK, Threads
    <2> QED BY <2>1, EmptyIncreasing, ElementsOfEmpty DEF OrderInv
  <1>20. ASSUME FinishBatch PROVE OrderInv'
    <2>1. /\ sent' = json_payload[Len(json_payload)] /\ json_payload' = <<>>
          /\ pc'["capture"] = pc["capture"]
          /\ UNCHANGED <<buffer, buffer_list, temp, packet_list>>
      BY <1>20 DEF FinishBatch, Goto, TypeOK, Threads
    <2>2. Len(json_payload) \in 1..Len(json_payload)
      BY <1>20, EmptySeq DEF FinishBatch, At, Places, TypeOK
    <2>3. sent' \in Elements(json_payload) /\ sent' \in Nat
      BY <2>1, <2>2, ElementsAreFrames DEF Elements, TypeOK
    <2>4. buffer \in Nat
      BY DEF TypeOK
    <2> QED BY <2>1, <2>3, <2>4, EmptyIncreasing, ElementsOfEmpty DEF OrderInv
  <1>21. ASSUME RefusedByBackend PROVE OrderInv'
    BY <1>21, OrderUnchanged DEF RefusedByBackend, Exit, At, TypeOK, Threads
  <1>22. ASSUME UNCHANGED vars PROVE OrderInv'
    BY <1>22, OrderUnchanged DEF vars
  <1> QED
    BY <1>1, <1>2, <1>3, <1>4, <1>5, <1>6, <1>7, <1>8, <1>9, <1>10, <1>11,
       <1>12, <1>13, <1>14, <1>15, <1>16, <1>17, <1>18, <1>19, <1>20, <1>21, <1>22
       DEF Next, Running, Stopped, CaptureStep, ProcessingStep, PayloadStep,
           NetworkStep, Threads

(* The order on sets of frames is the order of the stages.                 *)
LEMMA OrderInvIsInOrder == Inv /\ OrderInv => InOrder
  <1> SUFFICES ASSUME Inv, OrderInv PROVE InOrder
    OBVIOUS
  <1> DEFINE J == Elements(json_payload)
             P == Elements(packet_list)
             T == Elements(temp)
             B == Elements(buffer_list)
             H == Elements(InHand)
  <1>1. /\ Stages[1] = json_payload /\ Stages[2] = packet_list /\ Stages[3] = temp
        /\ Stages[4] = buffer_list /\ Stages[5] = InHand
    BY DEF Stages
  <1>2. ASSUME NEW s, NEW t, \A x \in Elements(s), y \in Elements(t) : x < y
        PROVE  Before(s, t)
    BY <1>2 DEF Elements, Before
  <1>3. /\ J \subseteq Nat /\ P \subseteq Nat /\ T \subseteq Nat /\ B \subseteq Nat
        /\ buffer \in Nat /\ sent \in Nat
    BY ElementsAreFrames DEF Inv, TypeOK
  <1>4. H = IF pc["capture"] \in {"lockAdd", "add"} THEN {buffer} ELSE {}
    BY DEF InHand, Elements
  <1>5. Elements(<<sent>>) = {sent}
    BY DEF Elements
  <1>6. \A a \in 1..5 : Increasing(Stages[a])
    <2>1. Increasing(InHand)
      BY DEF InHand, Increasing
    <2> QED BY <1>1, <2>1 DEF OrderInv
  <1>7. \A a, b \in 1..5 : a < b => Before(Stages[a], Stages[b])
    <2>1. \A x \in J \cup P \cup T \cup B, y \in H : x < y
      BY <1>3, <1>4 DEF OrderInv
    <2>2. Before(json_payload, packet_list) /\ Before(json_payload, temp)
          /\ Before(json_payload, buffer_list) /\ Before(json_payload, InHand)
      BY <1>2, <2>1 DEF OrderInv
    <2>3. Before(packet_list, temp) /\ Before(packet_list, buffer_list)
          /\ Before(packet_list, InHand)
      BY <1>2, <2>1 DEF OrderInv
    <2>4. Before(temp, buffer_list) /\ Before(temp, InHand) /\ Before(buffer_list, InHand)
      BY <1>2, <2>1 DEF OrderInv
    <2> QED BY <1>1, <2>2, <2>3, <2>4
  <1>8. \A a \in 1..5 : Before(<<sent>>, Stages[a])
    <2>1. \A x \in {sent}, y \in J \cup P \cup T \cup B \cup H : x < y
      BY <1>3, <1>4 DEF OrderInv
    <2>2. /\ Before(<<sent>>, json_payload) /\ Before(<<sent>>, packet_list)
          /\ Before(<<sent>>, temp) /\ Before(<<sent>>, buffer_list)
          /\ Before(<<sent>>, InHand)
      BY <1>2, <1>5, <2>1
    <2> QED BY <1>1, <2>2
  <1> QED BY <1>6, <1>7, <1>8 DEF InOrder

-----------------------------------------------------------------------------
(* The order holds in every state the program reaches.                     *)
THEOREM OrderInvariance == Spec => []OrderInv
  BY Invariance, OrderInvInit, OrderInvStep, PTL DEF Spec

(* No frame is duplicated, overtakes another or comes back once its batch  *)
(* is done with, whatever the interleaving of the three threads.           *)
THEOREM ArrivalOrder == Spec => []InOrder
  BY Invariance, OrderInvariance, OrderInvIsInOrder, PTL


-----------------------------------------------------------------------------
(* The insertions of the code are the Push of the abstract queues.         *)
LEMMA LinkedIsPush ==
    ASSUME NEW S, NEW list \in Seq(S), NEW f \in S,
           NEW max \in Nat, max >= 1, Len(list) <= max
    PROVE  Linked(list, Len(list), max, f) = Queues!Push(list, max, f)
  <1>1. CASE list = <<>>
    BY <1>1 DEF Linked, Queues!Push
  <1>2. CASE list # <<>> /\ Len(list) < max
    <2>1. Surplus(Len(list), max) + 1 = 1
      BY <1>2, SurplusOfFull, LenProperties
    <2>2. SubSeq(list, 1, Len(list)) = list
      BY SubSeqFull
    <2> QED BY <1>2, <2>1, <2>2 DEF Linked, Queues!Push
  <1>3. CASE list # <<>> /\ Len(list) = max
    <2>1. Surplus(Len(list), max) + 1 = 2
      BY <1>3, SurplusOfFull, LenProperties
    <2>2. Tail(list) = SubSeq(list, 2, Len(list))
      BY <1>3, TailIsSubSeq
    <2> QED BY <1>3, <2>1, <2>2 DEF Linked, Queues!Push
  <1> QED BY <1>1, <1>2, <1>3, LenProperties

(* While thread 2 parses a frame, that frame is the head of the raw queue. *)
LEMMA RawHead ==
    ASSUME Inv, pc["processing"] = "parse"
    PROVE  /\ temp \o buffer_list # <<>>
           /\ Head(temp \o buffer_list) = temp[1]
           /\ Tail(temp \o buffer_list) = buffer_list
           /\ <<>> \o buffer_list = buffer_list
  <1> DEFINE raw == temp \o buffer_list
  <1>1. temp \in Seq(Frames) /\ buffer_list \in Seq(Frames) /\ Len(temp) = 1
    BY DEF Inv, TypeOK, Places
  <1>2. /\ raw \in Seq(Frames) /\ Len(raw) = Len(buffer_list) + 1
        /\ \A i \in 1..Len(buffer_list) + 1 :
              raw[i] = IF i <= 1 THEN temp[i] ELSE buffer_list[i - 1]
    BY <1>1, ConcatProperties
  <1>3. Len(buffer_list) \in Nat
    BY <1>1, LenProperties
  <1> HIDE DEF raw
  <1>4. raw # <<>> /\ raw[1] = temp[1]
    BY <1>2, <1>3
  <1>5. /\ Tail(raw) \in Seq(Frames) /\ Len(Tail(raw)) = Len(buffer_list)
        /\ \A i \in 1..Len(buffer_list) : Tail(raw)[i] = raw[i + 1]
    BY <1>2, <1>3, <1>4, HeadTailProperties
  <1>6. \A i \in 1..Len(Tail(raw)) : Tail(raw)[i] = buffer_list[i]
    BY <1>2, <1>3, <1>5
  <1>7. Tail(raw) = buffer_list
    BY <1>1, <1>5, <1>6, SeqEqual
  <1>8. Head(raw) = raw[1]
    BY <1>2, <1>4
  <1> QED BY <1>1, <1>4, <1>7, <1>8, ConcatEmptySeq DEF raw

(* The queues of the abstract specification.                               *)

(* Empty lists are empty queues.                                           *)
LEMMA QueuesInit == Init => Queues!Init
  BY ConcatEmptySeq, EmptySeq DEF Init, Queues!Init

(* A step that leaves the lists alone is a stutter of the queues.          *)
LEMMA QueuesUnchanged ==
    ASSUME UNCHANGED <<buffer_list, temp, packet_list, json_payload>>
    PROVE  UNCHANGED Queues!vars
  BY DEF Queues!vars

(* Every step of every thread is a step of the queues or leaves them       *)
(* alone.                                                                  *)
LEMMA QueuesStep == Inv /\ [Next]_vars => [Queues!Next]_(Queues!vars)
  <1> SUFFICES ASSUME Inv, [Next]_vars PROVE Queues!Next \/ UNCHANGED Queues!vars
    OBVIOUS
  <1> USE PipelineAssumption DEF Inv, clock, lists, batches
  <1>1. ASSUME AddItem PROVE Queues!Next
    <2>1. /\ temp = <<>> /\ buffer \in Frames
          /\ nmbr_itens = Len(buffer_list) /\ Len(buffer_list) <= MaxItens
      BY <1>1, AddItemFinds
    <2> DEFINE new == Linked(buffer_list, Len(buffer_list), MaxItens, buffer)
    <2>2. new = Queues!Push(buffer_list, MaxItens, buffer) /\ new \in Seq(Frames)
      BY <2>1, LinkedIsPush, LinkedProperties DEF TypeOK
    <2>3. /\ buffer_list' = new
          /\ UNCHANGED <<temp, packet_list, json_payload>>
      BY <1>1, <2>1 DEF AddItem
    <2> HIDE DEF new
    <2>4. temp \o buffer_list = buffer_list /\ temp' \o buffer_list' = new
      BY <2>1, <2>2, <2>3, ConcatEmptySeq DEF TypeOK
    <2>5. Queues!Capture(buffer)
      BY <2>2, <2>3, <2>4 DEF Queues!Capture
    <2> QED BY <2>1, <2>5 DEF Queues!Next
  <1>2. ASSUME TakeItem PROVE UNCHANGED Queues!vars
    <2>1. temp = <<>> /\ buffer_list # <<>>
      BY <1>2, TakeItemFinds
    <2>2. /\ temp' = <<Head(buffer_list)>> /\ buffer_list' = Tail(buffer_list)
          /\ UNCHANGED <<packet_list, json_payload>>
      BY <1>2 DEF TakeItem
    <2>3. temp \o buffer_list = buffer_list
      BY <2>1, ConcatEmptySeq DEF TypeOK
    <2>4. <<Head(buffer_list)>> \o Tail(buffer_list) = buffer_list
      <3>1. /\ Len(buffer_list) \in Nat /\ Len(buffer_list) >= 1
        BY <2>1, EmptySeq DEF TypeOK
      <3>2. SubSeq(buffer_list, 1, Len(buffer_list))
               = <<buffer_list[1]>> \o SubSeq(buffer_list, 2, Len(buffer_list))
        BY <3>1, SubSeqRecursiveFirst DEF TypeOK
      <3> QED BY <2>1, <3>2, SubSeqFull, TailIsSubSeq DEF TypeOK
    <2> QED BY <2>2, <2>3, <2>4 DEF Queues!vars
  <1>3. ASSUME DiscardItem PROVE Queues!Next
    <2>1. pc["processing"] = "parse"
      BY <1>3 DEF DiscardItem, At
    <2>2. /\ temp' = <<>>
          /\ UNCHANGED <<buffer_list, packet_list, json_payload>>
      BY <1>3 DEF DiscardItem
    <2>3. /\ temp \o buffer_list # <<>> /\ Tail(temp \o buffer_list) = buffer_list
          /\ temp' \o buffer_list' = buffer_list
      BY <2>1, <2>2, RawHead
    <2> QED BY <2>2, <2>3 DEF Queues!Next, Queues!Discard
  <1>4. ASSUME ForwardItem PROVE Queues!Next
    <2>1. /\ pc["processing"] = "parse" /\ temp[1] \in Frames
          /\ nmbr_packets = Len(packet_list) /\ Len(packet_list) <= MaxPackets
      BY <1>4, ForwardItemFinds DEF ForwardItem, At
    <2>2. packet_list' = Queues!Push(packet_list, MaxPackets, temp[1])
      BY <1>4, <2>1, LinkedIsPush DEF ForwardItem, TypeOK
    <2>3. temp' = <<>> /\ UNCHANGED <<buffer_list, json_payload>>
      BY <1>4 DEF ForwardItem
    <2>4. /\ temp \o buffer_list # <<>> /\ Tail(temp \o buffer_list) = buffer_list
          /\ Head(temp \o buffer_list) = temp[1] /\ temp' \o buffer_list' = buffer_list
      BY <2>1, <2>3, RawHead
    <2> QED BY <2>2, <2>3, <2>4 DEF Queues!Next, Queues!Forward
  <1>5. ASSUME TakeBatch PROVE Queues!Next
    BY <1>5 DEF TakeBatch, Queues!Next, Queues!TakeBatch
  <1>6. ASSUME FinishBatch PROVE Queues!Next
    BY <1>6 DEF FinishBatch, At, Places, Queues!Next, Queues!ReleaseBatch
  <1>7. ASSUME NEW t \in Threads, Lock(t) \/ Unlock(t) \/ SpuriousWakeup(t)
        PROVE  UNCHANGED Queues!vars
    BY <1>7, QueuesUnchanged DEF Lock, Unlock, SpuriousWakeup
  <1>8. ASSUME \/ OpenSocket \/ RecvFrame(buffer + 1) \/ RecvNothing \/ SignalProcessing
               \/ CheckWindow \/ ResetTest \/ SignalPayload \/ Tick
        PROVE  UNCHANGED Queues!vars
    BY <1>8, QueuesUnchanged DEF OpenSocket, Exit, RecvFrame, RecvNothing,
       SignalProcessing, CheckWindow, ResetTest, SignalPayload, Tick
  <1>9. ASSUME \/ WaitForItem \/ Authenticate \/ WaitForPacket
               \/ RefusedByBackend \/ UNCHANGED vars
        PROVE  UNCHANGED Queues!vars
    BY <1>9, QueuesUnchanged DEF WaitForItem, Wait, Authenticate, Exit,
       WaitForPacket, RefusedByBackend, vars
  <1> QED
    BY <1>1, <1>2, <1>3, <1>4, <1>5, <1>6, <1>7, <1>8, <1>9
       DEF Next, Running, Stopped, CaptureStep, ProcessingStep, PayloadStep,
           NetworkStep, Threads

(* The three threads, with their lists, counters, mutex and signals,       *)
(* implement the drop-oldest queues.                                       *)
THEOREM Refinement == Spec => ImplementsQueues
  <1>1. Spec => Queues!Init /\ [][Queues!Next]_(Queues!vars)
    BY Invariance, QueuesInit, QueuesStep, PTL DEF Spec
  <1> QED BY <1>1 DEF ImplementsQueues, Queues!Spec

-----------------------------------------------------------------------------
(* Nothing is lost from a list of which every element is still there.      *)
LEMMA NotLost ==
    ASSUME NEW s, NEW t, Elements(s) \subseteq Elements(t)
    PROVE  ~Lost(s, t)
  BY DEF Lost, Elements

(* A concatenation has the frames of both its parts.                       *)
LEMMA ElementsOfConcat ==
    ASSUME NEW s \in Seq(Frames), NEW t \in Seq(Frames)
    PROVE  Elements(s) \subseteq Elements(s \o t) /\ Elements(t) \subseteq Elements(s \o t)
  <1>1. /\ Len(s \o t) = Len(s) + Len(t) /\ Len(s) \in Nat /\ Len(t) \in Nat
        /\ \A i \in 1..Len(s) + Len(t) :
              (s \o t)[i] = IF i <= Len(s) THEN s[i] ELSE t[i - Len(s)]
    BY ConcatProperties, LenProperties
  <1>2. ASSUME NEW i \in 1..Len(s)
        PROVE  s[i] \in Elements(s \o t)
    <2>1. i \in 1..Len(s) + Len(t) /\ (s \o t)[i] = s[i]
      BY <1>1
    <2> QED BY <1>1, <2>1 DEF Elements
  <1>3. ASSUME NEW i \in 1..Len(t)
        PROVE  t[i] \in Elements(s \o t)
    <2>1. /\ Len(s) + i \in 1..Len(s) + Len(t) /\ ~(Len(s) + i <= Len(s))
          /\ (Len(s) + i) - Len(s) = i
      BY <1>1
    <2>2. (s \o t)[Len(s) + i] = t[i]
      BY <1>1, <2>1
    <2> QED BY <1>1, <2>1, <2>2 DEF Elements
  <1> QED BY <1>2, <1>3 DEF Elements

(* A list below its capacity keeps every frame when one is linked.         *)
LEMMA LinkedKeeps ==
    ASSUME NEW list \in Seq(Frames), NEW f \in Frames,
           NEW max \in Nat, max >= 1, Len(list) < max
    PROVE  Elements(list) \subseteq Elements(Linked(list, Len(list), max, f))
  <1> DEFINE new == Linked(list, Len(list), max, f)
             count == LinkedCount(list, Len(list), max)
  <1>1. Len(list) \in Nat /\ Len(list) <= max
    BY LenProperties
  <1>2. /\ Len(new) = count /\ count = Len(list) + 1
        /\ \A i \in 1..count - 1 : new[i] = list[i + Len(list) + 1 - count]
    BY <1>1, LinkedProperties
  <1> HIDE DEF new, count
  <1>3. ASSUME NEW i \in 1..Len(list) PROVE list[i] \in Elements(new)
    <2>1. i \in 1..count - 1 /\ i + Len(list) + 1 - count = i
      BY <1>1, <1>2
    <2>2. new[i] = list[i] /\ i \in 1..Len(new)
      BY <1>1, <1>2, <2>1
    <2> QED BY <2>2 DEF Elements
  <1> QED BY <1>3 DEF Elements, new

(* A step that leaves each list alone, or finds it full, loses nothing it  *)
(* should not.                                                             *)
LEMMA LossUnchanged ==
    ASSUME Inv, Inv',
           UNCHANGED buffer_list \/ Len(buffer_list) = MaxItens,
           UNCHANGED packet_list \/ Len(packet_list) = MaxPackets
    PROVE  LossStep
  BY NotLost, ElementsOfConcat DEF LossStep, Inv, TypeOK

(* No step of any thread gives a frame up below the capacity.              *)
LEMMA LossOnlyWhenFullStep == Inv /\ Inv' /\ [Next]_vars => [LossStep]_vars
  <1> SUFFICES ASSUME Inv, Inv', [Next]_vars PROVE LossStep \/ UNCHANGED vars
    OBVIOUS
  <1> USE PipelineAssumption DEF clock, lists, batches
  <1>1. ASSUME AddItem PROVE LossStep
    <2>1. /\ buffer \in Frames
          /\ nmbr_itens = Len(buffer_list) /\ Len(buffer_list) <= MaxItens
      BY <1>1, AddItemFinds
    <2>2. /\ buffer_list' = Linked(buffer_list, Len(buffer_list), MaxItens, buffer)
          /\ UNCHANGED packet_list
      BY <1>1, <2>1 DEF AddItem
    <2>3. CASE Len(buffer_list) = MaxItens
      BY <2>2, <2>3, LossUnchanged
    <2>4. CASE Len(buffer_list) < MaxItens
      <3>1. Elements(buffer_list) \subseteq Elements(buffer_list' \o temp')
        BY <2>1, <2>2, <2>4, LinkedKeeps, ElementsOfConcat DEF Inv, TypeOK
      <3>2. Elements(packet_list) \subseteq Elements(packet_list' \o json_payload')
        BY <2>2, ElementsOfConcat DEF Inv, TypeOK
      <3> QED BY <3>1, <3>2, NotLost DEF LossStep
    <2> QED BY <2>1, <2>3, <2>4, LenProperties DEF Inv, TypeOK
  <1>2. ASSUME TakeItem PROVE LossStep
    <2>1. buffer_list # <<>>
      BY <1>2, TakeItemFinds
    <2>2. /\ temp' = <<Head(buffer_list)>> /\ buffer_list' = Tail(buffer_list)
          /\ UNCHANGED packet_list
      BY <1>2 DEF TakeItem
    <2>3. Elements(buffer_list) \subseteq Elements(buffer_list') \cup Elements(temp')
      <3>1. /\ Len(buffer_list) \in Nat /\ Len(Tail(buffer_list)) = Len(buffer_list) - 1
            /\ \A i \in 1..Len(Tail(buffer_list)) : Tail(buffer_list)[i] = buffer_list[i + 1]
        BY <2>1, HeadTailProperties, LenProperties DEF Inv, TypeOK
      <3>2. buffer_list[1] \in Elements(temp')
        BY <2>2 DEF Elements
      <3>3. ASSUME NEW i \in 1..Len(buffer_list), i # 1
            PROVE  buffer_list[i] \in Elements(buffer_list')
        <4>1. i - 1 \in 1..Len(Tail(buffer_list)) /\ (i - 1) + 1 = i
          BY <3>1, <3>3
        <4> QED BY <2>2, <3>1, <4>1 DEF Elements
      <3> QED BY <3>2, <3>3 DEF Elements
    <2>4. Elements(buffer_list) \subseteq Elements(buffer_list' \o temp')
      BY <2>3, ElementsOfConcat DEF Inv, TypeOK
    <2>5. Elements(packet_list) \subseteq Elements(packet_list' \o json_payload')
      BY <2>2, ElementsOfConcat DEF Inv, TypeOK
    <2> QED BY <2>4, <2>5, NotLost DEF LossStep
  <1>3. ASSUME ForwardItem PROVE LossStep
    <2>1. /\ temp[1] \in Frames
          /\ nmbr_packets = Len(packet_list) /\ Len(packet_list) <= MaxPackets
      BY <1>3, ForwardItemFinds
    <2>2. /\ packet_list' = Linked(packet_list, Len(packet_list), MaxPackets, temp[1])
          /\ UNCHANGED buffer_list
      BY <1>3, <2>1 DEF ForwardItem
    <2>3. CASE Len(packet_list) = MaxPackets
      BY <2>2, <2>3, LossUnchanged
    <2>4. CASE Len(packet_list) < MaxPackets
      <3>1. Elements(packet_list) \subseteq Elements(packet_list' \o json_payload')
        BY <2>1, <2>2, <2>4, LinkedKeeps, ElementsOfConcat DEF Inv, TypeOK
      <3>2. Elements(buffer_list) \subseteq Elements(buffer_list' \o temp')
        BY <2>2, ElementsOfConcat DEF Inv, TypeOK
      <3> QED BY <3>1, <3>2, NotLost DEF LossStep
    <2> QED BY <2>1, <2>3, <2>4, LenProperties DEF Inv, TypeOK
  <1>4. ASSUME TakeBatch PROVE LossStep
    <2>1. json_payload' = packet_list /\ UNCHANGED buffer_list
      BY <1>4 DEF TakeBatch
    <2>2. Elements(packet_list) \subseteq Elements(packet_list' \o json_payload')
      BY <2>1, ElementsOfConcat DEF Inv, TypeOK
    <2>3. Elements(buffer_list) \subseteq Elements(buffer_list' \o temp')
      BY <2>1, ElementsOfConcat DEF Inv, TypeOK
    <2> QED BY <2>2, <2>3, NotLost DEF LossStep
  <1>5. ASSUME NEW t \in Threads, Lock(t) \/ Unlock(t) \/ SpuriousWakeup(t)
        PROVE  LossStep
    BY <1>5, LossUnchanged DEF Lock, Unlock, SpuriousWakeup
  <1>6. ASSUME \/ OpenSocket \/ RecvFrame(buffer + 1) \/ RecvNothing \/ SignalProcessing
               \/ CheckWindow \/ ResetTest \/ SignalPayload \/ Tick
        PROVE  LossStep
    BY <1>6, LossUnchanged DEF OpenSocket, Exit, RecvFrame, RecvNothing,
       SignalProcessing, CheckWindow, ResetTest, SignalPayload, Tick
  <1>7. ASSUME \/ WaitForItem \/ DiscardItem \/ Authenticate \/ WaitForPacket
               \/ FinishBatch \/ RefusedByBackend
        PROVE  LossStep
    BY <1>7, LossUnchanged DEF WaitForItem, Wait, DiscardItem, Authenticate, Exit,
       WaitForPacket, FinishBatch, RefusedByBackend
  <1> QED
    BY <1>1, <1>2, <1>3, <1>4, <1>5, <1>6, <1>7
       DEF Next, Running, Stopped, CaptureStep, ProcessingStep, PayloadStep,
           NetworkStep, Threads

(* A list gives up a frame only when it is at its capacity.                *)
THEOREM LossDiscipline == Spec => LossOnlyWhenFull
  <1>1. Spec => [][LossStep]_vars
    BY Invariance, LossOnlyWhenFullStep, PTL DEF Spec
  <1> QED BY <1>1 DEF LossOnlyWhenFull
=============================================================================
