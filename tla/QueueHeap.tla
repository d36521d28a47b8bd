----------------------------- MODULE QueueHeap ------------------------------
(***************************************************************************)
(* The two linked lists of the client at the level of pointers: the nodes  *)
(* of src/buffer_list.c and src/packet_list.c, the packet structures that  *)
(* thread 2 allocates, and the head, tail and working pointers that        *)
(* src/main.c keeps.  One step is one allocation, one free or one group of *)
(* pointer assignments.  Every operation runs under mutex_processing (see  *)
(* Pipeline, MutualExclusion), so one operation is under way at a time.    *)
(***************************************************************************)
EXTENDS Integers, SequencesExt

CONSTANTS
    Frames,      \* contents of the frames
    MaxItens,    \* capacity of the raw list, 1000 in add_item
    MaxPackets,  \* capacity of the packet list, 1000 in the insertion
    Addr,        \* bound: the addresses malloc may return, numbers
    NULL

ASSUME QueueHeapAssumption ==
    /\ MaxItens \in Nat /\ MaxItens >= 2
    /\ MaxPackets \in Nat /\ MaxPackets >= 2
    /\ IsFiniteSet(Addr) /\ Addr \subseteq Nat
    /\ NULL \notin Addr

VARIABLES
    heap,           \* the allocated blocks: a function whose domain is live
    fault,          \* a freed block or NULL was dereferenced, or freed twice
    op,             \* the operation under way, or "idle"
    inicio_buffer, final_buffer, nmbr_itens,
    inicio_packet, final_packet, nmbr_packets,
    new_node,       \* the node an insertion is about to link
    temp,           \* thread 2: the raw node it took
    node,           \* thread 2: the packet structure it filled
    batch           \* the frames serialised, until their list is freed

rawList == <<inicio_buffer, final_buffer, nmbr_itens>>
packetList == <<inicio_packet, final_packet, nmbr_packets>>
vars == <<heap, fault, op, rawList, packetList, new_node, temp, node, batch>>

(* A block of any of the three types; a packet structure has no successor  *)
(* and the content of a packet node is the address of its structure.       *)
Block(content, next) == [content |-> content, next |-> next]

Live(a) == a \in DOMAIN heap

(* Bound: malloc returns the lowest free address, so a freed block is soon *)
(* used again.  Addr is large enough for every block the client keeps.     *)
Fresh == {a \in Addr \ DOMAIN heap : \A b \in Addr \ DOMAIN heap : a <= b}

Without(h, freed) == [a \in DOMAIN h \ freed |-> h[a]]
With(h, a, block) == [x \in DOMAIN h \cup {a} |-> IF x = a THEN block ELSE h[x]]

(* free(a); to free a block a second time is a fault.                      *)
Free(a) ==
    IF Live(a)
    THEN heap' = Without(heap, {a}) /\ UNCHANGED fault
    ELSE fault' = TRUE /\ UNCHANGED heap

(* The nodes from a on, to the one whose successor is NULL.                *)
Nodes(h, a) ==
    LET along[n \in Addr \cup {NULL}] ==
            IF n \in DOMAIN h THEN <<n>> \o along[h[n].next] ELSE <<>>
    IN  along[a]

(* The frames of the raw list; those of the packet list, each of which is  *)
(* read through the packet structure.                                      *)
Contents(h, a) ==
    LET nodes == Nodes(h, a) IN [k \in DOMAIN nodes |-> h[nodes[k]].content]
PacketContents(h, a) ==
    LET packets == Contents(h, a)
    IN  [k \in DOMAIN packets |-> h[packets[k]].content]

Init ==
    /\ heap = << >>
    /\ fault = FALSE
    /\ op = "idle"
    /\ inicio_buffer = NULL /\ final_buffer = NULL /\ nmbr_itens = 0
    /\ inicio_packet = NULL /\ final_packet = NULL /\ nmbr_packets = 0
    /\ new_node = NULL /\ temp = NULL /\ node = NULL
    /\ batch = <<>>

-----------------------------------------------------------------------------
(* add_item, called by the capture thread.                                 *)

(* Mutant: the list is taken for empty when its tail pointer is NULL.      *)
AddItemByTail(f, a) ==
    /\ op = "idle"
    /\ heap' = With(heap, a, Block(f, NULL))
    /\ IF final_buffer = NULL
       THEN /\ inicio_buffer' = a /\ final_buffer' = a
            /\ nmbr_itens' = nmbr_itens + 1
            /\ UNCHANGED <<op, new_node>>
       ELSE /\ new_node' = a
            /\ op' = "linkItem"
            /\ UNCHANGED rawList
    /\ UNCHANGED <<fault, packetList, temp, node, batch>>

AddItem(f, a) ==
    /\ op = "idle"
    /\ heap' = With(heap, a, Block(f, NULL))
    /\ IF inicio_buffer = NULL
       THEN /\ inicio_buffer' = a /\ final_buffer' = a
            /\ nmbr_itens' = nmbr_itens + 1
            /\ UNCHANGED <<op, new_node>>
       ELSE /\ new_node' = a
            /\ op' = "linkItem"
            /\ UNCHANGED rawList
    /\ UNCHANGED <<fault, packetList, temp, node, batch>>

(* The loop of add_item that frees from the head while the counter says    *)
(* the list is full.                                                       *)
EvictItem ==
    /\ op = "linkItem"
    /\ nmbr_itens >= MaxItens
    /\ inicio_buffer # NULL
    /\ Free(inicio_buffer)
    /\ inicio_buffer' = IF Live(inicio_buffer)
                        THEN heap[inicio_buffer].next ELSE NULL
    /\ nmbr_itens' = nmbr_itens - 1
    /\ UNCHANGED <<op, final_buffer, packetList, new_node, temp, node, batch>>

LinkItem ==
    /\ op = "linkItem"
    /\ nmbr_itens < MaxItens
    /\ IF Live(final_buffer)
       THEN /\ heap' = [heap EXCEPT ![final_buffer].next = new_node]
            /\ UNCHANGED fault
       ELSE /\ fault' = TRUE
            /\ UNCHANGED heap
    /\ final_buffer' = new_node
    /\ nmbr_itens' = nmbr_itens + 1
    /\ new_node' = NULL
    /\ op' = "idle"
    /\ UNCHANGED <<inicio_buffer, packetList, temp, node, batch>>

-----------------------------------------------------------------------------
(* The critical section of routine_processing.                             *)

TakeItem(a) ==
    /\ op = "idle"
    /\ nmbr_itens # 0
    /\ IF Live(inicio_buffer)
       THEN /\ temp' = inicio_buffer
            /\ inicio_buffer' = heap[inicio_buffer].next
            /\ node' = a
            /\ heap' = With(heap, a, Block(heap[inicio_buffer].content, NULL))
            /\ UNCHANGED fault
       ELSE /\ fault' = TRUE
            /\ UNCHANGED <<temp, inicio_buffer, node, heap>>
    /\ op' = "parse"
    /\ UNCHANGED <<final_buffer, nmbr_itens, packetList, new_node, batch>>

(* The parser frees the structure and returns NULL, or the frame belongs   *)
(* to the loopback device and thread 2 frees it.                           *)
RefusePacket ==
    /\ op = "parse"
    /\ Free(node)
    /\ node' = NULL
    /\ op' = "freeItem"
    /\ UNCHANGED <<rawList, packetList, new_node, temp, batch>>

(* Mutant: the new node is put at the head.                                *)
InsertPacketAtHead(a) ==
    /\ op = "parse"
    /\ heap' = With(heap, a, Block(node, inicio_packet))
    /\ node' = NULL
    /\ inicio_packet' = a
    /\ final_packet' = IF inicio_packet = NULL THEN a ELSE final_packet
    /\ nmbr_packets' = nmbr_packets + 1
    /\ op' = "freeItem"
    /\ UNCHANGED <<fault, rawList, new_node, temp, batch>>

InsertPacket(a) ==
    /\ op = "parse"
    /\ heap' = With(heap, a, Block(node, NULL))
    /\ node' = NULL
    /\ IF inicio_packet = NULL
       THEN /\ inicio_packet' = a /\ final_packet' = a
            /\ nmbr_packets' = nmbr_packets + 1
            /\ op' = "freeItem"
            /\ UNCHANGED new_node
       ELSE /\ new_node' = a
            /\ op' = "linkPacket"
            /\ UNCHANGED packetList
    /\ UNCHANGED <<fault, rawList, temp, batch>>

(* The body that free_packet and the loop of free_list have in common: the *)
(* first node is unlinked, its structure is freed, then the node.          *)
FreeFirst ==
    IF Live(inicio_packet)
         /\ heap[inicio_packet].content \in DOMAIN heap \ {inicio_packet}
    THEN /\ inicio_packet' = heap[inicio_packet].next
         /\ heap' = Without(heap, {inicio_packet, heap[inicio_packet].content})
         /\ UNCHANGED fault
    ELSE /\ fault' = TRUE
         /\ UNCHANGED <<inicio_packet, heap>>

(* Mutant: free_packet frees the node and not the packet.                  *)
EvictPacketNode ==
    /\ op = "linkPacket"
    /\ nmbr_packets >= MaxPackets
    /\ inicio_packet # NULL
    /\ Free(inicio_packet)
    /\ inicio_packet' = IF Live(inicio_packet)
                        THEN heap[inicio_packet].next ELSE NULL
    /\ nmbr_packets' = nmbr_packets - 1
    /\ UNCHANGED <<op, rawList, final_packet, new_node, temp, node, batch>>

(* The same loop in insert_packet_node_on_list.                            *)
EvictPacket ==
    /\ op = "linkPacket"
    /\ nmbr_packets >= MaxPackets
    /\ inicio_packet # NULL
    /\ FreeFirst
    /\ nmbr_packets' = nmbr_packets - 1
    /\ UNCHANGED <<op, rawList, final_packet, new_node, temp, node, batch>>

LinkPacket ==
    /\ op = "linkPacket"
    /\ nmbr_packets < MaxPackets
    /\ IF Live(final_packet)
       THEN /\ heap' = [heap EXCEPT ![final_packet].next = new_node]
            /\ UNCHANGED fault
       ELSE /\ fault' = TRUE
            /\ UNCHANGED heap
    /\ final_packet' = new_node
    /\ nmbr_packets' = nmbr_packets + 1
    /\ new_node' = NULL
    /\ op' = "freeItem"
    /\ UNCHANGED <<inicio_packet, rawList, temp, node, batch>>

(* Mutant: the node is freed and not counted.                              *)
FreeItemUncounted ==
    /\ op = "freeItem"
    /\ Free(temp)
    /\ temp' = NULL
    /\ op' = "idle"
    /\ UNCHANGED <<rawList, packetList, new_node, node, batch>>

(* free_item(&temp, &nmbr_itens)                                           *)
FreeItem ==
    /\ op = "freeItem"
    /\ Free(temp)
    /\ temp' = NULL
    /\ nmbr_itens' = nmbr_itens - 1
    /\ op' = "idle"
    /\ UNCHANGED <<inicio_buffer, final_buffer, packetList, new_node, node, batch>>

-----------------------------------------------------------------------------
(* The critical section of routine_payload.                                *)

(* Every pointer that a walk from a follows is to a live block, or NULL.   *)
Walkable(a) ==
    {a} \cup {heap[n].next : n \in Range(Nodes(heap, a))} \subseteq DOMAIN heap \cup {NULL}

GeneratePayload ==
    /\ op = "idle"
    /\ inicio_packet # NULL
    /\ IF /\ Walkable(inicio_packet)
          /\ \A p \in Range(Contents(heap, inicio_packet)) : Live(p)
       THEN /\ batch' = PacketContents(heap, inicio_packet)
            /\ UNCHANGED fault
       ELSE /\ fault' = TRUE
            /\ UNCHANGED batch
    /\ op' = "freeList"
    /\ UNCHANGED <<heap, rawList, packetList, new_node, temp, node>>

FreeListNode ==
    /\ op = "freeList"
    /\ inicio_packet # NULL
    /\ FreeFirst
    /\ UNCHANGED <<op, rawList, final_packet, nmbr_packets, new_node,
                   temp, node, batch>>

FreeListEnd ==
    /\ op = "freeList"
    /\ inicio_packet = NULL
    /\ nmbr_packets' = 0
    /\ final_packet' = NULL
    /\ op' = "idle"
    /\ batch' = <<>>
    /\ UNCHANGED <<heap, fault, rawList, inicio_packet, new_node, temp, node>>

-----------------------------------------------------------------------------
Next ==
    \/ \E a \in Fresh :
          \/ \E f \in Frames : AddItem(f, a)
          \/ TakeItem(a)
          \/ InsertPacket(a)
    \/ EvictItem \/ LinkItem
    \/ RefusePacket \/ EvictPacket \/ LinkPacket \/ FreeItem
    \/ GeneratePayload \/ FreeListNode \/ FreeListEnd

Spec == Init /\ [][Next]_vars

-----------------------------------------------------------------------------
Reachable ==
    LET cells == Range(Nodes(heap, inicio_packet))
        held == {new_node, temp, node} \ {NULL}
    IN  Range(Nodes(heap, inicio_buffer)) \cup cells \cup held
            \cup {heap[c].content :
                     c \in cells \cup (IF op = "linkPacket" THEN {new_node} ELSE {})}

TypeOK ==
    /\ DOMAIN heap \subseteq Addr
    /\ fault \in BOOLEAN
    /\ op \in {"idle", "linkItem", "parse", "linkPacket", "freeItem", "freeList"}
    /\ {inicio_buffer, final_buffer, inicio_packet, final_packet,
        new_node, temp, node} \subseteq Addr \cup {NULL}
    /\ nmbr_itens \in 0..MaxItens
    /\ nmbr_packets \in 0..MaxPackets
    /\ batch \in BoundedSeq(Frames, MaxPackets)

(* No operation follows a pointer to a block that was freed, or NULL, and  *)
(* none frees a block twice: the tail pointers are left dangling when a    *)
(* list empties, and never used.                                           *)
NoDanglingUse == ~fault

(* Every allocated block is in one of the lists or in the hands of the     *)
(* operation under way, so whatever thread allocated it, some thread will  *)
(* free it (README.md:75).                                                 *)
NoLeak == DOMAIN heap = Reachable

-----------------------------------------------------------------------------
(* The lists as queues.  A node is in its queue from the moment there is   *)
(* room for it, and a raw frame until thread 2 has found room for its      *)
(* packet; the packet queue is empty once the batch is serialised.         *)
RawQueue ==
    (IF op = "parse" \/ (op = "linkPacket" /\ nmbr_packets >= MaxPackets)
     THEN <<heap[temp].content>> ELSE <<>>)
    \o Contents(heap, inicio_buffer)
    \o (IF op = "linkItem" /\ nmbr_itens < MaxItens
        THEN <<heap[new_node].content>> ELSE <<>>)

PacketQueue ==
    IF op = "freeList" THEN <<>>
    ELSE PacketContents(heap, inicio_packet)
         \o (IF op = "linkPacket" /\ nmbr_packets < MaxPackets
             THEN <<heap[heap[new_node].content].content>> ELSE <<>>)

Queues == INSTANCE DropOldestQueues WITH
    raw <- RawQueue, packets <- PacketQueue, batch <- batch

(* The linked lists implement the drop-oldest queues.                      *)
ImplementsQueues == Queues!Spec
=============================================================================
