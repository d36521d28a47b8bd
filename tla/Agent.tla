------------------------------- MODULE Agent --------------------------------
(***************************************************************************)
(* The whole client, from capture to the answer of the backend: the queues *)
(* between the threads (DropOldestQueues, which Pipeline implements) and   *)
(* the payload thread on the network (Delivery).  They meet where the      *)
(* payload thread takes the packet list for a batch (main.c:206-218), and  *)
(* where the process ends, which takes both queues with it.                *)
(***************************************************************************)
EXTENDS Delivery

CONSTANTS
    MaxItens, MaxPackets,  \* capacities of the two queues
    MaxFrames              \* bound: frames captured

ASSUME AgentAssumption ==
    /\ MaxItens \in Nat \ {0} /\ MaxPackets \in Nat \ {0}
    /\ MaxFrames \in Nat

VARIABLES
    raw, packets,  \* frames in the two lists; a frame is a number
    frame,         \* the last frame captured
    contents       \* history: the frames of each batch taken

queues == <<raw, packets>>
agentVars == <<vars, queues, frame, contents>>

InHand == IF batch = 0 \/ pc = "exited" THEN <<>> ELSE contents[batch]

Queues == INSTANCE DropOldestQueues WITH Frames <- 1..MaxFrames, batch <- InHand

AgentInit ==
    /\ Init
    /\ Queues!Init
    /\ frame = 0
    /\ contents = <<>>

-----------------------------------------------------------------------------
(* Frames are captured and parsed from the start of the process on, also   *)
(* while the payload thread connects, authenticates or sends.              *)

CaptureFrame ==
    /\ pc # "exited" /\ frame < MaxFrames
    /\ UNCHANGED <<vars, contents>>
    /\ frame' = frame + 1
    /\ Queues!Capture(frame')

ParseFrame ==
    /\ pc # "exited"
    /\ UNCHANGED <<vars, frame, contents>>
    /\ Queues!Discard \/ Queues!Forward

(* Mutant: it does not look again after it was woken.                      *)
TakePacketsUnchecked ==
    /\ TakeBatch
    /\ contents' = Append(contents, packets)
    /\ packets' = <<>>
    /\ UNCHANGED <<raw, frame>>

(* The payload thread finds the packet list not empty and takes all of it. *)
TakePackets ==
    /\ TakeBatch
    /\ contents' = Append(contents, packets)
    /\ Queues!TakeBatch
    /\ UNCHANGED frame

(* The lists are in memory, and end with the process.                     *)
ListsFollow ==
    /\ IF pc' = "exited" THEN raw' = <<>> /\ packets' = <<>> ELSE UNCHANGED queues
    /\ UNCHANGED <<frame, contents>>

Exchange == ExchangeStep /\ ListsFollow
Answering == BackendStep /\ ListsFollow
Disturb == (HandleLate \/ Break \/ ResetClosed \/ Kill \/ Restart) /\ ListsFollow

(* Nothing is left to send, or nobody starts the process.                  *)
Idle ==
    /\ \/ pc = "window" /\ packets = <<>>
       \/ pc = "exited" /\ starts = MaxStarts
    /\ UNCHANGED agentVars

AgentNext ==
    \/ CaptureFrame \/ ParseFrame \/ TakePackets
    \/ Exchange \/ Answering \/ Disturb
    \/ Idle

AgentSpec == AgentInit /\ [][AgentNext]_agentVars

(* The payload thread keeps running while it has something to do on the    *)
(* network, the backend comes back and answers.  That it comes for the     *)
(* packets is not assumed: cond_payload is signalled only after another    *)
(* frame was received (main.c:278-298, PacketsAreTakenInTraffic of         *)
(* MCPipeline).                                                            *)
FairAgentSpec == AgentSpec /\ WF_agentVars(Exchange) /\ WF_agentVars(Answering)

-----------------------------------------------------------------------------
FramesOf(batches) == UNION {Range(contents[b]) : b \in batches}

TypeOKAgent ==
    /\ TypeOK
    /\ frame \in 0..MaxFrames
    /\ raw \in Seq(1..frame) /\ packets \in Seq(1..frame)
    /\ Len(raw) <= MaxItens /\ Len(packets) <= MaxPackets
    /\ contents \in [1..taken -> Seq(1..frame) \ {<<>>}]

(* While a process runs, a frame that it took from the packet list is in   *)
(* the batch being delivered, or the backend answered a batch that has it: *)
(* timeouts, broken connections and late answers lose none and skip none   *)
(* (main.c:211-251).  What a process has in memory when it ends is lost.   *)
TakenFramesAreAnswered ==
    pc # "exited" =>
        FramesOf((inherited + 1)..taken) \subseteq FramesOf(Answered) \cup Range(InHand)

(* The backend meets the frames of a process in the order of their         *)
(* capture, through both queues, their evictions, and resends (main.c:283, *)
(* 60, 214, 221-233).                                                      *)
FramesAnsweredInOrder ==
    [][\A f \in FramesOf(Answered)' \ FramesOf(Answered), g \in FramesOf(Answered) :
          f \notin FramesOf(1..inherited) => g < f]_agentVars

(* A frame that the payload thread has taken is answered by the backend in *)
(* the end, however often its batch must be sent again and whatever copy   *)
(* of it is answered late, or the process ends (main.c:220-251).           *)
FramesInHandAreAnswered ==
    \A f \in 1..MaxFrames :
        f \in Range(InHand) ~> (f \in FramesOf(Answered) \/ pc = "exited")
=============================================================================
