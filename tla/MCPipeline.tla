---------------------------- MODULE MCPipeline ------------------------------
(***************************************************************************)
(* Pipeline for TLC: the traffic and the backend under which its liveness  *)
(* properties are checked.                                                 *)
(***************************************************************************)
EXTENDS Pipeline

(* The backend answers, sooner or later, whatever it answers.              *)
AnsweringBackend == WF_vars(NetworkStep)

(* Endless traffic over a finite set of frame numbers: a number is used    *)
(* again once its frame has left the process.                              *)
InProcess(f) ==
    \E a \in 1..5 : \E i \in 1..Len(Stages[a]) : Stages[a][i] = f

Traffic == \E f \in {g \in Frames : ~InProcess(g)} : RecvFrame(f)

TrafficSpec == Init /\ [][Traffic \/ Running]_vars /\ Fairness

(* While traffic goes on and the backend answers, the payload thread comes *)
(* for the packets, although signals are lost while it is away.            *)
PacketsAreTakenInTraffic ==
    AnsweringBackend /\ WF_vars(Traffic) => PacketsAreTaken
=============================================================================
