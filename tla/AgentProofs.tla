---------------------------- MODULE AgentProofs -----------------------------
(***************************************************************************)
(* The whole client, for every number of frames, capacity of the queues,   *)
(* failures and starts: what holds of the delivery of batches, in an       *)
(* orderly environment (DeliveryProofs), holds of the frames in them, and  *)
(* what holds of the queues holds in every environment.                    *)
(***************************************************************************)
EXTENDS Agent, DeliveryProofs, SequenceTheorems

-----------------------------------------------------------------------------
(* Seen without the frames, a step of the client is a step of Delivery.    *)
LEMMA AgentStep ==
    ASSUME [AgentNext]_agentVars
    PROVE  [Next]_vars
  <1>1. CASE CaptureFrame \/ ParseFrame \/ Idle \/ UNCHANGED agentVars
    BY <1>1, Zenon DEF CaptureFrame, ParseFrame, Idle, agentVars
  <1>2. CASE TakePackets \/ Exchange \/ Answering \/ Disturb
    BY <1>2, Zenon DEF TakePackets, Exchange, Answering, Disturb, Next, ClientStep
  <1> QED  BY <1>1, <1>2, Zenon DEF AgentNext

(* The client with its queues implements the delivery of batches that are  *)
(* nothing but numbers (main.c:206-251).                                   *)
THEOREM AgentDelivers == AgentSpec => Spec
  <1>1. AgentInit => Init
    BY DEF AgentInit
  <1>2. [AgentNext]_agentVars => [Next]_vars
    BY AgentStep
  <1> QED  BY <1>1, <1>2, PTL DEF AgentSpec, Spec

LEMMA AgentInvariance == Orderly => (AgentSpec => []Inv)
  BY AgentDelivers, Invariance, PTL

(* A frame that left the packet list of the running process is in the      *)
(* batch in hand or in one that was answered (main.c:211-251).             *)
THEOREM FramesAreAnswered == Orderly => (AgentSpec => []TakenFramesAreAnswered)
  <1>1. ASSUME Inv
        PROVE  TakenFramesAreAnswered
    <2> SUFFICES ASSUME pc # "exited", NEW b \in (inherited + 1)..taken,
                        NEW f \in Range(contents[b])
                 PROVE  f \in FramesOf(Answered) \cup Range(InHand)
      BY Zenon DEF TakenFramesAreAnswered, FramesOf
    <2>1. b \in 1..taken /\ b > inherited /\ b # 0
      BY <1>1, SMT DEF Inv, Batches
    <2>2. b = batch \/ b \in Answered
      BY <1>1, <2>1, Zenon DEF Inv, Batches
    <2>3. CASE b = batch
      BY <2>1, <2>3, Zenon DEF InHand
    <2>4. CASE b \in Answered
      BY <2>4, Zenon DEF FramesOf
    <2> QED  BY <2>2, <2>3, <2>4
  <1> QED  BY <1>1, AgentInvariance, PTL

-----------------------------------------------------------------------------
(* Frames keep the order of their capture: those of a batch come before    *)
(* those of a later batch, these before the packet list, the packet list   *)
(* before the raw list, and the raw list before the next frame.            *)
Before(S, T) == \A x \in S, y \in T : x < y

Ascending(s) == \A i, j \in 1..Len(s) : i < j => s[i] < s[j]

InSequence ==
    /\ frame \in Nat /\ taken \in Nat
    /\ raw \in Seq(Nat) /\ packets \in Seq(Nat)
    /\ contents \in Seq(Seq(Nat)) /\ Len(contents) = taken
    /\ Ascending(raw)
    /\ Range(raw) \subseteq 1..frame /\ Range(packets) \subseteq 1..frame
    /\ Before(Range(packets), Range(raw))
    /\ \A b \in 1..taken :
          /\ Range(contents[b]) \subseteq 1..frame
          /\ Before(Range(contents[b]), Range(packets))
          /\ Before(Range(contents[b]), Range(raw))
          /\ \A a \in 1..taken : a < b => Before(Range(contents[a]), Range(contents[b]))

(* Unlinking the head of a list.                                           *)
LEMMA TailKeeps ==
    ASSUME NEW s \in Seq(Nat), s # <<>>
    PROVE  /\ Head(s) \in Nat /\ Tail(s) \in Seq(Nat)
           /\ Range(Tail(s)) \subseteq Range(s) /\ Head(s) \in Range(s)
           /\ Ascending(s) => Ascending(Tail(s)) /\ Before({Head(s)}, Range(Tail(s)))
  <1> DEFINE t == Tail(s)
  <1>1. /\ t \in Seq(Nat) /\ Len(t) = Len(s) - 1 /\ Len(s) \in Nat \ {0}
        /\ \A i \in 1..Len(t) : t[i] = s[i + 1]
        /\ Head(s) = s[1] /\ Head(s) \in Nat
    BY SMT
  <1> HIDE DEF t
  <1>2. ASSUME NEW x \in Range(t)
        PROVE  \E i \in 1..Len(s) : i > 1 /\ x = s[i]
    <2>1. PICK k \in 1..Len(t) : x = t[k]
      BY <1>1, RangeEquality
    <2>2. k + 1 \in 1..Len(s) /\ k + 1 > 1 /\ x = s[k + 1]
      BY <1>1, <2>1, SMT
    <2> QED  BY <2>2
  <1>3. Range(t) \subseteq Range(s)
    BY <1>2, RangeEquality
  <1>4. Head(s) \in Range(s)
    <2>1. 1 \in 1..Len(s)
      BY <1>1, SMT
    <2> QED  BY <1>1, <2>1, RangeEquality
  <1>5. ASSUME Ascending(s)
        PROVE  Ascending(t) /\ Before({Head(s)}, Range(t))
    <2>1. ASSUME NEW i \in 1..Len(t), NEW j \in 1..Len(t), i < j
          PROVE  t[i] < t[j]
      <3>1. /\ i + 1 \in 1..Len(s) /\ j + 1 \in 1..Len(s) /\ i + 1 < j + 1
            /\ t[i] = s[i + 1] /\ t[j] = s[j + 1]
        BY <1>1, <2>1, SMT
      <3> QED  BY <1>5, <3>1, Zenon DEF Ascending
    <2>2. ASSUME NEW x \in Range(t)
          PROVE  Head(s) < x
      BY <1>1, <1>2, <1>5, <2>2, SMT DEF Ascending
    <2> QED  BY <2>1, <2>2, Zenon DEF Ascending, Before
  <1> QED  BY <1>1, <1>3, <1>4, <1>5 DEF t

(* Linking a frame at the tail, with or without an eviction.               *)
LEMMA AppendKeeps ==
    ASSUME NEW s \in Seq(Nat), NEW f \in Nat
    PROVE  /\ Append(s, f) \in Seq(Nat)
           /\ Range(Append(s, f)) \subseteq Range(s) \cup {f}
           /\ Ascending(s) /\ Before(Range(s), {f}) => Ascending(Append(s, f))
  <1> DEFINE t == Append(s, f)
  <1>1. /\ t \in Seq(Nat) /\ Len(t) = Len(s) + 1 /\ Len(s) \in Nat
        /\ t[Len(s) + 1] = f /\ \A i \in 1..Len(s) : t[i] = s[i]
    BY SMT
  <1> HIDE DEF t
  <1>2. Range(t) \subseteq Range(s) \cup {f}
    <2> SUFFICES ASSUME NEW k \in 1..Len(t)
                 PROVE  t[k] \in Range(s) \cup {f}
      BY <1>1, RangeEquality
    <2>1. CASE k = Len(s) + 1
      BY <1>1, <2>1
    <2>2. CASE k # Len(s) + 1
      <3>1. k \in 1..Len(s)
        BY <1>1, <2>2, SMT
      <3>2. s[k] \in Range(s)
        BY <3>1, RangeEquality
      <3> QED  BY <1>1, <3>1, <3>2
    <2> QED  BY <2>1, <2>2
  <1>3. ASSUME Ascending(s), Before(Range(s), {f})
        PROVE  Ascending(t)
    <2>1. \A i \in 1..Len(s) : s[i] < f
      BY <1>3, RangeEquality DEF Before
    <2> SUFFICES ASSUME NEW i \in 1..Len(t), NEW j \in 1..Len(t), i < j
                 PROVE  t[i] < t[j]
      BY DEF Ascending
    <2>2. i \in 1..Len(s) /\ t[i] = s[i]
      BY <1>1, SMT
    <2>3. CASE j = Len(s) + 1
      BY <1>1, <2>1, <2>2, <2>3
    <2>4. CASE j # Len(s) + 1
      <3> DEFINE n == Len(s)
      <3>1. n \in Nat /\ j \in 1..n + 1 /\ j # n + 1
        BY <1>1, <2>4
      <3> HIDE DEF n
      <3>2. j \in 1..n
        BY <3>1, SMT
      <3>3. j \in 1..Len(s)
        BY <3>2 DEF n
      <3>4. t[j] = s[j]
        BY <1>1, <3>3
      <3> QED  BY <1>3, <2>2, <3>3, <3>4, Zenon DEF Ascending
    <2> QED  BY <2>3, <2>4
  <1> QED  BY <1>1, <1>2, <1>3 DEF t

LEMMA PushKeeps ==
    ASSUME NEW s \in Seq(Nat), NEW max \in Nat \ {0}, NEW f \in Nat
    PROVE  /\ Queues!Push(s, max, f) \in Seq(Nat)
           /\ Range(Queues!Push(s, max, f)) \subseteq Range(s) \cup {f}
           /\ Ascending(s) /\ Before(Range(s), {f}) => Ascending(Queues!Push(s, max, f))
  <1>1. CASE Len(s) < max
    BY <1>1, AppendKeeps, Zenon DEF Queues!Push
  <1>2. CASE ~(Len(s) < max)
    <2>1. s # <<>>
      BY <1>2, SMT
    <2>2. /\ Tail(s) \in Seq(Nat) /\ Range(Tail(s)) \subseteq Range(s)
          /\ Ascending(s) => Ascending(Tail(s))
      BY <2>1, TailKeeps, Zenon
    <2>3. Queues!Push(s, max, f) = Append(Tail(s), f)
      BY <1>2, Zenon DEF Queues!Push
    <2>4. Before(Range(s), {f}) => Before(Range(Tail(s)), {f})
      BY <2>2, Zenon DEF Before
    <2>5. LET t == Append(Tail(s), f)
          IN  /\ t \in Seq(Nat) /\ Range(t) \subseteq Range(Tail(s)) \cup {f}
              /\ Ascending(Tail(s)) /\ Before(Range(Tail(s)), {f}) => Ascending(t)
      BY <2>2, AppendKeeps
    <2> QED  BY <2>2, <2>3, <2>4, <2>5, Zenon
  <1> QED  BY <1>1, <1>2

-----------------------------------------------------------------------------
LEMMA CaptureInSequence ==
    ASSUME InSequence, CaptureFrame
    PROVE  InSequence'
  <1>1. /\ frame' = frame + 1 /\ UNCHANGED <<taken, packets, contents>>
        /\ raw' = Queues!Push(raw, MaxItens, frame + 1)
    BY Zenon DEF CaptureFrame, Queues!Capture, vars, progress
  <1>2. frame \in Nat /\ raw \in Seq(Nat) /\ Ascending(raw) /\ Range(raw) \subseteq 1..frame
    BY Zenon DEF InSequence
  <1>3. frame + 1 \in Nat /\ frame + 1 \in 1..frame' /\ MaxItens \in Nat \ {0}
    BY <1>1, <1>2, AgentAssumption, SMT
  <1>4. \A x \in 1..frame : x < frame + 1 /\ x \in 1..frame'
    BY <1>1, <1>2, SMT
  <1>5. Before(Range(raw), {frame + 1})
    BY <1>2, <1>4, Zenon DEF Before
  <1>6. /\ raw' \in Seq(Nat) /\ Range(raw') \subseteq Range(raw) \cup {frame + 1}
        /\ Ascending(raw')
    BY <1>1, <1>2, <1>3, <1>5, PushKeeps, Zenon
  <1>7. Range(raw') \subseteq 1..frame'
    BY <1>2, <1>3, <1>4, <1>6, Zenon
  <1>8. ASSUME NEW S \in SUBSET (1..frame), Before(S, Range(raw))
        PROVE  S \subseteq 1..frame' /\ Before(S, Range(raw'))
    BY <1>4, <1>6, <1>8, Zenon DEF Before
  <1>9. /\ Range(packets) \subseteq 1..frame' /\ Before(Range(packets), Range(raw'))
    BY <1>8, Zenon DEF InSequence
  <1>10. ASSUME NEW b \in 1..taken
         PROVE  /\ Range(contents[b]) \subseteq 1..frame'
                /\ Before(Range(contents[b]), Range(raw'))
    BY <1>8, <1>10, Zenon DEF InSequence
  <1> QED  BY <1>1, <1>3, <1>6, <1>7, <1>9, <1>10, Zenon DEF InSequence

LEMMA ParseInSequence ==
    ASSUME InSequence, ParseFrame
    PROVE  InSequence'
  <1>1. /\ raw # <<>> /\ raw' = Tail(raw) /\ UNCHANGED <<frame, taken, contents>>
        /\ \/ packets' = packets
           \/ packets' = Queues!Push(packets, MaxPackets, Head(raw))
    BY Zenon DEF ParseFrame, Queues!Discard, Queues!Forward, vars, progress
  <1>2. /\ raw \in Seq(Nat) /\ Ascending(raw) /\ packets \in Seq(Nat)
        /\ Range(raw) \subseteq 1..frame /\ Range(packets) \subseteq 1..frame
        /\ Before(Range(packets), Range(raw))
    BY Zenon DEF InSequence
  <1>3. /\ Head(raw) \in Nat /\ Head(raw) \in Range(raw)
        /\ raw' \in Seq(Nat) /\ Range(raw') \subseteq Range(raw)
        /\ Ascending(raw') /\ Before({Head(raw)}, Range(raw'))
    BY <1>1, <1>2, TailKeeps, Zenon
  <1>4. MaxPackets \in Nat \ {0}
    BY AgentAssumption
  <1>5. packets' \in Seq(Nat) /\ Range(packets') \subseteq Range(packets) \cup {Head(raw)}
    <2>1. CASE packets' = packets
      BY <1>2, <2>1, Zenon
    <2>2. CASE packets' = Queues!Push(packets, MaxPackets, Head(raw))
      <3>1. LET t == Queues!Push(packets, MaxPackets, Head(raw))
            IN  t \in Seq(Nat) /\ Range(t) \subseteq Range(packets) \cup {Head(raw)}
        BY <1>2, <1>3, <1>4, PushKeeps, Zenon
      <3> QED  BY <2>2, <3>1, Zenon
    <2> QED  BY <1>1, <2>1, <2>2
  <1>6. Range(raw') \subseteq 1..frame /\ Range(packets') \subseteq 1..frame
    BY <1>2, <1>3, <1>5, Zenon
  <1>7. Before(Range(packets'), Range(raw'))
    BY <1>2, <1>3, <1>5, Zenon DEF Before
  <1>8. ASSUME NEW b \in 1..taken
        PROVE  /\ Before(Range(contents[b]), Range(packets'))
               /\ Before(Range(contents[b]), Range(raw'))
    <2>1. Before(Range(contents[b]), Range(packets)) /\ Before(Range(contents[b]), Range(raw))
      BY <1>8, Zenon DEF InSequence
    <2> QED  BY <1>3, <1>5, <2>1, Zenon DEF Before
  <1> QED  BY <1>1, <1>3, <1>5, <1>6, <1>7, <1>8, Zenon DEF InSequence

(* The frames of the new batch are those of the packet list.               *)
LEMMA TakeInSequence ==
    ASSUME InSequence, TakePackets
    PROVE  InSequence'
  <1>1. /\ taken' = taken + 1 /\ contents' = Append(contents, packets)
        /\ packets' = <<>> /\ UNCHANGED <<raw, frame>>
    BY Zenon DEF TakePackets, TakeBatch, Queues!TakeBatch
  <1>2. /\ taken \in Nat /\ contents \in Seq(Seq(Nat)) /\ Len(contents) = taken
        /\ packets \in Seq(Nat)
    BY Zenon DEF InSequence
  <1>3. /\ contents' \in Seq(Seq(Nat)) /\ Len(contents') = taken'
        /\ contents'[taken'] = packets
        /\ \A b \in 1..taken : contents'[b] = contents[b]
    <2> DEFINE S == Seq(Nat)
    <2>1. contents \in Seq(S) /\ packets \in S
      BY <1>2
    <2> HIDE DEF S
    <2>2. /\ Append(contents, packets) \in Seq(S)
          /\ Len(Append(contents, packets)) = Len(contents) + 1
          /\ \A b \in 1..Len(contents) : Append(contents, packets)[b] = contents[b]
          /\ Append(contents, packets)[Len(contents) + 1] = packets
      BY <2>1, AppendProperties
    <2> QED  BY <1>1, <1>2, <2>2 DEF S
  <1>4. \A b \in 1..taken' : b \in 1..taken \/ b = taken'
    BY <1>1, <1>2, SMT
  <1>5. Range(packets') = {} /\ packets' \in Seq(Nat) /\ taken' \in Nat
    BY <1>1, <1>2, SMT DEF Range
  <1>6. ASSUME NEW b \in 1..taken'
        PROVE  /\ Range(contents'[b]) \subseteq 1..frame
               /\ Before(Range(contents'[b]), Range(raw))
    BY <1>3, <1>4, <1>6, Zenon DEF InSequence
  <1>7. ASSUME NEW a \in 1..taken', NEW b \in 1..taken', a < b
        PROVE  Before(Range(contents'[a]), Range(contents'[b]))
    <2>1. a \in 1..taken
      BY <1>1, <1>2, <1>7, SMT
    <2> QED  BY <1>3, <1>4, <1>7, <2>1, Zenon DEF InSequence
  <1>8. \A S : Before(S, Range(packets'))
    BY <1>5, Zenon DEF Before
  <1>9. Before(Range(packets'), Range(raw)) /\ Range(packets') \subseteq 1..frame
    BY <1>5, Zenon DEF Before
  <1>10. frame \in Nat /\ raw \in Seq(Nat) /\ Ascending(raw) /\ Range(raw) \subseteq 1..frame
    BY Zenon DEF InSequence
  <1> QED  BY <1>1, <1>3, <1>5, <1>6, <1>7, <1>8, <1>9, <1>10, Zenon DEF InSequence

(* Whatever else happens leaves the lists alone, or empties them.          *)
LEMMA RestInSequence ==
    ASSUME InSequence, UNCHANGED <<frame, contents, taken>>,
           UNCHANGED queues \/ (raw' = <<>> /\ packets' = <<>>)
    PROVE  InSequence'
  <1>1. CASE UNCHANGED queues
    BY <1>1, Zenon DEF InSequence, queues
  <1>2. CASE raw' = <<>> /\ packets' = <<>>
    <2>1. /\ Range(raw') = {} /\ Range(packets') = {} /\ Ascending(raw')
          /\ raw' \in Seq(Nat) /\ packets' \in Seq(Nat)
      BY <1>2, SMT DEF Range, Ascending
    <2> QED  BY <2>1, Zenon DEF InSequence, Before
  <1> QED  BY <1>1, <1>2

LEMMA AgentTaken ==
    ASSUME Exchange \/ Answering \/ Disturb
    PROVE  taken' = taken
  BY Zenon DEF Exchange, Answering, Disturb, ExchangeStep, OpenSocket, Connect, ConnectFails,
     ReadUuid, SendAuth, AuthAnswer, SendRegister, RegisterAnswer, TruncateUuid, WriteUuid,
     Post, Close, AnswerFails, Answer, BackendStep, Handle, BodyArrives, BackendUp,
     HandleLate, Break, ResetClosed, Kill, Restart, Die, progress

LEMMA SequenceKept ==
    ASSUME InSequence, [AgentNext]_agentVars
    PROVE  InSequence'
  <1>1. CASE CaptureFrame \/ ParseFrame \/ TakePackets
    BY <1>1, CaptureInSequence, ParseInSequence, TakeInSequence
  <1>2. CASE Exchange \/ Answering \/ Disturb
    <2>1. ListsFollow
      BY <1>2, Zenon DEF Exchange, Answering, Disturb
    <2> QED  BY <1>2, <2>1, AgentTaken, RestInSequence, Zenon DEF ListsFollow
  <1>3. CASE Idle \/ UNCHANGED agentVars
    BY <1>3, RestInSequence, Zenon DEF Idle, agentVars, vars, progress
  <1> QED  BY <1>1, <1>2, <1>3, Zenon DEF AgentNext

LEMMA SequenceInvariance == AgentSpec => []InSequence
  <1>1. AgentInit => InSequence
    BY SMT DEF AgentInit, Init, Queues!Init, InSequence, Ascending, Before, Range
  <1>2. InSequence /\ [AgentNext]_agentVars => InSequence'
    BY SequenceKept
  <1> QED  BY <1>1, <1>2, PTL DEF AgentSpec

LEMMA AgentAnswers ==
    ASSUME [AgentNext]_agentVars
    PROVE  Answered' = Answered \/ (taken' = taken /\ contents' = contents)
  <1>1. CASE Exchange \/ Answering \/ Disturb
    BY <1>1, AgentTaken, Zenon DEF Exchange, Answering, Disturb, ListsFollow
  <1>2. CASE TakePackets
    BY <1>2, Zenon DEF TakePackets, TakeBatch, backend, Answered
  <1>3. CASE CaptureFrame \/ ParseFrame \/ Idle \/ UNCHANGED agentVars
    BY <1>3, Zenon DEF CaptureFrame, ParseFrame, Idle, agentVars, vars, backend, Answered
  <1> QED  BY <1>1, <1>2, <1>3, Zenon DEF AgentNext

(* The frames of a batch that was taken do not change.                     *)
LEMMA ContentsKept ==
    ASSUME InSequence, [AgentNext]_agentVars, NEW b \in 1..taken
    PROVE  contents'[b] = contents[b]
  <1>1. CASE contents' = contents
    BY <1>1
  <1>2. CASE contents' = Append(contents, packets)
    <2> DEFINE S == Seq(Nat)
    <2>1. contents \in Seq(S) /\ packets \in S /\ Len(contents) = taken
      BY Zenon DEF InSequence
    <2> HIDE DEF S
    <2> QED  BY <1>2, <2>1, AppendProperties
  <1>3. contents' = contents \/ contents' = Append(contents, packets)
    BY Zenon DEF AgentNext, CaptureFrame, ParseFrame, TakePackets, Exchange, Answering,
                 Disturb, Idle, ListsFollow, agentVars
  <1> QED  BY <1>1, <1>2, <1>3

(* A frame is not answered for the first time after a later one of the     *)
(* same process was (main.c:283, 60, 214, 221-233).                        *)
THEOREM FramesInOrder == Orderly => (AgentSpec => FramesAnsweredInOrder)
  <1> SUFFICES ASSUME Orderly PROVE AgentSpec => FramesAnsweredInOrder
    OBVIOUS
  <1>1. ASSUME Inv, InSequence, [AgentNext]_agentVars,
               NEW f \in FramesOf(Answered)' \ FramesOf(Answered),
               NEW g \in FramesOf(Answered), f \notin FramesOf(1..inherited)
        PROVE  g < f
    <2>1. PICK b \in Answered' : f \in Range(contents'[b])
      BY <1>1, Zenon DEF FramesOf
    <2>2. PICK a \in Answered : g \in Range(contents[a])
      BY <1>1, Zenon DEF FramesOf
    <2>3. Answered' = Answered \/ (taken' = taken /\ contents' = contents)
      BY <1>1, AgentAnswers, Zenon
    <2>4. b \in 1..taken /\ contents'[b] = contents[b] /\ b \notin Answered
      <3>1. CASE contents' = contents /\ taken' = taken
        <4>1. Inv'
          BY <1>1, AgentStep, NextInv, Zenon
        <4> QED  BY <1>1, <2>1, <3>1, <4>1, Zenon DEF Inv, Batches, FramesOf
      <3>2. CASE Answered' = Answered
        <4>1. b \in 1..taken
          BY <1>1, <3>2, Zenon DEF Inv, Batches
        <4>2. contents'[b] = contents[b]
          BY <1>1, <4>1, ContentsKept, Zenon
        <4> QED  BY <1>1, <2>1, <3>2, <4>1, <4>2, Zenon DEF FramesOf
      <3> QED  BY <2>3, <3>1, <3>2
    <2>5. b > inherited
      <3>1. b \notin 1..inherited
        BY <1>1, <2>1, <2>4, Zenon DEF FramesOf
      <3> QED  BY <1>1, <2>4, <3>1, SMT DEF Inv, Batches
    <2>6. a < b
      BY <1>1, <2>1, <2>2, <2>4, <2>5, AgentStep, FirstAnswer, Zenon
    <2>7. a \in 1..taken
      BY <1>1, Zenon DEF Inv, Batches
    <2> QED  BY <1>1, <2>1, <2>2, <2>4, <2>6, <2>7, Zenon DEF InSequence, Before
  <1>2. Inv /\ InSequence /\ [AgentNext]_agentVars =>
            [\A f \in FramesOf(Answered)' \ FramesOf(Answered), g \in FramesOf(Answered) :
                f \notin FramesOf(1..inherited) => g < f]_agentVars
    BY <1>1
  <1> QED  BY <1>2, AgentInvariance, SequenceInvariance, PTL DEF AgentSpec, FramesAnsweredInOrder
-----------------------------------------------------------------------------
(* Neither queue ever holds more than its capacity, and no batch is empty. *)
Bounded ==
    /\ frame \in 0..MaxFrames
    /\ Len(raw) <= MaxItens /\ Len(packets) <= MaxPackets
    /\ \A b \in 1..taken : contents[b] # <<>>

LEMMA PushFits ==
    ASSUME NEW s \in Seq(Nat), NEW max \in Nat \ {0}, NEW f \in Nat, Len(s) <= max
    PROVE  Len(Queues!Push(s, max, f)) <= max
  <1>1. CASE Len(s) < max
    <2>1. Len(Append(s, f)) = Len(s) + 1 /\ Len(s) \in Nat
      BY SMT
    <2>2. Queues!Push(s, max, f) = Append(s, f)
      BY <1>1, Zenon DEF Queues!Push
    <2> QED  BY <1>1, <2>1, <2>2
  <1>2. CASE ~(Len(s) < max)
    <2>1. s # <<>>
      BY <1>2, SMT
    <2>2. Len(Append(Tail(s), f)) = Len(s) /\ Len(s) \in Nat
      BY <2>1, SMT
    <2>3. Queues!Push(s, max, f) = Append(Tail(s), f)
      BY <1>2, Zenon DEF Queues!Push
    <2> QED  BY <2>2, <2>3
  <1> QED  BY <1>1, <1>2

LEMMA BoundedKept ==
    ASSUME InSequence, Bounded, [AgentNext]_agentVars
    PROVE  Bounded'
  <1>1. /\ frame \in Nat /\ taken \in Nat /\ raw \in Seq(Nat) /\ packets \in Seq(Nat)
        /\ MaxItens \in Nat \ {0} /\ MaxPackets \in Nat \ {0} /\ MaxFrames \in Nat
    BY AgentAssumption, Zenon DEF InSequence
  <1>2. CASE CaptureFrame
    <2>1. /\ frame' = frame + 1 /\ frame < MaxFrames /\ UNCHANGED <<taken, packets, contents>>
          /\ raw' = Queues!Push(raw, MaxItens, frame + 1)
      BY <1>2, Zenon DEF CaptureFrame, Queues!Capture, vars, progress
    <2>2. frame + 1 \in 0..MaxFrames /\ frame + 1 \in Nat
      BY <1>1, <2>1, SMT
    <2>3. Len(raw') <= MaxItens
      BY <1>1, <2>1, <2>2, PushFits, Zenon DEF Bounded
    <2> QED  BY <2>1, <2>2, <2>3, Zenon DEF Bounded
  <1>3. CASE ParseFrame
    <2>1. /\ raw # <<>> /\ raw' = Tail(raw) /\ UNCHANGED <<frame, taken, contents>>
          /\ \/ packets' = packets
             \/ packets' = Queues!Push(packets, MaxPackets, Head(raw))
      BY <1>3, Zenon DEF ParseFrame, Queues!Discard, Queues!Forward, vars, progress
    <2>2. Head(raw) \in Nat /\ Len(Tail(raw)) <= MaxItens
      BY <1>1, <2>1, SMT DEF Bounded
    <2>3. Len(packets') <= MaxPackets
      BY <1>1, <2>1, <2>2, PushFits, Zenon DEF Bounded
    <2> QED  BY <2>1, <2>2, <2>3, Zenon DEF Bounded
  <1>4. CASE TakePackets
    <2>1. /\ taken' = taken + 1 /\ contents' = Append(contents, packets)
          /\ packets # <<>> /\ packets' = <<>> /\ UNCHANGED <<raw, frame>>
      BY <1>4, Zenon DEF TakePackets, TakeBatch, Queues!TakeBatch
    <2>2. Len(contents) = taken /\ contents'[taken + 1] = packets
      <3> DEFINE S == Seq(Nat)
      <3>1. contents \in Seq(S) /\ packets \in S /\ Len(contents) = taken
        BY Zenon DEF InSequence
      <3> HIDE DEF S
      <3> QED  BY <2>1, <3>1, AppendProperties
    <2>3. ASSUME NEW b \in 1..taken
          PROVE  contents'[b] = contents[b]
      BY <1>4, ContentsKept, Zenon DEF AgentNext
    <2>4. \A b \in 1..taken' : b \in 1..taken \/ b = taken + 1
      BY <1>1, <2>1, SMT
    <2>5. \A b \in 1..taken' : contents'[b] # <<>>
      BY <2>1, <2>2, <2>3, <2>4, Zenon DEF Bounded
    <2>6. Len(packets') <= MaxPackets
      <3>1. Len(<<>>) <= MaxPackets
        BY <1>1, SMT
      <3> QED  BY <2>1, <3>1, Zenon
    <2> QED  BY <2>1, <2>5, <2>6, Zenon DEF Bounded
  <1>5. CASE Exchange \/ Answering \/ Disturb
    <2>1. ListsFollow /\ taken' = taken
      BY <1>5, AgentTaken, Zenon DEF Exchange, Answering, Disturb
    <2>2. Len(<<>>) <= MaxItens /\ Len(<<>>) <= MaxPackets
      BY <1>1, SMT
    <2> QED  BY <2>1, <2>2, Zenon DEF Bounded, ListsFollow, queues
  <1>6. CASE Idle \/ UNCHANGED agentVars
    BY <1>6, Zenon DEF Bounded, Idle, agentVars, queues, vars, progress
  <1> QED  BY <1>2, <1>3, <1>4, <1>5, <1>6, Zenon DEF AgentNext

LEMMA BoundedInvariance == AgentSpec => []Bounded
  <1>1. AgentInit => Bounded
    <2> SUFFICES ASSUME AgentInit PROVE Bounded
      OBVIOUS
    <2>1. frame = 0 /\ raw = <<>> /\ packets = <<>> /\ taken = 0
      BY Zenon DEF AgentInit, Init, Queues!Init
    <2> QED  BY <2>1, AgentAssumption, SMT DEF Bounded
  <1>2. InSequence /\ Bounded /\ [AgentNext]_agentVars => Bounded'
    BY BoundedKept
  <1> QED  BY <1>1, <1>2, SequenceInvariance, PTL DEF AgentSpec

LEMMA SequenceOver ==
    ASSUME NEW s \in Seq(Nat), NEW S, Range(s) \subseteq S
    PROVE  s \in Seq(S)
  <1>1. ASSUME NEW i \in 1..Len(s)
        PROVE  s[i] \in S
    BY RangeEquality
  <1>2. s \in [1..Len(s) -> S] /\ Len(s) \in Nat
    BY <1>1, SMT
  <1> QED  BY <1>2, SMT

(* The state of the whole client has its type, in every environment: the   *)
(* lists hold frames that were captured and no more than their capacities  *)
(* (buffer_list.c:11-35, packet_list.c:5-25), and a batch is never      *)
(* empty (main.c:207-214).                                                 *)
THEOREM AgentTypeCorrect == AgentSpec => []TypeOKAgent
  <1>1. ASSUME TypeOK, InSequence, Bounded
        PROVE  TypeOKAgent
    <2>1. raw \in Seq(1..frame) /\ packets \in Seq(1..frame)
      BY <1>1, SequenceOver, Zenon DEF InSequence
    <2>2. contents \in [1..taken -> Seq(1..frame) \ {<<>>}]
      <3> DEFINE S == Seq(Nat)
      <3>1. contents \in Seq(S) /\ Len(contents) = taken
        BY <1>1, Zenon DEF InSequence
      <3>2. ASSUME NEW b \in 1..taken
            PROVE  contents[b] \in Seq(1..frame) \ {<<>>}
        <4>1. contents[b] \in S
          <5> HIDE DEF S
          <5> QED  BY <3>1, SMT
        <4>2. Range(contents[b]) \subseteq 1..frame /\ contents[b] # <<>>
          BY <1>1, Zenon DEF InSequence, Bounded
        <4>3. contents[b] \in Seq(1..frame)
          BY <4>1, <4>2, SequenceOver, Zenon
        <4> QED  BY <4>2, <4>3, Zenon
      <3> DEFINE B == Seq(1..frame) \ {<<>>}
      <3>3. \A b \in 1..taken : contents[b] \in B
        BY <3>2
      <3> HIDE DEF S, B
      <3>4. contents = [b \in 1..taken |-> contents[b]]
        BY <3>1, SMT
      <3>5. contents \in [1..taken -> B]
        BY <3>3, <3>4, Zenon
      <3> QED  BY <3>5 DEF B
    <2> QED  BY <1>1, <2>1, <2>2, Zenon DEF TypeOKAgent, Bounded
  <1> QED  BY <1>1, AgentDelivers, TypeCorrect, SequenceInvariance, BoundedInvariance, PTL
=============================================================================
